------------------------- MODULE SessionFSM_proofs -------------------------
(***************************************************************************)
(* Theorems about SessionFSM for every set of configurations, OPEN         *)
(* messages, address families and carp groups, with memory allocation and  *)
(* socket calls failing at will.                                           *)
(*                                                                         *)
(* Every operator of SessionFSM maps a peer that satisfies Good to one     *)
(* that does: one lemma each, in the order of the module.                  *)
(***************************************************************************)
EXTENDS SessionFSM, TLAPS

\* The families of a session with a neighbor that sends OPEN o, and what it
\* takes for graceful restart to be more than a promise: a neighbor that can
\* agree on it has a family in common.  session_graceful_restart() tells the
\* RDE of the end of the session family by family, so without one the RDE
\* would not hear of it.
Shared(c, o) ==
    IF o.unknown_mp \/ c.mp \cup o.mp # {} THEN c.mp \cap o.mp ELSE {AID_INET}

Fit(c) == \A o \in Opens : c.restart # 0 /\ o.restart = 2 => Shared(c, o) # {}

CommonFamily == \A conf \in Confs : Fit(conf)

\* A reload does not turn graceful restart on or off, ...
RestartFits(c) ==
    "reload" \in Commands => \A d \in Confs : c.restart = 0 <=> d.restart = 0

RestartKept == \A conf \in Confs : RestartFits(conf)

\* ... nor changes the group that is demoted.
GroupFits(c) ==
    "reload" \in Commands => \A d \in Confs : c.demote_group = d.demote_group

GroupKept == \A conf \in Confs : GroupFits(conf)

\* No family is RESTARTING on record whose routes are not stale, so that no
\* flush hits fresh ones; a peer without graceful restart has none on record.
Fresh(rde, neg, ann, conf) ==
    /\ rde.wiped = {}
    /\ RestartFits(conf)
    /\ ann.restart = 0 <=> conf.restart = 0
    /\ neg.restart = 2 => conf.restart # 0
    /\ \A aid \in AIDs : Restarting(neg.flags[aid]) => /\ aid \in rde.stale
                                                      /\ conf.restart # 0

\* The counters of the carp groups are what the peer has added to them, and a
\* peer without a group has added nothing.
Balanced(conf, demoted, carp) ==
    /\ conf.demote_group = NoGroup \/ GroupFits(conf)
    /\ conf.demote_group = NoGroup => demoted = 0
    /\ \A g \in Groups : carp[g] = IF conf.demote_group = g THEN demoted ELSE 0

\* The invariant of struct peer, in the parts the handlers break and mend
\* separately.  Core: what the engine has on record about the RDE is what the
\* RDE has been told.
Core(p) ==
    /\ p \in PeerType
    /\ p.rdesession <=> p.rde.state # "none"
    /\ p.rde.state = "none" => p.rde.stale = {}
    /\ \A aid \in p.rde.stale : /\ Restarting(p.neg.flags[aid])
                                /\ "RestartTimeout" \in p.timers
    /\ CommonFamily => /\ Fit(p.conf) /\ Fit(p.ann)
                       /\ p.neg.restart = 2 => p.neg.mp # {}
    /\ RestartKept => Fresh(p.rde, p.neg, p.ann, p.conf)
    /\ GroupKept => Balanced(p.conf, p.demoted, p.carp)

\* change_state(IDLE) breaks this one until session_down() or
\* session_graceful_restart() has run.
Downed(p) ==
    /\ p.rdesession => p.state = "ESTABLISHED" \/ "SessionDown" \in p.timers
    /\ p.state = "ESTABLISHED" => p.rdesession /\ "SessionDown" \notin p.timers
    /\ CommonFamily => (p.rde.state = "up" <=> p.state = "ESTABLISHED")

Mid(p) == Core(p) /\ Downed(p)

\* IMSG_SESSION_DEPENDON breaks this one until session_stop() has run.
Depend(p) == ~p.depend_ok => p.state \in {"NONE", "IDLE"}

Good(p) == Mid(p) /\ Depend(p)

\* What no handler but change_state(ESTABLISHED), the SessionDown timer and
\* those that make and delete peers does: tell the RDE of the peer or take that
\* back, bring the session up, or add to the stale routes of a session that
\* stays as it is, up or down.
Falls(p, q) ==
    /\ q.rdesession = p.rdesession
    /\ p.state # "ESTABLISHED" => q.state # "ESTABLISHED"
    /\ p.state # "ESTABLISHED" \/ q.state = "ESTABLISHED" =>
          q.rde.stale \subseteq p.rde.stale
    /\ q.reconf = "ABSENT" => p.reconf = "ABSENT"

\* What most of them leave alone besides.
Keeps(p, q) ==
    /\ Falls(p, q)
    /\ q.depend_ok = p.depend_ok /\ q.conf = p.conf
    /\ p.state # "ESTABLISHED" => q.demoted = p.demoted

\* What change_state(ESTABLISHED) does instead, ...
Rises(p, q) ==
    /\ p.state # "ESTABLISHED" /\ q.state = "ESTABLISHED"
    /\ q.rde.stale = p.rde.stale
    /\ q.reconf = "ABSENT" => p.reconf = "ABSENT"

\* ... and what the SessionDown timer leaves, and a peer that is new or gone.
Gone(p) == ~p.rdesession /\ p.state # "ESTABLISHED"

\* A peer that is not in the tree is not in use, ...
Unused(p) == p.state = "NONE" /\ p.demoted = 0 /\ p.fd = "none" /\ ~p.rq

Absent(p) == p.reconf = "ABSENT" => Unused(p)

\* ... and every step is one of the three.
Moves(p, q) ==
    /\ q.reconf = "ABSENT" => p.reconf = "ABSENT" \/ Unused(q)
    /\ Falls(p, q) \/ Rises(p, q) \/ Gone(q)

\* The configuration may become another one that fits.
ConfStays(p, q) ==
    \/ q.conf = p.conf
    \/ /\ CommonFamily => Fit(q.conf)
       /\ RestartKept => /\ RestartFits(q.conf)
                         /\ q.conf.restart = 0 <=> p.conf.restart = 0

\* The demotion stays as it is or is balanced again.
DemotionStays(p, q) ==
    \/ q.conf = p.conf /\ q.demoted = p.demoted /\ q.carp = p.carp
    \/ GroupKept => Balanced(q.conf, q.demoted, q.carp)

-----------------------------------------------------------------------------
\* Both relations are preorders.
LEMMA Chain ==
    ASSUME NEW p, NEW q, NEW r
    PROVE  /\ Falls(p, q) /\ Falls(q, r) => Falls(p, r)
           /\ Keeps(p, q) /\ Keeps(q, r) => Keeps(p, r)
           /\ Falls(p, p) /\ Keeps(p, p)
           /\ Keeps(p, q) => Falls(p, q)
           /\ Falls(p, q) /\ Gone(p) => Gone(q)
  BY DEF Falls, Keeps, Gone

\* A change that does not touch what the RDE was told, keeps the two timers
\* that guard it and does not enter or leave ESTABLISHED keeps Mid.
LEMMA Adjusted ==
    ASSUME NEW p, Mid(p), NEW q \in PeerType,
           q.rde = p.rde, q.neg = p.neg, q.rdesession = p.rdesession,
           q.ann = p.ann, ConfStays(p, q), DemotionStays(p, q),
           "RestartTimeout" \in p.timers => "RestartTimeout" \in q.timers,
           "SessionDown" \in p.timers <=> "SessionDown" \in q.timers,
           p.state = "ESTABLISHED" <=> q.state = "ESTABLISHED"
    PROVE  Mid(q)
  <1>1. RestartKept /\ Fresh(p.rde, p.neg, p.ann, p.conf)
           => Fresh(q.rde, q.neg, q.ann, q.conf)
    <2>1. CASE q.conf = p.conf
      BY Zenon, <2>1
    <2>2. CASE RestartKept => /\ RestartFits(q.conf)
                              /\ q.conf.restart = 0 <=> p.conf.restart = 0
      BY <2>2 DEF Fresh
    <2> QED BY <2>1, <2>2 DEF ConfStays
  <1>2. GroupKept /\ Balanced(p.conf, p.demoted, p.carp)
           => Balanced(q.conf, q.demoted, q.carp)
    BY Zenon DEF DemotionStays
  <1>3. CommonFamily /\ Fit(p.conf) => Fit(q.conf)
    BY Zenon DEF ConfStays
  <1> QED BY <1>1, <1>2, <1>3 DEF Mid, Core, Downed

LEMMA Harmless ==
    ASSUME NEW p, Mid(p), NEW q \in PeerType,
           q.rde = p.rde, q.neg = p.neg, q.rdesession = p.rdesession,
           q.ann = p.ann, q.conf = p.conf, q.demoted = p.demoted, q.carp = p.carp,
           "RestartTimeout" \in p.timers => "RestartTimeout" \in q.timers,
           "SessionDown" \in p.timers <=> "SessionDown" \in q.timers,
           p.state = "ESTABLISHED" <=> q.state = "ESTABLISHED"
    PROVE  Mid(q)
  BY Adjusted DEF ConfStays, DemotionStays

\* timer_set() of any timer but SessionDown.
LEMMA TimerSet ==
    ASSUME NEW p \in PeerType, NEW timer \in Timers \ {"SessionDown"}
    PROVE  /\ timer_set(p, timer) \in PeerType
           /\ Mid(p) => Mid(timer_set(p, timer))
           /\ Good(p) => Good(timer_set(p, timer))
           /\ Keeps(p, timer_set(p, timer))
           /\ timer_set(p, timer).state = p.state
  <1> DEFINE q == timer_set(p, timer)
  <1>1. /\ q \in PeerType
        /\ q.rde = p.rde /\ q.neg = p.neg /\ q.rdesession = p.rdesession
        /\ q.ann = p.ann /\ q.conf = p.conf
        /\ q.carp = p.carp /\ q.reconf = p.reconf
        /\ p.timers \subseteq q.timers
        /\ "SessionDown" \in p.timers <=> "SessionDown" \in q.timers
        /\ q.state = p.state /\ q.depend_ok = p.depend_ok /\ q.demoted = p.demoted
    BY DEF timer_set, PeerType
  <1> HIDE DEF q
  <1>2. Mid(p) => Mid(q)
    BY <1>1, Harmless
  <1> QED BY <1>1, <1>2 DEF Good, Depend, Keeps, Falls, q

\* timer_stop() of a timer that guards nothing the RDE holds.
LEMMA TimerStop ==
    ASSUME NEW p \in PeerType, NEW timer \in Timers \ {"RestartTimeout", "SessionDown"}
    PROVE  /\ timer_stop(p, timer) \in PeerType
           /\ Mid(p) => Mid(timer_stop(p, timer))
           /\ Good(p) => Good(timer_stop(p, timer))
           /\ Keeps(p, timer_stop(p, timer))
           /\ timer_stop(p, timer).state = p.state
  <1> DEFINE q == timer_stop(p, timer)
  <1>1. /\ q \in PeerType
        /\ q.rde = p.rde /\ q.neg = p.neg /\ q.rdesession = p.rdesession
        /\ q.ann = p.ann /\ q.conf = p.conf
        /\ q.carp = p.carp /\ q.reconf = p.reconf
        /\ "RestartTimeout" \in p.timers => "RestartTimeout" \in q.timers
        /\ "SessionDown" \in p.timers <=> "SessionDown" \in q.timers
        /\ q.state = p.state /\ q.depend_ok = p.depend_ok /\ q.demoted = p.demoted
    BY DEF timer_stop, PeerType
  <1> HIDE DEF q
  <1>2. Mid(p) => Mid(q)
    BY <1>1, Harmless
  <1> QED BY <1>1, <1>2 DEF Good, Depend, Keeps, Falls, q

\* start_timer_holdtime() and its kin.
LEMMA StartTimer ==
    ASSUME NEW p \in PeerType, NEW timer \in ConnTimers
    PROVE  /\ start_timer(p, timer) \in PeerType
           /\ Good(p) => Good(start_timer(p, timer))
           /\ Keeps(p, start_timer(p, timer))
           /\ start_timer(p, timer).state = p.state
  BY TimerSet, TimerStop DEF start_timer, ConnTimers, Timers

\* session_close()
LEMMA Close ==
    ASSUME NEW p \in PeerType
    PROVE  /\ session_close(p) \in PeerType
           /\ Good(p) => Good(session_close(p))
           /\ Keeps(p, session_close(p))
           /\ session_close(p).state = p.state
  <1> DEFINE q == session_close(p)
  <1>1. /\ q \in PeerType
        /\ q.rde = p.rde /\ q.neg = p.neg /\ q.rdesession = p.rdesession
        /\ q.ann = p.ann /\ q.conf = p.conf
        /\ q.carp = p.carp /\ q.reconf = p.reconf
        /\ p.timers = q.timers
        /\ q.state = p.state /\ q.depend_ok = p.depend_ok /\ q.demoted = p.demoted
    BY DEF session_close, PeerType
  <1> HIDE DEF q
  <1>2. Mid(p) => Mid(q)
    BY <1>1, Harmless
  <1> QED BY <1>1, <1>2 DEF Good, Depend, Keeps, Falls, q

\* carp_demote_set() never goes below zero.
LEMMA CarpType ==
    ASSUME NEW carp \in [Groups -> Nat], NEW group, NEW level \in Int
    PROVE  carp_demote_set(carp, group, level) \in [Groups -> Nat]
  BY DEF carp_demote_set

\* session_demote()
LEMMA SessionDemote ==
    ASSUME NEW p \in PeerType, NEW level \in Int, p.demoted + level \in 0 .. 1
    PROVE  /\ session_demote(p, level) \in PeerType
           /\ Good(p) /\ (GroupKept => p.conf.demote_group # NoGroup)
                 => Good(session_demote(p, level))
           /\ Core(p) /\ p.conf.demote_group # NoGroup /\ GroupKept
                 => Balanced(p.conf, session_demote(p, level).demoted,
                             session_demote(p, level).carp)
           /\ Falls(p, session_demote(p, level))
           /\ \A f \in {"state", "timers", "rde", "neg", "rdesession", "depend_ok",
                        "conf", "ann", "reconf"} :
                 session_demote(p, level)[f] = p[f]
  <1> DEFINE c == carp_demote_set(p.carp, p.conf.demote_group, level)
             q == [p EXCEPT !.carp = c, !.demoted = @ + level]
  <1>1. c \in [Groups -> Nat]
    BY CarpType DEF PeerType
  <1> HIDE DEF c
  <1>2. session_demote(p, level) = q
    BY DEF session_demote, c
  <1>3. q \in PeerType
    BY Zenon, <1>1 DEF PeerType
  <1>4. /\ q.rde = p.rde /\ q.neg = p.neg /\ q.rdesession = p.rdesession
        /\ q.ann = p.ann /\ q.conf = p.conf
        /\ q.reconf = p.reconf /\ p.timers = q.timers
        /\ q.state = p.state /\ q.depend_ok = p.depend_ok
        /\ q.carp = c /\ q.demoted = p.demoted + level
    BY DEF PeerType
  <1> HIDE DEF q
  <1>5. ASSUME Balanced(p.conf, p.demoted, p.carp), p.conf.demote_group # NoGroup
        PROVE  Balanced(p.conf, q.demoted, q.carp)
    <2>1. p.conf.demote_group \in Groups
      BY <1>5 DEF PeerType, ConfType
    <2>2. p.carp[p.conf.demote_group] = p.demoted /\ p.carp \in [Groups -> Nat]
      BY Zenon, <1>5, <2>1 DEF Balanced, PeerType
    <2>3. c = [p.carp EXCEPT ![p.conf.demote_group] = @ + level]
      BY <2>1, <2>2 DEF c, carp_demote_set
    <2> QED BY <1>4, <1>5, <2>1, <2>2, <2>3 DEF Balanced
  <1>6. ASSUME Mid(p), GroupKept => p.conf.demote_group # NoGroup
        PROVE  Mid(q)
    <2>1. GroupKept => Balanced(q.conf, q.demoted, q.carp)
      BY <1>4, <1>5, <1>6 DEF Mid, Core
    <2> QED BY <1>3, <1>4, <1>6, <2>1, Adjusted DEF ConfStays, DemotionStays
  <1> QED BY <1>2, <1>3, <1>4, <1>5, <1>6 DEF Good, Depend, Falls, Mid, Core

-----------------------------------------------------------------------------
\* A fresh capa.neg has its type.
LEMMA NoNegType == NoNeg \in NegType
  BY DEF NoNeg, NoFlags, NegType, GRFlags

\* The common part of change_state(IDLE) leaves the RDE's side alone.
LEMMA EnterIdleCore ==
    ASSUME NEW p, Core(p)
    PROVE  /\ Core(EnterIdle(p))
           /\ EnterIdle(p).state = "IDLE"
           /\ EnterIdle(p).depend_ok = p.depend_ok
           /\ EnterIdle(p).rdesession = p.rdesession
           /\ EnterIdle(p).rde = p.rde /\ EnterIdle(p).neg = p.neg
           /\ EnterIdle(p).reconf = p.reconf /\ EnterIdle(p).conf = p.conf
           /\ "SessionDown" \in p.timers => "SessionDown" \in EnterIdle(p).timers
           /\ p.state # "ESTABLISHED" => EnterIdle(p).demoted = p.demoted
  <1> DEFINE demote == /\ p.state = "ESTABLISHED"
                       /\ p.conf.demote_group # NoGroup
                       /\ p.demoted = 0
             q == IF demote THEN session_demote(p, 1) ELSE p
             ann == IF p.state \in {"NONE", "ESTABLISHED"}
                    THEN Announced(p.conf) ELSE q.ann
             r == [q EXCEPT !.prev_state = p.state,
                            !.state = "IDLE",
                            !.holdtime = INTERVAL_HOLD_INITIAL,
                            !.timers = @ \ ConnTimers,
                            !.fd = "none",
                            !.rq = FALSE,
                            !.ann = ann]
  <1>1. p \in PeerType
    BY DEF Core
  <1>2. /\ q \in PeerType
        /\ q.timers = p.timers /\ q.rde = p.rde /\ q.neg = p.neg
        /\ q.rdesession = p.rdesession /\ q.depend_ok = p.depend_ok
        /\ q.conf = p.conf /\ q.ann = p.ann /\ q.reconf = p.reconf
        /\ p.state # "ESTABLISHED" => q.demoted = p.demoted
        /\ GroupKept => Balanced(q.conf, q.demoted, q.carp)
    <2>1. CASE demote
      <3>1. q = session_demote(p, 1)
        BY <2>1
      <3>2. p.demoted + 1 \in 0 .. 1 /\ 1 \in Int
        BY <2>1
      <3> HIDE DEF q
      <3> QED BY <1>1, <2>1, <3>1, <3>2, SessionDemote
    <2>2. CASE ~demote
      BY <1>1, <2>2 DEF Core
    <2> QED BY <2>1, <2>2
  <1> HIDE DEF q
  <1>3. ann \in AnnType
    BY <1>1, <1>2 DEF Announced, ConfType, AnnType, PeerType
  <1>4. /\ CommonFamily => Fit(ann)
        /\ RestartKept => Fresh(p.rde, p.neg, ann, p.conf)
    BY <1>2 DEF Core, Fit, Shared, Announced, Fresh
  <1> HIDE DEF ann
  <1>5. EnterIdle(p) = r
    BY Zenon DEF EnterIdle, q, ann
  <1>6. r \in PeerType
    <2>1. q \in PeerType /\ p.state \in States /\ INTERVAL_HOLD_INITIAL \in Nat
      BY <1>1, <1>2, SessionAssumption DEF PeerType
    <2> QED BY ZenonT(30), <1>3, <2>1 DEF PeerType, States
  <1>7. /\ r.rde = p.rde /\ r.neg = p.neg /\ r.rdesession = p.rdesession
        /\ r.timers = p.timers \ ConnTimers /\ r.ann = ann
        /\ r.conf = p.conf /\ r.demoted = q.demoted /\ r.carp = q.carp
        /\ r.state = "IDLE" /\ r.depend_ok = p.depend_ok /\ r.reconf = p.reconf
        /\ p.state # "ESTABLISHED" => r.demoted = p.demoted
    BY <1>2 DEF PeerType
  <1> HIDE DEF r
  <1>8. Core(r)
    BY <1>2, <1>4, <1>6, <1>7 DEF Core, ConnTimers
  <1> QED BY <1>5, <1>7, <1>8 DEF ConnTimers

\* session_down() mends what leaving ESTABLISHED broke.
LEMMA SessionDownMid ==
    ASSUME NEW p, Core(p), p.state # "ESTABLISHED"
    PROVE  /\ Mid(session_down(p))
           /\ session_down(p).state = p.state
           /\ session_down(p).rdesession = p.rdesession
           /\ session_down(p).depend_ok = p.depend_ok
           /\ session_down(p).reconf = p.reconf /\ session_down(p).conf = p.conf
  <1> DEFINE rde == rde_session_down(p.rde)
             q == [p EXCEPT !.neg = NoNeg, !.timers = @ \cup {"SessionDown"},
                            !.rde = rde]
  <1>1. p \in PeerType /\ p.rde \in RdeType
    BY DEF Core, PeerType
  <1>2. /\ rde \in RdeType
        /\ rde.state = "none" <=> p.rde.state = "none"
        /\ rde.stale = {} /\ rde.state # "up" /\ rde.wiped = p.rde.wiped
    BY Zenon, <1>1 DEF rde_session_down, RdeType, Core
  <1> HIDE DEF rde
  <1>3. session_down(p) = q
    BY DEF session_down, rde
  <1>4. q \in PeerType
    BY Zenon, <1>1, <1>2, NoNegType DEF PeerType, Timers
  <1>5. /\ q.rde = rde /\ q.rdesession = p.rdesession
        /\ q.ann = p.ann /\ q.conf = p.conf
        /\ q.carp = p.carp /\ q.reconf = p.reconf
        /\ "SessionDown" \in q.timers /\ q.neg = NoNeg /\ q.demoted = p.demoted
        /\ q.state = p.state /\ q.depend_ok = p.depend_ok
    BY <1>1 DEF PeerType
  <1> HIDE DEF q
  <1>6. RestartKept => Fresh(q.rde, q.neg, q.ann, q.conf)
    BY <1>2, <1>5 DEF Core, Fresh, NoNeg, NoFlags, Restarting
  <1>7. Mid(q)
    BY <1>2, <1>4, <1>5, <1>6 DEF Mid, Core, Downed, NoNeg
  <1> QED BY <1>3, <1>5, <1>7

\* So does session_graceful_restart(); the families it keeps are RESTARTING
\* and RestartTimeout runs.
LEMMA GracefulMid ==
    ASSUME NEW p, Core(p), p.state # "ESTABLISHED", p.neg.restart = 2, p.rdesession
    PROVE  /\ Mid(session_graceful_restart(p))
           /\ session_graceful_restart(p).state = p.state
           /\ session_graceful_restart(p).rdesession = p.rdesession
           /\ session_graceful_restart(p).depend_ok = p.depend_ok
           /\ session_graceful_restart(p).reconf = p.reconf /\ session_graceful_restart(p).conf = p.conf
  <1> DEFINE keep == {aid \in AIDs : "PRESENT" \in p.neg.flags[aid]}
             drop == p.neg.mp \ keep
             rde == rde_session_stale(p.rde, keep, drop)
             flags == [aid \in AIDs |-> IF aid \in keep THEN {"RESTARTING"}
                                        ELSE IF aid \in drop THEN {}
                                        ELSE p.neg.flags[aid]]
             neg == [p.neg EXCEPT !.flags = flags]
             q == [p EXCEPT !.timers = @ \cup {"RestartTimeout", "SessionDown"},
                            !.rde = rde, !.neg = neg]
  <1>1. p \in PeerType /\ p.rde \in RdeType /\ p.neg \in NegType
    BY DEF Core, PeerType
  <1>2. /\ keep \in SUBSET AIDs /\ drop \in SUBSET AIDs
        /\ CommonFamily => keep \cup drop # {}
    BY <1>1 DEF NegType, Core
  <1> HIDE DEF keep, drop
  <1>3. /\ rde \in RdeType
        /\ rde.state = "none" <=> p.rde.state = "none"
        /\ p.rde.state = "none" => rde.stale = {}
        /\ rde.stale = (p.rde.stale \ drop) \cup keep
        /\ rde.wiped = p.rde.wiped
        /\ CommonFamily => rde.state # "up"
    BY Zenon, <1>1, <1>2 DEF rde_session_stale, RdeType, Core
  <1> HIDE DEF rde
  <1>4. flags \in [AIDs -> SUBSET GRFlags]
    BY <1>1, <1>2 DEF NegType, GRFlags
  <1>5. \A aid \in AIDs : /\ aid \in keep => flags[aid] = {"RESTARTING"}
                          /\ aid \in drop \ keep => flags[aid] = {}
                          /\ aid \notin keep \cup drop => flags[aid] = p.neg.flags[aid]
    OBVIOUS
  <1> HIDE DEF flags
  <1>6. /\ neg \in NegType /\ neg.flags = flags
        /\ neg.restart = p.neg.restart /\ neg.mp = p.neg.mp
    BY <1>1, <1>4 DEF NegType
  <1> HIDE DEF neg
  <1>7. session_graceful_restart(p) = q
    BY <1>1 DEF session_graceful_restart, rde, neg, flags, keep, drop, NegType, PeerType
  <1>8. q \in PeerType
    BY Zenon, <1>1, <1>3, <1>6 DEF PeerType, Timers
  <1>9. /\ q.rde = rde /\ q.neg = neg /\ q.rdesession = p.rdesession
        /\ q.ann = p.ann /\ q.conf = p.conf
        /\ q.carp = p.carp /\ q.reconf = p.reconf
        /\ "SessionDown" \in q.timers /\ "RestartTimeout" \in q.timers
        /\ q.state = p.state /\ q.depend_ok = p.depend_ok /\ q.demoted = p.demoted
    BY Zenon, <1>1 DEF PeerType
  <1> HIDE DEF q
  <1>10. ASSUME NEW aid \in rde.stale PROVE Restarting(flags[aid])
    <2>1. aid \in AIDs
      BY <1>3 DEF RdeType
    <2>2. CASE aid \in keep
      BY <2>1, <2>2, <1>5 DEF Restarting
    <2>3. CASE aid \in p.rde.stale \ (drop \cup keep)
      BY <2>1, <2>3, <1>5 DEF Core
    <2> QED BY <1>3, <2>2, <2>3
  <1>11. RestartKept => Fresh(rde, neg, p.ann, p.conf)
    <2> SUFFICES ASSUME RestartKept PROVE Fresh(rde, neg, p.ann, p.conf)
      OBVIOUS
    <2>1. Fresh(p.rde, p.neg, p.ann, p.conf)
      BY DEF Core
    <2>2. ASSUME NEW aid \in AIDs, Restarting(flags[aid])
          PROVE  aid \in rde.stale
      <3>1. CASE aid \in keep
        BY <1>3, <3>1
      <3>2. CASE aid \in drop \ keep
        BY <1>5, <2>2, <3>2 DEF Restarting
      <3>3. CASE aid \notin keep \cup drop
        BY <1>3, <1>5, <2>1, <2>2, <3>3 DEF Fresh
      <3> QED BY <3>1, <3>2, <3>3
    <2> QED BY <1>3, <1>6, <2>1, <2>2 DEF Fresh
  <1>12. Mid(q)
    BY <1>3, <1>6, <1>8, <1>9, <1>10, <1>11 DEF Mid, Core, Downed
  <1> QED BY <1>7, <1>9, <1>12

\* The idle hold time stays within its limit.
LEMMA BackoffType ==
    ASSUME NEW t \in 0 .. MAX_IDLE_HOLD
    PROVE  Backoff(t) \in 0 .. MAX_IDLE_HOLD
  BY SessionAssumption DEF Backoff

\* The end of change_state(IDLE), unless a graceful restart begins.
LEMMA Punish ==
    ASSUME NEW p, Mid(p)
    PROVE  /\ Mid(PunishIdle(p))
           /\ PunishIdle(p).state = p.state
           /\ PunishIdle(p).depend_ok = p.depend_ok
           /\ PunishIdle(p).demoted = p.demoted
           /\ PunishIdle(p).rdesession = p.rdesession
           /\ PunishIdle(p).rde = p.rde
           /\ PunishIdle(p).reconf = p.reconf /\ PunishIdle(p).conf = p.conf
  <1> DEFINE t == Backoff(p.IdleHoldTime)
             q == [p EXCEPT !.IdleHoldTime = t]
  <1>1. p \in PeerType
    BY DEF Mid, Core
  <1>2. t \in 0 .. MAX_IDLE_HOLD
    BY <1>1, BackoffType DEF PeerType
  <1> HIDE DEF t
  <1>3. /\ q \in PeerType
        /\ q.rde = p.rde /\ q.neg = p.neg /\ q.rdesession = p.rdesession
        /\ q.ann = p.ann /\ q.conf = p.conf
        /\ q.carp = p.carp /\ q.reconf = p.reconf
        /\ p.timers = q.timers
        /\ q.state = p.state /\ q.depend_ok = p.depend_ok /\ q.demoted = p.demoted
    BY <1>1, <1>2 DEF PeerType
  <1>4. PunishIdle(p) = q
    BY DEF PunishIdle, t
  <1> HIDE DEF q
  <1> QED BY <1>3, <1>4, Harmless

-----------------------------------------------------------------------------
\* change_state(IDLE), whatever the state and the event: the RDE is told what
\* it has to know.  Nothing is asked of Depend, IDLE restores it.
LEMMA Idle ==
    ASSUME NEW p, Mid(p), NEW event
    PROVE  /\ Good(change_state_idle(p, event))
           /\ Keeps(p, change_state_idle(p, event))
           /\ change_state_idle(p, event).state = "IDLE"
  <1> DEFINE q == EnterIdle(p)
             h == timer_set(q, "IdleHold")
             r == change_state_idle(p, event)
  <1>1. Core(p) /\ Downed(p)
    BY DEF Mid
  <1>2. /\ Core(q) /\ q.state = "IDLE" /\ q.depend_ok = p.depend_ok
        /\ q.rdesession = p.rdesession
        /\ q.rde = p.rde /\ q.neg = p.neg /\ q.reconf = p.reconf /\ q.conf = p.conf
        /\ p.state # "ESTABLISHED" => Mid(q) /\ q.demoted = p.demoted
    BY <1>1, EnterIdleCore DEF Downed, Mid
  <1> HIDE DEF q
  <1>3. /\ Core(h) /\ h.state = "IDLE" /\ h.depend_ok = p.depend_ok
        /\ h.rdesession = p.rdesession
        /\ h.rde = p.rde /\ h.neg = p.neg /\ h.reconf = p.reconf /\ h.conf = p.conf
        /\ p.state # "ESTABLISHED" => Mid(h) /\ h.demoted = p.demoted
    <2>1. q \in PeerType
      BY <1>2 DEF Core
    <2>2. /\ h \in PeerType /\ h.state = "IDLE" /\ h.depend_ok = p.depend_ok
          /\ Mid(q) => Mid(h)
          /\ h.demoted = q.demoted
      BY <1>2, <2>1, TimerSet DEF Timers, Keeps, Falls
    <2>3. /\ h.rde = q.rde /\ h.neg = q.neg /\ h.rdesession = q.rdesession
          /\ h.ann = q.ann /\ h.conf = q.conf
          /\ h.carp = q.carp /\ h.reconf = q.reconf
          /\ q.timers \subseteq h.timers
      BY <2>1 DEF timer_set, PeerType
    <2> HIDE DEF h
    <2>4. Core(h)
      BY <1>2, <2>2, <2>3 DEF Core
    <2> QED BY <1>2, <2>2, <2>3, <2>4
  <1> HIDE DEF h
  <1>4. /\ Mid(r) /\ r.state = "IDLE" /\ r.depend_ok = p.depend_ok
        /\ r.rdesession = p.rdesession /\ r.reconf = p.reconf /\ r.conf = p.conf
        /\ p.state # "ESTABLISHED" => r.demoted = p.demoted /\ r.rde = p.rde
    <2>1. CASE p.state = "NONE"
      BY <1>2, <2>1 DEF change_state_idle, q
    <2>2. CASE p.state = "ESTABLISHED" /\ event = "STOP"
      <3>1. r = session_down(q)
        BY <2>2 DEF change_state_idle, q
      <3> QED BY <1>2, <2>2, <3>1, SessionDownMid
    <2>3. CASE p.state = "ESTABLISHED" /\ event # "STOP" /\ GracefulEvent(p, event)
      <3>1. r = session_graceful_restart(h)
        BY <2>3 DEF change_state_idle, q, h
      <3>2. h.neg.restart = 2 /\ h.rdesession
        BY <1>1, <1>3, <2>3 DEF GracefulEvent, Downed
      <3> QED BY ZenonT(30), <1>3, <2>3, <3>1, <3>2, GracefulMid
    <2>4. CASE p.state = "ESTABLISHED" /\ event # "STOP" /\ ~GracefulEvent(p, event)
      <3>1. r = PunishIdle(session_down(h))
        BY <2>4 DEF change_state_idle, q, h
      <3> QED BY <1>3, <2>4, <3>1, SessionDownMid, Punish
    <2>5. CASE p.state \notin {"NONE", "ESTABLISHED"} /\ event = "STOP"
      <3>1. r = PunishIdle(q)
        BY <2>5 DEF change_state_idle, q
      <3> QED BY <1>2, <2>5, <3>1, Punish
    <2>6. CASE p.state \notin {"NONE", "ESTABLISHED"} /\ event # "STOP"
      <3>1. r = PunishIdle(h)
        BY <2>6 DEF change_state_idle, q, h
      <3> QED BY <1>3, <2>6, <3>1, Punish
    <2> QED BY <2>1, <2>2, <2>3, <2>4, <2>5, <2>6
  <1> HIDE DEF r
  <1>5. Good(r) /\ Keeps(p, r) /\ r.state = "IDLE"
    BY <1>4 DEF Good, Depend, Keeps, Falls
  <1> QED BY <1>5 DEF r

\* change_state() from a state other than ESTABLISHED to one the peer may be
\* in: IDLE, or any if its interface is there.
LEMMA ChangeState ==
    ASSUME NEW p, Good(p), p.state # "ESTABLISHED", p.depend_ok,
           NEW state \in States \ {"ESTABLISHED"}
    PROVE  /\ Good(change_state(p, state))
           /\ Keeps(p, change_state(p, state))
           /\ change_state(p, state).state = state
  <1> DEFINE q == change_state(p, state)
  <1>1. p \in PeerType /\ Mid(p)
    BY DEF Good, Mid, Core
  <1>2. /\ q \in PeerType
        /\ q.rde = p.rde /\ q.neg = p.neg /\ q.rdesession = p.rdesession
        /\ q.ann = p.ann /\ q.conf = p.conf
        /\ q.carp = p.carp /\ q.reconf = p.reconf
        /\ p.timers = q.timers /\ q.demoted = p.demoted
        /\ q.state = state /\ q.depend_ok = p.depend_ok
    BY Zenon, <1>1 DEF change_state, PeerType
  <1> HIDE DEF q
  <1>3. Mid(q)
    BY <1>1, <1>2, Harmless
  <1> QED BY <1>2, <1>3 DEF Good, Depend, Keeps, Falls, q

\* bgp_fsm(EVNT_CON_FATAL)
LEMMA ConFatal ==
    ASSUME NEW p, Mid(p)
    PROVE  /\ Mid(con_fatal(p))
           /\ Good(p) => Good(con_fatal(p))
           /\ Keeps(p, con_fatal(p))
           /\ con_fatal(p).state \in {"NONE", "IDLE"}
  <1>1. CASE p.state \in {"NONE", "IDLE"}
    BY <1>1 DEF con_fatal, Keeps, Falls
  <1>2. CASE p.state \notin {"NONE", "IDLE"}
    <2>1. con_fatal(p) = change_state_idle(p, "CON_FATAL")
      BY <1>2 DEF con_fatal
    <2> QED BY <2>1, Idle DEF Good
  <1> QED BY <1>1, <1>2

\* Sending: each either succeeds, or fails for want of memory.
LEMMA Sending ==
    ASSUME NEW p, Good(p), NEW in
    PROVE  /\ Good(session_keepalive(p, in)) /\ Keeps(p, session_keepalive(p, in))
           /\ Good(session_open(p, in)) /\ Keeps(p, session_open(p, in))
           /\ Good(session_rrefresh(p, in)) /\ Keeps(p, session_rrefresh(p, in))
           /\ Good(session_update(p, in)) /\ Keeps(p, session_update(p, in))
  <1>1. p \in PeerType /\ Mid(p)
    BY DEF Good, Mid, Core
  <1>2. Good(start_timer(p, "Keepalive")) /\ Keeps(p, start_timer(p, "Keepalive"))
    BY <1>1, StartTimer DEF ConnTimers
  <1>3. Good(con_fatal(p)) /\ Keeps(p, con_fatal(p))
    BY <1>1, ConFatal
  <1>4. Keeps(p, p)
    BY DEF Keeps, Falls
  <1> QED BY <1>2, <1>3, <1>4 DEF session_keepalive, session_open, session_rrefresh,
                                  session_update

\* session_notification() may be the last thing done in a state.
LEMMA Notification ==
    ASSUME NEW p, Mid(p), NEW in
    PROVE  /\ Mid(session_notification(p, in))
           /\ Good(p) => Good(session_notification(p, in))
           /\ Keeps(p, session_notification(p, in))
  BY ConFatal DEF session_notification, Keeps, Falls

\* Notification, then IDLE.
LEMMA NotifyIdle ==
    ASSUME NEW p, Mid(p), NEW event, NEW in
    PROVE  /\ Good(notify_and_idle(p, event, in))
           /\ Keeps(p, notify_and_idle(p, event, in))
           /\ notify_and_idle(p, event, in).state = "IDLE"
  <1> DEFINE q == session_notification(p, in)
  <1>1. Mid(q) /\ Keeps(p, q)
    BY Notification
  <1> HIDE DEF q
  <1>2. notify_and_idle(p, event, in) = change_state_idle(q, event)
    BY DEF notify_and_idle, q
  <1> QED BY <1>1, <1>2, Idle, Chain

\* An event without a case of its own.
LEMMA Unexpected ==
    ASSUME NEW p, Good(p), NEW event, NEW in
    PROVE  Good(unexpected(p, event, in)) /\ Keeps(p, unexpected(p, event, in))
  <1>1. Mid(p) /\ p.state \in States
    BY DEF Good, Mid, Core, PeerType
  <1>2. CASE p.state \in {"NONE", "IDLE"}
    <2>1. unexpected(p, event, in) = p
      BY <1>2 DEF unexpected, OpenStates
    <2> QED BY <2>1, Chain
  <1>3. CASE p.state \in {"CONNECT", "ACTIVE"}
    <2>1. unexpected(p, event, in) = change_state_idle(p, event)
      BY <1>3 DEF unexpected, OpenStates
    <2> QED BY <1>1, <2>1, Idle
  <1>4. CASE p.state \in OpenStates
    <2>1. unexpected(p, event, in) = notify_and_idle(p, event, in)
      BY <1>4 DEF unexpected, OpenStates
    <2> QED BY <1>1, <2>1, NotifyIdle
  <1> QED BY SMTT(30), <1>1, <1>2, <1>3, <1>4 DEF States, OpenStates

-----------------------------------------------------------------------------
\* The fields Good and Keeps look at are the same, or the configuration is
\* another one that fits, or reconf_action another one.
SameButPlain(p, q) ==
    /\ q.rde = p.rde /\ q.neg = p.neg /\ q.rdesession = p.rdesession
    /\ q.ann = p.ann /\ ConfStays(p, q) /\ DemotionStays(p, q)
    /\ q.timers = p.timers /\ q.demoted = p.demoted
    /\ q.state = p.state /\ q.depend_ok = p.depend_ok
    /\ q.reconf = "ABSENT" => p.reconf = "ABSENT"

\* A field that Good says nothing about may be assigned.
LEMMA Plain ==
    ASSUME NEW p, Good(p), NEW q \in PeerType, SameButPlain(p, q)
    PROVE  /\ Good(q) /\ Falls(p, q) /\ q.state = p.state
           /\ q.conf = p.conf => Keeps(p, q)
  <1>1. Mid(p) /\ Depend(p)
    BY DEF Good
  <1>2. Mid(q)
    BY <1>1, Adjusted DEF SameButPlain
  <1> QED BY <1>1, <1>2 DEF Good, Depend, Keeps, Falls, SameButPlain

\* peer->rbuf
LEMMA AssignRq ==
    ASSUME NEW p, Good(p), NEW v \in BOOLEAN
    PROVE  /\ Good([p EXCEPT !.rq = v])
           /\ Keeps(p, [p EXCEPT !.rq = v])
           /\ [p EXCEPT !.rq = v].state = p.state
  <1> DEFINE q == [p EXCEPT !.rq = v]
  <1>1. p \in PeerType
    BY DEF Good, Mid, Core
  <1>2. q \in PeerType /\ SameButPlain(p, q) /\ q.conf = p.conf
    BY <1>1 DEF PeerType, SameButPlain, ConfStays, DemotionStays
  <1> HIDE DEF q
  <1>3. Good(q) /\ Keeps(p, q) /\ q.state = p.state
    BY <1>2, Plain
  <1> QED BY <1>3 DEF q

\* peer->holdtime
LEMMA AssignHoldtime ==
    ASSUME NEW p, Good(p), NEW v \in Nat
    PROVE  /\ Good([p EXCEPT !.holdtime = v])
           /\ Keeps(p, [p EXCEPT !.holdtime = v])
           /\ [p EXCEPT !.holdtime = v].state = p.state
  <1> DEFINE q == [p EXCEPT !.holdtime = v]
  <1>1. p \in PeerType
    BY DEF Good, Mid, Core
  <1>2. q \in PeerType /\ SameButPlain(p, q) /\ q.conf = p.conf
    BY <1>1 DEF PeerType, SameButPlain, ConfStays, DemotionStays
  <1> HIDE DEF q
  <1>3. Good(q) /\ Keeps(p, q) /\ q.state = p.state
    BY <1>2, Plain
  <1> QED BY <1>3 DEF q

\* peer->fd
LEMMA AssignFd ==
    ASSUME NEW p, Good(p), NEW v \in {"none", "out", "in", "stale"}
    PROVE  /\ Good([p EXCEPT !.fd = v])
           /\ Keeps(p, [p EXCEPT !.fd = v])
           /\ [p EXCEPT !.fd = v].state = p.state
  <1> DEFINE q == [p EXCEPT !.fd = v]
  <1>1. p \in PeerType
    BY DEF Good, Mid, Core
  <1>2. q \in PeerType /\ SameButPlain(p, q) /\ q.conf = p.conf
    BY <1>1 DEF PeerType, SameButPlain, ConfStays, DemotionStays
  <1> HIDE DEF q
  <1>3. Good(q) /\ Keeps(p, q) /\ q.state = p.state
    BY <1>2, Plain
  <1> QED BY <1>3 DEF q

\* peer->IdleHoldTime
LEMMA AssignIdleHold ==
    ASSUME NEW p, Good(p), NEW v \in 0 .. MAX_IDLE_HOLD
    PROVE  /\ Good([p EXCEPT !.IdleHoldTime = v])
           /\ Keeps(p, [p EXCEPT !.IdleHoldTime = v])
           /\ [p EXCEPT !.IdleHoldTime = v].state = p.state
  <1> DEFINE q == [p EXCEPT !.IdleHoldTime = v]
  <1>1. p \in PeerType
    BY DEF Good, Mid, Core
  <1>2. q \in PeerType /\ SameButPlain(p, q) /\ q.conf = p.conf
    BY <1>1 DEF PeerType, SameButPlain, ConfStays, DemotionStays
  <1> HIDE DEF q
  <1>3. Good(q) /\ Keeps(p, q) /\ q.state = p.state
    BY <1>2, Plain
  <1> QED BY <1>3 DEF q

\* EVNT_CON_OPEN: whether or not the OPEN could be queued.
LEMMA ConOpen ==
    ASSUME NEW p, Good(p), p.depend_ok, p.state # "ESTABLISHED", NEW in
    PROVE  Good(con_open(p, in)) /\ Keeps(p, con_open(p, in))
  <1> DEFINE a == [p EXCEPT !.rq = TRUE]
             b == session_open(a, in)
             c == timer_stop(b, "ConnectRetry")
             d == [c EXCEPT !.holdtime = INTERVAL_HOLD_INITIAL]
             e == start_timer(d, "Hold")
  <1>1. Good(a) /\ Keeps(p, a)
    BY Zenon, AssignRq
  <1> HIDE DEF a
  <1>2. Good(b) /\ Keeps(a, b)
    BY Zenon, <1>1, Sending
  <1> HIDE DEF b
  <1>3. Good(c) /\ Keeps(b, c)
    BY Zenon, <1>2, TimerStop DEF Good, Mid, Core, Timers
  <1> HIDE DEF c
  <1>4. Good(d) /\ Keeps(c, d)
    BY Zenon, <1>3, AssignHoldtime, SessionAssumption
  <1> HIDE DEF d
  <1>5. Good(e) /\ Keeps(d, e)
    BY Zenon, <1>4, StartTimer DEF Good, Mid, Core, ConnTimers
  <1> HIDE DEF e
  <1>6. Keeps(p, e) /\ e.state # "ESTABLISHED" /\ e.depend_ok
    <2>1. Keeps(p, b)
      BY <1>1, <1>2, Chain
    <2>2. Keeps(p, d)
      BY <1>3, <1>4, <2>1, Chain
    <2>3. Keeps(p, e)
      BY <1>5, <2>2, Chain
    <2> QED BY <2>3 DEF Keeps, Falls
  <1>7. Good(change_state(e, "OPENSENT")) /\ Keeps(e, change_state(e, "OPENSENT"))
    BY <1>5, <1>6, ChangeState DEF States
  <1>8. con_open(p, in) = change_state(e, "OPENSENT")
    BY DEF con_open, a, b, c, d, e
  <1> QED BY <1>6, <1>7, <1>8, Chain

\* EVNT_CON_OPENFAIL
LEMMA ConOpenFail ==
    ASSUME NEW p, Good(p), p.depend_ok, p.state # "ESTABLISHED"
    PROVE  Good(con_openfail(p)) /\ Keeps(p, con_openfail(p))
  <1> DEFINE a == timer_set(p, "ConnectRetry")
             b == session_close(a)
  <1>1. Good(a) /\ Keeps(p, a)
    BY ZenonT(30), TimerSet DEF Good, Mid, Core, Timers
  <1> HIDE DEF a
  <1>2. Good(b) /\ Keeps(a, b)
    BY Zenon, <1>1, Close DEF Good, Mid, Core
  <1> HIDE DEF b
  <1>3. Keeps(p, b) /\ b.state # "ESTABLISHED" /\ b.depend_ok
    BY <1>1, <1>2, Chain DEF Keeps, Falls
  <1>4. Good(change_state(b, "ACTIVE")) /\ Keeps(b, change_state(b, "ACTIVE"))
    BY <1>2, <1>3, ChangeState DEF States
  <1>5. con_openfail(p) = change_state(b, "ACTIVE")
    BY DEF con_openfail, a, b
  <1> QED BY Zenon, <1>3, <1>4, <1>5, Chain

\* session_connect(), with any outcome of connect().
LEMMA Connect ==
    ASSUME NEW p, Good(p), p.depend_ok, p.state # "ESTABLISHED", NEW in \in Inputs
    PROVE  Good(session_connect(p, in)) /\ Keeps(p, session_connect(p, in))
  <1> DEFINE o == [p EXCEPT !.fd = "out"]
  <1>1. Good(o) /\ Keeps(p, o)
    BY Zenon, AssignFd
  <1>2. o.depend_ok /\ o.state # "ESTABLISHED"
    BY <1>1 DEF Keeps, Falls
  <1> HIDE DEF o
  <1>3. Good(con_open(o, in)) /\ Keeps(o, con_open(o, in))
    BY <1>1, <1>2, ConOpen
  <1>4. Keeps(p, con_open(o, in))
    BY <1>1, <1>3 DEF Keeps, Falls
  <1>5. Good(con_openfail(p)) /\ Keeps(p, con_openfail(p))
    BY ConOpenFail
  <1>6. in.sock \in {"fail", "inprogress", "ok"}
    BY DEF Inputs
  <1>7. session_connect(p, in) \in {p, con_openfail(p), o, con_open(o, in)}
    BY <1>6 DEF session_connect, o
  <1>8. Keeps(p, p)
    BY DEF Keeps, Falls
  <1> QED BY <1>1, <1>3, <1>4, <1>5, <1>7, <1>8

\* ConnectRetry, CONNECT, session_connect()
LEMMA ConnectNow ==
    ASSUME NEW p, Good(p), p.depend_ok, p.state # "ESTABLISHED", NEW in \in Inputs
    PROVE  Good(connect_now(p, in)) /\ Keeps(p, connect_now(p, in))
  <1> DEFINE a == timer_set(p, "ConnectRetry")
             b == change_state(a, "CONNECT")
  <1>1. Good(a) /\ Keeps(p, a)
    BY Zenon, TimerSet DEF Good, Mid, Core, Timers
  <1> HIDE DEF a
  <1>2. a.depend_ok /\ a.state # "ESTABLISHED"
    BY <1>1 DEF Keeps, Falls
  <1>3. Good(b) /\ Keeps(a, b)
    BY Zenon, <1>1, <1>2, ChangeState DEF States
  <1> HIDE DEF b
  <1>4. Keeps(p, b) /\ b.depend_ok /\ b.state # "ESTABLISHED"
    BY <1>1, <1>2, <1>3, Chain DEF Keeps, Falls
  <1>5. Good(session_connect(b, in)) /\ Keeps(b, session_connect(b, in))
    BY <1>3, <1>4, Connect
  <1>6. connect_now(p, in) = session_connect(b, in)
    BY DEF connect_now, a, b
  <1> QED BY Zenon, <1>4, <1>5, <1>6, Chain

-----------------------------------------------------------------------------
\* EVNT_START in IDLE and ACTIVE; without the interface, IDLE stays IDLE.
LEMMA Start ==
    ASSUME NEW p, Good(p), NEW in \in Inputs
    PROVE  Good(fsm_start(p, in)) /\ Keeps(p, fsm_start(p, in))
  <1> DEFINE q == [p EXCEPT !.timers = @ \ {"Hold", "SendHold", "Keepalive", "IdleHold"}]
             a == change_state(q, "ACTIVE")
             r == fsm_start(p, in)
  <1>1. p \in PeerType /\ Mid(p) /\ Depend(p)
    BY DEF Good, Mid, Core
  <1>2. /\ q \in PeerType
        /\ q.rde = p.rde /\ q.neg = p.neg /\ q.rdesession = p.rdesession
        /\ q.ann = p.ann /\ q.conf = p.conf
        /\ q.carp = p.carp /\ q.reconf = p.reconf
        /\ "RestartTimeout" \in p.timers => "RestartTimeout" \in q.timers
        /\ "SessionDown" \in p.timers <=> "SessionDown" \in q.timers
        /\ q.state = p.state /\ q.depend_ok = p.depend_ok /\ q.demoted = p.demoted
    BY <1>1 DEF PeerType
  <1> HIDE DEF q
  <1>3. Good(q) /\ Keeps(p, q)
    <2>1. Mid(q)
      BY SMTT(30), <1>1, <1>2, Harmless
    <2> QED BY <1>1, <1>2, <2>1 DEF Good, Depend, Keeps, Falls
  <1>4. ASSUME p.state = "IDLE", p.depend_ok PROVE Good(a) /\ Keeps(p, a)
    <2>1. Good(a) /\ Keeps(q, a)
      BY Zenon, <1>2, <1>3, <1>4, ChangeState DEF States
    <2> QED BY <1>2, <1>3, <2>1 DEF Keeps, Falls
  <1> HIDE DEF a
  <1>11. Good(a) => a \in PeerType
    BY Zenon DEF Good, Mid, Core
  <1>10. "ConnectRetry" \in Timers \ {"RestartTimeout", "SessionDown"}
    BY DEF Timers
  <1>5. CASE p.state = "IDLE" /\ ~p.depend_ok
    <2>1. r = timer_stop(q, "ConnectRetry")
      BY <1>5 DEF fsm_start, q
    <2>2. Good(r) /\ Keeps(q, r)
      BY <1>2, <1>3, <2>1, TimerStop DEF Timers
    <2> QED BY <1>2, <2>2 DEF Keeps, Falls
  <1>6. CASE p.state = "IDLE" /\ p.depend_ok /\ p.conf.passive
    <2>1. r = timer_stop(a, "ConnectRetry")
      BY ZenonT(30), <1>6 DEF fsm_start, q, a
    <2>2. Good(r) /\ Keeps(a, r)
      BY Zenon, <1>4, <1>6, <1>11, <1>10, <2>1, TimerStop
    <2> QED BY Zenon, <1>4, <1>6, <2>2 DEF Keeps, Falls
  <1>7. CASE p.state = "IDLE" /\ p.depend_ok /\ ~p.conf.passive
    <2>1. r = timer_set(a, "ConnectRetry") \/ r = connect_now(q, in)
      BY <1>7 DEF fsm_start, q, a
    <2>2. CASE r = timer_set(a, "ConnectRetry")
      <3>1. Good(r) /\ Keeps(a, r)
        BY Zenon, <1>4, <1>7, <1>11, <1>10, <2>2, TimerSet
      <3> QED BY ZenonT(30), <1>4, <1>7, <3>1 DEF Keeps, Falls
    <2>3. CASE r = connect_now(q, in)
      <3>1. Good(r) /\ Keeps(q, r)
        BY Zenon, <1>2, <1>3, <1>7, <2>3, ConnectNow
      <3> QED BY <1>2, <3>1 DEF Keeps, Falls
    <2> QED BY <2>1, <2>2, <2>3
  <1>8. CASE p.state = "ACTIVE" /\ p.depend_ok
    <2>1. r = connect_now(p, in)
      BY <1>8 DEF fsm_start
    <2> QED BY <1>8, <2>1, ConnectNow
  <1>9. CASE p.state # "IDLE" /\ ~(p.state = "ACTIVE" /\ p.depend_ok)
    <2>1. r = p
      BY <1>9 DEF fsm_start
    <2> QED BY <2>1 DEF Keeps, Falls
  <1> QED BY SMTT(30), <1>5, <1>6, <1>7, <1>8, <1>9

\* EVNT_STOP, also when the interface has just gone.
LEMMA Stop ==
    ASSUME NEW p, Mid(p)
    PROVE  Good(fsm_stop(p)) /\ Keeps(p, fsm_stop(p))
  <1>1. p \in PeerType
    BY DEF Mid, Core
  <1>2. CASE p.state = "NONE"
    <2>1. fsm_stop(p) = p
      BY <1>2 DEF fsm_stop
    <2> QED BY <1>2, <2>1, Chain DEF Good, Depend
  <1>3. CASE p.state = "IDLE"
    <2>1. fsm_stop(p) = timer_stop(p, "IdleHold")
      BY <1>3 DEF fsm_stop
    <2>2. Good(p)
      BY <1>3 DEF Good, Depend
    <2> QED BY <1>1, <2>1, <2>2, TimerStop DEF Timers
  <1>4. CASE p.state \notin {"NONE", "IDLE"}
    <2>1. fsm_stop(p) = change_state_idle(p, "STOP")
      BY <1>4 DEF fsm_stop
    <2> QED BY <2>1, Idle
  <1> QED BY <1>2, <1>3, <1>4

\* session_stop()
LEMMA SessionStop ==
    ASSUME NEW p, Mid(p), NEW in
    PROVE  Good(session_stop(p, in)) /\ Keeps(p, session_stop(p, in))
  <1> DEFINE q == session_notification(p, in)
  <1>1. Mid(q) /\ Keeps(p, q)
    BY Notification
  <1> HIDE DEF q
  <1>2. session_stop(p, in) = fsm_stop(q)
    BY DEF session_stop, q
  <1> QED BY <1>1, <1>2, Stop, Chain

\* EVNT_CON_CLOSED
LEMMA ConClosed ==
    ASSUME NEW p, Good(p)
    PROVE  Good(fsm_con_closed(p)) /\ Keeps(p, fsm_con_closed(p))
  <1>1. p \in PeerType /\ Mid(p) /\ Depend(p)
    BY DEF Good, Mid, Core
  <1>2. CASE p.state \in {"NONE", "IDLE"}
    <2>1. fsm_con_closed(p) = p
      BY <1>2 DEF fsm_con_closed
    <2> QED BY <2>1, Chain
  <1>3. CASE p.state = "OPENSENT"
    <2> DEFINE a == session_close(p)
               b == timer_set(a, "ConnectRetry")
    <2>1. Good(a) /\ a \in PeerType /\ Keeps(p, a)
      BY <1>1, Close
    <2> HIDE DEF a
    <2>2. Good(b) /\ Keeps(a, b)
      BY ZenonT(30), <2>1, TimerSet DEF Timers
    <2> HIDE DEF b
    <2>3. Keeps(p, b) /\ b.state # "ESTABLISHED" /\ b.depend_ok
      BY <1>1, <1>3, <2>1, <2>2, Chain DEF Keeps, Falls, Depend
    <2>4. fsm_con_closed(p) = change_state(b, "ACTIVE")
      BY <1>3 DEF fsm_con_closed, a, b
    <2> QED BY <2>2, <2>3, <2>4, ChangeState, Chain DEF States
  <1>4. CASE p.state \notin {"NONE", "IDLE", "OPENSENT"}
    <2>1. fsm_con_closed(p) = change_state_idle(p, "CON_CLOSED")
      BY <1>4 DEF fsm_con_closed
    <2> QED BY <1>1, <2>1, Idle
  <1> QED BY ZenonT(30), <1>2, <1>3, <1>4

\* EVNT_TIMER_CONNRETRY
LEMMA ConnRetry ==
    ASSUME NEW p, Good(p), NEW in \in Inputs
    PROVE  Good(fsm_timer_connretry(p, in)) /\ Keeps(p, fsm_timer_connretry(p, in))
  <1>1. p \in PeerType /\ Depend(p)
    BY DEF Good, Mid, Core
  <1>2. CASE p.state = "CONNECT"
    <2> DEFINE a == timer_set(p, "ConnectRetry")
    <2>1. Good(a) /\ Keeps(p, a)
      BY <1>1, TimerSet DEF Timers
    <2> HIDE DEF a
    <2>2. a.state # "ESTABLISHED" /\ a.depend_ok
      BY <1>1, <1>2, <2>1 DEF Keeps, Falls, Depend
    <2>3. fsm_timer_connretry(p, in) = session_connect(a, in)
      BY <1>2 DEF fsm_timer_connretry, a
    <2> QED BY <2>1, <2>2, <2>3, Connect, Chain
  <1>3. CASE p.state = "ACTIVE"
    <2>1. fsm_timer_connretry(p, in) = connect_now(p, in)
      BY <1>3 DEF fsm_timer_connretry
    <2> QED BY <1>1, <1>3, <2>1, ConnectNow DEF Depend
  <1>4. CASE p.state \notin {"CONNECT", "ACTIVE"}
    <2>1. fsm_timer_connretry(p, in) = unexpected(p, "TIMER_CONNRETRY", in)
      BY <1>4 DEF fsm_timer_connretry
    <2> QED BY <2>1, Unexpected
  <1> QED BY <1>2, <1>3, <1>4

-----------------------------------------------------------------------------
\* change_state(ESTABLISHED) and session_up(): the RDE is told of the peer
\* first, if it does not know it.
LEMMA Established ==
    ASSUME NEW p, Good(p), p.depend_ok
    PROVE  /\ Good(change_state_established(p))
           /\ change_state_established(p).state = "ESTABLISHED"
           /\ change_state_established(p).rde.stale = p.rde.stale
           /\ change_state_established(p).reconf = p.reconf
  <1> DEFINE a == [p EXCEPT !.prev_state = p.state, !.state = "ESTABLISHED",
                            !.timers = @ \cup {"IdleHoldReset"}]
             b == IF p.demoted > 0 THEN timer_set(a, "CarpUndemote") ELSE a
             rde == rde_session_up(IF b.rdesession THEN b.rde
                                   ELSE rde_session_add(b.rde))
             q == [b EXCEPT !.timers = @ \ {"SessionDown"}, !.rdesession = TRUE,
                            !.rde = rde]
  <1>1. p \in PeerType /\ Core(p)
    BY DEF Good, Mid, Core
  <1>2. /\ a \in PeerType
        /\ a.rde = p.rde /\ a.neg = p.neg /\ a.rdesession = p.rdesession
        /\ a.ann = p.ann /\ a.conf = p.conf
        /\ a.carp = p.carp /\ a.reconf = p.reconf
        /\ p.timers \subseteq a.timers
        /\ a.state = "ESTABLISHED" /\ a.depend_ok /\ a.demoted = p.demoted
    BY ZenonT(30), <1>1 DEF PeerType, States, Timers
  <1> HIDE DEF a
  <1>3. /\ b \in PeerType
        /\ b.rde = p.rde /\ b.neg = p.neg /\ b.rdesession = p.rdesession
        /\ b.ann = p.ann /\ b.conf = p.conf
        /\ b.carp = p.carp /\ b.reconf = p.reconf
        /\ p.timers \subseteq b.timers
        /\ b.state = "ESTABLISHED" /\ b.depend_ok /\ b.demoted = p.demoted
    <2>1. CASE p.demoted > 0
      <3>1. b = timer_set(a, "CarpUndemote")
        BY <2>1
      <3> HIDE DEF b
      <3> QED BY <1>2, <3>1 DEF timer_set, PeerType, Timers
    <2> QED BY <1>2, <2>1
  <1> HIDE DEF b
  <1>4. b.rde \in RdeType
    BY <1>3 DEF PeerType
  <1>5. /\ rde \in RdeType /\ rde.state = "up"
        /\ rde.stale = p.rde.stale /\ rde.wiped = p.rde.wiped
    BY <1>1, <1>3, <1>4 DEF Core, rde_session_up, rde_session_add, RdeType
  <1> HIDE DEF rde
  <1>6. /\ q \in PeerType
        /\ q.rde = rde /\ q.neg = p.neg /\ q.rdesession
        /\ q.ann = p.ann /\ q.conf = p.conf
        /\ q.carp = p.carp /\ q.reconf = p.reconf
        /\ "RestartTimeout" \in p.timers => "RestartTimeout" \in q.timers
        /\ "SessionDown" \notin q.timers
        /\ q.state = "ESTABLISHED" /\ q.depend_ok /\ q.demoted = p.demoted
    BY Zenon, <1>3, <1>5 DEF PeerType
  <1>7. change_state_established(p) = q
    BY DEF change_state_established, session_up, a, b, rde
  <1> HIDE DEF q
  <1>8. RestartKept => Fresh(q.rde, q.neg, q.ann, q.conf)
    BY ZenonT(30), <1>1, <1>5, <1>6 DEF Core, Fresh
  <1>9. Good(q)
    BY <1>1, <1>5, <1>6, <1>8 DEF Good, Mid, Core, Downed, Depend
  <1> QED BY Zenon, <1>5, <1>6, <1>7, <1>9

\* EVNT_TIMER_KEEPALIVE, and a keepalive, an update or a notification received.
LEMMA Received ==
    ASSUME NEW p, Good(p), NEW kind, NEW in
    PROVE  /\ Good(fsm_timer_keepalive(p, in)) /\ Keeps(p, fsm_timer_keepalive(p, in))
           /\ Good(fsm_rcvd_keepalive(p, in))
           /\ \/ Keeps(p, fsm_rcvd_keepalive(p, in))
              \/ Rises(p, fsm_rcvd_keepalive(p, in))
           /\ Good(fsm_rcvd_update(p, in)) /\ Keeps(p, fsm_rcvd_update(p, in))
           /\ Good(fsm_rcvd_notification(p, kind, in))
           /\ Keeps(p, fsm_rcvd_notification(p, kind, in))
  <1>1. p \in PeerType /\ Mid(p) /\ Depend(p)
    BY DEF Good, Mid, Core
  <1> DEFINE h == start_timer(p, "Hold")
             k == fsm_rcvd_keepalive(p, in)
  <1>2. Good(h) /\ Keeps(p, h)
    BY <1>1, StartTimer DEF ConnTimers
  <1>3. Good(fsm_timer_keepalive(p, in)) /\ Keeps(p, fsm_timer_keepalive(p, in))
    BY Sending, Unexpected DEF fsm_timer_keepalive
  <1>4. Good(fsm_rcvd_update(p, in)) /\ Keeps(p, fsm_rcvd_update(p, in))
    BY <1>2, Unexpected DEF fsm_rcvd_update
  <1>5. Good(k) /\ (Keeps(p, k) \/ Rises(p, k))
    <2>1. CASE p.state = "OPENCONFIRM"
      <3>1. k = change_state_established(h)
        BY <2>1 DEF fsm_rcvd_keepalive
      <3>2. h.rde = p.rde /\ h.reconf = p.reconf
        BY <1>1 DEF start_timer, timer_set, timer_stop, PeerType
      <3>3. h.depend_ok
        BY <1>1, <1>2, <2>1 DEF Keeps, Falls, Depend
      <3> HIDE DEF h, k
      <3> QED BY <1>2, <2>1, <3>1, <3>2, <3>3, Established DEF Rises
    <2>2. CASE p.state = "ESTABLISHED"
      <3>1. k = h
        BY <2>2 DEF fsm_rcvd_keepalive
      <3> QED BY <1>2, <3>1
    <2>3. CASE p.state \notin {"OPENCONFIRM", "ESTABLISHED"}
      <3>1. k = unexpected(p, "RCVD_KEEPALIVE", in)
        BY <2>3 DEF fsm_rcvd_keepalive
      <3> QED BY <3>1, Unexpected
    <2> QED BY <2>1, <2>2, <2>3
  <1>6. Good(parse_notification(p, kind)) /\ Keeps(p, parse_notification(p, kind))
    BY <1>1, Idle DEF parse_notification
  <1>7. /\ Good(fsm_rcvd_notification(p, kind, in))
        /\ Keeps(p, fsm_rcvd_notification(p, kind, in))
    BY <1>6, Unexpected DEF fsm_rcvd_notification
  <1> QED BY <1>3, <1>4, <1>5, <1>7

\* capa_neg_calc(): a family whose restart is pending either comes back and
\* stays RESTARTING or is flushed.
LEMMA CapaNegCalc ==
    ASSUME NEW p, Good(p), NEW o \in Opens
    PROVE  Good(capa_neg_calc(p, o)) /\ Keeps(p, capa_neg_calc(p, o))
  <1> DEFINE both == p.ann.mp \cap o.mp
             hasmp == o.unknown_mp \/ p.ann.mp \cup o.mp # {}
             mp == IF hasmp THEN both ELSE {AID_INET}
             peerflags == [aid \in AIDs |->
                              {"PRESENT" : x \in {aid} \cap o.present \cap mp}
                              \cup {"FORWARD" : x \in {aid} \cap o.forward \cap mp}]
             pending == {aid \in AIDs : Restarting(p.neg.flags[aid])}
             back == {aid \in pending : p.ann.restart # 0
                                        /\ "FORWARD" \in peerflags[aid]}
             flags == IF p.ann.restart = 0 THEN p.neg.flags
                      ELSE [aid \in AIDs |->
                               IF aid \in back THEN peerflags[aid] \cup {"RESTARTING"}
                               ELSE peerflags[aid]]
             rde == rde_session_flush(p.rde, pending \ back)
             neg == [mp |-> mp, flags |-> flags,
                     restart |-> IF p.ann.restart = 0 THEN 0 ELSE o.restart,
                     grnotification |-> p.ann.grnotification /\ o.grnotification,
                     refresh |-> p.ann.refresh /\ o.refresh]
             q == [p EXCEPT !.rde = rde, !.neg = neg]
  <1>1. /\ p \in PeerType /\ Core(p)
        /\ p.rde \in RdeType /\ p.neg \in NegType /\ p.ann \in AnnType
    BY DEF Good, Mid, Core, PeerType
  <1>2. o \in OpenType
    BY Zenon, SessionAssumption
  <1>3. /\ mp \in SUBSET AIDs
        /\ CommonFamily /\ p.ann.restart # 0 /\ o.restart = 2 => mp # {}
    <2>1. mp \in SUBSET AIDs
      BY <1>1, <1>2, SessionAssumption DEF AnnType, OpenType
    <2>2. mp = Shared(p.ann, o)
      BY DEF Shared
    <2> QED BY <1>1, <2>1, <2>2 DEF Core, Fit
  <1> HIDE DEF mp
  <1>4. \A aid \in AIDs : peerflags[aid] \subseteq {"PRESENT", "FORWARD"}
    OBVIOUS
  <1>5. peerflags \in [AIDs -> SUBSET {"PRESENT", "FORWARD"}]
    OBVIOUS
  <1> HIDE DEF peerflags
  <1>6. /\ back \subseteq pending /\ pending \subseteq AIDs
        /\ p.ann.restart = 0 => back = {}
    OBVIOUS
  <1>7. p.rde.stale \subseteq pending
    BY <1>1 DEF Core, RdeType
  <1>15. RestartKept => /\ pending = p.rde.stale
                        /\ p.ann.restart = 0 => pending = {}
    BY <1>1, <1>7 DEF Core, Fresh
  <1> HIDE DEF back
  <1>8. flags \in [AIDs -> SUBSET GRFlags]
    BY <1>1, <1>5 DEF NegType, GRFlags
  <1>9. \A aid \in back : Restarting(flags[aid])
    BY <1>4, <1>6 DEF Restarting
  <1>16. \A aid \in AIDs : Restarting(flags[aid]) =>
             aid \in back \/ (p.ann.restart = 0 /\ aid \in pending)
    BY <1>4, <1>6 DEF Restarting
  <1> HIDE DEF flags, pending
  <1>10. /\ rde \in RdeType
         /\ rde.state = p.rde.state
         /\ rde.stale \subseteq back
         /\ rde.state = "none" => rde.stale = {}
         /\ rde.stale \subseteq p.rde.stale
    BY Zenon, <1>1, <1>6, <1>7 DEF rde_session_flush, RdeType, Core
  <1>17. RestartKept => rde.wiped = {} /\ rde.stale = back
    <2>1. CASE p.rde.state = "none"
      BY Zenon, <1>1, <1>6, <1>15, <2>1 DEF rde_session_flush, Core, Fresh
    <2>2. CASE p.rde.state # "none"
      BY SMTT(30), <1>1, <1>6, <1>15, <2>2 DEF rde_session_flush, Core, Fresh, RdeType
    <2> QED BY <2>1, <2>2
  <1> HIDE DEF rde
  <1>11. /\ neg \in NegType /\ neg.flags = flags
         /\ neg.restart = 2 => p.ann.restart # 0
         /\ CommonFamily /\ neg.restart = 2 => neg.mp # {}
    BY <1>1, <1>2, <1>3, <1>8 DEF NegType, AnnType, OpenType
  <1> HIDE DEF neg
  <1>12. /\ q \in PeerType
         /\ q.rde = rde /\ q.neg = neg /\ q.rdesession = p.rdesession
         /\ q.ann = p.ann /\ q.conf = p.conf
         /\ q.carp = p.carp /\ q.reconf = p.reconf
         /\ q.timers = p.timers /\ q.demoted = p.demoted
         /\ q.state = p.state /\ q.depend_ok = p.depend_ok
    <2>1. p \in PeerType /\ rde \in RdeType /\ neg \in NegType
      BY <1>1, <1>10, <1>11
    <2> QED BY ONLY Zenon, <2>1 DEF PeerType
  <1>13. capa_neg_calc(p, o) = q
    BY DEF capa_neg_calc, rde, neg, flags, back, pending, peerflags, mp
  <1> HIDE DEF q
  <1>14. Good(q) /\ Keeps(p, q)
    <2>4. RestartKept => Fresh(rde, neg, p.ann, p.conf)
      <3> SUFFICES ASSUME RestartKept PROVE Fresh(rde, neg, p.ann, p.conf)
        OBVIOUS
      <3>1. /\ RestartFits(p.conf) /\ (p.ann.restart = 0 <=> p.conf.restart = 0)
            /\ rde.wiped = {} /\ (p.ann.restart = 0 => pending = {})
        BY Zenon, <1>1, <1>15, <1>17 DEF Core, Fresh
      <3>2. ASSUME NEW aid \in AIDs, Restarting(neg.flags[aid])
            PROVE  aid \in rde.stale /\ p.conf.restart # 0
        BY ZenonT(30), <1>6, <1>11, <1>16, <1>17, <3>1, <3>2
      <3> QED BY Zenon, <1>11, <3>1, <3>2 DEF Fresh
    <2>1. Core(q)
      BY <1>1, <1>9, <1>10, <1>11, <1>12, <2>4 DEF Core
    <2>2. Downed(q) /\ Depend(q)
      BY Zenon, <1>10, <1>12 DEF Good, Mid, Downed, Depend
    <2>3. Keeps(p, q)
      BY <1>10, <1>12 DEF Keeps, Falls
    <2> QED BY <2>1, <2>2, <2>3 DEF Good, Mid
  <1> QED BY SMTT(30), <1>13, <1>14

\* parse_open() and what follows in OPENSENT, accepted or refused.
LEMMA RcvdOpenGood ==
    ASSUME NEW p, Good(p), NEW o \in Opens, NEW in
    PROVE  Good(fsm_rcvd_open(p, o, in)) /\ Keeps(p, fsm_rcvd_open(p, o, in))
  <1> DEFINE hold == IF o.holdtime < p.conf.holdtime THEN o.holdtime
                     ELSE p.conf.holdtime
             a == [p EXCEPT !.holdtime = hold]
             n == capa_neg_calc(a, o)
             k == session_keepalive(n, in)
             r == parse_open(p, o, in)
  <1>1. p \in PeerType /\ Mid(p) /\ Depend(p) /\ o \in OpenType
    BY SessionAssumption DEF Good, Mid, Core
  <1>2. hold \in Nat
    BY <1>1 DEF PeerType, ConfType, OpenType
  <1> HIDE DEF hold
  <1>3. Good(a) /\ Keeps(p, a)
    BY <1>2, AssignHoldtime
  <1> HIDE DEF a
  <1>4. Good(n) /\ Keeps(p, n)
    BY Zenon, <1>3, CapaNegCalc, Chain
  <1> HIDE DEF n
  <1>5. Good(k) /\ Keeps(p, k)
    BY Zenon, <1>4, Sending, Chain
  <1> HIDE DEF k
  <1>6. ASSUME p.state = "OPENSENT" PROVE Good(r) /\ Keeps(p, r)
    <2>1. CASE o.parse = "ok"
      <3>1. r = change_state(k, "OPENCONFIRM")
        BY <2>1 DEF parse_open, hold, a, n, k
      <3>2. k.state # "ESTABLISHED" /\ k.depend_ok
        BY <1>1, <1>5, <1>6 DEF Keeps, Falls, Depend
      <3> QED BY <1>5, <3>1, <3>2, ChangeState, Chain DEF States
    <2>2. CASE o.parse = "bad"
      <3>1. r = notify_and_idle(p, "RCVD_OPEN", in)
        BY <2>2 DEF parse_open
      <3> QED BY <1>1, <3>1, NotifyIdle
    <2>3. CASE o.parse = "as0"
      <3>1. r = change_state_idle(notify_and_idle(p, "RCVD_OPEN", in), "RCVD_OPEN")
        BY <2>3 DEF parse_open
      <3>2. /\ Mid(notify_and_idle(p, "RCVD_OPEN", in))
            /\ Keeps(p, notify_and_idle(p, "RCVD_OPEN", in))
        BY <1>1, NotifyIdle DEF Good
      <3> QED BY <3>1, <3>2, Idle, Chain
    <2>4. CASE o.parse = "refused"
      <3>1. r = notify_and_idle(n, "RCVD_OPEN", in)
        BY <2>4 DEF parse_open, hold, a, n
      <3> QED BY <1>4, <3>1, NotifyIdle, Chain DEF Good
    <2> QED BY <1>1, <2>1, <2>2, <2>3, <2>4 DEF OpenType
  <1> HIDE DEF r
  <1>7. CASE p.state = "OPENSENT"
    BY <1>6, <1>7 DEF fsm_rcvd_open, r
  <1>8. CASE p.state # "OPENSENT"
    BY <1>8, Unexpected DEF fsm_rcvd_open
  <1> QED BY SMTT(30), <1>7, <1>8

-----------------------------------------------------------------------------
\* A peer that has just been configured, or is no longer there.
Born(p, reconf) == Good(p) /\ Gone(p) /\ Unused(p) /\ p.reconf = reconf

LEMMA NewPeer ==
    ASSUME NEW conf \in ConfType, NEW carp \in [Groups -> Nat],
           NEW reconf \in {"REINIT", "CLONE", "NONE", "DELETE", "ABSENT"},
           CommonFamily => Fit(conf),
           RestartKept => RestartFits(conf), GroupKept => Balanced(conf, 0, carp)
    PROVE  /\ Born(new_peer(conf, reconf, carp), reconf)
           /\ \A depend_ok \in BOOLEAN :
                 Born([new_peer(conf, reconf, carp) EXCEPT !.depend_ok = depend_ok], reconf)
  <1> DEFINE p == new_peer(conf, reconf, carp)
             d(depend_ok) == [p EXCEPT !.depend_ok = depend_ok]
  <1>1. /\ Announced(conf) \in AnnType /\ (CommonFamily => Fit(Announced(conf)))
        /\ RestartKept => Fresh(rde_session_delete, NoNeg, Announced(conf), conf)
    BY DEF Announced, ConfType, AnnType, Fit, Shared, Fresh, rde_session_delete, NoNeg,
           NoFlags, Restarting
  <1>2. rde_session_delete \in RdeType
    BY DEF rde_session_delete, RdeType
  <1>3. 0 \in 0 .. MAX_IDLE_HOLD
    BY SMTT(30), SessionAssumption
  <1>4. p \in PeerType
    BY <1>1, <1>2, <1>3, NoNegType DEF new_peer, PeerType, States
  <1>5. /\ p.state = "NONE" /\ p.demoted = 0 /\ p.rdesession = FALSE
        /\ p.rde = rde_session_delete /\ p.neg = NoNeg
        /\ p.conf = conf /\ p.ann = Announced(conf)
        /\ p.carp = carp /\ p.reconf = reconf /\ p.fd = "none" /\ p.rq = FALSE
    BY Zenon DEF new_peer
  <1> HIDE DEF p
  <1>6. ASSUME NEW x \in PeerType, x.state = "NONE", x.demoted = 0, x.rdesession = FALSE,
               x.rde = rde_session_delete, x.neg = NoNeg, x.fd = "none", x.rq = FALSE,
               x.conf = conf, x.ann = Announced(conf), x.carp = carp, x.reconf = reconf
        PROVE  Born(x, reconf)
    <2>1. /\ rde_session_delete.state = "none" /\ rde_session_delete.stale = {}
          /\ NoNeg.restart # 2
      BY DEF rde_session_delete, NoNeg
    <2>2. GroupKept => Balanced(x.conf, x.demoted, x.carp)
      BY Zenon, <1>6
    <2>3. Core(x)
      BY Zenon, <1>1, <1>6, <2>1, <2>2 DEF Core
    <2> QED BY SMTT(30), <1>6, <2>3 DEF Good, Mid, Downed, Depend, Gone, rde_session_delete, Born,
                              Unused
  <1>7. ASSUME NEW depend_ok \in BOOLEAN PROVE Born(d(depend_ok), reconf)
    <2> DEFINE x == d(depend_ok)
    <2>1. /\ x \in PeerType
          /\ x.state = "NONE" /\ x.demoted = 0 /\ x.rdesession = FALSE
          /\ x.rde = rde_session_delete /\ x.neg = NoNeg /\ x.fd = "none" /\ x.rq = FALSE
          /\ x.conf = conf /\ x.ann = Announced(conf)
          /\ x.carp = carp /\ x.reconf = reconf
      BY <1>4, <1>5 DEF PeerType
    <2> HIDE DEF x
    <2>2. Born(x, reconf)
      BY Zenon, <1>6, <2>1
    <2> QED BY <2>2 DEF x
  <1>8. Born(p, reconf)
    BY Zenon, <1>4, <1>5, <1>6
  <1> QED BY ZenonT(30), <1>7, <1>8 DEF p

\* Every configuration will do for a peer that is not demoted.
LEMMA ConfsFit ==
    ASSUME NEW p, Good(p), p.demoted = 0, NEW conf \in Confs
    PROVE  /\ p.carp \in [Groups -> Nat]
           /\ conf \in ConfType /\ (CommonFamily => Fit(conf))
           /\ RestartKept => RestartFits(conf)
           /\ GroupKept => Balanced(conf, 0, p.carp)
  <1>1. /\ p.carp \in [Groups -> Nat]
        /\ conf \in ConfType /\ (CommonFamily => Fit(conf))
        /\ RestartKept => RestartFits(conf)
    BY ZenonT(30), SessionAssumption DEF Good, Mid, Core, PeerType, CommonFamily, RestartKept
  <1>2. GroupKept => GroupFits(conf) /\ \A g \in Groups : p.carp[g] = 0
    BY DEF Good, Mid, Core, Balanced, GroupKept
  <1> QED BY Zenon, <1>1, <1>2 DEF Balanced

\* init_peer(): a clone is demoted at once, so it must not be demoted yet.
LEMMA InitPeerGood ==
    ASSUME NEW p, Mid(p), NEW in \in Inputs,
           p.reconf # "REINIT" => p.state = "NONE" /\ p.demoted = 0
    PROVE  /\ Good(init_peer(p, in)) /\ Falls(p, init_peer(p, in))
           /\ init_peer(p, in).reconf = "NONE"
  <1> DEFINE a == [p EXCEPT !.depend_ok = @ \/ ~p.conf.if_depend]
             q == change_state_idle(a, "NONE")
             r == IF p.conf.down THEN q ELSE fsm_start(q, in)
             s == IF p.reconf # "REINIT" /\ p.conf.demote_group # NoGroup
                  THEN session_demote(r, 1) ELSE r
  <1>1. p \in PeerType
    BY DEF Mid, Core
  <1>2. /\ a \in PeerType
        /\ a.rde = p.rde /\ a.neg = p.neg /\ a.rdesession = p.rdesession
        /\ a.ann = p.ann /\ a.conf = p.conf
        /\ a.carp = p.carp /\ a.reconf = p.reconf
        /\ p.timers = a.timers /\ a.demoted = p.demoted /\ a.state = p.state
    BY Zenon, <1>1 DEF PeerType, ConfType
  <1> HIDE DEF a
  <1>3. Mid(a) /\ Falls(p, a)
    BY <1>2, Harmless DEF Falls
  <1>4. Good(q) /\ Keeps(a, q) /\ Falls(p, q)
    BY <1>3, Idle, Chain
  <1> HIDE DEF q
  <1>5. /\ Good(r) /\ Falls(p, r) /\ (p.state = "NONE" => r.demoted = p.demoted)
        /\ r.conf = p.conf
    <2>1. /\ p.state = "NONE" => q.state # "ESTABLISHED" /\ q.demoted = p.demoted
          /\ q.conf = p.conf
      BY <1>2, <1>4 DEF Keeps, Falls
    <2>2. Good(fsm_start(q, in)) /\ Keeps(q, fsm_start(q, in))
      BY <1>4, Start
    <2>3. /\ p.state = "NONE" => fsm_start(q, in).demoted = p.demoted
          /\ fsm_start(q, in).conf = p.conf
      BY <2>1, <2>2 DEF Keeps, Falls
    <2> QED BY Zenon, <1>4, <2>1, <2>2, <2>3, Chain
  <1> HIDE DEF r
  <1>6. Good(s) /\ Falls(p, s)
    <2>1. r \in PeerType
      BY <1>5 DEF Good, Mid, Core
    <2>2. CASE p.reconf # "REINIT" /\ p.conf.demote_group # NoGroup
      <3>1. r.demoted + 1 \in 0 .. 1 /\ 1 \in Int
        BY <1>5, <2>2
      <3>2. Good(session_demote(r, 1)) /\ Falls(r, session_demote(r, 1))
        BY SMTT(30), <1>5, <2>1, <2>2, <3>1, SessionDemote
      <3>3. Falls(p, session_demote(r, 1))
        BY ZenonT(30), <1>5, <3>2, Chain
      <3> QED BY <2>2, <3>2, <3>3
    <2>3. CASE ~(p.reconf # "REINIT" /\ p.conf.demote_group # NoGroup)
      BY <1>5, <2>3
    <2> QED BY ZenonT(30), <2>2, <2>3
  <1>7. init_peer(p, in) = [s EXCEPT !.reconf = "NONE"]
    BY Zenon DEF init_peer, a, q, r
  <1> HIDE DEF s
  <1> DEFINE z == [s EXCEPT !.reconf = "NONE"]
  <1>8. s \in PeerType
    BY <1>6 DEF Good, Mid, Core
  <1>9. z \in PeerType /\ SameButPlain(s, z) /\ z.reconf = "NONE"
    BY <1>8 DEF PeerType, SameButPlain, ConfStays, DemotionStays
  <1> HIDE DEF z
  <1>10. Good(z) /\ Falls(p, z)
    BY Zenon, <1>6, <1>9, Plain, Chain
  <1> QED BY <1>7, <1>9, <1>10 DEF z

\* getpeerbyip() with a template: the clone is set up and started.
LEMMA ClonePeer ==
    ASSUME NEW p, Good(p), p.demoted = 0, NEW conf \in Confs,
           NEW depend_ok \in BOOLEAN, NEW in \in Inputs
    PROVE  /\ Good(clone_peer(p, conf, depend_ok, in))
           /\ Gone(clone_peer(p, conf, depend_ok, in))
           /\ clone_peer(p, conf, depend_ok, in).reconf # "ABSENT"
  <1> DEFINE n == [new_peer(conf, "CLONE", p.carp) EXCEPT !.depend_ok = depend_ok]
             a == init_peer(n, in)
             b == timer_set(a, "SessionDown")
  <1>1. /\ p.carp \in [Groups -> Nat]
        /\ conf \in ConfType /\ (CommonFamily => Fit(conf))
        /\ RestartKept => RestartFits(conf)
        /\ GroupKept => Balanced(conf, 0, p.carp)
    BY ConfsFit
  <1>2. Good(n) /\ Gone(n) /\ n.state = "NONE" /\ n.demoted = 0
    BY <1>1, NewPeer DEF Born, Unused
  <1> HIDE DEF n
  <1>3. Good(a) /\ Gone(a) /\ a \in PeerType /\ a.reconf = "NONE"
    <2>1. Good(a) /\ Falls(n, a) /\ a.reconf = "NONE"
      BY Zenon, <1>2, InitPeerGood DEF Good
    <2> QED BY Zenon, <1>2, <2>1, Chain DEF Good, Mid, Core
  <1> HIDE DEF a
  <1>4. Good(b) /\ Gone(b) /\ b.reconf = "NONE"
    <2>1. /\ b \in PeerType
          /\ b.rde = a.rde /\ b.neg = a.neg /\ b.rdesession = a.rdesession
          /\ b.ann = a.ann /\ b.conf = a.conf
          /\ b.carp = a.carp /\ b.reconf = a.reconf
          /\ a.timers \subseteq b.timers /\ b.state = a.state
          /\ b.depend_ok = a.depend_ok /\ b.demoted = a.demoted
      BY SMTT(30), <1>3 DEF timer_set, PeerType, Timers
    <2> HIDE DEF b
    <2>2. Core(b)
      BY <1>3, <2>1 DEF Good, Mid, Core
    <2> QED BY <1>3, <2>1, <2>2 DEF Good, Mid, Downed, Depend, Gone
  <1> HIDE DEF b
  <1>5. clone_peer(p, conf, depend_ok, in) = fsm_start(b, in)
    BY DEF clone_peer, n, a, b
  <1>6. Good(fsm_start(b, in)) /\ Falls(b, fsm_start(b, in))
    BY Zenon, <1>4, Start, Chain
  <1> QED BY Zenon, <1>4, <1>5, <1>6, Chain DEF Falls

\* ESTABLISHED -> CONNECT: a graceful restart without going through IDLE.
LEMMA ConnectGraceful ==
    ASSUME NEW p, Good(p), p.depend_ok, p.state = "ESTABLISHED", p.neg.restart = 2
    PROVE  LET q == change_state_connect_graceful(p)
           IN  Good(q) /\ Falls(p, q) /\ q.depend_ok /\ q.state = "CONNECT"
  <1> DEFINE a == [p EXCEPT !.prev_state = p.state, !.state = "CONNECT"]
             g == session_graceful_restart(a)
             q == [g EXCEPT !.holdtime = INTERVAL_HOLD_INITIAL,
                            !.timers = @ \ ConnTimers, !.fd = "none", !.rq = FALSE]
  <1>1. p \in PeerType /\ Core(p)
    BY DEF Good, Mid, Core
  <1>2. /\ a \in PeerType
        /\ a.rde = p.rde /\ a.neg = p.neg /\ a.rdesession = p.rdesession
        /\ a.ann = p.ann /\ a.conf = p.conf
        /\ a.carp = p.carp /\ a.reconf = p.reconf
        /\ p.timers = a.timers /\ a.state = "CONNECT" /\ a.depend_ok
        /\ a.demoted = p.demoted
    BY ZenonT(30), <1>1 DEF PeerType, States
  <1> HIDE DEF a
  <1>3. Core(a)
    BY <1>1, <1>2 DEF Core
  <1>4. /\ Mid(g) /\ g.state = "CONNECT" /\ g.depend_ok /\ g.rdesession = p.rdesession
        /\ g.reconf = p.reconf
    <2>1. p.rdesession
      BY DEF Good, Mid, Downed
    <2> QED BY Zenon, <1>2, <1>3, <2>1, GracefulMid
  <1> HIDE DEF g
  <1>5. g \in PeerType
    BY <1>4 DEF Mid, Core
  <1>6. /\ q \in PeerType
        /\ q.rde = g.rde /\ q.neg = g.neg /\ q.rdesession = g.rdesession
        /\ q.ann = g.ann /\ q.conf = g.conf
        /\ q.carp = g.carp /\ q.reconf = g.reconf
        /\ "RestartTimeout" \in g.timers => "RestartTimeout" \in q.timers
        /\ "SessionDown" \in g.timers <=> "SessionDown" \in q.timers
        /\ q.state = "CONNECT" /\ q.depend_ok /\ q.demoted = g.demoted
    BY Zenon, <1>4, <1>5, SessionAssumption DEF PeerType, ConnTimers
  <1> HIDE DEF q
  <1>7. Mid(q)
    BY <1>4, <1>6, Harmless
  <1>8. change_state_connect_graceful(p) = q
    BY DEF change_state_connect_graceful, a, g, q
  <1> QED BY ZenonT(30), <1>4, <1>6, <1>7, <1>8 DEF Good, Depend, Falls

\* session_accept() from open: on, with any outcome of its checks.
LEMMA AcceptOpen ==
    ASSUME NEW p, Good(p), p.depend_ok, p.state # "ESTABLISHED",
           NEW outcome \in AcceptOutcomes, NEW in
    PROVE  Good(accept_open(p, outcome, in)) /\ Keeps(p, accept_open(p, outcome, in))
  <1> DEFINE i == [p EXCEPT !.fd = "in"]
  <1>1. Good(i) /\ Keeps(p, i)
    BY Zenon, AssignFd
  <1>2. i.depend_ok /\ i.state # "ESTABLISHED"
    BY <1>1 DEF Keeps, Falls
  <1> HIDE DEF i
  <1>3. Good(con_open(i, in)) /\ Keeps(p, con_open(i, in))
    BY <1>1, <1>2, ConOpen, Chain
  <1>4. Good([p EXCEPT !.fd = "stale"]) /\ Keeps(p, [p EXCEPT !.fd = "stale"])
    BY Zenon, AssignFd
  <1>5. accept_open(p, outcome, in) \in {p, [p EXCEPT !.fd = "stale"], con_open(i, in)}
    BY DEF accept_open, AcceptOutcomes, i
  <1> QED BY <1>3, <1>4, <1>5, Chain

\* session_accept()
LEMMA SessionAccept ==
    ASSUME NEW p, Good(p), NEW outcome \in AcceptOutcomes, NEW in
    PROVE  Good(session_accept(p, outcome, in)) /\ Falls(p, session_accept(p, outcome, in))
  <1> DEFINE r == session_accept(p, outcome, in)
  <1>1. p \in PeerType /\ Depend(p)
    BY DEF Good, Mid, Core
  <1>2. CASE p.state = "CONNECT"
    <2> DEFINE c == session_close(p)
    <2>1. Good(c) /\ Keeps(p, c)
      BY <1>1, Close
    <2>2. c.depend_ok /\ c.state # "ESTABLISHED"
      BY <1>1, <1>2, <2>1 DEF Keeps, Falls, Depend
    <2> HIDE DEF c
    <2>3. r = accept_open(c, outcome, in)
      BY <1>2 DEF session_accept, c
    <2> QED BY <2>1, <2>2, <2>3, AcceptOpen, Chain
  <1>3. CASE p.state = "ACTIVE" /\ p.fd = "none"
    <2>1. r = accept_open(p, outcome, in)
      BY <1>3 DEF session_accept
    <2> QED BY <1>1, <1>3, <2>1, AcceptOpen, Chain DEF Depend
  <1>4. CASE p.state = "ESTABLISHED" /\ p.neg.restart = 2
    <2> DEFINE g == change_state_connect_graceful(p)
    <2>1. Good(g) /\ Falls(p, g) /\ g.depend_ok /\ g.state = "CONNECT"
      BY <1>1, <1>4, ConnectGraceful DEF Depend
    <2> HIDE DEF g
    <2>2. r = accept_open(g, outcome, in)
      BY <1>4 DEF session_accept, g
    <2> QED BY <2>1, <2>2, AcceptOpen, Chain
  <1>5. CASE /\ p.state # "CONNECT"
             /\ ~(p.state = "ACTIVE" /\ p.fd = "none")
             /\ ~(p.state = "ESTABLISHED" /\ p.neg.restart = 2)
    <2>1. r = p
      BY <1>5 DEF session_accept
    <2> QED BY <2>1, Chain
  <1> QED BY <1>2, <1>3, <1>4, <1>5

\* Any change of the configuration, by a reload or a command.
LEMMA AssignConf ==
    ASSUME NEW p, Good(p), NEW conf \in ConfType, CommonFamily => Fit(conf),
           RestartKept => RestartFits(conf) /\ (conf.restart = 0 <=> p.conf.restart = 0),
           GroupKept => Balanced(conf, p.demoted, p.carp)
    PROVE  /\ Good([p EXCEPT !.conf = conf])
           /\ Falls(p, [p EXCEPT !.conf = conf])
           /\ [p EXCEPT !.conf = conf].conf = conf
           /\ [p EXCEPT !.conf = conf].demoted = p.demoted
  <1> DEFINE q == [p EXCEPT !.conf = conf]
  <1>1. p \in PeerType
    BY DEF Good, Mid, Core
  <1>2. q \in PeerType /\ SameButPlain(p, q) /\ q.conf = conf
    BY SMTT(30), <1>1 DEF PeerType, SameButPlain, ConfStays, DemotionStays
  <1> HIDE DEF q
  <1>3. Good(q) /\ Falls(p, q)
    BY <1>2, Plain, Chain
  <1> QED BY Zenon, <1>2, <1>3 DEF q, SameButPlain

\* The deletion of a peer; the one that is left is the absent one.
LEMMA DeletePeerGood ==
    ASSUME NEW p, Good(p), NEW in
    PROVE  /\ Good(delete_peer(p, in)) /\ Gone(delete_peer(p, in))
           /\ Unused(delete_peer(p, in))
  <1> DEFINE q == IF p.demoted > 0 THEN session_demote(p, -1) ELSE p
             conf == [q.conf EXCEPT !.demote_group = NoGroup]
             d == [q EXCEPT !.conf = conf]
             r == session_stop(d, in)
  <1>1. p \in PeerType
    BY DEF Good, Mid, Core
  <1>2. Good(q) /\ q.demoted = 0
    <2>1. CASE p.demoted > 0
      <3>1. p.demoted + (-1) \in 0 .. 1 /\ p.demoted + (-1) = 0 /\ -1 \in Int
        BY SMTT(30), <1>1, <2>1 DEF PeerType
      <3>2. GroupKept => p.conf.demote_group # NoGroup
        BY <2>1 DEF Good, Mid, Core, Balanced
      <3>3. Good(session_demote(p, -1))
        BY <1>1, <3>1, <3>2, SessionDemote
      <3>4. session_demote(p, -1).demoted = 0
        BY <1>1, <3>1 DEF session_demote, PeerType
      <3> QED BY <2>1, <3>3, <3>4
    <2>2. CASE ~(p.demoted > 0)
      BY SMTT(30), <1>1, <2>2 DEF PeerType
    <2> QED BY <2>1, <2>2
  <1> HIDE DEF q
  <1>3. q \in PeerType
    BY <1>2 DEF Good, Mid, Core
  <1>4. /\ conf \in ConfType /\ (CommonFamily => Fit(conf))
        /\ RestartKept => RestartFits(conf) /\ (conf.restart = 0 <=> q.conf.restart = 0)
        /\ GroupKept => Balanced(conf, q.demoted, q.carp)
        /\ conf.demote_group = NoGroup
    <2>1. /\ q.conf \in ConfType /\ conf \in ConfType
          /\ conf.mp = q.conf.mp /\ conf.restart = q.conf.restart
          /\ conf.demote_group = NoGroup
      BY Zenon, <1>3 DEF PeerType, ConfType
    <2> HIDE DEF conf
    <2>2. /\ CommonFamily => Fit(conf)
          /\ RestartKept => RestartFits(conf)
      BY ZenonT(30), <1>2, <2>1 DEF Good, Mid, Core, Fit, Shared, Fresh, RestartFits
    <2>3. GroupKept => Balanced(conf, q.demoted, q.carp)
      BY <1>2, <2>1, SessionAssumption DEF Good, Mid, Core, Balanced
    <2> QED BY <2>1, <2>2, <2>3
  <1> HIDE DEF conf
  <1>5. Good(d) /\ d.conf = conf
    BY <1>2, <1>4, AssignConf
  <1>6. [q EXCEPT !.conf.demote_group = NoGroup] = d
    BY <1>3 DEF conf, PeerType
  <1> HIDE DEF d
  <1>7. Good(r) /\ r.conf = conf
    BY <1>5, SessionStop DEF Good, Keeps
  <1>8. delete_peer(p, in) = new_peer(r.conf, "ABSENT", r.carp)
    BY Zenon, <1>6 DEF delete_peer, q, r
  <1> HIDE DEF r
  <1>9. /\ r.conf \in ConfType /\ r.carp \in [Groups -> Nat]
        /\ CommonFamily => Fit(r.conf)
        /\ RestartKept => RestartFits(r.conf)
        /\ GroupKept => Balanced(r.conf, 0, r.carp)
    BY Zenon, <1>4, <1>7 DEF Good, Mid, Core, PeerType, Fresh, Balanced
  <1>10. "ABSENT" \in {"REINIT", "CLONE", "NONE", "DELETE", "ABSENT"}
    OBVIOUS
  <1>11. Born(new_peer(r.conf, "ABSENT", r.carp), "ABSENT")
    BY Zenon, <1>9, <1>10, NewPeer
  <1> QED BY SMTT(30), <1>8, <1>11 DEF Born

\* merge_peers() for a peer that stays.
LEMMA MergePeer ==
    ASSUME NEW p, Good(p), NEW conf \in Confs, "reload" \in Commands
    PROVE  Good(merge_peer(p, conf)) /\ Falls(p, merge_peer(p, conf))
  <1> DEFINE q == [p EXCEPT !.conf = conf,
                            !.rde = IF p.rdesession THEN rde_session_add(@) ELSE @]
             c == [p EXCEPT !.conf = conf]
  <1>1. p \in PeerType /\ Core(p) /\ p.rde \in RdeType
    BY DEF Good, Mid, Core, PeerType
  <1>2. (IF p.rdesession THEN rde_session_add(p.rde) ELSE p.rde) = p.rde
    BY <1>1 DEF rde_session_add, Core, RdeType
  <1>3. q = c
    BY Zenon, <1>1, <1>2 DEF PeerType
  <1>9. /\ conf \in ConfType /\ (CommonFamily => Fit(conf))
        /\ RestartKept => RestartFits(conf) /\ (conf.restart = 0 <=> p.conf.restart = 0)
        /\ GroupKept => Balanced(conf, p.demoted, p.carp)
    <2>1. conf \in ConfType /\ (CommonFamily => Fit(conf))
      BY Zenon, SessionAssumption DEF CommonFamily
    <2>2. RestartKept => RestartFits(conf) /\ (conf.restart = 0 <=> p.conf.restart = 0)
      BY ZenonT(30), <1>1 DEF Core, Fresh, RestartKept, RestartFits
    <2>3. GroupKept => Balanced(conf, p.demoted, p.carp)
      BY <1>1 DEF Core, Balanced, GroupKept, GroupFits
    <2> QED BY <2>1, <2>2, <2>3
  <1>4. Good(c) /\ Falls(p, c) /\ c.demoted = p.demoted /\ c.conf = conf
    BY ZenonT(30), <1>9, AssignConf
  <1> HIDE DEF q, c
  <1>5. /\ Good(q) /\ Falls(p, q) /\ q \in PeerType /\ q.demoted = p.demoted
        /\ q.demoted > 0 /\ GroupKept => q.conf.demote_group # NoGroup
    <2>1. Good(q) /\ Falls(p, q) /\ q.demoted = p.demoted
      BY Zenon, <1>3, <1>4, <1>9
    <2>2. q \in PeerType /\ (GroupKept => Balanced(q.conf, q.demoted, q.carp))
      BY Zenon, <2>1 DEF Good, Mid, Core
    <2>3. q.demoted > 0 /\ GroupKept => q.conf.demote_group # NoGroup
      BY <2>2 DEF Balanced
    <2> QED BY Zenon, <2>1, <2>2, <2>3
  <1>6. q.demoted > 0 => q.demoted + (-1) \in 0 .. 1
    BY SMTT(30), <1>5 DEF PeerType
  <1>7. q.demoted > 0 => /\ Good(session_demote(q, -1))
                         /\ Falls(p, session_demote(q, -1))
    BY <1>5, <1>6, SessionDemote, Chain
  <1>8. merge_peer(p, conf) \in {q, session_demote(q, -1)}
        /\ (merge_peer(p, conf) # q => q.demoted > 0)
    BY DEF merge_peer, q
  <1> QED BY SMTT(30), <1>5, <1>7, <1>8

-----------------------------------------------------------------------------
\* Timer_RestartTimeout: nothing is stale any more, so nothing need guard it.
LEMMA GracefulStop ==
    ASSUME NEW p, Good(p)
    PROVE  /\ Good(session_graceful_stop(timer_stop(p, "RestartTimeout")))
           /\ Falls(p, session_graceful_stop(timer_stop(p, "RestartTimeout")))
  <1> DEFINE a == timer_stop(p, "RestartTimeout")
             aids == {aid \in AIDs : Restarting(p.neg.flags[aid])}
             rde == rde_session_flush(p.rde, aids)
             flags == [aid \in AIDs |-> p.neg.flags[aid] \cup {"FINISHED"}]
             neg == [p.neg EXCEPT !.flags = flags]
             q == [a EXCEPT !.rde = rde, !.neg = neg]
  <1>1. /\ p \in PeerType /\ Core(p) /\ Downed(p) /\ Depend(p)
        /\ p.rde \in RdeType /\ p.neg \in NegType
    BY DEF Good, Mid, Core, PeerType
  <1>2. /\ a \in PeerType
        /\ a.rde = p.rde /\ a.neg = p.neg /\ a.rdesession = p.rdesession
        /\ a.ann = p.ann /\ a.conf = p.conf
        /\ a.carp = p.carp /\ a.reconf = p.reconf
        /\ "SessionDown" \in p.timers <=> "SessionDown" \in a.timers
        /\ a.state = p.state /\ a.depend_ok = p.depend_ok /\ a.demoted = p.demoted
    BY SMTT(30), <1>1 DEF timer_stop, PeerType
  <1> HIDE DEF a
  <1>3. /\ aids \in SUBSET AIDs /\ p.rde.stale \subseteq aids
        /\ RestartKept => aids \ p.rde.stale = {} /\ p.rde.wiped = {}
    BY <1>1 DEF Core, RdeType, Fresh
  <1>4. session_graceful_stop(a) = q
    BY Zenon, <1>1, <1>2 DEF session_graceful_stop, PeerType, NegType
  <1> HIDE DEF aids
  <1>5. rde \in RdeType /\ rde.stale = {} /\ rde.state = p.rde.state
    BY Zenon, <1>1, <1>3 DEF rde_session_flush, RdeType, Core
  <1>10. RestartKept => rde.wiped = {}
    BY <1>1, <1>3 DEF rde_session_flush, RdeType
  <1> HIDE DEF rde
  <1>6. flags \in [AIDs -> SUBSET GRFlags]
    BY <1>1 DEF NegType, GRFlags
  <1>11. \A aid \in AIDs : ~Restarting(flags[aid])
    BY DEF Restarting
  <1> HIDE DEF flags
  <1>7. /\ neg \in NegType /\ neg.restart = p.neg.restart /\ neg.mp = p.neg.mp
        /\ neg.flags = flags
    BY <1>1, <1>6 DEF NegType
  <1> HIDE DEF neg
  <1>8. /\ q \in PeerType
        /\ q.rde = rde /\ q.neg = neg /\ q.rdesession = p.rdesession
        /\ q.ann = p.ann /\ q.conf = p.conf
        /\ q.carp = p.carp /\ q.reconf = p.reconf
        /\ "SessionDown" \in p.timers <=> "SessionDown" \in q.timers
        /\ q.state = p.state /\ q.depend_ok = p.depend_ok /\ q.demoted = p.demoted
    BY Zenon, <1>2, <1>5, <1>7 DEF PeerType
  <1> HIDE DEF q
  <1>9. Good(q) /\ Falls(p, q)
    <2>2. RestartKept => Fresh(q.rde, q.neg, q.ann, q.conf)
      BY Zenon, <1>1, <1>7, <1>8, <1>10, <1>11 DEF Core, Fresh
    <2>1. Core(q)
      BY Zenon, <1>1, <1>5, <1>7, <1>8, <2>2 DEF Core
    <2> QED BY Zenon, <1>1, <1>5, <1>8, <2>1 DEF Good, Mid, Downed, Depend, Falls
  <1> QED BY SMTT(30), <1>4, <1>9 DEF a

\* Timer_SessionDown: the RDE forgets the peer.
LEMMA SessionDownTimer ==
    ASSUME NEW p, Good(p), "SessionDown" \in p.timers, NEW in,
           \A aid \in AIDs : ~Restarting(p.neg.flags[aid])
    PROVE  /\ Good(timer_handler(p, "SessionDown", in))
           /\ Gone(timer_handler(p, "SessionDown", in))
           /\ timer_handler(p, "SessionDown", in).reconf = "ABSENT" => p.reconf = "ABSENT"
  <1> DEFINE a == timer_stop(p, "SessionDown")
             reconf == IF IsClone THEN "DELETE" ELSE a.reconf
             q == [a EXCEPT !.rde = rde_session_delete, !.rdesession = FALSE,
                            !.reconf = reconf]
  <1>1. p \in PeerType /\ Core(p) /\ Depend(p) /\ p.state # "ESTABLISHED"
    BY DEF Good, Mid, Core, Downed
  <1>2. /\ a \in PeerType /\ a.state = p.state /\ a.depend_ok = p.depend_ok
        /\ a.neg = p.neg /\ a.ann = p.ann /\ a.conf = p.conf
        /\ a.carp = p.carp /\ a.reconf = p.reconf /\ a.demoted = p.demoted
    BY <1>1 DEF timer_stop, PeerType
  <1>3. timer_handler(p, "SessionDown", in) = q
    BY DEF timer_handler
  <1> HIDE DEF a
  <1>4. /\ reconf \in {"REINIT", "CLONE", "NONE", "DELETE", "ABSENT"}
        /\ reconf = "ABSENT" => p.reconf = "ABSENT"
    BY SMTT(30), <1>2 DEF PeerType
  <1> HIDE DEF reconf
  <1>5. rde_session_delete \in RdeType
    BY DEF rde_session_delete, RdeType
  <1>6. /\ q \in PeerType
        /\ q.rde = rde_session_delete /\ q.rdesession = FALSE
        /\ q.neg = p.neg /\ q.ann = p.ann /\ q.conf = p.conf
        /\ q.carp = p.carp /\ q.reconf = reconf /\ q.demoted = p.demoted
        /\ q.state = p.state /\ q.depend_ok = p.depend_ok
    BY Zenon, <1>2, <1>4, <1>5 DEF PeerType
  <1> HIDE DEF q
  <1>7. Good(q) /\ Gone(q)
    <2>2. RestartKept => Fresh(q.rde, q.neg, q.ann, q.conf)
      BY SMTT(30), <1>1, <1>6 DEF Core, Fresh, rde_session_delete
    <2>1. Core(q)
      BY <1>1, <1>6, <2>2 DEF Core, rde_session_delete
    <2> QED BY SMTT(30), <1>1, <1>6, <2>1 DEF Good, Mid, Downed, Depend, Gone, rde_session_delete
  <1> QED BY ZenonT(30), <1>3, <1>4, <1>6, <1>7

\* Timer_CarpUndemote
LEMMA CarpUndemoteTimer ==
    ASSUME NEW p, Good(p), NEW in
    PROVE  /\ Good(timer_handler(p, "CarpUndemote", in))
           /\ Falls(p, timer_handler(p, "CarpUndemote", in))
  <1> DEFINE q == timer_stop(p, "CarpUndemote")
  <1>1. p \in PeerType
    BY DEF Good, Mid, Core
  <1>2. Good(q) /\ Falls(p, q) /\ q \in PeerType
    BY <1>1, TimerStop, Chain DEF Timers
  <1>3. /\ q.demoted = p.demoted
        /\ p.demoted > 0 /\ GroupKept => q.conf.demote_group # NoGroup
    <2>1. q.demoted = p.demoted /\ q.conf = p.conf
      BY SMTT(30), <1>1 DEF timer_stop, PeerType
    <2>2. p.demoted > 0 /\ GroupKept => p.conf.demote_group # NoGroup
      BY DEF Good, Mid, Core, Balanced
    <2> QED BY <2>1, <2>2
  <1>4. timer_handler(p, "CarpUndemote", in) =
            IF p.demoted > 0 /\ p.state = "ESTABLISHED"
            THEN session_demote(q, -1) ELSE q
    BY DEF timer_handler
  <1> HIDE DEF q
  <1>5. p.demoted > 0 => q.demoted + (-1) \in 0 .. 1 /\ -1 \in Int
    BY <1>1, <1>3 DEF PeerType
  <1>6. p.demoted > 0 => /\ Good(session_demote(q, -1))
                         /\ Falls(p, session_demote(q, -1))
    BY Zenon, <1>2, <1>3, <1>5, SessionDemote, Chain
  <1> QED BY <1>2, <1>4, <1>6

\* Every timer.
LEMMA TimerHandler ==
    ASSUME NEW p, Good(p), NEW timer \in Timers, timer \in p.timers,
           timer = "SessionDown" => \A aid \in AIDs : ~Restarting(p.neg.flags[aid]),
           NEW in \in Inputs
    PROVE  Good(timer_handler(p, timer, in)) /\ Moves(p, timer_handler(p, timer, in))
  <1>1. p \in PeerType
    BY ZenonT(30) DEF Good, Mid, Core
  <1>2. CASE timer = "Hold"
    <2>1. timer_handler(p, timer, in) = unexpected(p, "TIMER_HOLDTIME", in)
      BY SMTT(30), <1>2 DEF timer_handler
    <2>2. Good(unexpected(p, "TIMER_HOLDTIME", in)) /\ Keeps(p, unexpected(p, "TIMER_HOLDTIME", in))
      BY Zenon, Unexpected
    <2> QED BY Zenon, <2>1, <2>2, Chain DEF Moves, Falls
  <1>3. CASE timer = "SendHold"
    <2>1. timer_handler(p, timer, in) = unexpected(p, "TIMER_SENDHOLD", in)
      BY SMTT(30), <1>3 DEF timer_handler
    <2>2. Good(unexpected(p, "TIMER_SENDHOLD", in)) /\ Keeps(p, unexpected(p, "TIMER_SENDHOLD", in))
      BY Zenon, Unexpected
    <2> QED BY Zenon, <2>1, <2>2, Chain DEF Moves, Falls
  <1>4. CASE timer = "ConnectRetry"
    <2>1. timer_handler(p, timer, in) = fsm_timer_connretry(p, in)
      BY SMTT(30), <1>4 DEF timer_handler
    <2>2. Good(fsm_timer_connretry(p, in)) /\ Keeps(p, fsm_timer_connretry(p, in))
      BY Zenon, ConnRetry
    <2> QED BY Zenon, <2>1, <2>2, Chain DEF Moves, Falls
  <1>5. CASE timer = "Keepalive"
    <2>1. timer_handler(p, timer, in) = fsm_timer_keepalive(p, in)
      BY <1>5 DEF timer_handler
    <2>2. Good(fsm_timer_keepalive(p, in)) /\ Keeps(p, fsm_timer_keepalive(p, in))
      BY Zenon, Received
    <2> QED BY Zenon, <2>1, <2>2, Chain DEF Moves, Falls
  <1>6. CASE timer = "IdleHold"
    <2>1. timer_handler(p, timer, in) = fsm_start(p, in)
      BY SMTT(30), <1>6 DEF timer_handler
    <2>2. Good(fsm_start(p, in)) /\ Keeps(p, fsm_start(p, in))
      BY Zenon, Start
    <2> QED BY Zenon, <2>1, <2>2, Chain DEF Moves, Falls
  <1>7. CASE timer = "IdleHoldReset"
    <2> DEFINE z == [p EXCEPT !.IdleHoldTime = 0]
    <2>1. timer_handler(p, timer, in) = timer_stop(z, "IdleHoldReset")
      BY <1>7 DEF timer_handler
    <2>2. Good(z) /\ Keeps(p, z)
      BY SMTT(30), AssignIdleHold, SessionAssumption
    <2> HIDE DEF z
    <2>3. Good(timer_stop(z, "IdleHoldReset")) /\ Keeps(z, timer_stop(z, "IdleHoldReset"))
      <3>1. z \in PeerType
        BY Zenon, <2>2 DEF Good, Mid, Core
      <3>2. "IdleHoldReset" \in Timers \ {"RestartTimeout", "SessionDown"}
        BY ZenonT(30) DEF Timers
      <3> QED BY Zenon, <2>2, <3>1, <3>2, TimerStop
    <2> QED BY Zenon, <2>1, <2>2, <2>3, Chain DEF Moves, Falls
  <1>8. CASE timer = "CarpUndemote"
    BY SMTT(30), <1>8, CarpUndemoteTimer DEF Moves, Falls
  <1>9. CASE timer = "RestartTimeout"
    <2>1. timer_handler(p, timer, in) =
              session_graceful_stop(timer_stop(p, "RestartTimeout"))
      BY SMTT(30), <1>9 DEF timer_handler
    <2> QED BY <2>1, GracefulStop DEF Moves, Falls
  <1>10. CASE timer = "SessionDown"
    BY <1>10, SessionDownTimer DEF Moves
  <1> QED BY Zenon, <1>2, <1>3, <1>4, <1>5, <1>6, <1>7, <1>8, <1>9, <1>10 DEF Timers

\* IMSG_SESSION_RESTARTED: the family's routes are fresh, its flag FINISHED.
LEMMA RestartedGood ==
    ASSUME NEW p, Good(p), NEW aid \in AIDs
    PROVE  LET q == [p EXCEPT !.rde = rde_session_restarted(@, aid),
                              !.neg.flags[aid] = @ \cup {"FINISHED"}]
           IN  Good(q) /\ Falls(p, q)
  <1> DEFINE rde == rde_session_restarted(p.rde, aid)
             flags == [p.neg.flags EXCEPT ![aid] = @ \cup {"FINISHED"}]
             neg == [p.neg EXCEPT !.flags = flags]
             q == [p EXCEPT !.rde = rde, !.neg = neg]
  <1>1. /\ p \in PeerType /\ Core(p) /\ Downed(p) /\ Depend(p)
        /\ p.rde \in RdeType /\ p.neg \in NegType
    BY Zenon DEF Good, Mid, Core, PeerType
  <1>2. q = [p EXCEPT !.rde = rde_session_restarted(@, aid),
                      !.neg.flags[aid] = @ \cup {"FINISHED"}]
    BY <1>1 DEF PeerType, NegType
  <1>3. /\ rde \in RdeType /\ rde.state = p.rde.state /\ rde.wiped = p.rde.wiped
        /\ rde.stale = p.rde.stale \ {aid}
    BY <1>1 DEF rde_session_restarted, RdeType, Core
  <1> HIDE DEF rde
  <1>4. flags \in [AIDs -> SUBSET GRFlags]
    BY <1>1 DEF NegType, GRFlags
  <1>5. /\ \A x \in AIDs \ {aid} : flags[x] = p.neg.flags[x]
        /\ ~Restarting(flags[aid])
    BY <1>1 DEF NegType, Restarting
  <1> HIDE DEF flags
  <1>6. /\ neg \in NegType /\ neg.flags = flags
        /\ neg.restart = p.neg.restart /\ neg.mp = p.neg.mp
    BY <1>1, <1>4 DEF NegType
  <1> HIDE DEF neg
  <1>7. /\ q \in PeerType
        /\ q.rde = rde /\ q.neg = neg /\ q.rdesession = p.rdesession
        /\ q.ann = p.ann /\ q.conf = p.conf
        /\ q.carp = p.carp /\ q.reconf = p.reconf
        /\ q.timers = p.timers /\ q.demoted = p.demoted
        /\ q.state = p.state /\ q.depend_ok = p.depend_ok
    BY ZenonT(30), <1>1, <1>3, <1>6 DEF PeerType
  <1> HIDE DEF q
  <1>8. \A x \in rde.stale : Restarting(flags[x])
    BY SMTT(30), <1>1, <1>3, <1>5 DEF Core, RdeType
  <1>9. Good(q) /\ Falls(p, q)
    <2>2. RestartKept => Fresh(q.rde, q.neg, q.ann, q.conf)
      BY SMTT(30), <1>1, <1>3, <1>5, <1>6, <1>7 DEF Core, Fresh
    <2>1. Core(q)
      BY Zenon, <1>1, <1>3, <1>6, <1>7, <1>8, <2>2 DEF Core
    <2> QED BY ZenonT(30), <1>1, <1>3, <1>7, <2>1 DEF Good, Mid, Downed, Depend, Falls
  <1> QED BY SMTT(30), <1>2, <1>9

\* IMSG_SESSION_DEPENDON: without the interface the session is stopped.
LEMMA DependOnGood ==
    ASSUME NEW p, Good(p), NEW depend_ok \in BOOLEAN, NEW in \in Inputs
    PROVE  LET q == [p EXCEPT !.depend_ok = depend_ok]
               r == IF depend_ok THEN fsm_start(q, in) ELSE session_stop(q, in)
           IN  Good(r) /\ Falls(p, r)
  <1> DEFINE q == [p EXCEPT !.depend_ok = depend_ok]
  <1>1. p \in PeerType /\ Mid(p)
    BY Zenon DEF Good, Mid, Core
  <1>2. /\ q \in PeerType
        /\ q.rde = p.rde /\ q.neg = p.neg /\ q.rdesession = p.rdesession
        /\ q.ann = p.ann /\ q.conf = p.conf
        /\ q.carp = p.carp /\ q.reconf = p.reconf
        /\ q.timers = p.timers /\ q.state = p.state /\ q.depend_ok = depend_ok
        /\ q.demoted = p.demoted
    BY SMTT(30), <1>1 DEF PeerType
  <1> HIDE DEF q
  <1>3. Mid(q) /\ Falls(p, q)
    BY <1>1, <1>2, Harmless DEF Falls
  <1>4. CASE depend_ok
    <2>1. Good(q)
      BY <1>2, <1>3, <1>4 DEF Good, Depend
    <2>2. Good(fsm_start(q, in)) /\ Falls(p, fsm_start(q, in))
      BY <1>3, <2>1, Start, Chain
    <2> QED BY <1>4, <2>2 DEF q
  <1>5. CASE ~depend_ok
    <2>1. Good(session_stop(q, in)) /\ Falls(p, session_stop(q, in))
      BY SMTT(30), <1>3, SessionStop, Chain
    <2> QED BY <1>5, <2>1 DEF q
  <1> QED BY Zenon, <1>4, <1>5

\* IMSG_UPDATE_ERR
LEMMA UpdateErrGood ==
    ASSUME NEW p, Good(p), NEW in
    PROVE  LET q == session_notification(p, in)
               s == fsm_stop(q)
           IN  /\ Good(con_fatal(q)) /\ Falls(p, con_fatal(q))
               /\ Good(s) /\ Falls(p, s)
               /\ Good(timer_set(s, "IdleHold")) /\ Falls(p, timer_set(s, "IdleHold"))
  <1> DEFINE q == session_notification(p, in)
             s == fsm_stop(q)
  <1>1. Good(q) /\ Mid(q) /\ Keeps(p, q)
    BY Notification DEF Good
  <1> HIDE DEF q
  <1>2. /\ Good(con_fatal(q)) /\ Keeps(p, con_fatal(q))
        /\ Good(s) /\ Keeps(p, s)
    BY Zenon, <1>1, ConFatal, Stop, Chain
  <1> HIDE DEF s
  <1>3. Good(timer_set(s, "IdleHold")) /\ Keeps(s, timer_set(s, "IdleHold"))
    BY ZenonT(30), <1>2, TimerSet DEF Timers, Good, Mid, Core
  <1> QED BY <1>2, <1>3, Chain DEF q, s

\* bgpctl neighbor up, down and clear
LEMMA CommandsGood ==
    ASSUME NEW p, Good(p), NEW in \in Inputs
    PROVE  LET up == [fsm_start(p, in) EXCEPT !.conf.down = FALSE, !.IdleHoldTime = 0]
               down == session_stop([p EXCEPT !.conf.down = TRUE], in)
               clear == session_stop([p EXCEPT !.IdleHoldTime = 0], in)
           IN  \A q \in {up, down, clear, timer_set(clear, "IdleHold")} :
                  Good(q) /\ Falls(p, q)
  <1>1. ASSUME NEW q, Good(q), NEW down \in BOOLEAN
        PROVE  LET d == [q EXCEPT !.conf.down = down]
               IN  Good(d) /\ Falls(q, d)
    <2> DEFINE conf == [q.conf EXCEPT !.down = down]
    <2>1. q \in PeerType
      BY <1>1 DEF Good, Mid, Core
    <2>2. /\ conf \in ConfType
          /\ conf.mp = q.conf.mp /\ conf.restart = q.conf.restart
          /\ conf.demote_group = q.conf.demote_group
      BY <2>1 DEF PeerType, ConfType
    <2>3. [q EXCEPT !.conf.down = down] = [q EXCEPT !.conf = conf]
      BY <2>1 DEF PeerType, ConfType
    <2> HIDE DEF conf
    <2>4. /\ CommonFamily => Fit(conf)
          /\ RestartKept => RestartFits(conf) /\ (conf.restart = 0 <=> q.conf.restart = 0)
          /\ GroupKept => Balanced(conf, q.demoted, q.carp)
      <3>1. /\ CommonFamily => Fit(q.conf)
            /\ RestartKept => RestartFits(q.conf)
            /\ GroupKept => Balanced(q.conf, q.demoted, q.carp)
        BY Zenon, <1>1 DEF Good, Mid, Core, Fresh
      <3>2. /\ Fit(q.conf) => Fit(conf)
            /\ RestartFits(q.conf) => RestartFits(conf)
            /\ Balanced(q.conf, q.demoted, q.carp) => Balanced(conf, q.demoted, q.carp)
        BY Zenon, <2>2 DEF Fit, Shared, RestartFits, Balanced, GroupFits
      <3> QED BY Zenon, <2>2, <3>1, <3>2
    <2> QED BY <1>1, <2>2, <2>3, <2>4, AssignConf
  <1> DEFINE s == fsm_start(p, in)
             u == [s EXCEPT !.conf.down = FALSE]
             up == [s EXCEPT !.conf.down = FALSE, !.IdleHoldTime = 0]
             d == [p EXCEPT !.conf.down = TRUE]
             down == session_stop(d, in)
             c == [p EXCEPT !.IdleHoldTime = 0]
             clear == session_stop(c, in)
  <1>2. Good(up) /\ Falls(p, up)
    <2>1. Good(s) /\ Falls(p, s)
      BY Start, Chain
    <2> HIDE DEF s
    <2>2. Good(u) /\ Falls(p, u)
      BY Zenon, <1>1, <2>1, Chain
    <2>3. up = [u EXCEPT !.IdleHoldTime = 0]
      BY SMTT(30), <2>1 DEF Good, Mid, Core, PeerType
    <2> HIDE DEF u, up
    <2> QED BY <2>2, <2>3, AssignIdleHold, SessionAssumption, Chain
  <1>3. Good(down) /\ Falls(p, down)
    <2>1. Good(d) /\ Falls(p, d)
      BY Zenon, <1>1
    <2> HIDE DEF d
    <2> QED BY <2>1, SessionStop, Chain DEF Good
  <1>4. Good(clear) /\ Falls(p, clear)
    <2>1. Good(c) /\ Falls(p, c)
      BY AssignIdleHold, SessionAssumption, Chain
    <2> HIDE DEF c
    <2> QED BY <2>1, SessionStop, Chain DEF Good
  <1> HIDE DEF clear
  <1>5. Good(timer_set(clear, "IdleHold")) /\ Falls(p, timer_set(clear, "IdleHold"))
    <2>1. clear \in PeerType /\ "IdleHold" \in Timers \ {"SessionDown"}
      BY Zenon, <1>4 DEF Timers, Good, Mid, Core
    <2>2. Good(timer_set(clear, "IdleHold")) /\ Keeps(clear, timer_set(clear, "IdleHold"))
      BY Zenon, <1>4, <2>1, TimerSet
    <2> QED BY Zenon, <1>4, <2>2, Chain
  <1> QED BY <1>2, <1>3, <1>4, <1>5 DEF clear

\* peer->reconf_action
LEMMA AssignReconf ==
    ASSUME NEW p, Good(p)
    PROVE  Good([p EXCEPT !.reconf = "DELETE"]) /\ Falls(p, [p EXCEPT !.reconf = "DELETE"])
  <1> DEFINE q == [p EXCEPT !.reconf = "DELETE"]
  <1>1. p \in PeerType
    BY DEF Good, Mid, Core
  <1>2. q \in PeerType /\ SameButPlain(p, q)
    BY <1>1 DEF PeerType, SameButPlain, ConfStays, DemotionStays
  <1> HIDE DEF q
  <1> QED BY <1>2, Plain, Chain DEF q

-----------------------------------------------------------------------------
\* The initial peer is good.
LEMMA InitGood == Init => Good(peer) /\ Gone(peer) /\ Absent(peer)
  <1> SUFFICES ASSUME Init PROVE Good(peer) /\ Gone(peer) /\ Absent(peer)
    OBVIOUS
  <1>1. PICK conf \in Confs :
            peer = new_peer(conf, IF IsClone THEN "ABSENT" ELSE "REINIT",
                            [g \in Groups |-> 0])
    BY DEF Init
  <1> DEFINE carp == [g \in Groups |-> 0]
             reconf == IF IsClone THEN "ABSENT" ELSE "REINIT"
  <1>2. /\ conf \in ConfType /\ carp \in [Groups -> Nat]
        /\ reconf \in {"REINIT", "CLONE", "NONE", "DELETE", "ABSENT"}
        /\ CommonFamily => Fit(conf)
        /\ RestartKept => RestartFits(conf)
    BY SessionAssumption DEF CommonFamily, RestartKept
  <1>4. GroupKept => Balanced(conf, 0, carp)
    BY DEF Balanced, GroupKept
  <1> HIDE DEF carp, reconf
  <1>3. Born(new_peer(conf, reconf, carp), reconf)
    BY Zenon, <1>2, <1>4, NewPeer
  <1> QED BY <1>1, <1>3 DEF carp, reconf, Absent, Born

\* A peer that is not there is only configured, or cloned for a connection.
LEMMA OnlyCreated ==
    ASSUME Absent(peer), peer.reconf = "ABSENT", Next
    PROVE  \/ Configure
           \/ /\ IsClone
              /\ \E outcome \in Accepts, in \in Inputs, conf \in Confs,
                    depend_ok \in BOOLEAN :
                    peer' = session_accept(clone_peer(peer, conf, depend_ok, in),
                                           outcome, in)
  <1>1. peer.state = "NONE" /\ peer.fd = "none" /\ ~peer.rq
    BY DEF Absent, Unused
  <1>2. /\ ~Live /\ ~Addressed
        /\ ~InitPeer /\ ~DeletePeer /\ \A timer \in Timers : ~TimerExpired(timer)
    BY <1>1 DEF Live, Addressed, InitPeer, DeletePeer, TimerExpired
  <1>3. /\ ~ConnectDone /\ ~ConnectionLost /\ ~Written /\ ~BadHeader
        /\ ~Message
    BY <1>1 DEF ConnectDone, ConnectionLost, Written, BadHeader, Message, RcvdOpen,
                RcvdKeepalive, RcvdUpdate, RcvdNotification, RcvdBadRrefresh
  <1>4. /\ ~UpdateFromRde /\ ~UpdateErr /\ ~SessionRestarted /\ ~Rrefresh /\ ~DependOn
        /\ ~Reload /\ ~Unconfigure /\ ~Control
    BY Zenon, <1>1, <1>2 DEF UpdateFromRde, UpdateErr, SessionRestarted, Rrefresh, DependOn,
                Reload, Unconfigure, Control, NeighborUp, NeighborDown, NeighborClear,
                NeighborDestroy
  <1>5. Accept \/ Configure
    BY <1>2, <1>3, <1>4 DEF Next, Socket, Imsg
  <1> QED BY <1>2, <1>5 DEF Accept

\* Every step of the engine keeps the peer good and makes one of the moves.
LEMMA NextGood ==
    Good(peer) /\ Absent(peer) /\ [Next]_vars =>
        Good(peer') /\ Absent(peer') /\ Moves(peer, peer')
  <1> SUFFICES ASSUME Good(peer), Absent(peer), [Next]_vars
               PROVE  Good(peer') /\ Absent(peer') /\ Moves(peer, peer')
    OBVIOUS
  <1> SUFFICES Good(peer') /\ Moves(peer, peer')
    <2>1. CASE peer.reconf # "ABSENT"
      BY <2>1 DEF Moves, Absent
    <2>2. CASE UNCHANGED vars
      BY <2>2 DEF Moves, Absent, vars
    <2>3. CASE peer.reconf = "ABSENT" /\ Next
      <3>1. CASE Configure
        <4>1. PICK conf \in Confs : peer' = new_peer(conf, "REINIT", peer.carp)
          BY SMTT(30), <3>1 DEF Configure
        <4> QED BY <4>1 DEF new_peer, Absent
      <3>2. ASSUME NEW outcome \in Accepts, NEW in \in Inputs, NEW conf \in Confs,
                   NEW depend_ok \in BOOLEAN,
                   peer' = session_accept(clone_peer(peer, conf, depend_ok, in),
                                          outcome, in)
            PROVE  Absent(peer')
        <4> DEFINE c == clone_peer(peer, conf, depend_ok, in)
        <4>1. peer.demoted = 0 /\ outcome \in AcceptOutcomes
          BY <2>3, SessionAssumption DEF Absent, Unused
        <4>2. Good(c) /\ c.reconf # "ABSENT"
          BY Zenon, <4>1, ClonePeer
        <4> HIDE DEF c
        <4>3. peer' = session_accept(c, outcome, in)
          BY <3>2 DEF c
        <4>4. Falls(c, peer')
          BY Zenon, <4>1, <4>2, <4>3, SessionAccept
        <4> QED BY <4>2, <4>4 DEF Falls, Absent
      <3> QED BY ZenonT(30), <2>3, <3>1, <3>2, OnlyCreated
    <2> QED BY <2>1, <2>2, <2>3
  <1>0. (Falls(peer, peer') => Moves(peer, peer')) /\ (Rises(peer, peer') => Moves(peer, peer'))
    BY SMTT(30) DEF Moves, Falls, Rises
  <1> USE <1>0
  <1>1. Confs \subseteq ConfType /\ Opens \subseteq OpenType
        /\ Accepts \subseteq AcceptOutcomes
    BY SessionAssumption
  <1>2. Mid(peer)
    BY DEF Good
  <1>3. CASE InitPeer
    BY <1>2, <1>3, InitPeerGood DEF InitPeer
  <1>4. CASE DeletePeer
    BY SMTT(30), <1>4, DeletePeerGood DEF DeletePeer, Moves
  <1>5. ASSUME NEW timer \in Timers, TimerExpired(timer)
        PROVE  Good(peer') /\ Moves(peer, peer')
    BY <1>5, TimerHandler DEF TimerExpired, TimerDue
  <1>6. CASE Socket
    <2>1. CASE ConnectDone
      <3>1. peer.depend_ok /\ peer.state # "ESTABLISHED"
        BY Zenon, <2>1 DEF ConnectDone, Good, Depend, Mid, Core, PeerType
      <3> QED BY SMTT(30), <1>2, <2>1, <3>1, ConOpen, ConOpenFail, ConFatal, Chain DEF ConnectDone
    <2>2. CASE ConnectionLost
      BY SMTT(30), <1>2, <2>2, ConClosed, ConFatal, Chain DEF ConnectionLost
    <2>3. CASE Written
      BY ZenonT(30), <2>3, StartTimer, Chain DEF Written, ConnTimers, Good, Mid, Core
    <2>4. CASE BadHeader
      BY <1>2, <2>4, UpdateErrGood DEF BadHeader
    <2>5. CASE Accept
      <3>1. PICK outcome \in Accepts, in \in Inputs :
              \/ peer' = session_accept(peer, outcome, in)
              \/ /\ peer.reconf = "ABSENT"
                 /\ \E conf \in Confs, depend_ok \in BOOLEAN :
                       peer' = session_accept(clone_peer(peer, conf, depend_ok, in),
                                              outcome, in)
        BY <2>5 DEF Accept
      <3>2. CASE peer' = session_accept(peer, outcome, in)
        BY SMTT(30), <1>1, <3>2, SessionAccept
      <3>3. CASE /\ peer.reconf = "ABSENT"
                 /\ \E conf \in Confs, depend_ok \in BOOLEAN :
                       peer' = session_accept(clone_peer(peer, conf, depend_ok, in),
                                              outcome, in)
        <4>1. PICK conf \in Confs, depend_ok \in BOOLEAN :
                  peer' = session_accept(clone_peer(peer, conf, depend_ok, in),
                                         outcome, in)
          BY <3>3
        <4> DEFINE c == clone_peer(peer, conf, depend_ok, in)
        <4>4. peer.demoted = 0
          BY <3>3 DEF Absent, Unused
        <4>2. Good(c) /\ Gone(c) /\ c.reconf # "ABSENT"
          BY Zenon, <4>4, ClonePeer
        <4> HIDE DEF c
        <4>3. peer' = session_accept(c, outcome, in)
          BY <4>1 DEF c
        <4>5. Good(peer') /\ Falls(c, peer')
          BY <1>1, <4>2, <4>3, SessionAccept
        <4> QED BY <4>2, <4>5, Chain DEF Falls, Moves
      <3> QED BY <3>1, <3>2, <3>3
    <2> QED BY SMTT(30), <1>6, <2>1, <2>2, <2>3, <2>4, <2>5 DEF Socket
  <1>7. CASE Message
    <2>1. CASE RcvdOpen
      BY SMTT(30), <2>1, RcvdOpenGood, Chain DEF RcvdOpen
    <2>2. CASE RcvdKeepalive \/ RcvdUpdate \/ RcvdNotification
      BY SMTT(30), <2>2, Received, Chain DEF RcvdKeepalive, RcvdUpdate, RcvdNotification
    <2>3. CASE RcvdBadRrefresh
      BY <2>3, UpdateErrGood DEF RcvdBadRrefresh
    <2> QED BY SMTT(30), <1>7, <2>1, <2>2, <2>3 DEF Message
  <1>8. CASE Imsg
    <2>1. CASE UpdateFromRde \/ Rrefresh
      BY SMTT(30), <2>1, Sending, Chain DEF UpdateFromRde, Rrefresh
    <2>2. CASE UpdateErr
      <3>1. PICK in \in Inputs :
              LET q == session_notification(peer, in)
              IN  peer' \in {con_fatal(q), fsm_stop(q), timer_set(fsm_stop(q), "IdleHold")}
        BY SMTT(30), <2>2 DEF UpdateErr
      <3> QED BY SMTT(30), <3>1, UpdateErrGood
    <2>3. CASE SessionRestarted
      BY ZenonT(30), <2>3, RestartedGood DEF SessionRestarted
    <2>4. CASE DependOn
      BY <2>4, DependOnGood DEF DependOn
    <2>5. CASE Reload
      BY <1>1, <2>5, MergePeer DEF Reload
    <2>6. CASE Unconfigure
      BY <2>6, AssignReconf DEF Unconfigure
    <2>7. CASE Configure
      <3>1. PICK conf \in Confs : peer' = new_peer(conf, "REINIT", peer.carp)
        BY SMTT(30), <2>7 DEF Configure
      <3>4. peer.demoted = 0
        BY <2>7 DEF Configure, Absent, Unused
      <3>5. "REINIT" \in {"REINIT", "CLONE", "NONE", "DELETE", "ABSENT"}
        BY SMTT(30)
      <3>2. /\ conf \in ConfType /\ peer.carp \in [Groups -> Nat]
            /\ CommonFamily => Fit(conf)
            /\ RestartKept => RestartFits(conf)
            /\ GroupKept => Balanced(conf, 0, peer.carp)
        BY <3>4, ConfsFit
      <3>3. Born(new_peer(conf, "REINIT", peer.carp), "REINIT")
        BY Zenon, <3>2, <3>5, NewPeer
      <3> QED BY <3>1, <3>3 DEF Moves, Born
    <2> QED BY SMTT(30), <1>8, <2>1, <2>2, <2>3, <2>4, <2>5, <2>6, <2>7 DEF Imsg
  <1>9. CASE Control
    <2>1. CASE NeighborUp
      <3>1. PICK in \in Inputs :
                peer' = [fsm_start(peer, in) EXCEPT !.conf.down = FALSE,
                                                    !.IdleHoldTime = 0]
        BY Zenon, <2>1 DEF NeighborUp
      <3>2. LET q == [fsm_start(peer, in) EXCEPT !.conf.down = FALSE,
                                                 !.IdleHoldTime = 0]
            IN  Good(q) /\ Falls(peer, q)
        BY ZenonT(30), CommandsGood
      <3> QED BY <3>1, <3>2
    <2>2. CASE NeighborDown
      BY ZenonT(30), <2>2, CommandsGood DEF NeighborDown
    <2>3. CASE NeighborClear
      BY Zenon, <2>3, CommandsGood DEF NeighborClear
    <2>4. CASE NeighborDestroy
      BY SMTT(30), <2>4, AssignReconf DEF NeighborDestroy
    <2> QED BY <1>9, <2>1, <2>2, <2>3, <2>4 DEF Control
  <1>10. CASE UNCHANGED vars
    BY <1>10, Chain DEF vars
  <1> QED BY <1>3, <1>4, <1>5, <1>6, <1>7, <1>8, <1>9, <1>10 DEF Next

\* The inductive invariant holds throughout.
THEOREM Invariance == Spec => [](Good(peer) /\ Absent(peer))
  <1>1. Good(peer) /\ Absent(peer) /\ [Next]_vars => (Good(peer) /\ Absent(peer))'
    BY Zenon, NextGood DEF Good, Mid, Core, Downed, Depend, CommonFamily, Fit, Absent,
                           Unused, RestartKept, GroupKept, RestartFits, GroupFits,
                           Fresh, Balanced
  <1>2. Init => Good(peer) /\ Absent(peer)
    BY InitGood
  <1> QED BY <1>1, <1>2, PTL DEF Spec

\* struct peer keeps its type: the idle hold time its bound, demoted its 0 or 1.
THEOREM TypeCorrect == Spec => []TypeOK
  <1>1. Good(peer) => TypeOK
    BY ZenonT(30) DEF Good, Mid, Core, TypeOK
  <1> QED BY Invariance, <1>1, PTL

\* The RDE knows a peer exactly while the engine thinks so, and only while the
\* session is up or a timer is running to remove it.
THEOREM RdeSessionKept == Spec => []RdeSession
  <1>1. Good(peer) => RdeSession
    BY SMTT(30) DEF Good, Mid, Core, Downed, RdeSession
  <1> QED BY Invariance, <1>1, PTL

\* Stale routes always have a restart on record and a timeout running.
THEOREM StaleRoutesGuarded == Spec => []StaleGuarded
  <1>1. Good(peer) => StaleGuarded
    BY DEF Good, Mid, Core, StaleGuarded
  <1> QED BY Invariance, <1>1, PTL

\* Without its interface a session is kept in IDLE.
THEOREM DependOnKept == Spec => []DependKept
  <1>1. Good(peer) => DependKept
    BY DEF Good, Depend, DependKept
  <1> QED BY Invariance, <1>1, PTL

\* The RDE takes the session for up exactly while it is ESTABLISHED, if whoever
\* agrees on graceful restart has a family in common: the RDE is told of the
\* end of the session by its families then (session_graceful_restart()).
THEOREM RdeToldKept == ASSUME CommonFamily PROVE Spec => []RdeTold
  <1>1. Good(peer) => RdeTold
    BY ZenonT(30) DEF Good, Mid, Core, Downed, RdeTold, RdeInSync, RdeSession, StaleGuarded
  <1> QED BY Invariance, <1>1, PTL

\* No flush reaches the routes of a session that is up, if no reload turns
\* graceful restart on or off while the peer lives.
THEOREM FlushesOnlyStale == ASSUME RestartKept PROVE Spec => []NoFreshFlush
  <1>1. Good(peer) => NoFreshFlush
    BY SMTT(30) DEF Good, Mid, Core, Fresh, NoFreshFlush
  <1> QED BY Invariance, <1>1, PTL

\* A group is demoted by exactly what the peer has added to it, if no reload
\* changes the group.
THEOREM DemotionKept == ASSUME GroupKept PROVE Spec => []DemotionBalanced
  <1>1. Good(peer) => DemotionBalanced
    BY DEF Good, Mid, Core, Balanced, DemotionBalanced
  <1> QED BY Invariance, <1>1, PTL

-----------------------------------------------------------------------------
\* A move of a good peer is a step of the contract.
LEMMA MoveMaps ==
    ASSUME Good(peer), Good(peer'), Moves(peer, peer')
    PROVE  [Contract!Next]_<<peer.rdesession, peer.state = "ESTABLISHED", peer.rde.stale>>
  <1>1. /\ peer'.rde.stale \in SUBSET AIDs
        /\ peer'.rdesession \in BOOLEAN /\ peer.rdesession \in BOOLEAN
    BY Zenon DEF Good, Mid, Core, PeerType, RdeType
  <1>2. CASE Falls(peer, peer') /\ peer.state = "ESTABLISHED" /\ peer'.state # "ESTABLISHED"
    <2>1. Contract!Restart
      BY <1>1, <1>2 DEF Contract!Restart, Falls
    <2> QED BY <2>1 DEF Contract!Next
  <1>3. CASE /\ Falls(peer, peer')
             /\ ~(peer.state = "ESTABLISHED" /\ peer'.state # "ESTABLISHED")
    <2>1. Contract!Clean
      BY <1>3 DEF Contract!Clean, Falls
    <2> QED BY <2>1 DEF Contract!Next
  <1>4. CASE Rises(peer, peer')
    <2>1. peer'.rdesession
      BY <1>4 DEF Good, Mid, Downed, Rises
    <2>2. Contract!Up
      BY <1>1, <1>4, <2>1 DEF Contract!Up, Rises
    <2> QED BY <2>2 DEF Contract!Next
  <1>5. CASE Gone(peer')
    <2>1. peer'.rde.stale = {}
      BY <1>5 DEF Good, Mid, Core, Gone
    <2>2. CASE peer.rdesession
      <3>1. Contract!Forget
        BY <1>1, <1>5, <2>1, <2>2 DEF Contract!Forget, Gone
      <3> QED BY <3>1 DEF Contract!Next
    <2>3. CASE ~peer.rdesession
      <3>1. peer.rde.stale = {} /\ peer.state # "ESTABLISHED"
        BY <2>3 DEF Good, Mid, Core, Downed
      <3> QED BY SMTT(30), <1>1, <1>5, <2>1, <2>3, <3>1 DEF Gone
    <2> QED BY SMTT(30), <2>2, <2>3
  <1> QED BY SMTT(30), <1>2, <1>3, <1>4, <1>5 DEF Moves

\* The engine keeps its promise to the RDE: whatever happens to the session, it
\* comes up once, goes down once, and stale routes are only ever cleaned, unless
\* a session is lost or the RDE forgets the peer.
THEOREM EngineImplementsContract == Spec => ImplementsPeerSession
  <1>1. Init => Contract!Init
    BY InitGood DEF Contract!Init, Gone, Good, Mid, Core
  <1>2. Good(peer) /\ Absent(peer) /\ [Next]_vars =>
           [Contract!Next]_<<peer.rdesession, peer.state = "ESTABLISHED", peer.rde.stale>>
    BY NextGood, MoveMaps
  <1> QED BY Invariance, <1>1, <1>2, PTL DEF Spec, ImplementsPeerSession, Contract!Spec
-----------------------------------------------------------------------------
(***************************************************************************)
(* The timers that run, and the way out of every state.                    *)
(***************************************************************************)

\* Memory can be allocated, and no request for a peer is read before it has
\* been initialised.  In one round of the main loop the code does not see to
\* either (MCSessionFaults and VClearEarly show what happens then).
Calm == Allocs = {TRUE} /\ "early" \notin Commands

\* Accepted connections can be used, and the configuration stays.
Settled == Accepts = {"ok"} /\ "reload" \notin Commands

PeerFields ==
    {"state", "prev_state", "rq", "fd", "timers", "holdtime", "IdleHoldTime",
     "depend_ok", "conf", "demoted", "rdesession", "ann", "neg", "reconf", "rde", "carp"}

\* TimerHome, ...
Homed(state, timers) ==
    /\ "IdleHold" \in timers => state = "IDLE"
    /\ "ConnectRetry" \in timers => state \in {"CONNECT", "ACTIVE"}
    /\ "Keepalive" \in timers => state \in {"OPENCONFIRM", "ESTABLISHED"}
    /\ "IdleHoldReset" \in timers => state = "ESTABLISHED"
    /\ "Hold" \in timers \/ "SendHold" \in timers => state \notin {"NONE", "IDLE"}

\* ... the parts of NoDeadEnd about the states other than IDLE, ...
Led(state, timers, fd, holdtime, demoted, conf) ==
    /\ state = "CONNECT" => "ConnectRetry" \in timers
    /\ state = "ACTIVE" => "ConnectRetry" \in timers \/ conf.passive
    /\ state \in {"OPENSENT", "OPENCONFIRM"} => "Hold" \in timers
    /\ state = "ESTABLISHED" => "Hold" \in timers \/ holdtime = 0
    /\ state \in OpenStates => fd \in {"in", "out"}
    /\ state \in {"NONE", "IDLE", "ACTIVE"} => fd = "none"
    /\ state = "CONNECT" => fd \in {"none", "in", "out"}
    /\ state = "ESTABLISHED" /\ demoted > 0 => "CarpUndemote" \in timers

Tended(p) ==
    /\ DOMAIN p = PeerFields /\ p.state \in States /\ p.holdtime \in Nat
    /\ Homed(p.state, p.timers)
    /\ Settled => Led(p.state, p.timers, p.fd, p.holdtime, p.demoted, p.conf)

\* ... and the one about IDLE, which a stop breaks until its caller sees to it.
Waits(p) ==
    p.state = "IDLE" => \/ "IdleHold" \in p.timers
                        \/ p.conf.down
                        \/ ~p.depend_ok
                        \/ p.conf.max_prefix_restart = 0 /\ "update_err" \in Commands

Fine(p) == Tended(p) /\ (Settled => Waits(p))

\* With memory, sending changes nothing but the Keepalive timer.
LEMMA Sent ==
    ASSUME NEW p, NEW in, in.mem
    PROVE  /\ session_notification(p, in) = p
           /\ session_open(p, in) = p
           /\ session_rrefresh(p, in) = p
           /\ session_keepalive(p, in) = start_timer(p, "Keepalive")
           /\ session_update(p, in) = IF p.state = "ESTABLISHED"
                                      THEN start_timer(p, "Keepalive") ELSE p
           /\ \A event : notify_and_idle(p, event, in) = change_state_idle(p, event)
  BY DEF session_notification, session_open, session_rrefresh, session_keepalive,
         session_update, notify_and_idle

\* change_state(IDLE) clears the timers of the connection and arms IdleHold, but
\* for a stop and for a peer that is new.
LEMMA EntersIdle ==
    ASSUME NEW p, DOMAIN p = PeerFields
    PROVE  LET q == EnterIdle(p)
           IN  /\ DOMAIN q = PeerFields /\ q.state = "IDLE" /\ q.fd = "none"
               /\ q.conf = p.conf /\ q.depend_ok = p.depend_ok
               /\ q.holdtime = INTERVAL_HOLD_INITIAL
               /\ q.timers = p.timers \ ConnTimers
  <1> DEFINE d == session_demote(p, 1)
             s == IF /\ p.state = "ESTABLISHED" /\ p.conf.demote_group # NoGroup
                     /\ p.demoted = 0
                  THEN d ELSE p
  <1>1. /\ DOMAIN d = PeerFields /\ d.conf = p.conf /\ d.depend_ok = p.depend_ok
        /\ d.timers = p.timers
    BY DEF session_demote, PeerFields
  <1> HIDE DEF d
  <1>2. /\ DOMAIN s = PeerFields /\ s.conf = p.conf /\ s.depend_ok = p.depend_ok
        /\ s.timers = p.timers
    BY <1>1
  <1>3. EnterIdle(p) =
          [s EXCEPT !.prev_state = p.state, !.state = "IDLE",
                    !.holdtime = INTERVAL_HOLD_INITIAL, !.timers = @ \ ConnTimers,
                    !.fd = "none", !.rq = FALSE,
                    !.ann = IF p.state \in {"NONE", "ESTABLISHED"}
                            THEN Announced(p.conf) ELSE @]
    BY SMTT(30) DEF EnterIdle, d
  <1> HIDE DEF s
  <1> QED BY <1>2, <1>3 DEF PeerFields

LEMMA Idled ==
    ASSUME NEW p, DOMAIN p = PeerFields, NEW event
    PROVE  LET q == change_state_idle(p, event)
           IN  /\ Tended(q) /\ q.state = "IDLE" /\ q.conf = p.conf
               /\ q.depend_ok = p.depend_ok
               /\ p.state # "NONE" /\ event # "STOP" => Fine(q)
  <1> DEFINE Like(q) == /\ DOMAIN q = PeerFields /\ q.state = "IDLE" /\ q.fd = "none"
                        /\ q.conf = p.conf /\ q.depend_ok = p.depend_ok
                        /\ q.holdtime = INTERVAL_HOLD_INITIAL
             e == EnterIdle(p)
  <1>1. Like(e) /\ e.timers \cap ConnTimers = {}
    BY ZenonT(30), EntersIdle
  <1> HIDE DEF e
  <1>2. ASSUME NEW q, Like(q), q.timers \cap ConnTimers \subseteq {"IdleHold"}
        PROVE  Tended(q) /\ ("IdleHold" \in q.timers => Fine(q))
    BY SMTT(30), <1>2, SessionAssumption
       DEF Tended, Fine, Waits, Homed, Led, ConnTimers, States, OpenStates
  <1>3. ASSUME NEW q, Like(q)
        PROVE  /\ Like(session_down(q)) /\ Like(PunishIdle(q))
               /\ Like(session_graceful_restart(q)) /\ Like(timer_set(q, "IdleHold"))
               /\ session_down(q).timers \cap ConnTimers = q.timers \cap ConnTimers
               /\ PunishIdle(q).timers = q.timers
               /\ session_graceful_restart(q).timers \cap ConnTimers
                     = q.timers \cap ConnTimers
               /\ timer_set(q, "IdleHold").timers = q.timers \cup {"IdleHold"}
    <2>1. Like(session_down(q)) /\ session_down(q).timers = q.timers \cup {"SessionDown"}
      BY <1>3 DEF session_down, PeerFields
    <2>2. Like(PunishIdle(q)) /\ PunishIdle(q).timers = q.timers
      BY <1>3 DEF PunishIdle, PeerFields
    <2>3. /\ Like(session_graceful_restart(q))
          /\ session_graceful_restart(q).timers
                = q.timers \cup {"RestartTimeout", "SessionDown"}
      BY <1>3 DEF session_graceful_restart, PeerFields
    <2>4. /\ Like(timer_set(q, "IdleHold"))
          /\ timer_set(q, "IdleHold").timers = q.timers \cup {"IdleHold"}
      BY ZenonT(30), <1>3 DEF timer_set, PeerFields
    <2> QED BY <2>1, <2>2, <2>3, <2>4 DEF ConnTimers
  <1> DEFINE h == timer_set(e, "IdleHold")
  <1>4. Like(h) /\ h.timers \cap ConnTimers = {"IdleHold"}
    BY <1>1, <1>3 DEF ConnTimers
  <1>5. change_state_idle(p, event) \in
            IF p.state = "NONE" \/ event = "STOP"
            THEN {e, session_down(e), PunishIdle(e)}
            ELSE {session_graceful_restart(h), PunishIdle(session_down(h)), PunishIdle(h)}
    BY SMTT(30) DEF change_state_idle, e
  <1> HIDE DEF h, Like
  <1>6. CASE p.state = "NONE" \/ event = "STOP"
    <2>1. \A q \in {e, session_down(e), PunishIdle(e)} :
             Like(q) /\ q.timers \cap ConnTimers \subseteq {"IdleHold"}
      BY SMTT(30), <1>1, <1>3
    <2>2. \A q \in {e, session_down(e), PunishIdle(e)} : Like(q) /\ Tended(q)
      BY SMTT(30), <1>2, <2>1
    <2> QED BY SMTT(30), <1>5, <1>6, <2>2 DEF Like
  <1>7. CASE ~(p.state = "NONE" \/ event = "STOP")
    <2>1. /\ Like(session_graceful_restart(h)) /\ Like(session_down(h))
          /\ Like(PunishIdle(h))
          /\ session_graceful_restart(h).timers \cap ConnTimers = {"IdleHold"}
          /\ session_down(h).timers \cap ConnTimers = {"IdleHold"}
          /\ PunishIdle(h).timers \cap ConnTimers = {"IdleHold"}
      BY SMTT(30), <1>3, <1>4
    <2>2. /\ Like(PunishIdle(session_down(h)))
          /\ PunishIdle(session_down(h)).timers \cap ConnTimers = {"IdleHold"}
      BY SMTT(30), <1>3, <2>1
    <2>3. \A q \in {session_graceful_restart(h), PunishIdle(session_down(h)), PunishIdle(h)} :
             Like(q) /\ Tended(q) /\ Fine(q)
      BY <1>2, <2>1, <2>2
    <2> QED BY SMTT(30), <1>5, <1>7, <2>3 DEF Like
  <1> QED BY <1>6, <1>7

\* The events that lead to IDLE or nowhere.
LEMMA FatalFine ==
    ASSUME NEW p, Fine(p)
    PROVE  Fine(con_fatal(p))
  <1>1. CASE p.state \in {"NONE", "IDLE"}
    BY SMTT(30), <1>1 DEF con_fatal
  <1>2. CASE p.state \notin {"NONE", "IDLE"}
    <2>1. con_fatal(p) = change_state_idle(p, "CON_FATAL")
      BY <1>2 DEF con_fatal
    <2> QED BY <1>2, <2>1, Idled DEF Fine, Tended
  <1> QED BY <1>1, <1>2

LEMMA UnexpectedFine ==
    ASSUME NEW p, Fine(p), NEW event, event # "STOP", NEW in, in.mem
    PROVE  Fine(unexpected(p, event, in))
  <1>1. CASE p.state \in {"NONE", "IDLE"}
    BY ZenonT(30), <1>1 DEF unexpected, OpenStates
  <1>2. CASE p.state \notin {"NONE", "IDLE"}
    <2>1. unexpected(p, event, in) = change_state_idle(p, event)
      BY <1>2, Sent DEF unexpected, Fine, Tended, States, OpenStates
    <2> QED BY <1>2, <2>1, Idled DEF Fine, Tended
  <1> QED BY <1>1, <1>2

\* Connecting: each outcome leaves the timer that goes on from there.
LEMMA OpenFine ==
    ASSUME NEW p, DOMAIN p = PeerFields, Homed(p.state, p.timers),
           p.state \in {"CONNECT", "ACTIVE"}, Settled => p.fd \in {"in", "out"},
           NEW in, in.mem
    PROVE  Fine(con_open(p, in)) /\ con_open(p, in).state = "OPENSENT"
  <1> DEFINE q == con_open(p, in)
             a == [p EXCEPT !.rq = TRUE]
             c == [timer_stop(a, "ConnectRetry") EXCEPT !.holdtime = INTERVAL_HOLD_INITIAL]
  <1>1. /\ DOMAIN c = PeerFields /\ c.fd = p.fd /\ c.holdtime = INTERVAL_HOLD_INITIAL
        /\ c.timers = p.timers \ {"ConnectRetry"}
    BY DEF timer_stop, PeerFields
  <1>6. q = change_state(start_timer(c, "Hold"), "OPENSENT")
    BY Zenon, Sent DEF con_open
  <1> HIDE DEF c
  <1>2. /\ DOMAIN q = PeerFields /\ q.state = "OPENSENT" /\ q.fd = p.fd
        /\ q.holdtime = INTERVAL_HOLD_INITIAL
        /\ q.timers = (p.timers \ {"ConnectRetry"}) \cup {"Hold"}
    <2>1. start_timer(c, "Hold") = timer_set(c, "Hold")
      BY <1>1, SessionAssumption DEF start_timer
    <2> QED BY SMTT(30), <1>1, <1>6, <2>1 DEF timer_set, change_state, PeerFields
  <1> HIDE DEF q
  <1>3. Homed(q.state, q.timers)
    BY <1>2 DEF Homed
  <1>4. Settled => Led(q.state, q.timers, q.fd, q.holdtime, q.demoted, q.conf)
    BY SMTT(30), <1>2 DEF Led, OpenStates
  <1>5. Fine(q) /\ q.state = "OPENSENT"
    BY SMTT(30), <1>2, <1>3, <1>4, SessionAssumption DEF Fine, Tended, Waits, States
  <1> QED BY <1>5 DEF q

LEMMA OpenFailFine ==
    ASSUME NEW p, Tended(p), p.state = "CONNECT"
    PROVE  Fine(con_openfail(p)) /\ con_openfail(p).state = "ACTIVE"
  <1> DEFINE q == con_openfail(p)
  <1>1. /\ DOMAIN q = PeerFields /\ q.state = "ACTIVE" /\ q.fd = "none"
        /\ q.holdtime = p.holdtime /\ q.timers = p.timers \cup {"ConnectRetry"}
    BY SMTT(30) DEF con_openfail, change_state, session_close, timer_set, PeerFields, Tended
  <1> HIDE DEF q
  <1>2. Fine(q) /\ q.state = "ACTIVE"
    BY <1>1 DEF Fine, Tended, Waits, States, Homed, Led, OpenStates
  <1> QED BY <1>2 DEF q

LEMMA ConnectFine ==
    ASSUME NEW p, Tended(p), p.state = "CONNECT", NEW in \in Inputs, in.mem
    PROVE  /\ Fine(session_connect(p, in))
           /\ session_connect(p, in).state \notin {"IDLE", "ESTABLISHED"}
  <1> DEFINE o == [p EXCEPT !.fd = "out"]
  <1>1. /\ DOMAIN o = PeerFields /\ o.state = "CONNECT" /\ o.fd = "out"
        /\ o.timers = p.timers /\ o.holdtime = p.holdtime
    BY Zenon DEF Tended, PeerFields
  <1> HIDE DEF o
  <1>2. Fine(p) /\ Fine(o)
    BY ZenonT(30), <1>1 DEF Fine, Tended, Waits, States, Homed, Led, OpenStates
  <1>3. Fine(con_open(o, in)) /\ con_open(o, in).state = "OPENSENT"
    BY <1>1, <1>2, OpenFine DEF Fine, Tended
  <1>4. session_connect(p, in) \in {p, con_openfail(p), o, con_open(o, in)}
    BY ZenonT(30) DEF session_connect, Inputs, o
  <1> QED BY <1>1, <1>2, <1>3, <1>4, OpenFailFine

LEMMA ConnectNowFine ==
    ASSUME NEW p, DOMAIN p = PeerFields, p.holdtime \in Nat,
           "IdleHold" \notin p.timers, "Keepalive" \notin p.timers,
           "IdleHoldReset" \notin p.timers, Settled => p.fd \in {"none", "in", "out"},
           NEW in \in Inputs, in.mem
    PROVE  /\ Fine(connect_now(p, in))
           /\ connect_now(p, in).state \notin {"IDLE", "ESTABLISHED"}
  <1> DEFINE q == change_state(timer_set(p, "ConnectRetry"), "CONNECT")
  <1>1. /\ DOMAIN q = PeerFields /\ q.state = "CONNECT" /\ q.fd = p.fd
        /\ q.timers = p.timers \cup {"ConnectRetry"} /\ q.holdtime = p.holdtime
    BY SMTT(30) DEF change_state, timer_set, PeerFields
  <1> HIDE DEF q
  <1>2. Tended(q)
    BY SMTT(30), <1>1 DEF Tended, States, Homed, Led, OpenStates
  <1> QED BY <1>1, <1>2, ConnectFine DEF connect_now, q

\* EVNT_START leaves IDLE, unless the interface is down.
LEMMA StartFine ==
    ASSUME NEW p, Tended(p), NEW in \in Inputs, in.mem
    PROVE  LET r == fsm_start(p, in)
           IN  /\ Fine(r) /\ (r.state = "IDLE" => ~r.depend_ok)
               /\ p.state # "ESTABLISHED" => r.state # "ESTABLISHED"
  <1> DEFINE q == [p EXCEPT !.timers = @ \ {"Hold", "SendHold", "Keepalive", "IdleHold"}]
             i == timer_stop(q, "ConnectRetry")
             a == timer_stop(change_state(q, "ACTIVE"), "ConnectRetry")
             c == timer_set(change_state(q, "ACTIVE"), "ConnectRetry")
             r == fsm_start(p, in)
  <1>1. /\ DOMAIN q = PeerFields /\ q.state = p.state /\ q.fd = p.fd /\ q.conf = p.conf
        /\ q.timers = p.timers \ {"Hold", "SendHold", "Keepalive", "IdleHold"}
        /\ q.holdtime = p.holdtime /\ q.depend_ok = p.depend_ok
    BY SMTT(30) DEF Tended, PeerFields
  <1>2. CASE p.state \notin {"IDLE", "ACTIVE"} \/ (p.state = "ACTIVE" /\ ~p.depend_ok)
    <2>1. r = p
      BY SMTT(30), <1>2 DEF fsm_start
    <2> QED BY <1>2, <2>1 DEF Fine, Waits
  <1>3. CASE p.state = "IDLE" /\ ~p.depend_ok
    <2>1. r = i
      BY <1>3 DEF fsm_start
    <2> HIDE DEF q
    <2>2. /\ DOMAIN i = PeerFields /\ i.state = "IDLE" /\ i.fd = p.fd
          /\ i.timers = q.timers \ {"ConnectRetry"} /\ i.holdtime = p.holdtime
          /\ i.depend_ok = p.depend_ok
      BY SMTT(30), <1>1, <1>3 DEF timer_stop, PeerFields
    <2> HIDE DEF i
    <2>3. Tended(i)
      BY ZenonT(30), <1>1, <1>3, <2>2 DEF Tended, Homed, Led, OpenStates, States
    <2> QED BY SMTT(30), <1>3, <2>1, <2>2, <2>3 DEF Fine, Waits
  <1>4. CASE p.state = "IDLE" /\ p.depend_ok
    <2>1. r \in {connect_now(q, in), c} \/ (p.conf.passive /\ r = a)
      BY <1>4 DEF fsm_start
    <2> HIDE DEF q
    <2>2. /\ DOMAIN a = PeerFields /\ a.state = "ACTIVE" /\ a.fd = p.fd
          /\ a.timers = q.timers \ {"ConnectRetry"} /\ a.holdtime = p.holdtime
          /\ a.conf = p.conf
          /\ DOMAIN c = PeerFields /\ c.state = "ACTIVE" /\ c.fd = p.fd
          /\ c.timers = q.timers \cup {"ConnectRetry"} /\ c.holdtime = p.holdtime
      BY Zenon, <1>1 DEF timer_stop, timer_set, change_state, PeerFields
    <2> HIDE DEF a, c
    <2>3. Fine(c) /\ (p.conf.passive => Fine(a))
      BY ZenonT(30), <1>1, <1>4, <2>2 DEF Fine, Waits, Tended, Homed, Led, OpenStates, States
    <2>4. /\ Fine(connect_now(q, in))
          /\ connect_now(q, in).state \notin {"IDLE", "ESTABLISHED"}
      BY SMTT(30), <1>1, <1>4, ConnectNowFine DEF Tended, Homed, Led
    <2> QED BY <2>1, <2>2, <2>3, <2>4
  <1>5. CASE p.state = "ACTIVE" /\ p.depend_ok
    <2>1. r = connect_now(p, in)
      BY SMTT(30), <1>5 DEF fsm_start
    <2>2. Fine(connect_now(p, in)) /\ connect_now(p, in).state \notin {"IDLE", "ESTABLISHED"}
      BY SMTT(30), <1>5, ConnectNowFine DEF Tended, Homed, Led
    <2> QED BY <2>1, <2>2
  <1> QED BY <1>2, <1>3, <1>4, <1>5

\* EVNT_STOP leaves the peer in IDLE without a timer to leave it.
LEMMA StopTended ==
    ASSUME NEW p, Tended(p)
    PROVE  LET q == fsm_stop(p)
           IN  /\ Tended(q) /\ q.conf = p.conf /\ q.depend_ok = p.depend_ok
               /\ p.state # "NONE" => q.state = "IDLE"
  <1> DEFINE i == timer_stop(p, "IdleHold")
  <1>1. CASE p.state = "NONE"
    BY <1>1 DEF fsm_stop
  <1>2. CASE p.state = "IDLE"
    <2>1. fsm_stop(p) = i
      BY <1>2 DEF fsm_stop
    <2>2. /\ DOMAIN i = PeerFields /\ i.state = "IDLE" /\ i.fd = p.fd
          /\ i.timers = p.timers \ {"IdleHold"} /\ i.holdtime = p.holdtime
          /\ i.depend_ok = p.depend_ok /\ i.conf = p.conf
      BY SMTT(30), <1>2 DEF timer_stop, PeerFields, Tended
    <2> HIDE DEF i
    <2>3. Tended(i)
      BY Zenon, <1>2, <2>2 DEF Tended, Homed, Led, OpenStates, States
    <2> QED BY <2>1, <2>2, <2>3
  <1>3. CASE p.state \notin {"NONE", "IDLE"}
    <2>1. fsm_stop(p) = change_state_idle(p, "STOP")
      BY <1>3 DEF fsm_stop
    <2> QED BY Zenon, <2>1, Idled DEF Tended
  <1> QED BY <1>1, <1>2, <1>3

\* EVNT_CON_CLOSED
LEMMA ClosedFine ==
    ASSUME NEW p, Fine(p)
    PROVE  Fine(fsm_con_closed(p))
  <1> DEFINE a == change_state(timer_set(session_close(p), "ConnectRetry"), "ACTIVE")
  <1>1. CASE p.state \in {"NONE", "IDLE"}
    BY <1>1 DEF fsm_con_closed
  <1>2. CASE p.state = "OPENSENT"
    <2>1. fsm_con_closed(p) = a
      BY <1>2 DEF fsm_con_closed
    <2>2. /\ DOMAIN a = PeerFields /\ a.state = "ACTIVE" /\ a.fd = "none"
          /\ a.timers = p.timers \cup {"ConnectRetry"} /\ a.holdtime = p.holdtime
      BY SMTT(30) DEF change_state, timer_set, session_close, PeerFields, Tended, Fine
    <2> HIDE DEF a
    <2>3. Fine(a)
      BY ZenonT(30), <1>2, <2>2 DEF Fine, Waits, Tended, Homed, Led, OpenStates, States
    <2> QED BY <2>1, <2>3
  <1>3. CASE p.state \notin {"NONE", "IDLE", "OPENSENT"}
    <2>1. fsm_con_closed(p) = change_state_idle(p, "CON_CLOSED")
      BY <1>3 DEF fsm_con_closed
    <2> QED BY <1>3, <2>1, Idled DEF Fine, Tended
  <1> QED BY <1>1, <1>2, <1>3

\* Traffic re-arms the timers of an open session.
LEMMA StartTimerFine ==
    ASSUME NEW p, Fine(p), NEW timer \in {"Hold", "SendHold", "Keepalive"},
           p.state \in OpenStates, timer = "Keepalive" => p.state # "OPENSENT",
           timer = "Hold" => p.state = "ESTABLISHED"
    PROVE  Fine(start_timer(p, timer))
  <1> DEFINE q == start_timer(p, timer)
  <1>1. /\ DOMAIN q = PeerFields /\ q.state = p.state /\ q.fd = p.fd
        /\ q.timers = IF p.holdtime > 0 THEN p.timers \cup {timer} ELSE p.timers \ {timer}
        /\ q.holdtime = p.holdtime /\ q.demoted = p.demoted /\ q.conf = p.conf
    BY SMTT(30) DEF start_timer, timer_set, timer_stop, PeerFields, Tended, Fine
  <1> HIDE DEF q
  <1>2. Homed(q.state, q.timers)
    BY SMTT(30), <1>1 DEF Fine, Tended, Homed, OpenStates
  <1>3. Settled => Led(q.state, q.timers, q.fd, q.holdtime, q.demoted, q.conf)
    BY SMTT(30), <1>1 DEF Fine, Tended, Led, OpenStates
  <1>4. Fine(q)
    BY <1>1, <1>2, <1>3 DEF Fine, Tended, Waits, OpenStates
  <1> QED BY <1>4 DEF q

\* OPENCONFIRM -> ESTABLISHED
LEMMA EstablishedFine ==
    ASSUME NEW p, Fine(p), p.state = "OPENCONFIRM"
    PROVE  Fine(change_state_established(start_timer(p, "Hold")))
  <1> DEFINE h == start_timer(p, "Hold")
             e == [h EXCEPT !.prev_state = h.state, !.state = "ESTABLISHED",
                            !.timers = @ \cup {"IdleHoldReset"}]
             u == IF h.demoted > 0 THEN timer_set(e, "CarpUndemote") ELSE e
             q == session_up(u)
  <1>1. /\ DOMAIN h = PeerFields /\ h.fd = p.fd
        /\ h.timers = IF p.holdtime > 0 THEN p.timers \cup {"Hold"} ELSE p.timers \ {"Hold"}
        /\ h.holdtime = p.holdtime /\ h.demoted = p.demoted
    BY DEF start_timer, timer_set, timer_stop, PeerFields, Tended, Fine
  <1>2. change_state_established(h) = q
    BY DEF change_state_established
  <1> HIDE DEF h
  <1>3. /\ DOMAIN e = PeerFields /\ e.fd = p.fd /\ e.state = "ESTABLISHED"
        /\ e.timers = h.timers \cup {"IdleHoldReset"}
        /\ e.holdtime = p.holdtime /\ e.demoted = p.demoted
    BY <1>1 DEF PeerFields
  <1> HIDE DEF e
  <1>4. /\ DOMAIN u = PeerFields /\ u.fd = p.fd /\ u.state = "ESTABLISHED"
        /\ u.timers = IF p.demoted > 0 THEN e.timers \cup {"CarpUndemote"} ELSE e.timers
        /\ u.holdtime = p.holdtime /\ u.demoted = p.demoted
    BY <1>1, <1>3 DEF timer_set, PeerFields
  <1> HIDE DEF u
  <1>5. /\ DOMAIN q = PeerFields /\ q.fd = p.fd /\ q.state = "ESTABLISHED"
        /\ q.timers = u.timers \ {"SessionDown"}
        /\ q.holdtime = p.holdtime /\ q.demoted = p.demoted
    BY SMTT(30), <1>4 DEF session_up, PeerFields
  <1> HIDE DEF q
  <1>6. Homed(q.state, q.timers)
    BY SMTT(30), <1>1, <1>3, <1>4, <1>5 DEF Fine, Tended, Homed
  <1>7. Settled => Led(q.state, q.timers, q.fd, q.holdtime, q.demoted, q.conf)
    <2>1. "Hold" \in q.timers \/ q.holdtime = 0
      BY SMTT(30), <1>1, <1>3, <1>4, <1>5 DEF Fine, Tended
    <2>2. q.demoted > 0 => "CarpUndemote" \in q.timers
      BY SMTT(30), <1>4, <1>5
    <2>3. Settled => q.fd \in {"in", "out"}
      BY ZenonT(30), <1>5 DEF Fine, Tended, Led, OpenStates
    <2> QED BY SMTT(30), <1>5, <2>1, <2>2, <2>3 DEF Led, OpenStates
  <1>8. Fine(q)
    BY SMTT(30), <1>5, <1>6, <1>7 DEF Fine, Tended, Waits, States
  <1> QED BY <1>2, <1>8 DEF h

\* A message or a timer of the session.
LEMMA ReceivedFine ==
    ASSUME NEW p, Fine(p), NEW kind, NEW in \in Inputs, in.mem
    PROVE  /\ Fine(fsm_rcvd_keepalive(p, in)) /\ Fine(fsm_rcvd_update(p, in))
           /\ Fine(fsm_rcvd_notification(p, kind, in))
           /\ Fine(fsm_timer_keepalive(p, in)) /\ Fine(fsm_timer_connretry(p, in))
           /\ Fine(session_update(p, in))
  <1>1. /\ Fine(unexpected(p, "RCVD_KEEPALIVE", in)) /\ Fine(unexpected(p, "RCVD_UPDATE", in))
        /\ Fine(unexpected(p, "RCVD_NOTIFICATION", in))
        /\ Fine(unexpected(p, "TIMER_KEEPALIVE", in))
        /\ Fine(unexpected(p, "TIMER_CONNRETRY", in))
    BY UnexpectedFine
  <1>2. p.state = "ESTABLISHED" => /\ Fine(start_timer(p, "Hold"))
                                   /\ Fine(start_timer(p, "Keepalive"))
    BY StartTimerFine DEF OpenStates
  <1>3. Fine(fsm_rcvd_keepalive(p, in))
    BY <1>1, <1>2, EstablishedFine DEF fsm_rcvd_keepalive
  <1>4. Fine(fsm_rcvd_update(p, in))
    BY <1>1, <1>2 DEF fsm_rcvd_update
  <1>5. Fine(fsm_rcvd_notification(p, kind, in))
    <2>1. CASE p.state \in OpenStates
      <3>1. fsm_rcvd_notification(p, kind, in) \in
              {change_state_idle(p, "RCVD_GRACE_NOTIFICATION"),
               change_state_idle(p, "RCVD_NOTIFICATION")}
        BY <2>1 DEF fsm_rcvd_notification, parse_notification
      <3> QED BY <2>1, <3>1, Idled DEF OpenStates, Fine, Tended
    <2> QED BY SMTT(30), <1>1, <2>1 DEF fsm_rcvd_notification
  <1>6. Fine(fsm_timer_keepalive(p, in))
    <2>1. CASE p.state \in {"OPENCONFIRM", "ESTABLISHED"}
      <3>1. fsm_timer_keepalive(p, in) = start_timer(p, "Keepalive")
        BY <2>1, Sent DEF fsm_timer_keepalive
      <3> QED BY <2>1, <3>1, StartTimerFine DEF OpenStates
    <2> QED BY <1>1, <2>1 DEF fsm_timer_keepalive
  <1>7. Fine(fsm_timer_connretry(p, in))
    <2>1. CASE p.state = "CONNECT"
      <3> DEFINE t == timer_set(p, "ConnectRetry")
      <3>1. fsm_timer_connretry(p, in) = session_connect(t, in)
        BY <2>1 DEF fsm_timer_connretry
      <3>2. /\ DOMAIN t = PeerFields /\ t.state = "CONNECT" /\ t.fd = p.fd
            /\ t.timers = p.timers \cup {"ConnectRetry"} /\ t.holdtime = p.holdtime
        BY SMTT(30), <2>1 DEF timer_set, PeerFields, Tended, Fine
      <3> HIDE DEF t
      <3>3. Tended(t)
        BY SMTT(30), <2>1, <3>2 DEF Fine, Tended, Homed, Led, OpenStates
      <3> QED BY <3>1, <3>2, <3>3, ConnectFine
    <2>2. CASE p.state = "ACTIVE"
      <3>1. fsm_timer_connretry(p, in) = connect_now(p, in)
        BY <2>2 DEF fsm_timer_connretry
      <3>2. /\ DOMAIN p = PeerFields /\ p.holdtime \in Nat
            /\ "IdleHold" \notin p.timers /\ "Keepalive" \notin p.timers
            /\ "IdleHoldReset" \notin p.timers
            /\ Settled => p.fd \in {"none", "in", "out"}
        BY SMTT(30), <2>2 DEF Fine, Tended, Homed, Led
      <3> QED BY ZenonT(30), <3>1, <3>2, ConnectNowFine
    <2>3. CASE p.state \notin {"CONNECT", "ACTIVE"}
      BY <1>1, <2>3 DEF fsm_timer_connretry
    <2> QED BY SMTT(30), <2>1, <2>2, <2>3
  <1>8. Fine(session_update(p, in))
    BY <1>2, Sent
  <1> QED BY SMTT(30), <1>3, <1>4, <1>5, <1>6, <1>7, <1>8

\* OPENSENT: an OPEN is answered, or ends the session.
LEMMA RcvdOpenFine ==
    ASSUME NEW p, Fine(p), p.conf.holdtime \in Nat, NEW o \in OpenType,
           NEW in, in.mem
    PROVE  Fine(fsm_rcvd_open(p, o, in))
  <1> DEFINE a == [p EXCEPT !.holdtime = IF o.holdtime < p.conf.holdtime
                                         THEN o.holdtime ELSE p.conf.holdtime]
             n == capa_neg_calc(a, o)
             k == start_timer(n, "Keepalive")
             q == change_state(k, "OPENCONFIRM")
  <1>1. CASE p.state # "OPENSENT"
    BY SMTT(30), <1>1, UnexpectedFine DEF fsm_rcvd_open
  <1>2. CASE p.state = "OPENSENT"
    <2>1. o.holdtime \in Nat /\ o.parse \in {"ok", "bad", "as0", "refused"}
      BY DEF OpenType
    <2>2. /\ DOMAIN a = PeerFields /\ a.state = "OPENSENT" /\ a.fd = p.fd
          /\ a.timers = p.timers /\ a.holdtime \in Nat
      BY <1>2, <2>1 DEF PeerFields, Fine, Tended
    <2> HIDE DEF a
    <2>3. /\ DOMAIN n = PeerFields /\ n.state = "OPENSENT" /\ n.fd = p.fd
          /\ n.timers = p.timers /\ n.holdtime \in Nat
      BY <2>2 DEF capa_neg_calc, PeerFields
    <2>4. parse_open(p, o, in) \in
            {q, change_state_idle(p, "RCVD_OPEN"),
             change_state_idle(change_state_idle(p, "RCVD_OPEN"), "RCVD_OPEN"),
             change_state_idle(n, "RCVD_OPEN")}
      BY <2>1, Sent DEF parse_open, a
    <2> HIDE DEF n
    <2>5. /\ DOMAIN k = PeerFields /\ k.fd = p.fd /\ k.holdtime \in Nat
          /\ k.timers \in {p.timers \cup {"Keepalive"}, p.timers \ {"Keepalive"}}
      BY <2>3 DEF start_timer, timer_set, timer_stop, PeerFields
    <2> HIDE DEF k
    <2>6. /\ DOMAIN q = PeerFields /\ q.state = "OPENCONFIRM" /\ q.fd = p.fd
          /\ q.timers = k.timers /\ q.holdtime \in Nat
      BY SMTT(30), <2>5 DEF change_state, PeerFields
    <2> HIDE DEF q
    <2>7. Fine(q)
      BY SMTT(30), <1>2, <2>5, <2>6 DEF Fine, Tended, Waits, Homed, Led, States, OpenStates
    <2>8. /\ Fine(change_state_idle(p, "RCVD_OPEN"))
          /\ change_state_idle(p, "RCVD_OPEN").state = "IDLE"
          /\ Fine(change_state_idle(n, "RCVD_OPEN"))
      BY ZenonT(30), <1>2, <2>3, Idled DEF Fine, Tended
    <2>9. Fine(change_state_idle(change_state_idle(p, "RCVD_OPEN"), "RCVD_OPEN"))
      BY Zenon, <2>8, Idled DEF Fine, Tended
    <2> QED BY SMTT(30), <1>2, <2>4, <2>7, <2>8, <2>9 DEF fsm_rcvd_open
  <1> QED BY SMTT(30), <1>1, <1>2

\* What Fine does not look at does not matter to it.
LEMMA FineAlike ==
    ASSUME NEW p, NEW q, DOMAIN q = PeerFields, q.state = p.state, q.fd = p.fd,
           q.timers = p.timers, q.holdtime = p.holdtime, q.demoted = p.demoted,
           q.conf = p.conf
    PROVE  /\ Tended(p) => Tended(q)
           /\ Fine(p) /\ q.depend_ok = p.depend_ok => Fine(q)
  BY Zenon DEF Fine, Tended, Waits

\* init_peer(): a new peer is started, unless it is down by configuration.
LEMMA InitPeerFine ==
    ASSUME NEW p, DOMAIN p = PeerFields, NEW in \in Inputs, in.mem
    PROVE  Fine(init_peer(p, in))
  <1> DEFINE a == [p EXCEPT !.depend_ok = @ \/ ~p.conf.if_depend]
             q == change_state_idle(a, "NONE")
             r == IF p.conf.down THEN q ELSE fsm_start(q, in)
             d == session_demote(r, 1)
             s == IF p.reconf # "REINIT" /\ p.conf.demote_group # NoGroup
                  THEN d ELSE r
             z == [s EXCEPT !.reconf = "NONE"]
  <1>1. DOMAIN a = PeerFields /\ a.conf = p.conf
    BY DEF PeerFields
  <1> HIDE DEF a
  <1>2. Tended(q) /\ q.state = "IDLE" /\ q.conf = p.conf
    BY SMTT(30), <1>1, Idled
  <1> HIDE DEF q
  <1>3. Fine(r) /\ r.state # "ESTABLISHED"
    <2>1. CASE p.conf.down
      BY SMTT(30), <1>2, <2>1 DEF Fine, Waits
    <2>2. CASE ~p.conf.down
      BY <1>2, <2>2, StartFine
    <2> QED BY SMTT(30), <2>1, <2>2
  <1> HIDE DEF r
  <1>4. /\ DOMAIN d = PeerFields /\ d.state = r.state /\ d.fd = r.fd
        /\ d.timers = r.timers /\ d.holdtime = r.holdtime /\ d.conf = r.conf
        /\ d.depend_ok = r.depend_ok
    BY SMTT(30), <1>3 DEF session_demote, PeerFields, Fine, Tended
  <1> HIDE DEF d
  <1>5. Fine(d)
    BY <1>3, <1>4 DEF Fine, Tended, Waits, Led
  <1>6. Fine(s)
    BY <1>3, <1>5
  <1>7. init_peer(p, in) = z
    BY DEF init_peer, a, q, r, d
  <1> HIDE DEF s
  <1>8. /\ DOMAIN z = PeerFields /\ z.state = s.state /\ z.fd = s.fd
        /\ z.timers = s.timers /\ z.holdtime = s.holdtime /\ z.conf = s.conf
        /\ z.demoted = s.demoted /\ z.depend_ok = s.depend_ok
    BY <1>6 DEF PeerFields, Fine, Tended
  <1> HIDE DEF z
  <1> QED BY <1>6, <1>7, <1>8, FineAlike

\* A peer that has just been made has nothing to wait for.
LEMMA NewPeerFine ==
    ASSUME NEW conf, NEW reconf, NEW carp
    PROVE  Fine(new_peer(conf, reconf, carp))
  <1> DEFINE q == new_peer(conf, reconf, carp)
  <1>1. /\ DOMAIN q = PeerFields /\ q.state = "NONE" /\ q.fd = "none"
        /\ q.timers = {} /\ q.holdtime = 0
    BY SMTT(30) DEF new_peer, PeerFields
  <1> HIDE DEF q
  <1>2. Fine(q)
    BY <1>1 DEF Fine, Tended, Waits, Homed, Led, States, OpenStates
  <1> QED BY SMTT(30), <1>2 DEF q

LEMMA ClonePeerFine ==
    ASSUME NEW p, NEW conf, NEW depend_ok, NEW in \in Inputs, in.mem
    PROVE  Fine(clone_peer(p, conf, depend_ok, in))
  <1> DEFINE m == new_peer(conf, "CLONE", p.carp)
             n == [m EXCEPT !.depend_ok = depend_ok]
             a == init_peer(n, in)
             b == timer_set(a, "SessionDown")
  <1>1. clone_peer(p, conf, depend_ok, in) = fsm_start(b, in)
    BY SMTT(30) DEF clone_peer
  <1>2. DOMAIN m = PeerFields
    BY DEF new_peer, PeerFields
  <1> HIDE DEF m
  <1>3. DOMAIN n = PeerFields
    BY <1>2
  <1> HIDE DEF n
  <1>4. Fine(a)
    BY <1>3, InitPeerFine
  <1> HIDE DEF a
  <1>5. /\ DOMAIN b = PeerFields /\ b.state = a.state /\ b.fd = a.fd
        /\ b.timers = a.timers \cup {"SessionDown"} /\ b.holdtime = a.holdtime
        /\ b.demoted = a.demoted /\ b.conf = a.conf
    BY SMTT(30), <1>4 DEF timer_set, PeerFields, Fine, Tended
  <1> HIDE DEF b
  <1>6. Tended(b)
    BY SMTT(30), <1>4, <1>5 DEF Fine, Tended, Homed, Led
  <1> QED BY <1>1, <1>6, StartFine

\* session_accept(): the connection takes the place of the one there was.
LEMMA AcceptFine ==
    ASSUME NEW p, Fine(p), NEW outcome \in Accepts, NEW in \in Inputs, in.mem
    PROVE  Fine(session_accept(p, outcome, in))
  <1> DEFINE Open(c) == /\ DOMAIN c = PeerFields /\ c.holdtime \in Nat
                        /\ c.state \in {"CONNECT", "ACTIVE"}
                        /\ Homed(c.state, c.timers)
             c1 == session_close(p)
             c2 == change_state_connect_graceful(p)
  <1>1. ASSUME NEW c, Open(c)
        PROVE  Fine(accept_open(c, outcome, in))
    <2> DEFINE i == [c EXCEPT !.fd = "in"]
               t == [c EXCEPT !.fd = "stale"]
    <2>1. /\ DOMAIN i = PeerFields /\ i.state = c.state /\ i.timers = c.timers
          /\ i.fd = "in"
          /\ DOMAIN t = PeerFields /\ t.state = c.state /\ t.timers = c.timers
          /\ t.holdtime = c.holdtime
      BY <1>1 DEF PeerFields
    <2>2. outcome \in AcceptOutcomes /\ (Settled => outcome = "ok")
      BY SessionAssumption DEF Settled
    <2>3. accept_open(c, outcome, in) = CASE outcome = "refused" -> c
                                          [] outcome = "setup" -> t
                                          [] outcome = "ok" -> con_open(i, in)
      BY SMTT(30) DEF accept_open
    <2> HIDE DEF i, t
    <2>4. Fine(con_open(i, in))
      BY SMTT(30), <1>1, <2>1, OpenFine
    <2>5. ~Settled => Fine(c) /\ Fine(t)
      BY <1>1, <2>1 DEF Fine, Tended, States
    <2> QED BY <2>2, <2>3, <2>4, <2>5 DEF AcceptOutcomes
  <1>2. CASE p.state = "CONNECT"
    <2>1. Open(c1)
      BY <1>2 DEF session_close, PeerFields, Fine, Tended
    <2> HIDE DEF Open
    <2> QED BY <1>1, <1>2, <2>1 DEF session_accept
  <1>3. CASE p.state = "ACTIVE"
    <2>1. Open(p)
      BY <1>3 DEF Fine, Tended
    <2> HIDE DEF Open
    <2> QED BY <1>1, <1>3, <2>1 DEF session_accept
  <1>4. CASE p.state = "ESTABLISHED" /\ p.neg.restart = 2
    <2> DEFINE a == [p EXCEPT !.prev_state = p.state, !.state = "CONNECT"]
               g == session_graceful_restart(a)
    <2>1. DOMAIN a = PeerFields /\ a.state = "CONNECT" /\ a.timers = p.timers
      BY DEF PeerFields, Fine, Tended
    <2>2. c2 = [g EXCEPT !.holdtime = INTERVAL_HOLD_INITIAL,
                         !.timers = @ \ ConnTimers, !.fd = "none", !.rq = FALSE]
      BY DEF change_state_connect_graceful
    <2> HIDE DEF a
    <2>3. DOMAIN g = PeerFields /\ g.state = "CONNECT"
      BY <2>1 DEF session_graceful_restart, PeerFields
    <2> HIDE DEF g
    <2>4. /\ DOMAIN c2 = PeerFields /\ c2.state = "CONNECT"
          /\ c2.timers = g.timers \ ConnTimers /\ c2.holdtime = INTERVAL_HOLD_INITIAL
      BY SMTT(30), <2>2, <2>3 DEF PeerFields
    <2> HIDE DEF c2
    <2>5. Open(c2)
      BY <2>4, SessionAssumption DEF Homed, ConnTimers
    <2> HIDE DEF Open
    <2> QED BY <1>1, <1>4, <2>5 DEF session_accept, c2
  <1>5. CASE p.state \notin {"CONNECT", "ACTIVE"} /\
             ~(p.state = "ESTABLISHED" /\ p.neg.restart = 2)
    BY <1>5 DEF session_accept
  <1> QED BY <1>2, <1>3, <1>4, <1>5

\* The main loop's switch over the timer that is due.
LEMMA TimerHandlerFine ==
    ASSUME NEW p, Fine(p), p.demoted \in 0 .. 1, NEW timer \in Timers,
           NEW in \in Inputs, in.mem
    PROVE  Fine(timer_handler(p, timer, in))
  <1> DEFINE q == timer_handler(p, timer, in)
             Same(r) == /\ DOMAIN r = PeerFields /\ r.state = p.state /\ r.fd = p.fd
                        /\ r.holdtime = p.holdtime /\ r.conf = p.conf
                        /\ r.depend_ok = p.depend_ok
  <1>1. DOMAIN p = PeerFields
    BY DEF Fine, Tended
  <1>2. CASE timer \in {"Hold", "SendHold", "ConnectRetry", "Keepalive", "IdleHold"}
    <2>1. /\ Fine(unexpected(p, "TIMER_HOLDTIME", in))
          /\ Fine(unexpected(p, "TIMER_SENDHOLD", in))
          /\ Fine(fsm_timer_connretry(p, in)) /\ Fine(fsm_timer_keepalive(p, in))
          /\ Fine(fsm_start(p, in))
      BY Zenon, UnexpectedFine, ReceivedFine, StartFine DEF Fine
    <2> QED BY <1>2, <2>1 DEF timer_handler
  <1>3. CASE timer = "IdleHoldReset"
    <2>1. q = timer_stop([p EXCEPT !.IdleHoldTime = 0], "IdleHoldReset")
      BY <1>3 DEF timer_handler
    <2> HIDE DEF q
    <2>2. Same(q) /\ q.timers = p.timers \ {"IdleHoldReset"} /\ q.demoted = p.demoted
      BY SMTT(30), <1>1, <2>1 DEF timer_stop, PeerFields
    <2>3. Fine(q)
      BY <2>2 DEF Fine, Tended, Waits, Homed, Led
    <2> QED BY <2>3 DEF q
  <1>4. CASE timer = "CarpUndemote"
    <2> DEFINE t == timer_stop(p, "CarpUndemote")
               d == session_demote(t, -1)
    <2>1. q = IF p.demoted > 0 /\ p.state = "ESTABLISHED" THEN d ELSE t
      BY <1>4 DEF timer_handler
    <2> HIDE DEF q
    <2>2. Same(t) /\ t.timers = p.timers \ {"CarpUndemote"} /\ t.demoted = p.demoted
      BY <1>1 DEF timer_stop, PeerFields
    <2> HIDE DEF t
    <2>3. /\ DOMAIN d = PeerFields /\ d.state = t.state /\ d.fd = t.fd
          /\ d.holdtime = t.holdtime /\ d.conf = t.conf /\ d.depend_ok = t.depend_ok
          /\ d.timers = t.timers /\ d.demoted = t.demoted + (-1)
      BY SMTT(30), <2>2 DEF session_demote, PeerFields
    <2> HIDE DEF d
    <2>4. /\ Same(q) /\ q.timers = p.timers \ {"CarpUndemote"}
          /\ p.state = "ESTABLISHED" => ~(q.demoted > 0)
      BY SMTT(30), <2>1, <2>2, <2>3
    <2>5. Fine(q)
      BY <2>4 DEF Fine, Tended, Waits, Homed, Led
    <2> QED BY <2>5 DEF q
  <1>5. CASE timer = "RestartTimeout"
    <2> DEFINE t == timer_stop(p, "RestartTimeout")
    <2>1. q = session_graceful_stop(t)
      BY <1>5 DEF timer_handler
    <2> HIDE DEF q
    <2>2. Same(t) /\ t.timers = p.timers \ {"RestartTimeout"} /\ t.demoted = p.demoted
      BY <1>1 DEF timer_stop, PeerFields
    <2> HIDE DEF t
    <2>3. /\ DOMAIN q = PeerFields /\ q.state = t.state /\ q.fd = t.fd
          /\ q.holdtime = t.holdtime /\ q.conf = t.conf /\ q.depend_ok = t.depend_ok
          /\ q.timers = t.timers /\ q.demoted = t.demoted
      BY ZenonT(30), <2>1, <2>2 DEF session_graceful_stop, PeerFields
    <2>4. Fine(q)
      BY SMTT(30), <2>2, <2>3 DEF Fine, Tended, Waits, Homed, Led
    <2> QED BY <2>4 DEF q
  <1>6. CASE timer = "SessionDown"
    <2> DEFINE t == timer_stop(p, "SessionDown")
    <2>1. q = [t EXCEPT !.rde = rde_session_delete, !.rdesession = FALSE,
                        !.reconf = IF IsClone THEN "DELETE" ELSE @]
      BY <1>6 DEF timer_handler
    <2> HIDE DEF q
    <2>2. Same(t) /\ t.timers = p.timers \ {"SessionDown"} /\ t.demoted = p.demoted
      BY <1>1 DEF timer_stop, PeerFields
    <2> HIDE DEF t
    <2>3. /\ DOMAIN q = PeerFields /\ q.state = t.state /\ q.fd = t.fd
          /\ q.holdtime = t.holdtime /\ q.conf = t.conf /\ q.depend_ok = t.depend_ok
          /\ q.timers = t.timers /\ q.demoted = t.demoted
      BY ZenonT(30), <2>1, <2>2 DEF PeerFields
    <2>4. Fine(q)
      BY <2>2, <2>3 DEF Fine, Tended, Waits, Homed, Led
    <2> QED BY <2>4 DEF q
  <1> QED BY SMTT(30), <1>2, <1>3, <1>4, <1>5, <1>6 DEF Timers

\* A stop that is to be followed by a start leaves IdleHold running.
LEMMA StopHoldFine ==
    ASSUME NEW p, Tended(p), p.state # "NONE"
    PROVE  Fine(timer_set(fsm_stop(p), "IdleHold"))
  <1> DEFINE s == fsm_stop(p)
             q == timer_set(s, "IdleHold")
  <1>1. Tended(s) /\ s.state = "IDLE"
    BY StopTended
  <1> HIDE DEF s
  <1>2. /\ DOMAIN q = PeerFields /\ q.state = "IDLE" /\ q.fd = s.fd
        /\ q.timers = s.timers \cup {"IdleHold"} /\ q.holdtime = s.holdtime
    BY SMTT(30), <1>1 DEF timer_set, PeerFields, Tended
  <1> HIDE DEF q
  <1>3. Fine(q)
    BY <1>1, <1>2 DEF Fine, Tended, Waits, Homed, Led, OpenStates
  <1> QED BY <1>3 DEF q, s

\* IMSG_SESSION_DEPENDON: the interface is back, or the session is stopped.
LEMMA DependOnFine ==
    ASSUME NEW p, Fine(p), NEW depend_ok \in BOOLEAN, NEW in \in Inputs, in.mem
    PROVE  LET q == [p EXCEPT !.depend_ok = depend_ok]
           IN  Fine(IF depend_ok THEN fsm_start(q, in) ELSE session_stop(q, in))
  <1> DEFINE q == [p EXCEPT !.depend_ok = depend_ok]
  <1>1. /\ DOMAIN q = PeerFields /\ q.state = p.state /\ q.fd = p.fd
        /\ q.timers = p.timers /\ q.holdtime = p.holdtime /\ q.demoted = p.demoted
        /\ q.conf = p.conf /\ q.depend_ok = depend_ok
    BY DEF PeerFields, Fine, Tended
  <1> HIDE DEF q
  <1>2. Tended(q)
    BY <1>1, FineAlike DEF Fine
  <1>3. Fine(fsm_start(q, in))
    BY <1>2, StartFine
  <1>4. session_stop(q, in) = fsm_stop(q)
    BY SMTT(30), Sent DEF session_stop
  <1>5. ~depend_ok => Fine(fsm_stop(q))
    BY <1>1, <1>2, StopTended DEF Fine, Waits
  <1> QED BY <1>3, <1>4, <1>5 DEF q

\* bgpctl neighbor up, down and clear.
LEMMA ControlFine ==
    ASSUME NEW p, Fine(p), Good(p), p.state # "NONE", NEW in \in Inputs, in.mem
    PROVE  /\ Fine([fsm_start(p, in) EXCEPT !.conf.down = FALSE, !.IdleHoldTime = 0])
           /\ Fine(session_stop([p EXCEPT !.conf.down = TRUE], in))
           /\ LET q == session_stop([p EXCEPT !.IdleHoldTime = 0], in)
              IN  Fine(IF p.conf.down THEN q ELSE timer_set(q, "IdleHold"))
  <1>1. p.conf \in ConfType /\ Tended(p)
    BY DEF Good, Mid, Core, PeerType, Fine
  <1>2. Fine([fsm_start(p, in) EXCEPT !.conf.down = FALSE, !.IdleHoldTime = 0])
    <2> DEFINE r == fsm_start(p, in)
               q == [r EXCEPT !.conf.down = FALSE, !.IdleHoldTime = 0]
    <2>1. Fine(r) /\ (r.state = "IDLE" => ~r.depend_ok)
      BY SMTT(30), <1>1, StartFine
    <2>2. r.conf \in ConfType
      BY Zenon, Start DEF Good, Mid, Core, PeerType
    <2> HIDE DEF r
    <2>3. /\ DOMAIN q = PeerFields /\ q.state = r.state /\ q.fd = r.fd
          /\ q.timers = r.timers /\ q.holdtime = r.holdtime /\ q.demoted = r.demoted
          /\ q.depend_ok = r.depend_ok /\ q.conf.passive = r.conf.passive
      BY SMTT(30), <2>1, <2>2 DEF PeerFields, ConfType, Fine, Tended
    <2> HIDE DEF q
    <2>4. Fine(q)
      BY Zenon, <2>1, <2>3 DEF Fine, Tended, Waits, Led
    <2> QED BY <2>4 DEF q, r
  <1>3. Fine(session_stop([p EXCEPT !.conf.down = TRUE], in))
    <2> DEFINE q == [p EXCEPT !.conf.down = TRUE]
    <2>1. /\ DOMAIN q = PeerFields /\ q.state = p.state /\ q.fd = p.fd
          /\ q.timers = p.timers /\ q.holdtime = p.holdtime /\ q.demoted = p.demoted
          /\ q.conf.passive = p.conf.passive /\ q.conf.down
      BY SMTT(30), <1>1 DEF PeerFields, ConfType, Tended
    <2> HIDE DEF q
    <2>2. Tended(q)
      BY SMTT(30), <1>1, <2>1 DEF Tended, Led
    <2>3. session_stop(q, in) = fsm_stop(q)
      BY SMTT(30), Sent DEF session_stop
    <2>4. Fine(fsm_stop(q))
      BY <2>1, <2>2, StopTended DEF Fine, Waits
    <2> QED BY <2>3, <2>4 DEF q
  <1>4. LET q == session_stop([p EXCEPT !.IdleHoldTime = 0], in)
        IN  Fine(IF p.conf.down THEN q ELSE timer_set(q, "IdleHold"))
    <2> DEFINE q == [p EXCEPT !.IdleHoldTime = 0]
    <2>1. /\ DOMAIN q = PeerFields /\ q.state = p.state /\ q.fd = p.fd
          /\ q.timers = p.timers /\ q.holdtime = p.holdtime /\ q.demoted = p.demoted
          /\ q.conf = p.conf
      BY <1>1 DEF PeerFields, Tended
    <2> HIDE DEF q
    <2>2. Tended(q)
      BY SMTT(30), <1>1, <2>1, FineAlike
    <2>3. session_stop(q, in) = fsm_stop(q)
      BY Sent DEF session_stop
    <2>4. p.conf.down => Fine(fsm_stop(q))
      BY SMTT(30), <2>1, <2>2, StopTended DEF Fine, Waits
    <2>5. Fine(timer_set(fsm_stop(q), "IdleHold"))
      BY SMTT(30), <2>1, <2>2, StopHoldFine
    <2> QED BY <2>3, <2>4, <2>5 DEF q
  <1> QED BY SMTT(30), <1>2, <1>3, <1>4

\* Every step of the engine leaves the peer with the timer that leads on.
LEMMA NextFine ==
    ASSUME Calm, Good(peer), Absent(peer), Fine(peer), [Next]_vars
    PROVE  Fine(peer')
  <1>1. \A in \in Inputs : in.mem
    BY Zenon DEF Calm, Inputs
  <1>2. /\ DOMAIN peer = PeerFields /\ peer.demoted \in 0 .. 1
        /\ peer.conf.holdtime \in Nat /\ peer.conf.max_prefix_restart \in Nat
        /\ Tended(peer)
    BY ZenonT(30) DEF Good, Mid, Core, PeerType, ConfType, Fine, Tended
  <1>3. CASE InitPeer
    BY SMTT(30), <1>1, <1>2, <1>3, InitPeerFine DEF InitPeer
  <1>4. CASE DeletePeer
    <2>1. \E conf, carp : peer' = new_peer(conf, "ABSENT", carp)
      BY SMTT(30), <1>4 DEF DeletePeer, delete_peer
    <2> QED BY <2>1, NewPeerFine
  <1>5. CASE \E timer \in Timers : TimerExpired(timer)
    BY <1>1, <1>2, <1>5, TimerHandlerFine DEF TimerExpired
  <1>6. CASE Socket
    <2>1. CASE ConnectDone
      <3>1. peer.state = "CONNECT" /\ (Settled => peer.fd \in {"in", "out"})
        BY ZenonT(30), <2>1 DEF ConnectDone, Fine, Tended, Led
      <3>2. \A in \in Inputs : Fine(con_open(peer, in))
        BY SMTT(30), <1>1, <1>2, <3>1, OpenFine DEF Tended
      <3> QED BY Zenon, <1>2, <2>1, <3>1, <3>2, OpenFailFine, FatalFine DEF ConnectDone
    <2>2. CASE ConnectionLost
      BY <2>2, ClosedFine, FatalFine DEF ConnectionLost
    <2>3. CASE Written
      BY SMTT(30), <2>3, StartTimerFine DEF Written
    <2>4. CASE BadHeader
      BY SMTT(30), <1>1, <2>4, Sent, FatalFine DEF BadHeader
    <2>5. CASE Accept
      <3>1. PICK outcome \in Accepts, in \in Inputs :
                \/ peer' = session_accept(peer, outcome, in)
                \/ \E conf \in Confs, depend_ok \in BOOLEAN :
                      peer' = session_accept(clone_peer(peer, conf, depend_ok, in),
                                             outcome, in)
        BY Zenon, <2>5 DEF Accept
      <3>2. Fine(session_accept(peer, outcome, in))
        BY <1>1, AcceptFine
      <3>3. \A conf \in Confs, depend_ok \in BOOLEAN :
               Fine(clone_peer(peer, conf, depend_ok, in))
        BY <1>1, ClonePeerFine
      <3>4. \A conf \in Confs, depend_ok \in BOOLEAN :
               Fine(session_accept(clone_peer(peer, conf, depend_ok, in), outcome, in))
        BY <1>1, <3>3, AcceptFine
      <3> QED BY <3>1, <3>2, <3>4
    <2> QED BY Zenon, <1>6, <2>1, <2>2, <2>3, <2>4, <2>5 DEF Socket
  <1>7. CASE Message
    <2>1. CASE RcvdOpen
      <3>1. PICK o \in Opens, in \in Inputs : peer' = fsm_rcvd_open(peer, o, in)
        BY <2>1 DEF RcvdOpen
      <3>2. o \in OpenType /\ in.mem
        BY <1>1, SessionAssumption
      <3> QED BY SMTT(30), <1>2, <3>1, <3>2, RcvdOpenFine
    <2>2. CASE RcvdKeepalive
      BY SMTT(30), <1>1, <2>2, ReceivedFine DEF RcvdKeepalive
    <2>3. CASE RcvdUpdate
      BY SMTT(30), <1>1, <2>3, ReceivedFine DEF RcvdUpdate
    <2>4. CASE RcvdNotification
      BY SMTT(30), <1>1, <2>4, ReceivedFine DEF RcvdNotification
    <2>5. CASE RcvdBadRrefresh
      BY <1>1, <2>5, Sent, FatalFine DEF RcvdBadRrefresh
    <2> QED BY SMTT(30), <1>7, <2>1, <2>2, <2>3, <2>4, <2>5 DEF Message
  <1>8. CASE Imsg
    <2>1. CASE UpdateFromRde
      BY SMTT(30), <1>1, <2>1, ReceivedFine DEF UpdateFromRde
    <2>2. CASE UpdateErr
      <3> DEFINE s == fsm_stop(peer)
      <3>1. PICK in \in Inputs :
                \/ peer' = con_fatal(peer)
                \/ peer' = IF peer.conf.max_prefix_restart > 0
                           THEN timer_set(s, "IdleHold") ELSE s
        BY ZenonT(30), <1>1, <2>2, Sent DEF UpdateErr
      <3>2. peer.state # "NONE" /\ "update_err" \in Commands
        BY SMTT(30), <2>2 DEF UpdateErr, Live
      <3>3. Fine(con_fatal(peer)) /\ Fine(timer_set(s, "IdleHold"))
        BY SMTT(30), <1>2, <3>2, FatalFine, StopHoldFine
      <3>4. peer.conf.max_prefix_restart = 0 => Fine(s)
        BY SMTT(30), <1>2, <3>2, StopTended DEF Fine, Waits
      <3> QED BY SMTT(30), <1>2, <3>1, <3>3, <3>4
    <2>3. CASE SessionRestarted
      <3>1. PICK aid \in AIDs :
                peer' = [peer EXCEPT !.rde = rde_session_restarted(@, aid),
                                     !.neg.flags[aid] = @ \cup {"FINISHED"}]
        BY Zenon, <2>3 DEF SessionRestarted
      <3>2. /\ DOMAIN peer' = PeerFields /\ peer'.state = peer.state
            /\ peer'.fd = peer.fd /\ peer'.timers = peer.timers
            /\ peer'.holdtime = peer.holdtime /\ peer'.demoted = peer.demoted
            /\ peer'.conf = peer.conf /\ peer'.depend_ok = peer.depend_ok
        BY <1>2, <3>1 DEF PeerFields
      <3> QED BY <3>2, FineAlike
    <2>4. CASE Rrefresh
      BY <1>1, <2>4, Sent DEF Rrefresh
    <2>5. CASE DependOn
      <3>1. PICK depend_ok \in BOOLEAN, in \in Inputs :
                peer' = LET q == [peer EXCEPT !.depend_ok = depend_ok]
                        IN  IF depend_ok THEN fsm_start(q, in) ELSE session_stop(q, in)
        BY ZenonT(30), <2>5 DEF DependOn
      <3> QED BY <1>1, <3>1, DependOnFine
    <2>6. CASE Reload
      <3> DEFINE Same(q) == /\ DOMAIN q = PeerFields /\ q.state = peer.state
                            /\ q.timers = peer.timers /\ q.holdtime = peer.holdtime
      <3>1. PICK conf \in Confs : peer' = merge_peer(peer, conf)
        BY <2>6 DEF Reload
      <3> DEFINE m == [peer EXCEPT !.conf = conf,
                                   !.rde = IF peer.rdesession THEN rde_session_add(@)
                                           ELSE @]
      <3>2. Same(m)
        BY <1>2 DEF PeerFields
      <3>3. peer' \in {m, session_demote(m, -1)}
        BY <3>1 DEF merge_peer
      <3> HIDE DEF m
      <3>4. Same(session_demote(m, -1))
        BY <3>2 DEF session_demote, PeerFields
      <3>5. ~Settled
        BY <2>6 DEF Reload, Settled
      <3> QED BY SMTT(30), <1>2, <3>2, <3>3, <3>4, <3>5 DEF Fine, Tended
    <2>7. CASE Unconfigure
      <3>1. peer' = [peer EXCEPT !.reconf = "DELETE"]
        BY <2>7 DEF Unconfigure
      <3> QED BY <1>2, <3>1, FineAlike DEF PeerFields
    <2>8. CASE Configure
      BY <2>8, NewPeerFine DEF Configure
    <2> QED BY SMTT(30), <1>8, <2>1, <2>2, <2>3, <2>4, <2>5, <2>6, <2>7, <2>8 DEF Imsg
  <1>9. CASE Control
    <2>1. Addressed => peer.state # "NONE"
      BY DEF Addressed, Live, Calm
    <2>2. CASE NeighborUp
      <3>1. PICK in \in Inputs :
                peer' = [fsm_start(peer, in) EXCEPT !.conf.down = FALSE,
                                                    !.IdleHoldTime = 0]
        BY Zenon, <2>2 DEF NeighborUp
      <3>2. peer.state # "NONE"
        BY <2>1, <2>2 DEF NeighborUp
      <3> QED BY Zenon, <1>1, <3>1, <3>2, ControlFine
    <2>3. CASE NeighborDown
      BY Zenon, <1>1, <2>1, <2>3, ControlFine DEF NeighborDown
    <2>4. CASE NeighborClear
      BY Zenon, <1>1, <2>1, <2>4, ControlFine DEF NeighborClear
    <2>5. CASE NeighborDestroy
      <3>1. peer' = [peer EXCEPT !.reconf = "DELETE"]
        BY SMTT(30), <2>5 DEF NeighborDestroy
      <3> QED BY <1>2, <3>1, FineAlike DEF PeerFields
    <2> QED BY SMTT(30), <1>9, <2>2, <2>3, <2>4, <2>5 DEF Control
  <1>10. CASE UNCHANGED vars
    BY <1>10 DEF vars, Fine, Tended, Waits
  <1> QED BY SMTT(30), <1>3, <1>4, <1>5, <1>6, <1>7, <1>8, <1>9, <1>10 DEF Next

\* With memory, and no request read before the peer it is for is initialised,
\* the peer is fine throughout.
THEOREM FineInvariance == ASSUME Calm PROVE Spec => []Fine(peer)
  <1>1. Init => Fine(peer)
    BY NewPeerFine DEF Init
  <1>2. Good(peer) /\ Absent(peer) /\ Fine(peer) /\ [Next]_vars => Fine(peer')
    BY NextFine
  <1>3. Good(peer) /\ Absent(peer) /\ Fine(peer) /\ [Next]_vars => Fine(peer)'
    BY Zenon, <1>2 DEF Fine, Tended, Waits, Homed, Led, Settled
  <1> QED BY <1>1, <1>3, Invariance, PTL DEF Spec

\* The peer's records agree with its state.  No timer runs in a state whose case
\* for it neither stops nor re-arms it, so the main loop does not spin on one;
\* the RDE was told of the session and the group's demotion is the peer's.
THEOREM RecordsAgree == ASSUME Calm, CommonFamily, GroupKept PROVE Spec => []Consistent
  <1>1. Fine(peer) => TimerHome
    BY DEF Fine, Tended, Homed, TimerHome
  <1> QED BY <1>1, FineInvariance, RdeToldKept, DemotionKept, PTL DEF Consistent

\* No state is a dead end: a timer, or a reason of the configuration, is there
\* in each; open sessions and only they have a connection, and an ESTABLISHED
\* session that is demoted will take its demotion back.
THEOREM NeverStuck == ASSUME Calm, Settled PROVE Spec => []NoDeadEnd
  <1>1. Fine(peer) => Guarded
    BY SMTT(30) DEF Fine, Tended, Waits, Led, Guarded
  <1>2. Fine(peer) => Connected /\ UndemotePending
    BY DEF Fine, Tended, Led, Connected, UndemotePending
  <1> QED BY <1>1, <1>2, FineInvariance, PTL DEF NoDeadEnd

=============================================================================
