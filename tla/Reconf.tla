------------------------------- MODULE Reconf -------------------------------
(***************************************************************************)
(* Loading a configuration (bgpd.c, config.c, session.c, rde.c, rtr.c).    *)
(*                                                                         *)
(* The parent parses the file, merges it into its own configuration and    *)
(* sends it to the session engine (se), the decision engine (rde) and the  *)
(* RTR engine (rtr).  Each answers the drain message that ends it.  Then   *)
(* the session engine is told to switch; when the decision engine has seen *)
(* the neighbor configurations it sent, the other two are told.  The       *)
(* decision engine answers after its table walks.                          *)
(*                                                                         *)
(* A configuration is its number, its listen addresses, its RIBs and its   *)
(* neighbors with the RIB each uses.                                       *)
(***************************************************************************)
EXTENDS Integers, FiniteSets, Sequences

CONSTANTS
    None,
    Peers,          \* neighbors
    Configs,        \* what the file may say
    MaxReloads,     \* reloads after the start
    MaxFlaps,       \* times a session goes up or down
    FailsLate       \* may a reload that changes listeners, RIBs or neighbors
                    \* fail after the configuration was merged?

ASSUME ReconfAssumption ==
    /\ MaxReloads \in Nat /\ MaxFlaps \in Nat /\ FailsLate \in BOOLEAN
    /\ IsFiniteSet(Peers)
    /\ \A c \in Configs : /\ DOMAIN c = {"listeners", "ribs", "peers"}
                          /\ IsFiniteSet(c.ribs) /\ c.listeners \cap Peers = {}
                          /\ DOMAIN c.peers \subseteq Peers
                          /\ \A p \in DOMAIN c.peers : c.peers[p] \in c.ribs

VARIABLES
    main,       \* the parent: its merged configuration, reconfpending
    se,         \* the session engine
    rde,        \* the decision engine
    rtr,        \* the RTR engine
    pipe,       \* the imsg channels
    flaps,      \* sessions that went up or down so far
    fatal       \* a process has exited

vars == <<main, se, rde, rtr, pipe, flaps, fatal>>

Chans == {<<"main", "se">>, <<"main", "rde">>, <<"main", "rtr">>,
          <<"se", "main">>, <<"rde", "main">>, <<"rtr", "main">>,
          <<"se", "rde">>, <<"rde", "se">>}

-----------------------------------------------------------------------------
(***************************************************************************)
(* Messages.                                                               *)
(***************************************************************************)

msg(type) == [type |-> type]
peermsg(type, p) == [type |-> type, peer |-> p]
NoMsg == [c \in {} |-> <<>>]
To(c, s) == [x \in {c} |-> s]

\* The pipes after the messages sends[c] were written to each channel c and,
\* when from is a channel, its first message was read.
Piped(from, sends) ==
    [c \in Chans |-> (IF c = from THEN Tail(pipe[c]) ELSE pipe[c])
                     \o (IF c \in DOMAIN sends THEN sends[c] ELSE <<>>)]

Received(c, type) == ~fatal /\ pipe[c] # <<>> /\ Head(pipe[c]).type = type

-----------------------------------------------------------------------------
(***************************************************************************)
(* The parent.  main.listeners and main.peers are the merged lists,        *)
(* reinit the ones marked RECONF_REINIT, deleted the neighbors marked      *)
(* RECONF_DELETE, keyed those with pfkey state.                            *)
(***************************************************************************)

\* merge_config()
merge_config(m, c) ==
    LET old == DOMAIN m.peers \cup m.deleted
        new == DOMAIN c.peers
    IN  [m EXCEPT !.listeners = c.listeners, !.ribs = c.ribs, !.peers = c.peers,
                  !.reinit = (c.listeners \ m.listeners) \cup (new \ old),
                  !.deleted = old \ new]

\* prepare_listeners(): the sockets of gone cannot be bound.
prepare_listeners(m, gone) == [m EXCEPT !.listeners = @ \ gone]

\* The messages of send_config() to the three processes, drain messages last.
SentConfig(m) ==
    LET conf == [type |-> "CONF", ver |-> m.ver, listeners |-> m.listeners,
                 reinit |-> m.reinit, ribs |-> m.ribs, peers |-> m.peers]
    IN  [c \in {<<"main", "se">>, <<"main", "rde">>, <<"main", "rtr">>} |->
            <<conf, msg("DRAIN")>>]

\* Bug: the keys of new neighbors are not set up.
send_config_unkeyed(m) ==
    /\ main' = [m EXCEPT !.pending = 3]
    /\ pipe' = Piped(None, SentConfig(m))

\* send_config()
send_config(m) ==
    /\ main' = [m EXCEPT !.pending = 3, !.keyed = @ \cup (DOMAIN m.peers \cap m.reinit)]
    /\ pipe' = Piped(None, SentConfig(m))

\* reconfigure(): a reload is refused while one is running.
MayReload == main.ver <= MaxReloads /\ main.pending = 0

\* reconfigure().  A file with errors changes nothing.  Late failures, a
\* listener that cannot be bound or a control socket in use, come after
\* merge_config(), and then nothing is sent.
reconfigure ==
    /\ ~fatal /\ MayReload
    /\ \E c \in Configs :
          LET m == merge_config(main, c) IN
          \/ send_config([m EXCEPT !.ver = @ + 1])
          \/ /\ FailsLate \/ ( /\ c.listeners = main.listeners
                               /\ c.ribs = main.ribs /\ c.peers = main.peers)
             /\ \E gone \in SUBSET (c.listeners \cap m.reinit) :
                   main' = prepare_listeners(m, gone)
             /\ UNCHANGED pipe
    /\ UNCHANGED <<se, rde, rtr, flaps, fatal>>

\* Bug: the session engine's answer is not counted.
Answers_two == 2

\* The answers reconfpending waits for once the session engine is told.
Answers == 3

\* dispatch_imsg(), IMSG_RECONF_DRAIN
MainDrain(from) ==
    /\ Received(<<from, "main">>, "DRAIN")
    /\ IF main.pending = 1
       THEN /\ main' = [main EXCEPT !.pending = Answers]
            /\ pipe' = Piped(<<from, "main">>, To(<<"main", "se">>, <<msg("DONE")>>))
       ELSE /\ main' = [main EXCEPT !.pending = IF @ = 0 THEN 0 ELSE @ - 1]
            /\ pipe' = Piped(<<from, "main">>, NoMsg)
    /\ UNCHANGED <<se, rde, rtr, flaps, fatal>>

\* dispatch_imsg(), IMSG_RECONF_DONE
MainDone(from) ==
    /\ Received(<<from, "main">>, "DONE")
    /\ IF main.pending # 0 /\ from = "se"
       THEN /\ main' = [main EXCEPT !.pending = @ - 1, !.deleted = {},
                                    !.keyed = @ \ main.deleted]
            /\ pipe' = Piped(<<from, "main">>,
                             [c \in {<<"main", "rtr">>, <<"main", "rde">>} |->
                                 <<msg("DONE")>>])
       ELSE /\ main' = [main EXCEPT !.pending = IF @ = 0 THEN 0 ELSE @ - 1]
            /\ pipe' = Piped(<<from, "main">>, NoMsg)
    /\ UNCHANGED <<se, rde, rtr, flaps, fatal>>

-----------------------------------------------------------------------------
(***************************************************************************)
(* The session engine.  se.peers: the configuration of each neighbor;      *)
(* se.rdesession: those the decision engine knows of; se.up: those with a  *)
(* session; se.delete: those marked RECONF_DELETE.                         *)
(***************************************************************************)

\* IMSG_RECONF_CONF, _LISTENER, _PEER.  An address in use must be marked
\* KEEP, a new one REINIT.
SeConf ==
    /\ Received(<<"main", "se">>, "CONF")
    /\ LET m == Head(pipe[<<"main", "se">>]) IN
       /\ se' = [se EXCEPT !.nconf = m]
       /\ fatal' = (\E l \in m.listeners : (l \in se.listeners) = (l \in m.reinit))
    /\ pipe' = Piped(<<"main", "se">>, NoMsg)
    /\ UNCHANGED <<main, rde, rtr, flaps>>

\* IMSG_RECONF_DRAIN from the parent
SeDrain ==
    /\ Received(<<"main", "se">>, "DRAIN")
    /\ fatal' = (se.nconf = None)
    /\ pipe' = Piped(<<"main", "se">>, To(<<"se", "main">>, <<msg("DRAIN")>>))
    /\ UNCHANGED <<main, se, rde, rtr, flaps>>

peerconf(n, p) == [ver |-> n.ver, rib |-> n.peers[p]]
add(p, c) == [type |-> "ADD", peer |-> p, conf |-> c]

\* The messages of a function from neighbors to configurations, in any order.
Adds(f) ==
    LET all == {add(p, f[p]) : p \in DOMAIN f} IN
    {s \in [1 .. Cardinality(DOMAIN f) -> all] : \A m \in all : \E i \in DOMAIN s : s[i] = m}

\* Bug: the drain message overtakes the configurations.
Drained_first(adds) == <<msg("DRAIN")>> \o adds

\* The drain message follows the configurations of the known neighbors.
Drained(adds) == Append(adds, msg("DRAIN"))

\* IMSG_RECONF_DONE: merge_peers(), setup_listeners().  The decision engine
\* is sent the new configuration of the neighbors it knows, then a drain.
SeDone ==
    /\ Received(<<"main", "se">>, "DONE")
    /\ LET n == se.nconf IN
       IF n = None THEN fatal' = TRUE /\ pipe' = pipe /\ se' = se
       ELSE LET new == [p \in DOMAIN n.peers |-> peerconf(n, p)]
                gone == DOMAIN se.peers \ DOMAIN new
                known == DOMAIN new \cap se.rdesession
            IN  /\ se' = [se EXCEPT
                      !.ver = n.ver, !.nconf = None, !.listeners = n.listeners,
                      !.peers = [p \in DOMAIN new \cup gone |->
                                    IF p \in gone THEN @[p] ELSE new[p]],
                      !.delete = gone]
                /\ \E adds \in Adds([p \in known |-> new[p]]) :
                      pipe' = Piped(<<"main", "se">>,
                                    To(<<"se", "rde">>, Drained(adds)))
                /\ UNCHANGED fatal
    /\ UNCHANGED <<main, rde, rtr, flaps>>

\* Bug: the session is not stopped.
SeDelete_running(p) ==
    /\ ~fatal /\ se.nconf = None /\ p \in se.delete
    /\ se' = [se EXCEPT !.peers = [q \in DOMAIN @ \ {p} |-> @[q]], !.delete = @ \ {p}]
    /\ pipe' = Piped(None, To(<<"se", "rde">>, <<peermsg("DELETE", p)>>))
    /\ UNCHANGED <<main, rde, rtr, flaps, fatal>>

\* The top of session_main()'s loop: neighbors marked RECONF_DELETE go.
SeDelete(p) ==
    /\ ~fatal /\ se.nconf = None /\ p \in se.delete
    /\ se' = [se EXCEPT !.peers = [q \in DOMAIN @ \ {p} |-> @[q]], !.delete = @ \ {p},
                        !.up = @ \ {p}, !.rdesession = @ \ {p}]
    /\ pipe' = Piped(None, To(<<"se", "rde">>,
                 (IF p \in se.up THEN <<peermsg("DOWN", p)>> ELSE <<>>)
                 \o <<peermsg("DELETE", p)>>))
    /\ UNCHANGED <<main, rde, rtr, flaps, fatal>>

\* IMSG_RECONF_DRAIN from the decision engine.  It answers a message that
\* was written in a later turn of the loop than merge_peers(), so the top of
\* the loop was passed in between.
SeDrained ==
    /\ Received(<<"rde", "se">>, "DRAIN") /\ se.delete = {}
    /\ fatal' = (se.nconf # None)
    /\ pipe' = Piped(<<"rde", "se">>, To(<<"se", "main">>, <<msg("DONE")>>))
    /\ UNCHANGED <<main, se, rde, rtr, flaps>>

\* session_up(), session_down(), and Timer_SessionDown
SessionUp(p) ==
    /\ ~fatal /\ flaps < MaxFlaps /\ flaps' = flaps + 1
    /\ p \in DOMAIN se.peers \ se.up /\ p \notin se.delete
    /\ se' = [se EXCEPT !.up = @ \cup {p}, !.rdesession = @ \cup {p}]
    /\ pipe' = Piped(None, To(<<"se", "rde">>,
                 (IF p \in se.rdesession THEN <<>> ELSE <<add(p, se.peers[p])>>)
                 \o <<peermsg("UP", p)>>))
    /\ UNCHANGED <<main, rde, rtr, fatal>>

SessionDown(p) ==
    /\ ~fatal /\ flaps < MaxFlaps /\ flaps' = flaps + 1
    /\ p \in se.up
    /\ se' = [se EXCEPT !.up = @ \ {p}]
    /\ pipe' = Piped(None, To(<<"se", "rde">>, <<peermsg("DOWN", p)>>))
    /\ UNCHANGED <<main, rde, rtr, fatal>>

SessionGone(p) ==
    /\ ~fatal /\ p \in se.rdesession \ se.up
    /\ se' = [se EXCEPT !.rdesession = @ \ {p}]
    /\ pipe' = Piped(None, To(<<"se", "rde">>, <<peermsg("DELETE", p)>>))
    /\ UNCHANGED <<main, rde, rtr, flaps, fatal>>

-----------------------------------------------------------------------------
(***************************************************************************)
(* The decision engine.  rde.ribs: the RIBs that exist; rde.peers: the     *)
(* configuration, RIB and state of each neighbor it knows; soft: the       *)
(* counter softreconfig; dumps: the table walks of the reload.             *)
(***************************************************************************)

\* Bug: the new RIBs are made when the configuration is applied.
RdeConf_later ==
    /\ Received(<<"main", "rde">>, "CONF")
    /\ rde' = [rde EXCEPT !.nconf = Head(pipe[<<"main", "rde">>])]
    /\ pipe' = Piped(<<"main", "rde">>, NoMsg)
    /\ UNCHANGED <<main, se, rtr, flaps, fatal>>

\* IMSG_RECONF_CONF, _RIB: new RIBs are made at once.
RdeConf ==
    /\ Received(<<"main", "rde">>, "CONF")
    /\ LET m == Head(pipe[<<"main", "rde">>]) IN
       rde' = [rde EXCEPT !.nconf = m, !.ribs = @ \cup m.ribs]
    /\ pipe' = Piped(<<"main", "rde">>, NoMsg)
    /\ UNCHANGED <<main, se, rtr, flaps, fatal>>

\* IMSG_RECONF_DRAIN from either side is answered.
RdeDrain(from) ==
    /\ Received(<<from, "rde">>, "DRAIN")
    /\ pipe' = Piped(<<from, "rde">>, To(<<"rde", from>>, <<msg("DRAIN")>>))
    /\ UNCHANGED <<main, se, rde, rtr, flaps, fatal>>

\* IMSG_SESSION_ADD: peer_add()
RdeAdd ==
    /\ Received(<<"se", "rde">>, "ADD")
    /\ LET m == Head(pipe[<<"se", "rde">>])
           p == m.peer
           known == p \in DOMAIN rde.peers
           new == IF known THEN [rde.peers[p] EXCEPT !.conf = m.conf]
                  ELSE [conf |-> m.conf, loc |-> m.conf.rib, state |-> "none",
                        rib |-> FALSE, out |-> FALSE]
       IN  /\ fatal' = (~known /\ m.conf.rib \notin rde.ribs)
           /\ rde' = [rde EXCEPT !.peers = [q \in DOMAIN @ \cup {p} |->
                                               IF q = p THEN new ELSE @[q]]]
    /\ pipe' = Piped(<<"se", "rde">>, NoMsg)
    /\ UNCHANGED <<main, se, rtr, flaps>>

\* IMSG_SESSION_UP: peer_up()
RdeUp ==
    /\ Received(<<"se", "rde">>, "UP")
    /\ LET p == Head(pipe[<<"se", "rde">>]).peer IN
       rde' = IF p \in DOMAIN rde.peers
              THEN [rde EXCEPT !.peers[p].state = "up"] ELSE rde
    /\ pipe' = Piped(<<"se", "rde">>, NoMsg)
    /\ UNCHANGED <<main, se, rtr, flaps, fatal>>

dump(kind, of) == [kind |-> kind, of |-> of]

\* rde_softreconfig_in_done(), the last of them: the FIB and Adj-RIB-Out
\* walks of the RIBs that need one.
Outbound(r) ==
    {r.peers[p].loc : p \in {q \in DOMAIN r.peers : r.peers[q].out /\ ~r.peers[q].rib}}

\* The walks that follow, fib the RIBs whose kernel routes are synchronised.
Syncs(r, fib) == {dump("fib", b) : b \in fib} \cup {dump("out", b) : b \in Outbound(r)}

\* Bug: with nothing to do the last stage is not reached.
DoneIf_never(b) == NoMsg

\* The messages of rde_softreconfig_done()
DoneIf(b) == IF b THEN To(<<"rde", "main">>, <<msg("DONE")>>) ELSE NoMsg

\* rde_softreconfig_in_done(), called n times in decision engine r; c is the
\* channel whose message caused the call, gone the neighbors the handler then
\* forgets.
in_done(r, n, gone, c) ==
    LET kept == [r EXCEPT !.peers = [q \in DOMAIN @ \ gone |-> @[q]]] IN
    IF n = 0 \/ r.soft > n
    THEN /\ rde' = [kept EXCEPT !.soft = @ - n]
         /\ pipe' = Piped(c, NoMsg)
         /\ UNCHANGED fatal
    ELSE \E fib \in SUBSET r.ribs :
            LET next == Syncs(r, fib) IN
            /\ rde' = [kept EXCEPT !.soft = Cardinality(next), !.dumps = @ \cup next]
            /\ pipe' = Piped(c, DoneIf(next = {}))
            /\ fatal' = (\E b \in Outbound(r) : b \notin r.ribs)

\* Bug: a walk that is stopped does not say it is done.
peer_down_silent(p, gone, c) ==
    in_done([rde EXCEPT !.peers[p].state = "down", !.dumps = @ \ {dump("flush", p)}],
            0, gone, c)

\* peer_down(): rib_dump_terminate() ends the neighbor's flush, whose
\* callback is called.
peer_down(p, gone, c) ==
    in_done([rde EXCEPT !.peers[p].state = "down", !.dumps = @ \ {dump("flush", p)}],
            IF dump("flush", p) \in rde.dumps THEN 1 ELSE 0, gone, c)

\* IMSG_SESSION_DOWN
RdeDown ==
    LET c == <<"se", "rde">> IN
    /\ Received(c, "DOWN")
    /\ LET p == Head(pipe[c]).peer IN
       IF p \in DOMAIN rde.peers THEN peer_down(p, {}, c)
       ELSE pipe' = Piped(c, NoMsg) /\ UNCHANGED <<rde, fatal>>
    /\ UNCHANGED <<main, se, rtr, flaps>>

\* IMSG_SESSION_DELETE: peer_delete()
RdeDelete ==
    LET c == <<"se", "rde">> IN
    /\ Received(c, "DELETE")
    /\ LET p == Head(pipe[c]).peer IN
       IF p \notin DOMAIN rde.peers
       THEN pipe' = Piped(c, NoMsg) /\ UNCHANGED <<rde, fatal>>
       ELSE IF rde.peers[p].state = "down" THEN in_done(rde, 0, {p}, c)
       ELSE peer_down(p, {p}, c)
    /\ UNCHANGED <<main, se, rtr, flaps>>

\* IMSG_RECONF_DONE: rde_reload_done().  in: an inbound filter or a role
\* changed; flush: neighbors whose export settings changed; out: neighbors
\* whose outbound filter changed.
RdeDone ==
    /\ Received(<<"main", "rde">>, "DONE")
    /\ \E in \in BOOLEAN, flush \in SUBSET DOMAIN rde.peers, out \in SUBSET DOMAIN rde.peers :
          LET n == rde.nconf
              c == <<"main", "rde">>
              moved == {p \in DOMAIN rde.peers : rde.peers[p].loc # rde.peers[p].conf.rib}
              peers == [p \in DOMAIN rde.peers |->
                          [rde.peers[p] EXCEPT !.loc = rde.peers[p].conf.rib,
                              !.rib = p \in flush \cup moved, !.out = p \in out]]
              flushes == {dump("flush", p) : p \in flush \cup moved}
              r == [rde EXCEPT !.ver = n.ver, !.nconf = None, !.peers = peers,
                               !.ribs = n.ribs, !.soft = Cardinality(flushes) + 1,
                               !.dumps = @ \cup flushes]
          IN  IF n = None \/ \E p \in moved : rde.peers[p].conf.rib \notin rde.ribs
              THEN fatal' = TRUE /\ rde' = rde /\ pipe' = pipe
              ELSE IF in
              THEN /\ rde' = [r EXCEPT !.dumps = @ \cup {dump("in", None)}]
                   /\ pipe' = Piped(c, NoMsg) /\ UNCHANGED fatal
              ELSE in_done(r, 1, {}, c)
    /\ UNCHANGED <<main, se, rtr, flaps>>

\* A walk ends: rib_dump_r() or adjout_prefix_dump_r() reach the end of the
\* table and call rde_softreconfig_in_done(), _out_done() or _sync_done().
DumpDone(d) ==
    /\ ~fatal /\ d \in rde.dumps
    /\ LET r == [rde EXCEPT !.dumps = @ \ {d}] IN
       IF d.kind \in {"in", "flush"} THEN in_done(r, 1, {}, None)
       ELSE /\ rde' = [r EXCEPT !.soft = @ - 1]
            /\ pipe' = Piped(None, DoneIf(rde.soft = 1))
            /\ UNCHANGED fatal
    /\ UNCHANGED <<main, se, rtr, flaps>>

-----------------------------------------------------------------------------
(***************************************************************************)
(* The RTR engine.                                                         *)
(***************************************************************************)

RtrConf ==
    /\ Received(<<"main", "rtr">>, "CONF")
    /\ rtr' = [rtr EXCEPT !.nconf = Head(pipe[<<"main", "rtr">>])]
    /\ pipe' = Piped(<<"main", "rtr">>, NoMsg)
    /\ UNCHANGED <<main, se, rde, flaps, fatal>>

RtrDrain ==
    /\ Received(<<"main", "rtr">>, "DRAIN")
    /\ pipe' = Piped(<<"main", "rtr">>, To(<<"rtr", "main">>, <<msg("DRAIN")>>))
    /\ UNCHANGED <<main, se, rde, rtr, flaps, fatal>>

RtrDone ==
    /\ Received(<<"main", "rtr">>, "DONE")
    /\ IF rtr.nconf = None
       THEN fatal' = TRUE /\ UNCHANGED <<rtr, pipe>>
       ELSE /\ rtr' = [ver |-> rtr.nconf.ver, nconf |-> None]
            /\ pipe' = Piped(<<"main", "rtr">>, To(<<"rtr", "main">>, <<msg("DONE")>>))
            /\ UNCHANGED fatal
    /\ UNCHANGED <<main, se, rde, flaps>>

-----------------------------------------------------------------------------
\* The parent at the start, with configuration c merged into nothing.
Booted(c) == merge_config([ver |-> 1, listeners |-> {}, ribs |-> {}, peers |-> <<>>,
                           reinit |-> {}, deleted |-> {}, keyed |-> {}, pending |-> 3], c)

Init ==
    /\ \E c \in Configs :
          /\ main = [Booted(c) EXCEPT !.keyed = DOMAIN c.peers]
          /\ pipe = [x \in Chans |-> IF x[1] = "main" THEN SentConfig(Booted(c))[x] ELSE <<>>]
    /\ se = [ver |-> 0, nconf |-> None, listeners |-> {}, peers |-> <<>>,
             delete |-> {}, up |-> {}, rdesession |-> {}]
    /\ rde = [ver |-> 0, nconf |-> None, ribs |-> {}, peers |-> <<>>, soft |-> 0, dumps |-> {}]
    /\ rtr = [ver |-> 0, nconf |-> None]
    /\ flaps = 0 /\ fatal = FALSE

MainStep == \E c \in {"se", "rde", "rtr"} : MainDrain(c) \/ MainDone(c)
SeStep == SeConf \/ SeDrain \/ SeDone \/ SeDrained \/ \E p \in Peers : SeDelete(p)
RdeStep == RdeConf \/ RdeDrain("main") \/ RdeDone
RdeSeStep == RdeDrain("se") \/ RdeAdd \/ RdeUp \/ RdeDown \/ RdeDelete
RunDumps == \E d \in rde.dumps : DumpDone(d)
RtrStep == RtrConf \/ RtrDrain \/ RtrDone

Next ==
    \/ reconfigure
    \/ \E p \in Peers : SessionUp(p) \/ SessionDown(p) \/ SessionGone(p)
    \/ MainStep \/ SeStep \/ RdeStep \/ RdeSeStep \/ RunDumps \/ RtrStep

Spec == Init /\ [][Next]_vars

\* Every process polls its pipes in turn, and the decision engine runs its
\* dumps in every turn of its loop.
FairSpec == /\ Spec
            /\ WF_vars(MainStep) /\ WF_vars(SeStep) /\ WF_vars(RdeStep)
            /\ WF_vars(RdeSeStep) /\ WF_vars(RunDumps) /\ WF_vars(RtrStep)

-----------------------------------------------------------------------------
(***************************************************************************)
(* Properties.                                                             *)
(***************************************************************************)

PeerConfs == [ver : Nat, rib : UNION {c.ribs : c \in Configs}]

\* The parent expects at most three answers, a neighbor known to the decision
\* engine has a configuration and a state, the walks are of the four kinds.
TypeOK ==
    /\ main.pending \in 0 .. 3 /\ main.ver \in 1 .. MaxReloads + 1
    /\ se.up \subseteq DOMAIN se.peers \cap se.rdesession /\ se.delete \subseteq DOMAIN se.peers
    /\ \A p \in DOMAIN se.peers : se.peers[p] \in PeerConfs
    /\ \A p \in DOMAIN rde.peers :
          rde.peers[p].conf \in PeerConfs /\ rde.peers[p].state \in {"none", "up", "down"}
    /\ \A d \in rde.dumps : d.kind \in {"in", "flush", "out", "fib"}
    /\ rde.soft \in Nat /\ DOMAIN pipe = Chans /\ fatal \in BOOLEAN

\* No sequence of reloads and session changes makes a process exit: the
\* listeners a reload sends fit the session engine's, no answer is unexpected
\* and every neighbor's RIB exists when its walk is set up
\* (session.c:1284-1309, 1332-1356, rde.c:1286, 4005, 4272, rde_peer.c:168).
NoFatal == ~fatal

\* The decision engine applies a configuration only after the session engine
\* gave it the matching configuration of every neighbor that is kept
\* (bgpd.c:1039 "SE goes first").
PeersInSync ==
    \A p \in DOMAIN rde.peers :
        \/ rde.peers[p].conf.ver >= rde.ver
        \/ p \in se.delete
        \/ \E i \in DOMAIN pipe[<<"se", "rde">>] :
              pipe[<<"se", "rde">>][i] = peermsg("DELETE", p)

\* The counter softreconfig is the number of the reload's walks that run, so
\* that the last one to end, or to be stopped, reports the reload done
\* (rde.c:4219, 4314, 4396, rde_rib.c:557).
DumpsCounted == rde.soft = Cardinality(rde.dumps)

ReconfMsgs(c) ==
    {i \in DOMAIN pipe[c] : pipe[c][i].type \in {"CONF", "DRAIN", "DONE"}}

\* When the parent takes the reload as finished it is: the processes run the
\* parent's configuration, with its listeners and neighbors, and no message
\* or walk of the reload is left (bgpd.c:570, 1031).
Settled ==
    main.pending = 0 =>
        /\ se.ver = main.ver /\ rde.ver = main.ver /\ rtr.ver = main.ver
        /\ se.nconf = None /\ rde.nconf = None /\ rtr.nconf = None
        /\ se.listeners = main.listeners /\ DOMAIN se.peers = DOMAIN main.peers
        /\ rde.ribs = main.ribs /\ rde.dumps = {}
        /\ \A c \in Chans : ReconfMsgs(c) = {}

\* The parent holds the keys of every neighbor the session engine may connect
\* to (session.c:1978 "pfkeys of new peers already loaded by the parent
\* process").
KeysLoaded == DOMAIN se.peers \subseteq main.keyed

\* No neighbor of the decision engine uses a RIB that does not exist
\* (rde.c:4006 "King Bula's peer met an unknown RIB").
PeerHasRib == \A p \in DOMAIN rde.peers : rde.peers[p].loc \in rde.ribs

\* No process exits, the walks of a reload are counted right, and no RIB goes
\* while a neighbor uses it.
ReloadSafe == TypeOK /\ NoFatal /\ DumpsCounted /\ PeerHasRib

\* The processes agree: on each neighbor's configuration while a reload runs,
\* on the whole configuration when it is over, and on the keys always.
ConfigAgrees == PeersInSync /\ KeysLoaded /\ Settled

\* Every reload ends, whatever sessions do meanwhile, and another may start.
ReloadEnds == (main.pending # 0) ~> (main.pending = 0)
=============================================================================
