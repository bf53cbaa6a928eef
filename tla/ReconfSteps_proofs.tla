------------------------ MODULE ReconfSteps_proofs -------------------------
(***************************************************************************)
(* A reload, step by step: the inductive invariant, and the steps that     *)
(* keep it without counting anything.  Reconf_proofs has those that count  *)
(* (the walks of the decision engine, the neighbors of a switch), and the  *)
(* theorems.                                                               *)
(*                                                                         *)
(* The inductive invariant has two halves.  Handshake says where a reload  *)
(* is: its three stages (Load, Switch, Finish) fix what each pipe between  *)
(* the parent and a process holds and how many answers reconfpending       *)
(* counts.  Known, Coming and Configured are about the pipe from the       *)
(* session engine to the decision engine, where session changes and the    *)
(* reload's messages mix: a configuration of a neighbor that is out of     *)
(* date, in the decision engine or still in the pipe, is followed there by *)
(* a message that replaces or deletes it before the drain (Fixed).         *)
(***************************************************************************)
EXTENDS Reconf, TLAPS

\* The channels.
MS == <<"main", "se">>
MR == <<"main", "rde">>
MT == <<"main", "rtr">>
SM == <<"se", "main">>
RM == <<"rde", "main">>
TM == <<"rtr", "main">>
SR == <<"se", "rde">>
RS == <<"rde", "se">>

DRAIN == msg("DRAIN")
DONE == msg("DONE")
DELETE(p) == peermsg("DELETE", p)

\* What send_config() sends of the parent's configuration.
ConfOf(m) == [type |-> "CONF", ver |-> m.ver, listeners |-> m.listeners,
              reinit |-> m.reinit, ribs |-> m.ribs, peers |-> m.peers]

\* None is not a configuration, nor a channel.
NoneApart == None \notin Chans /\ \A m : None # ConfOf(m)

\* A neighbor that leaves the configuration leaves its RIB there.
RibsStay ==
    \A c, d \in Configs : \A p \in DOMAIN c.peers \ DOMAIN d.peers : c.peers[p] \in d.ribs

IsSeq(s) == \E S : s \in Seq(S)

Piping == DOMAIN pipe = Chans /\ \A c \in Chans : IsSeq(pipe[c])

-----------------------------------------------------------------------------
(***************************************************************************)
(* The handshake.  in is the pipe from the parent to a process, out the    *)
(* pipe back, n the configuration the process holds.                       *)
(***************************************************************************)

Loading(in, out, n) ==
    \/ in = <<ConfOf(main), DRAIN>> /\ out = <<>> /\ n = None
    \/ in = <<DRAIN>> /\ out = <<>> /\ n = ConfOf(main)
    \/ in = <<>> /\ out = <<DRAIN>> /\ n = ConfOf(main)

Ready(in, out, n) == in = <<>> /\ out = <<>> /\ n = ConfOf(main)

NoDrain(s) == \A i \in DOMAIN s : s[i] # DRAIN

\* What is true before the session engine, the decision engine and the RTR
\* engine switch to the parent's configuration, and after.
SeOld ==
    /\ se.ver = main.ver - 1 /\ se.delete = {} /\ NoDrain(pipe[SR]) /\ pipe[RS] = <<>>
SeNew ==
    /\ se.ver = main.ver /\ se.nconf = None /\ pipe[MS] = <<>>
    /\ se.listeners = main.listeners /\ DOMAIN se.peers \ se.delete = DOMAIN main.peers
RdeOld == rde.ver = main.ver - 1 /\ rde.dumps = {}
RdeNew == rde.ver = main.ver /\ rde.nconf = None /\ rde.ribs = main.ribs /\ pipe[MR] = <<>>
RtrOld == rtr.ver = main.ver - 1
RtrNew == rtr.ver = main.ver /\ rtr.nconf = None /\ pipe[MT] = <<>>

SeReady == Ready(pipe[MS], pipe[SM], se.nconf)
RdeReady == Ready(pipe[MR], pipe[RM], rde.nconf)
RtrReady == Ready(pipe[MT], pipe[TM], rtr.nconf)

One(b) == IF b THEN 1 ELSE 0

\* The configuration is on its way to the processes.
Load ==
    /\ SeOld /\ RdeOld /\ RtrOld
    /\ SeReady \/ Loading(pipe[MS], pipe[SM], se.nconf)
    /\ RdeReady \/ Loading(pipe[MR], pipe[RM], rde.nconf)
    /\ RtrReady \/ Loading(pipe[MT], pipe[TM], rtr.nconf)
    /\ main.pending = One(~SeReady) + One(~RdeReady) + One(~RtrReady)
    /\ main.pending # 0
    /\ se.nconf = None => \A l \in main.listeners : (l \in se.listeners) # (l \in main.reinit)

\* The session engine switches and tells the decision engine.
Switch ==
    /\ RdeOld /\ RtrOld /\ RdeReady /\ RtrReady /\ main.pending = 3
    /\ \/ SeOld /\ pipe[MS] = <<DONE>> /\ pipe[SM] = <<>> /\ se.nconf = ConfOf(main)
       \/ /\ SeNew /\ pipe[SM] = <<>> /\ pipe[RS] = <<>>
          /\ \E k \in DOMAIN pipe[SR] : /\ pipe[SR][k] = DRAIN
                                        /\ \A i \in DOMAIN pipe[SR] \ {k} : pipe[SR][i] # DRAIN
       \/ SeNew /\ pipe[SM] = <<>> /\ pipe[RS] = <<DRAIN>> /\ NoDrain(pipe[SR])
       \/ SeNew /\ pipe[SM] = <<DONE>> /\ pipe[RS] = <<>> /\ NoDrain(pipe[SR]) /\ se.delete = {}

RdeIdle == RdeNew /\ rde.dumps = {} /\ pipe[RM] = <<>>
RtrIdle == RtrNew /\ pipe[TM] = <<>>

\* The other two switch; with both done the reload is over.
Finish ==
    /\ SeNew /\ pipe[SM] = <<>> /\ pipe[RS] = <<>> /\ NoDrain(pipe[SR]) /\ se.delete = {}
    /\ main.deleted = {}
    /\ \/ RdeOld /\ pipe[MR] = <<DONE>> /\ pipe[RM] = <<>> /\ rde.nconf = ConfOf(main)
       \/ RdeNew /\ rde.dumps # {} /\ pipe[RM] = <<>>
       \/ RdeNew /\ rde.dumps = {} /\ pipe[RM] = <<DONE>>
       \/ RdeIdle
    /\ \/ RtrOld /\ pipe[MT] = <<DONE>> /\ pipe[TM] = <<>> /\ rtr.nconf = ConfOf(main)
       \/ RtrNew /\ pipe[TM] = <<DONE>>
       \/ RtrIdle
    /\ main.pending = One(~RdeIdle) + One(~RtrIdle)

Handshake == Load \/ Switch \/ Finish

-----------------------------------------------------------------------------
(***************************************************************************)
(* The neighbors.  q is the pipe from the session engine to the decision   *)
(* engine, i a place in it (0: before its first message).                  *)
(***************************************************************************)

Deleted(q, p, i) == \E j \in DOMAIN q : j > i /\ q[j] = DELETE(p)

IsAdd(m) == m.type = "ADD"

\* m makes the decision engine forget p or gives it configuration v of p.
Renews(m, p, v) == m = DELETE(p) \/ (IsAdd(m) /\ m.peer = p /\ m.conf.ver = v)

Renewed(q, p, i, v) ==
    \E k \in DOMAIN q : q[k] = DRAIN /\ \E j \in DOMAIN q : i < j /\ j < k /\ Renews(q[j], p, v)

\* An old configuration of p that the decision engine has at place i will not
\* outlast the switch; s is the session engine.
Fixed(q, p, i, s) ==
    \/ p \in s.delete
    \/ p \notin DOMAIN s.peers /\ Deleted(q, p, i)
    \/ Renewed(q, p, i, s.ver)

\* Configuration c of p fits the parent m and the RIBs the decision engine has.
ConfRight(p, c, m, ribs) ==
    /\ c \in PeerConfs /\ c.ver <= m.ver
    /\ c.rib \in ribs
    /\ c.ver = m.ver => c.rib \in m.ribs
    /\ \A d \in Configs : p \in DOMAIN d.peers \/ c.rib \in d.ribs

\* A neighbor the decision engine has.
Known ==
    \A p \in DOMAIN rde.peers :
       /\ ConfRight(p, rde.peers[p].conf, main, rde.ribs)
       /\ rde.peers[p].loc \in rde.ribs
       /\ rde.peers[p].conf.ver = se.ver \/ Fixed(pipe[SR], p, 0, se)
       /\ rde.peers[p].conf.ver >= rde.ver \/ p \in se.delete \/ Deleted(pipe[SR], p, 0)
       /\ p \in se.rdesession \/ Deleted(pipe[SR], p, 0)

\* A neighbor it is about to get.
Coming ==
    \A i \in DOMAIN pipe[SR] : IsAdd(pipe[SR][i]) =>
       /\ ConfRight(pipe[SR][i].peer, pipe[SR][i].conf, main, rde.ribs)
       /\ pipe[SR][i].conf.ver >= rde.ver
       /\ \/ pipe[SR][i].conf.ver = se.ver
          \/ /\ \E k \in DOMAIN pipe[SR] : k > i /\ pipe[SR][k] = DRAIN
             /\ Fixed(pipe[SR], pipe[SR][i].peer, i, se)
       /\ pipe[SR][i].peer \in se.rdesession \/ Deleted(pipe[SR], pipe[SR][i].peer, i)

\* A neighbor the session engine has.
Configured ==
    /\ \A p \in DOMAIN se.peers :
          /\ ConfRight(p, se.peers[p], main, rde.ribs)
          /\ p \in se.delete \/ se.peers[p].ver = se.ver
    /\ se.up \subseteq se.rdesession /\ se.rdesession \subseteq DOMAIN se.peers
    /\ se.delete \subseteq DOMAIN se.peers

IsConfig(m, c) == m.listeners = c.listeners /\ m.ribs = c.ribs /\ m.peers = c.peers

Parent ==
    /\ \E c \in Configs : IsConfig(main, c)
    /\ main.ver \in 1 .. MaxReloads + 1 /\ main.deleted \subseteq Peers
    /\ DOMAIN main.peers \cap main.deleted = {}
    /\ DOMAIN main.peers \cup main.deleted \subseteq main.keyed
    /\ DOMAIN se.peers \subseteq DOMAIN main.peers \cup main.deleted
    /\ rde.nconf # None => main.ribs \subseteq rde.ribs

Dumps ==
    /\ IsFiniteSet(rde.dumps) /\ rde.soft = Cardinality(rde.dumps)
    /\ \A d \in rde.dumps : d.kind \in {"in", "flush", "out", "fib"}
    /\ IsFiniteSet(rde.ribs)

QMsgs == {DRAIN} \cup [type : {"UP", "DOWN", "DELETE"}, peer : Peers]
         \cup [type : {"ADD"}, peer : Peers, conf : PeerConfs]

PeerFields == {"conf", "loc", "state", "rib", "out"}

Shape ==
    /\ DOMAIN main = {"ver", "listeners", "ribs", "peers", "reinit", "deleted", "keyed", "pending"}
    /\ DOMAIN se = {"ver", "nconf", "listeners", "peers", "delete", "up", "rdesession"}
    /\ DOMAIN rde = {"ver", "nconf", "ribs", "peers", "soft", "dumps"}
    /\ DOMAIN rtr = {"ver", "nconf"}
    /\ Piping
    /\ \A i \in DOMAIN pipe[SR] : pipe[SR][i] \in QMsgs
    /\ DOMAIN rde.peers \subseteq Peers
    /\ \A p \in DOMAIN rde.peers : /\ DOMAIN rde.peers[p] = PeerFields
                                   /\ rde.peers[p].state \in {"none", "up", "down"}

Inv == /\ Shape /\ Handshake /\ Known /\ Coming /\ Configured /\ Parent /\ Dumps /\ ~fatal
-----------------------------------------------------------------------------
(***************************************************************************)
(* Channels.                                                               *)
(***************************************************************************)

LEMMA Channels ==
    /\ Chans = {MS, MR, MT, SM, RM, TM, SR, RS}
    /\ MS # MR /\ MS # MT /\ MS # SM /\ MS # RM /\ MS # TM /\ MS # SR /\ MS # RS
    /\ MR # MT /\ MR # SM /\ MR # RM /\ MR # TM /\ MR # SR /\ MR # RS
    /\ MT # SM /\ MT # RM /\ MT # TM /\ MT # SR /\ MT # RS
    /\ SM # RM /\ SM # TM /\ SM # SR /\ SM # RS
    /\ RM # TM /\ RM # SR /\ RM # RS /\ TM # SR /\ TM # RS /\ SR # RS
BY DEF Chans, MS, MR, MT, SM, RM, TM, SR, RS

LEMMA SeqFacts ==
    ASSUME NEW s, IsSeq(s)
    PROVE  /\ s \o <<>> = s /\ Len(s) \in Nat /\ DOMAIN s = 1 .. Len(s)
           /\ s # <<>> => Len(s) # 0 /\ Head(s) = s[1] /\ IsSeq(Tail(s))
<1>1. PICK S : s \in Seq(S)
  BY DEF IsSeq
<1>2. s \o <<>> = s /\ Len(s) \in Nat /\ DOMAIN s = 1 .. Len(s)
  BY <1>1
<1>3. s # <<>> => Len(s) # 0 /\ Head(s) = s[1] /\ Tail(s) \in Seq(S)
  BY <1>1
<1> QED
  BY <1>2, <1>3 DEF IsSeq

LEMMA ConcatIsSeq ==
    ASSUME NEW s, NEW t, IsSeq(s), IsSeq(t)
    PROVE  IsSeq(s \o t)
<1>1. PICK S : s \in Seq(S)
  BY DEF IsSeq
<1>2. PICK T : t \in Seq(T)
  BY DEF IsSeq
<1>3. s \in Seq(S \cup T) /\ t \in Seq(S \cup T)
  BY <1>1, <1>2
<1>4. s \o t \in Seq(S \cup T)
  BY <1>3
<1> QED
  BY <1>4 DEF IsSeq

LEMMA ConstIsSeq ==
    /\ IsSeq(<<>>)
    /\ \A x : IsSeq(<<x>>)
    /\ \A x, y : IsSeq(<<x, y>>)
<1>1. <<>> \in Seq({})
  OBVIOUS
<1>2. \A x : <<x>> \in Seq({x})
  OBVIOUS
<1>3. \A x, y : <<x, y>> \in Seq({x, y})
  OBVIOUS
<1> QED
  BY Zenon, <1>1, <1>2, <1>3 DEF IsSeq

\* A step that only reads channel c.
LEMMA OnlyRead ==
    ASSUME NEW c \in Chans, Piping, pipe[c] # <<>>, pipe' = Piped(c, NoMsg)
    PROVE  /\ Piping' /\ pipe'[c] = Tail(pipe[c])
           /\ \A d \in Chans \ {c} : pipe'[d] = pipe[d]
<1>1. \A d \in Chans : pipe'[d] = (IF d = c THEN Tail(pipe[d]) ELSE pipe[d]) \o <<>>
  BY Zenon DEF Piped, NoMsg
<1>2. IsSeq(Tail(pipe[c]))
  BY SeqFacts DEF Piping
<1>3. pipe'[c] = Tail(pipe[c]) /\ \A d \in Chans \ {c} : pipe'[d] = pipe[d]
  BY Zenon, <1>1, <1>2, SeqFacts DEF Piping
<1>4. DOMAIN pipe' = Chans
  BY DEF Piped
<1> QED
  BY Zenon, <1>2, <1>3, <1>4 DEF Piping

\* A step that reads channel c and writes s to another, d.
LEMMA ReadSend ==
    ASSUME NEW c \in Chans, NEW d \in Chans, c # d, NEW s, IsSeq(s),
           Piping, pipe[c] # <<>>, pipe' = Piped(c, To(d, s))
    PROVE  /\ Piping' /\ pipe'[c] = Tail(pipe[c]) /\ pipe'[d] = pipe[d] \o s
           /\ \A e \in Chans \ {c, d} : pipe'[e] = pipe[e]
<1>1. \A e \in Chans : pipe'[e] = (IF e = c THEN Tail(pipe[e]) ELSE pipe[e])
                                  \o (IF e = d THEN s ELSE <<>>)
  BY Zenon DEF Piped, To
<1>2. IsSeq(Tail(pipe[c]))
  BY SeqFacts DEF Piping
<1>3. /\ pipe'[c] = Tail(pipe[c]) /\ pipe'[d] = pipe[d] \o s
      /\ \A e \in Chans \ {c, d} : pipe'[e] = pipe[e]
  BY Zenon, <1>1, <1>2, SeqFacts DEF Piping
<1>4. DOMAIN pipe' = Chans
  BY DEF Piped
<1> QED
  BY Zenon, <1>2, <1>3, <1>4, ConcatIsSeq DEF Piping

\* A step that only writes s to channel d.
LEMMA OnlySend ==
    ASSUME NEW d \in Chans, NEW s, IsSeq(s), None \notin Chans,
           Piping, pipe' = Piped(None, To(d, s))
    PROVE  /\ Piping' /\ pipe'[d] = pipe[d] \o s
           /\ \A e \in Chans \ {d} : pipe'[e] = pipe[e]
<1>1. \A e \in Chans : pipe'[e] = pipe[e] \o (IF e = d THEN s ELSE <<>>)
  BY Zenon DEF Piped, To
<1>3. pipe'[d] = pipe[d] \o s /\ \A e \in Chans \ {d} : pipe'[e] = pipe[e]
  BY Zenon, <1>1, SeqFacts DEF Piping
<1>4. DOMAIN pipe' = Chans
  BY DEF Piped
<1> QED
  BY Zenon, <1>3, <1>4, ConcatIsSeq DEF Piping

\* A step that writes nothing.
LEMMA NoSend ==
    ASSUME None \notin Chans, Piping, pipe' = Piped(None, NoMsg)
    PROVE  Piping' /\ \A e \in Chans : pipe'[e] = pipe[e]
<1>1. \A e \in Chans : pipe'[e] = pipe[e] \o <<>>
  BY Zenon DEF Piped, NoMsg
<1>3. \A e \in Chans : pipe'[e] = pipe[e]
  BY <1>1, SeqFacts DEF Piping
<1>4. DOMAIN pipe' = Chans
  BY DEF Piped
<1> QED
  BY <1>3, <1>4 DEF Piping

-----------------------------------------------------------------------------
(***************************************************************************)
(* Messages and their places.                                              *)
(***************************************************************************)

LEMMA MsgKinds ==
    ASSUME NEW m \in QMsgs
    PROVE  /\ m.type \in {"DRAIN", "UP", "DOWN", "DELETE", "ADD"}
           /\ m.type = "DRAIN" <=> m = DRAIN
           /\ m.type # "DRAIN" => m.peer \in Peers
           /\ m.type = "DELETE" => m = DELETE(m.peer)
           /\ \A p : m = DELETE(p) => m.type = "DELETE" /\ m.peer = p
           /\ IsAdd(m) => m.type = "ADD" /\ m.conf \in PeerConfs
BY DEF QMsgs, DRAIN, DELETE, msg, peermsg, IsAdd

LEMMA SentKinds ==
    ASSUME NEW p \in Peers
    PROVE  /\ DRAIN \in QMsgs /\ ~IsAdd(DRAIN)
           /\ \A t \in {"UP", "DOWN", "DELETE"} :
                 peermsg(t, p) \in QMsgs /\ ~IsAdd(peermsg(t, p)) /\ peermsg(t, p) # DRAIN
           /\ \A c \in PeerConfs :
                 add(p, c) \in QMsgs /\ IsAdd(add(p, c)) /\ add(p, c) # DRAIN
                 /\ add(p, c).peer = p /\ add(p, c).conf = c
BY DEF QMsgs, DRAIN, msg, peermsg, IsAdd, add

LEMMA DrainIsNoAdd == ~IsAdd(DRAIN)
BY DEF IsAdd, DRAIN, msg

\* Messages added at the end leave the earlier ones their places.
Sent(q, s, r) ==
    /\ Len(r) = Len(q) + Len(s) /\ IsSeq(r)
    /\ DOMAIN q \subseteq DOMAIN r
    /\ \A i \in DOMAIN q : r[i] = q[i]
    /\ \A i \in DOMAIN r \ DOMAIN q : i - Len(q) \in DOMAIN s /\ r[i] = s[i - Len(q)]
    /\ \A i \in DOMAIN s : Len(q) + i \in DOMAIN r /\ r[Len(q) + i] = s[i]
    /\ \A p, i : Deleted(q, p, i) => Deleted(r, p, i)
    /\ \A p, i, v : Renewed(q, p, i, v) => Renewed(r, p, i, v)

LEMMA AfterSend ==
    ASSUME NEW q, NEW s, NEW r, IsSeq(q), IsSeq(s), r = q \o s
    PROVE  Sent(q, s, r)
<1>1. PICK S : q \in Seq(S)
  BY DEF IsSeq
<1>2. PICK T : s \in Seq(T)
  BY DEF IsSeq
<1>3. q \in Seq(S \cup T) /\ s \in Seq(S \cup T)
  BY <1>1, <1>2
<1>4. Len(r) = Len(q) + Len(s) /\ r \in Seq(S \cup T) /\ Len(q) \in Nat /\ Len(s) \in Nat
  BY <1>3
<1>5. DOMAIN q = 1 .. Len(q) /\ DOMAIN s = 1 .. Len(s) /\ DOMAIN r = 1 .. Len(r)
  BY <1>3, <1>4
<1>6. \A i \in 1 .. Len(q) + Len(s) : r[i] = IF i <= Len(q) THEN q[i] ELSE s[i - Len(q)]
  BY <1>3
<1>7. DOMAIN q \subseteq DOMAIN r /\ \A i \in DOMAIN q : r[i] = q[i]
  BY <1>4, <1>5, <1>6
<1>8. \A i \in DOMAIN r \ DOMAIN q : i - Len(q) \in DOMAIN s /\ r[i] = s[i - Len(q)]
  BY <1>4, <1>5, <1>6
<1>9. \A i \in DOMAIN s : Len(q) + i \in DOMAIN r /\ r[Len(q) + i] = s[i]
  BY <1>4, <1>5, <1>6
<1>10. \A p, i : Deleted(q, p, i) => Deleted(r, p, i)
  BY <1>7 DEF Deleted
<1>11. \A p, i, v : Renewed(q, p, i, v) => Renewed(r, p, i, v)
  BY <1>7 DEF Renewed
<1>12. IsSeq(r)
  BY <1>4 DEF IsSeq
<1> QED
  BY <1>4, <1>7, <1>8, <1>9, <1>10, <1>11, <1>12 DEF Sent

\* The first message taken, the others move up by one place.
Taken(q, r) ==
    /\ IsSeq(r) /\ Len(r) = Len(q) - 1 /\ 1 \in DOMAIN q
    /\ \A i \in DOMAIN r : i \in Nat /\ i + 1 \in DOMAIN q /\ r[i] = q[i + 1]
    /\ \A i \in DOMAIN q : i \in Nat /\ (i # 1 => i - 1 \in DOMAIN r /\ r[i - 1] = q[i])
    /\ \A p : \A i \in Nat : Deleted(q, p, i + 1) => Deleted(r, p, i)
    /\ \A p, v : \A i \in Nat : Renewed(q, p, i + 1, v) => Renewed(r, p, i, v)
    /\ \A p : Deleted(q, p, 0) => q[1] = DELETE(p) \/ Deleted(r, p, 0)
    /\ \A p, v : Renewed(q, p, 0, v) => Renews(q[1], p, v) \/ Renewed(r, p, 0, v)

LEMMA AfterRead ==
    ASSUME NEW q, NEW r, IsSeq(q), q # <<>>, r = Tail(q)
    PROVE  Taken(q, r)
<1>1. PICK S : q \in Seq(S)
  BY DEF IsSeq
<1>2. r \in Seq(S) /\ Len(r) = Len(q) - 1 /\ Len(q) \in Nat /\ Len(q) # 0
  BY <1>1
<1>3. DOMAIN q = 1 .. Len(q) /\ DOMAIN r = 1 .. Len(q) - 1
  BY <1>1, <1>2
<1>4. \A i \in 1 .. Len(q) - 1 : r[i] = q[i + 1]
  BY <1>1, <1>2
<1>5. \A i \in DOMAIN r : i \in Nat /\ i + 1 \in DOMAIN q /\ r[i] = q[i + 1]
  BY <1>2, <1>3, <1>4
<1>6. \A i \in DOMAIN q : i \in Nat /\ (i # 1 => i - 1 \in DOMAIN r /\ r[i - 1] = q[i])
  BY <1>2, <1>3, <1>4
<1>7. \A p : \A i \in Nat : Deleted(q, p, i + 1) => Deleted(r, p, i)
  <2> SUFFICES ASSUME NEW p, NEW i \in Nat, NEW j \in DOMAIN q, j > i + 1, q[j] = DELETE(p)
               PROVE  Deleted(r, p, i)
    BY SMTT(30) DEF Deleted
  <2>1. j - 1 \in DOMAIN r /\ r[j - 1] = q[j] /\ j - 1 > i
    BY <1>6
  <2> QED
    BY <2>1 DEF Deleted
<1>8. \A p, v : \A i \in Nat : Renewed(q, p, i + 1, v) => Renewed(r, p, i, v)
  <2> SUFFICES ASSUME NEW p, NEW v, NEW i \in Nat, NEW j \in DOMAIN q, NEW k \in DOMAIN q,
                      q[k] = DRAIN, i + 1 < j, j < k, Renews(q[j], p, v)
               PROVE  Renewed(r, p, i, v)
    BY DEF Renewed
  <2>1. j - 1 \in DOMAIN r /\ r[j - 1] = q[j] /\ i < j - 1
    BY <1>6
  <2>2. k - 1 \in DOMAIN r /\ r[k - 1] = q[k] /\ j - 1 < k - 1
    BY <1>6
  <2> QED
    BY <2>1, <2>2 DEF Renewed
<1>9. \A p : Deleted(q, p, 0) => q[1] = DELETE(p) \/ Deleted(r, p, 0)
  <2> SUFFICES ASSUME NEW p, NEW j \in DOMAIN q, q[j] = DELETE(p), q[1] # DELETE(p)
               PROVE  Deleted(r, p, 0)
    BY DEF Deleted
  <2>1. j - 1 \in DOMAIN r /\ r[j - 1] = q[j] /\ j - 1 > 0
    BY <1>6, <1>3
  <2> QED
    BY <2>1 DEF Deleted
<1>10. \A p, v : Renewed(q, p, 0, v) => Renews(q[1], p, v) \/ Renewed(r, p, 0, v)
  <2> SUFFICES ASSUME NEW p, NEW v, NEW j \in DOMAIN q, NEW k \in DOMAIN q,
                      q[k] = DRAIN, j < k, Renews(q[j], p, v), ~Renews(q[1], p, v)
               PROVE  Renewed(r, p, 0, v)
    BY DEF Renewed
  <2>1. j - 1 \in DOMAIN r /\ r[j - 1] = q[j] /\ 0 < j - 1
    BY <1>6, <1>3
  <2>2. k - 1 \in DOMAIN r /\ r[k - 1] = q[k] /\ j - 1 < k - 1
    BY <1>6, <2>1, <1>3
  <2> QED
    BY <2>1, <2>2 DEF Renewed
<1>11. IsSeq(r) /\ 1 \in DOMAIN q
  BY <1>2, <1>3 DEF IsSeq
<1> QED
  BY <1>2, <1>5, <1>6, <1>7, <1>8, <1>9, <1>10, <1>11 DEF Taken

-----------------------------------------------------------------------------
(***************************************************************************)
(* How a step changes what the processes know of the neighbors.            *)
(***************************************************************************)

LEMMA ConfKept ==
    ASSUME NEW p, NEW c, NEW m, NEW ribs, NEW n, NEW rest,
           ConfRight(p, c, m, ribs), ribs \subseteq rest, m.ver \in Nat,
           (n.ver = m.ver /\ n.ribs = m.ribs) \/ n.ver = m.ver + 1
    PROVE  ConfRight(p, c, n, rest)
<1>1. c.ver \in Nat
  BY DEF ConfRight, PeerConfs
<1> QED
  BY <1>1 DEF ConfRight

\* No message about neighbors is read or written.
LEMMA NeighborsKept ==
    ASSUME Known, Coming, Configured, main.ver \in Nat,
           pipe'[SR] = pipe[SR], se'.ver = se.ver, se'.delete = se.delete,
           se'.peers = se.peers, se'.rdesession = se.rdesession, se'.up = se.up,
           rde'.ver = rde.ver, DOMAIN rde'.peers = DOMAIN rde.peers,
           \A p \in DOMAIN rde.peers : /\ rde'.peers[p].conf = rde.peers[p].conf
                                       /\ rde'.peers[p].loc = rde.peers[p].loc,
           rde.ribs \subseteq rde'.ribs,
           (main'.ver = main.ver /\ main'.ribs = main.ribs) \/ main'.ver = main.ver + 1
    PROVE  Known' /\ Coming' /\ Configured'
<1>1. \A p, c : ConfRight(p, c, main, rde.ribs) => ConfRight(p, c, main', rde'.ribs)
  BY ConfKept
<1>2. \A q, p, i : Fixed(q, p, i, se) <=> Fixed(q, p, i, se')
  BY DEF Fixed
<1>3. Known'
  BY <1>1, <1>2 DEF Known
<1>4. Coming'
  BY <1>1, <1>2 DEF Coming
<1>5. Configured'
  BY <1>1 DEF Configured
<1> QED
  BY <1>3, <1>4, <1>5

\* The session engine writes s to the decision engine.
LEMMA NeighborsTold ==
    ASSUME Shape, Known, Coming, Configured, UNCHANGED <<main, rde>>,
           NEW s, IsSeq(s), pipe'[SR] = pipe[SR] \o s, se'.ver = se.ver,
           se'.delete \subseteq se.delete, DOMAIN se'.peers \subseteq DOMAIN se.peers,
           \A p \in se.delete \ se'.delete :
              p \notin DOMAIN se'.peers /\ \E j \in DOMAIN s : s[j] = DELETE(p),
           \A p \in se.rdesession \ se'.rdesession : \E j \in DOMAIN s : s[j] = DELETE(p),
           \A j \in DOMAIN s : IsAdd(s[j]) =>
              /\ ConfRight(s[j].peer, s[j].conf, main, rde.ribs)
              /\ s[j].conf.ver = se.ver /\ s[j].conf.ver >= rde.ver
              /\ s[j].peer \in se'.rdesession
    PROVE  Known' /\ Coming'
<1> DEFINE q == pipe[SR]
<1> DEFINE r == pipe'[SR]
<1>1. IsSeq(q)
  BY Channels DEF Shape, Piping
<1>2. Sent(q, s, r)
  BY Zenon, <1>1, AfterSend
<1>3. Len(q) \in Nat /\ Len(s) \in Nat /\ DOMAIN q = 1 .. Len(q) /\ DOMAIN s = 1 .. Len(s)
  BY <1>1, SeqFacts
<1>4. \A p, j : \A i \in 0 .. Len(q) :
         j \in DOMAIN s /\ s[j] = DELETE(p) => Deleted(r, p, i)
  <2> SUFFICES ASSUME NEW p, NEW j \in DOMAIN s, NEW i \in 0 .. Len(q), s[j] = DELETE(p)
               PROVE  Deleted(r, p, i)
    OBVIOUS
  <2>1. Len(q) + j \in DOMAIN r /\ r[Len(q) + j] = DELETE(p) /\ Len(q) + j > i
    BY SMTT(30), <1>2, <1>3 DEF Sent
  <2> QED
    BY <2>1 DEF Deleted
<1>5. \A p : \A i \in 0 .. Len(q) : Fixed(q, p, i, se) => Fixed(r, p, i, se')
  <2> SUFFICES ASSUME NEW p, NEW i \in 0 .. Len(q), Fixed(q, p, i, se)
               PROVE  Fixed(r, p, i, se')
    OBVIOUS
  <2>1. CASE p \in se.delete
    BY <2>1, <1>4 DEF Fixed
  <2>2. CASE p \notin DOMAIN se.peers /\ Deleted(q, p, i)
    BY <2>2, <1>2 DEF Fixed, Sent
  <2>3. CASE Renewed(q, p, i, se.ver)
    BY <2>3, <1>2 DEF Fixed, Sent
  <2> QED
    BY <2>1, <2>2, <2>3 DEF Fixed
<1>6. \A p : \A i \in 0 .. Len(q) : p \in se.rdesession \/ Deleted(q, p, i)
                                   => p \in se'.rdesession \/ Deleted(r, p, i)
  BY SMTT(30), <1>2, <1>4 DEF Sent
<1>7. \A p : p \in se.delete \/ Deleted(q, p, 0) => p \in se'.delete \/ Deleted(r, p, 0)
  BY <1>2, <1>3, <1>4 DEF Sent
<1>0. main' = main /\ rde' = rde
  OBVIOUS
<1>8. Known'
  <2> SUFFICES ASSUME NEW p \in DOMAIN rde.peers
               PROVE  /\ ConfRight(p, rde.peers[p].conf, main, rde.ribs)
                      /\ rde.peers[p].loc \in rde.ribs
                      /\ rde.peers[p].conf.ver = se'.ver \/ Fixed(r, p, 0, se')
                      /\ \/ rde.peers[p].conf.ver >= rde.ver
                         \/ p \in se'.delete \/ Deleted(r, p, 0)
                      /\ p \in se'.rdesession \/ Deleted(r, p, 0)
    BY SMTT(30), <1>0 DEF Known
  <2>1. 0 \in 0 .. Len(q)
    BY SMTT(30), <1>3
  <2> HIDE DEF q, r
  <2> QED
    BY SMTT(30), <2>1, <1>5, <1>6, <1>7 DEF Known, q
<1>9. Coming'
  <2> SUFFICES ASSUME NEW i \in DOMAIN r, IsAdd(r[i])
               PROVE  /\ ConfRight(r[i].peer, r[i].conf, main, rde.ribs)
                      /\ r[i].conf.ver >= rde.ver
                      /\ \/ r[i].conf.ver = se'.ver
                         \/ /\ \E k \in DOMAIN r : k > i /\ r[k] = DRAIN
                            /\ Fixed(r, r[i].peer, i, se')
                      /\ r[i].peer \in se'.rdesession \/ Deleted(r, r[i].peer, i)
    BY Zenon, <1>0 DEF Coming
  <2>1. CASE i \in DOMAIN q
    <3>1. r[i] = q[i] /\ i \in 0 .. Len(q)
      BY <2>1, <1>2, <1>3 DEF Sent
    <3>2. /\ ConfRight(q[i].peer, q[i].conf, main, rde.ribs)
          /\ q[i].conf.ver >= rde.ver
          /\ \/ q[i].conf.ver = se.ver
             \/ /\ \E k \in DOMAIN q : k > i /\ q[k] = DRAIN
                /\ Fixed(q, q[i].peer, i, se)
          /\ q[i].peer \in se.rdesession \/ Deleted(q, q[i].peer, i)
      BY Zenon, <2>1, <3>1 DEF Coming
    <3>3. (\E k \in DOMAIN q : k > i /\ q[k] = DRAIN) => \E k \in DOMAIN r : k > i /\ r[k] = DRAIN
      BY <1>2 DEF Sent
    <3> HIDE DEF q, r
    <3> QED
      BY SMTT(30), <3>1, <3>2, <3>3, <1>5, <1>6
  <2>2. CASE i \notin DOMAIN q
    <3>1. PICK j \in DOMAIN s : r[i] = s[j]
      BY <2>2, <1>2 DEF Sent
    <3> QED
      BY <3>1
  <2> QED
    BY Zenon, <2>1, <2>2
<1> QED
  BY <1>8, <1>9

\* The decision engine reads a message of the session engine.
LEMMA NeighborsHeard ==
    ASSUME Shape, Known, Coming, Configured, UNCHANGED <<main, se>>,
           pipe[SR] # <<>>, pipe'[SR] = Tail(pipe[SR]),
           rde'.ver = rde.ver, rde'.ribs = rde.ribs,
           \A p \in DOMAIN rde'.peers :
              \/ /\ p \in DOMAIN rde.peers
                 /\ rde'.peers[p].conf = rde.peers[p].conf
                 /\ rde'.peers[p].loc = rde.peers[p].loc
                 /\ pipe[SR][1] # DELETE(p) /\ ~(IsAdd(pipe[SR][1]) /\ pipe[SR][1].peer = p)
              \/ /\ IsAdd(pipe[SR][1]) /\ pipe[SR][1].peer = p
                 /\ rde'.peers[p].conf = pipe[SR][1].conf
                 /\ rde'.peers[p].loc \in rde.ribs
    PROVE  Known' /\ Coming'
<1>0. main' = main /\ se' = se
  OBVIOUS
<1>1. PICK q, r : q = pipe[SR] /\ r = pipe'[SR]
  BY Zenon
<1>2. IsSeq(q)
  BY <1>1, Channels DEF Shape, Piping
<1>3. Taken(q, r)
  BY Zenon, <1>1, <1>2, AfterRead
<1>4. \A p : \A i \in Nat : Fixed(q, p, i + 1, se) => Fixed(r, p, i, se)
  BY <1>3 DEF Fixed, Taken
<1>5. \A p : q[1] # DELETE(p) /\ ~(IsAdd(q[1]) /\ q[1].peer = p) /\ Fixed(q, p, 0, se)
             => Fixed(r, p, 0, se)
  <2> SUFFICES ASSUME NEW p, q[1] # DELETE(p), ~(IsAdd(q[1]) /\ q[1].peer = p), Fixed(q, p, 0, se)
               PROVE  Fixed(r, p, 0, se)
    OBVIOUS
  <2>1. ~Renews(q[1], p, se.ver)
    BY DEF Renews
  <2> QED
    BY <2>1, <1>3 DEF Fixed, Taken
<1>6. \A p : \A i \in Nat : Deleted(q, p, i + 1) => Deleted(r, p, i)
  BY <1>3 DEF Taken
<1>7. \A p : q[1] # DELETE(p) /\ Deleted(q, p, 0) => Deleted(r, p, 0)
  BY <1>3 DEF Taken
<1>8. \A i \in DOMAIN q : IsAdd(q[i]) =>
         /\ ConfRight(q[i].peer, q[i].conf, main, rde.ribs)
         /\ q[i].conf.ver >= rde.ver
         /\ \/ q[i].conf.ver = se.ver
            \/ /\ \E k \in DOMAIN q : k > i /\ q[k] = DRAIN
               /\ Fixed(q, q[i].peer, i, se)
         /\ q[i].peer \in se.rdesession \/ Deleted(q, q[i].peer, i)
  BY Zenon, <1>1 DEF Coming
<1>9. Known'
  <2> SUFFICES ASSUME NEW p \in DOMAIN rde'.peers
               PROVE  /\ ConfRight(p, rde'.peers[p].conf, main, rde.ribs)
                      /\ rde'.peers[p].loc \in rde.ribs
                      /\ rde'.peers[p].conf.ver = se.ver \/ Fixed(r, p, 0, se)
                      /\ \/ rde'.peers[p].conf.ver >= rde.ver
                         \/ p \in se.delete \/ Deleted(r, p, 0)
                      /\ p \in se.rdesession \/ Deleted(r, p, 0)
    BY Zenon, <1>0, <1>1 DEF Known
  <2>1. CASE /\ p \in DOMAIN rde.peers
             /\ rde'.peers[p].conf = rde.peers[p].conf
             /\ rde'.peers[p].loc = rde.peers[p].loc
             /\ q[1] # DELETE(p) /\ ~(IsAdd(q[1]) /\ q[1].peer = p)
    <3>1. /\ ConfRight(p, rde.peers[p].conf, main, rde.ribs)
          /\ rde.peers[p].loc \in rde.ribs
          /\ rde.peers[p].conf.ver = se.ver \/ Fixed(q, p, 0, se)
          /\ rde.peers[p].conf.ver >= rde.ver \/ p \in se.delete \/ Deleted(q, p, 0)
          /\ p \in se.rdesession \/ Deleted(q, p, 0)
      BY Zenon, <2>1, <1>1 DEF Known
    <3> QED
      BY Zenon, <2>1, <3>1, <1>5, <1>7
  <2>2. CASE /\ IsAdd(q[1]) /\ q[1].peer = p
             /\ rde'.peers[p].conf = q[1].conf
             /\ rde'.peers[p].loc \in rde.ribs
    <3>1. 1 \in DOMAIN q
      BY <1>3 DEF Taken
    <3>2. Fixed(q, p, 1, se) => Fixed(r, p, 0, se)
      BY <1>4
    <3>3. Deleted(q, p, 1) => Deleted(r, p, 0)
      BY <1>6
    <3> QED
      BY Zenon, <2>2, <3>1, <3>2, <3>3, <1>8
  <2> QED
    BY Zenon, <2>1, <2>2, <1>1
<1>10. Coming'
  <2> SUFFICES ASSUME NEW i \in DOMAIN r, IsAdd(r[i])
               PROVE  /\ ConfRight(r[i].peer, r[i].conf, main, rde.ribs)
                      /\ r[i].conf.ver >= rde.ver
                      /\ \/ r[i].conf.ver = se.ver
                         \/ /\ \E k \in DOMAIN r : k > i /\ r[k] = DRAIN
                            /\ Fixed(r, r[i].peer, i, se)
                      /\ r[i].peer \in se.rdesession \/ Deleted(r, r[i].peer, i)
    BY Zenon, <1>0, <1>1 DEF Coming
  <2>1. i \in Nat /\ i + 1 \in DOMAIN q /\ r[i] = q[i + 1]
    BY <1>3 DEF Taken
  <2>2. (\E k \in DOMAIN q : k > i + 1 /\ q[k] = DRAIN) => \E k \in DOMAIN r : k > i /\ r[k] = DRAIN
    <3> SUFFICES ASSUME NEW k \in DOMAIN q, k > i + 1, q[k] = DRAIN
                 PROVE  \E l \in DOMAIN r : l > i /\ r[l] = DRAIN
      OBVIOUS
    <3>1. k - 1 \in DOMAIN r /\ r[k - 1] = DRAIN /\ k - 1 > i
      BY <2>1, <1>3 DEF Taken
    <3> QED
      BY <3>1
  <2> QED
    BY ZenonT(30), <2>1, <2>2, <1>8, <1>4, <1>6
<1> QED
  BY <1>9, <1>10

\* The decision engine switches to the parent's configuration.
LEMMA NeighborsApplied ==
    ASSUME Shape, Known, Coming, Configured, UNCHANGED <<main, se>>, RibsStay, Parent,
           pipe'[SR] = pipe[SR], NoDrain(pipe[SR]), se.ver = main.ver, se.delete = {},
           DOMAIN se.peers = DOMAIN main.peers,
           rde'.ver = main.ver, rde'.ribs = main.ribs, DOMAIN rde'.peers = DOMAIN rde.peers,
           \A p \in DOMAIN rde.peers : /\ rde'.peers[p].conf = rde.peers[p].conf
                                       /\ rde'.peers[p].loc = rde.peers[p].conf.rib
    PROVE  Known' /\ Coming' /\ Configured'
<1>0. main' = main /\ se' = se
  OBVIOUS
<1>1. PICK q : q = pipe[SR]
  OBVIOUS
<1>2. main.ver \in Nat
  BY ReconfAssumption DEF Parent
<1>3. \A p, i, v : ~Renewed(q, p, i, v)
  BY <1>1 DEF Renewed, NoDrain
<1>4. PICK d \in Configs : main.ribs = d.ribs /\ main.peers = d.peers
  BY DEF Parent, IsConfig
<1>5. \A p, c : ConfRight(p, c, main, rde.ribs) /\ (c.ver = main.ver \/ p \notin DOMAIN main.peers)
                => c.rib \in main.ribs /\ ConfRight(p, c, main, main.ribs)
  BY Zenon, <1>4 DEF ConfRight
<1>6. Known'
  <2> SUFFICES ASSUME NEW p \in DOMAIN rde.peers
               PROVE  LET c == rde.peers[p].conf IN
                      /\ ConfRight(p, c, main, main.ribs)
                      /\ c.rib \in main.ribs
                      /\ c.ver = se.ver \/ Fixed(q, p, 0, se)
                      /\ c.ver >= main.ver \/ p \in se.delete \/ Deleted(q, p, 0)
                      /\ p \in se.rdesession \/ Deleted(q, p, 0)
    BY Zenon, <1>0, <1>1 DEF Known
  <2>1. PICK c : c = rde.peers[p].conf
    OBVIOUS
  <2>2. /\ ConfRight(p, c, main, rde.ribs)
        /\ c.ver = se.ver \/ Fixed(q, p, 0, se)
        /\ p \in se.rdesession \/ Deleted(q, p, 0)
    BY <2>1, <1>1 DEF Known
  <2>3. c.ver = main.ver \/ (p \notin DOMAIN main.peers /\ Deleted(q, p, 0))
    BY SMTT(30), <2>2, <1>3 DEF Fixed
  <2> QED
    BY SMTT(30), <2>1, <2>2, <2>3, <1>5, <1>2
<1>7. Coming'
  <2> SUFFICES ASSUME NEW i \in DOMAIN q, IsAdd(q[i])
               PROVE  /\ ConfRight(q[i].peer, q[i].conf, main, main.ribs)
                      /\ q[i].conf.ver >= main.ver
                      /\ \/ q[i].conf.ver = se.ver
                         \/ /\ \E k \in DOMAIN q : k > i /\ q[k] = DRAIN
                            /\ Fixed(q, q[i].peer, i, se)
                      /\ q[i].peer \in se.rdesession \/ Deleted(q, q[i].peer, i)
    BY SMTT(30), <1>0, <1>1 DEF Coming
  <2>1. /\ ConfRight(q[i].peer, q[i].conf, main, rde.ribs)
        /\ q[i].conf.ver = se.ver
        /\ q[i].peer \in se.rdesession \/ Deleted(q, q[i].peer, i)
    BY ZenonT(30), <1>1 DEF Coming, NoDrain
  <2> QED
    BY SMTT(30), <2>1, <1>5, <1>2
<1>8. Configured'
  BY <1>0, <1>5 DEF Configured
<1> QED
  BY <1>6, <1>7, <1>8

\* What the session engine gets from the parent's configuration is right.
LEMMA NewConfRight ==
    ASSUME RibsStay, Parent, main.ribs \subseteq rde.ribs, NEW p \in DOMAIN main.peers
    PROVE  /\ ConfRight(p, peerconf(main, p), main, rde.ribs)
           /\ peerconf(main, p).ver = main.ver /\ p \in Peers
<1>1. PICK d \in Configs : main.ribs = d.ribs /\ main.peers = d.peers
  BY DEF Parent, IsConfig
<1>2. main.ver \in Nat
  BY ReconfAssumption DEF Parent
<1>3. main.peers[p] \in main.ribs /\ p \in Peers
  BY <1>1, ReconfAssumption
<1>4. peerconf(main, p) \in PeerConfs
  BY <1>1, <1>2, <1>3 DEF peerconf, PeerConfs
<1>5. peerconf(main, p).ver = main.ver /\ peerconf(main, p).rib = main.peers[p]
  BY DEF peerconf
<1>6. \A c \in Configs : p \in DOMAIN c.peers \/ main.peers[p] \in c.ribs
  BY <1>1 DEF RibsStay
<1> QED
  BY <1>2, <1>3, <1>4, <1>5, <1>6 DEF ConfRight

\* The session engine switches to the parent's configuration.
LEMMA NeighborsSwitched ==
    ASSUME Shape, Known, Coming, Configured, UNCHANGED <<main, rde>>, RibsStay, Parent,
           main.ribs \subseteq rde.ribs, main.ver >= rde.ver, se.delete = {},
           NEW s, IsSeq(s), pipe'[SR] = pipe[SR] \o s,
           Len(s) \in Nat, DOMAIN s = 1 .. Len(s), Len(s) \in DOMAIN s, s[Len(s)] = DRAIN,
           \A i \in DOMAIN s : i # Len(s) =>
              \E p \in DOMAIN main.peers \cap se.rdesession : s[i] = add(p, peerconf(main, p)),
           \A p \in DOMAIN main.peers \cap se.rdesession :
              \E i \in DOMAIN s : i < Len(s) /\ s[i] = add(p, peerconf(main, p)),
           se'.ver = main.ver, se'.up = se.up, se'.rdesession = se.rdesession,
           se'.delete = DOMAIN se.peers \ DOMAIN main.peers,
           DOMAIN se'.peers = DOMAIN main.peers \cup DOMAIN se.peers,
           \A p \in DOMAIN main.peers : se'.peers[p] = peerconf(main, p),
           \A p \in DOMAIN se.peers \ DOMAIN main.peers : se'.peers[p] = se.peers[p]
    PROVE  Known' /\ Coming' /\ Configured'
<1>0. main' = main /\ rde' = rde
  OBVIOUS
<1>1. PICK q, r : q = pipe[SR] /\ r = pipe'[SR]
  BY Zenon
<1>2. IsSeq(q)
  BY <1>1, Channels DEF Shape, Piping
<1>3. Len(q) \in Nat /\ DOMAIN q = 1 .. Len(q)
  BY <1>2, SeqFacts
<1>4. Sent(q, s, r)
  BY Zenon, <1>1, <1>2, AfterSend
<1>5. \A p \in DOMAIN main.peers : /\ ConfRight(p, peerconf(main, p), main, rde.ribs)
                                   /\ peerconf(main, p).ver = main.ver /\ p \in Peers
  BY NewConfRight
<1>6. \A p \in DOMAIN main.peers : LET m == add(p, peerconf(main, p)) IN
         IsAdd(m) /\ m.peer = p /\ m.conf = peerconf(main, p)
  BY DEF add, IsAdd
<1>7. \A i \in DOMAIN q : \E k \in DOMAIN r : k > i /\ r[k] = DRAIN
  <2>1. Len(q) + Len(s) \in DOMAIN r /\ r[Len(q) + Len(s)] = DRAIN
    BY Zenon, <1>4 DEF Sent
  <2> QED
    BY <2>1, <1>3
\* What the decision engine will know of p after place i of q is renewed.
<1>8. \A p : \A i \in 0 .. Len(q) :
         p \in se.rdesession \/ Deleted(q, p, i) => Fixed(r, p, i, se')
  <2> SUFFICES ASSUME NEW p, NEW i \in 0 .. Len(q), p \in se.rdesession \/ Deleted(q, p, i)
               PROVE  Fixed(r, p, i, se')
    BY SMTT(30)
  <2>1. Len(q) + Len(s) \in DOMAIN r /\ r[Len(q) + Len(s)] = DRAIN
    BY Zenon, <1>4 DEF Sent
  <2>2. CASE Deleted(q, p, i)
    <3>1. PICK j \in DOMAIN q : j > i /\ q[j] = DELETE(p)
      BY ZenonT(30), <2>2 DEF Deleted
    <3>2. j \in DOMAIN r /\ r[j] = DELETE(p) /\ j < Len(q) + Len(s)
      BY <3>1, <1>3, <1>4 DEF Sent
    <3>3. Renews(r[j], p, main.ver)
      BY Zenon, <3>2 DEF Renews
    <3> QED
      BY Zenon, <2>1, <3>1, <3>2, <3>3 DEF Fixed, Renewed
  <2>3. CASE p \in se.rdesession /\ p \in DOMAIN main.peers
    <3>1. PICK j \in DOMAIN s : j < Len(s) /\ s[j] = add(p, peerconf(main, p))
      BY <2>3
    <3>2. j \in Nat /\ j > 0
      BY SMTT(30), <3>1
    <3>3. Len(q) + j \in DOMAIN r /\ r[Len(q) + j] = s[j]
      BY SMTT(30), <3>1, <1>4 DEF Sent
    <3>4. Len(q) + j < Len(q) + Len(s) /\ i < Len(q) + j
      BY SMTT(30), <3>1, <3>2, <1>3
    <3>5. PICK m : m = add(p, peerconf(main, p))
      BY Zenon
    <3>6. IsAdd(m) /\ m.peer = p /\ m.conf.ver = main.ver
      BY SMTT(30), <2>3, <3>5, <1>5, <1>6
    <3>7. Renews(r[Len(q) + j], p, main.ver)
      BY Zenon, <3>1, <3>3, <3>5, <3>6 DEF Renews
    <3> QED
      BY ZenonT(30), <2>1, <3>3, <3>4, <3>7 DEF Fixed, Renewed
  <2>4. CASE p \in se.rdesession /\ p \notin DOMAIN main.peers
    <3>1. p \in se'.delete
      BY Zenon, <2>4 DEF Configured
    <3> QED
      BY Zenon, <3>1 DEF Fixed
  <2> QED
    BY Zenon, <2>2, <2>3, <2>4
<1>9. Known'
  <2> SUFFICES ASSUME NEW p \in DOMAIN rde.peers
               PROVE  /\ ConfRight(p, rde.peers[p].conf, main, rde.ribs)
                      /\ rde.peers[p].loc \in rde.ribs
                      /\ Fixed(r, p, 0, se')
                      /\ \/ rde.peers[p].conf.ver >= rde.ver
                         \/ p \in se'.delete \/ Deleted(r, p, 0)
                      /\ p \in se.rdesession \/ Deleted(r, p, 0)
    BY Zenon, <1>0, <1>1 DEF Known
  <2>1. /\ ConfRight(p, rde.peers[p].conf, main, rde.ribs)
        /\ rde.peers[p].loc \in rde.ribs
        /\ rde.peers[p].conf.ver >= rde.ver \/ p \in se.delete \/ Deleted(q, p, 0)
        /\ p \in se.rdesession \/ Deleted(q, p, 0)
    BY Zenon, <1>1 DEF Known
  <2>2. Deleted(q, p, 0) => Deleted(r, p, 0)
    BY ZenonT(30), <1>4 DEF Sent
  <2>3. Fixed(r, p, 0, se')
    BY SMTT(30), <2>1, <1>3, <1>8
  <2> QED
    BY Zenon, <2>1, <2>2, <2>3
<1>10. Coming'
  <2> SUFFICES ASSUME NEW i \in DOMAIN r, IsAdd(r[i])
               PROVE  /\ ConfRight(r[i].peer, r[i].conf, main, rde.ribs)
                      /\ r[i].conf.ver >= rde.ver
                      /\ \/ r[i].conf.ver = main.ver
                         \/ /\ \E k \in DOMAIN r : k > i /\ r[k] = DRAIN
                            /\ Fixed(r, r[i].peer, i, se')
                      /\ r[i].peer \in se.rdesession \/ Deleted(r, r[i].peer, i)
    BY ZenonT(30), <1>0, <1>1 DEF Coming
  <2>1. CASE i \in DOMAIN q
    <3>1. r[i] = q[i] /\ i \in 0 .. Len(q)
      BY SMTT(30), <2>1, <1>3, <1>4 DEF Sent
    <3>2. /\ ConfRight(q[i].peer, q[i].conf, main, rde.ribs)
          /\ q[i].conf.ver >= rde.ver
          /\ q[i].peer \in se.rdesession \/ Deleted(q, q[i].peer, i)
      BY Zenon, <2>1, <3>1, <1>1 DEF Coming
    <3>3. Deleted(q, q[i].peer, i) => Deleted(r, q[i].peer, i)
      BY ZenonT(30), <1>4 DEF Sent
    <3> QED
      BY Zenon, <2>1, <3>1, <3>2, <3>3, <1>7, <1>8
  <2>2. CASE i \notin DOMAIN q
    <3>1. PICK j \in DOMAIN s : r[i] = s[j]
      BY Zenon, <2>2, <1>4 DEF Sent
    <3>2. j # Len(s)
      BY <3>1, DrainIsNoAdd
    <3>3. PICK p \in DOMAIN main.peers \cap se.rdesession : s[j] = add(p, peerconf(main, p))
      BY Zenon, <3>2
    <3> QED
      BY SMTT(30), <3>1, <3>3, <1>5, <1>6
  <2> QED
    BY SMTT(30), <2>1, <2>2
<1>11. Configured'
  <2>1. \A p \in DOMAIN se.peers : ConfRight(p, se.peers[p], main, rde.ribs)
    BY Zenon DEF Configured
  <2>2. \A p \in DOMAIN se'.peers : /\ ConfRight(p, se'.peers[p], main, rde.ribs)
                                    /\ p \in se'.delete \/ se'.peers[p].ver = se'.ver
    BY SMTT(30), <2>1, <1>5
  <2> QED
    BY Zenon, <2>2, <1>0 DEF Configured
<1> QED
  BY <1>9, <1>10, <1>11

-----------------------------------------------------------------------------
(***************************************************************************)
(* The stages of the handshake.                                            *)
(***************************************************************************)

LEMMA Tuples ==
    /\ \A x : Head(<<x>>) = x /\ Tail(<<x>>) = <<>> /\ <<x>> # <<>> /\ <<>> \o <<x>> = <<x>>
    /\ \A x, y : /\ Head(<<x, y>>) = x /\ Tail(<<x, y>>) = <<y>> /\ <<x, y>> # <<>>
                 /\ <<>> \o <<x, y>> = <<x, y>>
    /\ \A x, y : <<x>> = <<y>> => x = y
    /\ \A x, y, z : <<x, y>> # <<z>>
OBVIOUS

\* The steps that read and write these messages.
LEMMA ReadFirst ==
    ASSUME NEW c \in Chans, NEW x, NEW y, Piping, pipe[c] = <<x, y>>, pipe' = Piped(c, NoMsg)
    PROVE  Piping' /\ pipe'[c] = <<y>> /\ \A e \in Chans \ {c} : pipe'[e] = pipe[e]
<1>1. pipe[c] # <<>> /\ Tail(pipe[c]) = <<y>>
  BY Tuples
<1> QED
  BY Zenon, <1>1, OnlyRead

LEMMA ReadLast ==
    ASSUME NEW c \in Chans, NEW x, Piping, pipe[c] = <<x>>, pipe' = Piped(c, NoMsg)
    PROVE  Piping' /\ pipe'[c] = <<>> /\ \A e \in Chans \ {c} : pipe'[e] = pipe[e]
<1>1. pipe[c] # <<>> /\ Tail(pipe[c]) = <<>>
  BY Tuples
<1> QED
  BY Zenon, <1>1, OnlyRead

LEMMA ReadReply ==
    ASSUME NEW c \in Chans, NEW d \in Chans, c # d, NEW x, NEW y, Piping,
           pipe[c] = <<x>>, pipe[d] = <<>>, pipe' = Piped(c, To(d, <<y>>))
    PROVE  /\ Piping' /\ pipe'[c] = <<>> /\ pipe'[d] = <<y>>
           /\ \A e \in Chans \ {c, d} : pipe'[e] = pipe[e]
<1>1. pipe[c] # <<>> /\ Tail(pipe[c]) = <<>> /\ pipe[d] \o <<y>> = <<y>>
  BY Tuples
<1>2. IsSeq(<<y>>)
  BY ConstIsSeq
<1>3. /\ Piping' /\ pipe'[c] = Tail(pipe[c]) /\ pipe'[d] = pipe[d] \o <<y>>
      /\ \A e \in Chans \ {c, d} : pipe'[e] = pipe[e]
  BY ZenonT(30), <1>1, <1>2, ReadSend
<1> QED
  BY <1>1, <1>3

LEMMA Types ==
    /\ DRAIN.type = "DRAIN" /\ DONE.type = "DONE" /\ DRAIN # DONE
    /\ \A m : ConfOf(m).type = "CONF" /\ ConfOf(m) # DRAIN /\ ConfOf(m) # DONE
BY Zenon DEF DRAIN, DONE, ConfOf, msg

\* What the session engine finds in its pipe from the parent.
LEMMA StageMS ==
    ASSUME Handshake, pipe[MS] # <<>>
    PROVE  \/ /\ Load /\ pipe[MS] = <<ConfOf(main), DRAIN>> /\ pipe[SM] = <<>>
              /\ se.nconf = None
           \/ /\ Load /\ pipe[MS] = <<DRAIN>> /\ pipe[SM] = <<>> /\ se.nconf = ConfOf(main)
           \/ /\ Switch /\ SeOld /\ pipe[MS] = <<DONE>> /\ pipe[SM] = <<>>
              /\ se.nconf = ConfOf(main)
<1>1. CASE Load
  BY Zenon, <1>1 DEF Load, SeReady, Ready, Loading
<1>2. CASE Switch
  BY Zenon, <1>2 DEF Switch, SeNew
<1>3. CASE Finish
  BY <1>3 DEF Finish, SeNew
<1> QED
  BY Zenon, <1>1, <1>2, <1>3 DEF Handshake

LEMMA StageMR ==
    ASSUME Handshake, pipe[MR] # <<>>
    PROVE  \/ /\ Load /\ pipe[MR] = <<ConfOf(main), DRAIN>> /\ pipe[RM] = <<>>
              /\ rde.nconf = None
           \/ /\ Load /\ pipe[MR] = <<DRAIN>> /\ pipe[RM] = <<>> /\ rde.nconf = ConfOf(main)
           \/ /\ Finish /\ RdeOld /\ pipe[MR] = <<DONE>> /\ pipe[RM] = <<>>
              /\ rde.nconf = ConfOf(main)
<1>1. CASE Load
  BY Zenon, <1>1 DEF Load, RdeReady, Ready, Loading
<1>2. CASE Switch
  BY Zenon, <1>2 DEF Switch, RdeReady, Ready
<1>3. CASE Finish
  BY Zenon, <1>3 DEF Finish, RdeNew, RdeIdle
<1> QED
  BY Zenon, <1>1, <1>2, <1>3 DEF Handshake

LEMMA StageMT ==
    ASSUME Handshake, pipe[MT] # <<>>
    PROVE  \/ /\ Load /\ pipe[MT] = <<ConfOf(main), DRAIN>> /\ pipe[TM] = <<>>
              /\ rtr.nconf = None
           \/ /\ Load /\ pipe[MT] = <<DRAIN>> /\ pipe[TM] = <<>> /\ rtr.nconf = ConfOf(main)
           \/ /\ Finish /\ RtrOld /\ pipe[MT] = <<DONE>> /\ pipe[TM] = <<>>
              /\ rtr.nconf = ConfOf(main)
<1>1. CASE Load
  BY Zenon, <1>1 DEF Load, RtrReady, Ready, Loading
<1>2. CASE Switch
  BY Zenon, <1>2 DEF Switch, RtrReady, Ready
<1>3. CASE Finish
  BY ZenonT(30), <1>3 DEF Finish, RtrNew, RtrIdle
<1> QED
  BY <1>1, <1>2, <1>3 DEF Handshake

\* What the parent finds.
LEMMA StageSM ==
    ASSUME Handshake, pipe[SM] # <<>>
    PROVE  \/ /\ Load /\ pipe[MS] = <<>> /\ pipe[SM] = <<DRAIN>> /\ se.nconf = ConfOf(main)
           \/ /\ Switch /\ SeNew /\ pipe[SM] = <<DONE>> /\ pipe[RS] = <<>>
              /\ NoDrain(pipe[SR]) /\ se.delete = {}
<1>1. CASE Load
  BY Zenon, <1>1 DEF Load, SeReady, Ready, Loading
<1>2. CASE Switch
  BY <1>2 DEF Switch
<1>3. CASE Finish
  BY Zenon, <1>3 DEF Finish
<1> QED
  BY Zenon, <1>1, <1>2, <1>3 DEF Handshake

LEMMA StageRM ==
    ASSUME Handshake, pipe[RM] # <<>>
    PROVE  \/ /\ Load /\ pipe[MR] = <<>> /\ pipe[RM] = <<DRAIN>> /\ rde.nconf = ConfOf(main)
           \/ /\ Finish /\ RdeNew /\ rde.dumps = {} /\ pipe[RM] = <<DONE>>
<1>1. CASE Load
  BY Zenon, <1>1 DEF Load, RdeReady, Ready, Loading
<1>2. CASE Switch
  BY Zenon, <1>2 DEF Switch, RdeReady, Ready
<1>3. CASE Finish
  BY SMTT(30), <1>3 DEF Finish, RdeIdle
<1> QED
  BY Zenon, <1>1, <1>2, <1>3 DEF Handshake

LEMMA StageTM ==
    ASSUME Handshake, pipe[TM] # <<>>
    PROVE  \/ /\ Load /\ pipe[MT] = <<>> /\ pipe[TM] = <<DRAIN>> /\ rtr.nconf = ConfOf(main)
           \/ /\ Finish /\ RtrNew /\ pipe[TM] = <<DONE>>
<1>1. CASE Load
  BY Zenon, <1>1 DEF Load, RtrReady, Ready, Loading
<1>2. CASE Switch
  BY Zenon, <1>2 DEF Switch, RtrReady, Ready
<1>3. CASE Finish
  BY Zenon, <1>3 DEF Finish, RtrIdle
<1> QED
  BY Zenon, <1>1, <1>2, <1>3 DEF Handshake

\* A step that neither touches the neighbors nor the decision engine.
LEMMA QuietStep ==
    ASSUME Inv, UNCHANGED rde, Piping', pipe'[SR] = pipe[SR],
           DOMAIN se' = DOMAIN se, DOMAIN main' = DOMAIN main, DOMAIN rtr' = DOMAIN rtr,
           se'.ver = se.ver, se'.delete = se.delete, se'.peers = se.peers,
           se'.rdesession = se.rdesession, se'.up = se.up,
           main'.ver = main.ver, main'.ribs = main.ribs, main'.peers = main.peers,
           main'.listeners = main.listeners, main'.deleted \subseteq main.deleted,
           DOMAIN main.peers \cup main'.deleted \subseteq main'.keyed,
           DOMAIN se.peers \subseteq DOMAIN main.peers \cup main'.deleted
    PROVE  Shape' /\ Known' /\ Coming' /\ Configured' /\ Parent' /\ Dumps'
<1>0. rde' = rde
  OBVIOUS
<1>1. Shape'
  BY SMTT(30), <1>0 DEF Inv, Shape
<1>2. main.ver \in Nat
  BY ReconfAssumption DEF Inv, Parent
<1>3. Known' /\ Coming' /\ Configured'
  <2>1. Known /\ Coming /\ Configured
    BY DEF Inv
  <2> QED
    BY <2>1, <1>0, <1>2, NeighborsKept
<1>4. Parent'
  BY <1>0 DEF Inv, Parent, IsConfig
<1>5. Dumps'
  BY <1>0 DEF Inv, Dumps
<1> QED
  BY Zenon, <1>1, <1>3, <1>4, <1>5

-----------------------------------------------------------------------------
(***************************************************************************)
(* Every step keeps the invariant.  First the steps that only pass the     *)
(* configuration on.                                                       *)
(***************************************************************************)

LEMMA SeConfKeeps ==
    ASSUME Inv, SeConf, NoneApart
    PROVE  Inv'
<1>1. pipe[MS] # <<>> /\ Head(pipe[MS]).type = "CONF"
  BY DEF SeConf, Received, MS
<1>2. Load /\ pipe[MS] = <<ConfOf(main), DRAIN>> /\ pipe[SM] = <<>> /\ se.nconf = None
  BY <1>1, StageMS, Tuples, Types DEF Inv
<1>3. /\ se' = [se EXCEPT !.nconf = ConfOf(main)] /\ pipe' = Piped(MS, NoMsg)
      /\ main' = main /\ rde' = rde /\ rtr' = rtr
  BY <1>2, Tuples DEF SeConf, MS
<1>4. /\ Piping' /\ pipe'[MS] = <<DRAIN>>
      /\ \A d \in Chans \ {MS} : pipe'[d] = pipe[d]
  BY <1>2, <1>3, ReadFirst, Channels DEF Inv, Shape
<1>5. /\ DOMAIN se' = DOMAIN se /\ se'.nconf = ConfOf(main) /\ se'.ver = se.ver
      /\ se'.delete = se.delete /\ se'.peers = se.peers /\ se'.rdesession = se.rdesession
      /\ se'.up = se.up /\ se'.listeners = se.listeners
  BY <1>3 DEF Inv, Shape
<1>6. Shape' /\ Known' /\ Coming' /\ Configured' /\ Parent' /\ Dumps'
  <2>1. pipe'[SR] = pipe[SR]
    BY <1>4, Channels
  <2> QED
    BY SMTT(30), <2>1, <1>3, <1>4, <1>5, QuietStep DEF Inv, Parent
<1>7. /\ pipe'[SM] = <<>> /\ pipe'[MR] = pipe[MR] /\ pipe'[RM] = pipe[RM] /\ pipe'[MT] = pipe[MT]
      /\ pipe'[TM] = pipe[TM] /\ pipe'[SR] = pipe[SR] /\ pipe'[RS] = pipe[RS]
  BY <1>2, <1>4, Channels
<1>8. Load'
  <2>1. ~SeReady /\ ~SeReady'
    BY <1>2, <1>4, Tuples DEF SeReady, Ready
  <2>2. Loading(pipe[MS], pipe[SM], se.nconf)'
    BY <1>3, <1>4, <1>5, <1>7 DEF Loading
  <2>3. (RdeReady <=> RdeReady') /\ (RtrReady <=> RtrReady')
    BY <1>3, <1>7 DEF RdeReady, RtrReady, Ready
  <2>4. se.nconf' # None
    BY <1>5 DEF NoneApart
  <2> QED
    BY ZenonT(30), <1>2, <1>3, <1>5, <1>7, <2>1, <2>2, <2>3, <2>4
    DEF Load, SeOld, RdeOld, RtrOld, Loading, One
<1>9. ~fatal'
  <2>1. fatal' = \E l \in main.listeners : (l \in se.listeners) = (l \in main.reinit)
    BY <1>2, Tuples DEF SeConf, MS, ConfOf
  <2>2. \A l \in main.listeners : (l \in se.listeners) # (l \in main.reinit)
    BY <1>2 DEF Load
  <2> QED
    BY <2>1, <2>2
<1> QED
  BY <1>6, <1>8, <1>9 DEF Inv, Handshake

LEMMA SeDrainKeeps ==
    ASSUME Inv, SeDrain, NoneApart
    PROVE  Inv'
<1>1. pipe[MS] # <<>> /\ Head(pipe[MS]).type = "DRAIN"
  BY DEF SeDrain, Received, MS
<1>2. Load /\ pipe[MS] = <<DRAIN>> /\ pipe[SM] = <<>> /\ se.nconf = ConfOf(main)
  BY SMTT(30), <1>1, StageMS, Tuples, Types DEF Inv
<1>3. /\ pipe' = Piped(MS, To(SM, <<DRAIN>>))
      /\ main' = main /\ rde' = rde /\ rtr' = rtr /\ se' = se
  BY Zenon, <1>2, Tuples DEF SeDrain, MS, SM, DRAIN
<1>4. /\ Piping' /\ pipe'[MS] = <<>> /\ pipe'[SM] = <<DRAIN>>
      /\ \A d \in Chans \ {MS, SM} : pipe'[d] = pipe[d]
  <2>1. MS \in Chans /\ SM \in Chans /\ MS # SM /\ Piping
    BY Channels DEF Inv, Shape
  <2> QED
    BY SMTT(30), <2>1, <1>2, <1>3, ReadReply
<1>7. /\ pipe'[MR] = pipe[MR] /\ pipe'[RM] = pipe[RM] /\ pipe'[MT] = pipe[MT]
      /\ pipe'[TM] = pipe[TM] /\ pipe'[SR] = pipe[SR] /\ pipe'[RS] = pipe[RS]
  BY Zenon, <1>2, <1>4, Channels
<1>6. Shape' /\ Known' /\ Coming' /\ Configured' /\ Parent' /\ Dumps'
  BY Zenon, <1>3, <1>4, <1>7, QuietStep DEF Inv, Parent
<1>8. Load'
  <2>1. ~SeReady /\ ~SeReady'
    BY Zenon, <1>2, <1>4, Tuples DEF SeReady, Ready
  <2>2. Loading(pipe[MS], pipe[SM], se.nconf)'
    BY ZenonT(30), <1>2, <1>3, <1>4, <1>7 DEF Loading
  <2>3. (RdeReady <=> RdeReady') /\ (RtrReady <=> RtrReady')
    BY <1>3, <1>7 DEF RdeReady, RtrReady, Ready
  <2> QED
    BY Zenon, <1>2, <1>3, <1>7, <2>1, <2>2, <2>3
    DEF Load, SeOld, RdeOld, RtrOld, Loading, One
<1>9. ~fatal'
  BY ZenonT(30), <1>2 DEF SeDrain, NoneApart
<1> QED
  BY <1>6, <1>8, <1>9 DEF Inv, Handshake

LEMMA SeDrainedKeeps ==
    ASSUME Inv, SeDrained
    PROVE  Inv'
<1>1. pipe[RS] # <<>> /\ se.delete = {}
  BY Zenon DEF SeDrained, Received, RS
<1>2. Switch /\ SeNew /\ pipe[SM] = <<>> /\ pipe[RS] = <<DRAIN>> /\ NoDrain(pipe[SR])
  BY Zenon, <1>1 DEF Inv, Handshake, Load, SeOld, Switch, Finish
<1>3. /\ pipe' = Piped(RS, To(SM, <<DONE>>))
      /\ main' = main /\ rde' = rde /\ rtr' = rtr /\ se' = se
  BY DEF SeDrained, RS, SM, DONE
<1>4. /\ Piping' /\ pipe'[RS] = <<>> /\ pipe'[SM] = <<DONE>>
      /\ \A d \in Chans \ {RS, SM} : pipe'[d] = pipe[d]
  <2>1. RS \in Chans /\ SM \in Chans /\ RS # SM /\ Piping
    BY Channels DEF Inv, Shape
  <2> QED
    BY SMTT(30), <2>1, <1>2, <1>3, ReadReply
<1>7. /\ pipe'[MR] = pipe[MR] /\ pipe'[RM] = pipe[RM] /\ pipe'[MT] = pipe[MT]
      /\ pipe'[TM] = pipe[TM] /\ pipe'[SR] = pipe[SR] /\ pipe'[MS] = pipe[MS]
  BY ZenonT(30), <1>2, <1>4, Channels
<1>6. Shape' /\ Known' /\ Coming' /\ Configured' /\ Parent' /\ Dumps'
  BY SMTT(30), <1>3, <1>4, <1>7, QuietStep DEF Inv, Parent
<1>8. Switch'
  BY SMTT(30), <1>1, <1>2, <1>3, <1>4, <1>7
  DEF Switch, RdeOld, RtrOld, RdeReady, RtrReady, Ready, SeNew, NoDrain
<1>9. ~fatal'
  BY Zenon, <1>2 DEF SeDrained, SeNew
<1> QED
  BY <1>6, <1>8, <1>9 DEF Inv, Handshake

LEMMA RtrConfKeeps ==
    ASSUME Inv, RtrConf, NoneApart
    PROVE  Inv'
<1>1. pipe[MT] # <<>> /\ Head(pipe[MT]).type = "CONF"
  BY DEF RtrConf, Received, MT
<1>2. Load /\ pipe[MT] = <<ConfOf(main), DRAIN>> /\ pipe[TM] = <<>> /\ rtr.nconf = None
  BY <1>1, StageMT, Tuples, Types DEF Inv
<1>3. /\ rtr' = [rtr EXCEPT !.nconf = ConfOf(main)] /\ pipe' = Piped(MT, NoMsg)
      /\ main' = main /\ rde' = rde /\ se' = se /\ fatal' = fatal
  BY <1>2, Tuples DEF RtrConf, MT
<1>4. /\ Piping' /\ pipe'[MT] = <<DRAIN>>
      /\ \A d \in Chans \ {MT} : pipe'[d] = pipe[d]
  BY <1>2, <1>3, ReadFirst, Channels DEF Inv, Shape
<1>5. DOMAIN rtr' = DOMAIN rtr /\ rtr'.nconf = ConfOf(main) /\ rtr'.ver = rtr.ver
  BY ZenonT(30), <1>3 DEF Inv, Shape
<1>7. /\ pipe'[TM] = <<>> /\ pipe'[MR] = pipe[MR] /\ pipe'[RM] = pipe[RM] /\ pipe'[MS] = pipe[MS]
      /\ pipe'[SM] = pipe[SM] /\ pipe'[SR] = pipe[SR] /\ pipe'[RS] = pipe[RS]
  BY <1>2, <1>4, Channels
<1>6. Shape' /\ Known' /\ Coming' /\ Configured' /\ Parent' /\ Dumps'
  BY SMTT(30), <1>3, <1>4, <1>5, <1>7, QuietStep DEF Inv, Parent
<1>8. Load'
  <2>1. ~RtrReady /\ ~RtrReady'
    BY <1>2, <1>4, Tuples DEF RtrReady, Ready
  <2>2. Loading(pipe[MT], pipe[TM], rtr.nconf)'
    BY <1>3, <1>4, <1>5, <1>7 DEF Loading
  <2>3. (RdeReady <=> RdeReady') /\ (SeReady <=> SeReady')
    BY <1>3, <1>7 DEF RdeReady, SeReady, Ready
  <2> QED
    BY Zenon, <1>2, <1>3, <1>5, <1>7, <2>1, <2>2, <2>3
    DEF Load, SeOld, RdeOld, RtrOld, Loading, One
<1> QED
  BY <1>3, <1>6, <1>8 DEF Inv, Handshake

LEMMA RtrDrainKeeps ==
    ASSUME Inv, RtrDrain
    PROVE  Inv'
<1>1. pipe[MT] # <<>> /\ Head(pipe[MT]).type = "DRAIN"
  BY DEF RtrDrain, Received, MT
<1>2. Load /\ pipe[MT] = <<DRAIN>> /\ pipe[TM] = <<>> /\ rtr.nconf = ConfOf(main)
  BY SMTT(30), <1>1, StageMT, Tuples, Types DEF Inv
<1>3. /\ pipe' = Piped(MT, To(TM, <<DRAIN>>))
      /\ main' = main /\ rde' = rde /\ rtr' = rtr /\ se' = se /\ fatal' = fatal
  BY SMTT(30), <1>2, Tuples DEF RtrDrain, MT, TM, DRAIN
<1>4. /\ Piping' /\ pipe'[MT] = <<>> /\ pipe'[TM] = <<DRAIN>>
      /\ \A d \in Chans \ {MT, TM} : pipe'[d] = pipe[d]
  <2>1. MT \in Chans /\ TM \in Chans /\ MT # TM /\ Piping
    BY Channels DEF Inv, Shape
  <2> QED
    BY SMTT(30), <2>1, <1>2, <1>3, ReadReply
<1>7. /\ pipe'[MR] = pipe[MR] /\ pipe'[RM] = pipe[RM] /\ pipe'[MS] = pipe[MS]
      /\ pipe'[SM] = pipe[SM] /\ pipe'[SR] = pipe[SR] /\ pipe'[RS] = pipe[RS]
  BY Zenon, <1>2, <1>4, Channels
<1>6. Shape' /\ Known' /\ Coming' /\ Configured' /\ Parent' /\ Dumps'
  BY Zenon, <1>3, <1>4, <1>7, QuietStep DEF Inv, Parent
<1>8. Load'
  <2>1. ~RtrReady /\ ~RtrReady'
    BY ZenonT(30), <1>2, <1>4, Tuples DEF RtrReady, Ready
  <2>2. Loading(pipe[MT], pipe[TM], rtr.nconf)'
    BY Zenon, <1>2, <1>3, <1>4, <1>7 DEF Loading
  <2>3. (RdeReady <=> RdeReady') /\ (SeReady <=> SeReady')
    BY Zenon, <1>3, <1>7 DEF RdeReady, SeReady, Ready
  <2> QED
    BY Zenon, <1>2, <1>3, <1>7, <2>1, <2>2, <2>3
    DEF Load, SeOld, RdeOld, RtrOld, Loading, One
<1> QED
  BY <1>3, <1>6, <1>8 DEF Inv, Handshake

LEMMA RtrDoneKeeps ==
    ASSUME Inv, RtrDone, NoneApart
    PROVE  Inv'
<1>1. pipe[MT] # <<>> /\ Head(pipe[MT]).type = "DONE"
  BY DEF RtrDone, Received, MT
<1>2. /\ Finish /\ RtrOld /\ pipe[MT] = <<DONE>> /\ pipe[TM] = <<>>
      /\ rtr.nconf = ConfOf(main)
  BY SMTT(30), <1>1, StageMT, Tuples, Types DEF Inv
<1>3. /\ rtr' = [ver |-> main.ver, nconf |-> None] /\ pipe' = Piped(MT, To(TM, <<DONE>>))
      /\ main' = main /\ rde' = rde /\ se' = se /\ fatal' = fatal
  BY SMTT(30), <1>2 DEF RtrDone, MT, TM, DONE, NoneApart, ConfOf
<1>4. /\ Piping' /\ pipe'[MT] = <<>> /\ pipe'[TM] = <<DONE>>
      /\ \A d \in Chans \ {MT, TM} : pipe'[d] = pipe[d]
  <2>1. MT \in Chans /\ TM \in Chans /\ MT # TM /\ Piping
    BY ZenonT(30), Channels DEF Inv, Shape
  <2> QED
    BY SMTT(30), <2>1, <1>2, <1>3, ReadReply
<1>5. DOMAIN rtr' = DOMAIN rtr /\ rtr'.nconf = None /\ rtr'.ver = main.ver
  BY <1>3 DEF Inv, Shape
<1>7. /\ pipe'[MR] = pipe[MR] /\ pipe'[RM] = pipe[RM] /\ pipe'[MS] = pipe[MS]
      /\ pipe'[SM] = pipe[SM] /\ pipe'[SR] = pipe[SR] /\ pipe'[RS] = pipe[RS]
  BY SMTT(30), <1>2, <1>4, Channels
<1>6. Shape' /\ Known' /\ Coming' /\ Configured' /\ Parent' /\ Dumps'
  BY ZenonT(30), <1>3, <1>4, <1>5, <1>7, QuietStep DEF Inv, Parent
<1>8. Finish'
  <2>1. ~RtrIdle /\ ~RtrIdle'
    BY ZenonT(30), <1>2, <1>4, Tuples DEF RtrIdle, RtrNew
  <2>2. RdeIdle <=> RdeIdle'
    BY Zenon, <1>3, <1>7 DEF RdeIdle, RdeNew
  <2>3. RtrNew' /\ pipe'[TM] = <<DONE>>
    BY <1>3, <1>4, <1>5 DEF RtrNew
  <2> QED
    BY Zenon, <1>2, <1>3, <1>7, <2>1, <2>2, <2>3
    DEF Finish, SeNew, RdeOld, RdeNew, RdeIdle, One, NoDrain
<1> QED
  BY <1>3, <1>6, <1>8 DEF Inv, Handshake

\* A process has answered.
LEMMA MainDrainKeeps ==
    ASSUME Inv, NEW x \in {"se", "rde", "rtr"}, MainDrain(x)
    PROVE  Inv'
<1>1. PICK c : c = <<x, "main">>
  BY ZenonT(30)
<1>2. c \in {SM, RM, TM} /\ c \in Chans /\ Piping
  BY <1>1, Channels DEF SM, RM, TM, Inv, Shape
<1>3. pipe[c] # <<>> /\ Head(pipe[c]).type = "DRAIN"
  BY SMTT(30), <1>1 DEF MainDrain, Received
<1>4. /\ Load /\ pipe[c] = <<DRAIN>>
      /\ \/ c = SM /\ pipe[MS] = <<>> /\ se.nconf = ConfOf(main)
         \/ c = RM /\ pipe[MR] = <<>> /\ rde.nconf = ConfOf(main)
         \/ c = TM /\ pipe[MT] = <<>> /\ rtr.nconf = ConfOf(main)
  BY SMTT(30), <1>2, <1>3, StageSM, StageRM, StageTM, Tuples, Types DEF Inv
<1>5. /\ c = SM => ~SeReady
      /\ c = RM => ~RdeReady
      /\ c = TM => ~RtrReady
  BY <1>4, Tuples DEF SeReady, RdeReady, RtrReady, Ready
<1>6. se' = se /\ rde' = rde /\ rtr' = rtr /\ fatal' = fatal
  BY DEF MainDrain
<1>7. ASSUME NEW n, main' = [main EXCEPT !.pending = n]
      PROVE  /\ DOMAIN main' = DOMAIN main /\ main'.pending = n /\ main'.ver = main.ver
             /\ main'.ribs = main.ribs /\ main'.peers = main.peers
             /\ main'.listeners = main.listeners /\ main'.deleted = main.deleted
             /\ main'.keyed = main.keyed /\ main'.reinit = main.reinit
             /\ ConfOf(main') = ConfOf(main)
  BY <1>7 DEF Inv, Shape, ConfOf
<1>8. CASE main.pending = 1
  <2>1. /\ c # SM => SeReady
        /\ c # RM => RdeReady
        /\ c # TM => RtrReady
    BY SMTT(30), <1>4, <1>5, <1>8, Channels DEF Load, One
  <2>2. pipe[MS] = <<>> /\ MS \in Chans /\ MS # c
    BY <1>2, <1>4, <2>1, Channels DEF SeReady, Ready
  <2>3. /\ main' = [main EXCEPT !.pending = 3]
        /\ pipe' = Piped(c, To(MS, <<DONE>>))
    BY <1>1, <1>8 DEF MainDrain, Answers, MS, DONE
  <2>4. /\ Piping' /\ pipe'[c] = <<>> /\ pipe'[MS] = <<DONE>>
        /\ \A e \in Chans \ {c, MS} : pipe'[e] = pipe[e]
    BY <1>2, <1>4, <2>2, <2>3, ReadReply
  <2>5. /\ DOMAIN main' = DOMAIN main /\ main'.pending = 3 /\ main'.ver = main.ver
        /\ main'.ribs = main.ribs /\ main'.peers = main.peers
        /\ main'.listeners = main.listeners /\ main'.deleted = main.deleted
        /\ main'.keyed = main.keyed /\ main'.reinit = main.reinit
        /\ ConfOf(main') = ConfOf(main)
    BY <2>3, <1>7
  <2>6. pipe'[SR] = pipe[SR] /\ pipe'[RS] = pipe[RS] /\ pipe'[MR] = pipe[MR]
        /\ pipe'[MT] = pipe[MT]
    BY Zenon, <2>4, <1>2, Channels
  <2>7. Shape' /\ Known' /\ Coming' /\ Configured' /\ Parent' /\ Dumps'
    BY Zenon, <1>6, <2>4, <2>5, <2>6, QuietStep DEF Inv, Parent
  <2>8. /\ pipe'[SM] = <<>> /\ pipe'[RM] = <<>> /\ pipe'[TM] = <<>>
        /\ pipe'[MR] = <<>> /\ pipe'[MT] = <<>>
    <3>1. (c # SM => pipe[SM] = <<>>) /\ (c # RM => pipe[RM] = <<>>) /\ (c # TM => pipe[TM] = <<>>)
      BY <2>1 DEF SeReady, RdeReady, RtrReady, Ready
    <3>2. (c # SM => pipe'[SM] = pipe[SM]) /\ (c # RM => pipe'[RM] = pipe[RM])
          /\ (c # TM => pipe'[TM] = pipe[TM])
      BY SMTT(30), <2>4, Channels
    <3>3. pipe[MR] = <<>> /\ pipe[MT] = <<>>
      BY SMTT(30), <1>4, <2>1, Channels DEF RdeReady, RtrReady, Ready
    <3> QED
      BY SMTT(30), <3>1, <3>2, <3>3, <2>4, <2>6
  <2>9. se.nconf = ConfOf(main) /\ rde.nconf = ConfOf(main) /\ rtr.nconf = ConfOf(main)
    BY Zenon, <1>4, <2>1, Channels DEF SeReady, RdeReady, RtrReady, Ready
  <2>10. Switch'
    <3>1. RdeOld' /\ RtrOld' /\ SeOld'
      BY ZenonT(30), <1>4, <1>6, <2>5, <2>6 DEF Load, RdeOld, RtrOld, SeOld
    <3>2. RdeReady' /\ RtrReady'
      BY SMTT(30), <1>6, <2>5, <2>8, <2>9 DEF RdeReady, RtrReady, Ready
    <3> QED
      BY Zenon, <3>1, <3>2, <1>6, <2>4, <2>5, <2>8, <2>9 DEF Switch
  <2> QED
    BY ZenonT(30), <2>7, <2>10, <1>6 DEF Inv, Handshake
<1>9. CASE main.pending # 1
  <2>1. main.pending # 0 /\ main.pending \in 1 .. 3
    BY <1>4 DEF Load, One
  <2>3. /\ main' = [main EXCEPT !.pending = main.pending - 1]
        /\ pipe' = Piped(c, NoMsg)
    BY <1>1, <1>9, <2>1 DEF MainDrain
  <2>4. /\ Piping' /\ pipe'[c] = <<>> /\ \A e \in Chans \ {c} : pipe'[e] = pipe[e]
    BY <1>2, <1>4, <2>3, ReadLast
  <2>5. /\ DOMAIN main' = DOMAIN main /\ main'.pending = main.pending - 1 /\ main'.ver = main.ver
        /\ main'.ribs = main.ribs /\ main'.peers = main.peers
        /\ main'.listeners = main.listeners /\ main'.deleted = main.deleted
        /\ main'.keyed = main.keyed /\ main'.reinit = main.reinit
        /\ ConfOf(main') = ConfOf(main)
    BY SMTT(30), <2>3, <1>7
  <2>6. pipe'[SR] = pipe[SR] /\ pipe'[RS] = pipe[RS] /\ pipe'[MR] = pipe[MR]
        /\ pipe'[MT] = pipe[MT] /\ pipe'[MS] = pipe[MS]
    BY SMTT(30), <2>4, <1>2, Channels
  <2>7. Shape' /\ Known' /\ Coming' /\ Configured' /\ Parent' /\ Dumps'
    BY SMTT(30), <1>6, <2>4, <2>5, <2>6, QuietStep DEF Inv, Parent
  <2>8. (c # SM => pipe'[SM] = pipe[SM]) /\ (c # RM => pipe'[RM] = pipe[RM])
        /\ (c # TM => pipe'[TM] = pipe[TM])
    BY Zenon, <2>4, Channels
  <2>9. (SeReady' <=> c = SM \/ SeReady) /\ (RdeReady' <=> c = RM \/ RdeReady)
        /\ (RtrReady' <=> c = TM \/ RtrReady)
    BY Zenon, <1>4, <1>6, <2>4, <2>5, <2>6, <2>8, Channels DEF SeReady, RdeReady, RtrReady, Ready
  <2>10. main'.pending = One(~SeReady') + One(~RdeReady') + One(~RtrReady')
    <3>1. main.pending = One(~SeReady) + One(~RdeReady) + One(~RtrReady)
      BY Zenon, <1>4 DEF Load
    <3>2. SM # RM /\ SM # TM /\ RM # TM
      BY ZenonT(30), Channels
    <3>3. main'.pending = main.pending - 1 /\ c \in {SM, RM, TM}
      BY Zenon, <1>2, <2>5
    <3>4. (c = SM => ~SeReady) /\ (c = RM => ~RdeReady) /\ (c = TM => ~RtrReady)
      BY Zenon, <1>5
    <3> QED
      BY ONLY SMTT(30), <2>9, <3>1, <3>2, <3>3, <3>4 DEF One
  <2>11. Load'
    <3>1. RdeOld' /\ RtrOld' /\ SeOld'
      BY ZenonT(30), <1>4, <1>6, <2>5, <2>6 DEF Load, RdeOld, RtrOld, SeOld
    <3>2. SeReady' \/ Loading(pipe[MS], pipe[SM], se.nconf)'
      BY ZenonT(30), <1>4, <1>6, <2>5, <2>6, <2>8, <2>9 DEF Load, Loading
    <3>3. RdeReady' \/ Loading(pipe[MR], pipe[RM], rde.nconf)'
      BY SMTT(30), <1>4, <1>6, <2>5, <2>6, <2>8, <2>9 DEF Load, Loading
    <3>4. RtrReady' \/ Loading(pipe[MT], pipe[TM], rtr.nconf)'
      BY SMTT(30), <1>4, <1>6, <2>5, <2>6, <2>8, <2>9 DEF Load, Loading
    <3>5. se'.nconf = None =>
            \A l \in main'.listeners : (l \in se'.listeners) # (l \in main'.reinit)
      BY Zenon, <1>4, <1>6, <2>5 DEF Load
    <3>6. main'.pending # 0
      BY ONLY <2>1, <2>5, <1>9
    <3> QED
      BY ONLY ZenonT(30), <3>1, <3>2, <3>3, <3>4, <3>5, <3>6, <2>10 DEF Load
  <2> QED
    BY Zenon, <2>7, <2>11, <1>6 DEF Inv, Handshake
<1> QED
  BY <1>8, <1>9

\* The session engine has switched: the other two are told to.
LEMMA MainDoneSeKeeps ==
    ASSUME Inv, MainDone("se"), NoneApart
    PROVE  Inv'
<1>1. pipe[SM] # <<>> /\ Head(pipe[SM]).type = "DONE"
  BY SMTT(30) DEF MainDone, Received, SM
<1>2. /\ Switch /\ SeNew /\ pipe[SM] = <<DONE>> /\ pipe[RS] = <<>>
      /\ NoDrain(pipe[SR]) /\ se.delete = {}
  BY Zenon, <1>1, StageSM, Tuples, Types DEF Inv
<1>3. /\ main' = [main EXCEPT !.pending = main.pending - 1, !.deleted = {},
                              !.keyed = main.keyed \ main.deleted]
      /\ pipe' = Piped(SM, [c \in {MT, MR} |-> <<DONE>>])
      /\ se' = se /\ rde' = rde /\ rtr' = rtr /\ fatal' = fatal
  BY <1>2 DEF MainDone, Switch, SM, MT, MR, DONE
<1>4. /\ DOMAIN main' = DOMAIN main /\ main'.pending = 2 /\ main'.ver = main.ver
      /\ main'.ribs = main.ribs /\ main'.peers = main.peers
      /\ main'.listeners = main.listeners /\ main'.deleted = {}
      /\ main'.keyed = main.keyed \ main.deleted /\ main'.reinit = main.reinit
  BY SMTT(30), <1>2, <1>3 DEF Inv, Shape, Switch
<1>5. ConfOf(main') = ConfOf(main)
  BY ZenonT(30), <1>4 DEF ConfOf
<1>6. /\ pipe[MR] = <<>> /\ pipe[MT] = <<>> /\ pipe[RM] = <<>> /\ pipe[TM] = <<>>
      /\ rde.nconf = ConfOf(main) /\ rtr.nconf = ConfOf(main)
  BY SMTT(30), <1>2 DEF Switch, RdeReady, RtrReady, Ready
<1>7. /\ Piping' /\ pipe'[SM] = <<>> /\ pipe'[MR] = <<DONE>> /\ pipe'[MT] = <<DONE>>
      /\ \A e \in Chans \ {SM, MR, MT} : pipe'[e] = pipe[e]
  <2>0. \A e \in Chans : IsSeq(pipe[e])
    BY DEF Inv, Shape, Piping
  <2>1. DOMAIN pipe' = Chans /\ \A e \in Chans :
          pipe'[e] = (IF e = SM THEN Tail(pipe[e]) ELSE pipe[e])
                     \o (IF e \in {MT, MR} THEN <<DONE>> ELSE <<>>)
    BY Zenon, <1>3 DEF Piped
  <2>2. pipe'[SM] = <<>> \o <<>>
    <3>1. pipe'[SM] = Tail(pipe[SM]) \o <<>>
      BY ZenonT(30), <2>1, Channels
    <3> QED
      BY <3>1, <1>2, Tuples
  <2>3. pipe'[MR] = <<>> \o <<DONE>> /\ pipe'[MT] = <<>> \o <<DONE>>
    BY <1>6, <2>1, Channels
  <2>4. \A e \in Chans \ {SM, MR, MT} : pipe'[e] = pipe[e] \o <<>>
    BY Zenon, <2>1
  <2>5. \A e \in Chans \ {SM, MR, MT} : pipe'[e] = pipe[e]
    BY <2>0, <2>4, SeqFacts
  <2>6. pipe'[SM] = <<>> /\ pipe'[MR] = <<DONE>> /\ pipe'[MT] = <<DONE>>
    BY Zenon, <2>2, <2>3, Tuples, SeqFacts, ConstIsSeq
  <2> QED
    BY SMTT(30), <2>0, <2>1, <2>5, <2>6, ConstIsSeq DEF Piping
<1>8. pipe'[SR] = pipe[SR] /\ pipe'[RS] = pipe[RS] /\ pipe'[MS] = pipe[MS]
      /\ pipe'[RM] = pipe[RM] /\ pipe'[TM] = pipe[TM]
  BY <1>7, Channels
<1>9. Shape' /\ Known' /\ Coming' /\ Configured' /\ Parent' /\ Dumps'
  <2>1. DOMAIN se.peers \subseteq DOMAIN main.peers \cup main'.deleted
    BY SMTT(30), <1>2 DEF SeNew
  <2>2. DOMAIN main.peers \cup main'.deleted \subseteq main'.keyed /\ main'.deleted \subseteq main.deleted
    BY <1>4 DEF Inv, Parent
  <2> QED
    BY SMTT(30), <2>1, <2>2, <1>3, <1>4, <1>7, <1>8, QuietStep
<1>10. Finish'
  <2>1. SeNew' /\ NoDrain(pipe[SR])'
    BY <1>2, <1>3, <1>4, <1>8 DEF SeNew, NoDrain
  <2>2. RdeOld' /\ RtrOld'
    BY SMTT(30), <1>2, <1>3, <1>4 DEF Switch, RdeOld, RtrOld
  <2>3. ~RdeIdle' /\ ~RtrIdle'
    BY <1>7, Tuples DEF RdeIdle, RtrIdle, RdeNew, RtrNew
  <2>4. main'.pending = One(~RdeIdle') + One(~RtrIdle')
    BY <1>4, <2>3 DEF One
  <2> QED
    BY SMTT(30), <2>1, <2>2, <2>4, <1>2, <1>3, <1>4, <1>5, <1>6, <1>7, <1>8 DEF Finish
<1> QED
  BY <1>3, <1>9, <1>10 DEF Inv, Handshake

\* Another process has switched.
LEMMA MainDoneKeeps ==
    ASSUME Inv, NEW x \in {"rde", "rtr"}, MainDone(x)
    PROVE  Inv'
<1>1. PICK c : c = <<x, "main">>
  BY Zenon
<1>2. c \in {RM, TM} /\ c \in Chans /\ Piping
  BY <1>1, Channels DEF RM, TM, Inv, Shape
<1>3. pipe[c] # <<>> /\ Head(pipe[c]).type = "DONE"
  BY SMTT(30), <1>1 DEF MainDone, Received
<1>4. /\ Finish /\ pipe[c] = <<DONE>>
      /\ \/ c = RM /\ RdeNew /\ rde.dumps = {}
         \/ c = TM /\ RtrNew
  BY SMTT(30), <1>2, <1>3, StageRM, StageTM, Tuples, Types DEF Inv
<1>5. /\ c = RM => ~RdeIdle
      /\ c = TM => ~RtrIdle
  BY <1>4, Tuples DEF RdeIdle, RtrIdle
<1>6. main.pending # 0 /\ main.pending \in 1 .. 2
  BY <1>2, <1>4, <1>5 DEF Finish, One
<1>7. /\ main' = [main EXCEPT !.pending = main.pending - 1]
      /\ pipe' = Piped(c, NoMsg)
      /\ se' = se /\ rde' = rde /\ rtr' = rtr /\ fatal' = fatal
  BY <1>1, <1>6 DEF MainDone
<1>8. /\ DOMAIN main' = DOMAIN main /\ main'.pending = main.pending - 1 /\ main'.ver = main.ver
      /\ main'.ribs = main.ribs /\ main'.peers = main.peers
      /\ main'.listeners = main.listeners /\ main'.deleted = main.deleted
      /\ main'.keyed = main.keyed /\ main'.reinit = main.reinit
  BY SMTT(30), <1>7 DEF Inv, Shape
<1>9. ConfOf(main') = ConfOf(main)
  BY <1>8 DEF ConfOf
<1>10. /\ Piping' /\ pipe'[c] = <<>> /\ \A e \in Chans \ {c} : pipe'[e] = pipe[e]
  BY ZenonT(30), <1>2, <1>4, <1>7, ReadLast
<1>11. pipe'[SR] = pipe[SR] /\ pipe'[RS] = pipe[RS] /\ pipe'[MR] = pipe[MR]
       /\ pipe'[MT] = pipe[MT] /\ pipe'[MS] = pipe[MS] /\ pipe'[SM] = pipe[SM]
       /\ (c # RM => pipe'[RM] = pipe[RM]) /\ (c # TM => pipe'[TM] = pipe[TM])
  BY <1>2, <1>10, Channels
<1>12. Shape' /\ Known' /\ Coming' /\ Configured' /\ Parent' /\ Dumps'
  BY <1>7, <1>8, <1>10, <1>11, QuietStep DEF Inv, Parent
<1>13. (RdeIdle' <=> c = RM \/ RdeIdle) /\ (RtrIdle' <=> c = TM \/ RtrIdle)
  BY ZenonT(30), <1>4, <1>7, <1>8, <1>10, <1>11, Channels DEF RdeIdle, RtrIdle, RdeNew, RtrNew
<1>14. main'.pending = One(~RdeIdle') + One(~RtrIdle')
  BY SMTT(30), <1>2, <1>4, <1>5, <1>8, <1>13, Channels DEF Finish, One
<1>15. Finish'
  <2>1. SeNew' /\ NoDrain(pipe[SR])'
    BY <1>4, <1>7, <1>8, <1>11 DEF Finish, SeNew, NoDrain
  <2>2. \/ RdeOld' /\ pipe'[MR] = <<DONE>> /\ pipe'[RM] = <<>> /\ rde'.nconf = ConfOf(main')
        \/ RdeNew' /\ rde'.dumps # {} /\ pipe'[RM] = <<>>
        \/ RdeNew' /\ rde'.dumps = {} /\ pipe'[RM] = <<DONE>>
        \/ RdeIdle'
    BY SMTT(30), <1>4, <1>7, <1>8, <1>9, <1>11, <1>13 DEF Finish, RdeOld, RdeNew
  <2>3. \/ RtrOld' /\ pipe'[MT] = <<DONE>> /\ pipe'[TM] = <<>> /\ rtr'.nconf = ConfOf(main')
        \/ RtrNew' /\ pipe'[TM] = <<DONE>>
        \/ RtrIdle'
    BY SMTT(30), <1>4, <1>7, <1>8, <1>9, <1>11, <1>13 DEF Finish, RtrOld, RtrNew
  <2> QED
    BY SMTT(30), <2>1, <2>2, <2>3, <1>14, <1>4, <1>7, <1>8, <1>11 DEF Finish
<1> QED
  BY <1>7, <1>12, <1>15 DEF Inv, Handshake

LEMMA RdeDrainMainKeeps ==
    ASSUME Inv, RdeDrain("main")
    PROVE  Inv'
<1>1. pipe[MR] # <<>> /\ Head(pipe[MR]).type = "DRAIN"
  BY DEF RdeDrain, Received, MR
<1>2. Load /\ pipe[MR] = <<DRAIN>> /\ pipe[RM] = <<>> /\ rde.nconf = ConfOf(main)
  BY SMTT(30), <1>1, StageMR, Tuples, Types DEF Inv
<1>3. /\ pipe' = Piped(MR, To(RM, <<DRAIN>>))
      /\ main' = main /\ rde' = rde /\ rtr' = rtr /\ se' = se /\ fatal' = fatal
  BY ZenonT(30), <1>2, Tuples DEF RdeDrain, MR, RM, DRAIN
<1>4. /\ Piping' /\ pipe'[MR] = <<>> /\ pipe'[RM] = <<DRAIN>>
      /\ \A d \in Chans \ {MR, RM} : pipe'[d] = pipe[d]
  <2>1. MR \in Chans /\ RM \in Chans /\ MR # RM /\ Piping
    BY SMTT(30), Channels DEF Inv, Shape
  <2> QED
    BY SMTT(30), <2>1, <1>2, <1>3, ReadReply
<1>7. /\ pipe'[MT] = pipe[MT] /\ pipe'[TM] = pipe[TM] /\ pipe'[MS] = pipe[MS]
      /\ pipe'[SM] = pipe[SM] /\ pipe'[SR] = pipe[SR] /\ pipe'[RS] = pipe[RS]
  BY Zenon, <1>2, <1>4, Channels
<1>6. Shape' /\ Known' /\ Coming' /\ Configured' /\ Parent' /\ Dumps'
  BY Zenon, <1>3, <1>4, <1>7, QuietStep DEF Inv, Parent
<1>8. Load'
  <2>1. ~RdeReady /\ ~RdeReady'
    BY ZenonT(30), <1>2, <1>4, Tuples DEF RdeReady, Ready
  <2>2. Loading(pipe[MR], pipe[RM], rde.nconf)'
    BY ZenonT(30), <1>2, <1>3, <1>4, <1>7 DEF Loading
  <2>3. (RtrReady <=> RtrReady') /\ (SeReady <=> SeReady')
    BY <1>3, <1>7 DEF RtrReady, SeReady, Ready
  <2> QED
    BY ZenonT(30), <1>2, <1>3, <1>7, <2>1, <2>2, <2>3
    DEF Load, SeOld, RdeOld, RtrOld, Loading, One
<1> QED
  BY <1>3, <1>6, <1>8 DEF Inv, Handshake

-----------------------------------------------------------------------------
(***************************************************************************)
(* The steps of the session engine that tell the decision engine of its    *)
(* neighbors.                                                              *)
(***************************************************************************)

LEMMA RdeBehind ==
    ASSUME Inv
    PROVE  /\ main.ver \in Nat /\ se.ver \in Nat /\ rde.ver \in Nat /\ rde.ver <= se.ver
           /\ se.ver <= main.ver
<1>1. main.ver \in Nat /\ main.ver >= 1
  BY SMTT(30), ReconfAssumption DEF Inv, Parent
<1>2. CASE Load
  BY SMTT(30), <1>1, <1>2 DEF Load, SeOld, RdeOld
<1>3. CASE Switch
  BY SMTT(30), <1>1, <1>3 DEF Switch, SeOld, SeNew, RdeOld
<1>4. CASE Finish
  BY SMTT(30), <1>1, <1>4 DEF Finish, SeNew, RdeOld, RdeNew, RdeIdle
<1> QED
  BY SMTT(30), <1>2, <1>3, <1>4 DEF Inv, Handshake

LEMMA ToldKeeps ==
    ASSUME Inv, UNCHANGED <<main, rde, rtr, fatal>>, NoneApart,
           NEW s, IsSeq(s), pipe' = Piped(None, To(SR, s)),
           DOMAIN se' = DOMAIN se, se'.ver = se.ver, se'.nconf = se.nconf,
           se'.listeners = se.listeners,
           se'.delete \subseteq se.delete, DOMAIN se'.peers \subseteq DOMAIN se.peers,
           DOMAIN se'.peers \ se'.delete = DOMAIN se.peers \ se.delete, Configured',
           \A p \in se.delete \ se'.delete :
              p \notin DOMAIN se'.peers /\ \E j \in DOMAIN s : s[j] = DELETE(p),
           \A p \in se.rdesession \ se'.rdesession : \E j \in DOMAIN s : s[j] = DELETE(p),
           \A j \in DOMAIN s : s[j] \in QMsgs /\ s[j] # DRAIN,
           \A j \in DOMAIN s : IsAdd(s[j]) =>
              /\ ConfRight(s[j].peer, s[j].conf, main, rde.ribs)
              /\ s[j].conf.ver = se.ver /\ s[j].peer \in se'.rdesession
    PROVE  Inv'
<1>0. main' = main /\ rde' = rde /\ rtr' = rtr /\ fatal' = fatal
  BY Zenon
<1>1. Piping' /\ pipe'[SR] = pipe[SR] \o s /\ \A e \in Chans \ {SR} : pipe'[e] = pipe[e]
  BY ZenonT(30), OnlySend, Channels DEF Inv, Shape, NoneApart
<1>2. PICK q, r : q = pipe[SR] /\ r = pipe'[SR]
  BY ZenonT(30)
<1>3. IsSeq(q)
  BY ZenonT(30), <1>2, Channels DEF Inv, Shape, Piping
<1>4. Sent(q, s, r)
  BY ZenonT(30), <1>1, <1>2, <1>3, AfterSend
<1>5. Known' /\ Coming'
  <2>1. Shape /\ Known /\ Coming /\ Configured
    BY ZenonT(30) DEF Inv
  <2>2. \A j \in DOMAIN s : IsAdd(s[j]) =>
              /\ ConfRight(s[j].peer, s[j].conf, main, rde.ribs)
              /\ s[j].conf.ver = se.ver /\ s[j].conf.ver >= rde.ver
              /\ s[j].peer \in se'.rdesession
    BY ZenonT(30), RdeBehind
  <2> QED
    BY ZenonT(30), <2>1, <2>2, <1>1, NeighborsTold
<1>6. Shape'
  <2>1. \A i \in DOMAIN q : q[i] \in QMsgs
    BY ZenonT(30), <1>2 DEF Inv, Shape
  <2>2. \A i \in DOMAIN r : r[i] \in QMsgs
    BY ZenonT(30), <2>1, <1>4 DEF Sent
  <2> QED
    BY ZenonT(30), <2>2, <1>0, <1>1, <1>2 DEF Inv, Shape
<1>7. Parent' /\ Dumps'
  BY ZenonT(30), <1>0 DEF Inv, Parent, Dumps, IsConfig
<1>8. Handshake'
  <2>1. /\ pipe'[MS] = pipe[MS] /\ pipe'[MR] = pipe[MR] /\ pipe'[MT] = pipe[MT]
        /\ pipe'[SM] = pipe[SM] /\ pipe'[RM] = pipe[RM] /\ pipe'[TM] = pipe[TM]
        /\ pipe'[RS] = pipe[RS]
    BY ZenonT(30), <1>1, Channels
  <2>2. /\ (RdeOld' <=> RdeOld) /\ (RdeNew' <=> RdeNew) /\ (RtrOld' <=> RtrOld)
        /\ (RtrNew' <=> RtrNew) /\ (SeReady' <=> SeReady) /\ (RdeReady' <=> RdeReady)
        /\ (RtrReady' <=> RtrReady) /\ (RdeIdle' <=> RdeIdle) /\ (RtrIdle' <=> RtrIdle)
    BY ZenonT(30), <1>0, <2>1 DEF RdeOld, RdeNew, RtrOld, RtrNew, SeReady, RdeReady, RtrReady, RdeIdle,
                      RtrIdle, Ready
  <2>0. \A j \in DOMAIN s : s[j] # DRAIN
    BY Zenon
  <2>3. NoDrain(q) => NoDrain(r)
    BY ONLY Zenon, <1>4, <2>0 DEF Sent, NoDrain
  <2>4. SeNew => SeNew'
    BY Zenon, <1>0, <2>1 DEF SeNew
  <2>5. SeOld => SeOld'
    BY ZenonT(30), <1>0, <1>2, <2>1, <2>3 DEF SeOld
  <2>11. se'.delete \subseteq se.delete
    BY Zenon
  <2>6. se.delete = {} => se'.delete = {}
    BY ONLY <2>11
  <2>7. (\E k \in DOMAIN q : q[k] = DRAIN /\ \A i \in DOMAIN q \ {k} : q[i] # DRAIN)
        => \E k \in DOMAIN r : r[k] = DRAIN /\ \A i \in DOMAIN r \ {k} : r[i] # DRAIN
    <3> SUFFICES ASSUME NEW k \in DOMAIN q, q[k] = DRAIN, \A i \in DOMAIN q \ {k} : q[i] # DRAIN
                 PROVE  \E l \in DOMAIN r : r[l] = DRAIN /\ \A i \in DOMAIN r \ {l} : r[i] # DRAIN
      BY ZenonT(30)
    <3>1. k \in DOMAIN r /\ r[k] = DRAIN
      BY ZenonT(30), <1>4 DEF Sent
    <3>2. \A i \in DOMAIN q \ {k} : q[i] # DRAIN
      BY Zenon
    <3>3. \A i \in DOMAIN r \ {k} : r[i] # DRAIN
      BY ONLY Zenon, <1>4, <2>0, <3>2 DEF Sent
    <3> QED
      BY Zenon, <3>1, <3>3
  <2>8. CASE Load
    <3>1. Load'
      BY ZenonT(30), <2>8, <1>0, <2>1, <2>2, <2>5 DEF Load, Loading
    <3> QED
      BY Zenon, <3>1 DEF Handshake
  <2>9. CASE Switch
    <3>1. Switch'
      <4>1. RdeOld' /\ RtrOld' /\ RdeReady' /\ RtrReady' /\ main'.pending = 3
        BY ONLY Zenon, <2>9, <1>0, <2>2 DEF Switch
      <4>2. CASE SeOld /\ pipe[MS] = <<DONE>> /\ pipe[SM] = <<>> /\ se.nconf = ConfOf(main)
        <5>1. se'.nconf = se.nconf
          BY Zenon
        <5> QED BY ONLY Zenon, <4>1, <4>2, <5>1, <1>0, <2>1, <2>5 DEF Switch
      <4>3. CASE /\ SeNew /\ pipe[SM] = <<>> /\ pipe[RS] = <<>>
                 /\ \E k \in DOMAIN q : q[k] = DRAIN /\ \A i \in DOMAIN q \ {k} : q[i] # DRAIN
        BY ONLY Zenon, <4>1, <4>3, <1>2, <2>1, <2>4, <2>7 DEF Switch
      <4>4. CASE SeNew /\ pipe[SM] = <<>> /\ pipe[RS] = <<DRAIN>> /\ NoDrain(q)
        BY ONLY Zenon, <4>1, <4>4, <1>2, <2>1, <2>3, <2>4 DEF Switch
      <4>5. CASE /\ SeNew /\ pipe[SM] = <<DONE>> /\ pipe[RS] = <<>> /\ NoDrain(q)
                 /\ se.delete = {}
        BY ONLY Zenon, <4>1, <4>5, <1>2, <2>1, <2>3, <2>4, <2>6 DEF Switch
      <4> QED BY ONLY Zenon, <2>9, <1>2, <4>2, <4>3, <4>4, <4>5 DEF Switch
    <3> QED
      BY ONLY Zenon, <3>1 DEF Handshake
  <2>10. CASE Finish
    <3>1. Finish'
      BY Zenon, <2>10, <1>0, <1>2, <2>1, <2>2, <2>3, <2>4, <2>6 DEF Finish
    <3> QED
      BY ONLY Zenon, <3>1 DEF Handshake
  <2> QED
    BY ONLY Zenon, Inv, <2>8, <2>9, <2>10 DEF Inv, Handshake
<1>9. Configured'
  BY Zenon
<1> QED
  BY ONLY Zenon, <1>0, <1>5, <1>6, <1>7, <1>8, <1>9, Inv DEF Inv

LEMMA SeqEqual ==
    ASSUME NEW S, NEW s \in Seq(S), NEW t \in Seq(S), Len(s) = Len(t),
           \A i \in 1 .. Len(s) : s[i] = t[i]
    PROVE  s = t
OBVIOUS

LEMMA OneMsg ==
    ASSUME NEW x
    PROVE  IsSeq(<<x>>) /\ DOMAIN <<x>> = {1} /\ <<x>>[1] = x /\ <<>> \o <<x>> = <<x>>
<1>1. DOMAIN <<x>> = 1 .. 1
  OBVIOUS
<1> QED
  BY <1>1, ConstIsSeq, Tuples

LEMMA TwoMsgs ==
    ASSUME NEW x, NEW y
    PROVE  /\ IsSeq(<<x, y>>) /\ DOMAIN <<x, y>> = {1, 2}
           /\ <<x, y>>[1] = x /\ <<x, y>>[2] = y /\ <<x>> \o <<y>> = <<x, y>>
<1>1. DOMAIN <<x, y>> = 1 .. 2
  OBVIOUS
<1>2. 1 .. 2 = {1, 2}
  OBVIOUS
<1>3. <<x>> \o <<y>> = <<x, y>>
  <2>1. PICK s : s = <<x>> \o <<y>>
    BY Zenon
  <2>2. <<x>> \in Seq({x, y}) /\ <<y>> \in Seq({x, y}) /\ Len(<<x>>) = 1 /\ Len(<<y>>) = 1
        /\ <<x>>[1] = x /\ <<y>>[1] = y
    OBVIOUS
  <2>3. s \in Seq({x, y}) /\ Len(s) = 2 /\ s[1] = x /\ s[2] = y
    BY <2>1, <2>2
  <2>4. <<x, y>> \in Seq({x, y}) /\ Len(<<x, y>>) = 2
    OBVIOUS
  <2>5. \A i \in 1 .. 2 : s[i] = <<x, y>>[i]
    BY <2>3, <1>2
  <2> QED
    BY Zenon, <2>1, <2>3, <2>4, <2>5, SeqEqual
<1> QED
  BY <1>1, <1>2, <1>3, ConstIsSeq

LEMMA SessionUpKeeps ==
    ASSUME Inv, NEW p \in Peers, SessionUp(p), NoneApart
    PROVE  Inv'
<1>1. /\ p \in DOMAIN se.peers /\ p \notin se.delete
      /\ se' = [se EXCEPT !.up = se.up \cup {p}, !.rdesession = se.rdesession \cup {p}]
      /\ UNCHANGED <<main, rde, rtr, fatal>>
  BY DEF SessionUp
<1>2. /\ DOMAIN se' = DOMAIN se /\ se'.ver = se.ver /\ se'.nconf = se.nconf
      /\ se'.listeners = se.listeners /\ se'.delete = se.delete /\ se'.peers = se.peers
      /\ se'.up = se.up \cup {p} /\ se'.rdesession = se.rdesession \cup {p}
  BY <1>1 DEF Inv, Shape
<1>3. Configured'
  BY <1>1, <1>2 DEF Inv, Configured
<1>4. ConfRight(p, se.peers[p], main, rde.ribs) /\ se.peers[p].ver = se.ver
  BY <1>1 DEF Inv, Configured
<1>5. se.peers[p] \in PeerConfs
  BY <1>4 DEF ConfRight
<1>6. PICK u : u = peermsg("UP", p)
  OBVIOUS
<1>7. u \in QMsgs /\ ~IsAdd(u) /\ u # DRAIN
  BY <1>6, SentKinds
<1>8. PICK a : a = add(p, se.peers[p])
  BY SMTT(30)
<1>9. a \in QMsgs /\ a # DRAIN /\ a.peer = p /\ a.conf = se.peers[p]
  BY <1>5, <1>8, SentKinds
<1>10. CASE p \in se.rdesession
  <2>1. pipe' = Piped(None, To(SR, <<u>>))
    BY <1>6, <1>10, OneMsg DEF SessionUp, SR
  <2>2. PICK s : s = <<u>>
    BY Zenon
  <2>3. IsSeq(s) /\ DOMAIN s = {1} /\ s[1] = u
    BY <2>2, OneMsg
  <2> QED
    BY SMTT(30), <1>1, <1>2, <1>3, <1>7, <2>1, <2>2, <2>3, ToldKeeps
<1>11. CASE p \notin se.rdesession
  <2>1. pipe' = Piped(None, To(SR, <<a, u>>))
    BY Zenon, <1>6, <1>8, <1>11, TwoMsgs DEF SessionUp, SR
  <2>2. PICK s : s = <<a, u>>
    BY Zenon
  <2>3. IsSeq(s) /\ DOMAIN s = {1, 2} /\ s[1] = a /\ s[2] = u
    BY ZenonT(30), <2>2, TwoMsgs
  <2>4. \A j \in DOMAIN s : IsAdd(s[j]) =>
              /\ ConfRight(s[j].peer, s[j].conf, main, rde.ribs)
              /\ s[j].conf.ver = se.ver /\ s[j].peer \in se'.rdesession
    BY ZenonT(30), <1>2, <1>4, <1>7, <1>9, <2>3
  <2>5. \A j \in DOMAIN s : s[j] \in QMsgs /\ s[j] # DRAIN
    BY <1>7, <1>9, <2>3
  <2> QED
    BY SMTT(30), <1>1, <1>2, <1>3, <2>1, <2>2, <2>3, <2>4, <2>5, ToldKeeps
<1> QED
  BY <1>10, <1>11

LEMMA SessionDownKeeps ==
    ASSUME Inv, NEW p \in Peers, SessionDown(p), NoneApart
    PROVE  Inv'
<1>1. /\ se' = [se EXCEPT !.up = se.up \ {p}] /\ UNCHANGED <<main, rde, rtr, fatal>>
  BY DEF SessionDown
<1>2. /\ DOMAIN se' = DOMAIN se /\ se'.ver = se.ver /\ se'.nconf = se.nconf
      /\ se'.listeners = se.listeners /\ se'.delete = se.delete /\ se'.peers = se.peers
      /\ se'.up = se.up \ {p} /\ se'.rdesession = se.rdesession
  BY <1>1 DEF Inv, Shape
<1>3. Configured'
  BY <1>1, <1>2 DEF Inv, Configured
<1>4. PICK u : u = peermsg("DOWN", p)
  OBVIOUS
<1>5. u \in QMsgs /\ ~IsAdd(u) /\ u # DRAIN
  BY <1>4, SentKinds
<1>6. pipe' = Piped(None, To(SR, <<u>>))
  BY SMTT(30), <1>4 DEF SessionDown, SR
<1>7. PICK s : s = <<u>>
  BY Zenon
<1>8. IsSeq(s) /\ DOMAIN s = {1} /\ s[1] = u
  BY <1>7, OneMsg
<1> QED
  BY SMTT(30), <1>1, <1>2, <1>3, <1>5, <1>6, <1>7, <1>8, ToldKeeps

LEMMA SessionGoneKeeps ==
    ASSUME Inv, NEW p \in Peers, SessionGone(p), NoneApart
    PROVE  Inv'
<1>1. /\ se' = [se EXCEPT !.rdesession = se.rdesession \ {p}] /\ UNCHANGED <<main, rde, rtr, fatal>>
      /\ p \notin se.up
  BY DEF SessionGone
<1>2. /\ DOMAIN se' = DOMAIN se /\ se'.ver = se.ver /\ se'.nconf = se.nconf
      /\ se'.listeners = se.listeners /\ se'.delete = se.delete /\ se'.peers = se.peers
      /\ se'.up = se.up /\ se'.rdesession = se.rdesession \ {p}
  BY <1>1 DEF Inv, Shape
<1>3. Configured'
  BY <1>1, <1>2 DEF Inv, Configured
<1>4. PICK u : u = DELETE(p)
  OBVIOUS
<1>5. u \in QMsgs /\ ~IsAdd(u) /\ u # DRAIN
  BY <1>4, SentKinds DEF DELETE
<1>6. pipe' = Piped(None, To(SR, <<u>>))
  BY SMTT(30), <1>4 DEF SessionGone, SR, DELETE
<1>7. PICK s : s = <<u>>
  BY Zenon
<1>8. IsSeq(s) /\ DOMAIN s = {1} /\ s[1] = u
  BY <1>7, OneMsg
<1>9. \A x \in se.rdesession \ se'.rdesession : \E j \in DOMAIN s : s[j] = DELETE(x)
  BY <1>2, <1>4, <1>8
<1> QED
  BY SMTT(30), <1>1, <1>2, <1>3, <1>5, <1>6, <1>7, <1>8, <1>9, ToldKeeps

LEMMA SeDeleteKeeps ==
    ASSUME Inv, NEW p \in Peers, SeDelete(p), NoneApart
    PROVE  Inv'
<1>1. /\ se' = [se EXCEPT !.peers = [q \in DOMAIN se.peers \ {p} |-> se.peers[q]],
                          !.delete = se.delete \ {p}, !.up = se.up \ {p},
                          !.rdesession = se.rdesession \ {p}]
      /\ UNCHANGED <<main, rde, rtr, fatal>> /\ p \in se.delete
  BY DEF SeDelete
<1>2. /\ DOMAIN se' = DOMAIN se /\ se'.ver = se.ver /\ se'.nconf = se.nconf
      /\ se'.listeners = se.listeners /\ se'.delete = se.delete \ {p}
      /\ se'.peers = [q \in DOMAIN se.peers \ {p} |-> se.peers[q]]
      /\ se'.up = se.up \ {p} /\ se'.rdesession = se.rdesession \ {p}
  BY <1>1 DEF Inv, Shape
<1>0. /\ DOMAIN se'.peers = DOMAIN se.peers \ {p}
      /\ \A x \in DOMAIN se'.peers : se'.peers[x] = se.peers[x]
  BY Zenon, <1>2
<1>3. Configured'
  <2>1. \A x \in DOMAIN se'.peers : /\ ConfRight(x, se'.peers[x], main, rde.ribs)
                                    /\ x \in se'.delete \/ se'.peers[x].ver = se'.ver
    BY Zenon, <1>0, <1>2 DEF Inv, Configured
  <2>2. main' = main /\ rde' = rde
    BY SMTT(30), <1>1
  <2> QED
    BY Zenon, <1>0, <1>2, <2>1, <2>2 DEF Inv, Configured
<1>4. PICK u : u = DELETE(p)
  OBVIOUS
<1>5. u \in QMsgs /\ ~IsAdd(u) /\ u # DRAIN
  BY <1>4, SentKinds DEF DELETE
<1>6. PICK a : a = peermsg("DOWN", p)
  OBVIOUS
<1>7. a \in QMsgs /\ ~IsAdd(a) /\ a # DRAIN
  BY <1>6, SentKinds
<1>8. PICK s : s = (IF p \in se.up THEN <<a>> ELSE <<>>) \o <<u>>
  BY Zenon
<1>9. pipe' = Piped(None, To(SR, s))
  BY SMTT(30), <1>4, <1>6, <1>8 DEF SeDelete, SR, DELETE
<1>10. /\ IsSeq(s) /\ \A j \in DOMAIN s : s[j] \in {a, u}
       /\ \E j \in DOMAIN s : s[j] = DELETE(p)
  <2>1. CASE p \in se.up
    <3>1. s = <<a, u>>
      BY <2>1, <1>8, TwoMsgs
    <3>2. IsSeq(s) /\ DOMAIN s = {1, 2} /\ s[1] = a /\ s[2] = u
      BY Zenon, <3>1, TwoMsgs
    <3> QED
      BY <3>2, <1>4
  <2>2. CASE p \notin se.up
    <3>1. s = <<u>>
      BY <2>2, <1>8, OneMsg
    <3>2. IsSeq(s) /\ DOMAIN s = {1} /\ s[1] = u
      BY <3>1, OneMsg
    <3> QED
      BY <3>2, <1>4
  <2> QED
    BY <2>1, <2>2
<1>11. /\ \A x \in se.delete \ se'.delete :
             x \notin DOMAIN se'.peers /\ \E j \in DOMAIN s : s[j] = DELETE(x)
       /\ \A x \in se.rdesession \ se'.rdesession : \E j \in DOMAIN s : s[j] = DELETE(x)
       /\ \A j \in DOMAIN s : s[j] \in QMsgs /\ s[j] # DRAIN /\ ~IsAdd(s[j])
       /\ DOMAIN se'.peers \ se'.delete = DOMAIN se.peers \ se.delete
  BY ZenonT(30), <1>0, <1>1, <1>2, <1>5, <1>7, <1>10
<1> QED
  BY SMTT(30), <1>0, <1>1, <1>2, <1>3, <1>9, <1>10, <1>11, ToldKeeps

-----------------------------------------------------------------------------
(***************************************************************************)
(* The parent starts a reload.                                             *)
(***************************************************************************)

\* With no answer outstanding the reload is over.
LEMMA PendingZero ==
    ASSUME Handshake, main.pending = 0
    PROVE  Finish /\ RdeIdle /\ RtrIdle
BY DEF Handshake, Load, Switch, Finish, One

LEMMA SentConfigIs ==
    ASSUME NEW m
    PROVE  /\ DOMAIN SentConfig(m) = {MS, MR, MT}
           /\ \A c \in {MS, MR, MT} : SentConfig(m)[c] = <<ConfOf(m), DRAIN>>
BY DEF SentConfig, MS, MR, MT, ConfOf, DRAIN

LEMMA Merged ==
    ASSUME Shape, Parent, main.deleted = {}, NEW c \in Configs, NEW m, m = merge_config(main, c)
    PROVE  /\ DOMAIN m = DOMAIN main /\ m.ver = main.ver /\ m.keyed = main.keyed
           /\ m.pending = main.pending
           /\ m.listeners = c.listeners /\ m.ribs = c.ribs /\ m.peers = c.peers
           /\ m.reinit = (c.listeners \ main.listeners) \cup (DOMAIN c.peers \ DOMAIN main.peers)
           /\ m.deleted = DOMAIN main.peers \ DOMAIN c.peers
<1>1. PICK old : old = DOMAIN main.peers \cup main.deleted
  OBVIOUS
<1>2. m = [main EXCEPT !.listeners = c.listeners, !.ribs = c.ribs, !.peers = c.peers,
              !.reinit = (c.listeners \ main.listeners) \cup (DOMAIN c.peers \ old),
              !.deleted = old \ DOMAIN c.peers]
  BY <1>1 DEF merge_config
<1>3. old = DOMAIN main.peers
  BY <1>1
<1> QED
  BY SMTT(30), <1>2, <1>3 DEF Shape

LEMMA SendConfigKeeps ==
    ASSUME Inv, NoneApart, MayReload, UNCHANGED <<se, rde, rtr, fatal>>,
           NEW c \in Configs, NEW m, m = merge_config(main, c),
           send_config([m EXCEPT !.ver = main.ver + 1])
    PROVE  Inv'
<1>0. se' = se /\ rde' = rde /\ rtr' = rtr /\ fatal' = fatal
  OBVIOUS
<1>1. Finish /\ RdeIdle /\ RtrIdle /\ main.ver <= MaxReloads
  BY PendingZero DEF Inv, MayReload
<1>2. /\ DOMAIN m = DOMAIN main /\ m.ver = main.ver /\ m.keyed = main.keyed
      /\ m.listeners = c.listeners /\ m.ribs = c.ribs /\ m.peers = c.peers
      /\ m.reinit = (c.listeners \ main.listeners) \cup (DOMAIN c.peers \ DOMAIN main.peers)
      /\ m.deleted = DOMAIN main.peers \ DOMAIN c.peers
  <2>1. Shape /\ Parent /\ main.deleted = {}
    BY <1>1 DEF Inv, Finish
  <2> QED
    BY <2>1, Merged
<1>3. PICK w : w = [m EXCEPT !.ver = main.ver + 1]
  OBVIOUS
<1>4. /\ DOMAIN w = DOMAIN main /\ w.ver = main.ver + 1 /\ w.keyed = main.keyed
      /\ w.listeners = c.listeners /\ w.ribs = c.ribs /\ w.peers = c.peers
      /\ w.reinit = m.reinit /\ w.deleted = m.deleted
  BY <1>2, <1>3 DEF Inv, Shape
<1>5. /\ main' = [w EXCEPT !.pending = 3, !.keyed = w.keyed \cup (DOMAIN w.peers \cap w.reinit)]
      /\ pipe' = Piped(None, SentConfig(w))
  BY <1>3 DEF send_config
<1>6. /\ DOMAIN main' = DOMAIN main /\ main'.ver = main.ver + 1 /\ main'.pending = 3
      /\ main'.listeners = c.listeners /\ main'.ribs = c.ribs /\ main'.peers = c.peers
      /\ main'.reinit = (c.listeners \ main.listeners) \cup (DOMAIN c.peers \ DOMAIN main.peers)
      /\ main'.deleted = DOMAIN main.peers \ DOMAIN c.peers
      /\ main'.keyed = main.keyed \cup (DOMAIN c.peers \cap main'.reinit)
  BY <1>2, <1>4, <1>5 DEF Inv, Shape
<1>7. ConfOf(w) = ConfOf(main')
  BY Zenon, <1>4, <1>5, <1>6, <1>2 DEF ConfOf
<1>8. DOMAIN main.peers \subseteq Peers /\ DOMAIN c.peers \subseteq Peers /\ c.listeners \cap Peers = {}
  BY ReconfAssumption DEF Inv, Parent, IsConfig
<1>9. /\ pipe[MS] = <<>> /\ pipe[MR] = <<>> /\ pipe[MT] = <<>>
      /\ pipe[SM] = <<>> /\ pipe[RM] = <<>> /\ pipe[TM] = <<>> /\ pipe[RS] = <<>>
      /\ se.nconf = None /\ rde.nconf = None /\ rtr.nconf = None
  BY <1>1 DEF Finish, SeNew, RdeIdle, RtrIdle, RdeNew, RtrNew
<1>10. /\ Piping'
       /\ \A e \in {MS, MR, MT} : pipe'[e] = <<ConfOf(main'), DRAIN>>
       /\ \A e \in Chans \ {MS, MR, MT} : pipe'[e] = pipe[e]
  <2>1. \A e \in Chans : IsSeq(pipe[e])
    BY DEF Inv, Shape, Piping
  <2>2. PICK t : t = SentConfig(w)
    OBVIOUS
  <2>3. DOMAIN t = {MS, MR, MT} /\ \A e \in {MS, MR, MT} : t[e] = <<ConfOf(main'), DRAIN>>
    BY <2>2, <1>7, SentConfigIs
  <2>4. DOMAIN pipe' = Chans /\ \A e \in Chans :
          pipe'[e] = pipe[e] \o (IF e \in DOMAIN t THEN t[e] ELSE <<>>)
    BY Zenon, <1>5, <2>2 DEF Piped, NoneApart
  <2>5. \A e \in Chans \ {MS, MR, MT} : pipe'[e] = pipe[e] \o <<>>
    BY Zenon, <2>3, <2>4
  <2>6. \A e \in Chans \ {MS, MR, MT} : pipe'[e] = pipe[e]
    BY <2>1, <2>5, SeqFacts
  <2>7. \A e \in {MS, MR, MT} : pipe'[e] = <<>> \o <<ConfOf(main'), DRAIN>>
    BY Zenon, <2>3, <2>4, <1>9, Channels
  <2>8. \A e \in {MS, MR, MT} : pipe'[e] = <<ConfOf(main'), DRAIN>>
    BY <2>7, Tuples
  <2>9. \A e \in {MS, MR, MT} : IsSeq(pipe'[e])
    BY Zenon, <2>8, ConstIsSeq
  <2> QED
    BY <2>1, <2>4, <2>6, <2>8, <2>9 DEF Piping
<1>11. /\ pipe'[SR] = pipe[SR] /\ pipe'[RS] = <<>> /\ pipe'[SM] = <<>>
       /\ pipe'[RM] = <<>> /\ pipe'[TM] = <<>>
  BY <1>9, <1>10, Channels
<1>12. Shape'
  BY <1>0, <1>6, <1>10, <1>11 DEF Inv, Shape
<1>13. Known' /\ Coming' /\ Configured'
  <2>1. Known /\ Coming /\ Configured /\ main.ver \in Nat
    BY RdeBehind DEF Inv
  <2> QED
    BY SMTT(30), <2>1, <1>0, <1>6, <1>11, NeighborsKept
<1>14. Parent'
  <2>1. \E d \in Configs : IsConfig(main', d)
    BY <1>6 DEF IsConfig
  <2>2. main'.ver \in 1 .. MaxReloads + 1
    BY <1>1, <1>6, RdeBehind, ReconfAssumption
  <2>3. main'.deleted \subseteq Peers /\ DOMAIN main'.peers \cap main'.deleted = {}
    BY <1>6, <1>8
  <2>4. DOMAIN main'.peers \cup main'.deleted \subseteq main'.keyed
    BY <1>6 DEF Inv, Parent
  <2>5. DOMAIN se.peers \subseteq DOMAIN main'.peers \cup main'.deleted
    BY <1>1, <1>6 DEF Finish, SeNew
  <2> QED
    BY SMTT(30), <2>1, <2>2, <2>3, <2>4, <2>5, <1>0, <1>9 DEF Parent
<1>15. Dumps'
  BY <1>0 DEF Inv, Dumps
<1>16. Load'
  <2>1. main.ver \in Nat /\ main'.ver - 1 = main.ver
    BY <1>6, RdeBehind
  <2>2. SeOld' /\ RdeOld' /\ RtrOld'
    BY SMTT(30), <1>0, <1>1, <1>11, <2>1
    DEF Finish, SeNew, SeOld, RdeIdle, RdeNew, RdeOld, RtrIdle, RtrNew, RtrOld
  <2>3. /\ Loading(pipe[MS], pipe[SM], se.nconf)' /\ Loading(pipe[MR], pipe[RM], rde.nconf)'
        /\ Loading(pipe[MT], pipe[TM], rtr.nconf)'
    BY <1>0, <1>9, <1>10, <1>11 DEF Loading
  <2>4. ~SeReady' /\ ~RdeReady' /\ ~RtrReady'
    BY <1>10, Tuples DEF SeReady, RdeReady, RtrReady, Ready
  <2>5. main'.pending = One(~SeReady') + One(~RdeReady') + One(~RtrReady')
    BY <2>4, <1>6 DEF One
  <2>6. \A l \in main'.listeners : (l \in se'.listeners) # (l \in main'.reinit)
    <3>1. se'.listeners = main.listeners
      BY <1>0, <1>1 DEF Finish, SeNew
    <3> SUFFICES ASSUME NEW l \in c.listeners
                 PROVE  l \in main'.reinit <=> l \notin main.listeners
      BY SMTT(30), <3>1, <1>6
    <3> QED
      BY <1>6, <1>8
  <2> QED
    BY SMTT(30), <2>2, <2>3, <2>5, <2>6, <1>6 DEF Load
<1> QED
  BY SMTT(30), <1>0, <1>12, <1>13, <1>14, <1>15, <1>16 DEF Inv, Handshake

\* A reload that fails late and changes nothing.
LEMMA LateFailureKeeps ==
    ASSUME Inv, MayReload, UNCHANGED <<se, rde, rtr, fatal, pipe>>,
           NEW c \in Configs, NEW m, m = merge_config(main, c),
           c.listeners = main.listeners, c.ribs = main.ribs, c.peers = main.peers,
           NEW gone \in SUBSET (c.listeners \cap m.reinit),
           main' = prepare_listeners(m, gone)
    PROVE  Inv'
<1>0. se' = se /\ rde' = rde /\ rtr' = rtr /\ fatal' = fatal /\ pipe' = pipe
  BY SMTT(30)
<1>1. Finish /\ RdeIdle /\ RtrIdle
  BY ZenonT(30), PendingZero DEF Inv, MayReload
<1>2. /\ DOMAIN m = DOMAIN main /\ m.ver = main.ver /\ m.keyed = main.keyed
      /\ m.pending = main.pending
      /\ m.listeners = c.listeners /\ m.ribs = c.ribs /\ m.peers = c.peers
      /\ m.reinit = (c.listeners \ main.listeners) \cup (DOMAIN c.peers \ DOMAIN main.peers)
      /\ m.deleted = DOMAIN main.peers \ DOMAIN c.peers
  <2>1. Shape /\ Parent /\ main.deleted = {}
    BY Zenon, <1>1 DEF Inv, Finish
  <2> QED
    BY SMTT(30), <2>1, Merged
<1>3. m.reinit = {} /\ gone = {} /\ m.deleted = {}
  BY <1>2
<1>4. main' = [m EXCEPT !.listeners = m.listeners \ gone]
  BY DEF prepare_listeners
<1>5. /\ DOMAIN main' = DOMAIN main /\ main'.ver = main.ver /\ main'.keyed = main.keyed
      /\ main'.pending = main.pending /\ main'.listeners = main.listeners
      /\ main'.ribs = main.ribs /\ main'.peers = main.peers /\ main'.deleted = {}
  BY SMTT(30), <1>2, <1>3, <1>4 DEF Inv, Shape
<1>6. Shape' /\ Known' /\ Coming' /\ Configured' /\ Parent' /\ Dumps'
  <2>1. Piping'
    BY ZenonT(30), <1>0 DEF Inv, Shape, Piping
  <2>2. main.deleted = {} /\ DOMAIN main.peers \subseteq main.keyed
        /\ DOMAIN se.peers \subseteq DOMAIN main.peers
    BY SMTT(30), <1>1 DEF Inv, Finish, Parent
  <2> QED
    BY SMTT(30), <2>1, <2>2, <1>0, <1>5, QuietStep
<1>7. Finish'
  <2>1. RdeIdle' /\ RtrIdle'
    BY ZenonT(30), <1>0, <1>1, <1>5 DEF RdeIdle, RtrIdle, RdeNew, RtrNew
  <2>2. main'.pending = One(~RdeIdle') + One(~RtrIdle')
    BY <1>5, <2>1 DEF MayReload, One
  <2> QED
    BY ZenonT(30), <2>1, <2>2, <1>0, <1>1, <1>5 DEF Finish, SeNew, NoDrain
<1> QED
  BY SMTT(30), <1>0, <1>6, <1>7 DEF Inv, Handshake

LEMMA ReconfigureKeeps ==
    ASSUME Inv, reconfigure, NoneApart, ~FailsLate
    PROVE  Inv'
<1>1. PICK c \in Configs :
          \/ send_config([merge_config(main, c) EXCEPT !.ver = @ + 1])
          \/ /\ FailsLate \/ ( /\ c.listeners = main.listeners
                               /\ c.ribs = main.ribs /\ c.peers = main.peers)
             /\ \E gone \in SUBSET (c.listeners \cap merge_config(main, c).reinit) :
                   main' = prepare_listeners(merge_config(main, c), gone)
             /\ UNCHANGED pipe
  BY Zenon DEF reconfigure
<1>2. MayReload /\ UNCHANGED <<se, rde, rtr, fatal>>
  BY DEF reconfigure
<1>3. PICK m : m = merge_config(main, c)
  OBVIOUS
<1>4. m.ver = main.ver
  BY <1>3 DEF merge_config, Inv, Shape
<1>5. CASE send_config([m EXCEPT !.ver = @ + 1])
  <2>1. send_config([m EXCEPT !.ver = main.ver + 1])
    BY SMTT(30), <1>4, <1>5
  <2> QED
    BY <2>1, <1>2, <1>3, SendConfigKeeps
<1>6. CASE /\ c.listeners = main.listeners
           /\ c.ribs = main.ribs /\ c.peers = main.peers
           /\ \E gone \in SUBSET (c.listeners \cap m.reinit) : main' = prepare_listeners(m, gone)
           /\ UNCHANGED pipe
  <2>1. PICK gone \in SUBSET (c.listeners \cap m.reinit) : main' = prepare_listeners(m, gone)
    BY SMTT(30), <1>6
  <2>2. UNCHANGED <<se, rde, rtr, fatal, pipe>>
    BY SMTT(30), <1>2, <1>6
  <2> QED
    BY ZenonT(30), <1>2, <1>3, <1>6, <2>1, <2>2, LateFailureKeeps
<1> QED
  BY <1>1, <1>3, <1>5, <1>6

-----------------------------------------------------------------------------
(***************************************************************************)
(* The decision engine hears of neighbors and walks its tables.            *)
(***************************************************************************)

\* The walks that run change, and the last to end reports the reload done.
DumpsMove ==
    \/ rde'.dumps = rde.dumps /\ pipe'[RM] = pipe[RM]
    \/ rde.dumps # {} /\ rde'.dumps # {} /\ pipe'[RM] = pipe[RM]
    \/ rde.dumps # {} /\ rde'.dumps = {} /\ pipe'[RM] = <<DONE>>

LEMMA DumpsStage ==
    ASSUME Handshake, rde.dumps # {}
    PROVE  Finish /\ RdeNew /\ pipe[RM] = <<>>
BY Zenon DEF Handshake, Load, Switch, Finish, RdeOld, RdeIdle

LEMMA WalksHandshake ==
    ASSUME Handshake, UNCHANGED <<main, se, rtr>>,
           rde'.ver = rde.ver, rde'.nconf = rde.nconf, rde'.ribs = rde.ribs, DumpsMove,
           \A e \in Chans \ {SR, RM} : pipe'[e] = pipe[e],
           NoDrain(pipe[SR]) => NoDrain(pipe'[SR]),
           (\E k \in DOMAIN pipe[SR] : /\ pipe[SR][k] = DRAIN
                                       /\ \A i \in DOMAIN pipe[SR] \ {k} : pipe[SR][i] # DRAIN)
           => \E k \in DOMAIN pipe'[SR] : /\ pipe'[SR][k] = DRAIN
                                          /\ \A i \in DOMAIN pipe'[SR] \ {k} : pipe'[SR][i] # DRAIN
    PROVE  Handshake'
<1>0. main' = main /\ se' = se /\ rtr' = rtr
  BY SMTT(30)
<1>1. /\ pipe'[MS] = pipe[MS] /\ pipe'[MR] = pipe[MR] /\ pipe'[MT] = pipe[MT]
      /\ pipe'[SM] = pipe[SM] /\ pipe'[TM] = pipe[TM] /\ pipe'[RS] = pipe[RS]
  BY ZenonT(30), Channels
<1>2. /\ (RtrOld' <=> RtrOld) /\ (RtrNew' <=> RtrNew) /\ (RtrIdle' <=> RtrIdle)
      /\ (SeReady' <=> SeReady) /\ (RtrReady' <=> RtrReady) /\ (SeNew' <=> SeNew)
      /\ (RdeNew' <=> RdeNew)
  BY SMTT(30), <1>0, <1>1 DEF RtrOld, RtrNew, RtrIdle, SeReady, RtrReady, Ready, SeNew, RdeNew
<1>3. SeOld => SeOld'
  BY SMTT(30), <1>0, <1>1 DEF SeOld
<1>4. CASE rde'.dumps = rde.dumps /\ pipe'[RM] = pipe[RM]
  <2>1. (RdeOld' <=> RdeOld) /\ (RdeReady' <=> RdeReady) /\ (RdeIdle' <=> RdeIdle)
    BY SMTT(30), <1>0, <1>1, <1>2, <1>4 DEF RdeOld, RdeReady, Ready, RdeIdle
  <2>2. Load => Load'
    BY ZenonT(30), <1>0, <1>1, <1>2, <1>3, <1>4, <2>1 DEF Load, Loading
  <2>3. Switch => Switch'
    BY ZenonT(30), <1>0, <1>1, <1>2, <1>3, <1>4, <2>1 DEF Switch
  <2>4. Finish => Finish'
    BY ZenonT(30), <1>0, <1>1, <1>2, <1>4, <2>1 DEF Finish
  <2> QED
    BY ZenonT(30), <2>2, <2>3, <2>4 DEF Handshake
<1>5. CASE rde.dumps # {} /\ ( \/ rde'.dumps # {} /\ pipe'[RM] = pipe[RM]
                               \/ rde'.dumps = {} /\ pipe'[RM] = <<DONE>>)
  <2>1. Finish /\ RdeNew /\ pipe[RM] = <<>>
    BY SMTT(30), <1>5, DumpsStage
  <2>2. ~RdeIdle /\ ~RdeIdle'
    BY SMTT(30), <1>5, Tuples DEF RdeIdle
  <2>3. \/ RdeNew' /\ rde'.dumps # {} /\ pipe'[RM] = <<>>
        \/ RdeNew' /\ rde'.dumps = {} /\ pipe'[RM] = <<DONE>>
    BY SMTT(30), <1>2, <1>5, <2>1
  <2>4. Finish'
    BY ZenonT(30), <1>0, <1>1, <1>2, <2>1, <2>2, <2>3 DEF Finish
  <2> QED
    BY SMTT(30), <2>4 DEF Handshake
<1> QED
  BY Zenon, <1>4, <1>5 DEF DumpsMove

\* The decision engine reads a message that is not the drain.
LEMMA HeardKeeps ==
    ASSUME Inv, UNCHANGED <<main, se, rtr>>, ~fatal',
           Piping', pipe[SR] # <<>>, pipe'[SR] = Tail(pipe[SR]), pipe[SR][1] # DRAIN,
           \A e \in Chans \ {SR, RM} : pipe'[e] = pipe[e], DumpsMove, Dumps',
           DOMAIN rde' = DOMAIN rde, rde'.ver = rde.ver, rde'.nconf = rde.nconf,
           rde'.ribs = rde.ribs, DOMAIN rde'.peers \subseteq Peers,
           \A p \in DOMAIN rde'.peers :
              /\ DOMAIN rde'.peers[p] = PeerFields
              /\ rde'.peers[p].state \in {"none", "up", "down"},
           \A p \in DOMAIN rde'.peers :
              \/ /\ p \in DOMAIN rde.peers
                 /\ rde'.peers[p].conf = rde.peers[p].conf
                 /\ rde'.peers[p].loc = rde.peers[p].loc
                 /\ pipe[SR][1] # DELETE(p) /\ ~(IsAdd(pipe[SR][1]) /\ pipe[SR][1].peer = p)
              \/ /\ IsAdd(pipe[SR][1]) /\ pipe[SR][1].peer = p
                 /\ rde'.peers[p].conf = pipe[SR][1].conf
                 /\ rde'.peers[p].loc \in rde.ribs
    PROVE  Inv'
<1>0. main' = main /\ se' = se /\ rtr' = rtr
  BY Zenon
<1>1. Known' /\ Coming'
  <2>1. Shape /\ Known /\ Coming /\ Configured /\ UNCHANGED <<main, se>>
    BY SMTT(30) DEF Inv
  <2> QED
    BY ZenonT(30), <2>1, NeighborsHeard
<1>2. Configured' /\ Parent'
  BY ZenonT(30), <1>0 DEF Inv, Configured, Parent, IsConfig
<1>3. PICK q, r : q = pipe[SR] /\ r = pipe'[SR]
  BY Zenon
<1>4. Taken(q, r)
  <2>1. IsSeq(q)
    BY Zenon, <1>3, Channels DEF Inv, Shape, Piping
  <2> QED
    BY ZenonT(30), <2>1, <1>3, AfterRead
<1>5. Shape'
  <2>1. \A i \in DOMAIN q : q[i] \in QMsgs
    BY SMTT(30), <1>3 DEF Inv, Shape
  <2>2. \A i \in DOMAIN r : r[i] \in QMsgs
    BY ZenonT(30), <2>1, <1>4 DEF Taken
  <2> QED
    BY ZenonT(30), <2>2, <1>0, <1>3 DEF Inv, Shape
<1>6. Handshake'
  <2>1. NoDrain(q) => NoDrain(r)
    BY ONLY ZenonT(30), <1>4 DEF Taken, NoDrain
  <2>2. (\E k \in DOMAIN q : q[k] = DRAIN /\ \A i \in DOMAIN q \ {k} : q[i] # DRAIN)
        => \E k \in DOMAIN r : r[k] = DRAIN /\ \A i \in DOMAIN r \ {k} : r[i] # DRAIN
    <3> SUFFICES ASSUME NEW k \in DOMAIN q, q[k] = DRAIN, \A i \in DOMAIN q \ {k} : q[i] # DRAIN
                 PROVE  \E l \in DOMAIN r : r[l] = DRAIN /\ \A i \in DOMAIN r \ {l} : r[i] # DRAIN
      OBVIOUS
    <3>1. k # 1 /\ k \in Nat
      BY ZenonT(30), <1>3, <1>4 DEF Taken
    <3>2. k - 1 \in DOMAIN r /\ r[k - 1] = DRAIN
      BY ZenonT(30), <3>1, <1>4 DEF Taken
    <3>3. \A i \in DOMAIN r \ {k - 1} : i \in Nat /\ i + 1 \in DOMAIN q /\ r[i] = q[i + 1]
      BY ZenonT(30), <1>4 DEF Taken
    <3>4. \A i \in DOMAIN r \ {k - 1} : r[i] # DRAIN
      BY SMTT(30), <3>1, <3>3
    <3> QED
      BY SMTT(30), <3>2, <3>4
  <2> QED
    BY ZenonT(30), <2>1, <2>2, <1>3, WalksHandshake DEF Inv
<1> QED
  BY ZenonT(30), <1>1, <1>2, <1>5, <1>6 DEF Inv

LEMMA HeadIs ==
    ASSUME Inv, NEW t, Received(SR, t)
    PROVE  /\ pipe[SR] # <<>> /\ Head(pipe[SR]) = pipe[SR][1] /\ pipe[SR][1] \in QMsgs
           /\ pipe[SR][1].type = t /\ 1 \in DOMAIN pipe[SR] /\ ~fatal
           /\ SR \in Chans /\ Piping
<1>1. pipe[SR] # <<>> /\ Head(pipe[SR]).type = t /\ ~fatal
  BY SMTT(30) DEF Received
<1>2. IsSeq(pipe[SR]) /\ SR \in Chans /\ Piping
  BY SMTT(30), Channels DEF Inv, Shape, Piping
<1>3. Head(pipe[SR]) = pipe[SR][1] /\ 1 \in DOMAIN pipe[SR]
  BY SMTT(30), <1>1, <1>2, SeqFacts
<1> QED
  BY SMTT(30), <1>1, <1>2, <1>3 DEF Inv, Shape

LEMMA RdeDrainSeKeeps ==
    ASSUME Inv, RdeDrain("se")
    PROVE  Inv'
<1>1. Received(SR, "DRAIN")
  BY DEF RdeDrain, SR
<1>2. /\ pipe[SR] # <<>> /\ pipe[SR][1] \in QMsgs /\ pipe[SR][1].type = "DRAIN"
      /\ 1 \in DOMAIN pipe[SR] /\ ~fatal /\ SR \in Chans /\ Piping
  BY SMTT(30), <1>1, HeadIs
<1>3. pipe[SR][1] = DRAIN
  BY SMTT(30), <1>2, MsgKinds
<1>4. /\ Switch /\ SeNew /\ pipe[SM] = <<>> /\ pipe[RS] = <<>>
      /\ \E k \in DOMAIN pipe[SR] : /\ pipe[SR][k] = DRAIN
                                    /\ \A i \in DOMAIN pipe[SR] \ {k} : pipe[SR][i] # DRAIN
  BY ZenonT(30), <1>2, <1>3 DEF Inv, Handshake, Load, Switch, Finish, SeOld, NoDrain
<1>5. /\ pipe' = Piped(SR, To(RS, <<DRAIN>>))
      /\ main' = main /\ rde' = rde /\ rtr' = rtr /\ se' = se /\ fatal' = fatal
  BY SMTT(30) DEF RdeDrain, SR, RS, DRAIN
<1>6. /\ Piping' /\ pipe'[SR] = Tail(pipe[SR]) /\ pipe'[RS] = <<DRAIN>>
      /\ \A e \in Chans \ {SR, RS} : pipe'[e] = pipe[e]
  <2>1. RS \in Chans /\ SR # RS /\ IsSeq(<<DRAIN>>)
    BY SMTT(30), Channels, ConstIsSeq
  <2>2. /\ Piping' /\ pipe'[SR] = Tail(pipe[SR]) /\ pipe'[RS] = pipe[RS] \o <<DRAIN>>
        /\ \A e \in Chans \ {SR, RS} : pipe'[e] = pipe[e]
    BY Zenon, <2>1, <1>2, <1>5, ReadSend
  <2> QED
    BY SMTT(30), <2>2, <1>4, Tuples
<1>7. PICK q, r : q = pipe[SR] /\ r = pipe'[SR]
  BY SMTT(30)
<1>8. Taken(q, r)
  <2>1. IsSeq(q)
    BY SMTT(30), <1>7, Channels DEF Inv, Shape, Piping
  <2> QED
    BY ZenonT(30), <2>1, <1>2, <1>6, <1>7, AfterRead
<1>9. Known' /\ Coming'
  <2>1. Shape /\ Known /\ Coming /\ Configured /\ UNCHANGED <<main, se>>
    BY SMTT(30), <1>5 DEF Inv
  <2>2. ~IsAdd(DRAIN) /\ \A p : DRAIN # DELETE(p)
    BY SMTT(30), DrainIsNoAdd DEF DRAIN, DELETE, msg, peermsg
  <2> QED
    BY SMTT(30), <2>1, <2>2, <1>2, <1>3, <1>5, <1>6, NeighborsHeard
<1>10. Configured' /\ Parent' /\ Dumps'
  BY ZenonT(30), <1>5 DEF Inv, Configured, Parent, IsConfig, Dumps
<1>11. Shape'
  <2>1. \A i \in DOMAIN q : q[i] \in QMsgs
    BY SMTT(30), <1>7 DEF Inv, Shape
  <2>2. \A i \in DOMAIN r : r[i] \in QMsgs
    BY <2>1, <1>8 DEF Taken
  <2> QED
    BY ZenonT(30), <2>2, <1>5, <1>6, <1>7 DEF Inv, Shape
<1>12. Switch'
  <2>1. NoDrain(r)
    <3>1. \A i \in DOMAIN q : i # 1 => q[i] # DRAIN
      BY SMTT(30), <1>2, <1>3, <1>4, <1>7
    <3>2. \A i \in DOMAIN r : i \in Nat /\ i + 1 \in DOMAIN q /\ r[i] = q[i + 1] /\ i \in 1 .. Len(r)
          /\ Len(r) \in Nat
      BY SMTT(30), <1>8, SeqFacts DEF Taken
    <3>3. \A i \in DOMAIN r : i + 1 # 1
      BY SMTT(30), <3>2
    <3> QED
      BY ZenonT(30), <3>1, <3>2, <3>3 DEF NoDrain
  <2>2. /\ pipe'[MS] = pipe[MS] /\ pipe'[MR] = pipe[MR] /\ pipe'[MT] = pipe[MT]
        /\ pipe'[SM] = pipe[SM] /\ pipe'[TM] = pipe[TM] /\ pipe'[RM] = pipe[RM]
    BY SMTT(30), <1>6, Channels
  <2> QED
    BY ZenonT(30), <1>4, <1>5, <1>6, <1>7, <2>1, <2>2
    DEF Switch, SeNew, RdeOld, RtrOld, RdeReady, RtrReady, Ready
<1> QED
  BY SMTT(30), <1>2, <1>5, <1>9, <1>10, <1>11, <1>12 DEF Inv, Handshake

LEMMA RdeUpKeeps ==
    ASSUME Inv, RdeUp
    PROVE  Inv'
<1>1. Received(SR, "UP")
  BY DEF RdeUp, SR
<1>2. /\ pipe[SR] # <<>> /\ Head(pipe[SR]) = pipe[SR][1] /\ pipe[SR][1] \in QMsgs
      /\ pipe[SR][1].type = "UP" /\ ~fatal /\ SR \in Chans /\ Piping
  BY SMTT(30), <1>1, HeadIs
<1>3. /\ pipe[SR][1] # DRAIN /\ ~IsAdd(pipe[SR][1]) /\ \A x : pipe[SR][1] # DELETE(x)
  BY SMTT(30), <1>2, MsgKinds
<1>4. PICK p : p = pipe[SR][1].peer
  OBVIOUS
<1>5. /\ rde' = IF p \in DOMAIN rde.peers
                THEN [rde EXCEPT !.peers = [rde.peers EXCEPT
                         ![p] = [rde.peers[p] EXCEPT !.state = "up"]]]
                ELSE rde
      /\ pipe' = Piped(SR, NoMsg) /\ UNCHANGED <<main, se, rtr>> /\ fatal' = fatal
  BY <1>2, <1>4 DEF RdeUp, SR
<1>6. Piping' /\ pipe'[SR] = Tail(pipe[SR]) /\ \A e \in Chans \ {SR} : pipe'[e] = pipe[e]
  BY <1>2, <1>5, OnlyRead
<1>7. /\ DOMAIN rde' = DOMAIN rde /\ rde'.ver = rde.ver /\ rde'.nconf = rde.nconf
      /\ rde'.ribs = rde.ribs /\ rde'.dumps = rde.dumps /\ rde'.soft = rde.soft
      /\ DOMAIN rde'.peers = DOMAIN rde.peers
  BY <1>5 DEF Inv, Shape
<1>8. \A x \in DOMAIN rde.peers :
         /\ DOMAIN rde'.peers[x] = PeerFields /\ rde'.peers[x].state \in {"none", "up", "down"}
         /\ rde'.peers[x].conf = rde.peers[x].conf /\ rde'.peers[x].loc = rde.peers[x].loc
  <2> SUFFICES ASSUME NEW x \in DOMAIN rde.peers
               PROVE  /\ DOMAIN rde'.peers[x] = PeerFields
                      /\ rde'.peers[x].state \in {"none", "up", "down"}
                      /\ rde'.peers[x].conf = rde.peers[x].conf
                      /\ rde'.peers[x].loc = rde.peers[x].loc
    BY SMTT(30)
  <2>1. /\ DOMAIN rde.peers[x] = PeerFields
        /\ rde.peers[x].state \in {"none", "up", "down"}
    BY DEF Inv, Shape
  <2>2. rde'.peers[x] = rde.peers[x] \/ rde'.peers[x] = [rde.peers[x] EXCEPT !.state = "up"]
    BY SMTT(30), <1>5 DEF Inv, Shape
  <2> QED
    BY SMTT(30), <2>1, <2>2 DEF PeerFields
<1>9. DumpsMove /\ Dumps'
  <2>1. pipe'[RM] = pipe[RM]
    BY SMTT(30), <1>6, Channels
  <2> QED
    BY SMTT(30), <2>1, <1>7 DEF Inv, Dumps, DumpsMove
<1>10. DOMAIN rde'.peers \subseteq Peers
  BY SMTT(30), <1>7 DEF Inv, Shape
<1> QED
  BY SMTT(30), <1>2, <1>3, <1>5, <1>6, <1>7, <1>8, <1>9, <1>10, HeardKeeps

LEMMA RdeAddKeeps ==
    ASSUME Inv, RdeAdd
    PROVE  Inv'
<1>1. Received(SR, "ADD")
  BY SMTT(30) DEF RdeAdd, SR
<1>2. /\ pipe[SR] # <<>> /\ Head(pipe[SR]) = pipe[SR][1] /\ pipe[SR][1] \in QMsgs
      /\ pipe[SR][1].type = "ADD" /\ 1 \in DOMAIN pipe[SR] /\ ~fatal /\ SR \in Chans /\ Piping
  BY SMTT(30), <1>1, HeadIs
<1>3. PICK m : m = pipe[SR][1]
  BY SMTT(30)
<1>4. /\ m # DRAIN /\ IsAdd(m) /\ m.peer \in Peers /\ \A x : m # DELETE(x)
  BY SMTT(30), <1>2, <1>3, MsgKinds DEF IsAdd
<1>5. PICK p : p = m.peer
  OBVIOUS
<1>6. PICK new : new = IF p \in DOMAIN rde.peers THEN [rde.peers[p] EXCEPT !.conf = m.conf]
                       ELSE [conf |-> m.conf, loc |-> m.conf.rib, state |-> "none",
                             rib |-> FALSE, out |-> FALSE]
  BY ZenonT(30)
<1>7. /\ rde' = [rde EXCEPT !.peers = [q \in DOMAIN rde.peers \cup {p} |->
                                         IF q = p THEN new ELSE rde.peers[q]]]
      /\ pipe' = Piped(SR, NoMsg) /\ UNCHANGED <<main, se, rtr>>
      /\ fatal' = (p \notin DOMAIN rde.peers /\ m.conf.rib \notin rde.ribs)
  BY SMTT(30), <1>2, <1>3, <1>5, <1>6 DEF RdeAdd, SR
<1>8. m.conf.rib \in rde.ribs
  BY Zenon, <1>2, <1>3, <1>4 DEF Inv, Coming, ConfRight
<1>9. ~fatal'
  BY ZenonT(30), <1>7, <1>8
<1>10. Piping' /\ pipe'[SR] = Tail(pipe[SR]) /\ \A e \in Chans \ {SR} : pipe'[e] = pipe[e]
  BY <1>2, <1>7, OnlyRead
<1>11. /\ DOMAIN rde' = DOMAIN rde /\ rde'.ver = rde.ver /\ rde'.nconf = rde.nconf
       /\ rde'.ribs = rde.ribs /\ rde'.dumps = rde.dumps /\ rde'.soft = rde.soft
       /\ rde'.peers = [q \in DOMAIN rde.peers \cup {p} |-> IF q = p THEN new ELSE rde.peers[q]]
  BY <1>7 DEF Inv, Shape
<1>12. /\ DOMAIN new = PeerFields /\ new.conf = m.conf /\ new.loc \in rde.ribs
       /\ new.state \in {"none", "up", "down"}
  <2>1. CASE p \in DOMAIN rde.peers
    <3>1. /\ DOMAIN rde.peers[p] = PeerFields /\ rde.peers[p].state \in {"none", "up", "down"}
          /\ rde.peers[p].loc \in rde.ribs
      BY Zenon, <2>1 DEF Inv, Shape, Known
    <3>2. new = [rde.peers[p] EXCEPT !.conf = m.conf]
      BY SMTT(30), <2>1, <1>6
    <3> QED
      BY <3>1, <3>2 DEF PeerFields
  <2>2. CASE p \notin DOMAIN rde.peers
    <3>1. new = [conf |-> m.conf, loc |-> m.conf.rib, state |-> "none",
                 rib |-> FALSE, out |-> FALSE]
      BY SMTT(30), <2>2, <1>6
    <3> QED
      BY <3>1, <1>8 DEF PeerFields
  <2> QED
    BY <2>1, <2>2
<1>13. DumpsMove /\ Dumps'
  <2>1. pipe'[RM] = pipe[RM]
    BY <1>10, Channels
  <2> QED
    BY SMTT(30), <2>1, <1>11 DEF Inv, Dumps, DumpsMove
<1>14. DOMAIN rde'.peers \subseteq Peers
  BY Zenon, <1>4, <1>5, <1>11 DEF Inv, Shape
<1>15. \A x \in DOMAIN rde'.peers :
          /\ DOMAIN rde'.peers[x] = PeerFields
          /\ rde'.peers[x].state \in {"none", "up", "down"}
  BY Zenon, <1>11, <1>12 DEF Inv, Shape
<1>16. \A x \in DOMAIN rde'.peers :
          \/ /\ x \in DOMAIN rde.peers
             /\ rde'.peers[x].conf = rde.peers[x].conf
             /\ rde'.peers[x].loc = rde.peers[x].loc
             /\ m # DELETE(x) /\ ~(IsAdd(m) /\ m.peer = x)
          \/ /\ IsAdd(m) /\ m.peer = x
             /\ rde'.peers[x].conf = m.conf
             /\ rde'.peers[x].loc \in rde.ribs
  BY Zenon, <1>4, <1>5, <1>11, <1>12
<1>17. \A x \in DOMAIN rde'.peers :
          \/ /\ x \in DOMAIN rde.peers
             /\ rde'.peers[x].conf = rde.peers[x].conf
             /\ rde'.peers[x].loc = rde.peers[x].loc
             /\ pipe[SR][1] # DELETE(x) /\ ~(IsAdd(pipe[SR][1]) /\ pipe[SR][1].peer = x)
          \/ /\ IsAdd(pipe[SR][1]) /\ pipe[SR][1].peer = x
             /\ rde'.peers[x].conf = pipe[SR][1].conf
             /\ rde'.peers[x].loc \in rde.ribs
  BY ZenonT(30), <1>3, <1>16
<1>18. pipe[SR][1] # DRAIN /\ pipe[SR] # <<>> /\ \A e \in Chans \ {SR, RM} : pipe'[e] = pipe[e]
  BY SMTT(30), <1>2, <1>3, <1>4, <1>10
<1>19. /\ DOMAIN rde' = DOMAIN rde /\ rde'.ver = rde.ver /\ rde'.nconf = rde.nconf
       /\ rde'.ribs = rde.ribs /\ UNCHANGED <<main, se, rtr>>
  BY SMTT(30), <1>7, <1>11
<1> QED
  BY ZenonT(30), <1>9, <1>10, <1>13, <1>14, <1>15, <1>17, <1>18, <1>19, HeardKeeps

RdeFields == {"ver", "nconf", "ribs", "peers", "soft", "dumps"}

\* What a step does to the pipes that ends walks and reads channel c.
Reports(c) ==
    \/ rde'.dumps = rde.dumps /\ pipe' = Piped(c, NoMsg)
    \/ rde.dumps # {} /\ rde'.dumps # {} /\ pipe' = Piped(c, NoMsg)
    \/ rde.dumps # {} /\ rde'.dumps = {} /\ pipe' = Piped(c, To(RM, <<DONE>>))

LEMMA ReportsMove ==
    ASSUME Inv, NEW c \in Chans \ {RM}, pipe[c] # <<>>, Reports(c)
    PROVE  /\ Piping' /\ pipe'[c] = Tail(pipe[c]) /\ DumpsMove
           /\ \A e \in Chans \ {c, RM} : pipe'[e] = pipe[e]
<1>0. Piping /\ RM \in Chans
  BY SMTT(30), Channels DEF Inv, Shape
<1>1. CASE pipe' = Piped(c, NoMsg) /\ (rde'.dumps = rde.dumps \/ (rde.dumps # {} /\ rde'.dumps # {}))
  <2>1. Piping' /\ pipe'[c] = Tail(pipe[c]) /\ \A e \in Chans \ {c} : pipe'[e] = pipe[e]
    BY SMTT(30), <1>0, <1>1, OnlyRead
  <2> QED
    BY ZenonT(30), <1>0, <1>1, <2>1 DEF DumpsMove
<1>2. CASE rde.dumps # {} /\ rde'.dumps = {} /\ pipe' = Piped(c, To(RM, <<DONE>>))
  <2>1. pipe[RM] = <<>>
    BY ZenonT(30), <1>2, DumpsStage DEF Inv
  <2>2. IsSeq(<<DONE>>) /\ pipe[RM] \o <<DONE>> = <<DONE>>
    BY SMTT(30), <2>1, ConstIsSeq, Tuples
  <2>3. /\ Piping' /\ pipe'[c] = Tail(pipe[c]) /\ pipe'[RM] = pipe[RM] \o <<DONE>>
        /\ \A e \in Chans \ {c, RM} : pipe'[e] = pipe[e]
    BY Zenon, <1>0, <1>2, <2>2, ReadSend
  <2> QED
    BY SMTT(30), <1>2, <2>2, <2>3 DEF DumpsMove
<1> QED
  BY SMTT(30), <1>1, <1>2 DEF Reports

-----------------------------------------------------------------------------
(***************************************************************************)
(* The invariant and what follows from it.                                 *)
(***************************************************************************)

\* fatal is a truth value.
LEMMA FatalStep ==
    ASSUME fatal \in BOOLEAN, [Next]_vars
    PROVE  fatal' \in BOOLEAN
<1>1. CASE reconfigure
  BY <1>1 DEF reconfigure
<1>2. ASSUME NEW p \in Peers, SessionUp(p) \/ SessionDown(p) \/ SessionGone(p)
      PROVE  fatal' \in BOOLEAN
  BY <1>2 DEF SessionUp, SessionDown, SessionGone
<1>3. CASE MainStep
  BY SMTT(30), <1>3 DEF MainStep, MainDrain, MainDone
<1>4. CASE SeStep
  BY ZenonT(30), <1>4 DEF SeStep, SeConf, SeDrain, SeDone, SeDrained, SeDelete
<1>10. ASSUME NEW r, NEW n, NEW gone, NEW c, in_done(r, n, gone, c)
       PROVE  fatal' \in BOOLEAN
  BY ZenonT(30), <1>10 DEF in_done
<1>5. CASE RdeStep
  BY ZenonT(30), <1>5, <1>10 DEF RdeStep, RdeConf, RdeDrain, RdeDone
<1>6. CASE RdeSeStep
  BY Zenon, <1>6, <1>10 DEF RdeSeStep, RdeDrain, RdeAdd, RdeUp, RdeDown, RdeDelete, peer_down
<1>7. CASE RunDumps
  BY <1>7, <1>10 DEF RunDumps, DumpDone
<1>8. CASE RtrStep
  BY ZenonT(30), <1>8 DEF RtrStep, RtrConf, RtrDrain, RtrDone
<1>9. CASE UNCHANGED vars
  BY <1>9 DEF vars
<1> QED
  BY SMTT(30), <1>1, <1>2, <1>3, <1>4, <1>5, <1>6, <1>7, <1>8, <1>9 DEF Next

LEMMA AgreeInv ==
    ASSUME Inv
    PROVE  ConfigAgrees
<1>1. PeersInSync
  BY SMTT(30) DEF Inv, Known, Deleted, DELETE, SR, PeersInSync
<1>2. KeysLoaded
  BY SMTT(30) DEF Inv, Parent, KeysLoaded
<1>3. Settled
  <2> SUFFICES ASSUME main.pending = 0
               PROVE  /\ se.ver = main.ver /\ rde.ver = main.ver /\ rtr.ver = main.ver
                      /\ se.nconf = None /\ rde.nconf = None /\ rtr.nconf = None
                      /\ se.listeners = main.listeners /\ DOMAIN se.peers = DOMAIN main.peers
                      /\ rde.ribs = main.ribs /\ rde.dumps = {}
                      /\ \A c \in Chans : ReconfMsgs(c) = {}
    BY DEF Settled
  <2>1. Finish /\ RdeIdle /\ RtrIdle
    BY SMTT(30), PendingZero DEF Inv
  <2>2. /\ se.ver = main.ver /\ rde.ver = main.ver /\ rtr.ver = main.ver
        /\ se.nconf = None /\ rde.nconf = None /\ rtr.nconf = None
        /\ se.listeners = main.listeners /\ DOMAIN se.peers = DOMAIN main.peers
        /\ rde.ribs = main.ribs /\ rde.dumps = {}
    BY SMTT(30), <2>1 DEF Finish, SeNew, RdeIdle, RdeNew, RtrIdle, RtrNew
  <2>3. \A c \in Chans \ {SR} : pipe[c] = <<>>
    BY Zenon, <2>1, Channels DEF Finish, SeNew, RdeIdle, RdeNew, RtrIdle, RtrNew
  <2>4. \A c \in Chans \ {SR} : ReconfMsgs(c) = {}
    BY <2>3 DEF ReconfMsgs
  <2>5. ReconfMsgs(SR) = {}
    <3>1. ASSUME NEW i \in DOMAIN pipe[SR]
          PROVE  pipe[SR][i].type \notin {"CONF", "DRAIN", "DONE"}
      <4>1. pipe[SR][i] \in QMsgs /\ pipe[SR][i] # DRAIN
        BY <2>1 DEF Finish, NoDrain, Inv, Shape
      <4> QED
        BY SMTT(30), <4>1, MsgKinds
    <3> QED
      BY SMTT(30), <3>1 DEF ReconfMsgs
  <2> QED
    BY ZenonT(30), <2>2, <2>4, <2>5
<1> QED
  BY SMTT(30), <1>1, <1>2, <1>3 DEF ConfigAgrees
=============================================================================
