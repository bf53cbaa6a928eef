--------------------------- MODULE Reconf_proofs ---------------------------
(***************************************************************************)
(* A reload is safe and leaves the processes in agreement, for every set   *)
(* of neighbors and configurations and every number of reloads and session *)
(* changes.  The invariant is in ReconfSteps_proofs; the steps here change *)
(* a set whose size the program counts.                                    *)
(***************************************************************************)
EXTENDS ReconfSteps_proofs, FiniteSetTheorems

\* The messages of the session engine when it switches, s, for the neighbors
\* K the decision engine knows.
LEMMA SwitchMsgs ==
    ASSUME NEW f, IsFiniteSet(DOMAIN f), NEW adds \in Adds(f), NEW s, s = Drained(adds)
    PROVE  /\ IsSeq(s) /\ Len(s) \in Nat /\ DOMAIN s = 1 .. Len(s)
           /\ Len(s) \in DOMAIN s /\ s[Len(s)] = DRAIN
           /\ \A i \in DOMAIN s : i # Len(s) => \E p \in DOMAIN f : s[i] = add(p, f[p])
           /\ \A p \in DOMAIN f : \E i \in DOMAIN s : i < Len(s) /\ s[i] = add(p, f[p])
<1>1. PICK n \in Nat : n = Cardinality(DOMAIN f)
  BY FS_CardinalityType
<1> DEFINE all == {add(p, f[p]) : p \in DOMAIN f}
<1>2. adds \in [1 .. n -> all] /\ \A m \in all : \E i \in DOMAIN adds : adds[i] = m
  BY <1>1 DEF Adds
<1>3. \A i \in 1 .. n : \E p \in DOMAIN f : adds[i] = add(p, f[p])
  BY <1>2
<1>4. \A p \in DOMAIN f : \E i \in 1 .. n : adds[i] = add(p, f[p])
  BY <1>2
<1>5. adds \in Seq(all) /\ Len(adds) = n
  <2> HIDE DEF all
  <2> QED
    BY <1>2
<1>6. adds \in Seq(all \cup {DRAIN})
  BY <1>5
<1> HIDE DEF all
<1>7. s \in Seq(all \cup {DRAIN}) /\ Len(s) = n + 1 /\ s[n + 1] = DRAIN
      /\ \A i \in 1 .. n : s[i] = adds[i]
  BY <1>5, <1>6 DEF Drained, DRAIN
<1>8. DOMAIN s = 1 .. n + 1
  BY <1>7
<1>9. IsSeq(s)
  BY <1>7 DEF IsSeq
<1>10. \A i \in DOMAIN s : i # Len(s) => \E p \in DOMAIN f : s[i] = add(p, f[p])
  BY <1>3, <1>7, <1>8
<1>11. \A p \in DOMAIN f : \E i \in DOMAIN s : i < Len(s) /\ s[i] = add(p, f[p])
  BY <1>4, <1>7, <1>8
<1> QED
  BY SMTT(30), <1>7, <1>8, <1>9, <1>10, <1>11

LEMMA RdeConfKeeps ==
    ASSUME Inv, RdeConf, NoneApart
    PROVE  Inv'
<1>1. pipe[MR] # <<>> /\ Head(pipe[MR]).type = "CONF"
  BY DEF RdeConf, Received, MR
<1>2. Load /\ pipe[MR] = <<ConfOf(main), DRAIN>> /\ pipe[RM] = <<>> /\ rde.nconf = None
  BY Zenon, <1>1, StageMR, Tuples, Types DEF Inv
<1>3. /\ rde' = [rde EXCEPT !.nconf = ConfOf(main), !.ribs = rde.ribs \cup main.ribs]
      /\ pipe' = Piped(MR, NoMsg)
      /\ main' = main /\ rtr' = rtr /\ se' = se /\ fatal' = fatal
  <2>1. ConfOf(main).ribs = main.ribs
    BY DEF ConfOf
  <2>2. Head(pipe[MR]) = ConfOf(main)
    BY <1>2, Tuples
  <2>3. rde' = [rde EXCEPT !.nconf = Head(pipe[MR]), !.ribs = rde.ribs \cup Head(pipe[MR]).ribs]
    BY DEF RdeConf, MR
  <2>4. /\ pipe' = Piped(MR, NoMsg)
        /\ main' = main /\ rtr' = rtr /\ se' = se /\ fatal' = fatal
    BY DEF RdeConf, MR
  <2> QED
    BY Zenon, <2>1, <2>2, <2>3, <2>4
<1>4. /\ Piping' /\ pipe'[MR] = <<DRAIN>>
      /\ \A d \in Chans \ {MR} : pipe'[d] = pipe[d]
  BY SMTT(30), <1>2, <1>3, ReadFirst, Channels DEF Inv, Shape
<1>5. /\ DOMAIN rde' = DOMAIN rde /\ rde'.nconf = ConfOf(main) /\ rde'.ver = rde.ver
      /\ rde'.ribs = rde.ribs \cup main.ribs /\ rde'.peers = rde.peers
      /\ rde'.soft = rde.soft /\ rde'.dumps = rde.dumps
  BY <1>3 DEF Inv, Shape
<1>6. /\ pipe'[RM] = <<>> /\ pipe'[MT] = pipe[MT] /\ pipe'[TM] = pipe[TM] /\ pipe'[MS] = pipe[MS]
      /\ pipe'[SM] = pipe[SM] /\ pipe'[SR] = pipe[SR] /\ pipe'[RS] = pipe[RS]
  BY Zenon, <1>2, <1>4, Channels
<1>7. Known' /\ Coming' /\ Configured'
  <2>1. Known /\ Coming /\ Configured /\ main.ver \in Nat
    BY ReconfAssumption DEF Inv, Parent
  <2> QED
    BY ZenonT(30), <2>1, <1>3, <1>5, <1>6, NeighborsKept
<1>8. Shape'
  BY ZenonT(30), <1>3, <1>4, <1>5, <1>6 DEF Inv, Shape
<1>9. Parent'
  BY Zenon, <1>3, <1>5 DEF Inv, Parent, IsConfig
<1>10. Dumps'
  <2>1. IsFiniteSet(main.ribs)
    BY ReconfAssumption DEF Inv, Parent, IsConfig
  <2>2. IsFiniteSet(rde'.ribs)
    <3>1. IsFiniteSet(rde.ribs)
      BY DEF Inv, Dumps
    <3>2. IsFiniteSet(rde.ribs \cup main.ribs)
      BY ZenonT(30), <2>1, <3>1, FS_Union
    <3> QED
      BY <3>2, <1>5
  <2> QED
    BY Zenon, <2>2, <1>5 DEF Inv, Dumps
<1>11. Load'
  <2>1. ~RdeReady /\ ~RdeReady'
    BY <1>2, <1>4, Tuples DEF RdeReady, Ready
  <2>2. Loading(pipe[MR], pipe[RM], rde.nconf)'
    BY ZenonT(30), <1>3, <1>4, <1>5, <1>6 DEF Loading
  <2>3. (RtrReady <=> RtrReady') /\ (SeReady <=> SeReady')
    BY <1>3, <1>6 DEF RtrReady, SeReady, Ready
  <2> QED
    BY SMTT(30), <1>2, <1>3, <1>5, <1>6, <2>1, <2>2, <2>3
    DEF Load, SeOld, RdeOld, RtrOld, Loading, One
<1> QED
  BY ZenonT(30), <1>3, <1>7, <1>8, <1>9, <1>10, <1>11 DEF Inv, Handshake

LEMMA SeDoneKeeps ==
    ASSUME Inv, SeDone, NoneApart, RibsStay
    PROVE  Inv'
<1>1. pipe[MS] # <<>> /\ Head(pipe[MS]).type = "DONE"
  BY SMTT(30) DEF SeDone, Received, MS
<1>2. /\ Switch /\ SeOld /\ pipe[MS] = <<DONE>> /\ pipe[SM] = <<>>
      /\ se.nconf = ConfOf(main)
  BY SMTT(30), <1>1, StageMS, Tuples, Types DEF Inv
<1>3. PICK n : n = se.nconf
  BY SMTT(30)
<1>4. n # None /\ n.ver = main.ver /\ n.peers = main.peers /\ n.listeners = main.listeners
  BY <1>2, <1>3 DEF NoneApart, ConfOf
<1> DEFINE new == [p \in DOMAIN n.peers |-> peerconf(n, p)]
<1> DEFINE gone == DOMAIN se.peers \ DOMAIN new
<1> DEFINE f == [p \in DOMAIN new \cap se.rdesession |-> new[p]]
<1>5. /\ se' = [se EXCEPT !.ver = n.ver, !.nconf = None, !.listeners = n.listeners,
                          !.peers = [p \in DOMAIN new \cup gone |->
                                        IF p \in gone THEN se.peers[p] ELSE new[p]],
                          !.delete = gone]
      /\ \E adds \in Adds(f) : pipe' = Piped(MS, To(SR, Drained(adds)))
      /\ main' = main /\ rde' = rde /\ rtr' = rtr /\ fatal' = fatal
  BY ZenonT(30), <1>3, <1>4 DEF SeDone, MS, SR
<1>6. /\ DOMAIN new = DOMAIN main.peers
      /\ \A p \in DOMAIN main.peers : new[p] = peerconf(main, p)
  BY <1>4 DEF peerconf
<1>7. /\ DOMAIN f = DOMAIN main.peers \cap se.rdesession
      /\ \A p \in DOMAIN f : f[p] = peerconf(main, p)
  BY <1>6
<1>8. PICK adds \in Adds(f) : pipe' = Piped(MS, To(SR, Drained(adds)))
  BY Zenon, <1>5
<1>9. /\ DOMAIN se' = DOMAIN se /\ se'.ver = main.ver /\ se'.nconf = None
      /\ se'.listeners = main.listeners /\ se'.delete = gone
      /\ se'.peers = [p \in DOMAIN new \cup gone |-> IF p \in gone THEN se.peers[p] ELSE new[p]]
      /\ se'.up = se.up /\ se'.rdesession = se.rdesession
  BY Zenon, <1>4, <1>5 DEF Inv, Shape
<1>10. /\ se'.delete = DOMAIN se.peers \ DOMAIN main.peers
       /\ DOMAIN se'.peers = DOMAIN main.peers \cup DOMAIN se.peers
       /\ \A p \in DOMAIN main.peers : se'.peers[p] = peerconf(main, p)
       /\ \A p \in DOMAIN se.peers \ DOMAIN main.peers : se'.peers[p] = se.peers[p]
  BY Zenon, <1>6, <1>9
<1>11. IsFiniteSet(DOMAIN f)
  <2>1. DOMAIN main.peers \subseteq Peers
    BY Zenon, ReconfAssumption DEF Inv, Parent, IsConfig
  <2>2. DOMAIN f \subseteq Peers
    BY Zenon, <2>1, <1>7
  <2> QED
    BY Zenon, <2>2, FS_Subset, ReconfAssumption
<1> HIDE DEF new, gone, f
<1>12. PICK s : s = Drained(adds)
  BY SMTT(30)
<1>13. /\ IsSeq(s) /\ Len(s) \in Nat /\ DOMAIN s = 1 .. Len(s)
       /\ Len(s) \in DOMAIN s /\ s[Len(s)] = DRAIN
       /\ \A i \in DOMAIN s : i # Len(s) => \E p \in DOMAIN f : s[i] = add(p, f[p])
       /\ \A p \in DOMAIN f : \E i \in DOMAIN s : i < Len(s) /\ s[i] = add(p, f[p])
  BY SMTT(30), <1>11, <1>12, SwitchMsgs
<1>14. /\ \A i \in DOMAIN s : i # Len(s) =>
             \E p \in DOMAIN main.peers \cap se.rdesession : s[i] = add(p, peerconf(main, p))
       /\ \A p \in DOMAIN main.peers \cap se.rdesession :
             \E i \in DOMAIN s : i < Len(s) /\ s[i] = add(p, peerconf(main, p))
  BY ZenonT(30), <1>7, <1>13
<1>15. /\ Piping' /\ pipe'[MS] = Tail(pipe[MS]) /\ pipe'[SR] = pipe[SR] \o s
       /\ \A e \in Chans \ {MS, SR} : pipe'[e] = pipe[e]
  <2>1. MS \in Chans /\ SR \in Chans /\ MS # SR /\ Piping
    BY SMTT(30), Channels DEF Inv, Shape
  <2> QED
    BY SMTT(30), <2>1, <1>1, <1>8, <1>12, <1>13, ReadSend
<1>16. /\ pipe'[MS] = <<>> /\ pipe'[SM] = <<>> /\ pipe'[RS] = pipe[RS] /\ pipe'[MR] = pipe[MR]
       /\ pipe'[RM] = pipe[RM] /\ pipe'[MT] = pipe[MT] /\ pipe'[TM] = pipe[TM]
  BY ZenonT(30), <1>2, <1>15, Channels, Tuples
<1>17. main.ribs \subseteq rde.ribs /\ main.ver >= rde.ver /\ se.delete = {}
  <2>1. rde.nconf # None
    BY Zenon, <1>2 DEF Switch, RdeReady, Ready, NoneApart
  <2> QED
    BY SMTT(30), <2>1, <1>2, RdeBehind DEF Inv, Parent, SeOld
<1>18. Known' /\ Coming' /\ Configured'
  <2>1. Shape /\ Known /\ Coming /\ Configured /\ Parent /\ UNCHANGED <<main, rde>>
    BY <1>5 DEF Inv
  <2> QED
    BY ZenonT(30), <2>1, <1>9, <1>10, <1>13, <1>14, <1>15, <1>17, NeighborsSwitched
<1>19. PICK q, r : q = pipe[SR] /\ r = pipe'[SR]
  BY SMTT(30)
<1>20. Sent(q, s, r) /\ Len(q) \in Nat /\ DOMAIN q = 1 .. Len(q)
  <2>1. IsSeq(q)
    BY ZenonT(30), <1>19, Channels DEF Inv, Shape, Piping
  <2> QED
    BY ZenonT(30), <2>1, <1>13, <1>15, <1>19, AfterSend, SeqFacts
<1>21. \A i \in DOMAIN s : s[i] \in QMsgs /\ (i # Len(s) => s[i] # DRAIN)
  <2>1. \A p \in DOMAIN main.peers : p \in Peers /\ peerconf(main, p) \in PeerConfs
    BY ZenonT(30), <1>17, RibsStay, NewConfRight DEF Inv, ConfRight
  <2>2. \A p \in DOMAIN main.peers :
           add(p, peerconf(main, p)) \in QMsgs /\ add(p, peerconf(main, p)) # DRAIN
    BY Zenon, <2>1, SentKinds
  <2>3. DRAIN \in QMsgs
    BY Zenon DEF QMsgs
  <2> QED
    BY SMTT(30), <2>2, <2>3, <1>13, <1>14
<1>22. Shape'
  <2>1. \A i \in DOMAIN q : q[i] \in QMsgs
    BY Zenon, <1>19 DEF Inv, Shape
  <2>2. \A i \in DOMAIN r : r[i] \in QMsgs
    BY SMTT(30), <2>1, <1>20, <1>21 DEF Sent
  <2> QED
    BY SMTT(30), <2>2, <1>5, <1>9, <1>15, <1>19 DEF Inv, Shape
<1>23. Parent' /\ Dumps'
  <2>1. DOMAIN se'.peers \subseteq DOMAIN main.peers \cup main.deleted
    BY Zenon, <1>10 DEF Inv, Parent
  <2> QED
    BY ZenonT(30), <2>1, <1>5 DEF Inv, Parent, Dumps, IsConfig
<1>24. Switch'
  <2>1. RdeOld' /\ RtrOld' /\ RdeReady' /\ RtrReady' /\ main'.pending = 3
    BY ZenonT(30), <1>2, <1>5, <1>16 DEF Switch, RdeOld, RtrOld, RdeReady, RtrReady, Ready
  <2>2. SeNew' /\ pipe'[SM] = <<>> /\ pipe'[RS] = <<>>
    <3>1. DOMAIN se'.peers \ se'.delete = DOMAIN main.peers
      BY <1>10
    <3> QED
      BY SMTT(30), <3>1, <1>2, <1>5, <1>9, <1>16 DEF SeNew, SeOld
  <2>3. PICK k : k = Len(q) + Len(s)
    OBVIOUS
  <2>4. k \in DOMAIN r /\ r[k] = DRAIN
    BY ZenonT(30), <2>3, <1>13, <1>20 DEF Sent
  <2>5. \A i \in DOMAIN r \ {k} : r[i] # DRAIN
    <3> SUFFICES ASSUME NEW i \in DOMAIN r, i # k
                 PROVE  r[i] # DRAIN
      BY SMTT(30)
    <3>1. CASE i \in DOMAIN q
      BY ZenonT(30), <3>1, <1>2, <1>19, <1>20 DEF Sent, SeOld, NoDrain
    <3>2. CASE i \notin DOMAIN q
      <4>1. i - Len(q) \in DOMAIN s /\ r[i] = s[i - Len(q)]
        BY SMTT(30), <3>2, <1>20 DEF Sent
      <4>2. i \in Nat
        <5>1. IsSeq(r)
          BY <1>20 DEF Sent
        <5>2. DOMAIN r = 1 .. Len(r) /\ Len(r) \in Nat
          BY Zenon, <5>1, SeqFacts
        <5> QED
          BY SMTT(30), <5>2
      <4>3. i - Len(q) # Len(s)
        BY SMTT(30), <2>3, <4>2, <1>13, <1>20
      <4> QED
        BY ZenonT(30), <4>1, <4>3, <1>21
    <3> QED
      BY SMTT(30), <3>1, <3>2
  <2> QED
    BY ZenonT(30), <2>1, <2>2, <2>4, <2>5, <1>19 DEF Switch
<1> QED
  BY SMTT(30), <1>5, <1>18, <1>22, <1>23, <1>24 DEF Inv, Handshake

LEMMA FiniteImage ==
    ASSUME NEW k, NEW S, IsFiniteSet(S)
    PROVE  IsFiniteSet({dump(k, b) : b \in S})
<1>1. PICK f : f = [b \in S |-> dump(k, b)]
  BY Zenon
<1>2. f \in Surjection(S, {dump(k, b) : b \in S})
  <2>1. PICK T : T = {dump(k, b) : b \in S}
    BY ZenonT(30)
  <2>2. f \in [S -> T] /\ \A t \in T : \E b \in S : f[b] = t
    BY <1>1, <2>1
  <2> QED
    BY Zenon, <2>1, <2>2 DEF Surjection
<1> QED
  BY <1>2, FS_Surjection

\* rde_softreconfig_in_done(), called n times.
LEMMA InDone ==
    ASSUME NEW r, NEW n \in {0, 1}, NEW gone, NEW c, in_done(r, n, gone, c), ~fatal,
           DOMAIN r = RdeFields, IsFiniteSet(r.dumps), IsFiniteSet(r.ribs),
           IsFiniteSet(DOMAIN r.peers), r.soft = Cardinality(r.dumps) + n,
           \A d \in r.dumps : d.kind \in {"in", "flush", "out", "fib"},
           \A p \in DOMAIN r.peers : r.peers[p].loc \in r.ribs
    PROVE  /\ DOMAIN rde' = RdeFields /\ rde'.ver = r.ver /\ rde'.nconf = r.nconf
           /\ rde'.ribs = r.ribs /\ DOMAIN rde'.peers = DOMAIN r.peers \ gone
           /\ \A p \in DOMAIN rde'.peers : rde'.peers[p] = r.peers[p]
           /\ Dumps' /\ ~fatal'
           /\ \/ (n = 0 \/ r.dumps # {}) /\ rde'.dumps = r.dumps /\ pipe' = Piped(c, NoMsg)
              \/ n = 1 /\ rde'.dumps # {} /\ pipe' = Piped(c, NoMsg)
              \/ n = 1 /\ rde'.dumps = {} /\ pipe' = Piped(c, To(RM, <<DONE>>))
<1>0. Cardinality(r.dumps) \in Nat /\ (Cardinality(r.dumps) = 0 <=> r.dumps = {})
  BY SMTT(30), FS_CardinalityType, FS_EmptySet
<1>1. PICK kept : kept = [r EXCEPT !.peers = [q \in DOMAIN r.peers \ gone |-> r.peers[q]]]
  BY Zenon
<1>2. /\ DOMAIN kept = RdeFields /\ kept.ver = r.ver /\ kept.nconf = r.nconf
      /\ kept.ribs = r.ribs /\ kept.soft = r.soft /\ kept.dumps = r.dumps
      /\ kept.peers = [q \in DOMAIN r.peers \ gone |-> r.peers[q]]
  BY <1>1 DEF RdeFields
<1>3. /\ DOMAIN kept.peers = DOMAIN r.peers \ gone
      /\ \A p \in DOMAIN kept.peers : kept.peers[p] = r.peers[p]
  BY <1>2
<1>4. CASE n = 0 \/ r.soft > n
  <2>1. rde' = [kept EXCEPT !.soft = kept.soft - n] /\ pipe' = Piped(c, NoMsg) /\ fatal' = fatal
    BY ZenonT(30), <1>1, <1>4 DEF in_done
  <2>2. /\ DOMAIN rde' = RdeFields /\ rde'.ver = r.ver /\ rde'.nconf = r.nconf
        /\ rde'.ribs = r.ribs /\ rde'.peers = kept.peers /\ rde'.dumps = r.dumps
        /\ rde'.soft = r.soft - n
    BY SMTT(30), <1>2, <2>1 DEF RdeFields
  <2>3. Dumps'
    BY SMTT(30), <1>0, <2>2 DEF Dumps
  <2>4. n = 0 \/ r.dumps # {}
    BY SMTT(30), <1>0, <1>4
  <2> QED
    BY ZenonT(30), <1>3, <2>1, <2>2, <2>3, <2>4
<1>5. CASE ~(n = 0 \/ r.soft > n)
  <2>1. n = 1 /\ r.dumps = {}
    BY SMTT(30), <1>0, <1>5
  <2>2. PICK fib \in SUBSET r.ribs :
           /\ rde' = [kept EXCEPT !.soft = Cardinality(Syncs(r, fib)),
                                  !.dumps = kept.dumps \cup Syncs(r, fib)]
           /\ pipe' = Piped(c, DoneIf(Syncs(r, fib) = {}))
           /\ fatal' = (\E b \in Outbound(r) : b \notin r.ribs)
    BY ZenonT(30), <1>1, <1>5 DEF in_done
  <2>3. PICK next : next = Syncs(r, fib)
    BY SMTT(30)
  <2>4. Outbound(r) \subseteq r.ribs
    BY DEF Outbound
  <2>5. ~fatal'
    BY Zenon, <2>2, <2>4
  <2>6. /\ IsFiniteSet(next) /\ \A d \in next : d.kind \in {"in", "flush", "out", "fib"}
    <3>1. IsFiniteSet(fib) /\ IsFiniteSet(Outbound(r))
      BY Zenon, <2>4, FS_Subset
    <3>2. IsFiniteSet({dump("fib", b) : b \in fib}) /\ IsFiniteSet({dump("out", b) : b \in Outbound(r)})
      BY Zenon, <3>1, FiniteImage
    <3>3. IsFiniteSet(next)
      BY ZenonT(30), <2>3, <3>2, FS_Union DEF Syncs
    <3>4. \A d \in next : d.kind \in {"in", "flush", "out", "fib"}
      BY <2>3 DEF Syncs, dump
    <3> QED
      BY Zenon, <3>3, <3>4
  <2>7. /\ DOMAIN rde' = RdeFields /\ rde'.ver = r.ver /\ rde'.nconf = r.nconf
        /\ rde'.ribs = r.ribs /\ rde'.peers = kept.peers
        /\ rde'.dumps = next /\ rde'.soft = Cardinality(next)
    <3>1. rde' = [kept EXCEPT !.soft = Cardinality(next), !.dumps = kept.dumps \cup next]
      BY ZenonT(30), <2>2, <2>3
    <3> QED
      BY ZenonT(30), <1>2, <2>1, <3>1 DEF RdeFields
  <2>8. Dumps'
    BY SMTT(30), <2>6, <2>7 DEF Dumps
  <2>9. \/ rde'.dumps # {} /\ pipe' = Piped(c, NoMsg)
        \/ rde'.dumps = {} /\ pipe' = Piped(c, To(RM, <<DONE>>))
    BY SMTT(30), <2>2, <2>3, <2>7 DEF DoneIf, RM, DONE
  <2> QED
    BY ZenonT(30), <1>3, <2>1, <2>5, <2>7, <2>8, <2>9
<1> QED
  BY Zenon, <1>4, <1>5

LEMMA PeersFinite ==
    ASSUME Inv
    PROVE  IsFiniteSet(DOMAIN rde.peers)
BY Zenon, FS_Subset, ReconfAssumption DEF Inv, Shape

LEMMA PeerDownIs ==
    ASSUME Inv, NEW p \in DOMAIN rde.peers, NEW gone, NEW c, peer_down(p, gone, c)
    PROVE  /\ DOMAIN rde' = DOMAIN rde /\ rde'.ver = rde.ver /\ rde'.nconf = rde.nconf
           /\ rde'.ribs = rde.ribs /\ DOMAIN rde'.peers = DOMAIN rde.peers \ gone
           /\ \A x \in DOMAIN rde'.peers :
                 /\ DOMAIN rde'.peers[x] = PeerFields
                 /\ rde'.peers[x].state \in {"none", "up", "down"}
                 /\ rde'.peers[x].conf = rde.peers[x].conf
                 /\ rde'.peers[x].loc = rde.peers[x].loc
           /\ Dumps' /\ ~fatal' /\ Reports(c)
<1>1. PICK d : d = dump("flush", p)
  OBVIOUS
<1>2. PICK f : f = [rde.peers EXCEPT ![p] = [rde.peers[p] EXCEPT !.state = "down"]]
  BY Zenon
<1>3. PICK r : r = [rde EXCEPT !.peers = f, !.dumps = rde.dumps \ {d}]
  OBVIOUS
<1>4. PICK n : n = IF d \in rde.dumps THEN 1 ELSE 0
  OBVIOUS
<1>5. in_done(r, n, gone, c)
  BY ZenonT(30), <1>1, <1>2, <1>3, <1>4 DEF peer_down
<1>6. /\ DOMAIN r = RdeFields /\ r.ver = rde.ver /\ r.nconf = rde.nconf /\ r.ribs = rde.ribs
      /\ r.peers = f /\ r.dumps = rde.dumps \ {d} /\ r.soft = rde.soft
  BY <1>3 DEF Inv, Shape, RdeFields
<1>7. /\ DOMAIN f = DOMAIN rde.peers
      /\ \A x \in DOMAIN f : /\ DOMAIN f[x] = PeerFields
                             /\ f[x].state \in {"none", "up", "down"}
                             /\ f[x].conf = rde.peers[x].conf /\ f[x].loc = rde.peers[x].loc
  <2>1. DOMAIN f = DOMAIN rde.peers
    BY Zenon, <1>2
  <2> SUFFICES ASSUME NEW x \in DOMAIN rde.peers
               PROVE  /\ DOMAIN f[x] = PeerFields
                      /\ f[x].state \in {"none", "up", "down"}
                      /\ f[x].conf = rde.peers[x].conf /\ f[x].loc = rde.peers[x].loc
    BY Zenon, <2>1
  <2>2. DOMAIN rde.peers[x] = PeerFields /\ rde.peers[x].state \in {"none", "up", "down"}
    BY DEF Inv, Shape
  <2>3. f[x] = rde.peers[x] \/ f[x] = [rde.peers[x] EXCEPT !.state = "down"]
    BY Zenon, <1>2
  <2> QED
    BY <2>2, <2>3 DEF PeerFields
<1>8. /\ IsFiniteSet(rde.dumps) /\ rde.soft = Cardinality(rde.dumps) /\ IsFiniteSet(rde.ribs)
      /\ \A e \in rde.dumps : e.kind \in {"in", "flush", "out", "fib"}
  BY DEF Inv, Dumps
<1>9. n \in {0, 1} /\ IsFiniteSet(r.dumps) /\ r.soft = Cardinality(r.dumps) + n
  <2>1. CASE d \in rde.dumps
    <3>1. /\ IsFiniteSet(rde.dumps \ {d}) /\ Cardinality(rde.dumps \ {d}) = Cardinality(rde.dumps) - 1
          /\ Cardinality(rde.dumps) \in Nat
      BY ZenonT(30), <2>1, <1>8, FS_RemoveElement, FS_CardinalityType
    <3> QED
      BY SMTT(30), <2>1, <3>1, <1>4, <1>6, <1>8
  <2>2. CASE d \notin rde.dumps
    <3>1. rde.dumps \ {d} = rde.dumps /\ Cardinality(rde.dumps) \in Nat
      BY ZenonT(30), <2>2, <1>8, FS_CardinalityType
    <3>2. r.dumps = rde.dumps /\ n = 0
      BY ZenonT(30), <2>2, <3>1, <1>4, <1>6
    <3>3. r.soft = Cardinality(rde.dumps)
      BY Zenon, <1>6, <1>8
    <3> QED
      BY SMTT(30), <3>1, <3>2, <3>3, <1>8
  <2> QED
    BY ZenonT(30), <2>1, <2>2
<1>10. /\ IsFiniteSet(DOMAIN r.peers) /\ IsFiniteSet(r.ribs)
       /\ \A e \in r.dumps : e.kind \in {"in", "flush", "out", "fib"}
       /\ \A x \in DOMAIN r.peers : r.peers[x].loc \in r.ribs
  BY ZenonT(30), <1>6, <1>7, <1>8, PeersFinite DEF Inv, Known
<1>11. /\ DOMAIN rde' = RdeFields /\ rde'.ver = r.ver /\ rde'.nconf = r.nconf
       /\ rde'.ribs = r.ribs /\ DOMAIN rde'.peers = DOMAIN r.peers \ gone
       /\ \A x \in DOMAIN rde'.peers : rde'.peers[x] = r.peers[x]
       /\ Dumps' /\ ~fatal'
       /\ \/ (n = 0 \/ r.dumps # {}) /\ rde'.dumps = r.dumps /\ pipe' = Piped(c, NoMsg)
          \/ n = 1 /\ rde'.dumps # {} /\ pipe' = Piped(c, NoMsg)
          \/ n = 1 /\ rde'.dumps = {} /\ pipe' = Piped(c, To(RM, <<DONE>>))
  <2>1. ~fatal
    BY SMTT(30) DEF Inv
  <2> QED
    BY ZenonT(30), <2>1, <1>5, <1>6, <1>9, <1>10, InDone
<1>12. Reports(c)
  <2>1. n = 1 => d \in rde.dumps /\ rde.dumps # {}
    BY <1>4
  <2>2. n = 0 => r.dumps = rde.dumps
    BY SMTT(30), <1>4, <1>6
  <2> QED
    BY ZenonT(30), <2>1, <2>2, <1>6, <1>9, <1>11 DEF Reports
<1>13. DOMAIN rde = RdeFields
  BY Zenon DEF Inv, Shape, RdeFields
<1> QED
  BY ZenonT(30), <1>6, <1>7, <1>11, <1>12, <1>13

LEMMA RdeDownKeeps ==
    ASSUME Inv, RdeDown
    PROVE  Inv'
<1>1. Received(SR, "DOWN") /\ UNCHANGED <<main, se, rtr>>
  BY SMTT(30) DEF RdeDown, SR
<1>2. /\ pipe[SR] # <<>> /\ Head(pipe[SR]) = pipe[SR][1] /\ pipe[SR][1] \in QMsgs
      /\ pipe[SR][1].type = "DOWN" /\ ~fatal /\ SR \in Chans /\ Piping
  BY Zenon, <1>1, HeadIs
<1>3. /\ pipe[SR][1] # DRAIN /\ ~IsAdd(pipe[SR][1]) /\ \A x : pipe[SR][1] # DELETE(x)
  BY Zenon, <1>2, MsgKinds
<1>4. PICK p : p = pipe[SR][1].peer
  OBVIOUS
<1>5. /\ DOMAIN rde' = DOMAIN rde /\ rde'.ver = rde.ver /\ rde'.nconf = rde.nconf
      /\ rde'.ribs = rde.ribs /\ DOMAIN rde'.peers = DOMAIN rde.peers
      /\ \A x \in DOMAIN rde'.peers :
            /\ DOMAIN rde'.peers[x] = PeerFields
            /\ rde'.peers[x].state \in {"none", "up", "down"}
            /\ rde'.peers[x].conf = rde.peers[x].conf
            /\ rde'.peers[x].loc = rde.peers[x].loc
      /\ Dumps' /\ ~fatal' /\ Reports(SR)
  <2>1. CASE p \in DOMAIN rde.peers
    <3>1. PICK gone : gone = {}
      BY ZenonT(30)
    <3>2. peer_down(p, gone, SR)
      BY ZenonT(30), <2>1, <3>1, <1>2, <1>4 DEF RdeDown, SR
    <3>3. /\ DOMAIN rde' = DOMAIN rde /\ rde'.ver = rde.ver /\ rde'.nconf = rde.nconf
          /\ rde'.ribs = rde.ribs /\ DOMAIN rde'.peers = DOMAIN rde.peers \ gone
          /\ \A x \in DOMAIN rde'.peers :
                /\ DOMAIN rde'.peers[x] = PeerFields
                /\ rde'.peers[x].state \in {"none", "up", "down"}
                /\ rde'.peers[x].conf = rde.peers[x].conf
                /\ rde'.peers[x].loc = rde.peers[x].loc
          /\ Dumps' /\ ~fatal' /\ Reports(SR)
      BY ZenonT(30), <2>1, <3>2, PeerDownIs
    <3>4. DOMAIN rde'.peers = DOMAIN rde.peers
      BY SMTT(30), <3>1, <3>3
    <3> QED
      BY Zenon, <3>3, <3>4
  <2>2. CASE p \notin DOMAIN rde.peers
    <3>1. pipe' = Piped(SR, NoMsg) /\ rde' = rde /\ fatal' = fatal
      BY ZenonT(30), <2>2, <1>2, <1>4 DEF RdeDown, SR
    <3> QED
      BY ZenonT(30), <3>1, <1>2 DEF Inv, Shape, Dumps, Reports
  <2> QED
    BY ZenonT(30), <2>1, <2>2
<1>6. /\ Piping' /\ pipe'[SR] = Tail(pipe[SR]) /\ DumpsMove
      /\ \A e \in Chans \ {SR, RM} : pipe'[e] = pipe[e]
  BY SMTT(30), <1>2, <1>5, ReportsMove, Channels
<1>7. DOMAIN rde'.peers \subseteq Peers
  BY SMTT(30), <1>5 DEF Inv, Shape
<1> QED
  BY ZenonT(30), <1>1, <1>2, <1>3, <1>5, <1>6, <1>7, HeardKeeps

LEMMA RdeDeleteKeeps ==
    ASSUME Inv, RdeDelete
    PROVE  Inv'
<1>1. Received(SR, "DELETE") /\ UNCHANGED <<main, se, rtr>>
  BY SMTT(30) DEF RdeDelete, SR
<1>2. /\ pipe[SR] # <<>> /\ Head(pipe[SR]) = pipe[SR][1] /\ pipe[SR][1] \in QMsgs
      /\ pipe[SR][1].type = "DELETE" /\ ~fatal /\ SR \in Chans /\ Piping
  BY SMTT(30), <1>1, HeadIs
<1>4. PICK p : p = pipe[SR][1].peer
  OBVIOUS
<1>3. /\ pipe[SR][1] # DRAIN /\ ~IsAdd(pipe[SR][1]) /\ \A x : pipe[SR][1] = DELETE(x) => x = p
  BY SMTT(30), <1>2, <1>4, MsgKinds
<1>5. /\ DOMAIN rde' = DOMAIN rde /\ rde'.ver = rde.ver /\ rde'.nconf = rde.nconf
      /\ rde'.ribs = rde.ribs /\ DOMAIN rde'.peers = DOMAIN rde.peers \ {p}
      /\ \A x \in DOMAIN rde'.peers :
            /\ DOMAIN rde'.peers[x] = PeerFields
            /\ rde'.peers[x].state \in {"none", "up", "down"}
            /\ rde'.peers[x].conf = rde.peers[x].conf
            /\ rde'.peers[x].loc = rde.peers[x].loc
      /\ Dumps' /\ ~fatal' /\ Reports(SR)
  <2>1. CASE p \in DOMAIN rde.peers /\ rde.peers[p].state # "down"
    <3>1. peer_down(p, {p}, SR)
      BY SMTT(30), <2>1, <1>2, <1>4 DEF RdeDelete, SR
    <3> QED
      BY ZenonT(30), <2>1, <3>1, PeerDownIs
  <2>2. CASE p \notin DOMAIN rde.peers
    <3>1. pipe' = Piped(SR, NoMsg) /\ rde' = rde /\ fatal' = fatal
      BY ZenonT(30), <2>2, <1>2, <1>4 DEF RdeDelete, SR
    <3> QED
      BY ZenonT(30), <2>2, <3>1, <1>2 DEF Inv, Shape, Dumps, Reports
  <2>3. CASE p \in DOMAIN rde.peers /\ rde.peers[p].state = "down"
    <3>1. in_done(rde, 0, {p}, SR)
      BY ZenonT(30), <2>3, <1>2, <1>4 DEF RdeDelete, SR
    <3>2. /\ IsFiniteSet(rde.dumps) /\ rde.soft = Cardinality(rde.dumps) /\ IsFiniteSet(rde.ribs)
          /\ \A e \in rde.dumps : e.kind \in {"in", "flush", "out", "fib"}
      BY DEF Inv, Dumps
    <3>3. rde.soft = Cardinality(rde.dumps) + 0
      BY SMTT(30), <3>2, FS_CardinalityType
    <3>4. DOMAIN rde = RdeFields /\ \A x \in DOMAIN rde.peers : rde.peers[x].loc \in rde.ribs
      BY DEF Inv, Shape, RdeFields, Known
    <3>5. IsFiniteSet(DOMAIN rde.peers)
      BY PeersFinite
    <3>6. PICK z : z = 0
      OBVIOUS
    <3>7. z \in {0, 1} /\ in_done(rde, z, {p}, SR) /\ rde.soft = Cardinality(rde.dumps) + z
      BY ZenonT(30), <3>1, <3>3, <3>6
    <3>8. /\ DOMAIN rde' = RdeFields /\ rde'.ver = rde.ver /\ rde'.nconf = rde.nconf
          /\ rde'.ribs = rde.ribs /\ DOMAIN rde'.peers = DOMAIN rde.peers \ {p}
          /\ \A x \in DOMAIN rde'.peers : rde'.peers[x] = rde.peers[x]
          /\ Dumps' /\ ~fatal'
          /\ \/ (z = 0 \/ rde.dumps # {}) /\ rde'.dumps = rde.dumps /\ pipe' = Piped(SR, NoMsg)
             \/ z = 1 /\ rde'.dumps # {} /\ pipe' = Piped(SR, NoMsg)
             \/ z = 1 /\ rde'.dumps = {} /\ pipe' = Piped(SR, To(RM, <<DONE>>))
      BY SMTT(30), <1>2, <3>2, <3>4, <3>5, <3>7, InDone
    <3> QED
      BY SMTT(30), <3>4, <3>6, <3>8 DEF Inv, Shape, Reports
  <2> QED
    BY ZenonT(30), <2>1, <2>2, <2>3
<1>6. /\ Piping' /\ pipe'[SR] = Tail(pipe[SR]) /\ DumpsMove
      /\ \A e \in Chans \ {SR, RM} : pipe'[e] = pipe[e]
  BY ZenonT(30), <1>2, <1>5, ReportsMove, Channels
<1>7. DOMAIN rde'.peers \subseteq Peers
  BY ZenonT(30), <1>5 DEF Inv, Shape
<1>8. \A x \in DOMAIN rde'.peers : x \in DOMAIN rde.peers /\ pipe[SR][1] # DELETE(x)
  BY SMTT(30), <1>3, <1>5
<1> QED
  BY ZenonT(30), <1>1, <1>2, <1>3, <1>5, <1>6, <1>7, <1>8, HeardKeeps

LEMMA DumpDoneKeeps ==
    ASSUME Inv, NEW d \in rde.dumps, DumpDone(d), NoneApart
    PROVE  Inv'
<1>1. UNCHANGED <<main, se, rtr>> /\ ~fatal
  BY DEF DumpDone
<1>2. PICK r : r = [rde EXCEPT !.dumps = rde.dumps \ {d}]
  BY ZenonT(30)
<1>3. /\ DOMAIN r = RdeFields /\ r.ver = rde.ver /\ r.nconf = rde.nconf /\ r.ribs = rde.ribs
      /\ r.peers = rde.peers /\ r.dumps = rde.dumps \ {d} /\ r.soft = rde.soft
  BY SMTT(30), <1>2 DEF Inv, Shape, RdeFields
<1>4. /\ IsFiniteSet(rde.dumps) /\ rde.soft = Cardinality(rde.dumps) /\ IsFiniteSet(rde.ribs)
      /\ \A e \in rde.dumps : e.kind \in {"in", "flush", "out", "fib"}
  BY DEF Inv, Dumps
<1>5. /\ IsFiniteSet(rde.dumps \ {d}) /\ Cardinality(rde.dumps \ {d}) = Cardinality(rde.dumps) - 1
      /\ Cardinality(rde.dumps) \in Nat
  BY ZenonT(30), <1>4, FS_RemoveElement, FS_CardinalityType
<1>6. /\ IsFiniteSet(r.dumps) /\ r.soft = Cardinality(r.dumps) + 1
      /\ Cardinality(r.dumps) \in Nat /\ (Cardinality(r.dumps) = 0 <=> r.dumps = {})
  BY SMTT(30), <1>3, <1>4, <1>5, FS_CardinalityType, FS_EmptySet
<1>7. /\ DOMAIN rde' = RdeFields /\ rde'.ver = rde.ver /\ rde'.nconf = rde.nconf
      /\ rde'.ribs = rde.ribs /\ DOMAIN rde'.peers = DOMAIN rde.peers
      /\ \A x \in DOMAIN rde'.peers : rde'.peers[x] = rde.peers[x]
      /\ Dumps' /\ ~fatal'
      /\ \/ rde'.dumps # {} /\ pipe' = Piped(None, NoMsg)
         \/ rde'.dumps = {} /\ pipe' = Piped(None, To(RM, <<DONE>>))
  <2>1. CASE d.kind \in {"in", "flush"}
    <3>1. PICK gone, n : gone = {} /\ n = 1
      BY ZenonT(30)
    <3>2. in_done(r, n, gone, None) /\ n \in {0, 1} /\ r.soft = Cardinality(r.dumps) + n
      BY ZenonT(30), <2>1, <3>1, <1>2, <1>6 DEF DumpDone
    <3>3. /\ IsFiniteSet(DOMAIN r.peers) /\ IsFiniteSet(r.ribs)
          /\ \A e \in r.dumps : e.kind \in {"in", "flush", "out", "fib"}
          /\ \A x \in DOMAIN r.peers : r.peers[x].loc \in r.ribs
      BY ZenonT(30), <1>3, <1>4, PeersFinite DEF Inv, Known
    <3>4. /\ DOMAIN rde' = RdeFields /\ rde'.ver = r.ver /\ rde'.nconf = r.nconf
          /\ rde'.ribs = r.ribs /\ DOMAIN rde'.peers = DOMAIN r.peers \ gone
          /\ \A x \in DOMAIN rde'.peers : rde'.peers[x] = r.peers[x]
          /\ Dumps' /\ ~fatal'
          /\ \/ (n = 0 \/ r.dumps # {}) /\ rde'.dumps = r.dumps /\ pipe' = Piped(None, NoMsg)
             \/ n = 1 /\ rde'.dumps # {} /\ pipe' = Piped(None, NoMsg)
             \/ n = 1 /\ rde'.dumps = {} /\ pipe' = Piped(None, To(RM, <<DONE>>))
      <4>1. ~fatal /\ DOMAIN r = RdeFields /\ IsFiniteSet(r.dumps)
        BY ZenonT(30), <1>1, <1>3, <1>6
      <4> QED
        BY SMTT(30), <4>1, <3>2, <3>3, InDone
    <3>5. DOMAIN rde'.peers = DOMAIN rde.peers
      BY SMTT(30), <3>1, <3>4, <1>3
    <3> QED
      BY SMTT(30), <3>1, <3>4, <3>5, <1>3
  <2>2. CASE d.kind \notin {"in", "flush"}
    <3>1. /\ rde' = [r EXCEPT !.soft = r.soft - 1] /\ fatal' = fatal
          /\ pipe' = Piped(None, DoneIf(rde.soft = 1))
      BY <2>2, <1>2 DEF DumpDone
    <3>2. /\ DOMAIN rde' = RdeFields /\ rde'.ver = r.ver /\ rde'.nconf = r.nconf
          /\ rde'.ribs = r.ribs /\ rde'.peers = r.peers /\ rde'.dumps = r.dumps
          /\ rde'.soft = r.soft - 1
      BY SMTT(30), <3>1, <1>3 DEF RdeFields
    <3>3. rde'.soft = Cardinality(rde'.dumps)
      BY SMTT(30), <3>2, <1>6
    <3>4. Dumps'
      BY SMTT(30), <3>2, <3>3, <1>3, <1>4, <1>6 DEF Dumps
    <3>5. rde.soft = 1 <=> rde'.dumps = {}
      BY SMTT(30), <3>2, <1>3, <1>6
    <3>6. \/ rde'.dumps # {} /\ pipe' = Piped(None, NoMsg)
          \/ rde'.dumps = {} /\ pipe' = Piped(None, To(RM, <<DONE>>))
      BY Zenon, <3>1, <3>5 DEF DoneIf, RM, DONE
    <3> QED
      BY ZenonT(30), <3>1, <3>2, <3>4, <3>6, <1>1, <1>3
  <2> QED
    BY ZenonT(30), <2>1, <2>2
<1>8. Piping' /\ DumpsMove /\ \A e \in Chans \ {RM} : pipe'[e] = pipe[e]
  <2>0. Piping /\ RM \in Chans /\ None \notin Chans /\ rde.dumps # {}
    BY SMTT(30), Channels DEF Inv, Shape, NoneApart
  <2>1. CASE rde'.dumps # {} /\ pipe' = Piped(None, NoMsg)
    <3>1. Piping' /\ \A e \in Chans : pipe'[e] = pipe[e]
      BY ZenonT(30), <2>0, <2>1, NoSend
    <3> QED
      BY ZenonT(30), <2>0, <2>1, <3>1 DEF DumpsMove
  <2>2. CASE rde'.dumps = {} /\ pipe' = Piped(None, To(RM, <<DONE>>))
    <3>1. pipe[RM] = <<>>
      BY SMTT(30), <2>0, DumpsStage DEF Inv
    <3>2. IsSeq(<<DONE>>) /\ pipe[RM] \o <<DONE>> = <<DONE>>
      BY SMTT(30), <3>1, ConstIsSeq, Tuples
    <3>3. /\ Piping' /\ pipe'[RM] = pipe[RM] \o <<DONE>>
          /\ \A e \in Chans \ {RM} : pipe'[e] = pipe[e]
      BY ZenonT(30), <2>0, <2>2, <3>2, OnlySend
    <3> QED
      BY ZenonT(30), <2>0, <2>2, <3>2, <3>3 DEF DumpsMove
  <2> QED
    BY ZenonT(30), <2>1, <2>2, <1>7
<1>9. pipe'[SR] = pipe[SR] /\ main' = main /\ se' = se /\ rtr' = rtr
  BY ZenonT(30), <1>1, <1>8, Channels
<1>10. Handshake'
  <2>1. /\ \A e \in Chans \ {SR, RM} : pipe'[e] = pipe[e]
        /\ NoDrain(pipe[SR]) => NoDrain(pipe'[SR])
        /\ (\E k \in DOMAIN pipe[SR] : /\ pipe[SR][k] = DRAIN
                                       /\ \A i \in DOMAIN pipe[SR] \ {k} : pipe[SR][i] # DRAIN)
           => \E k \in DOMAIN pipe'[SR] : /\ pipe'[SR][k] = DRAIN
                                          /\ \A i \in DOMAIN pipe'[SR] \ {k} : pipe'[SR][i] # DRAIN
    BY SMTT(30), <1>8, <1>9 DEF NoDrain
  <2>2. Handshake
    BY SMTT(30) DEF Inv
  <2> QED
    BY ZenonT(30), <2>1, <2>2, <1>1, <1>7, <1>8, WalksHandshake
<1>11. Known' /\ Coming' /\ Configured'
  <2>1. Known /\ Coming /\ Configured /\ main.ver \in Nat
    BY SMTT(30), ReconfAssumption DEF Inv, Parent
  <2>2. /\ rde.ribs \subseteq rde'.ribs /\ main'.ver = main.ver /\ main'.ribs = main.ribs
        /\ \A p \in DOMAIN rde.peers : /\ rde'.peers[p].conf = rde.peers[p].conf
                                       /\ rde'.peers[p].loc = rde.peers[p].loc
    BY ZenonT(30), <1>7, <1>9
  <2> QED
    BY SMTT(30), <2>1, <2>2, <1>7, <1>9, NeighborsKept
<1>12. Shape'
  BY ZenonT(30), <1>7, <1>8, <1>9 DEF Inv, Shape, RdeFields
<1>13. Parent'
  BY ZenonT(30), <1>7, <1>9 DEF Inv, Parent, IsConfig
<1> QED
  BY ZenonT(30), <1>7, <1>10, <1>11, <1>12, <1>13 DEF Inv

\* rde_reload_done()
LEMMA RdeDoneKeeps ==
    ASSUME Inv, RdeDone, NoneApart, RibsStay
    PROVE  Inv'
<1>1. pipe[MR] # <<>> /\ Head(pipe[MR]).type = "DONE" /\ ~fatal
  BY ZenonT(30) DEF RdeDone, Received, MR
<1>2. /\ Finish /\ RdeOld /\ pipe[MR] = <<DONE>> /\ pipe[RM] = <<>>
      /\ rde.nconf = ConfOf(main)
  BY SMTT(30), <1>1, StageMR, Tuples, Types DEF Inv
<1>3. main' = main /\ se' = se /\ rtr' = rtr
  BY SMTT(30) DEF RdeDone
<1>4. /\ rde.nconf # None /\ rde.nconf.ver = main.ver /\ rde.nconf.ribs = main.ribs
      /\ rde.dumps = {}
  BY SMTT(30), <1>2 DEF NoneApart, ConfOf, RdeOld
<1>5. \A p \in DOMAIN rde.peers : rde.peers[p].conf.rib \in rde.ribs
  BY SMTT(30) DEF Inv, Known, ConfRight
<1>6. PICK moved : moved = {p \in DOMAIN rde.peers : rde.peers[p].loc # rde.peers[p].conf.rib}
  BY Zenon
<1>7. PICK in \in BOOLEAN, flush \in SUBSET DOMAIN rde.peers, out \in SUBSET DOMAIN rde.peers :
          LET n == rde.nconf
              c == <<"main", "rde">>
              mvd == {p \in DOMAIN rde.peers : rde.peers[p].loc # rde.peers[p].conf.rib}
              prs == [p \in DOMAIN rde.peers |->
                          [rde.peers[p] EXCEPT !.loc = rde.peers[p].conf.rib,
                              !.rib = p \in flush \cup mvd, !.out = p \in out]]
              fls == {dump("flush", p) : p \in flush \cup mvd}
              r == [rde EXCEPT !.ver = n.ver, !.nconf = None, !.peers = prs,
                               !.ribs = n.ribs, !.soft = Cardinality(fls) + 1,
                               !.dumps = @ \cup fls]
          IN  IF n = None \/ \E p \in mvd : rde.peers[p].conf.rib \notin rde.ribs
              THEN fatal' = TRUE /\ rde' = rde /\ pipe' = pipe
              ELSE IF in
              THEN /\ rde' = [r EXCEPT !.dumps = @ \cup {dump("in", None)}]
                   /\ pipe' = Piped(c, NoMsg) /\ UNCHANGED fatal
              ELSE in_done(r, 1, {}, c)
  BY Zenon DEF RdeDone
<1>8. PICK peers : peers = [p \in DOMAIN rde.peers |->
                              [rde.peers[p] EXCEPT !.loc = rde.peers[p].conf.rib,
                                  !.rib = p \in flush \cup moved, !.out = p \in out]]
  BY Zenon
<1>9. PICK S : S = flush \cup moved
  BY Zenon
<1>10. PICK flushes : flushes = {dump("flush", p) : p \in S}
  BY Zenon
<1>11. PICK r : r = [rde EXCEPT !.ver = rde.nconf.ver, !.nconf = None, !.peers = peers,
                               !.ribs = rde.nconf.ribs, !.soft = Cardinality(flushes) + 1,
                               !.dumps = rde.dumps \cup flushes]
  OBVIOUS
<1>12. \/ /\ rde' = [r EXCEPT !.dumps = r.dumps \cup {dump("in", None)}]
          /\ pipe' = Piped(MR, NoMsg) /\ fatal' = fatal
       \/ in_done(r, 1, {}, MR)
  <2>1. ~(\E p \in moved : rde.peers[p].conf.rib \notin rde.ribs)
    BY SMTT(30), <1>5, <1>6
  <2> QED
    BY ZenonT(30), <1>4, <1>6, <1>7, <1>8, <1>9, <1>10, <1>11, <2>1 DEF MR
<1>13. /\ DOMAIN r = RdeFields /\ r.ver = main.ver /\ r.nconf = None /\ r.peers = peers
       /\ r.ribs = main.ribs /\ r.soft = Cardinality(flushes) + 1
       /\ r.dumps = rde.dumps \cup flushes
  BY SMTT(30), <1>4, <1>11 DEF Inv, Shape, RdeFields
<1>14. r.dumps = flushes
  BY ZenonT(30), <1>4, <1>13
<1>15. IsFiniteSet(flushes) /\ \A e \in flushes : e.kind = "flush"
  <2>1. S \subseteq DOMAIN rde.peers
    BY SMTT(30), <1>6, <1>9
  <2>2. IsFiniteSet(S)
    BY ZenonT(30), <2>1, PeersFinite, FS_Subset
  <2>3. IsFiniteSet({dump("flush", p) : p \in S})
    BY SMTT(30), <2>2, FiniteImage
  <2> QED
    BY SMTT(30), <2>3, <1>10 DEF dump
<1>16. /\ DOMAIN peers = DOMAIN rde.peers
       /\ \A p \in DOMAIN peers :
             /\ DOMAIN peers[p] = PeerFields /\ peers[p].state \in {"none", "up", "down"}
             /\ peers[p].conf = rde.peers[p].conf /\ peers[p].loc = rde.peers[p].conf.rib
  <2>1. DOMAIN peers = DOMAIN rde.peers
    BY ZenonT(30), <1>8
  <2> SUFFICES ASSUME NEW p \in DOMAIN rde.peers
               PROVE  /\ DOMAIN peers[p] = PeerFields /\ peers[p].state \in {"none", "up", "down"}
                      /\ peers[p].conf = rde.peers[p].conf
                      /\ peers[p].loc = rde.peers[p].conf.rib
    BY SMTT(30), <2>1
  <2>2. DOMAIN rde.peers[p] = PeerFields /\ rde.peers[p].state \in {"none", "up", "down"}
    BY DEF Inv, Shape
  <2>3. PICK a, b : a = (p \in flush \cup moved) /\ b = (p \in out)
    BY SMTT(30)
  <2>4. peers[p] = [rde.peers[p] EXCEPT !.loc = rde.peers[p].conf.rib, !.rib = a, !.out = b]
    BY ZenonT(30), <1>8, <2>3
  <2> QED
    BY SMTT(30), <2>2, <2>4 DEF PeerFields
<1>17. /\ SeNew /\ se.delete = {} /\ NoDrain(pipe[SR]) /\ se.ver = main.ver
       /\ DOMAIN se.peers = DOMAIN main.peers
  BY SMTT(30), <1>2 DEF Finish, SeNew
<1>18. \A p \in DOMAIN rde.peers : rde.peers[p].conf.rib \in main.ribs
  <2>1. PICK d \in Configs : main.ribs = d.ribs /\ main.peers = d.peers
    BY DEF Inv, Parent, IsConfig
  <2> SUFFICES ASSUME NEW p \in DOMAIN rde.peers
               PROVE  rde.peers[p].conf.rib \in main.ribs
    BY ZenonT(30)
  <2>2. /\ ConfRight(p, rde.peers[p].conf, main, rde.ribs)
        /\ rde.peers[p].conf.ver = se.ver \/ Fixed(pipe[SR], p, 0, se)
    BY SMTT(30) DEF Inv, Known
  <2>3. rde.peers[p].conf.ver = main.ver \/ p \notin DOMAIN main.peers
    BY ZenonT(30), <2>2, <1>17 DEF Fixed, Renewed, NoDrain
  <2> QED
    BY ZenonT(30), <2>1, <2>2, <2>3 DEF ConfRight
<1>19. /\ IsFiniteSet(r.dumps) /\ IsFiniteSet(r.ribs) /\ IsFiniteSet(DOMAIN r.peers)
       /\ \A e \in r.dumps : e.kind \in {"in", "flush", "out", "fib"}
       /\ \A p \in DOMAIN r.peers : r.peers[p].loc \in r.ribs
  <2>1. IsFiniteSet(main.ribs)
    BY ReconfAssumption DEF Inv, Parent, IsConfig
  <2> QED
    BY ZenonT(30), <2>1, <1>13, <1>14, <1>15, <1>16, <1>18, PeersFinite
<1>20. /\ DOMAIN rde' = RdeFields /\ rde'.ver = main.ver /\ rde'.nconf = None
       /\ rde'.ribs = main.ribs /\ DOMAIN rde'.peers = DOMAIN rde.peers
       /\ \A p \in DOMAIN rde'.peers : rde'.peers[p] = peers[p]
       /\ Dumps' /\ ~fatal'
       /\ \/ rde'.dumps # {} /\ pipe' = Piped(MR, NoMsg)
          \/ rde'.dumps = {} /\ pipe' = Piped(MR, To(RM, <<DONE>>))
  <2>1. CASE /\ rde' = [r EXCEPT !.dumps = r.dumps \cup {dump("in", None)}]
             /\ pipe' = Piped(MR, NoMsg) /\ fatal' = fatal
    <3>1. PICK x : x = dump("in", None)
      OBVIOUS
    <3>2. x \notin flushes /\ x.kind = "in"
      BY SMTT(30), <3>1, <1>15 DEF dump
    <3>3. /\ DOMAIN rde' = RdeFields /\ rde'.ver = r.ver /\ rde'.nconf = r.nconf
          /\ rde'.ribs = r.ribs /\ rde'.peers = r.peers /\ rde'.soft = r.soft
          /\ rde'.dumps = r.dumps \cup {x}
      BY ZenonT(30), <2>1, <3>1, <1>13 DEF RdeFields
    <3>4. /\ IsFiniteSet(flushes \cup {x})
          /\ Cardinality(flushes \cup {x}) = Cardinality(flushes) + 1
      BY ZenonT(30), <3>2, <1>15, FS_AddElement
    <3>5. rde'.dumps = flushes \cup {x} /\ rde'.soft = Cardinality(rde'.dumps)
      BY SMTT(30), <3>3, <3>4, <1>13, <1>14
    <3>6. Dumps'
      BY ZenonT(30), <3>2, <3>3, <3>4, <3>5, <1>15, <1>19 DEF Dumps
    <3> QED
      BY SMTT(30), <2>1, <3>3, <3>5, <3>6, <1>1, <1>13, <1>16
  <2>2. CASE in_done(r, 1, {}, MR)
    <3>1. PICK gone, n : gone = {} /\ n = 1
      BY Zenon
    <3>2. in_done(r, n, gone, MR) /\ n \in {0, 1} /\ r.soft = Cardinality(r.dumps) + n
      BY ZenonT(30), <2>2, <3>1, <1>13, <1>14
    <3>4. /\ DOMAIN rde' = RdeFields /\ rde'.ver = r.ver /\ rde'.nconf = r.nconf
          /\ rde'.ribs = r.ribs /\ DOMAIN rde'.peers = DOMAIN r.peers \ gone
          /\ \A x \in DOMAIN rde'.peers : rde'.peers[x] = r.peers[x]
          /\ Dumps' /\ ~fatal'
          /\ \/ (n = 0 \/ r.dumps # {}) /\ rde'.dumps = r.dumps /\ pipe' = Piped(MR, NoMsg)
             \/ n = 1 /\ rde'.dumps # {} /\ pipe' = Piped(MR, NoMsg)
             \/ n = 1 /\ rde'.dumps = {} /\ pipe' = Piped(MR, To(RM, <<DONE>>))
      <4>1. ~fatal /\ DOMAIN r = RdeFields
        BY SMTT(30), <1>1, <1>13
      <4> QED
        BY ZenonT(30), <4>1, <1>19, <3>2, InDone
    <3>5. DOMAIN rde'.peers = DOMAIN rde.peers
      BY ZenonT(30), <3>1, <3>4, <1>13, <1>16
    <3> QED
      BY SMTT(30), <3>1, <3>4, <3>5, <1>13
  <2> QED
    BY ZenonT(30), <2>1, <2>2, <1>12
<1>21. /\ Piping' /\ pipe'[MR] = <<>> /\ \A e \in Chans \ {MR, RM} : pipe'[e] = pipe[e]
       /\ \/ rde'.dumps # {} /\ pipe'[RM] = <<>>
          \/ rde'.dumps = {} /\ pipe'[RM] = <<DONE>>
  <2>0. MR \in Chans /\ RM \in Chans /\ MR # RM /\ Piping
    BY SMTT(30), Channels DEF Inv, Shape
  <2>1. CASE rde'.dumps # {} /\ pipe' = Piped(MR, NoMsg)
    <3>1. Piping' /\ pipe'[MR] = <<>> /\ \A e \in Chans \ {MR} : pipe'[e] = pipe[e]
      BY SMTT(30), <2>0, <2>1, <1>2, ReadLast
    <3> QED
      BY ZenonT(30), <2>0, <2>1, <3>1, <1>2
  <2>2. CASE rde'.dumps = {} /\ pipe' = Piped(MR, To(RM, <<DONE>>))
    <3>1. /\ Piping' /\ pipe'[MR] = <<>> /\ pipe'[RM] = <<DONE>>
          /\ \A e \in Chans \ {MR, RM} : pipe'[e] = pipe[e]
      BY SMTT(30), <2>0, <2>2, <1>2, ReadReply
    <3> QED
      BY ZenonT(30), <2>2, <3>1
  <2> QED
    BY SMTT(30), <2>1, <2>2, <1>20
<1>22. /\ pipe'[MS] = pipe[MS] /\ pipe'[SM] = pipe[SM] /\ pipe'[MT] = pipe[MT]
       /\ pipe'[TM] = pipe[TM] /\ pipe'[SR] = pipe[SR] /\ pipe'[RS] = pipe[RS]
  BY SMTT(30), <1>21, Channels
<1>23. Known' /\ Coming' /\ Configured'
  <2>1. Shape /\ Known /\ Coming /\ Configured /\ Parent /\ UNCHANGED <<main, se>>
    BY SMTT(30), <1>3 DEF Inv
  <2>2. \A p \in DOMAIN rde.peers : /\ rde'.peers[p].conf = rde.peers[p].conf
                                    /\ rde'.peers[p].loc = rde.peers[p].conf.rib
    BY ZenonT(30), <1>16, <1>20
  <2> QED
    BY ZenonT(30), <2>1, <2>2, <1>17, <1>20, <1>22, NeighborsApplied
<1>24. Shape'
  BY ZenonT(30), <1>3, <1>16, <1>20, <1>21, <1>22 DEF Inv, Shape, RdeFields
<1>25. Parent'
  BY ZenonT(30), <1>3, <1>20 DEF Inv, Parent, IsConfig
<1>26. Finish'
  <2>1. ~RdeIdle
    BY SMTT(30), <1>2, Tuples DEF RdeIdle, RdeNew
  <2>2. RdeNew'
    BY ZenonT(30), <1>3, <1>20, <1>21 DEF RdeNew
  <2>3. ~RdeIdle'
    BY ZenonT(30), <1>21, Tuples DEF RdeIdle
  <2>4. /\ (RtrIdle <=> RtrIdle') /\ (RtrNew <=> RtrNew') /\ (RtrOld <=> RtrOld')
        /\ (SeNew <=> SeNew')
    BY ZenonT(30), <1>3, <1>22 DEF RtrIdle, RtrNew, RtrOld, SeNew
  <2> QED
    BY SMTT(30), <1>2, <1>3, <1>21, <1>22, <2>1, <2>2, <2>3, <2>4 DEF Finish, One, NoDrain
<1> QED
  BY ZenonT(30), <1>20, <1>23, <1>24, <1>25, <1>26 DEF Inv, Handshake

LEMMA InitInv ==
    ASSUME Init
    PROVE  Inv
<1>1. PICK c \in Configs :
          /\ main = [Booted(c) EXCEPT !.keyed = DOMAIN c.peers]
          /\ pipe = [x \in Chans |-> IF x[1] = "main" THEN SentConfig(Booted(c))[x] ELSE <<>>]
  BY Zenon DEF Init
<1>2. PICK b : b = Booted(c)
  OBVIOUS
<1>3. b = [ver |-> 1, listeners |-> c.listeners, ribs |-> c.ribs, peers |-> c.peers,
           reinit |-> c.listeners \cup DOMAIN c.peers, deleted |-> {}, keyed |-> {}, pending |-> 3]
  <2>1. PICK z : z = [ver |-> 1, listeners |-> {}, ribs |-> {}, peers |-> <<>>,
                      reinit |-> {}, deleted |-> {}, keyed |-> {}, pending |-> 3]
    BY Zenon
  <2>2. DOMAIN z.peers \cup z.deleted = {} /\ z.listeners = {}
    BY <2>1
  <2>3. b = merge_config(z, c)
    BY Zenon, <1>2, <2>1 DEF Booted
  <2>4. b = [z EXCEPT !.listeners = c.listeners, !.ribs = c.ribs, !.peers = c.peers,
                      !.reinit = (c.listeners \ {}) \cup (DOMAIN c.peers \ {}),
                      !.deleted = {} \ DOMAIN c.peers]
    BY ZenonT(30), <2>2, <2>3 DEF merge_config
  <2>5. /\ (c.listeners \ {}) \cup (DOMAIN c.peers \ {}) = c.listeners \cup DOMAIN c.peers
        /\ {} \ DOMAIN c.peers = {}
    OBVIOUS
  <2>6. b = [z EXCEPT !.listeners = c.listeners, !.ribs = c.ribs, !.peers = c.peers,
                      !.reinit = c.listeners \cup DOMAIN c.peers, !.deleted = {}]
    BY SMTT(30), <2>4, <2>5
  <2> QED
    BY Zenon, <2>1, <2>6
<1>4. /\ DOMAIN main = {"ver", "listeners", "ribs", "peers", "reinit", "deleted", "keyed", "pending"}
      /\ main.ver = 1 /\ main.listeners = c.listeners /\ main.ribs = c.ribs
      /\ main.peers = c.peers /\ main.reinit = c.listeners \cup DOMAIN c.peers
      /\ main.deleted = {} /\ main.keyed = DOMAIN c.peers /\ main.pending = 3
  BY SMTT(30), <1>1, <1>2, <1>3
<1>5. ConfOf(main) = ConfOf(b)
  BY <1>3, <1>4 DEF ConfOf
<1>6. /\ DOMAIN pipe = Chans
      /\ \A x \in {MS, MR, MT} : pipe[x] = <<ConfOf(main), DRAIN>>
      /\ \A x \in {SM, RM, TM, SR, RS} : pipe[x] = <<>>
  <2>1. \A x \in {MS, MR, MT} : x \in Chans /\ x[1] = "main"
    BY Channels DEF MS, MR, MT
  <2>2. \A x \in {SM, RM, TM, SR, RS} : x \in Chans /\ x[1] # "main"
    BY Channels DEF SM, RM, TM, SR, RS
  <2>3. \A x \in {MS, MR, MT} : SentConfig(b)[x] = <<ConfOf(b), DRAIN>>
    BY SentConfigIs
  <2> QED
    BY ZenonT(30), <1>1, <1>2, <1>5, <2>1, <2>2, <2>3
<1>7. /\ se = [ver |-> 0, nconf |-> None, listeners |-> {}, peers |-> <<>>,
               delete |-> {}, up |-> {}, rdesession |-> {}]
      /\ rde = [ver |-> 0, nconf |-> None, ribs |-> {}, peers |-> <<>>, soft |-> 0, dumps |-> {}]
      /\ rtr = [ver |-> 0, nconf |-> None] /\ ~fatal
  BY Zenon DEF Init
<1>8. DOMAIN se.peers = {} /\ DOMAIN rde.peers = {} /\ DOMAIN pipe[SR] = {}
  BY SMTT(30), <1>6, <1>7
<1>9. Piping
  <2>1. IsSeq(<<>>) /\ IsSeq(<<ConfOf(main), DRAIN>>)
    BY SMTT(30), ConstIsSeq
  <2> QED
    BY ZenonT(30), <1>6, <2>1, Channels DEF Piping
<1>10. Shape
  BY ZenonT(30), <1>4, <1>7, <1>8, <1>9 DEF Shape
<1>11. Load
  <2>1. ~SeReady /\ ~RdeReady /\ ~RtrReady
    BY SMTT(30), <1>6, Tuples DEF SeReady, RdeReady, RtrReady, Ready
  <2>2. NoDrain(pipe[SR])
    BY <1>8 DEF NoDrain
  <2>3. SeOld /\ RdeOld /\ RtrOld
    BY <1>4, <1>6, <1>7, <2>2 DEF SeOld, RdeOld, RtrOld
  <2>4. /\ Loading(pipe[MS], pipe[SM], se.nconf) /\ Loading(pipe[MR], pipe[RM], rde.nconf)
        /\ Loading(pipe[MT], pipe[TM], rtr.nconf)
    BY Zenon, <1>6, <1>7 DEF Loading
  <2>5. \A l \in main.listeners : l \notin se.listeners /\ l \in main.reinit
    BY ZenonT(30), <1>4, <1>7
  <2>6. main.pending = One(~SeReady) + One(~RdeReady) + One(~RtrReady) /\ main.pending # 0
    BY SMTT(30), <1>4, <2>1 DEF One
  <2> QED
    BY ZenonT(30), <2>3, <2>4, <2>5, <2>6 DEF Load
<1>12. Known /\ Coming
  BY ZenonT(30), <1>8 DEF Known, Coming
<1>13. Configured
  BY Zenon, <1>7, <1>8 DEF Configured
<1>14. Parent
  BY SMTT(30), <1>1, <1>4, <1>7, <1>8, ReconfAssumption DEF Parent, IsConfig
<1>15. Dumps
  BY SMTT(30), <1>7, FS_EmptySet DEF Dumps
<1> QED
  BY SMTT(30), <1>7, <1>10, <1>11, <1>12, <1>13, <1>14, <1>15 DEF Inv, Handshake

LEMMA NextKeeps ==
    ASSUME ~FailsLate, RibsStay, NoneApart, Inv, [Next]_vars
    PROVE  Inv'
<1>1. CASE reconfigure
  BY SMTT(30), <1>1, ReconfigureKeeps
<1>2. ASSUME NEW p \in Peers, SessionUp(p) \/ SessionDown(p) \/ SessionGone(p)
      PROVE  Inv'
  BY ZenonT(30), <1>2, SessionUpKeeps, SessionDownKeeps, SessionGoneKeeps
<1>3. CASE MainStep
  BY SMTT(30), <1>3, MainDrainKeeps, MainDoneSeKeeps, MainDoneKeeps DEF MainStep
<1>4. CASE SeStep
  BY SMTT(30), <1>4, SeConfKeeps, SeDrainKeeps, SeDoneKeeps, SeDrainedKeeps, SeDeleteKeeps DEF SeStep
<1>5. CASE RdeStep
  BY SMTT(30), <1>5, RdeConfKeeps, RdeDrainMainKeeps, RdeDoneKeeps DEF RdeStep
<1>6. CASE RdeSeStep
  BY SMTT(30), <1>6, RdeDrainSeKeeps, RdeAddKeeps, RdeUpKeeps, RdeDownKeeps, RdeDeleteKeeps
  DEF RdeSeStep
<1>7. CASE RunDumps
  BY SMTT(30), <1>7, DumpDoneKeeps DEF RunDumps
<1>8. CASE RtrStep
  BY SMTT(30), <1>8, RtrConfKeeps, RtrDrainKeeps, RtrDoneKeeps DEF RtrStep
<1>9. CASE UNCHANGED vars
  <2>1. /\ main' = main /\ se' = se /\ rde' = rde /\ rtr' = rtr /\ pipe' = pipe
        /\ fatal' = fatal
    BY SMTT(30), <1>9 DEF vars
  <2>2. Shape' /\ Parent' /\ Dumps' /\ Known' /\ Coming' /\ Configured'
    BY ZenonT(30), <2>1 DEF Inv, Shape, Piping, Parent, IsConfig, Dumps, Known, Coming, Configured
  <2>3. Handshake'
    <3>1. /\ (SeOld' <=> SeOld) /\ (SeNew' <=> SeNew) /\ (RdeOld' <=> RdeOld)
          /\ (RdeNew' <=> RdeNew) /\ (RtrOld' <=> RtrOld) /\ (RtrNew' <=> RtrNew)
      BY ZenonT(30), <2>1 DEF SeOld, SeNew, RdeOld, RdeNew, RtrOld, RtrNew
    <3>2. /\ (SeReady' <=> SeReady) /\ (RdeReady' <=> RdeReady) /\ (RtrReady' <=> RtrReady)
          /\ (RdeIdle' <=> RdeIdle) /\ (RtrIdle' <=> RtrIdle)
      BY SMTT(30), <2>1, <3>1 DEF SeReady, RdeReady, RtrReady, Ready, RdeIdle, RtrIdle
    <3>3. Load => Load'
      BY ZenonT(30), <2>1, <3>1, <3>2 DEF Load, Loading
    <3>4. Switch => Switch'
      BY ZenonT(30), <2>1, <3>1, <3>2 DEF Switch
    <3>5. Finish => Finish'
      BY ZenonT(30), <2>1, <3>1, <3>2 DEF Finish
    <3> QED
      BY SMTT(30), <3>3, <3>4, <3>5 DEF Inv, Handshake
  <2> QED
    BY SMTT(30), <2>1, <2>2, <2>3 DEF Inv
<1> QED
  BY ZenonT(30), <1>1, <1>2, <1>3, <1>4, <1>5, <1>6, <1>7, <1>8, <1>9 DEF Next

LEMMA SafeInv ==
    ASSUME Inv, fatal \in BOOLEAN
    PROVE  ReloadSafe
<1>1. main.pending \in 0 .. 3
  BY DEF Inv, Handshake, Load, Switch, Finish, One
<1>2. main.ver \in 1 .. MaxReloads + 1
  BY SMTT(30) DEF Inv, Parent
<1>3. /\ se.up \subseteq DOMAIN se.peers \cap se.rdesession /\ se.delete \subseteq DOMAIN se.peers
      /\ \A p \in DOMAIN se.peers : se.peers[p] \in PeerConfs
  BY SMTT(30) DEF Inv, Configured, ConfRight
<1>4. \A p \in DOMAIN rde.peers :
         rde.peers[p].conf \in PeerConfs /\ rde.peers[p].state \in {"none", "up", "down"}
  BY SMTT(30) DEF Inv, Shape, Known, ConfRight
<1>5. /\ \A d \in rde.dumps : d.kind \in {"in", "flush", "out", "fib"}
      /\ rde.soft = Cardinality(rde.dumps) /\ rde.soft \in Nat
  BY SMTT(30), FS_CardinalityType DEF Inv, Dumps
<1>6. DOMAIN pipe = Chans /\ ~fatal
  BY SMTT(30) DEF Inv, Shape, Piping
<1>7. PeerHasRib
  BY DEF Inv, Known, PeerHasRib
<1> QED
  BY SMTT(30), <1>1, <1>2, <1>3, <1>4, <1>5, <1>6, <1>7 DEF ReloadSafe, TypeOK, NoFatal, DumpsCounted

(***************************************************************************)
(* Whatever the files say and however reloads and session changes          *)
(* interleave, no fatalx() of the reload is reached, softreconfig counts   *)
(* the walks that run and every neighbor's RIB exists.  Assumed: no reload *)
(* fails after the configuration was merged (~FailsLate), and a neighbor   *)
(* does not leave the configuration together with its RIB (RibsStay);      *)
(* without either TLC finds a counterexample.                              *)
(* session.c:1284-1309, 1332-1356, rde.c:1286, 4005, 4272                  *)
(***************************************************************************)
THEOREM ReloadIsSafe ==
    ASSUME ~FailsLate, RibsStay, NoneApart
    PROVE  Spec => []ReloadSafe
<1>1. Init => Inv /\ fatal \in BOOLEAN
  BY Zenon, InitInv DEF Init
<1>2. (Inv /\ fatal \in BOOLEAN) /\ [Next]_vars => (Inv /\ fatal \in BOOLEAN)'
  BY SMTT(30), NextKeeps, FatalStep
<1>3. Inv /\ fatal \in BOOLEAN => ReloadSafe
  BY SafeInv
<1> QED
  BY <1>1, <1>2, <1>3, PTL DEF Spec

(***************************************************************************)
(* Under the same assumptions the decision engine never applies a          *)
(* configuration before it has the matching one of every neighbor that is  *)
(* kept, the parent has the keys of every neighbor the session engine may  *)
(* connect to, and when reconfpending is zero all processes run the        *)
(* parent's configuration and no message of the reload is left.            *)
(* bgpd.c:570, 1031, 1039, session.c:1978                                  *)
(***************************************************************************)
THEOREM ConfigsAgree ==
    ASSUME ~FailsLate, RibsStay, NoneApart
    PROVE  Spec => []ConfigAgrees
<1>1. Init => Inv
  BY InitInv
<1>2. Inv /\ [Next]_vars => Inv'
  BY NextKeeps
<1>3. Inv => ConfigAgrees
  BY AgreeInv
<1> QED
  BY <1>1, <1>2, <1>3, PTL DEF Spec
=============================================================================
