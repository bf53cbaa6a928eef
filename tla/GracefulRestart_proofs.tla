----------------------- MODULE GracefulRestart_proofs -----------------------
(***************************************************************************)
(* The engine and the RDE agree on a session and clean up after it, for    *)
(* every set of prefixes, any number of sessions and imsgs on their way.   *)
(*                                                                         *)
(* What the RDE will make of the imsgs in the pipe is a path through the   *)
(* states the engine can leave it in: it starts at what the RDE is, takes  *)
(* one step for each imsg, and ends at what the engine takes the RDE for.  *)
(* A handler of the engine adds a step at the end of the path, the RDE     *)
(* takes one off its beginning.                                            *)
(***************************************************************************)
EXTENDS GracefulRestart, WellFoundedInduction, TLAPS

MsgTypes == {"ADD", "UP", "DOWN", "STALE", "NOGRACE", "FLUSH", "RESTARTED", "DELETE"}
            \cup PeerMsgs

Msgs == [type : MsgTypes, sess : Nat, arg : Prefixes \cup (0 .. 2)]

\* What the engine decides about the RDE: does it know the peer, is it up, which
\* session was the last, and are routes of an earlier session kept.
Views == [state : {"none", "down", "up"}, sess : 0 .. MaxSessions, kept : BOOLEAN]

\* The imsgs that end a session in the RDE, and those that end the restart too.
Downs == {"DOWN", "STALE", "NOGRACE"}

Cleaners == {"DOWN", "DELETE", "STALE", "NOGRACE", "FLUSH", "RESTARTED"}

\* When the engine sends an imsg, and what it makes of the RDE.
Step(s, m, t) ==
    \/ /\ m.type = "ADD" /\ s.state = "none"
       /\ t.state = "down" /\ t.sess = s.sess /\ t.kept = s.kept
    \/ /\ m.type = "UP" /\ s.state = "down" /\ m.sess = s.sess + 1
       /\ t.state = "up" /\ t.sess = m.sess /\ t.kept = s.kept
    \/ /\ m.type \in PeerMsgs /\ s.state = "up" /\ m.sess = s.sess
       /\ m.type \in {"ANNOUNCE", "WITHDRAW"} => m.arg \in Prefixes
       /\ t = s
    \/ /\ m.type \in Downs /\ s.state = "up"
       /\ t.state = "down" /\ t.sess = s.sess /\ (t.kept <=> m.type = "STALE")
    \/ /\ m.type \in {"FLUSH", "RESTARTED"} /\ s.kept
       /\ t.state = s.state /\ t.sess = s.sess /\ ~t.kept
    \/ /\ m.type = "DELETE" /\ s.state = "down" /\ ~s.kept
       /\ t.state = "none" /\ t.sess = s.sess /\ ~t.kept

\* The imsgs q lead from s to t.
Path(st, q) ==
    /\ st \in [0 .. Len(q) -> Views]
    /\ \A i \in 1 .. Len(q) : Step(st[i - 1], q[i], st[i])

Leads(s, q, t) == \E st : Path(st, q) /\ st[0] = s /\ st[Len(q)] = t

-----------------------------------------------------------------------------
SeType == [phase : {"down", "negotiated", "up"}, sess : 0 .. MaxSessions,
           present : BOOLEAN, restart : 0 .. 2,
           flag : {"none", "RESTARTING", "FINISHED"}, timer : BOOLEAN,
           downtimer : BOOLEAN, rdesession : BOOLEAN, flushes : Nat]

Routes == [sess : 0 .. MaxSessions, old : BOOLEAN]

RdeType == [state : {"none", "down", "up", "err"}, sess : 0 .. MaxSessions,
            staletime : BOOLEAN, recv_eor : BOOLEAN, refreshed : BOOLEAN,
            ibufq : Seq(Msgs), routes : [Prefixes -> Routes]]

\* What the engine takes the RDE for.
SeView == [state |-> IF ~se.rdesession THEN "none"
                     ELSE IF se.phase = "up" THEN "up" ELSE "down",
           sess |-> se.sess, kept |-> se.flag = "RESTARTING"]

\* The engine's own records.
SeRight ==
    /\ se \in SeType
    /\ se.phase = "up" => se.rdesession
    /\ se.phase = "negotiated" => se.sess < MaxSessions
    /\ se.downtimer => se.rdesession /\ se.phase # "up"
    /\ se.flag = "RESTARTING" => se.timer /\ se.flushes = 0
    /\ se.flushes <= 1

\* The peer is in a session, even if an error has ended it for the RDE.
InSession(r) == r.state \in {"up", "err"}

\* The RDE is where s says, and a timestamp tells kept routes from new ones.
StateRight(r, s) ==
    /\ s.state = IF InSession(r) THEN "up" ELSE r.state
    /\ r.sess <= s.sess /\ (InSession(r) => r.sess = s.sess)
    /\ s.kept => s.state # "none" /\ (r.staletime \/ (InSession(r) /\ r.refreshed))

\* What is queued was received in the session.
QueueRight(r) ==
    /\ ~InSession(r) => r.ibufq = <<>>
    /\ \A i \in 1 .. Len(r.ibufq) :
          /\ r.ibufq[i].sess = r.sess /\ r.ibufq[i].type \in PeerMsgs
          /\ r.ibufq[i].type \in {"ANNOUNCE", "WITHDRAW"} => r.ibufq[i].arg \in Prefixes

\* Routes of another session are marked and kept, and those of this session are
\* not marked unless the neighbor has refreshed them.
RoutesRight(r, s) ==
    \A x \in Prefixes : r.routes[x] # None =>
        /\ r.routes[x].sess <= r.sess
        /\ ~(InSession(r) /\ r.routes[x].sess = r.sess) =>
              s.kept /\ r.staletime /\ r.routes[x].old
        /\ InSession(r) /\ r.routes[x].sess = r.sess /\ ~r.refreshed =>
              ~r.routes[x].old

RdeRight(r, s) ==
    r \in RdeType /\ StateRight(r, s) /\ QueueRight(r) /\ RoutesRight(r, s)

\* An error the RDE met is one the engine will hear of, or already acts on.
ErrorTold ==
    rde.state = "err" => \/ \E i \in 1 .. Len(toSe) : toSe[i].type = "UPDATE_ERR"
                         \/ \E i \in 1 .. Len(toRde) : toRde[i].type \in Downs

ToSeRight ==
    /\ toSe \in Seq([type : {"RESTARTED", "UPDATE_ERR"}, sess : Nat, arg : {0}])
    /\ toRde \in Seq(Msgs)

\* The imsgs in the pipe take the RDE to where the engine thinks it is.
PipeRight == \E s \in Views : RdeRight(rde, s) /\ Leads(s, toRde, SeView)

Inv == SeRight /\ ToSeRight /\ ErrorTold /\ PipeRight

-----------------------------------------------------------------------------
(***************************************************************************)
(* Paths.                                                                  *)
(***************************************************************************)

\* A set of positions has a first one.
LEMMA FirstOf ==
    ASSUME NEW T \in SUBSET Nat, T # {}
    PROVE  \E k \in T : \A y \in T : k <= y
  <1>1. IsWellFoundedOn(OpToRel(<, Nat), Nat)
    BY Zenon, NatLessThanWellFounded
  <1>2. PICK k \in T : \A y \in T : ~(<<y, k>> \in OpToRel(<, Nat))
    BY Zenon, <1>1, WFMin
  <1>3. OpToRel(<, Nat) = {ss \in Nat \X Nat : ss[1] < ss[2]}
    BY DEF OpToRel
  <1>4. ASSUME NEW y \in T, y < k PROVE FALSE
    <2>1. <<y, k>> \in Nat \X Nat
      OBVIOUS
    <2> QED BY Zenon, <1>2, <1>3, <1>4, <2>1
  <1> QED BY <1>4

\* No imsgs, no way to go.
LEMMA LeadsNil ==
    ASSUME NEW s \in Views, NEW t
    PROVE  Leads(s, <<>>, t) <=> s = t
  <1>1. ASSUME Leads(s, <<>>, t) PROVE s = t
    BY <1>1 DEF Leads
  <1>2. ASSUME s = t PROVE Leads(s, <<>>, t)
    <2> DEFINE st == [i \in 0 .. 0 |-> s]
    <2>1. st \in [0 .. Len(<<>>) -> Views] /\ st[0] = s
      OBVIOUS
    <2>2. Path(st, <<>>)
      BY <2>1 DEF Path
    <2> QED BY <1>2, <2>1, <2>2 DEF Leads
  <1> QED BY <1>1, <1>2

\* The engine sends an imsg.
LEMMA LeadsAppend ==
    ASSUME NEW s, NEW t, NEW q \in Seq(Msgs), Leads(s, q, t),
           NEW m \in Msgs, NEW u \in Views, Step(t, m, u)
    PROVE  Leads(s, Append(q, m), u)
  <1> DEFINE n == Len(q)
             r == Append(q, m)
  <1>1. PICK st : Path(st, q) /\ st[0] = s /\ st[n] = t
    BY DEF Leads
  <1> DEFINE st2 == [i \in 0 .. n + 1 |-> IF i = n + 1 THEN u ELSE st[i]]
  <1>2. /\ n \in Nat /\ Len(r) = n + 1 /\ r[n + 1] = m
        /\ \A i \in 1 .. n : r[i] = q[i]
    OBVIOUS
  <1> HIDE DEF r
  <1>3. st \in [0 .. n -> Views]
    BY <1>1 DEF Path
  <1>4. st2 \in [0 .. n + 1 -> Views]
    BY <1>2, <1>3
  <1>5. /\ st2[n + 1] = u /\ \A i \in 0 .. n : st2[i] = st[i]
    BY <1>2
  <1> HIDE DEF st2
  <1>6. ASSUME NEW i \in 1 .. n + 1 PROVE Step(st2[i - 1], r[i], st2[i])
    <2>1. CASE i = n + 1
      <3>1. i - 1 = n /\ n \in 0 .. n
        BY <1>2, <2>1
      <3> QED BY <1>1, <1>2, <1>5, <2>1, <3>1
    <2>2. CASE i \in 1 .. n
      <3>1. i - 1 \in 0 .. n /\ i \in 0 .. n
        BY <1>2, <2>2
      <3> QED BY <1>1, <1>2, <1>5, <2>2, <3>1 DEF Path
    <2> QED BY <1>2, <2>1, <2>2
  <1>7. Path(st2, r)
    BY <1>2, <1>4, <1>6 DEF Path
  <1>8. st2[0] = s /\ st2[Len(r)] = u
    BY <1>1, <1>2, <1>5
  <1> QED BY <1>7, <1>8 DEF Leads, r

\* The RDE takes the first imsg.
LEMMA LeadsTail ==
    ASSUME NEW s, NEW t, NEW q \in Seq(Msgs), q # <<>>, Leads(s, q, t)
    PROVE  \E u \in Views : Step(s, Head(q), u) /\ Leads(u, Tail(q), t)
  <1> DEFINE n == Len(q)
             r == Tail(q)
  <1>1. PICK st : Path(st, q) /\ st[0] = s /\ st[n] = t
    BY DEF Leads
  <1> DEFINE st2 == [i \in 0 .. n - 1 |-> st[i + 1]]
  <1>2. /\ n \in Nat \ {0} /\ Len(r) = n - 1 /\ Head(q) = q[1]
        /\ \A i \in 1 .. n - 1 : r[i] = q[i + 1]
    OBVIOUS
  <1> HIDE DEF r
  <1>3. st \in [0 .. n -> Views]
    BY <1>1 DEF Path
  <1>4. st2 \in [0 .. n - 1 -> Views]
    <2>1. ASSUME NEW i \in 0 .. n - 1 PROVE st[i + 1] \in Views
      <3>1. i + 1 \in 0 .. n
        BY <1>2
      <3> QED BY <1>3, <3>1
    <2> QED BY <2>1
  <1>5. \A i \in 0 .. n - 1 : st2[i] = st[i + 1]
    OBVIOUS
  <1> HIDE DEF st2
  <1>6. ASSUME NEW i \in 1 .. n - 1 PROVE Step(st2[i - 1], r[i], st2[i])
    <2>1. /\ i - 1 \in 0 .. n - 1 /\ i \in 0 .. n - 1 /\ i + 1 \in 1 .. n
          /\ (i - 1) + 1 = i /\ (i + 1) - 1 = i
      BY <1>2
    <2>2. Step(st[(i + 1) - 1], q[i + 1], st[i + 1])
      BY <1>1, <2>1 DEF Path
    <2> QED BY <1>2, <1>5, <2>1, <2>2
  <1>7. Path(st2, r)
    BY <1>2, <1>4, <1>6 DEF Path
  <1>8. 0 \in 0 .. n - 1 /\ n - 1 \in 0 .. n - 1 /\ 0 + 1 = 1 /\ (n - 1) + 1 = n
        /\ 1 \in 1 .. n /\ 1 - 1 = 0
    BY <1>2
  <1>9. st2[0] = st[1] /\ st2[Len(r)] = t /\ Step(s, q[1], st[1]) /\ st[1] \in Views
    BY <1>1, <1>2, <1>3, <1>5, <1>8 DEF Path
  <1> QED BY <1>2, <1>7, <1>9 DEF Leads, r

\* A session in the RDE that is not the engine's is about to be ended.
LEMMA LeadsDown ==
    ASSUME NEW s, NEW t, NEW q \in Seq(Msgs), Leads(s, q, t), s.state = "up",
           \A i \in 1 .. Len(q) : q[i].type \notin Downs
    PROVE  t.state = "up" /\ t.sess = s.sess
  <1> DEFINE n == Len(q)
             Same(v) == v.state = "up" /\ v.sess = s.sess
  <1>1. PICK st : Path(st, q) /\ st[0] = s /\ st[n] = t
    BY DEF Leads
  <1> DEFINE T == {i \in 0 .. n : ~Same(st[i])}
  <1>2. n \in Nat
    OBVIOUS
  <1>3. ASSUME T # {} PROVE FALSE
    <2>0. T \in SUBSET Nat
      BY <1>2
    <2>1. PICK k \in T : \A y \in T : k <= y
      <3> HIDE DEF T
      <3> QED BY <1>3, <2>0, FirstOf
    <2>2. k \in 1 .. n /\ k - 1 \in 0 .. n
      BY <1>1, <1>2, <2>1
    <2>3. Same(st[k - 1])
      BY <2>1, <2>2
    <2>4. Step(st[k - 1], q[k], st[k]) /\ q[k].type \notin Downs
      BY <1>1, <2>2 DEF Path
    <2>5. Same(st[k])
      BY <2>3, <2>4 DEF Step
    <2> QED BY <2>1, <2>5
  <1>4. n \in 0 .. n
    BY <1>2
  <1> QED BY <1>1, <1>3, <1>4

\* Routes kept in the RDE are on the engine's record, or about to be cleaned up.
LEMMA LeadsKept ==
    ASSUME NEW s, NEW t, NEW q \in Seq(Msgs), Leads(s, q, t), s.kept,
           \A i \in 1 .. Len(q) : q[i].type \notin Cleaners
    PROVE  t.kept
  <1> DEFINE n == Len(q)
  <1>1. PICK st : Path(st, q) /\ st[0] = s /\ st[n] = t
    BY DEF Leads
  <1> DEFINE T == {i \in 0 .. n : ~st[i].kept}
  <1>2. n \in Nat
    OBVIOUS
  <1>3. ASSUME T # {} PROVE FALSE
    <2>0. T \in SUBSET Nat
      BY <1>2
    <2>1. PICK k \in T : \A y \in T : k <= y
      <3> HIDE DEF T
      <3> QED BY <1>3, <2>0, FirstOf
    <2>2. k \in 1 .. n /\ k - 1 \in 0 .. n
      BY <1>1, <1>2, <2>1
    <2>3. st[k - 1].kept
      BY <2>1, <2>2
    <2>4. Step(st[k - 1], q[k], st[k]) /\ q[k].type \notin Cleaners
      BY <1>1, <2>2 DEF Path
    <2>5. st[k].kept
      BY Zenon, <2>3, <2>4 DEF Step, Cleaners, Downs
    <2> QED BY <2>1, <2>5
  <1>4. n \in 0 .. n
    BY <1>2
  <1> QED BY <1>1, <1>3, <1>4

-----------------------------------------------------------------------------
(***************************************************************************)
(* The engine.                                                             *)
(***************************************************************************)

LEMMA SeFields ==
    ASSUME SeRight
    PROVE  /\ se.phase \in {"down", "negotiated", "up"}
           /\ se.sess \in 0 .. MaxSessions
           /\ se.present \in BOOLEAN /\ se.restart \in 0 .. 2
           /\ se.flag \in {"none", "RESTARTING", "FINISHED"}
           /\ se.timer \in BOOLEAN /\ se.downtimer \in BOOLEAN
           /\ se.rdesession \in BOOLEAN /\ se.flushes \in Nat
  BY DEF SeRight, SeType

LEMMA SeViewFields ==
    /\ SeView.state = IF ~se.rdesession THEN "none"
                      ELSE IF se.phase = "up" THEN "up" ELSE "down"
    /\ SeView.sess = se.sess
    /\ SeView.kept <=> se.flag = "RESTARTING"
  BY Zenon DEF SeView

LEMMA SeViewType ==
    ASSUME SeRight
    PROVE  SeView \in Views
  <1>1. se.sess \in 0 .. MaxSessions
    BY SeFields
  <1> QED BY <1>1 DEF SeView, Views

\* What the engine appends to the pipe is a step of the path.
LEMMA EngineSends ==
    ASSUME Inv, SeRight', UNCHANGED rde,
           NEW m \in Msgs, toRde' = Append(toRde, m), Step(SeView, m, SeView')
    PROVE  /\ PipeRight' /\ toRde' \in Seq(Msgs)
           /\ \A i \in 1 .. Len(toRde) : i \in 1 .. Len(toRde') /\ toRde'[i] = toRde[i]
           /\ Len(toRde') \in 1 .. Len(toRde') /\ toRde'[Len(toRde')] = m
  <1>1. toRde \in Seq(Msgs)
    BY DEF Inv, ToSeRight
  <1>2. PICK s \in Views : RdeRight(rde, s) /\ Leads(s, toRde, SeView)
    BY DEF Inv, PipeRight
  <1>3. SeView' \in Views
    <2>1. se'.sess \in 0 .. MaxSessions
      BY DEF SeRight, SeType
    <2> QED BY <2>1 DEF SeView, Views
  <1>4. Leads(s, Append(toRde, m), SeView')
    BY <1>1, <1>2, <1>3, LeadsAppend
  <1>5. PipeRight'
    BY <1>2, <1>4 DEF PipeRight
  <1> QED BY <1>1, <1>5

\* A handler that sends nothing leaves the engine's picture of the RDE alone.
LEMMA EngineSilent ==
    ASSUME Inv, UNCHANGED <<rde, toRde>>, SeView' = SeView
    PROVE  PipeRight' /\ toRde' \in Seq(Msgs)
  BY DEF Inv, PipeRight, ToSeRight

\* Two views are the same when their fields are.
LEMMA SameView ==
    ASSUME se'.sess = se.sess, se'.rdesession = se.rdesession,
           se'.phase = "up" <=> se.phase = "up",
           se'.flag = "RESTARTING" <=> se.flag = "RESTARTING"
    PROVE  SeView' = SeView
  BY DEF SeView

\* An imsg sent, with nothing taken from the other pipe, unsays no error.
LEMMA ErrorKept ==
    ASSUME ErrorTold, UNCHANGED <<rde, toSe>>,
           \A i \in 1 .. Len(toRde) : i \in 1 .. Len(toRde') /\ toRde'[i] = toRde[i]
    PROVE  ErrorTold'
  BY DEF ErrorTold

LEMMA ImsgType ==
    ASSUME NEW type \in MsgTypes, NEW n \in Nat, NEW arg \in Prefixes \cup (0 .. 2)
    PROVE  /\ imsg(type, n, arg) \in Msgs
           /\ imsg(type, n, arg).type = type /\ imsg(type, n, arg).sess = n
           /\ imsg(type, n, arg).arg = arg
  BY DEF imsg, Msgs

LEMMA FlushFields ==
    ASSUME se \in SeType
    PROVE  LET q == session_graceful_flush(se)
           IN  /\ q \in SeType /\ q.flushes = se.flushes + 1
               /\ q.phase = se.phase /\ q.sess = se.sess /\ q.flag = se.flag
               /\ q.timer = se.timer /\ q.rdesession = se.rdesession
               /\ q.downtimer = se.downtimer
  <1>1. se.flushes + 1 \in Nat
    BY DEF SeType
  <1> QED BY <1>1 DEF SeType, session_graceful_flush

LEMMA NegotiateRight ==
    ASSUME Inv, Negotiate
    PROVE  Inv'
  <1>1. SeRight /\ ToSeRight /\ ErrorTold
    BY DEF Inv
  <1>2. PICK restart \in 0 .. 2, present \in BOOLEAN, forward \in BOOLEAN :
            /\ se' = negotiated(se, restart, present, forward)
            /\ IF se.flag = "RESTARTING" /\ ~forward THEN imsg_rde("FLUSH")
               ELSE UNCHANGED toRde
    BY DEF Negotiate
  <1>3. se.phase = "down" /\ se.sess < MaxSessions /\ UNCHANGED <<toSe, rde>>
    BY DEF Negotiate
  <1>4. se \in SeType
    BY <1>1 DEF SeRight
  <1>5. CASE se.flag = "RESTARTING" /\ ~forward
    <2> DEFINE q == session_graceful_flush(se)
    <2>1. se' = [q EXCEPT !.phase = "negotiated", !.restart = restart,
                          !.present = present, !.flag = "none"]
      BY <1>2, <1>5 DEF negotiated
    <2>9. /\ q \in SeType /\ q.flushes = se.flushes + 1 /\ q.sess = se.sess
          /\ q.rdesession = se.rdesession /\ q.downtimer = se.downtimer
      BY <1>4, FlushFields
    <2>2. /\ se' \in SeType /\ se'.phase = "negotiated" /\ se'.flag = "none"
          /\ se'.flushes = se.flushes + 1 /\ se'.sess = se.sess
          /\ se'.rdesession = se.rdesession /\ se'.downtimer = se.downtimer
      <3> HIDE DEF q
      <3> QED BY Zenon, <2>1, <2>9 DEF SeType
    <2>3. SeRight'
      BY <2>2, <1>1, <1>3, <1>5 DEF SeRight
    <2>4. toRde' = Append(toRde, imsg("FLUSH", se.sess, 0))
      BY <1>2, <1>5 DEF imsg_rde
    <2>5. Step(SeView, imsg("FLUSH", se.sess, 0), SeView')
      <3>1. imsg("FLUSH", se.sess, 0).type = "FLUSH"
        BY DEF imsg
      <3>2. SeView'.state = SeView.state /\ SeView'.sess = SeView.sess
            /\ SeView.kept /\ ~SeView'.kept
        BY Zenon, <2>2, <1>3, <1>5 DEF SeView
      <3> QED BY Zenon, <3>1, <3>2 DEF Step
    <2>6. imsg("FLUSH", se.sess, 0) \in Msgs
      BY <1>1, SeFields, ImsgType DEF MsgTypes
    <2>7. PipeRight' /\ toRde' \in Seq(Msgs) /\ ErrorTold'
      BY <1>1, <1>3, <2>3, <2>4, <2>5, <2>6, EngineSends, ErrorKept
    <2> QED BY <1>1, <1>3, <2>3, <2>7 DEF Inv, ToSeRight
  <1>6. CASE ~(se.flag = "RESTARTING" /\ ~forward)
    <2>1. PICK flag \in {"none", "RESTARTING"} :
              /\ flag = "RESTARTING" <=> se.flag = "RESTARTING"
              /\ se' = [se EXCEPT !.phase = "negotiated", !.restart = restart,
                                  !.present = present, !.flag = flag]
      BY Zenon, <1>2, <1>4, <1>6 DEF negotiated, SeType
    <2>2. /\ se' \in SeType /\ se'.phase = "negotiated" /\ se'.flag = flag
          /\ se'.flushes = se.flushes /\ se'.sess = se.sess /\ se'.timer = se.timer
          /\ se'.rdesession = se.rdesession /\ se'.downtimer = se.downtimer
      BY Zenon, <2>1, <1>4 DEF SeType
    <2>3. SeRight'
      BY <2>1, <2>2, <1>1, <1>3 DEF SeRight
    <2>4. SeView' = SeView
      BY <2>1, <2>2, <1>3, SameView
    <2>5. UNCHANGED toRde
      BY <1>2, <1>6
    <2>6. PipeRight' /\ toRde' \in Seq(Msgs) /\ ErrorTold'
      BY <1>1, <1>3, <2>4, <2>5, EngineSilent DEF ErrorTold
    <2> QED BY <1>1, <1>3, <2>3, <2>6 DEF Inv, ToSeRight
  <1> QED BY <1>5, <1>6

LEMMA OpenFailsRight ==
    ASSUME Inv, OpenFails
    PROVE  Inv'
  <1>1. SeRight /\ ToSeRight /\ ErrorTold
    BY DEF Inv
  <1>2. /\ se.phase = "negotiated" /\ se' = [se EXCEPT !.phase = "down"]
        /\ UNCHANGED <<toRde, toSe, rde>>
    BY DEF OpenFails
  <1>3. /\ se' \in SeType /\ se'.phase = "down" /\ se'.flag = se.flag
        /\ se'.flushes = se.flushes /\ se'.sess = se.sess /\ se'.timer = se.timer
        /\ se'.rdesession = se.rdesession /\ se'.downtimer = se.downtimer
    BY <1>1, <1>2 DEF SeRight, SeType
  <1>4. SeRight'
    BY <1>1, <1>2, <1>3 DEF SeRight
  <1>5. PipeRight' /\ toRde' \in Seq(Msgs) /\ ErrorTold'
    BY <1>1, <1>2, <1>3, SameView, EngineSilent DEF ErrorTold
  <1> QED BY <1>1, <1>2, <1>4, <1>5 DEF Inv, ToSeRight

LEMMA SessionUpRight ==
    ASSUME Inv, session_up
    PROVE  Inv'
  <1>1. SeRight /\ ToSeRight /\ ErrorTold /\ se \in SeType /\ toRde \in Seq(Msgs)
    BY DEF Inv, SeRight, ToSeRight
  <1> DEFINE up == imsg("UP", se.sess + 1, se.restart)
             add == imsg("ADD", se.sess + 1, 0)
  <1>2. /\ se.phase = "negotiated" /\ UNCHANGED <<toSe, rde>>
        /\ toRde' = IF se.rdesession THEN Append(toRde, up) ELSE toRde \o <<add, up>>
        /\ se' = [se EXCEPT !.phase = "up", !.sess = @ + 1, !.rdesession = TRUE,
                            !.downtimer = FALSE]
    BY DEF session_up
  <1>3. se.sess \in 0 .. MaxSessions /\ se.sess + 1 \in 0 .. MaxSessions
    BY <1>1, <1>2, GracefulRestartAssumption DEF SeRight, SeType
  <1>4. /\ se' \in SeType /\ se'.phase = "up" /\ se'.flag = se.flag
        /\ se'.flushes = se.flushes /\ se'.sess = se.sess + 1 /\ se'.timer = se.timer
        /\ se'.rdesession = TRUE /\ se'.downtimer = FALSE
    BY Zenon, <1>1, <1>2, <1>3 DEF SeType
  <1>5. SeRight'
    BY <1>1, <1>4 DEF SeRight
  <1>6. /\ up \in Msgs /\ up.type = "UP" /\ up.sess = se.sess + 1
        /\ add \in Msgs /\ add.type = "ADD"
    <2>1. se.sess + 1 \in Nat /\ se.restart \in 0 .. 2
      BY <1>1, <1>3 DEF SeType
    <2>2. up \in Msgs /\ up.type = "UP" /\ up.sess = se.sess + 1
      BY <2>1, ImsgType DEF MsgTypes
    <2>3. add \in Msgs /\ add.type = "ADD"
      BY <2>1, ImsgType DEF MsgTypes
    <2> QED BY <2>2, <2>3
  <1> HIDE DEF up, add
  <1>7. /\ SeView'.state = "up" /\ SeView'.sess = se.sess + 1
        /\ SeView'.kept <=> SeView.kept
    BY <1>4 DEF SeView
  <1>8. CASE se.rdesession
    <2>1. toRde' = Append(toRde, up)
      BY <1>2, <1>8
    <2>2. SeView.state = "down" /\ SeView.sess = se.sess
      BY <1>2, <1>8 DEF SeView
    <2>3. Step(SeView, up, SeView')
      <3>1. SeView'.kept = SeView.kept
        BY <1>4 DEF SeView
      <3> QED BY <1>6, <1>7, <2>2, <3>1 DEF Step
    <2>4. PipeRight' /\ toRde' \in Seq(Msgs) /\ ErrorTold'
      BY <1>1, <1>2, <1>5, <1>6, <2>1, <2>3, EngineSends, ErrorKept
    <2> QED BY <1>1, <1>2, <1>5, <2>4 DEF Inv, ToSeRight
  <1>9. CASE ~se.rdesession
    <2> DEFINE v == [state |-> "down", sess |-> se.sess,
                     kept |-> se.flag = "RESTARTING"]
               q == Append(toRde, add)
    <2>1. toRde' = Append(q, up) /\ q \in Seq(Msgs)
      BY <1>1, <1>2, <1>6, <1>9
    <2>2. PICK s \in Views : RdeRight(rde, s) /\ Leads(s, toRde, SeView)
      BY DEF Inv, PipeRight
    <2>3. /\ SeView.state = "none" /\ SeView.sess = se.sess
          /\ SeView.kept = v.kept /\ SeView'.kept = v.kept
          /\ v.state = "down" /\ v.sess = se.sess
      BY <1>4, <1>9 DEF SeView
    <2>4. v \in Views /\ SeView' \in Views
      BY <1>3, <1>4 DEF Views, SeView
    <2> HIDE DEF v, q
    <2>5. Step(SeView, add, v) /\ Step(v, up, SeView')
      BY <1>6, <1>7, <2>3 DEF Step
    <2>6. Leads(s, q, v)
      BY <1>1, <1>6, <2>2, <2>4, <2>5, LeadsAppend DEF q
    <2>7. Leads(s, toRde', SeView')
      BY <1>6, <2>1, <2>4, <2>5, <2>6, LeadsAppend
    <2>8. PipeRight' /\ toRde' \in Seq(Msgs)
      <3>1. RdeRight(rde', s)
        BY <1>2, <2>2
      <3>2. PipeRight'
        BY <2>7, <3>1 DEF PipeRight
      <3>3. toRde' \in Seq(Msgs)
        BY <1>6, <2>1
      <3> QED BY <3>2, <3>3
    <2>9. \A i \in 1 .. Len(toRde) : i \in 1 .. Len(toRde') /\ toRde'[i] = toRde[i]
      BY <1>1, <1>6, <2>1 DEF q
    <2>10. ErrorTold'
      BY <1>1, <1>2, <2>9, ErrorKept
    <2> QED BY <1>1, <1>2, <1>5, <2>8, <2>10 DEF Inv, ToSeRight
  <1> QED BY <1>8, <1>9

\* The session ends: with DOWN, or with STALE or NOGRACE.
LEMMA EndRight ==
    ASSUME Inv, session_down \/ session_graceful_restart
    PROVE  /\ SeRight'
           /\ \E m \in Msgs : /\ m.type \in Downs /\ toRde' = Append(toRde, m)
                              /\ Step(SeView, m, SeView')
  <1>1. SeRight /\ se \in SeType /\ se.sess \in Nat
    BY DEF Inv, SeRight, SeType
  <1>2. CASE session_down
    <2>1. /\ se.phase = "up" /\ toRde' = Append(toRde, imsg("DOWN", se.sess, 0))
          /\ se' = [se EXCEPT !.phase = "down", !.flag = "none", !.present = FALSE,
                              !.restart = 0, !.downtimer = TRUE]
      BY <1>2 DEF session_down, imsg_rde
    <2>2. /\ se' \in SeType /\ se'.phase = "down" /\ se'.flag = "none"
          /\ se'.flushes = se.flushes /\ se'.sess = se.sess
          /\ se'.rdesession = se.rdesession
      <3>1. 0 \in 0 .. 2
        OBVIOUS
      <3>2. se' \in SeType
        BY Zenon, <1>1, <2>1, <3>1 DEF SeType
      <3> QED BY <1>1, <2>1, <3>2 DEF SeType
    <2>3. SeRight'
      BY <1>1, <2>1, <2>2 DEF SeRight
    <2>4. imsg("DOWN", se.sess, 0) \in Msgs /\ imsg("DOWN", se.sess, 0).type = "DOWN"
      BY <1>1, ImsgType DEF MsgTypes
    <2>5. /\ SeView.state = "up" /\ SeView'.state = "down"
          /\ SeView'.sess = SeView.sess /\ ~SeView'.kept
      <3>1. se.rdesession = TRUE
        BY <1>1, <2>1, SeFields DEF SeRight
      <3> QED BY Zenon, <2>1, <2>2, <3>1 DEF SeView
    <2>6. Step(SeView, imsg("DOWN", se.sess, 0), SeView')
      BY <2>4, <2>5 DEF Step, Downs
    <2> QED BY <2>1, <2>3, <2>4, <2>6 DEF Downs
  <1>3. CASE session_graceful_restart
    <2> DEFINE type == IF se.present THEN "STALE" ELSE "NOGRACE"
    <2>1. /\ se.phase = "up" /\ toRde' = Append(toRde, imsg(type, se.sess, 0))
          /\ se' = [se EXCEPT !.phase = "down", !.timer = TRUE, !.downtimer = TRUE,
                              !.flag = IF se.present THEN "RESTARTING" ELSE "none",
                              !.present = FALSE,
                              !.flushes = IF se.present THEN 0 ELSE @]
      BY <1>3 DEF session_graceful_restart, imsg_rde
    <2>2. /\ se' \in SeType /\ se'.phase = "down" /\ se'.timer
          /\ se'.flag = IF se.present THEN "RESTARTING" ELSE "none"
          /\ se'.flushes = IF se.present THEN 0 ELSE se.flushes
          /\ se'.sess = se.sess /\ se'.rdesession = se.rdesession
      BY Zenon, <1>1, <2>1 DEF SeType
    <2>3. SeRight'
      BY <1>1, <2>1, <2>2 DEF SeRight
    <2>4. /\ type \in MsgTypes /\ type \in Downs
          /\ type = "STALE" <=> se'.flag = "RESTARTING"
      BY <2>2 DEF MsgTypes, Downs
    <2> HIDE DEF type
    <2>5. imsg(type, se.sess, 0) \in Msgs /\ imsg(type, se.sess, 0).type = type
      BY <1>1, <2>4, ImsgType
    <2>6. /\ SeView.state = "up" /\ SeView'.state = "down"
          /\ SeView'.sess = SeView.sess /\ (SeView'.kept <=> type = "STALE")
      <3>1. se.rdesession = TRUE
        BY <1>1, <2>1, SeFields DEF SeRight
      <3> QED BY Zenon, <2>1, <2>2, <2>4, <3>1 DEF SeView
    <2>7. Step(SeView, imsg(type, se.sess, 0), SeView')
      BY <2>4, <2>5, <2>6 DEF Step
    <2> QED BY <2>1, <2>3, <2>4, <2>5, <2>7
  <1> QED BY <1>2, <1>3

LEMMA SessionEndsRight ==
    ASSUME Inv, SessionEnds
    PROVE  Inv'
  <1>1. ToSeRight /\ ErrorTold /\ UNCHANGED <<toSe, rde>>
    BY DEF Inv, SessionEnds
  <1>2. SeRight' /\ \E m \in Msgs : /\ m.type \in Downs /\ toRde' = Append(toRde, m)
                                    /\ Step(SeView, m, SeView')
    BY EndRight DEF SessionEnds
  <1>3. PipeRight' /\ toRde' \in Seq(Msgs) /\ ErrorTold'
    BY <1>1, <1>2, EngineSends, ErrorKept
  <1> QED BY <1>1, <1>2, <1>3 DEF Inv, ToSeRight

\* FLUSH or RESTARTED, sent while routes are kept and recorded.
LEMMA CleanRight ==
    ASSUME Inv, se.flag = "RESTARTING", NEW type \in {"FLUSH", "RESTARTED"},
           toRde' = Append(toRde, imsg(type, se.sess, 0)), UNCHANGED rde,
           se' \in SeType, se'.flag = "FINISHED", se'.flushes = se.flushes + 1,
           se'.phase = se.phase, se'.sess = se.sess,
           se'.rdesession = se.rdesession, se'.downtimer = se.downtimer
    PROVE  /\ SeRight' /\ PipeRight' /\ toRde' \in Seq(Msgs)
           /\ \A i \in 1 .. Len(toRde) : i \in 1 .. Len(toRde') /\ toRde'[i] = toRde[i]
  <1>1. SeRight /\ se.sess \in Nat
    BY DEF Inv, SeRight, SeType
  <1>2. SeRight'
    BY <1>1 DEF SeRight
  <1>3. imsg(type, se.sess, 0) \in Msgs /\ imsg(type, se.sess, 0).type = type
    <2>1. type \in MsgTypes
      BY DEF MsgTypes
    <2> QED BY <1>1, <2>1, ImsgType
  <1>4. /\ SeView'.state = SeView.state /\ SeView'.sess = SeView.sess
        /\ SeView.kept /\ ~SeView'.kept
    BY Zenon DEF SeView
  <1>5. Step(SeView, imsg(type, se.sess, 0), SeView')
    BY Zenon, <1>3, <1>4 DEF Step
  <1> QED BY <1>2, <1>3, <1>5, EngineSends

LEMMA RestartTimeoutRight ==
    ASSUME Inv, RestartTimeout
    PROVE  Inv'
  <1>1. SeRight /\ ToSeRight /\ ErrorTold /\ se \in SeType
    BY DEF Inv, SeRight
  <1>2. UNCHANGED <<toSe, rde>> /\ session_graceful_stop
    BY DEF RestartTimeout
  <1>3. CASE se.flag = "RESTARTING"
    <2> DEFINE q == session_graceful_flush(se)
    <2>1. /\ se' = [q EXCEPT !.timer = FALSE, !.flag = "FINISHED"]
          /\ toRde' = Append(toRde, imsg("FLUSH", se.sess, 0))
      BY <1>2, <1>3 DEF session_graceful_stop, imsg_rde
    <2>2. /\ q \in SeType /\ q.flushes = se.flushes + 1
          /\ q.phase = se.phase /\ q.sess = se.sess
          /\ q.rdesession = se.rdesession /\ q.downtimer = se.downtimer
      BY <1>1, FlushFields
    <2> HIDE DEF q
    <2>3. /\ se' \in SeType /\ se'.flag = "FINISHED" /\ se'.flushes = se.flushes + 1
          /\ se'.phase = se.phase /\ se'.sess = se.sess
          /\ se'.rdesession = se.rdesession /\ se'.downtimer = se.downtimer
      BY Zenon, <2>1, <2>2 DEF SeType
    <2>4. /\ SeRight' /\ PipeRight' /\ toRde' \in Seq(Msgs)
          /\ \A i \in 1 .. Len(toRde) : i \in 1 .. Len(toRde') /\ toRde'[i] = toRde[i]
      BY <1>2, <1>3, <2>1, <2>3, CleanRight
    <2>5. ErrorTold'
      BY <1>1, <1>2, <2>4, ErrorKept
    <2> QED BY <1>1, <1>2, <2>4, <2>5 DEF Inv, ToSeRight
  <1>4. CASE se.flag # "RESTARTING"
    <2>1. UNCHANGED toRde /\ se' = [se EXCEPT !.timer = FALSE, !.flag = "FINISHED"]
      BY <1>2, <1>4 DEF session_graceful_stop
    <2>2. /\ se' \in SeType /\ se'.flag = "FINISHED" /\ se'.flushes = se.flushes
          /\ se'.phase = se.phase /\ se'.sess = se.sess
          /\ se'.rdesession = se.rdesession /\ se'.downtimer = se.downtimer
      BY Zenon, <1>1, <2>1 DEF SeType
    <2>3. SeRight'
      BY <1>1, <2>2 DEF SeRight
    <2>4. SeView' = SeView
      BY <1>4, <2>2, SameView
    <2>5. PipeRight' /\ toRde' \in Seq(Msgs) /\ ErrorTold'
      BY <1>1, <1>2, <2>1, <2>4, EngineSilent DEF ErrorTold
    <2> QED BY <1>1, <1>2, <2>3, <2>5 DEF Inv, ToSeRight
  <1> QED BY <1>3, <1>4

LEMMA SessionDownRight ==
    ASSUME Inv, SessionDown
    PROVE  Inv'
  <1>1. /\ SeRight /\ ToSeRight /\ ErrorTold /\ se \in SeType /\ se.sess \in Nat
        /\ se.rdesession \in BOOLEAN
    BY DEF Inv, SeRight, SeType
  <1>2. /\ se.downtimer /\ se.flag # "RESTARTING" /\ UNCHANGED <<toSe, rde>>
        /\ toRde' = Append(toRde, imsg("DELETE", se.sess, 0))
        /\ se' = [se EXCEPT !.downtimer = FALSE, !.rdesession = FALSE]
    BY DEF SessionDown, imsg_rde
  <1>3. se.rdesession /\ se.phase # "up"
    BY <1>1, <1>2 DEF SeRight
  <1>4. /\ se' \in SeType /\ se'.flag = se.flag /\ se'.flushes = se.flushes
        /\ se'.phase = se.phase /\ se'.sess = se.sess
        /\ se'.rdesession = FALSE /\ se'.downtimer = FALSE
    BY Zenon, <1>1, <1>2 DEF SeType
  <1>5. SeRight'
    BY <1>1, <1>2, <1>3, <1>4 DEF SeRight
  <1>6. imsg("DELETE", se.sess, 0) \in Msgs /\ imsg("DELETE", se.sess, 0).type = "DELETE"
    BY <1>1, ImsgType DEF MsgTypes
  <1>7. /\ SeView.state = "down" /\ ~SeView.kept
        /\ SeView'.state = "none" /\ SeView'.sess = SeView.sess /\ ~SeView'.kept
    <2>1. se.rdesession = TRUE
      BY <1>1, <1>3
    <2> QED BY Zenon, <1>2, <1>3, <1>4, <2>1 DEF SeView
  <1>8. Step(SeView, imsg("DELETE", se.sess, 0), SeView')
    BY <1>6, <1>7 DEF Step
  <1>9. PipeRight' /\ toRde' \in Seq(Msgs) /\ ErrorTold'
    BY <1>1, <1>2, <1>5, <1>6, <1>8, EngineSends, ErrorKept
  <1> QED BY <1>1, <1>2, <1>5, <1>9 DEF Inv, ToSeRight

LEMMA NeighborSendsRight ==
    ASSUME Inv, NeighborSends
    PROVE  Inv'
  <1>1. SeRight /\ ToSeRight /\ ErrorTold /\ se.sess \in Nat
    BY DEF Inv, SeRight, SeType
  <1>2. se.phase = "up" /\ UNCHANGED <<se, toSe, rde>>
    BY DEF NeighborSends
  <1>3. \E type \in PeerMsgs, arg \in Prefixes \cup (0 .. 2) :
            /\ type \in {"ANNOUNCE", "WITHDRAW"} => arg \in Prefixes
            /\ toRde' = Append(toRde, imsg(type, se.sess, arg))
    <2>1. CASE \E x \in Prefixes, type \in {"ANNOUNCE", "WITHDRAW"} :
                  toRde' = Append(toRde, imsg(type, se.sess, x))
      BY <2>1 DEF PeerMsgs
    <2>2. CASE \E type \in {"EOR", "ERROR"} \cup RefreshSubtypes : imsg_rde(type)
      <3>1. PICK type \in {"EOR", "ERROR"} \cup RefreshSubtypes :
                    toRde' = Append(toRde, imsg(type, se.sess, 0))
        BY <2>2 DEF imsg_rde
      <3>2. type \in {"EOR", "ERROR", "BORR", "EORR"}
        BY GracefulRestartAssumption
      <3>3. type \in PeerMsgs /\ type \notin {"ANNOUNCE", "WITHDRAW"}
        BY <3>2 DEF PeerMsgs
      <3>4. 0 \in Prefixes \cup (0 .. 2)
        OBVIOUS
      <3> QED BY <3>1, <3>3, <3>4
    <2> QED BY <2>1, <2>2 DEF NeighborSends
  <1>4. PICK type \in PeerMsgs, arg \in Prefixes \cup (0 .. 2) :
            /\ type \in {"ANNOUNCE", "WITHDRAW"} => arg \in Prefixes
            /\ toRde' = Append(toRde, imsg(type, se.sess, arg))
    BY <1>3
  <1> DEFINE m == imsg(type, se.sess, arg)
  <1>5. m \in Msgs /\ m.type = type /\ m.sess = se.sess /\ m.arg = arg
    <2>1. type \in MsgTypes
      BY <1>4 DEF MsgTypes
    <2> QED BY <1>1, <1>4, <2>1, ImsgType
  <1> HIDE DEF m
  <1>6. SeRight' /\ SeView' = SeView
    BY <1>1, <1>2 DEF SeRight, SeView
  <1>7. SeView.state = "up" /\ SeView.sess = se.sess
    <2>1. se.rdesession = TRUE
      BY <1>1, <1>2, SeFields DEF SeRight
    <2> QED BY <1>2, <2>1 DEF SeView
  <1>8. Step(SeView, m, SeView')
    BY <1>4, <1>5, <1>6, <1>7 DEF Step
  <1>9. PipeRight' /\ toRde' \in Seq(Msgs) /\ ErrorTold'
    BY <1>1, <1>2, <1>4, <1>5, <1>6, <1>8, EngineSends, ErrorKept DEF m
  <1> QED BY <1>1, <1>2, <1>6, <1>9 DEF Inv, ToSeRight

\* A message taken from the RDE is no report of an error.
LEMMA ErrorKeptTail ==
    ASSUME Inv, UNCHANGED rde, toSe # <<>>, Head(toSe).type # "UPDATE_ERR",
           toSe' = Tail(toSe),
           \A i \in 1 .. Len(toRde) : i \in 1 .. Len(toRde') /\ toRde'[i] = toRde[i]
    PROVE  ErrorTold'
  <1>1. ErrorTold /\ ToSeRight
    BY DEF Inv
  <1>2. /\ Len(toSe) \in Nat /\ Head(toSe) = toSe[1] /\ Len(toSe') = Len(toSe) - 1
        /\ \A i \in 1 .. Len(toSe) - 1 : toSe'[i] = toSe[i + 1]
    BY <1>1 DEF ToSeRight
  <1>3. ASSUME NEW i \in 1 .. Len(toSe), toSe[i].type = "UPDATE_ERR"
        PROVE  \E j \in 1 .. Len(toSe') : toSe'[j].type = "UPDATE_ERR"
    <2>1. i # 1
      BY <1>2, <1>3
    <2>2. i - 1 \in 1 .. Len(toSe) - 1 /\ (i - 1) + 1 = i
      BY <1>2, <2>1
    <2>3. toSe'[i - 1] = toSe[i]
      BY <1>2, <2>2
    <2> QED BY Zenon, <1>2, <1>3, <2>2, <2>3
  <1>4. CASE \E i \in 1 .. Len(toSe) : toSe[i].type = "UPDATE_ERR"
    BY <1>3, <1>4 DEF ErrorTold
  <1>5. CASE \E i \in 1 .. Len(toRde) : toRde[i].type \in Downs
    BY <1>5 DEF ErrorTold
  <1>6. CASE rde.state # "err"
    BY <1>6 DEF ErrorTold
  <1> QED BY <1>1, <1>4, <1>5, <1>6 DEF ErrorTold

LEMMA ToSeTail ==
    ASSUME ToSeRight, toSe # <<>>, toSe' = Tail(toSe), toRde' \in Seq(Msgs)
    PROVE  ToSeRight'
  BY DEF ToSeRight

LEMMA SeRestartedRight ==
    ASSUME Inv, SeRestarted
    PROVE  Inv'
  <1>1. SeRight /\ ToSeRight /\ se \in SeType
    BY DEF Inv, SeRight
  <1>2. /\ UNCHANGED rde /\ toSe # <<>> /\ toSe' = Tail(toSe)
        /\ Head(toSe).type # "UPDATE_ERR"
    BY DEF SeRestarted
  <1>3. CASE se.flag = "RESTARTING"
    <2> DEFINE q == session_graceful_flush(se)
    <2>1. /\ se' = [q EXCEPT !.flag = "FINISHED"]
          /\ toRde' = Append(toRde, imsg("RESTARTED", se.sess, 0))
      BY <1>3 DEF SeRestarted, imsg_rde
    <2>2. /\ q \in SeType /\ q.flushes = se.flushes + 1
          /\ q.phase = se.phase /\ q.sess = se.sess
          /\ q.rdesession = se.rdesession /\ q.downtimer = se.downtimer
      BY <1>1, FlushFields
    <2> HIDE DEF q
    <2>3. /\ se' \in SeType /\ se'.flag = "FINISHED" /\ se'.flushes = se.flushes + 1
          /\ se'.phase = se.phase /\ se'.sess = se.sess
          /\ se'.rdesession = se.rdesession /\ se'.downtimer = se.downtimer
      BY <2>1, <2>2 DEF SeType
    <2>4. /\ SeRight' /\ PipeRight' /\ toRde' \in Seq(Msgs)
          /\ \A i \in 1 .. Len(toRde) : i \in 1 .. Len(toRde') /\ toRde'[i] = toRde[i]
      BY <1>2, <1>3, <2>1, <2>3, CleanRight
    <2> QED BY <1>1, <1>2, <2>4, ErrorKeptTail, ToSeTail DEF Inv
  <1>4. CASE se.flag # "RESTARTING"
    <2>1. UNCHANGED <<toRde, se>>
      BY <1>4 DEF SeRestarted
    <2>2. SeRight' /\ SeView' = SeView
      BY <1>1, <2>1 DEF SeRight, SeView
    <2>3. PipeRight' /\ toRde' \in Seq(Msgs)
      BY <1>2, <2>1, <2>2, EngineSilent
    <2> QED BY <1>1, <1>2, <2>1, <2>2, <2>3, ErrorKeptTail, ToSeTail DEF Inv
  <1> QED BY <1>3, <1>4

LEMMA SeUpdateErrRight ==
    ASSUME Inv, SeUpdateErr
    PROVE  Inv'
  <1>1. SeRight /\ ToSeRight /\ se \in SeType /\ toRde \in Seq(Msgs)
    BY DEF Inv, SeRight, ToSeRight
  <1>2. UNCHANGED rde /\ toSe # <<>> /\ toSe' = Tail(toSe)
    BY DEF SeUpdateErr
  <1>3. CASE se.phase # "up" /\ se' = [se EXCEPT !.phase = "down"] /\ UNCHANGED toRde
    <2>1. /\ se' \in SeType /\ se'.phase = "down" /\ se'.flag = se.flag
          /\ se'.flushes = se.flushes /\ se'.sess = se.sess /\ se'.timer = se.timer
          /\ se'.rdesession = se.rdesession /\ se'.downtimer = se.downtimer
      BY <1>1, <1>3 DEF SeType
    <2>2. SeRight'
      BY <1>1, <1>3, <2>1 DEF SeRight
    <2>3. PipeRight' /\ toRde' \in Seq(Msgs)
      BY <1>2, <1>3, <2>1, SameView, EngineSilent
    <2>4. ASSUME rde.state = "err"
          PROVE  \E i \in 1 .. Len(toRde) : toRde[i].type \in Downs
      <3>1. PICK s \in Views : RdeRight(rde, s) /\ Leads(s, toRde, SeView)
        BY DEF Inv, PipeRight
      <3>2. s.state = "up"
        BY <2>4, <3>1 DEF RdeRight, StateRight, InSession
      <3>3. SeView.state # "up"
        BY <1>3 DEF SeView
      <3> QED BY <1>1, <3>1, <3>2, <3>3, LeadsDown
    <2>5. ErrorTold'
      BY <1>2, <1>3, <2>4 DEF ErrorTold
    <2> QED BY <1>1, <1>2, <2>2, <2>3, <2>5, ToSeTail DEF Inv
  <1>4. CASE session_down \/ session_graceful_restart
    <2>1. PICK m \in Msgs : /\ m.type \in Downs /\ toRde' = Append(toRde, m)
                            /\ Step(SeView, m, SeView') /\ SeRight'
      BY <1>4, EndRight
    <2>2. /\ PipeRight' /\ toRde' \in Seq(Msgs)
          /\ Len(toRde') \in 1 .. Len(toRde') /\ toRde'[Len(toRde')] = m
      BY <1>2, <2>1, EngineSends
    <2>3. ErrorTold'
      BY <2>1, <2>2 DEF ErrorTold
    <2> QED BY <1>1, <1>2, <2>1, <2>2, <2>3, ToSeTail DEF Inv
  <1> QED BY <1>3, <1>4 DEF SeUpdateErr

-----------------------------------------------------------------------------
(***************************************************************************)
(* The RDE.                                                                *)
(***************************************************************************)

LEMMA RdeFields ==
    ASSUME NEW r \in RdeType
    PROVE  /\ r.state \in {"none", "down", "up", "err"} /\ r.sess \in 0 .. MaxSessions
           /\ r.staletime \in BOOLEAN /\ r.recv_eor \in BOOLEAN
           /\ r.refreshed \in BOOLEAN /\ r.ibufq \in Seq(Msgs)
           /\ r.routes \in [Prefixes -> Routes]
  BY DEF RdeType

LEMMA NoneType ==
    None \in Routes /\ None.sess = 0 /\ ~None.old
  <1>1. 0 \in 0 .. MaxSessions
    BY GracefulRestartAssumption
  <1> QED BY <1>1 DEF None, Routes

LEMMA FlushRoutes ==
    ASSUME NEW r \in RdeType
    PROVE  LET q == peer_flush(r)
           IN  /\ q \in RdeType /\ q.state = r.state /\ q.sess = r.sess
               /\ q.staletime = FALSE /\ q.recv_eor = r.recv_eor
               /\ q.refreshed = r.refreshed /\ q.ibufq = r.ibufq
               /\ \A x \in Prefixes :
                     q.routes[x] = IF r.staletime /\ ~r.routes[x].old
                                   THEN r.routes[x] ELSE None
  <1> DEFINE f == [x \in Prefixes |-> IF r.staletime /\ ~r.routes[x].old
                                      THEN r.routes[x] ELSE None]
  <1>1. peer_flush(r) = [r EXCEPT !.staletime = FALSE, !.routes = f]
    BY DEF peer_flush
  <1>2. f \in [Prefixes -> Routes]
    BY NoneType, RdeFields
  <1>3. \A x \in Prefixes : f[x] = IF r.staletime /\ ~r.routes[x].old
                                   THEN r.routes[x] ELSE None
    OBVIOUS
  <1> HIDE DEF f
  <1>4. [r EXCEPT !.staletime = FALSE, !.routes = f] \in RdeType
    BY Zenon, <1>2 DEF RdeType
  <1>5. LET q == [r EXCEPT !.staletime = FALSE, !.routes = f]
        IN  /\ q.state = r.state /\ q.sess = r.sess
            /\ q.staletime = FALSE /\ q.recv_eor = r.recv_eor
            /\ q.refreshed = r.refreshed /\ q.ibufq = r.ibufq /\ q.routes = f
    BY DEF RdeType
  <1> QED BY <1>1, <1>3, <1>4, <1>5

LEMMA FlushAllRoutes ==
    ASSUME NEW r \in RdeType
    PROVE  LET q == peer_flush_all(r)
           IN  /\ q \in RdeType /\ q.state = r.state /\ q.sess = r.sess
               /\ q.staletime = FALSE /\ q.refreshed = r.refreshed /\ q.ibufq = r.ibufq
               /\ \A x \in Prefixes : q.routes[x] = None
  <1> DEFINE p == [r EXCEPT !.staletime = FALSE]
  <1>1. /\ p \in RdeType /\ p.state = r.state /\ p.sess = r.sess
        /\ p.staletime = FALSE /\ p.refreshed = r.refreshed /\ p.ibufq = r.ibufq
    BY Zenon DEF RdeType
  <1>2. peer_flush_all(r) = peer_flush(p)
    BY DEF peer_flush_all
  <1> HIDE DEF p
  <1> DEFINE q == peer_flush(p)
  <1>3. /\ q \in RdeType /\ q.state = p.state /\ q.sess = p.sess
        /\ q.staletime = FALSE /\ q.refreshed = p.refreshed /\ q.ibufq = p.ibufq
    BY Zenon, <1>1, FlushRoutes
  <1>4. \A x \in Prefixes :
            q.routes[x] = IF p.staletime /\ ~p.routes[x].old THEN p.routes[x] ELSE None
    BY Zenon, <1>1, FlushRoutes
  <1>5. \A x \in Prefixes : q.routes[x] = None
    BY Zenon, <1>1, <1>4
  <1> HIDE DEF q
  <1>6. peer_flush_all(r) = q
    BY <1>2 DEF q
  <1> QED BY <1>1, <1>3, <1>5, <1>6

\* A route marked: only its age changes.
LEMMA MarkedRoute ==
    ASSUME NEW u \in Routes
    PROVE  /\ [u EXCEPT !.old = TRUE] \in Routes
           /\ [u EXCEPT !.old = TRUE].old = TRUE
           /\ [u EXCEPT !.old = TRUE].sess = u.sess
  BY Zenon DEF Routes

LEMMA MarkRoutes ==
    ASSUME NEW r \in RdeType
    PROVE  LET q == mark_stale(r)
           IN  /\ q \in RdeType /\ q.state = r.state /\ q.sess = r.sess
               /\ q.staletime = TRUE /\ q.recv_eor = r.recv_eor
               /\ q.refreshed = r.refreshed /\ q.ibufq = r.ibufq
               /\ \A x \in Prefixes : q.routes[x] # None =>
                     /\ r.routes[x] # None /\ q.routes[x].old
                     /\ q.routes[x].sess = r.routes[x].sess
  <1> DEFINE p == IF r.staletime THEN peer_flush(r) ELSE r
  <1>1. /\ p \in RdeType /\ p.state = r.state /\ p.sess = r.sess
        /\ p.recv_eor = r.recv_eor /\ p.refreshed = r.refreshed /\ p.ibufq = r.ibufq
        /\ \A x \in Prefixes : p.routes[x] # None => p.routes[x] = r.routes[x]
    <2>1. CASE r.staletime
      BY Zenon, <2>1, FlushRoutes
    <2>2. CASE ~r.staletime
      BY <2>2
    <2> QED BY <2>1, <2>2
  <1> DEFINE f == [x \in Prefixes |-> IF p.routes[x] = None THEN None
                                      ELSE [p.routes[x] EXCEPT !.old = TRUE]]
  <1>2. mark_stale(r) = [p EXCEPT !.staletime = TRUE, !.routes = f]
    BY DEF mark_stale
  <1> HIDE DEF p
  <1>3. p.routes \in [Prefixes -> Routes]
    BY <1>1, RdeFields
  <1>4. f \in [Prefixes -> Routes]
    BY <1>3, NoneType, MarkedRoute
  <1>5. \A x \in Prefixes : f[x] # None =>
            /\ r.routes[x] # None /\ f[x].old /\ f[x].sess = r.routes[x].sess
    <2> SUFFICES ASSUME NEW x \in Prefixes, f[x] # None
                 PROVE  /\ r.routes[x] # None /\ f[x].old
                        /\ f[x].sess = r.routes[x].sess
      OBVIOUS
    <2>1. p.routes[x] # None /\ f[x] = [p.routes[x] EXCEPT !.old = TRUE]
      OBVIOUS
    <2>2. p.routes[x] \in Routes /\ p.routes[x] = r.routes[x]
      BY <1>1, <1>3, <2>1
    <2> HIDE DEF f
    <2> QED BY <2>1, <2>2, MarkedRoute
  <1> HIDE DEF f
  <1>6. [p EXCEPT !.staletime = TRUE, !.routes = f] \in RdeType
    BY Zenon, <1>1, <1>4 DEF RdeType
  <1>7. LET q == [p EXCEPT !.staletime = TRUE, !.routes = f]
        IN  /\ q.state = p.state /\ q.sess = p.sess
            /\ q.staletime = TRUE /\ q.recv_eor = p.recv_eor
            /\ q.refreshed = p.refreshed /\ q.ibufq = p.ibufq /\ q.routes = f
    BY <1>1 DEF RdeType
  <1> QED BY <1>1, <1>2, <1>5, <1>6, <1>7

LEMMA RdeAdd ==
    ASSUME NEW s \in Views, NEW t \in Views, NEW m \in Msgs, NEW r,
           RdeRight(r, s), Step(s, m, t), m.type = "ADD"
    PROVE  RdeRight(rde_dispatch(r, m), t)
  <1>1. s.state = "none" /\ t.state = "down" /\ t.sess = s.sess /\ t.kept = s.kept
    BY DEF Step, PeerMsgs, Downs
  <1>2. /\ r \in RdeType /\ StateRight(r, s) /\ QueueRight(r) /\ RoutesRight(r, s)
    BY DEF RdeRight
  <1>3. r.state = "none" /\ ~InSession(r) /\ ~s.kept
    BY <1>1, <1>2 DEF StateRight, InSession
  <1> DEFINE q == [r EXCEPT !.state = "down"]
  <1>4. rde_dispatch(r, m) = q
    BY <1>3 DEF rde_dispatch
  <1>5. /\ q \in RdeType /\ q.state = "down" /\ q.sess = r.sess
        /\ q.staletime = r.staletime /\ q.refreshed = r.refreshed
        /\ q.ibufq = r.ibufq /\ q.routes = r.routes
    BY <1>2 DEF RdeType
  <1> HIDE DEF q
  <1>6. StateRight(q, t)
    BY <1>1, <1>2, <1>3, <1>5 DEF StateRight, InSession
  <1>7. QueueRight(q)
    BY <1>2, <1>3, <1>5 DEF QueueRight, InSession
  <1>8. RoutesRight(q, t)
    BY <1>1, <1>2, <1>3, <1>5 DEF RoutesRight, InSession
  <1> QED BY <1>4, <1>5, <1>6, <1>7, <1>8 DEF RdeRight

LEMMA RdeQueue ==
    ASSUME NEW s \in Views, NEW t \in Views, NEW m \in Msgs, NEW r,
           RdeRight(r, s), Step(s, m, t), m.type \in PeerMsgs
    PROVE  RdeRight(rde_dispatch(r, m), t)
  <1>1. /\ s.state = "up" /\ m.sess = s.sess /\ t = s
        /\ m.type \in {"ANNOUNCE", "WITHDRAW"} => m.arg \in Prefixes
    BY DEF Step, PeerMsgs, Downs
  <1>2. /\ r \in RdeType /\ StateRight(r, s) /\ QueueRight(r) /\ RoutesRight(r, s)
    BY DEF RdeRight
  <1>3. InSession(r) /\ r.state \in {"up", "err"} /\ m.sess = r.sess
    BY <1>1, <1>2, RdeFields DEF StateRight, InSession
  <1>4. CASE r.state = "err"
    <2>1. rde_dispatch(r, m) = r
      BY Zenon, <1>4 DEF rde_dispatch, PeerMsgs
    <2> QED BY <1>1, <2>1
  <1>5. CASE r.state = "up"
    <2> DEFINE q == [r EXCEPT !.ibufq = Append(r.ibufq, m)]
    <2>1. rde_dispatch(r, m) = q
      BY Zenon, <1>5 DEF rde_dispatch, PeerMsgs
    <2>2. r.ibufq \in Seq(Msgs)
      BY <1>2, RdeFields
    <2>3. Append(r.ibufq, m) \in Seq(Msgs)
      BY <2>2
    <2>4. /\ q \in RdeType /\ q.state = r.state /\ q.sess = r.sess
          /\ q.staletime = r.staletime /\ q.refreshed = r.refreshed
          /\ q.ibufq = Append(r.ibufq, m) /\ q.routes = r.routes
      BY Zenon, <1>2, <2>3 DEF RdeType
    <2> HIDE DEF q
    <2>5. StateRight(q, t)
      BY <1>1, <1>2, <1>3, <2>4 DEF StateRight, InSession
    <2>6. QueueRight(q)
      <3>1. InSession(q)
        BY <1>3, <2>4 DEF InSession
      <3>2. ASSUME NEW i \in 1 .. Len(q.ibufq)
            PROVE  /\ q.ibufq[i].sess = q.sess /\ q.ibufq[i].type \in PeerMsgs
                   /\ q.ibufq[i].type \in {"ANNOUNCE", "WITHDRAW"} =>
                         q.ibufq[i].arg \in Prefixes
        <4>1. CASE i \in 1 .. Len(r.ibufq)
          <5>1. q.ibufq[i] = r.ibufq[i]
            BY <2>2, <2>4, <4>1
          <5> QED BY <1>2, <2>4, <4>1, <5>1 DEF QueueRight
        <4>2. CASE i = Len(r.ibufq) + 1
          <5>1. q.ibufq[i] = m
            BY SMTT(30), <2>2, <2>4, <4>2
          <5> QED BY <1>1, <1>3, <2>4, <5>1
        <4> QED BY <2>2, <2>4, <4>1, <4>2
      <3> QED BY <3>1, <3>2 DEF QueueRight
    <2>7. RoutesRight(q, t)
      BY <1>1, <1>2, <2>4 DEF RoutesRight, InSession
    <2> QED BY <2>1, <2>4, <2>5, <2>6, <2>7 DEF RdeRight
  <1> QED BY <1>3, <1>4, <1>5

LEMMA RdeUp ==
    ASSUME NEW s \in Views, NEW t \in Views, NEW m \in Msgs, NEW r,
           RdeRight(r, s), Step(s, m, t), m.type = "UP"
    PROVE  RdeRight(rde_dispatch(r, m), t)
  <1>1. /\ s.state = "down" /\ m.sess = s.sess + 1
        /\ t.state = "up" /\ t.sess = m.sess /\ t.kept = s.kept
    BY DEF Step, PeerMsgs, Downs
  <1>2. /\ r \in RdeType /\ StateRight(r, s) /\ QueueRight(r) /\ RoutesRight(r, s)
    BY DEF RdeRight
  <1>3. r.state = "down" /\ ~InSession(r) /\ r.ibufq = <<>>
    BY <1>1, <1>2, RdeFields DEF StateRight, InSession, QueueRight
  <1> DEFINE q == [r EXCEPT !.state = "up", !.sess = m.sess, !.recv_eor = (m.arg = 0),
                            !.refreshed = FALSE]
  <1>4. rde_dispatch(r, m) = q
    BY <1>3 DEF rde_dispatch, peer_up, PeerMsgs
  <1>5. t.sess \in 0 .. MaxSessions /\ s.sess \in 0 .. MaxSessions /\ r.sess \in 0 .. MaxSessions
    BY <1>2, RdeFields DEF Views
  <1>6. /\ q \in RdeType /\ q.state = "up" /\ q.sess = m.sess
        /\ q.staletime = r.staletime /\ q.refreshed = FALSE
        /\ q.ibufq = r.ibufq /\ q.routes = r.routes
    <2>1. m.sess \in 0 .. MaxSessions /\ (m.arg = 0) \in BOOLEAN
      BY <1>1, <1>5
    <2> QED BY Zenon, <1>2, <2>1 DEF RdeType
  <1> HIDE DEF q
  <1>7. StateRight(q, t)
    <2>1. q.sess = t.sess /\ q.sess <= t.sess
      BY <1>1, <1>5, <1>6
    <2> QED BY <1>1, <1>2, <1>3, <1>6, <2>1 DEF StateRight, InSession
  <1>8. QueueRight(q)
    BY <1>3, <1>6 DEF QueueRight, InSession
  <1>9. RoutesRight(q, t)
    <2> SUFFICES ASSUME NEW x \in Prefixes, q.routes[x] # None
                 PROVE  /\ q.routes[x].sess <= q.sess /\ q.routes[x].sess # q.sess
                        /\ t.kept /\ q.staletime /\ q.routes[x].old
      BY DEF RoutesRight
    <2>1. /\ r.routes[x].sess <= r.sess /\ s.kept /\ r.staletime /\ r.routes[x].old
      BY Zenon, <1>2, <1>3, <1>6 DEF RoutesRight
    <2>2. r.routes[x].sess \in 0 .. MaxSessions
      BY <1>2, RdeFields DEF Routes
    <2>3. r.sess <= s.sess
      BY <1>2 DEF StateRight
    <2>4. q.routes[x].sess <= q.sess /\ q.routes[x].sess # q.sess
      BY <1>1, <1>5, <1>6, <2>1, <2>2, <2>3
    <2> QED BY <1>1, <1>6, <2>1, <2>4
  <1> QED BY <1>4, <1>6, <1>7, <1>8, <1>9 DEF RdeRight

\* A peer that is down with no route left, and nothing kept.
LEMMA RdeEmptied ==
    ASSUME NEW q \in RdeType, NEW t \in Views, q.state \in {"none", "down"},
           t.state = q.state, q.sess <= t.sess, ~t.kept, q.ibufq = <<>>,
           \A x \in Prefixes : q.routes[x] = None
    PROVE  RdeRight(q, t)
  <1>1. ~InSession(q)
    BY DEF InSession
  <1>2. StateRight(q, t)
    BY <1>1 DEF StateRight
  <1>3. QueueRight(q)
    BY DEF QueueRight
  <1>4. RoutesRight(q, t)
    BY DEF RoutesRight
  <1> QED BY <1>2, <1>3, <1>4 DEF RdeRight

LEMMA RdeDown ==
    ASSUME NEW s \in Views, NEW t \in Views, NEW m \in Msgs, NEW r,
           RdeRight(r, s), Step(s, m, t), m.type \in Downs
    PROVE  RdeRight(rde_dispatch(r, m), t)
  <1>1. /\ s.state = "up" /\ t.state = "down" /\ t.sess = s.sess
        /\ t.kept <=> m.type = "STALE"
    BY DEF Step, PeerMsgs, Downs
  <1>2. /\ r \in RdeType /\ StateRight(r, s) /\ QueueRight(r) /\ RoutesRight(r, s)
    BY DEF RdeRight
  <1>3. InSession(r) /\ r.state # "none" /\ r.sess <= t.sess
    BY <1>1, <1>2, RdeFields DEF StateRight, InSession
  <1>4. CASE m.type = "DOWN"
    <2> DEFINE p == [r EXCEPT !.state = "down", !.ibufq = <<>>]
    <2>1. rde_dispatch(r, m) = peer_flush_all(p)
      BY <1>3, <1>4 DEF rde_dispatch, peer_down, PeerMsgs
    <2>2. <<>> \in Seq(Msgs)
      OBVIOUS
    <2>3. p \in RdeType /\ p.state = "down" /\ p.ibufq = <<>> /\ p.sess = r.sess
      BY Zenon, <1>2, <2>2 DEF RdeType
    <2> HIDE DEF p
    <2> DEFINE q == peer_flush_all(p)
    <2>4. /\ q \in RdeType /\ q.state = "down" /\ q.ibufq = <<>> /\ q.sess = r.sess
          /\ \A x \in Prefixes : q.routes[x] = None
      BY Zenon, <2>3, FlushAllRoutes
    <2> HIDE DEF q
    <2>5. RdeRight(q, t)
      BY <1>1, <1>3, <1>4, <2>4, RdeEmptied
    <2> QED BY <2>1, <2>5 DEF q
  <1>5. CASE m.type \in {"STALE", "NOGRACE"}
    <2> DEFINE p == mark_stale(r)
               q == [p EXCEPT !.state = "down", !.ibufq = <<>>]
    <2>1. rde_dispatch(r, m) = IF m.type = "STALE" THEN q ELSE peer_flush_all(q)
      BY <1>3, <1>5 DEF rde_dispatch, peer_stale, PeerMsgs
    <2>2. /\ p \in RdeType /\ p.sess = r.sess /\ p.staletime = TRUE
          /\ \A x \in Prefixes : p.routes[x] # None =>
                /\ r.routes[x] # None /\ p.routes[x].old
                /\ p.routes[x].sess = r.routes[x].sess
      BY Zenon, <1>2, MarkRoutes
    <2> HIDE DEF p
    <2>3. <<>> \in Seq(Msgs)
      OBVIOUS
    <2>4. /\ q \in RdeType /\ q.state = "down" /\ q.sess = r.sess
          /\ q.staletime = TRUE /\ q.ibufq = <<>> /\ q.routes = p.routes
      BY Zenon, <2>2, <2>3 DEF RdeType
    <2> HIDE DEF q
    <2>5. CASE m.type = "STALE"
      <3>1. ~InSession(q)
        BY <2>4 DEF InSession
      <3>2. StateRight(q, t)
        BY <1>1, <1>3, <2>4, <2>5, <3>1 DEF StateRight
      <3>3. QueueRight(q)
        BY <2>4 DEF QueueRight
      <3>4. RoutesRight(q, t)
        <4> SUFFICES ASSUME NEW x \in Prefixes, q.routes[x] # None
                     PROVE  /\ q.routes[x].sess <= q.sess
                            /\ t.kept /\ q.staletime /\ q.routes[x].old
          BY <3>1 DEF RoutesRight
        <4>1. r.routes[x] # None /\ q.routes[x].old /\ q.routes[x].sess = r.routes[x].sess
          BY <2>2, <2>4
        <4>2. r.routes[x].sess <= r.sess
          BY <1>2, <4>1 DEF RoutesRight
        <4> QED BY <1>1, <2>4, <2>5, <4>1, <4>2
      <3> QED BY <2>1, <2>4, <2>5, <3>2, <3>3, <3>4 DEF RdeRight
    <2>6. CASE m.type # "STALE"
      <3> DEFINE z == peer_flush_all(q)
      <3>1. /\ z \in RdeType /\ z.state = "down" /\ z.ibufq = <<>> /\ z.sess = r.sess
            /\ \A x \in Prefixes : z.routes[x] = None
        BY Zenon, <2>4, FlushAllRoutes
      <3> HIDE DEF z
      <3>2. RdeRight(z, t)
        BY <1>1, <1>3, <2>6, <3>1, RdeEmptied
      <3> QED BY <2>1, <2>6, <3>2 DEF z
    <2> QED BY <2>5, <2>6
  <1> QED BY <1>4, <1>5 DEF Downs

LEMMA RdeDelete ==
    ASSUME NEW s \in Views, NEW t \in Views, NEW m \in Msgs, NEW r,
           RdeRight(r, s), Step(s, m, t), m.type = "DELETE"
    PROVE  RdeRight(rde_dispatch(r, m), t)
  <1>1. /\ s.state = "down" /\ t.state = "none" /\ t.sess = s.sess /\ ~t.kept
    BY DEF Step, PeerMsgs, Downs
  <1>2. r.state # "none"
    BY <1>1 DEF RdeRight, StateRight, InSession
  <1>3. rde_dispatch(r, m) = NoPeer
    BY <1>2 DEF rde_dispatch, PeerMsgs
  <1>4. [x \in Prefixes |-> None] \in [Prefixes -> Routes] /\ <<>> \in Seq(Msgs)
    BY NoneType
  <1>5. 0 \in 0 .. MaxSessions /\ t.sess \in Nat
    BY GracefulRestartAssumption DEF Views
  <1>6. NoPeer \in RdeType
    BY <1>4, <1>5 DEF NoPeer, RdeType
  <1>7. /\ NoPeer.state = "none" /\ NoPeer.sess = 0 /\ NoPeer.ibufq = <<>>
        /\ \A x \in Prefixes : NoPeer.routes[x] = None
    BY DEF NoPeer
  <1>8. NoPeer.sess <= t.sess
    BY <1>5, <1>7
  <1> HIDE DEF NoPeer
  <1> QED BY <1>1, <1>3, <1>6, <1>7, <1>8, RdeEmptied

\* The end of a restart leaves no route of an earlier session.
LEMMA RdeClean ==
    ASSUME NEW s \in Views, NEW t \in Views, NEW m \in Msgs, NEW r,
           RdeRight(r, s), Step(s, m, t), m.type \in {"FLUSH", "RESTARTED"}
    PROVE  RdeRight(rde_dispatch(r, m), t)
  <1>1. s.kept /\ t.state = s.state /\ t.sess = s.sess /\ ~t.kept
    BY DEF Step, PeerMsgs, Downs
  <1>2. /\ r \in RdeType /\ StateRight(r, s) /\ QueueRight(r) /\ RoutesRight(r, s)
    BY DEF RdeRight
  <1>3. r.state # "none"
    BY <1>1, <1>2 DEF StateRight, InSession
  <1>4. CASE m.type = "RESTARTED" /\ ~r.staletime
    <2>1. rde_dispatch(r, m) = r
      BY <1>3, <1>4 DEF rde_dispatch, PeerMsgs
    <2>2. StateRight(r, t)
      BY SMTT(30), <1>1, <1>2 DEF StateRight
    <2>3. RoutesRight(r, t)
      BY <1>2, <1>4 DEF RoutesRight
    <2> QED BY <1>2, <2>1, <2>2, <2>3 DEF RdeRight
  <1>5. CASE ~(m.type = "RESTARTED" /\ ~r.staletime)
    <2> DEFINE q == peer_flush(r)
    <2>1. rde_dispatch(r, m) = q
      BY Zenon, <1>3, <1>5 DEF rde_dispatch, PeerMsgs
    <2>2. /\ q \in RdeType /\ q.state = r.state /\ q.sess = r.sess
          /\ q.refreshed = r.refreshed /\ q.ibufq = r.ibufq
          /\ \A x \in Prefixes :
                q.routes[x] = IF r.staletime /\ ~r.routes[x].old
                              THEN r.routes[x] ELSE None
      BY Zenon, <1>2, FlushRoutes
    <2> HIDE DEF q
    <2>3. StateRight(q, t)
      BY <1>1, <1>2, <2>2 DEF StateRight, InSession
    <2>4. QueueRight(q)
      BY Zenon, <1>2, <2>2 DEF QueueRight, InSession
    <2>5. RoutesRight(q, t)
      <3> SUFFICES ASSUME NEW x \in Prefixes, q.routes[x] # None
                   PROVE  /\ q.routes[x].sess <= q.sess
                          /\ InSession(q) /\ q.routes[x].sess = q.sess
                          /\ ~q.routes[x].old
        BY DEF RoutesRight
      <3>1. q.routes[x] = r.routes[x] /\ ~r.routes[x].old
        BY <2>2
      <3> QED BY SMTT(30), <1>2, <2>2, <3>1 DEF RoutesRight, InSession
    <2> QED BY <2>1, <2>2, <2>3, <2>4, <2>5 DEF RdeRight
  <1> QED BY <1>4, <1>5

LEMMA RdeSessionRight ==
    ASSUME Inv, RdeSession
    PROVE  Inv'
  <1>1. /\ SeRight /\ ToSeRight /\ ErrorTold /\ toRde \in Seq(Msgs)
        /\ toRde # <<>> /\ toRde' = Tail(toRde) /\ UNCHANGED <<se, toSe>>
        /\ rde' = rde_dispatch(rde, Head(toRde))
    BY DEF Inv, ToSeRight, RdeSession
  <1> DEFINE m == Head(toRde)
  <1>2. m \in Msgs /\ toRde' \in Seq(Msgs)
    BY <1>1
  <1>3. PICK s \in Views : RdeRight(rde, s) /\ Leads(s, toRde, SeView)
    BY DEF Inv, PipeRight
  <1>4. PICK u \in Views : Step(s, m, u) /\ Leads(u, toRde', SeView)
    BY <1>1, <1>3, LeadsTail
  <1> HIDE DEF m
  <1>5. \/ m.type = "ADD" \/ m.type \in PeerMsgs \/ m.type = "UP" \/ m.type \in Downs
        \/ m.type = "DELETE" \/ m.type \in {"FLUSH", "RESTARTED"}
    BY <1>4 DEF Step
  <1>6. RdeRight(rde_dispatch(rde, m), u)
    BY <1>2, <1>3, <1>4, <1>5, RdeAdd, RdeQueue, RdeUp, RdeDown, RdeDelete, RdeClean
  <1>7. SeRight' /\ SeView' = SeView
    BY <1>1 DEF SeRight, SeView
  <1>8. PipeRight'
    BY <1>1, <1>4, <1>6, <1>7 DEF PipeRight, m
  <1>9. ErrorTold'
    <2> SUFFICES ASSUME rde'.state = "err"
                 PROVE  \/ \E i \in 1 .. Len(toSe) : toSe[i].type = "UPDATE_ERR"
                        \/ \E i \in 1 .. Len(toRde') : toRde'[i].type \in Downs
      BY <1>1 DEF ErrorTold
    <2>1. rde.state = "err" /\ m.type \notin Downs
      <3>1. rde' = rde_dispatch(rde, m)
        BY <1>1 DEF m
      <3>2. rde \in RdeType /\ u.state = "up"
        BY <1>3, <1>6, <3>1 DEF RdeRight, StateRight, InSession
      <3>3. m.type \notin Downs
        BY <1>4, <3>2 DEF Step, Downs, PeerMsgs
      <3>4. ASSUME rde.state # "err" PROVE FALSE
        <4>1. CASE m.type = "ADD" \/ m.type = "DELETE"
          BY <1>4, <3>2, <4>1 DEF Step, PeerMsgs, Downs
        <4>2. CASE m.type = "UP"
          <5>1. rde.state # "none"
            BY <1>3, <1>4, <4>2 DEF Step, PeerMsgs, Downs, RdeRight, StateRight, InSession
          <5>2. rde' = [rde EXCEPT !.state = "up", !.sess = m.sess,
                                   !.recv_eor = (m.arg = 0), !.refreshed = FALSE]
            BY <3>1, <3>4, <4>2, <5>1 DEF rde_dispatch, peer_up, PeerMsgs
          <5>3. rde'.state = "up"
            BY <3>2, <5>2 DEF RdeType
          <5> QED BY <5>3
        <4>3. CASE m.type \in PeerMsgs
          <5>1. rde' = rde \/ rde' = [rde EXCEPT !.ibufq = Append(@, m)]
            BY Zenon, <3>1, <4>3 DEF rde_dispatch, PeerMsgs
          <5>2. rde'.state = rde.state
            BY <3>2, <5>1 DEF RdeType
          <5> QED BY <3>4, <5>2
        <4>4. CASE m.type \in {"FLUSH", "RESTARTED"}
          <5>1. rde' = rde \/ rde' = peer_flush(rde)
            BY Zenon, <3>1, <4>4 DEF rde_dispatch, PeerMsgs
          <5>2. rde'.state = rde.state
            BY Zenon, <3>2, <5>1, FlushRoutes
          <5> QED BY <3>4, <5>2
        <4> QED BY <1>5, <3>3, <4>1, <4>2, <4>3, <4>4
      <3> QED BY <3>3, <3>4
    <2>2. ASSUME NEW i \in 1 .. Len(toRde), toRde[i].type \in Downs
          PROVE  \E j \in 1 .. Len(toRde') : toRde'[j].type \in Downs
      <3>1. i # 1 /\ Len(toRde) \in Nat /\ Len(toRde') = Len(toRde) - 1
        BY <1>1, <2>1, <2>2 DEF m
      <3>2. i - 1 \in 1 .. Len(toRde')
        BY <3>1
      <3>3. toRde'[i - 1] = toRde[i]
        BY <1>1, <3>1, <3>2
      <3> QED BY <2>2, <3>2, <3>3
    <2> QED BY <1>1, <2>1, <2>2 DEF ErrorTold
  <1> QED BY <1>1, <1>2, <1>7, <1>8, <1>9 DEF Inv, ToSeRight

\* The peer's queue loses its first imsg, or all of them.
LEMMA QueueShrinks ==
    ASSUME NEW r \in RdeType, QueueRight(r), r.ibufq # <<>>, NEW q,
           q.sess = r.sess, q.ibufq = Tail(r.ibufq), InSession(q)
    PROVE  QueueRight(q)
  <1>1. r.ibufq \in Seq(Msgs)
    BY RdeFields
  <1>2. /\ Len(r.ibufq) \in Nat /\ Len(q.ibufq) = Len(r.ibufq) - 1
        /\ \A i \in 1 .. Len(r.ibufq) - 1 : q.ibufq[i] = r.ibufq[i + 1]
    BY <1>1
  <1>3. ASSUME NEW i \in 1 .. Len(q.ibufq)
        PROVE  i + 1 \in 1 .. Len(r.ibufq) /\ q.ibufq[i] = r.ibufq[i + 1]
    BY <1>2
  <1> QED BY <1>3 DEF QueueRight

LEMMA RdeUpdateRight ==
    ASSUME NEW s \in Views, NEW m \in Msgs, RdeRight(rde, s), rde.ibufq # <<>>,
           rde.state = "up", m = Head(rde.ibufq), RdeUpdate(m)
    PROVE  RdeRight(rde', s) /\ rde'.state = "up"
  <1>1. /\ rde \in RdeType /\ StateRight(rde, s) /\ QueueRight(rde)
        /\ RoutesRight(rde, s) /\ InSession(rde)
    BY DEF RdeRight, InSession
  <1>2. rde.ibufq \in Seq(Msgs) /\ rde.routes \in [Prefixes -> Routes]
        /\ rde.sess \in 0 .. MaxSessions
    BY <1>1, RdeFields
  <1>3. m = rde.ibufq[1] /\ 1 \in 1 .. Len(rde.ibufq) /\ Tail(rde.ibufq) \in Seq(Msgs)
    BY <1>2
  <1>4. m.type \in {"ANNOUNCE", "WITHDRAW"} /\ m.sess = rde.sess /\ m.arg \in Prefixes
    BY <1>1, <1>3 DEF QueueRight, RdeUpdate
  <1> DEFINE v == IF m.type = "WITHDRAW" THEN None ELSE [sess |-> m.sess, old |-> FALSE]
             f == [rde.routes EXCEPT ![m.arg] = v]
  <1>5. v \in Routes /\ (v # None => v.sess = rde.sess /\ ~v.old)
    BY <1>2, <1>4, NoneType DEF Routes
  <1>6. rde' = [rde EXCEPT !.ibufq = Tail(rde.ibufq), !.routes = f]
    BY DEF RdeUpdate
  <1> HIDE DEF v
  <1>7. f \in [Prefixes -> Routes]
    BY <1>2, <1>4, <1>5
  <1>8. f[m.arg] = v /\ \A x \in Prefixes : x # m.arg => f[x] = rde.routes[x]
    BY <1>2, <1>4
  <1> HIDE DEF f
  <1>9. /\ rde' \in RdeType /\ rde'.state = rde.state /\ rde'.sess = rde.sess
        /\ rde'.staletime = rde.staletime /\ rde'.refreshed = rde.refreshed
        /\ rde'.ibufq = Tail(rde.ibufq) /\ rde'.routes = f
    <2>1. rde' \in RdeType
      BY Zenon, <1>1, <1>3, <1>6, <1>7 DEF RdeType
    <2> QED BY <1>1, <1>6, <2>1 DEF RdeType
  <1>10. InSession(rde')
    BY <1>9 DEF InSession
  <1>11. StateRight(rde', s)
    BY <1>1, <1>9, <1>10 DEF StateRight
  <1>12. QueueRight(rde')
    BY <1>1, <1>9, <1>10, QueueShrinks
  <1>13. RoutesRight(rde', s)
    <2> SUFFICES ASSUME NEW x \in Prefixes, rde'.routes[x] # None
                 PROVE  /\ rde'.routes[x].sess <= rde'.sess
                        /\ rde'.routes[x].sess # rde'.sess =>
                              s.kept /\ rde'.staletime /\ rde'.routes[x].old
                        /\ rde'.routes[x].sess = rde'.sess /\ ~rde'.refreshed =>
                              ~rde'.routes[x].old
      BY <1>10 DEF RoutesRight
    <2>1. CASE x = m.arg
      <3>1. rde'.routes[x] = v
        BY <1>8, <1>9, <2>1
      <3>2. v.sess = rde.sess /\ ~v.old /\ rde.sess <= rde.sess
        BY SMTT(30), <1>2, <1>5, <3>1
      <3> QED BY <1>9, <3>1, <3>2
    <2>2. CASE x # m.arg
      <3>1. rde'.routes[x] = rde.routes[x]
        BY <1>8, <1>9, <2>2
      <3> QED BY <1>1, <1>9, <3>1 DEF RoutesRight
    <2> QED BY <2>1, <2>2
  <1> QED BY <1>9, <1>11, <1>12, <1>13 DEF RdeRight

\* An imsg that leaves the routes alone.
LEMMA RdePopped ==
    ASSUME NEW s \in Views, NEW r, RdeRight(r, s), r.ibufq # <<>>, NEW q \in RdeType,
           q.state \in {"up", "err"}, q.sess = r.sess, q.staletime = r.staletime,
           q.refreshed = r.refreshed, q.routes = r.routes,
           q.ibufq = <<>> \/ q.ibufq = Tail(r.ibufq)
    PROVE  RdeRight(q, s)
  <1>1. /\ r \in RdeType /\ StateRight(r, s) /\ QueueRight(r) /\ RoutesRight(r, s)
    BY DEF RdeRight
  <1>2. InSession(r) /\ InSession(q)
    BY <1>1 DEF QueueRight, InSession
  <1>3. StateRight(q, s)
    BY <1>1, <1>2 DEF StateRight
  <1>4. QueueRight(q)
    <2>1. CASE q.ibufq = <<>>
      BY <2>1 DEF QueueRight
    <2>2. CASE q.ibufq = Tail(r.ibufq)
      BY SMTT(30), <1>1, <1>2, <2>2, QueueShrinks
    <2> QED BY <2>1, <2>2
  <1>5. RoutesRight(q, s)
    BY <1>1, <1>2 DEF RoutesRight
  <1> QED BY <1>3, <1>4, <1>5 DEF RdeRight

\* Both ends of an enhanced route refresh.  What stays after the end is new.
LEMMA RdeRefreshRight ==
    ASSUME NEW s \in Views, RdeRight(rde, s), rde.ibufq # <<>>, rde.state = "up",
           NEW m, peer_begin_rrefresh(m) \/ peer_end_rrefresh(m)
    PROVE  RdeRight(rde', s) /\ rde'.state = "up" /\ UNCHANGED toSe
  <1>1. /\ rde \in RdeType /\ StateRight(rde, s) /\ QueueRight(rde)
        /\ RoutesRight(rde, s) /\ InSession(rde)
    BY DEF RdeRight, InSession
  <1>2. rde.ibufq \in Seq(Msgs)
    BY SMTT(30), <1>1, RdeFields
  <1>3. PICK p :
            /\ p = rde \/ p = mark_stale(rde) \/ (p = peer_flush(rde) /\ rde.staletime)
            /\ rde' = [p EXCEPT !.ibufq = Tail(@), !.refreshed = TRUE]
    <2>1. CASE peer_begin_rrefresh(m)
      BY ZenonT(30), <2>1 DEF peer_begin_rrefresh
    <2>2. CASE peer_end_rrefresh(m)
      BY Zenon, <2>2 DEF peer_end_rrefresh
    <2> QED BY ZenonT(30), <2>1, <2>2
  <1>4. p \in RdeType /\ p.state = rde.state /\ p.sess = rde.sess /\ p.ibufq = rde.ibufq
    <2>1. CASE p = rde
      BY <1>1, <2>1
    <2>2. CASE p = mark_stale(rde)
      BY Zenon, <1>1, <2>2, MarkRoutes
    <2>3. CASE p = peer_flush(rde)
      BY Zenon, <1>1, <2>3, FlushRoutes
    <2> QED BY <1>3, <2>1, <2>2, <2>3
  <1>5. \A x \in Prefixes : p.routes[x] # None =>
            /\ p.routes[x].sess <= p.sess
            /\ p.routes[x].sess # p.sess => s.kept /\ p.staletime /\ p.routes[x].old
    <2>1. CASE p = rde
      BY Zenon, <1>1, <2>1 DEF RoutesRight
    <2>2. CASE p = mark_stale(rde)
      <3>1. /\ p.staletime = TRUE
            /\ \A x \in Prefixes : p.routes[x] # None =>
                  /\ rde.routes[x] # None /\ p.routes[x].old
                  /\ p.routes[x].sess = rde.routes[x].sess
        BY Zenon, <1>1, <2>2, MarkRoutes
      <3> QED BY SMTT(30), <1>1, <1>4, <3>1 DEF RoutesRight
    <2>3. CASE p = peer_flush(rde) /\ rde.staletime
      <3>1. \A x \in Prefixes :
                p.routes[x] = IF rde.staletime /\ ~rde.routes[x].old
                              THEN rde.routes[x] ELSE None
        BY Zenon, <1>1, <2>3, FlushRoutes
      <3> QED BY <1>1, <1>4, <3>1 DEF RoutesRight
    <2> QED BY <1>3, <2>1, <2>2, <2>3
  <1>6. /\ rde' \in RdeType /\ rde'.state = p.state /\ rde'.sess = p.sess
        /\ rde'.staletime = p.staletime /\ rde'.refreshed = TRUE
        /\ rde'.ibufq = Tail(p.ibufq) /\ rde'.routes = p.routes
    <2>1. Tail(p.ibufq) \in Seq(Msgs)
      BY <1>2, <1>4
    <2>2. rde' = [p EXCEPT !.ibufq = Tail(p.ibufq), !.refreshed = TRUE]
      BY <1>3
    <2>3. rde' \in RdeType
      BY ONLY Zenon, <1>4, <2>1, <2>2 DEF RdeType
    <2> QED BY ONLY <1>4, <2>1, <2>2, <2>3 DEF RdeType
  <1>7. InSession(rde') /\ rde'.state = "up"
    BY <1>4, <1>6 DEF InSession
  <1>8. StateRight(rde', s)
    BY SMTT(30), <1>1, <1>4, <1>6, <1>7 DEF StateRight
  <1>9. QueueRight(rde')
    BY <1>1, <1>4, <1>6, <1>7, QueueShrinks
  <1>10. RoutesRight(rde', s)
    BY <1>5, <1>6, <1>7 DEF RoutesRight
  <1> QED BY <1>6, <1>7, <1>8, <1>9, <1>10
          DEF RdeRight, peer_begin_rrefresh, peer_end_rrefresh

LEMMA RdePeerRight ==
    ASSUME Inv, RdePeer
    PROVE  Inv'
  <1>1. /\ SeRight /\ ToSeRight /\ ErrorTold /\ UNCHANGED <<se, toRde>>
        /\ rde.ibufq # <<>>
    BY DEF Inv, RdePeer
  <1>2. PICK s \in Views : RdeRight(rde, s) /\ Leads(s, toRde, SeView)
    BY DEF Inv, PipeRight
  <1>3. rde \in RdeType /\ rde.ibufq \in Seq(Msgs) /\ rde.state \in {"up", "err"}
    BY <1>1, <1>2, RdeFields DEF RdeRight, QueueRight, InSession
  <1>4. Head(rde.ibufq) \in Msgs /\ Tail(rde.ibufq) \in Seq(Msgs) /\ <<>> \in Seq(Msgs)
    BY <1>1, <1>3
  <1>5. SeRight' /\ SeView' = SeView
    BY <1>1 DEF SeRight, SeView
  <1>6. SUFFICES RdeRight(rde', s) /\ ToSeRight' /\ ErrorTold'
    <2>1. PipeRight'
      BY <1>1, <1>2, <1>5, <1>6 DEF PipeRight
    <2> QED BY <1>5, <1>6, <2>1 DEF Inv
  <1>7. CASE rde.state = "err"
    <2>1. rde' = [rde EXCEPT !.ibufq = <<>>] /\ UNCHANGED toSe
      BY <1>7 DEF RdePeer
    <2>2. /\ rde' \in RdeType /\ rde'.state = "err" /\ rde'.sess = rde.sess
          /\ rde'.staletime = rde.staletime /\ rde'.refreshed = rde.refreshed
          /\ rde'.routes = rde.routes /\ rde'.ibufq = <<>>
      BY Zenon, <1>3, <1>4, <1>7, <2>1 DEF RdeType
    <2>3. RdeRight(rde', s)
      BY <1>1, <1>2, <2>2, RdePopped
    <2> QED BY <1>1, <1>7, <2>1, <2>3 DEF ToSeRight, ErrorTold
  <1>8. CASE rde.state = "up"
    <2> DEFINE m == Head(rde.ibufq)
    <2>1. \/ RdeUpdate(m) \/ rde_update_err(m) \/ rde_peer_recv_eor(m)
          \/ peer_begin_rrefresh(m) \/ peer_end_rrefresh(m)
      BY <1>8 DEF RdePeer
    <2>2. CASE RdeUpdate(m)
      <3>1. RdeRight(rde', s) /\ rde'.state = "up"
        BY <1>1, <1>2, <1>4, <1>8, <2>2, RdeUpdateRight
      <3> QED BY <1>1, <2>2, <3>1 DEF ToSeRight, ErrorTold, RdeUpdate
    <2>3. CASE rde_update_err(m)
      <3>1. /\ rde' = [rde EXCEPT !.ibufq = Tail(rde.ibufq), !.state = "err"]
            /\ toSe' = Append(toSe, imsg("UPDATE_ERR", rde.sess, 0))
        BY <2>3 DEF rde_update_err
      <3>2. /\ rde' \in RdeType /\ rde'.state = "err" /\ rde'.sess = rde.sess
            /\ rde'.staletime = rde.staletime /\ rde'.refreshed = rde.refreshed
            /\ rde'.routes = rde.routes /\ rde'.ibufq = Tail(rde.ibufq)
        BY Zenon, <1>3, <1>4, <3>1 DEF RdeType
      <3>3. RdeRight(rde', s)
        BY <1>1, <1>2, <3>2, RdePopped
      <3>4. rde.sess \in Nat
        BY <1>3, RdeFields
      <3>5. ToSeRight'
        BY <1>1, <3>1, <3>4 DEF ToSeRight, imsg
      <3>6. Len(toSe') \in 1 .. Len(toSe') /\ toSe'[Len(toSe')].type = "UPDATE_ERR"
        BY <1>1, <3>1 DEF ToSeRight, imsg
      <3>7. ErrorTold'
        BY <3>6 DEF ErrorTold
      <3> QED BY <3>3, <3>5, <3>7
    <2>4. CASE rde_peer_recv_eor(m)
      <3>1. /\ rde' = [rde EXCEPT !.ibufq = Tail(rde.ibufq), !.recv_eor = TRUE]
            /\ toSe' = Append(toSe, imsg("RESTARTED", rde.sess, 0))
        BY <2>4 DEF rde_peer_recv_eor
      <3>2. /\ rde' \in RdeType /\ rde'.state = rde.state /\ rde'.sess = rde.sess
            /\ rde'.staletime = rde.staletime /\ rde'.refreshed = rde.refreshed
            /\ rde'.routes = rde.routes /\ rde'.ibufq = Tail(rde.ibufq)
        BY Zenon, <1>3, <1>4, <3>1 DEF RdeType
      <3>3. RdeRight(rde', s)
        BY <1>1, <1>2, <1>8, <3>2, RdePopped
      <3>4. rde.sess \in Nat
        BY <1>3, RdeFields
      <3>5. ToSeRight'
        BY <1>1, <3>1, <3>4 DEF ToSeRight, imsg
      <3>6. ErrorTold'
        BY <1>8, <3>2 DEF ErrorTold
      <3> QED BY <3>3, <3>5, <3>6
    <2>5. CASE peer_begin_rrefresh(m) \/ peer_end_rrefresh(m)
      <3>1. RdeRight(rde', s) /\ rde'.state = "up" /\ UNCHANGED toSe
        BY <1>1, <1>2, <1>8, <2>5, RdeRefreshRight
      <3> QED BY <1>1, <3>1 DEF ToSeRight, ErrorTold
    <2> QED BY <2>1, <2>2, <2>3, <2>4, <2>5
  <1> QED BY <1>3, <1>7, <1>8

-----------------------------------------------------------------------------
(***************************************************************************)
(* The theorems.                                                           *)
(***************************************************************************)

LEMMA InitRight ==
    Init => Inv
  <1> SUFFICES ASSUME Init PROVE Inv
    OBVIOUS
  <1>1. 0 \in 0 .. MaxSessions
    BY GracefulRestartAssumption
  <1>2. se \in SeType
    BY <1>1 DEF Init, SeType
  <1>3. SeRight
    BY <1>2 DEF Init, SeRight
  <1>4. toRde = <<>> /\ ToSeRight
    BY DEF Init, ToSeRight
  <1>5. SeView \in Views /\ SeView.state = "none" /\ SeView.sess = 0 /\ ~SeView.kept
    <2>1. SeView.state = "none" /\ SeView.sess = 0 /\ ~SeView.kept
      BY Zenon DEF Init, SeView
    <2> QED BY <1>3, <2>1, SeViewType
  <1>6. Leads(SeView, toRde, SeView)
    BY <1>4, <1>5, LeadsNil
  <1>7. [x \in Prefixes |-> None] \in [Prefixes -> Routes] /\ <<>> \in Seq(Msgs)
    BY NoneType
  <1>8. /\ rde \in RdeType /\ rde.state = "none" /\ rde.sess = 0 /\ rde.ibufq = <<>>
        /\ \A x \in Prefixes : rde.routes[x] = None
    <2>1. NoPeer \in RdeType
      BY <1>1, <1>7 DEF NoPeer, RdeType
    <2>2. /\ NoPeer.state = "none" /\ NoPeer.sess = 0 /\ NoPeer.ibufq = <<>>
          /\ \A x \in Prefixes : NoPeer.routes[x] = None
      BY DEF NoPeer
    <2> QED BY Zenon, <2>1, <2>2 DEF Init
  <1>9. RdeRight(rde, SeView)
    BY <1>5, <1>8, RdeEmptied
  <1>10. PipeRight
    BY <1>5, <1>6, <1>9 DEF PipeRight
  <1> QED BY <1>3, <1>4, <1>8, <1>10 DEF Inv, ErrorTold

LEMMA NextRight ==
    ASSUME Inv, [Next]_vars
    PROVE  Inv'
  <1>1. CASE Next
    BY Zenon, <1>1, NegotiateRight, OpenFailsRight, SessionUpRight, SessionEndsRight,
       RestartTimeoutRight, SessionDownRight, SeRestartedRight, SeUpdateErrRight,
       NeighborSendsRight, RdeSessionRight, RdePeerRight DEF Next
  <1>2. CASE UNCHANGED vars
    <2>1. SeView' = SeView /\ se' = se /\ toRde' = toRde /\ toSe' = toSe /\ rde' = rde
      BY <1>2 DEF vars, SeView
    <2> QED BY <2>1 DEF Inv, SeRight, ToSeRight, ErrorTold, PipeRight
  <1> QED BY <1>1, <1>2

\* The pipe always leads the RDE to where the engine takes it to be.
THEOREM PipeLeads == Spec => []Inv
  BY InitRight, NextRight, PTL DEF Spec

LEMMA RightAgrees ==
    ASSUME Inv
    PROVE  InAgreement
  <1>1. /\ SeRight /\ ToSeRight /\ ErrorTold /\ toRde \in Seq(Msgs)
    BY DEF Inv, ToSeRight
  <1>2. PICK s \in Views : RdeRight(rde, s) /\ Leads(s, toRde, SeView)
    BY Zenon DEF Inv, PipeRight
  <1>3. /\ rde \in RdeType /\ StateRight(rde, s) /\ QueueRight(rde)
        /\ rde.ibufq \in Seq(Msgs)
    BY <1>2, RdeFields DEF RdeRight
  <1>4. TypeOK
    <2>1. \A i \in DOMAIN toSe : toSe[i].type \in {"RESTARTED", "UPDATE_ERR"}
      <3> DEFINE S == [type : {"RESTARTED", "UPDATE_ERR"}, sess : Nat, arg : {0}]
      <3>1. \A u \in S : u.type \in {"RESTARTED", "UPDATE_ERR"}
        OBVIOUS
      <3>2. toSe \in Seq(S)
        BY <1>1 DEF ToSeRight
      <3> HIDE DEF S
      <3>3. \A i \in DOMAIN toSe : toSe[i] \in S
        BY <3>2
      <3> QED BY <3>1, <3>3
    <2>2. \A i \in DOMAIN rde.ibufq : rde.ibufq[i].type \in PeerMsgs
      BY <1>3 DEF QueueRight
    <2>3. /\ rde.state \in {"none", "down", "up", "err"}
          /\ rde.sess \in 0 .. MaxSessions
          /\ {rde.staletime, rde.recv_eor, rde.refreshed} \subseteq BOOLEAN
          /\ rde.routes \in [Prefixes -> [sess : 0 .. MaxSessions, old : BOOLEAN]]
      BY <1>3, RdeFields DEF Routes
    <2>4. /\ se.phase \in {"down", "negotiated", "up"}
          /\ se.sess \in 0 .. MaxSessions /\ se.restart \in 0 .. 2
          /\ se.flag \in {"none", "RESTARTING", "FINISHED"} /\ se.flushes \in Nat
          /\ {se.present, se.timer, se.downtimer, se.rdesession} \subseteq BOOLEAN
      BY <1>1, SeFields
    <2> QED BY <2>1, <2>2, <2>3, <2>4 DEF TypeOK
  <1>5. QueueOfSession
    BY <1>3 DEF QueueRight, QueueOfSession
  <1>6. ASSUME toRde = <<>>, toSe = <<>>
        PROVE  /\ rde.state = "up" <=> se.phase = "up"
               /\ se.phase = "up" => rde.sess = se.sess
               /\ se.rdesession <=> rde.state # "none"
    <2>1. s = SeView
      BY <1>2, <1>6, LeadsNil
    <2>2. rde.state # "err"
      BY <1>1, <1>6 DEF ErrorTold
    <2>3. /\ s.state = IF ~se.rdesession THEN "none"
                       ELSE IF se.phase = "up" THEN "up" ELSE "down"
          /\ s.sess = se.sess
      BY <2>1, SeViewFields
    <2>4. s.state = rde.state /\ (rde.state = "up" => rde.sess = s.sess)
      BY <1>3, <2>2, RdeFields DEF StateRight, InSession
    <2>5. se.phase = "up" => se.rdesession
      BY <1>1 DEF SeRight
    <2> QED BY <2>3, <2>4, <2>5
  <1>7. Agreement
    BY <1>6 DEF Agreement
  <1> QED BY <1>4, <1>5, <1>7 DEF InAgreement

\* Whatever is on its way between the engine and the RDE, their records agree
\* when it has arrived, and nothing received in one session is applied in another.
THEOREM AgreementKept == Spec => []InAgreement
  BY PipeLeads, RightAgrees, PTL

LEMMA RightCleans ==
    ASSUME Inv
    PROVE  CleanedUpOnce
  <1>1. SeRight /\ toRde \in Seq(Msgs)
    BY DEF Inv, ToSeRight
  <1>2. PICK s \in Views : RdeRight(rde, s) /\ Leads(s, toRde, SeView)
    BY DEF Inv, PipeRight
  <1>3. OneFlush
    BY <1>1 DEF SeRight, OneFlush
  <1>4. ASSUME NEW x \in Prefixes, rde.routes[x] # None,
               ~(se.phase = "up" /\ rde.routes[x].sess = se.sess), ~Pending(Cleaners)
        PROVE  /\ rde.staletime /\ rde.routes[x].old
               /\ se.flag = "RESTARTING" /\ se.timer
    <2>1. \A i \in 1 .. Len(toRde) : toRde[i].type \notin Cleaners /\ toRde[i].type \notin Downs
      BY <1>1, <1>4 DEF Pending, Cleaners, Downs
    <2>2. ~(InSession(rde) /\ rde.routes[x].sess = rde.sess)
      <3> SUFFICES ASSUME InSession(rde), rde.routes[x].sess = rde.sess PROVE FALSE
        OBVIOUS
      <3>1. s.state = "up" /\ rde.sess = s.sess
        BY <1>2 DEF RdeRight, StateRight
      <3>2. SeView.state = "up" /\ SeView.sess = s.sess
        BY <1>1, <1>2, <2>1, <3>1, LeadsDown
      <3>3. se.phase = "up" /\ se.sess = s.sess
        BY Zenon, <3>2 DEF SeView
      <3> QED BY <1>4, <3>1, <3>3
    <2>3. s.kept /\ rde.staletime /\ rde.routes[x].old
      BY <1>2, <1>4, <2>2 DEF RdeRight, RoutesRight
    <2>4. SeView.kept
      BY <1>1, <1>2, <2>1, <2>3, LeadsKept
    <2>5. se.flag = "RESTARTING"
      BY Zenon, <2>4 DEF SeView
    <2> QED BY <1>1, <2>3, <2>5 DEF SeRight
  <1>5. OrphansCovered
    BY <1>4 DEF OrphansCovered, Cleaners
  <1> QED BY <1>3, <1>5 DEF CleanedUpOnce

\* A route that outlives its session is never forgotten, and no restart is
\* cleaned up twice.
THEOREM CleanedUp == Spec => []CleanedUpOnce
  BY PipeLeads, RightCleans, PTL

\* Only the RDE takes imsgs out of the pipe.
LEMMA EngineAppends ==
    ASSUME Inv, [Next]_vars, ~RdeSession
    PROVE  toRde' # Tail(toRde) \/ toRde = <<>>
  <1>1. toRde \in Seq(Msgs)
    BY DEF Inv, ToSeRight
  <1>2. ASSUME NEW m, toRde' = Append(toRde, m) PROVE Len(toRde') >= Len(toRde)
    BY <1>1, <1>2
  <1>3. Len(toRde') >= Len(toRde)
    <2>1. CASE session_up
      BY <1>1, <2>1 DEF session_up
    <2>2. CASE ~session_up /\ Next
      <3>1. UNCHANGED toRde \/ \E m : toRde' = Append(toRde, m)
        BY <2>2 DEF Next, Negotiate, OpenFails, SessionEnds, session_down,
           session_graceful_restart, RestartTimeout, session_graceful_stop, SessionDown,
           SeRestarted, SeUpdateErr, NeighborSends, RdePeer, imsg_rde
      <3> QED BY SMTT(30), <1>1, <1>2, <3>1
    <2>3. CASE UNCHANGED vars
      BY <1>1, <2>3 DEF vars
    <2> QED BY <2>1, <2>2, <2>3
  <1>4. toRde # <<>> => Len(Tail(toRde)) < Len(toRde)
    BY <1>1
  <1>5. Len(toRde) \in Nat /\ Len(Tail(toRde)) \in Nat
    BY <1>1
  <1> QED BY <1>3, <1>4, <1>5

LEMMA FlushSpares ==
    ASSUME Inv, [Next]_vars, RestartEnds, ~rde.refreshed,
           NEW x \in Prefixes, rde.routes[x].sess = rde.sess
    PROVE  rde'.routes[x] = rde.routes[x]
  <1>1. toRde \in Seq(Msgs) /\ toRde # <<>> /\ rde.state = "up"
    BY DEF Inv, ToSeRight, RestartEnds
  <1>2. RdeSession
    BY EngineAppends DEF RestartEnds
  <1> DEFINE m == Head(toRde)
  <1>3. rde' = rde_dispatch(rde, m) /\ m.type \in {"FLUSH", "RESTARTED"}
    BY <1>2 DEF RdeSession, RestartEnds
  <1>4. PICK s \in Views : RdeRight(rde, s) /\ Leads(s, toRde, SeView)
    BY DEF Inv, PipeRight
  <1>5. PICK u \in Views : Step(s, m, u)
    BY <1>1, <1>4, LeadsTail
  <1> HIDE DEF m
  <1>6. s.kept
    BY SMTT(30), <1>3, <1>5 DEF Step, PeerMsgs, Downs
  <1>7. rde \in RdeType /\ rde.staletime
    BY <1>4, <1>6 DEF RdeRight, StateRight
  <1>8. rde' = peer_flush(rde)
    BY Zenon, <1>1, <1>3, <1>7 DEF rde_dispatch, PeerMsgs
  <1>9. rde'.routes[x] = IF rde.staletime /\ ~rde.routes[x].old
                         THEN rde.routes[x] ELSE None
    BY Zenon, <1>7, <1>8, FlushRoutes
  <1>10. rde.routes[x] # None => ~rde.routes[x].old
    BY <1>1, <1>4 DEF RdeRight, RoutesRight, InSession
  <1> QED BY <1>7, <1>9, <1>10, NoneType

\* The end of a graceful restart never costs a session that is up a route it
\* has received, as long as the neighbor has not asked for a refresh of its own.
THEOREM SessionSpared == Spec => FlushSparesSession
  <1>1. ASSUME Inv, [Next]_vars
        PROVE  [ RestartEnds /\ ~rde.refreshed =>
                    \A x \in Prefixes :
                        rde.routes[x].sess = rde.sess =>
                            rde'.routes[x] = rde.routes[x] ]_vars
    BY <1>1, FlushSpares
  <1> QED BY <1>1, PipeLeads, PTL DEF Spec, FlushSparesSession
=============================================================================
