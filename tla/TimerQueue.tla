----------------------------- MODULE TimerQueue -----------------------------
(***************************************************************************)
(* timer.c: the timers of one peer (or RTR session, or MRT dump) are kept  *)
(* in one list.  Running timers come first, in the order they are due; a   *)
(* stopped timer stays in the list, at its tail, with a cleared value.     *)
(* The main loop looks at the first element only.                          *)
(***************************************************************************)
EXTENDS Integers, Sequences, SequencesExt

CONSTANTS Timers,    \* enum Timer
          Offsets,   \* the offsets, in seconds, timers are set with
          MaxTime    \* bound on the clock

ASSUME TimerQueueAssumption ==
    /\ Offsets \subseteq Nat
    /\ MaxTime \in Nat \ {0}

VARIABLES now,       \* getmonotime(); a valid time is positive
          th,        \* struct timer_head: sequence of [type, val]
          pt         \* the timer whose handler runs, in a set of at most one

vars == <<now, th, pt>>

\* What a timer is set to, or cleared to.
Times == {0} \cup {t + offset : t \in 1 .. MaxTime, offset \in Offsets}

monotime_valid(t) == t > 0

\* The place of a timer in the list, 0 when it is not there.
timer_get(q, timer) == SelectInSeq(q, LAMBDA t : t.type = timer)

timer_nextisdue(q, time) ==
    IF q # <<>> /\ monotime_valid(Head(q).val) /\ Head(q).val <= time
    THEN {Head(q).type}
    ELSE {}

timer_nextduein(q) == IF q = <<>> THEN 0 ELSE Head(q).val

timer_running(q, timer) ==
    timer_get(q, timer) # 0 /\ monotime_valid(q[timer_get(q, timer)].val)

timer_remove_from(q, timer) ==
    IF timer_get(q, timer) = 0 THEN q ELSE RemoveAt(q, timer_get(q, timer))

\* Bug: the comparison is turned round.
InsertPlaceReversed(q, ms) ==
    LET next == SelectInSeq(q, LAMBDA t : ~monotime_valid(t.val) \/ t.val < ms)
    IN  IF next = 0 THEN Len(q) + 1 ELSE next

\* Bug: stopped timers are compared like the others.
InsertPlaceNoStopCheck(q, ms) ==
    LET next == SelectInSeq(q, LAMBDA t : t.val > ms)
    IN  IF next = 0 THEN Len(q) + 1 ELSE next

\* Bug: a timer goes in front of those due at the same moment.
InsertPlaceBeforeEqual(q, ms) ==
    LET next == SelectInSeq(q, LAMBDA t : ~monotime_valid(t.val) \/ t.val >= ms)
    IN  IF next = 0 THEN Len(q) + 1 ELSE next

\* The first element a timer due at ms is put in front of; one past the end
\* when there is none.
InsertPlace(q, ms) ==
    LET next == SelectInSeq(q, LAMBDA t : ~monotime_valid(t.val) \/ t.val > ms)
    IN  IF next = 0 THEN Len(q) + 1 ELSE next

\* timer_set(), ms being the current time plus the offset.
timer_set(q, timer, ms) ==
    LET pos  == timer_get(q, timer)
        rest == timer_remove_from(q, timer)
    IN  IF pos # 0 /\ q[pos].val = ms
        THEN q
        ELSE InsertAt(rest, InsertPlace(rest, ms), [type |-> timer, val |-> ms])

\* Bug: a stopped timer keeps its place.
timer_stop_in_place(q, timer) ==
    LET pos == timer_get(q, timer)
    IN  IF pos = 0 THEN q ELSE [q EXCEPT ![pos].val = 0]

\* Bug: the time left is kept instead of cleared.
timer_stop_decrement(q, timer) ==
    LET pos == timer_get(q, timer)
    IN  IF pos = 0 THEN q
        ELSE Append(timer_remove_from(q, timer),
                    [type |-> timer, val |-> q[pos].val - now])

timer_stop(q, timer) ==
    IF timer_get(q, timer) = 0
    THEN q
    ELSE Append(timer_remove_from(q, timer), [type |-> timer, val |-> 0])

-----------------------------------------------------------------------------

Init ==
    /\ now = 1
    /\ th = <<>>
    /\ pt = {}

TimerSet(timer, offset) ==
    /\ th' = timer_set(th, timer, now + offset)
    /\ UNCHANGED now

TimerStop(timer) ==
    /\ th' = timer_stop(th, timer)
    /\ UNCHANGED now

TimerRemove(timer) ==
    /\ th' = timer_remove_from(th, timer)
    /\ UNCHANGED now

timer_remove_all ==
    /\ th' = <<>>
    /\ UNCHANGED now

Tick ==
    /\ now < MaxTime
    /\ now' = now + 1
    /\ UNCHANGED th

\* The main loop takes the timer timer_nextisdue() returns, if there is one,
Dispatch ==
    /\ pt = {}
    /\ timer_nextisdue(th, now) # {}
    /\ pt' = timer_nextisdue(th, now)
    /\ UNCHANGED <<now, th>>

\* and runs its handler, which stops the timer or sets it again, with an
\* offset that is never zero.
Handle ==
    \E timer \in pt :
        /\ \/ TimerStop(timer)
           \/ \E offset \in Offsets \ {0} : TimerSet(timer, offset)
        /\ pt' = {}

\* Timers set, stopped and removed by other code, and the passing of time.
Other ==
    /\ pt = {}
    /\ \/ \E timer \in Timers :
           \/ \E offset \in Offsets : TimerSet(timer, offset)
           \/ TimerStop(timer)
           \/ TimerRemove(timer)
       \/ timer_remove_all
       \/ Tick
    /\ UNCHANGED pt

Next == Dispatch \/ Handle \/ Other

Spec == Init /\ [][Next]_vars

\* poll() wakes up no later than timer_nextduein(), so the loop never
\* ignores a due timer for ever.
FairSpec == Spec /\ WF_vars(Dispatch \/ Handle)

-----------------------------------------------------------------------------

\* Every value in the list is a time, and only known timers are in it.
TypeOK ==
    /\ now \in 1 .. MaxTime
    /\ th \in Seq([type : Timers, val : Times])
    /\ pt \in SUBSET Timers

\* No timer is in the list twice, running timers are in the order they are
\* due, and no stopped timer precedes a running one: what makes it right to
\* look at the first element only.
ListOrder ==
    \A i, j \in 1 .. Len(th) : i < j =>
        /\ th[i].type # th[j].type
        /\ monotime_valid(th[j].val) =>
               monotime_valid(th[i].val) /\ th[i].val <= th[j].val

due == [t \in Timers |-> IF timer_running(th, t)
                         THEN th[timer_get(th, t)].val ELSE 0]

\* The sorted list behaves like a map from timers to due times whose
\* dispatcher always serves a timer that is due first.
Abstract == INSTANCE TimerMap
ImplementsTimerMap == Abstract!Spec

\* poll() is told to wake up for the earliest timer of all.
NextDueIsEarliest ==
    timer_nextduein(th) = LET running == {due[t] : t \in {u \in Timers : due[u] > 0}}
                          IN  IF running = {} THEN 0 ELSE Min(running)

\* The list is well formed and its first element decides when to wake up.
ListRight == TypeOK /\ ListOrder /\ NextDueIsEarliest

\* The loop serves one timer of a peer per round.  A due timer is
\* nevertheless never starved by the others, however they are set: timers
\* due at the same moment are served in the order they were set.
DueIsServed ==
    \A t \in Timers : (due[t] > 0 /\ due[t] <= now) ~> ~(due[t] > 0 /\ due[t] <= now)
=============================================================================
