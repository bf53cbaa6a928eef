------------------------------ MODULE TimerMap ------------------------------
(***************************************************************************)
(* What timer.c promises to its users: a set of named one-shot timers,     *)
(* each stopped or due at one moment, and a dispatcher that is handed a    *)
(* due timer no other running timer precedes.  TimerQueue, the sorted list *)
(* of timer.c, is shown to implement this module.                          *)
(***************************************************************************)
EXTENDS Integers

CONSTANTS Timers,    \* the timer types of one peer (enum Timer)
          Offsets,   \* the offsets timers are set with
          MaxTime    \* bound on the clock

VARIABLES now,       \* getmonotime()
          due,       \* due[t] = 0 when t is stopped (monotime_clear)
          pt         \* the timer whose handler runs, in a set of at most one

vars == <<now, due, pt>>

Running(t) == due[t] > 0

IsDue(t) == Running(t) /\ due[t] <= now

\* No running timer is due earlier than t.
IsNext(t) == \A u \in Timers : Running(u) => due[t] <= due[u]

Init ==
    /\ now = 1
    /\ due = [t \in Timers |-> 0]
    /\ pt = {}

Set(t, offset) ==
    /\ due' = [due EXCEPT ![t] = now + offset]
    /\ UNCHANGED now

Stop(t) ==
    /\ due' = [due EXCEPT ![t] = 0]
    /\ UNCHANGED now

StopAll ==
    /\ due' = [t \in Timers |-> 0]
    /\ UNCHANGED now

\* The dispatcher is handed a due timer that no other timer precedes.
Fire(t) ==
    /\ IsDue(t)
    /\ IsNext(t)
    /\ pt' = {t}
    /\ UNCHANGED <<now, due>>

\* Its handler stops it, or sets it again to a later moment.
Handler(t) ==
    /\ \/ Stop(t)
       \/ \E offset \in Offsets \ {0} : Set(t, offset)
    /\ pt' = {}

Tick ==
    /\ now < MaxTime
    /\ now' = now + 1
    /\ UNCHANGED due

Idle ==
    /\ \/ \E t \in Timers :
           \/ \E offset \in Offsets : Set(t, offset)
           \/ Stop(t)
       \/ StopAll
       \/ Tick
    /\ UNCHANGED pt

Next ==
    \/ pt = {} /\ Idle
    \/ pt = {} /\ \E t \in Timers : Fire(t)
    \/ \E t \in pt : Handler(t)

Spec == Init /\ [][Next]_vars
=============================================================================
