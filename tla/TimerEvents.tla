---------------------------- MODULE TimerEvents ----------------------------
(***************************************************************************)
(* One timer of neutrino's timer daemon: the record timerd keeps for it    *)
(* (class CTimerEvent), the calendar step of a repeating timer, what a     *)
(* pass of the timer thread does to it, and what saving it to and loading  *)
(* it from timerd.conf make of it.  No state: module Timerd composes these *)
(* operators into the daemon.                                              *)
(*                                                                         *)
(* A time is an integer; 0 means "none", as in the code.  Payloads (channel*)
(* EPG data, directories, messages) are left out: no branch of the code    *)
(* modelled here reads them.                                               *)
(***************************************************************************)
EXTENDS Integers

CONSTANTS
    Types,      \* the event types in use; RECORD is the one with a stop handler
    Periodic,   \* the repeat kinds whose calendar step moves the alarm
    Period,     \* the length of that step
    NoTimer     \* marks an identifier with no timer

ASSUME TypesAssumption == "RECORD" \in Types
ASSUME PeriodAssumption == Period \in [Periodic -> Nat \ {0}]

States == {"SCHEDULED", "PREANNOUNCE", "ISRUNNING", "HASFINISHED", "TERMINATED"}

\* TIMERREPEAT_WEEKDAYS stands here for the bare value, with no day bit set;
\* with a day bit it is one of the Periodic kinds.
\* UNKNOWN is BYEVENTDESCRIPTION and every other number, which nothing keeps
\* a client from sending, that no case of Reschedule knows.
Repeats == Periodic \cup {"ONCE", "WEEKDAYS", "UNKNOWN"}

ASSUME PeriodicAssumption ==
    Periodic \cap {"ONCE", "WEEKDAYS", "UNKNOWN"} = {}

\* uid, fired, budget and ends are history: the identity of the timer across
\* restarts (the daemon renumbers timers whenever it loads them), how often
\* it has been fired since its times were last set, how often it may be
\* (0: without limit), and whether those times had an end.
Event == [type: Types, state: States, repeat: Repeats, count: Int,
          announce: Int, alarm: Int, stop: Int,
          uid: Nat, fired: Nat, budget: Int, ends: BOOLEAN]

ASSUME NoTimerAssumption == NoTimer \notin Event

Budget(repeat, count) == IF repeat = "ONCE" THEN 1 ELSE count

---------------------------------------------------------------------------
\* Mutant: "weekdays, none selected" is kept.
NormalisedNot(repeat) == repeat

\* addEvent and modifyEvent turn "weekdays, none selected" into "once".
Normalised(repeat) == IF repeat = "WEEKDAYS" THEN "ONCE" ELSE repeat

\* The loop of Reschedule ends only if the alarm moves.
CanReschedule(e, t) == e.repeat = "ONCE" \/ e.alarm > t \/ e.repeat \in Periodic

\* Mutant: one calendar step, however late.
ShiftOnce(e, t) == IF e.alarm > t THEN 0 ELSE Period[e.repeat]

\* The sum of the calendar steps that carry the alarm beyond t.
Shift(e, t) ==
    IF e.alarm > t THEN 0
    ELSE Period[e.repeat] * (((t - e.alarm) \div Period[e.repeat]) + 1)

Moved(time, d) == IF time > 0 THEN time + d ELSE time

Reschedule(e, t) ==
    IF e.repeat = "ONCE" THEN [e EXCEPT !.state = "TERMINATED"]
    ELSE LET d == Shift(e, t) IN
         [e EXCEPT !.alarm = e.alarm + d,
                   !.announce = Moved(e.announce, d),
                   !.stop = Moved(e.stop, d),
                   !.state = "SCHEDULED",
                   !.count = IF e.count > 0 THEN e.count - 1 ELSE e.count]

---------------------------------------------------------------------------
\* What one pass of the timer thread, begun at time n, does to a timer; the
\* stages follow each other within one visit.
AnnounceDue(e, n) == e.announce > 0 /\ e.state = "SCHEDULED" /\ e.announce <= n

Announced(e, n) == IF AnnounceDue(e, n) THEN [e EXCEPT !.state = "PREANNOUNCE"] ELSE e

\* Mutant: a timer that is running already is fired again.
AlarmDueInAnyState(e, n) == e.alarm > 0 /\ e.alarm <= n

AlarmDue(e, n) == /\ e.alarm > 0
                  /\ e.state \in {"SCHEDULED", "PREANNOUNCE"}
                  /\ e.alarm <= n

Fired(e, n) ==
    IF AlarmDue(e, n)
    THEN [e EXCEPT !.state = IF e.stop = 0 THEN "HASFINISHED" ELSE "ISRUNNING",
                   !.fired = e.fired + 1]
    ELSE e

StopDue(e, n) == e.stop > 0 /\ e.state = "ISRUNNING" /\ e.stop <= n

Stopped(e, n) == IF StopDue(e, n) THEN [e EXCEPT !.state = "HASFINISHED"] ELSE e

\* The fourth stage reads the clock again (t), inside Reschedule.
Finished(e, t) ==
    IF e.state # "HASFINISHED" THEN e
    ELSE IF e.repeat # "ONCE" /\ e.count # 1 THEN Reschedule(e, t)
    ELSE [e EXCEPT !.state = "TERMINATED"]

BeforeFinish(e, n) == Stopped(Fired(Announced(e, n), n), n)

Passed(e, n, t) == Finished(BeforeFinish(e, n), t)

Fires(e, n) == AlarmDue(Announced(e, n), n)

Stops(e, n) == StopDue(Fired(Announced(e, n), n), n)

\* Every stage that acts asks for a save, and so does the deletion.
TouchedBefore(e, n) == AnnounceDue(e, n) \/ Fires(e, n) \/ Stops(e, n)
Touched(e, n) == \/ TouchedBefore(e, n)
                 \/ BeforeFinish(e, n).state \in {"HASFINISHED", "TERMINATED"}

\* The fourth stage never comes back from Reschedule.
Caught(e, n, t) == LET b == BeforeFinish(e, n) IN
                   b.state = "HASFINISHED" /\ b.count # 1 /\ ~CanReschedule(b, t)

---------------------------------------------------------------------------
\* Loading, at time t: a timer with a future alarm or stop keeps its saved
\* state, an old repeating one becomes HASFINISHED, an old one is dropped.
TooOld(e, t) == ~(e.alarm >= t \/ e.stop > t) /\ e.repeat = "ONCE"

Loaded(e, t) ==
    [e EXCEPT !.state = IF e.alarm >= t \/ e.stop > t THEN e.state ELSE "HASFINISHED",
              !.repeat = Normalised(e.repeat)]

\* The keys of timerd.conf are written in alphabetical order: a file cut
\* after IDS and before REPEAT_COUNT_n and STOP_TIME_n gives both as 0.
Cut(e) == IF e = NoTimer THEN e ELSE [e EXCEPT !.count = 0, !.stop = 0]
=============================================================================
