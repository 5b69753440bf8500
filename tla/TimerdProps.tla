---------------------------- MODULE TimerdProps ----------------------------
(***************************************************************************)
(* What timerd is to guarantee: properties of module Timerd.               *)
(***************************************************************************)
EXTENDS Timerd

\* Every variable keeps to its type: identifiers are in range, every stored
\* timer is a well-formed event, each thread is at a step of its code.
TypeOK ==
    /\ events \in Events /\ source \in Events
    /\ lastId \in 0 .. MaxTimers /\ lastUid \in 0 .. MaxTimers
    /\ cursor \in 0 .. MaxTimers
    /\ saveFlag \in BOOLEAN /\ locked \in BOOLEAN /\ loaded \in BOOLEAN
    /\ timeset \in BOOLEAN /\ clean \in BOOLEAN
    /\ safety \in [pre: Nat, post: Nat] /\ request \in [pre: Nat, post: Nat]
    /\ pc \in {"wait", "load", "idle", "pass", "loop", "check", "save", "dead"}
    /\ srv \in {"run", "modify", "safety", "safetyFlag", "join", "save", "stopped"}
    /\ phase \in {"none", "open", "head", "tail", "clear"}
    /\ snap \in Config /\ disk \in Config
    /\ passNow \in Nat /\ now \in Nat
    /\ recording \in SUBSET Ids
    /\ durable \in SUBSET Nat /\ removed \in SUBSET Nat

\* Reschedule loops for ever (timermanager.cpp:831), with the mutex held and
\* cancellation disabled, only for a timer whose client asked for a repeat
\* value that it does not know; never for "weekdays, none chosen", which
\* addEvent and modifyEvent both turn into "once", on load too.
OnlyUnknownIsEndless == pc = "loop" => events[cursor].repeat = "UNKNOWN"

\* A recording neutrino was told to start for a timer with an end always has
\* a timer that will tell it to stop: still in the map, running, and with a
\* stop time.  Passes, saving and loading, removal, stopping and modification
\* all have to keep it so.  (One whose client gave it no end is started too,
\* and finished at once; nothing stops it: timermanager.cpp:150.)
RecordingHasStopper ==
    \A i \in recording :
        /\ events[i] # NoTimer
        /\ events[i].type = "RECORD"
        /\ events[i].state = "ISRUNNING"
        /\ events[i].stop > 0

\* A timer is fired no more often than its repeat settings say since they
\* were last set: once for ONCE, repeatCount times for a counted repetition
\* (timermanager.cpp:166, 901).
FiredWithinCount ==
    \A i \in Live(events) :
        events[i].budget > 0 => events[i].fired <= events[i].budget

\* Nothing a client asked for is lost while no save is pending: the file
\* holds every timer as it is in memory, except for the mark of a removal or
\* a stop, which the next pass of the timer thread acts on.
Matches(m, d) ==
    \/ m = d
    \/ /\ m # NoTimer /\ d # NoTimer
       /\ m.state \in {"HASFINISHED", "TERMINATED"}
       /\ m = [d EXCEPT !.state = m.state]

DiskCurrent ==
    (loaded /\ ~saveFlag /\ phase = "none") =>
        \A i \in Ids : Matches(events[i], disk.events[i])

\* As far as a pass has got without deleting a timer, none it has visited is
\* left with its alarm or its stop due, however many repetitions of it the
\* box has slept through.
PassComplete ==
    (pc = "pass" /\ clean) =>
        \A i \in Live(events) :
            (cursor = 0 \/ i < cursor) =>
                /\ ~AlarmDue(events[i], passNow)
                /\ ~StopDue(events[i], passNow)

\* No timer is in the map twice: not after a load that met timers clients had
\* added before it, nor after any number of restarts.
NoDuplicates ==
    \A i, j \in Live(events) : events[i].uid = events[j].uid => i = j

\* A timer once written to the file is in the file whenever the daemon starts
\* again, unless it ran to its end, was removed, or was too old when loaded
\* (doku.html:12-13).
TimersSurvive == pc = "wait" => durable \subseteq Uids(disk.events)

---------------------------------------------------------------------------
(* The strengthening that makes the invariants above inductive. *)

\* The timer a thread is about to visit or load exists.
CursorOK ==
    /\ (pc = "load" /\ cursor # 0) => source[cursor] # NoTimer
    /\ (pc = "pass" /\ cursor # 0) => events[cursor] # NoTimer
    /\ pc = "loop" => cursor # 0 /\ events[cursor] # NoTimer

ClockOK == passNow <= now

\* Who holds the mutex, and what the threads know of each other.
LockOK ==
    /\ phase # "none" => locked
    /\ phase # "none" <=> Writing
    /\ pc \in {"pass", "loop"} => locked
    /\ pc \in {"wait", "load"} => ~loaded
    /\ srv = "save" => pc = "dead"

\* What is being written is what the map holds.
SnapCurrent ==
    /\ phase # "none" => snap.events = events
    /\ phase = "clear" => disk.events = snap.events

\* No bare "weekdays" in any place timers are kept in.
Reduced(E) == \A i \in Live(E) : E[i].repeat \in Periodic \cup {"ONCE", "UNKNOWN"}

AllReduced == /\ Reduced(events) /\ Reduced(source)
              /\ Reduced(snap.events) /\ Reduced(disk.events)

\* What the thread is caught by cannot be rescheduled.
CaughtOK == pc = "loop" => events[cursor].repeat \notin Periodic \cup {"ONCE"}

\* Identifiers not yet given out are free.
FreshOK == Live(events) \subseteq 1 .. lastId

\* With shutdowns and power cuts where they do no harm, no timer is damaged on
\* its way through the file: one that has an end keeps it, and the firings
\* of a timer, with those its repeat count still allows, stay within what was
\* asked for.
Armed(e) == e.state \in {"SCHEDULED", "PREANNOUNCE"}

Sound(e) ==
    /\ e.ends => e.stop > 0
    /\ (e.budget > 0 /\ e.repeat = "ONCE") =>
          e.budget = 1 /\ e.fired <= IF Armed(e) THEN 0 ELSE 1
    /\ (e.budget > 0 /\ e.repeat # "ONCE") =>
          e.count >= 1 /\ e.fired + e.count <= e.budget + IF Armed(e) THEN 0 ELSE 1

AllOf(E) == \A i \in Live(E) : Sound(E[i])

AllSound == /\ AllOf(events) /\ AllOf(source) /\ AllOf(snap.events)
            /\ phase # "tail" => AllOf(disk.events)

\* Where the timers owed to the user are: in the file, except while it is being
\* rewritten; in the map, once they are loaded.
ToLoad == {source[j].uid : j \in {i \in Live(source) : cursor # 0 /\ i >= cursor}}

DurableKept ==
    /\ phase \notin {"head", "tail"} => durable \subseteq Uids(disk.events)
    /\ pc \notin {"wait", "load"} => durable \subseteq Uids(events)
    /\ pc = "load" => durable \subseteq Uids(events) \cup ToLoad

\* NoDuplicates, for every place timers are kept in; a timer is not in the map
\* while it is still to be loaded.
Distinct(E) == \A i, j \in Live(E) : E[i].uid = E[j].uid => i = j

OneOfEach ==
    /\ Distinct(events) /\ Distinct(source) /\ Distinct(snap.events) /\ Distinct(disk.events)
    /\ Uids(events) \subseteq 1 .. lastUid /\ Uids(source) \subseteq 1 .. lastUid
    /\ Uids(snap.events) \subseteq 1 .. lastUid /\ Uids(disk.events) \subseteq 1 .. lastUid
    /\ pc = "wait" => Uids(events) \cap Uids(disk.events) = {}
    /\ pc = "load" => Uids(events) \cap ToLoad = {}

\* A shutdown began after the load and ended after the thread.
ShutOK == (srv = "join" => loaded) /\ (srv = "stopped" => pc = "dead")

---------------------------------------------------------------------------
\* The timer thread makes its rounds.
Running == pc \notin {"wait", "load", "dead", "loop"}

\* An alarm that is due is acted on, or the timer goes, while the box runs.
AlarmsAreHandled ==
    \A i \in Ids :
        (Running /\ events[i] # NoTimer /\ AlarmDue(events[i], now))
            ~> (~Running \/ events[i] = NoTimer \/ ~AlarmDue(events[i], now))

\* A recording whose stop time has come is stopped, while the box runs.
RecordingsEnd ==
    \A i \in Ids :
        (Running /\ i \in recording /\ events[i].stop <= now)
            ~> (~Running \/ i \notin recording \/ events[i].stop > now)

\* Whatever clients, alarms and deletions changed, the file holds the timers
\* as they are in memory again and again; and so the margins, if they were
\* stored before the save was begun: those stored during one wait for another
\* (timermanager.cpp:754, "also saves extra times").
ChangesAreSaved ==
    /\ (Running /\ events # disk.events) ~> (~Running \/ events = disk.events)
    /\ \A s \in Safeties :
        (Running /\ saveFlag /\ phase = "none" /\ safety = s)
            ~> (~Running \/ safety # s \/ disk.safety = s)

\* A shutdown, once the timers are loaded, ends, unless the thread is caught
\* in Reschedule: the thread that is joined never dies with the mutex held, so
\* that the last save gets it.
ShutdownEnds ==
    (srv = "join" /\ loaded) ~> (srv \in {"stopped", "run"} \/ pc = "loop")

\* Every shutdown ends: should the thread have died with the mutex held,
\* shutdown says so and returns (timermanager.cpp:679-683).
EveryShutdownEnds == (srv = "join") ~> (srv \in {"stopped", "run"})
=============================================================================
