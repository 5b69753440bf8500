------------------------------- MODULE Timerd -------------------------------
(***************************************************************************)
(* The timer daemon of neutrino: the command server thread                 *)
(* (timerd_main_thread, timerd_parse_command), the timer thread            *)
(* (CTimerManager::timerThread), the map of timers both work on under      *)
(* tm_eventsMutex, the file timerd.conf, and the box around them, which is *)
(* shut down, loses power and is started again.                            *)
(*                                                                         *)
(* A handler that runs under the mutex from its first to its last access   *)
(* is one action.  The timer thread holds the mutex over many steps: one   *)
(* per timer in a pass, one per stage of writing the file.                 *)
(***************************************************************************)
EXTENDS TimerEvents, FiniteSets

CONSTANTS
    MaxTimers,        \* bound: timers created in one behaviour
    MaxTime,          \* bound: the last instant of the clock
    MaxCommands,      \* bound: the commands clients send
    MaxRestarts,      \* bound: how often the box is started again
    NewTimers,        \* the times and repeat settings clients ask for
    Safeties,         \* the recording safety margins clients ask for
    NoSafety,         \* the margins of a file without EXTRA_TIME entries
    ImmediateLength,  \* the length of a recording started by hand
    Diffs,            \* the shifts clients ask of rescheduleEvent
    EarlyShutdown,    \* may CMD_SHUTDOWN arrive before the timers are loaded?
    CutWrites         \* may the power fail while timerd.conf is being written?

Ids == 1 .. MaxTimers

TimerSpec == [type: Types, repeat: Repeats, count: Int,
              announce: Int, alarm: Int, stop: Int]

ASSUME BoundsAssumption ==
    MaxTimers \in Nat /\ MaxTime \in Nat /\ MaxCommands \in Nat /\ MaxRestarts \in Nat

\* Any times and any repeat value: the daemon checks neither.
ASSUME InputAssumption ==
    /\ NewTimers \subseteq TimerSpec
    /\ ImmediateLength \in Nat \ {0}
    /\ Diffs \subseteq Int

ASSUME SafetyAssumption ==
    /\ Safeties \subseteq [pre: Nat, post: Nat]
    /\ NoSafety \in Safeties

ASSUME SwitchAssumption == EarlyShutdown \in BOOLEAN /\ CutWrites \in BOOLEAN

Events == [Ids -> Event \cup {NoTimer}]
Config == [present: BOOLEAN, events: Events, safety: [pre: Nat, post: Nat]]

VARIABLES
    events,     \* CTimerManager::events
    lastId,     \* CTimerManager::eventID
    saveFlag,   \* CTimerManager::m_saveEvents
    safety,     \* m_extraTimeStart, m_extraTimeEnd
    locked,     \* tm_eventsMutex is held across steps
    pc,         \* the timer thread; m_isTimeSet is pc # "wait"
    cursor,     \* the timer it visits next (0: none left)
    passNow,    \* the clock as read at the start of the pass
    source,     \* the configuration it is loading timers from
    loaded,     \* loadEventsFromConfig has returned
    srv,        \* the command server thread
    request,    \* the margins setRecordingSafety is storing
    phase,      \* the stage saveEventsToConfig has reached
    snap,       \* the configuration it is writing
    disk,       \* timerd.conf
    timeset,    \* sectionsd knows the time
    now         \* the clock

\* History, read by no action: the recordings neutrino is making for timers
\* that have an end (none that was started without one, or lost it to a client
\* since), the timers whose presence in the file is owed to the user, those
\* the user removed, the number of timers created, and whether the pass has
\* deleted none.
VARIABLES recording, durable, removed, lastUid, clean

\* Counted only to bound the model.
VARIABLES commands, restarts

threadVars == <<pc, cursor, passNow, source, loaded>>
writeVars  == <<phase, snap, disk>>
boxVars    == <<timeset, now>>
history    == <<recording, durable, removed, lastUid, clean>>
bounds     == <<commands, restarts>>
vars == <<events, lastId, saveFlag, safety, locked, threadVars, srv, request,
          writeVars, boxVars, history, bounds>>

---------------------------------------------------------------------------
Live(E) == {i \in Ids : E[i] # NoTimer}
Uids(E) == {E[i].uid : i \in Live(E)}
Empty   == [i \in Ids |-> NoTimer]

NoConfig == [present |-> FALSE, events |-> Empty, safety |-> NoSafety]
\* What reading a file that was truncated and not yet written gives.
Truncated == [present |-> TRUE, events |-> Empty, safety |-> NoSafety]

\* The first timer of S, 0 if there is none: an iterator over the map.
IsFirst(i, S) == \/ i \in S /\ \A j \in S : i <= j
                 \/ i = 0 /\ S = {}

\* Mutants: the loop runs past the end; it stops after the first timer.
AfterPastEnd(E, i) == {j \in Live(E) : j > i} \cup {MaxTimers + 1}
AfterNone(E, i) == {}

After(E, i) == {j \in Live(E) : j > i}

\* Init (a box with or without a file), loadRecordingSafety: without a file
\* the margins keep what the memory held.
Init ==
    /\ events = Empty /\ lastId = 0 /\ saveFlag = FALSE
    /\ safety \in Safeties
    /\ locked = FALSE
    /\ pc = "wait" /\ cursor = 0 /\ passNow = 0 /\ source = Empty /\ loaded = FALSE
    /\ srv = "run" /\ request = NoSafety
    /\ phase = "none" /\ snap = NoConfig
    /\ disk \in {NoConfig, Truncated}
    /\ disk.present => safety = disk.safety
    /\ timeset = FALSE /\ now = 0
    /\ recording = {} /\ durable = {} /\ removed = {} /\ lastUid = 0 /\ clean = TRUE
    /\ commands = 0 /\ restarts = 0

---------------------------------------------------------------------------
(* The timer thread. *)

\* sectionsd has set the time: loadEventsFromConfig opens the file.
BeginLoad ==
    /\ pc = "wait" /\ timeset
    /\ pc' = "load"
    /\ source' = disk.events
    /\ IsFirst(cursor', Live(disk.events))
    /\ UNCHANGED <<events, lastId, saveFlag, safety, locked, passNow, loaded, srv,
                   request, writeVars, boxVars, history>>

\* One round of the load loop: the timer is added under a fresh identifier,
\* without asking for a save, or dropped.
LoadTimer ==
    /\ pc = "load" /\ cursor # 0
    /\ LET e == source[cursor] IN
       IF TooOld(e, now)
       THEN /\ durable' = durable \ {e.uid}
            /\ UNCHANGED <<events, lastId>>
       ELSE /\ lastId < MaxTimers
            /\ lastId' = lastId + 1
            /\ events' = [events EXCEPT ![lastId + 1] = Loaded(e, now)]
            /\ UNCHANGED durable
    /\ IsFirst(cursor', After(source, cursor))
    /\ UNCHANGED <<saveFlag, safety, locked, pc, passNow, source, loaded, srv, request,
                   writeVars, boxVars, recording, removed, lastUid, clean>>

\* Mutant: the clock is not read again for each pass.
BeginPassStaleClock ==
    /\ pc = "idle" /\ ~locked
    /\ pc' = "pass" /\ locked' = TRUE /\ passNow' = 0
    /\ IsFirst(cursor', Live(events))
    /\ clean' = TRUE
    /\ UNCHANGED <<events, lastId, saveFlag, safety, source, loaded, srv, request,
                   writeVars, boxVars, recording, durable, removed, lastUid>>

\* A pass starts: cancellation is disabled, the mutex taken.
BeginPass ==
    /\ pc = "idle" /\ ~locked
    /\ pc' = "pass" /\ locked' = TRUE /\ passNow' = now
    /\ IsFirst(cursor', Live(events))
    /\ clean' = TRUE
    /\ UNCHANGED <<events, lastId, saveFlag, safety, source, loaded, srv, request,
                   writeVars, boxVars, recording, durable, removed, lastUid>>

\* What neutrino records after the announce, fire and stop stages of a visit.
Recorded(e) == IF e.type # "RECORD" THEN recording
               ELSE IF Stops(e, passNow) THEN recording \ {cursor}
               ELSE IF Fires(e, passNow) /\ e.ends THEN recording \cup {cursor}
               ELSE recording

\* The body of the loop.  A terminated timer is erased and the iterator that
\* pointed at it advanced afterwards: it may reach any timer left, or none.
Visit ==
    /\ pc = "pass" /\ cursor # 0
    /\ LET e == events[cursor]
           p == Passed(e, passNow, now)
       IN
       /\ ~Caught(e, passNow, now)
       /\ saveFlag' = (saveFlag \/ Touched(e, passNow))
       /\ recording' = Recorded(e)
       /\ IF p.state = "TERMINATED"
          THEN /\ events' = [events EXCEPT ![cursor] = NoTimer]
               /\ durable' = durable \ {e.uid}
               /\ clean' = FALSE
               /\ cursor' \in (Live(events) \ {cursor}) \cup {0}
          ELSE /\ events' = [events EXCEPT ![cursor] = p]
               /\ IsFirst(cursor', After(events, cursor))
               /\ UNCHANGED <<durable, clean>>
    /\ UNCHANGED <<lastId, safety, locked, pc, passNow, source, loaded, srv, request,
                   writeVars, boxVars, removed, lastUid>>

\* The loop of Reschedule does not move the alarm and never ends, with the
\* mutex held and cancellation disabled.
VisitEndless ==
    /\ pc = "pass" /\ cursor # 0
    /\ LET e == events[cursor] IN
       /\ Caught(e, passNow, now)
       /\ saveFlag' = (saveFlag \/ TouchedBefore(e, passNow))
       /\ recording' = Recorded(e)
       /\ events' = [events EXCEPT ![cursor] = BeforeFinish(e, passNow)]
    /\ pc' = "loop"
    /\ UNCHANGED <<lastId, safety, locked, cursor, passNow, source, loaded, srv, request,
                   writeVars, boxVars, durable, removed, lastUid, clean>>

Endless == pc = "loop" /\ UNCHANGED vars

EndPass ==
    /\ pc = "pass" /\ cursor = 0
    /\ pc' = "check" /\ locked' = FALSE /\ passNow' = 0
    /\ UNCHANGED <<events, lastId, saveFlag, safety, cursor, source, loaded, srv, request,
                   writeVars, boxVars, history>>

\* Mutant: the timers are collected without the mutex.
StartSaveUnlocked ==
    /\ ~locked /\ UNCHANGED <<locked, disk>>
    /\ snap' = [present |-> TRUE, events |-> events, safety |-> safety]
    /\ phase' = "open"

\* saveEventsToConfig up to the opening of the file: takes the mutex and
\* collects what is to be written.
StartSave ==
    /\ ~locked
    /\ locked' = TRUE
    /\ snap' = [present |-> TRUE, events |-> events, safety |-> safety]
    /\ phase' = "open"
    /\ UNCHANGED disk

\* Mutant: only the load saves.
SaveOrSleepNoSave ==
    /\ \/ pc = "check" /\ pc' = "idle" /\ UNCHANGED <<locked, writeVars>>
       \/ pc = "load" /\ cursor = 0 /\ StartSave /\ pc' = "save"
    /\ UNCHANGED <<events, lastId, saveFlag, safety, cursor, passNow, source, loaded, srv,
                   request, boxVars, history>>

\* After a pass the file is saved on request, after the load always.
SaveOrSleep ==
    /\ \/ /\ pc = "check" /\ saveFlag /\ StartSave /\ pc' = "save"
       \/ /\ pc = "check" /\ ~saveFlag /\ pc' = "idle" /\ UNCHANGED <<locked, writeVars>>
       \/ /\ pc = "load" /\ cursor = 0 /\ StartSave /\ pc' = "save"
    /\ UNCHANGED <<events, lastId, saveFlag, safety, cursor, passNow, source, loaded, srv,
                   request, boxVars, history>>

---------------------------------------------------------------------------
(* Writing timerd.conf, by the timer thread or by the server. *)

Writing == pc = "save" \/ srv = "save"

\* The second margin is read, after the first: setRecordingSafety, which takes
\* no mutex, may have run in between.  Then ofstream truncates the file.
OpenFile ==
    /\ Writing /\ phase = "open"
    /\ phase' = "head" /\ disk' = Truncated
    /\ snap' = [snap EXCEPT !.safety = [pre |-> snap.safety.pre, post |-> safety.post]]
    /\ UNCHANGED <<events, lastId, saveFlag, safety, locked, threadVars, srv, request,
                   boxVars, history>>

\* The lines up to IDS are written.
WriteHead ==
    /\ Writing /\ phase = "head"
    /\ phase' = "tail"
    /\ disk' = [snap EXCEPT !.events = [i \in Ids |-> Cut(snap.events[i])]]
    /\ UNCHANGED <<events, lastId, saveFlag, safety, locked, threadVars, srv, request,
                   snap, boxVars, history>>

WriteTail ==
    /\ Writing /\ phase = "tail"
    /\ phase' = "clear" /\ disk' = snap
    /\ durable' = (durable \cup Uids(snap.events)) \ removed
    /\ UNCHANGED <<events, lastId, saveFlag, safety, locked, threadVars, srv, request,
                   snap, boxVars, recording, removed, lastUid, clean>>

\* Mutant: m_isTimeSet is never set, the timers are loaded again.
ClearFlagAndReload ==
    /\ Writing /\ phase = "clear"
    /\ phase' = "none" /\ saveFlag' = FALSE /\ locked' = FALSE
    /\ snap' = NoConfig
    /\ IF pc = "save"
       THEN pc' = "wait" /\ loaded' = TRUE /\ source' = Empty /\ UNCHANGED srv
       ELSE srv' = "stopped" /\ UNCHANGED <<pc, loaded, source>>
    /\ UNCHANGED <<events, lastId, safety, cursor, passNow, request, disk,
                   boxVars, history>>

\* m_saveEvents = false, unlock; the timer thread sleeps, the server stops.
ClearFlag ==
    /\ Writing /\ phase = "clear"
    /\ phase' = "none" /\ saveFlag' = FALSE /\ locked' = FALSE
    /\ snap' = NoConfig
    /\ IF pc = "save"
       THEN pc' = "idle" /\ loaded' = TRUE /\ source' = Empty /\ UNCHANGED srv
       ELSE srv' = "stopped" /\ UNCHANGED <<pc, loaded, source>>
    /\ UNCHANGED <<events, lastId, safety, cursor, passNow, request, disk,
                   boxVars, history>>

---------------------------------------------------------------------------
(* The command server: one command at a time, each under the mutex. *)

CommandReady == srv = "run" /\ ~locked

\* Only the constructor of a recording takes a stop time.
StopOf(t) == IF t.type = "RECORD" THEN t.stop ELSE 0

Timer(t, state, fired) ==
    [type |-> t.type, state |-> state, repeat |-> Normalised(t.repeat),
     count |-> t.count, announce |-> t.announce, alarm |-> t.alarm, stop |-> StopOf(t),
     uid |-> lastUid + 1, fired |-> fired, budget |-> Budget(Normalised(t.repeat), t.count),
     ends |-> StopOf(t) > 0]

\* addEvent with save = true.
Insert(e) ==
    /\ CommandReady
    /\ lastId < MaxTimers /\ lastUid < MaxTimers
    /\ lastId' = lastId + 1 /\ lastUid' = lastUid + 1
    /\ events' = [events EXCEPT ![lastId + 1] = e]
    /\ saveFlag' = TRUE
    /\ UNCHANGED <<safety, locked, threadVars, srv, request, writeVars, boxVars,
                   durable, removed, clean>>

\* The margins widen a recording timer when the client asks for it.
WithSafety(t) == [t EXCEPT !.announce = t.announce - safety.pre,
                           !.alarm = t.alarm - safety.pre,
                           !.stop = t.stop + safety.post]

\* CMD_ADDTIMER
AddTimer ==
    \E t \in NewTimers :
        /\ \/ Insert(Timer(t, "SCHEDULED", 0))
           \/ t.type = "RECORD" /\ Insert(Timer(WithSafety(t), "SCHEDULED", 0))
        /\ UNCHANGED recording

\* CMD_ADDTIMER with TIMER_IMMEDIATE_RECORD: neutrino is recording already.
ByHand == [type |-> "RECORD", repeat |-> "ONCE", count |-> 1, announce |-> 0,
           alarm |-> now, stop |-> now + ImmediateLength]

AddImmediateRecord ==
    /\ Insert(Timer(ByHand, "ISRUNNING", 1))
    /\ recording' = recording \cup {lastId + 1}

\* Mutant: the stop handler is not called.
StopRecordingSilently(i) == UNCHANGED recording

\* stopEvent of a running timer: only a recording does something.
StopRecording(i) ==
    recording' = IF /\ events[i].state = "ISRUNNING" /\ events[i].stop > 0
                    /\ events[i].type = "RECORD"
                 THEN recording \ {i} ELSE recording

\* CMD_REMOVETIMER: the timer thread is to delete the timer in its next pass.
RemoveTimer ==
    /\ CommandReady
    /\ \E i \in Live(events) :
        /\ StopRecording(i)
        /\ events' = [events EXCEPT ![i].state = "TERMINATED"]
        /\ removed' = removed \cup {events[i].uid}
        /\ durable' = durable \ {events[i].uid}
    /\ UNCHANGED <<lastId, saveFlag, safety, locked, threadVars, srv, request, writeVars,
                   boxVars, lastUid, clean>>

\* CMD_STOPTIMER
StopTimer ==
    /\ CommandReady
    /\ \E i \in Live(events) :
        /\ StopRecording(i)
        /\ events' = [events EXCEPT ![i].state = "HASFINISHED"]
    /\ UNCHANGED <<lastId, saveFlag, safety, locked, threadVars, srv, request, writeVars,
                   boxVars, durable, removed, lastUid, clean>>

\* CMD_MODIFYTIMER: new times and repeat settings for a timer of any type.
Modified(e, t) ==
    [e EXCEPT !.announce = t.announce, !.alarm = t.alarm, !.stop = t.stop,
              !.ends = t.stop > 0,
              !.state = IF e.state = "PREANNOUNCE" THEN "SCHEDULED" ELSE e.state,
              !.repeat = Normalised(t.repeat), !.count = t.count,
              !.fired = IF e.state = "ISRUNNING" THEN 1 ELSE 0,
              !.budget = Budget(Normalised(t.repeat), t.count)]

\* The first of its two sections under the mutex looks the timer up.  Its type
\* is read after that, from a timer that may be gone: whatever is read decides
\* only whether the directory of a recording is received.
GetEventType ==
    /\ CommandReady
    /\ srv' = "modify"
    /\ UNCHANGED <<events, lastId, saveFlag, safety, locked, threadVars, request, writeVars,
                   boxVars, history>>

\* The second looks it up again, and finds it or not.
ModifyTimer ==
    /\ srv = "modify" /\ ~locked
    /\ srv' = "run"
    /\ \/ /\ \E i \in Live(events), t \in NewTimers :
             /\ events' = [events EXCEPT ![i] = Modified(events[i], t)]
             /\ recording' = IF t.stop > 0 THEN recording ELSE recording \ {i}
          /\ saveFlag' = TRUE
       \/ UNCHANGED <<events, saveFlag, recording>>
    /\ UNCHANGED <<lastId, safety, locked, threadVars, request, writeVars, boxVars,
                   durable, removed, lastUid, clean>>

\* CMD_RESCHEDULETIMER: shifts the times that are set and arms the timer anew.
Shifted(e, d) ==
    [e EXCEPT !.announce = Moved(e.announce, d), !.alarm = Moved(e.alarm, d),
              !.stop = Moved(e.stop, d), !.state = "SCHEDULED",
              !.fired = 0, !.budget = Budget(e.repeat, e.count)]

RescheduleTimer ==
    /\ CommandReady
    /\ \E i \in Live(events), d \in Diffs :
        events' = [events EXCEPT ![i] = Shifted(events[i], d)]
    /\ saveFlag' = TRUE
    /\ UNCHANGED <<lastId, safety, locked, threadVars, srv, request, writeVars, boxVars, history>>

\* CMD_SETAPID: the audio streams of a recording or of a zap.
SetApids ==
    /\ CommandReady
    /\ \E i \in Live(events) : events[i].type \in {"RECORD", "ZAPTO"}
    /\ saveFlag' = TRUE
    /\ UNCHANGED <<events, lastId, safety, locked, threadVars, srv, request, writeVars,
                   boxVars, history>>

\* CMD_SETRECSAFETY takes no lock.  The two halves and the flag are separate
\* stores: another thread may read between them.
SetSafetyPre ==
    /\ srv = "run"
    /\ \E s \in Safeties : /\ request' = s
                           /\ safety' = [safety EXCEPT !.pre = s.pre]
    /\ srv' = "safety"
    /\ UNCHANGED <<events, lastId, saveFlag, locked, threadVars, writeVars, boxVars, history>>

SetSafetyPost ==
    /\ srv = "safety"
    /\ safety' = [safety EXCEPT !.post = request.post]
    /\ srv' = "safetyFlag"
    /\ UNCHANGED <<events, lastId, saveFlag, locked, threadVars, request, writeVars,
                   boxVars, history>>

SetSafetyFlag ==
    /\ srv = "safetyFlag"
    /\ saveFlag' = TRUE
    /\ srv' = "run" /\ request' = NoSafety
    /\ UNCHANGED <<events, lastId, safety, locked, threadVars, writeVars, boxVars, history>>

---------------------------------------------------------------------------
(* CMD_SHUTDOWN: cancel and join the timer thread, save if asked for, stop. *)

ShutdownCommand ==
    /\ srv = "run" /\ (EarlyShutdown \/ loaded)
    /\ srv' = "join"
    /\ UNCHANGED <<events, lastId, saveFlag, safety, locked, threadVars, request,
                   writeVars, boxVars, history>>

\* Mutant: cancellation is never disabled.
CancellableAlways == TRUE

\* Cancellation is disabled from the start of a pass until the save after it,
\* but not while the timers are loaded and first saved.
Cancellable == pc \in {"wait", "load", "idle"} \/ ~loaded

\* The thread dies at a cancellation point; if it was writing, the file stays
\* as it is and the mutex locked.
ThreadCancelled ==
    /\ srv = "join" /\ pc # "dead" /\ Cancellable
    /\ pc' = "dead" /\ cursor' = 0 /\ source' = Empty /\ passNow' = 0
    /\ phase' = "none" /\ snap' = NoConfig
    /\ UNCHANGED <<events, lastId, saveFlag, safety, locked, loaded, srv, request, disk,
                   boxVars, history>>

ShutdownSave ==
    /\ srv = "join" /\ pc = "dead"
    /\ \/ saveFlag /\ StartSave /\ srv' = "save"
       \/ ~saveFlag /\ srv' = "stopped" /\ UNCHANGED <<locked, writeVars>>
    /\ UNCHANGED <<events, lastId, saveFlag, safety, threadVars, request, boxVars, history>>

---------------------------------------------------------------------------
(* The box. *)

\* The daemon starts anew, with what the file holds.
Restart ==
    /\ events' = Empty /\ lastId' = 0 /\ saveFlag' = FALSE
    /\ safety' \in Safeties \cup {disk.safety}
    /\ disk.present => safety' = disk.safety
    /\ locked' = FALSE
    /\ pc' = "wait" /\ cursor' = 0 /\ passNow' = 0 /\ source' = Empty /\ loaded' = FALSE
    /\ srv' = "run" /\ request' = NoSafety
    /\ phase' = "none" /\ snap' = NoConfig
    /\ timeset' = FALSE
    /\ recording' = {} /\ clean' = TRUE
    /\ UNCHANGED <<disk, now, durable, removed, lastUid>>

PowerOff == srv = "stopped" /\ Restart

PowerCut == (CutWrites \/ phase \notin {"head", "tail"}) /\ Restart

SetTime ==
    /\ ~timeset /\ timeset' = TRUE
    /\ UNCHANGED <<events, lastId, saveFlag, safety, locked, threadVars, srv, request,
                   writeVars, now, history>>

\* The daemon has stopped and the box stays off.
Off == srv = "stopped" /\ UNCHANGED vars

Tick ==
    /\ now < MaxTime /\ now' = now + 1
    /\ UNCHANGED <<events, lastId, saveFlag, safety, locked, threadVars, srv, request,
                   writeVars, timeset, history>>

TimerThread == \/ BeginLoad \/ LoadTimer \/ BeginPass \/ Visit \/ VisitEndless
               \/ EndPass \/ SaveOrSleep
Write       == OpenFile \/ WriteHead \/ WriteTail \/ ClearFlag
Command     == \/ AddTimer \/ AddImmediateRecord \/ RemoveTimer \/ StopTimer
               \/ GetEventType \/ RescheduleTimer \/ SetApids \/ SetSafetyPre \/ ShutdownCommand
Server      == ModifyTimer \/ SetSafetyPost \/ SetSafetyFlag \/ ThreadCancelled \/ ShutdownSave
Box         == SetTime \/ Tick

Step == TimerThread \/ Write \/ Server \/ Box

Next ==
    \/ Step /\ UNCHANGED bounds
    \/ /\ Command
       /\ commands < MaxCommands /\ commands' = commands + 1 /\ UNCHANGED restarts
    \/ /\ PowerOff \/ PowerCut
       /\ restarts < MaxRestarts /\ restarts' = restarts + 1 /\ UNCHANGED commands
    \/ Endless \/ Off

Spec == Init /\ [][Next]_vars

\* Both threads are scheduled; nothing makes a command, the time or the end
\* of the power come.  Every round of the timer thread passes through its
\* sleep, where a pending cancellation acts.
Fairness ==
    /\ WF_vars(TimerThread /\ UNCHANGED bounds)
    /\ WF_vars(Write /\ UNCHANGED bounds)
    /\ WF_vars(Server /\ UNCHANGED bounds)
    /\ SF_vars(ThreadCancelled /\ UNCHANGED bounds)

FairSpec == Spec /\ Fairness
=============================================================================
