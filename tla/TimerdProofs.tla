---------------------------- MODULE TimerdProofs ----------------------------
(***************************************************************************)
(* Proofs about the timer daemon (module Timerd), for any number of timers,*)
(* any clock and any inputs.                                               *)
(***************************************************************************)
EXTENDS TimerdProps, TLAPS

---------------------------------------------------------------------------
(* Facts about the operators of TimerEvents, for every timer and every time:
   what they return, and what a pass leaves due. *)

\* The calendar loop of Reschedule (timermanager.cpp:831-899) ends beyond the
\* time it was given, whatever number of periods it has to make up for.
LEMMA ShiftProperty ==
    ASSUME NEW e \in Event, NEW t \in Int, e.repeat \in Periodic
    PROVE  /\ Shift(e, t) \in Nat
           /\ e.alarm + Shift(e, t) > t
<1> DEFINE P == Period[e.repeat]
           x == t - e.alarm
<1>1. P \in Nat \ {0} /\ e.alarm \in Int
  BY PeriodAssumption DEF Event
<1>2. CASE e.alarm > t
  BY <1>1, <1>2 DEF Shift
<1>3. CASE ~(e.alarm > t)
  <2>1. x \in Nat
    BY <1>1, <1>3
  <2>2. x \div P \in Nat /\ x = P * (x \div P) + (x % P) /\ x % P < P /\ x % P \in Nat
    <3> HIDE DEF P, x
    <3> QED BY <1>1, <2>1
  <2>3. P * ((x \div P) + 1) \in Nat /\ P * ((x \div P) + 1) > x
    <3> HIDE DEF P, x
    <3> QED BY <1>1, <2>1, <2>2
  <2> QED BY <1>1, <1>3, <2>3 DEF Shift
<1> QED BY <1>2, <1>3

\* A timer that may be rescheduled is a well-formed timer afterwards, waiting
\* for an alarm in the future (or terminated, if it does not repeat).
LEMMA RescheduleProperty ==
    ASSUME NEW e \in Event, NEW t \in Int, CanReschedule(e, t)
    PROVE  /\ Reschedule(e, t) \in Event
           /\ e.repeat # "ONCE" => /\ Reschedule(e, t).alarm > t
                                   /\ Reschedule(e, t).state = "SCHEDULED"
<1>1. CASE e.repeat = "ONCE"
  BY <1>1 DEF Reschedule, Event, States
<1>2. CASE e.repeat # "ONCE"
  <2>1. Shift(e, t) \in Int /\ e.alarm + Shift(e, t) > t
    <3>1. CASE e.repeat \in Periodic
      BY <3>1, ShiftProperty
    <3>2. CASE e.alarm > t
      BY <3>2 DEF Shift, Event
    <3> QED BY <1>2, <3>1, <3>2 DEF CanReschedule
  <2> DEFINE d == Shift(e, t)
             m == IF e.count > 0 THEN e.count - 1 ELSE e.count
             r == [e EXCEPT !.alarm = e.alarm + d, !.announce = Moved(e.announce, d),
                            !.stop = Moved(e.stop, d), !.state = "SCHEDULED", !.count = m]
  <2>2. /\ e.alarm + d \in Int /\ Moved(e.announce, d) \in Int
        /\ Moved(e.stop, d) \in Int /\ m \in Int
    BY <2>1 DEF Moved, Event
  <2>3. r \in Event /\ r.alarm = e.alarm + d /\ r.state = "SCHEDULED"
    <3> HIDE DEF d, m
    <3> QED BY <2>2 DEF Event, States
  <2>4. Reschedule(e, t) = r
    BY <1>2 DEF Reschedule
  <2> QED BY <2>1, <2>3, <2>4
<1> QED BY <1>1, <1>2

\* Each of the first three stages of a visit changes the state and the count
\* of firings only, and leaves its own condition false.
LEMMA AnnouncedProperty ==
    ASSUME NEW e \in Event, NEW n \in Int
    PROVE  /\ Announced(e, n) \in Event
           /\ Announced(e, n) = [e EXCEPT !.state = Announced(e, n).state]
BY DEF Announced, Event, States

LEMMA FiredProperty ==
    ASSUME NEW e \in Event, NEW n \in Int
    PROVE  /\ Fired(e, n) \in Event
           /\ Fired(e, n) = [e EXCEPT !.state = Fired(e, n).state,
                                      !.fired = Fired(e, n).fired]
           /\ ~AlarmDue(Fired(e, n), n)
<1> DEFINE s == IF e.stop = 0 THEN "HASFINISHED" ELSE "ISRUNNING"
           k == e.fired + 1
           f == [e EXCEPT !.state = s, !.fired = k]
<1>1. CASE AlarmDue(e, n)
  <2>1. s \in States /\ k \in Nat /\ s \in {"HASFINISHED", "ISRUNNING"}
    BY DEF Event, States
  <2>2. f \in Event /\ f.state = s /\ f.fired = k
    <3> HIDE DEF s, k
    <3> QED BY <2>1 DEF Event
  <2>3. Fired(e, n) = f
    BY <1>1 DEF Fired
  <2>4. ~AlarmDue(f, n)
    <3> HIDE DEF s, f
    <3> QED BY <2>1, <2>2 DEF AlarmDue
  <2> QED BY <2>2, <2>3, <2>4
<1>2. CASE ~AlarmDue(e, n)
  BY <1>2 DEF Fired, Event
<1> QED BY <1>1, <1>2

LEMMA StoppedProperty ==
    ASSUME NEW e \in Event, NEW n \in Int, ~AlarmDue(e, n)
    PROVE  /\ Stopped(e, n) \in Event
           /\ Stopped(e, n) = [e EXCEPT !.state = Stopped(e, n).state]
           /\ ~AlarmDue(Stopped(e, n), n) /\ ~StopDue(Stopped(e, n), n)
BY DEF Stopped, Event, States, StopDue, AlarmDue

LEMMA BeforeFinishProperty ==
    ASSUME NEW e \in Event, NEW n \in Int
    PROVE  /\ BeforeFinish(e, n) \in Event
           /\ BeforeFinish(e, n) = [e EXCEPT !.state = BeforeFinish(e, n).state,
                                             !.fired = BeforeFinish(e, n).fired]
           /\ ~AlarmDue(BeforeFinish(e, n), n)
           /\ ~StopDue(BeforeFinish(e, n), n)
<1> DEFINE a == Announced(e, n)
           f == Fired(a, n)
           s == Stopped(f, n)
<1>1. a \in Event /\ a = [e EXCEPT !.state = a.state]
  BY AnnouncedProperty
<1>2. f \in Event /\ f = [a EXCEPT !.state = f.state, !.fired = f.fired] /\ ~AlarmDue(f, n)
  <2> HIDE DEF a
  <2> QED BY <1>1, FiredProperty
<1>3. /\ s \in Event /\ s = [f EXCEPT !.state = s.state]
      /\ ~AlarmDue(s, n) /\ ~StopDue(s, n)
  <2> HIDE DEF f
  <2> QED BY <1>2, StoppedProperty
<1>4. BeforeFinish(e, n) = s
  BY DEF BeforeFinish
<1>5. s = [e EXCEPT !.state = s.state, !.fired = s.fired]
  <2> HIDE DEF a, f, s
  <2> QED BY ZenonT(30), <1>1, <1>2, <1>3 DEF Event
<1> QED BY <1>3, <1>4, <1>5

\* A visit leaves a well-formed timer; unless it terminates it, neither its
\* alarm nor its stop is due any more.
LEMMA PassedProperty ==
    ASSUME NEW e \in Event, NEW n \in Int, NEW t \in Int, n <= t,
           LET b == BeforeFinish(e, n)
           IN  b.state = "HASFINISHED" /\ b.count # 1 => CanReschedule(b, t)
    PROVE  /\ Passed(e, n, t) \in Event
           /\ Passed(e, n, t).state # "TERMINATED" =>
                 ~AlarmDue(Passed(e, n, t), n) /\ ~StopDue(Passed(e, n, t), n)
<1> DEFINE b == BeforeFinish(e, n)
<1>1. b \in Event /\ ~AlarmDue(b, n) /\ ~StopDue(b, n)
  BY BeforeFinishProperty
<1>2. CASE b.state # "HASFINISHED"
  BY <1>1, <1>2 DEF Passed, Finished
<1>3. CASE b.state = "HASFINISHED" /\ b.repeat # "ONCE" /\ b.count # 1
  <2>1. /\ Reschedule(b, t) \in Event
        /\ Reschedule(b, t).alarm > t
        /\ Reschedule(b, t).state = "SCHEDULED"
    BY <1>1, <1>3, RescheduleProperty
  <2>2. Passed(e, n, t) = Reschedule(b, t)
    BY <1>3 DEF Passed, Finished
  <2> QED
    <3>1. ~(Reschedule(b, t).alarm <= n)
      BY <2>1 DEF Event
    <3> QED BY <2>1, <2>2, <3>1 DEF AlarmDue, StopDue
<1>4. CASE b.state = "HASFINISHED" /\ ~(b.repeat # "ONCE" /\ b.count # 1)
  <2>1. Passed(e, n, t) = [b EXCEPT !.state = "TERMINATED"]
    BY <1>4 DEF Passed, Finished
  <2> HIDE DEF b
  <2> QED BY <1>1, <2>1 DEF Event, States
<1> QED BY <1>2, <1>3, <1>4

\* A visit that asks for no save has changed nothing (m_saveEvents is set by
\* every stage that acts, timermanager.cpp:141-185).
LEMMA UntouchedProperty ==
    ASSUME NEW e \in Event, NEW n \in Int, NEW t \in Int, ~Touched(e, n)
    PROVE  Passed(e, n, t) = e /\ e.state # "TERMINATED"
<1>1. Announced(e, n) = e
  BY DEF Touched, TouchedBefore, Announced
<1>2. Fired(e, n) = e
  BY <1>1 DEF Touched, TouchedBefore, Fires, Fired
<1>3. Stopped(e, n) = e
  BY <1>1, <1>2 DEF Touched, TouchedBefore, Stops, Stopped
<1>4. BeforeFinish(e, n) = e
  BY <1>1, <1>2, <1>3 DEF BeforeFinish
<1> QED BY <1>4 DEF Touched, Passed, Finished

LEMMA LoadedType ==
    ASSUME NEW e \in Event, NEW t \in Int
    PROVE  Loaded(e, t) \in Event
BY DEF Loaded, Event, States, Normalised, Repeats

LEMMA CutType ==
    ASSUME NEW e \in Event
    PROVE  Cut(e) \in Event
<1> DEFINE z == 0
<1>1. Cut(e) = [e EXCEPT !.count = z, !.stop = z]
  BY NoTimerAssumption DEF Cut
<1>2. z \in Int
  OBVIOUS
<1>3. [e EXCEPT !.count = z, !.stop = z] \in Event
  <2> HIDE DEF z
  <2> QED BY <1>2 DEF Event
<1> QED BY <1>1, <1>3

---------------------------------------------------------------------------
(* The variables. *)

LEMMA LiveType ==
    ASSUME NEW E \in Events, NEW i \in Live(E)
    PROVE  i \in Ids /\ E[i] \in Event
BY DEF Live, Events

LEMMA FirstType ==
    ASSUME NEW S \in SUBSET Ids, NEW i, IsFirst(i, S)
    PROVE  i \in 0 .. MaxTimers /\ (i # 0 => i \in S)
<1>1. CASE i \in S
  <2>1. i \in 1 .. MaxTimers
    BY <1>1 DEF Ids
  <2> QED BY <1>1, <2>1, BoundsAssumption
<1>2. CASE i = 0
  BY <1>2, BoundsAssumption
<1> QED BY <1>1, <1>2 DEF IsFirst

LEMMA EmptyType == Empty \in Events /\ NoConfig \in Config /\ Truncated \in Config
BY SafetyAssumption DEF Empty, Events, NoConfig, Truncated, Config

\* The timers clients create are well formed.
LEMMA TimerType ==
    ASSUME NEW t \in TimerSpec, NEW s \in States, NEW k \in Nat, lastUid \in Nat
    PROVE  Timer(t, s, k) \in Event
<1>1. Normalised(t.repeat) \in Repeats
  BY DEF TimerSpec, Normalised, Repeats
<1>2. Budget(Normalised(t.repeat), t.count) \in Int
  BY DEF TimerSpec, Budget
<1>3. StopOf(t) \in Int /\ (StopOf(t) > 0) \in BOOLEAN
  BY DEF TimerSpec, StopOf
<1> QED BY <1>1, <1>2, <1>3 DEF Timer, Event, TimerSpec

LEMMA SafetyType ==
    ASSUME NEW t \in TimerSpec, safety \in [pre: Nat, post: Nat]
    PROVE  WithSafety(t) \in TimerSpec
<1> DEFINE a == t.announce - safety.pre
           b == t.alarm - safety.pre
           c == t.stop + safety.post
<1>1. a \in Int /\ b \in Int /\ c \in Int
  BY DEF TimerSpec
<1>2. [t EXCEPT !.announce = a, !.alarm = b, !.stop = c] \in TimerSpec
  <2> HIDE DEF a, b, c
  <2> QED BY <1>1 DEF TimerSpec
<1> QED BY <1>2 DEF WithSafety

LEMMA ImmediateType ==
    ASSUME now \in Nat
    PROVE  ByHand \in TimerSpec
BY TypesAssumption, InputAssumption DEF ByHand, TimerSpec, Repeats

LEMMA InsertType ==
    ASSUME TypeOK, NEW e \in Event, Insert(e)
    PROVE  /\ events' \in Events /\ lastId' \in 0 .. MaxTimers
           /\ lastUid' \in 0 .. MaxTimers /\ lastId + 1 \in Ids
BY BoundsAssumption DEF Insert, CommandReady, TypeOK, Events, Ids

LEMMA UpdateType ==
    ASSUME NEW E \in Events, NEW i \in Ids, NEW v \in Event \cup {NoTimer}
    PROVE  [E EXCEPT ![i] = v] \in Events
BY DEF Events

---------------------------------------------------------------------------
(* Types. *)

TInv == TypeOK /\ CursorOK /\ ClockOK

LEMMA TypeInit == Init => TInv
<1> SUFFICES ASSUME Init PROVE TInv
  OBVIOUS
<1>1. safety \in [pre: Nat, post: Nat] /\ NoSafety \in [pre: Nat, post: Nat]
  BY SafetyAssumption DEF Init
<1>2. disk \in Config /\ snap \in Config /\ events \in Events /\ source \in Events
  BY EmptyType DEF Init
<1>3. 0 \in 0 .. MaxTimers
  BY BoundsAssumption
<1>4. TypeOK
  BY <1>1, <1>2, <1>3 DEF Init, TypeOK
<1> QED BY <1>4 DEF Init, TInv, CursorOK, ClockOK

LEMMA TypeTimerThread == TInv /\ TimerThread /\ UNCHANGED bounds => TInv'
<1> SUFFICES ASSUME TInv, TimerThread PROVE TInv'
  OBVIOUS
<1> USE DEF threadVars, writeVars, boxVars, history, TInv
<1>1. CASE BeginLoad
  <2>1. disk.events \in Events
    BY DEF TypeOK, Config
  <2>2. cursor' \in 0 .. MaxTimers /\ (cursor' # 0 => cursor' \in Live(disk.events))
    BY <1>1, FirstType DEF BeginLoad, Live
  <2>3. TypeOK'
    BY <1>1, <2>1, <2>2 DEF BeginLoad, TypeOK
  <2> QED BY <1>1, <2>2, <2>3 DEF BeginLoad, CursorOK, ClockOK, Live
<1>2. CASE LoadTimer
  <2>1. cursor \in Live(source)
    BY <1>2 DEF LoadTimer, CursorOK, TypeOK, Live, Ids
  <2>2. source[cursor] \in Event /\ now \in Int
    BY <2>1, LiveType DEF TypeOK
  <2>3. cursor' \in 0 .. MaxTimers /\ (cursor' # 0 => cursor' \in Live(source))
    BY <1>2, FirstType DEF LoadTimer, Live, After
  <2>4. events' \in Events /\ lastId' \in 0 .. MaxTimers
    <3>1. CASE TooOld(source[cursor], now)
      BY <1>2, <3>1 DEF LoadTimer, TypeOK
    <3>2. CASE ~TooOld(source[cursor], now)
      <4>1. Loaded(source[cursor], now) \in Event
        BY <2>2, LoadedType
      <4>2. lastId + 1 \in Ids
        BY <1>2, <3>2, BoundsAssumption DEF LoadTimer, TypeOK, Ids
      <4>3. events' = [events EXCEPT ![lastId + 1] = Loaded(source[cursor], now)]
        BY <1>2, <3>2 DEF LoadTimer
      <4>4. events' \in Events
        BY <4>1, <4>2, <4>3, UpdateType DEF TypeOK
      <4>5. lastId' = lastId + 1
        BY <1>2, <3>2 DEF LoadTimer
      <4>6. lastId' \in 0 .. MaxTimers
        BY <4>2, <4>5, BoundsAssumption DEF Ids
      <4> QED BY <4>4, <4>6
    <3> QED BY <3>1, <3>2
  <2>5. durable' \in SUBSET Nat
    BY <1>2 DEF LoadTimer, TypeOK
  <2>6. TypeOK'
    BY <1>2, <2>3, <2>4, <2>5 DEF LoadTimer, TypeOK
  <2> QED BY <1>2, <2>3, <2>6 DEF LoadTimer, CursorOK, ClockOK, Live
<1>3. CASE BeginPass
  <2>1. cursor' \in 0 .. MaxTimers /\ (cursor' # 0 => cursor' \in Live(events))
    BY <1>3, FirstType DEF BeginPass, Live
  <2>2. TypeOK'
    BY <1>3, <2>1 DEF BeginPass, TypeOK
  <2> QED BY <1>3, <2>1, <2>2 DEF BeginPass, CursorOK, ClockOK, Live, TypeOK
<1>4. CASE Visit
  <2> DEFINE e == events[cursor]
             p == Passed(e, passNow, now)
  <2>1. cursor \in Live(events) /\ cursor \in Ids /\ e \in Event
    <3>1. cursor \in Live(events)
      BY <1>4 DEF Visit, CursorOK, TypeOK, Live, Ids
    <3> QED BY <3>1, LiveType DEF TypeOK
  <2>2. p \in Event
    <3>1. passNow \in Int /\ now \in Int /\ passNow <= now
      BY DEF TypeOK, ClockOK
    <3>2. LET b == BeforeFinish(e, passNow)
          IN  b.state = "HASFINISHED" /\ b.count # 1 => CanReschedule(b, now)
      BY <1>4 DEF Visit, Caught
    <3> HIDE DEF e
    <3> QED BY <2>1, <3>1, <3>2, PassedProperty
  <2>3. recording' \in SUBSET Ids
    BY <1>4, <2>1 DEF Visit, Recorded, TypeOK
  <2>4. CASE p.state = "TERMINATED"
    <3>1. /\ events' = [events EXCEPT ![cursor] = NoTimer]
          /\ cursor' \in (Live(events) \ {cursor}) \cup {0}
          /\ durable' \in SUBSET Nat /\ clean' \in BOOLEAN
      BY <1>4, <2>4 DEF Visit, TypeOK
    <3>2. events' \in Events
      BY <2>1, <3>1, UpdateType DEF TypeOK
    <3>3. cursor' \in 0 .. MaxTimers
      BY <3>1, BoundsAssumption DEF Live, Ids
    <3>4. cursor' # 0 => events'[cursor'] # NoTimer
      BY <3>1 DEF Live, TypeOK, Events
    <3>5. TypeOK'
      BY <1>4, <2>3, <3>1, <3>2, <3>3 DEF Visit, TypeOK
    <3> QED BY <1>4, <3>4, <3>5 DEF Visit, CursorOK, ClockOK
  <2>5. CASE p.state # "TERMINATED"
    <3>1. /\ events' = [events EXCEPT ![cursor] = p]
          /\ IsFirst(cursor', After(events, cursor))
          /\ durable' = durable /\ clean' = clean
      BY <1>4, <2>5 DEF Visit
    <3>2. events' \in Events
      BY <2>1, <2>2, <3>1, UpdateType DEF TypeOK
    <3>3. cursor' \in 0 .. MaxTimers /\ (cursor' # 0 => cursor' \in After(events, cursor))
      BY <3>1, FirstType DEF After, Live
    <3>4. cursor' # 0 => events'[cursor'] # NoTimer
      BY <2>1, <3>1, <3>3, BoundsAssumption DEF Live, After, TypeOK, Events, Ids
    <3>5. TypeOK'
      BY <1>4, <2>3, <3>1, <3>2, <3>3 DEF Visit, TypeOK
    <3> QED BY <1>4, <3>4, <3>5 DEF Visit, CursorOK, ClockOK
  <2> QED BY <2>4, <2>5
<1>5. CASE EndPass
  <2>1. TypeOK'
    BY <1>5 DEF EndPass, TypeOK
  <2>2. passNow' <= now'
    BY <1>5 DEF EndPass, TypeOK
  <2> QED BY <1>5, <2>1, <2>2 DEF EndPass, CursorOK, ClockOK
<1>6. CASE SaveOrSleep
  <2>1. phase' \in {"none", "open", "head", "tail", "clear"} /\ snap' \in Config
    <3>1. [present |-> TRUE, events |-> events, safety |-> safety] \in Config
      BY DEF TypeOK, Config
    <3> QED BY <1>6, <3>1 DEF SaveOrSleep, StartSave, TypeOK
  <2>2. TypeOK'
    BY <1>6, <2>1 DEF SaveOrSleep, StartSave, TypeOK
  <2> QED BY <1>6, <2>2 DEF SaveOrSleep, StartSave, CursorOK, ClockOK
<1>7. CASE VisitEndless
  <2> DEFINE b == BeforeFinish(events[cursor], passNow)
  <2>1. cursor \in Live(events) /\ cursor \in Ids /\ cursor # 0
    BY <1>7 DEF VisitEndless, CursorOK, TypeOK, Live, Ids
  <2>2. b \in Event /\ b # NoTimer
    <3>1. events[cursor] \in Event /\ passNow \in Int
      BY <2>1, LiveType DEF TypeOK
    <3> QED BY <3>1, BeforeFinishProperty, NoTimerAssumption
  <2>3. events' = [events EXCEPT ![cursor] = b] /\ cursor' = cursor
    BY <1>7 DEF VisitEndless
  <2> HIDE DEF b
  <2>4. events' \in Events /\ events'[cursor'] # NoTimer
    BY <2>1, <2>2, <2>3, UpdateType DEF TypeOK, Events
  <2>5. recording' \in SUBSET Ids
    BY <1>7, <2>1 DEF VisitEndless, Recorded, TypeOK
  <2>6. saveFlag' \in BOOLEAN
    BY <1>7 DEF VisitEndless, TouchedBefore, AnnounceDue, Fires, AlarmDue, Stops, StopDue, TypeOK
  <2>7. TypeOK'
    BY <1>7, <2>4, <2>5, <2>6 DEF VisitEndless, TypeOK
  <2> QED BY <1>7, <2>1, <2>4, <2>7 DEF VisitEndless, CursorOK, ClockOK
<1> QED BY <1>1, <1>2, <1>3, <1>4, <1>5, <1>6, <1>7 DEF TimerThread

LEMMA TypeWrite == TInv /\ Write /\ UNCHANGED bounds => TInv'
<1> SUFFICES ASSUME TInv, Write PROVE TInv'
  OBVIOUS
<1> USE DEF threadVars, boxVars, history, TInv
<1>1. CASE OpenFile
  <2>1. snap' \in Config /\ disk' \in Config
    BY <1>1, EmptyType DEF OpenFile, TypeOK, Config
  <2>2. TypeOK'
    BY <1>1, <2>1 DEF OpenFile, TypeOK
  <2> QED BY <1>1, <2>2 DEF OpenFile, CursorOK, ClockOK
<1>2. CASE WriteHead
  <2>1. \A i \in Ids : Cut(snap.events[i]) \in Event \cup {NoTimer}
    <3> SUFFICES ASSUME NEW i \in Ids PROVE Cut(snap.events[i]) \in Event \cup {NoTimer}
      OBVIOUS
    <3>1. snap.events[i] \in Event \cup {NoTimer}
      BY DEF TypeOK, Config, Events
    <3>2. CASE snap.events[i] = NoTimer
      BY <3>2 DEF Cut
    <3>3. CASE snap.events[i] \in Event
      BY <3>3, CutType
    <3> QED BY <3>1, <3>2, <3>3
  <2>2. [i \in Ids |-> Cut(snap.events[i])] \in Events
    BY <2>1 DEF Events
  <2>3. disk' \in Config
    BY <1>2, <2>2 DEF WriteHead, TypeOK, Config
  <2>4. TypeOK'
    BY <1>2, <2>3 DEF WriteHead, TypeOK
  <2> QED BY <1>2, <2>4 DEF WriteHead, CursorOK, ClockOK
<1>3. CASE WriteTail
  <2>1. Uids(snap.events) \in SUBSET Nat
    <3>1. snap.events \in Events
      BY DEF TypeOK, Config
    <3>2. \A i \in Live(snap.events) : snap.events[i].uid \in Nat
      BY <3>1, LiveType DEF Event
    <3> QED BY <3>2 DEF Uids
  <2>2. durable' \in SUBSET Nat
    BY <1>3, <2>1 DEF WriteTail, TypeOK
  <2>3. TypeOK'
    BY <1>3, <2>2 DEF WriteTail, TypeOK
  <2> QED BY <1>3, <2>3 DEF WriteTail, CursorOK, ClockOK
<1>4. CASE ClearFlag
  <2>1. pc' \in {pc, "idle"} /\ loaded' \in BOOLEAN /\ source' \in Events
        /\ srv' \in {srv, "stopped"}
        /\ (pc' \in {"load", "pass", "loop"} => pc' = pc /\ source' = source)
    BY <1>4, EmptyType DEF ClearFlag, TypeOK
  <2>2. TypeOK'
    BY <1>4, <2>1, EmptyType DEF ClearFlag, TypeOK
  <2> QED BY <1>4, <2>1, <2>2 DEF ClearFlag, CursorOK, ClockOK
<1> QED BY <1>1, <1>2, <1>3, <1>4 DEF Write

\* A command that only replaces timers by timers keeps the types.
LEMMA ReplaceType ==
    ASSUME TInv, NEW i \in Live(events), NEW e \in Event,
           events' = [events EXCEPT ![i] = e]
    PROVE  /\ events' \in Events
           /\ \A j \in Ids : events[j] # NoTimer => events'[j] # NoTimer
<1>1. i \in Ids /\ events \in Events
  BY LiveType DEF TInv, TypeOK
<1>2. e # NoTimer
  BY NoTimerAssumption
<1> QED BY <1>1, <1>2, UpdateType DEF Events

LEMMA TypeInsert ==
    ASSUME TInv, NEW e \in Event, Insert(e), recording' \in SUBSET Ids
    PROVE  TInv'
<1> USE DEF threadVars, writeVars, boxVars, TInv
<1>0. /\ events' \in Events /\ lastId' \in 0 .. MaxTimers
      /\ lastUid' \in 0 .. MaxTimers /\ lastId + 1 \in Ids
  BY InsertType
<1>1. TypeOK'
  BY <1>0 DEF Insert, TypeOK
<1>2. \A j \in Ids : events[j] # NoTimer => events'[j] # NoTimer
  BY <1>0, NoTimerAssumption DEF Insert, TypeOK, Events
<1>3. CursorOK'
  BY <1>2 DEF Insert, CursorOK, TypeOK, Ids
<1> QED BY <1>1, <1>3 DEF Insert, ClockOK

\* The timer ModifyTimer leaves.
LEMMA ModifiedType ==
    ASSUME NEW e \in Event, NEW t \in TimerSpec
    PROVE  Modified(e, t) \in Event
<1> DEFINE s == IF e.state = "PREANNOUNCE" THEN "SCHEDULED" ELSE e.state
           r == Normalised(t.repeat)
           k == IF e.state = "ISRUNNING" THEN 1 ELSE 0
           b == Budget(r, t.count)
           z == t.stop > 0
<1>1. s \in States /\ k \in Nat
  BY DEF Event, States
<1>2. r \in Repeats
  BY DEF TimerSpec, Normalised, Repeats
<1>3. b \in Int /\ z \in BOOLEAN
  BY DEF TimerSpec, Budget
<1>4. Modified(e, t) =
        [e EXCEPT !.announce = t.announce, !.alarm = t.alarm, !.stop = t.stop,
                  !.ends = z, !.state = s, !.repeat = r, !.count = t.count,
                  !.fired = k, !.budget = b]
  BY DEF Modified
<1> HIDE DEF s, r, k, b, z
<1> QED BY <1>1, <1>2, <1>3, <1>4 DEF Event, TimerSpec

LEMMA ShiftedType ==
    ASSUME NEW e \in Event, NEW d \in Int
    PROVE  Shifted(e, d) \in Event
<1> DEFINE z == 0
           b == Budget(e.repeat, e.count)
<1>1. /\ Moved(e.announce, d) \in Int /\ Moved(e.alarm, d) \in Int
      /\ Moved(e.stop, d) \in Int /\ z \in Nat /\ b \in Int
  BY DEF Moved, Event, Budget
<1>2. Shifted(e, d) =
        [e EXCEPT !.announce = Moved(e.announce, d), !.alarm = Moved(e.alarm, d),
                  !.stop = Moved(e.stop, d), !.state = "SCHEDULED",
                  !.fired = z, !.budget = b]
  BY DEF Shifted
<1> HIDE DEF z, b
<1> QED BY <1>1, <1>2 DEF Event, States

LEMMA MarkedType ==
    ASSUME NEW e \in Event, NEW s \in States
    PROVE  [e EXCEPT !.state = s] \in Event
BY DEF Event

LEMMA TypeCommand == TInv /\ Command => TInv'
<1> SUFFICES ASSUME TInv, Command PROVE TInv'
  OBVIOUS
<1> USE DEF threadVars, writeVars, boxVars, history
<1>t. TypeOK /\ now \in Nat /\ lastUid \in Nat /\ lastId + 1 \in Nat
  BY BoundsAssumption DEF TInv, TypeOK
<1>1. CASE AddTimer
  <2>1. PICK t \in NewTimers :
          /\ \/ Insert(Timer(t, "SCHEDULED", 0))
             \/ Insert(Timer(WithSafety(t), "SCHEDULED", 0))
          /\ recording' = recording
    BY <1>1 DEF AddTimer
  <2>2. t \in TimerSpec /\ WithSafety(t) \in TimerSpec
    BY <1>t, InputAssumption, SafetyType DEF TypeOK
  <2>3. /\ Timer(t, "SCHEDULED", 0) \in Event
        /\ Timer(WithSafety(t), "SCHEDULED", 0) \in Event
    <3>1. "SCHEDULED" \in States
      BY DEF States
    <3> QED BY <1>t, <2>2, <3>1, TimerType
  <2>4. recording' \in SUBSET Ids
    BY <1>t, <2>1 DEF TypeOK
  <2> QED BY <2>1, <2>3, <2>4, TypeInsert
<1>2. CASE AddImmediateRecord
  <2> DEFINE t == ByHand
  <2>1. Insert(Timer(t, "ISRUNNING", 1)) /\ recording' = recording \cup {lastId + 1}
    BY <1>2 DEF AddImmediateRecord
  <2>2. t \in TimerSpec
    BY <1>t, ImmediateType
  <2>3. Timer(t, "ISRUNNING", 1) \in Event
    <3> HIDE DEF t
    <3>1. "ISRUNNING" \in States
      BY DEF States
    <3> QED BY <1>t, <2>2, <3>1, TimerType
  <2>4. recording' \in SUBSET Ids
    BY <1>t, <2>1, <2>3, InsertType DEF TypeOK
  <2> QED BY <2>1, <2>3, <2>4, TypeInsert
<1>3. CASE RemoveTimer
  <2>1. PICK i \in Live(events) :
          /\ StopRecording(i)
          /\ events' = [events EXCEPT ![i] = [events[i] EXCEPT !.state = "TERMINATED"]]
          /\ removed' = removed \cup {events[i].uid} /\ durable' = durable \ {events[i].uid}
    BY <1>3 DEF RemoveTimer
  <2>2. events[i] \in Event
    BY <1>t, LiveType DEF TypeOK
  <2>3. [events[i] EXCEPT !.state = "TERMINATED"] \in Event
    BY <2>2, MarkedType DEF States
  <2>4. /\ events' \in Events
        /\ \A j \in Ids : events[j] # NoTimer => events'[j] # NoTimer
    BY <2>1, <2>3, ReplaceType
  <2>5. recording' \in SUBSET Ids /\ removed' \in SUBSET Nat /\ durable' \in SUBSET Nat
    BY <1>t, <2>1, <2>2 DEF StopRecording, TypeOK, Event
  <2>6. TypeOK'
    BY <1>3, <1>t, <2>4, <2>5 DEF RemoveTimer, TypeOK
  <2> QED BY <1>3, <1>t, <2>4, <2>6 DEF RemoveTimer, TInv, CursorOK, ClockOK, TypeOK, Ids
<1>4. CASE StopTimer
  <2>1. PICK i \in Live(events) :
          /\ StopRecording(i)
          /\ events' = [events EXCEPT ![i] = [events[i] EXCEPT !.state = "HASFINISHED"]]
    BY <1>4 DEF StopTimer
  <2>2. events[i] \in Event
    BY <1>t, LiveType DEF TypeOK
  <2>3. [events[i] EXCEPT !.state = "HASFINISHED"] \in Event
    BY <2>2, MarkedType DEF States
  <2>4. /\ events' \in Events
        /\ \A j \in Ids : events[j] # NoTimer => events'[j] # NoTimer
    BY <2>1, <2>3, ReplaceType
  <2>5. recording' \in SUBSET Ids
    BY <1>t, <2>1 DEF StopRecording, TypeOK
  <2>6. TypeOK'
    BY <1>4, <1>t, <2>4, <2>5 DEF StopTimer, TypeOK
  <2> QED BY <1>4, <1>t, <2>4, <2>6 DEF StopTimer, TInv, CursorOK, ClockOK, TypeOK, Ids
<1>5. CASE GetEventType
  <2>1. TypeOK'
    BY <1>5, <1>t DEF GetEventType, TypeOK
  <2> QED BY <1>5, <2>1 DEF GetEventType, TInv, CursorOK, ClockOK
<1>6. CASE RescheduleTimer
  <2>1. PICK i \in Live(events), d \in Diffs :
          events' = [events EXCEPT ![i] = Shifted(events[i], d)]
    BY <1>6 DEF RescheduleTimer
  <2>2. events[i] \in Event /\ d \in Int
    BY <1>t, LiveType, InputAssumption DEF TypeOK
  <2>3. /\ events' \in Events
        /\ \A j \in Ids : events[j] # NoTimer => events'[j] # NoTimer
    BY <2>1, <2>2, ShiftedType, ReplaceType
  <2>4. TypeOK'
    BY <1>6, <1>t, <2>3 DEF RescheduleTimer, TypeOK
  <2> QED BY <1>6, <1>t, <2>3, <2>4 DEF RescheduleTimer, TInv, CursorOK, ClockOK, TypeOK, Ids
<1>7. CASE SetSafetyPre
  <2>1. PICK s \in Safeties : request' = s /\ safety' = [safety EXCEPT !.pre = s.pre]
    BY <1>7 DEF SetSafetyPre
  <2>2. s \in [pre: Nat, post: Nat]
    BY SafetyAssumption
  <2>3. safety' \in [pre: Nat, post: Nat] /\ request' \in [pre: Nat, post: Nat]
    BY <1>t, <2>1, <2>2 DEF TypeOK
  <2>4. TypeOK'
    BY <1>7, <1>t, <2>3 DEF SetSafetyPre, TypeOK
  <2> QED BY <1>7, <2>4 DEF SetSafetyPre, TInv, CursorOK, ClockOK
<1>8. CASE ShutdownCommand
  <2>1. TypeOK'
    BY <1>8, <1>t DEF ShutdownCommand, TypeOK
  <2> QED BY <1>8, <2>1 DEF ShutdownCommand, TInv, CursorOK, ClockOK
<1>9. CASE SetApids
  <2>1. TypeOK'
    BY <1>9, <1>t DEF SetApids, TypeOK
  <2> QED BY <1>9, <2>1 DEF SetApids, TInv, CursorOK, ClockOK
<1> QED BY <1>1, <1>2, <1>3, <1>4, <1>5, <1>6, <1>7, <1>8, <1>9 DEF Command

LEMMA TypeServer == TInv /\ Server /\ UNCHANGED bounds => TInv'
<1> SUFFICES ASSUME TInv, Server PROVE TInv'
  OBVIOUS
<1> USE DEF threadVars, writeVars, boxVars, history, TInv
<1>1. CASE SetSafetyPost
  <2>1. safety' \in [pre: Nat, post: Nat]
    <3>1. request.post \in Nat /\ safety \in [pre: Nat, post: Nat]
      BY DEF TypeOK
    <3> QED BY <1>1, <3>1 DEF SetSafetyPost
  <2>2. TypeOK'
    BY <1>1, <2>1 DEF SetSafetyPost, TypeOK
  <2> QED BY <1>1, <2>2 DEF SetSafetyPost, CursorOK, ClockOK
<1>2. CASE SetSafetyFlag
  <2>1. NoSafety \in [pre: Nat, post: Nat]
    BY SafetyAssumption
  <2>2. TypeOK'
    BY <1>2, <2>1 DEF SetSafetyFlag, TypeOK
  <2> QED BY <1>2, <2>2 DEF SetSafetyFlag, CursorOK, ClockOK
<1>3. CASE ThreadCancelled
  <2>1. 0 \in 0 .. MaxTimers
    BY BoundsAssumption
  <2>2. TypeOK'
    BY <1>3, <2>1, EmptyType DEF ThreadCancelled, TypeOK
  <2> QED BY <1>3, <2>2 DEF ThreadCancelled, CursorOK, ClockOK, TypeOK
<1>4. CASE ShutdownSave
  <2>1. [present |-> TRUE, events |-> events, safety |-> safety] \in Config
    BY DEF TypeOK, Config
  <2>2. TypeOK'
    BY <1>4, <2>1 DEF ShutdownSave, StartSave, TypeOK
  <2> QED BY <1>4, <2>2 DEF ShutdownSave, StartSave, CursorOK, ClockOK
<1>5. CASE ModifyTimer
  <2>1. /\ events' \in Events
        /\ \A j \in Ids : events[j] # NoTimer => events'[j] # NoTimer
        /\ saveFlag' \in BOOLEAN /\ recording' \in SUBSET Ids
    <3>1. CASE UNCHANGED <<events, saveFlag, recording>>
      BY <3>1 DEF TypeOK
    <3>2. CASE saveFlag' = TRUE /\ \E i \in Live(events), t \in NewTimers :
                 /\ events' = [events EXCEPT ![i] = Modified(events[i], t)]
                 /\ recording' = IF t.stop > 0 THEN recording ELSE recording \ {i}
      <4>1. PICK i \in Live(events), t \in NewTimers :
              /\ events' = [events EXCEPT ![i] = Modified(events[i], t)]
              /\ recording' = IF t.stop > 0 THEN recording ELSE recording \ {i}
        BY <3>2
      <4>2. events[i] \in Event /\ t \in TimerSpec
        BY LiveType, InputAssumption DEF TypeOK
      <4>3. Modified(events[i], t) \in Event
        BY <4>2, ModifiedType
      <4> QED BY <3>2, <4>1, <4>3, ReplaceType DEF TypeOK
    <3> QED BY <1>5, <3>1, <3>2 DEF ModifyTimer
  <2>2. TypeOK'
    BY <1>5, <2>1 DEF ModifyTimer, TypeOK
  <2> QED BY <1>5, <2>1, <2>2 DEF ModifyTimer, CursorOK, ClockOK, TypeOK, Ids
<1> QED BY <1>1, <1>2, <1>3, <1>4, <1>5 DEF Server

LEMMA TypeRestart == TInv /\ Restart => TInv'
<1> SUFFICES ASSUME TInv, Restart PROVE TInv'
  OBVIOUS
<1>1. safety' \in [pre: Nat, post: Nat] /\ NoSafety \in [pre: Nat, post: Nat]
  BY SafetyAssumption DEF Restart, TInv, TypeOK, Config
<1>2. 0 \in 0 .. MaxTimers
  BY BoundsAssumption
<1>3. TypeOK'
  BY <1>1, <1>2, EmptyType DEF Restart, TInv, TypeOK
<1> QED BY <1>3 DEF Restart, TInv, CursorOK, ClockOK, TypeOK

LEMMA TypeBox == TInv /\ Box => TInv'
<1> SUFFICES ASSUME TInv, Box PROVE TInv'
  OBVIOUS
<1> USE DEF threadVars, writeVars, history, TInv
<1>1. CASE SetTime
  <2>1. TypeOK'
    BY <1>1 DEF SetTime, TypeOK
  <2> QED BY <1>1, <2>1 DEF SetTime, CursorOK, ClockOK
<1>2. CASE Tick
  <2>1. TypeOK'
    BY <1>2 DEF Tick, TypeOK
  <2> QED BY <1>2, <2>1 DEF Tick, CursorOK, ClockOK, TypeOK
<1> QED BY <1>1, <1>2 DEF Box

LEMMA TypeStep == TInv /\ [Next]_vars => TInv'
<1> SUFFICES ASSUME TInv, [Next]_vars PROVE TInv'
  OBVIOUS
<1>1. CASE Step /\ UNCHANGED bounds
  BY <1>1, TypeTimerThread, TypeWrite, TypeServer, TypeBox DEF Step
<1>2. CASE Command
  BY <1>2, TypeCommand
<1>3. CASE PowerOff \/ PowerCut
  BY <1>3, TypeRestart DEF PowerOff, PowerCut
<1>4. CASE UNCHANGED vars
  BY <1>4 DEF vars, threadVars, writeVars, boxVars, history, TInv, TypeOK, CursorOK, ClockOK
<1> QED BY <1>1, <1>2, <1>3, <1>4 DEF Next, Endless, Off

\* Every variable keeps to its type, whatever clients, sectionsd and the
\* power supply do: no stored timer, iterator or thread ever leaves its range.
THEOREM TypeCorrect == Spec => []TypeOK
<1>1. Spec => []TInv
  BY TypeInit, TypeStep, PTL DEF Spec
<1> QED BY <1>1, PTL DEF TInv

---------------------------------------------------------------------------
(* What holds whatever clients and the power supply do: a pass comes to its
   end unless a timer has a repeat value that nothing knows, a quiet file is
   a current file, and a pass leaves nothing due behind it. *)

Repeatable(e) == e.repeat \in Periodic \cup {"ONCE", "UNKNOWN"}

\* The visit that never ends: what the map is left with.
LEMMA EndlessEffect ==
    ASSUME TInv, VisitEndless
    PROVE  LET e == events[cursor]
               b == BeforeFinish(e, passNow)
           IN  /\ cursor \in Live(events) /\ cursor \in Ids
               /\ e \in Event /\ b \in Event /\ b.uid = e.uid /\ b.repeat = e.repeat
               /\ passNow \in Int /\ now \in Int
               /\ events' = [events EXCEPT ![cursor] = b]
               /\ pc = "pass" /\ pc' = "loop"
               /\ UNCHANGED <<lastId, lastUid, locked, cursor, passNow, source, loaded, srv,
                              phase, snap, disk, durable, removed>>
<1> DEFINE e == events[cursor]
           b == BeforeFinish(e, passNow)
<1>1. cursor \in Live(events) /\ cursor \in Ids
  BY DEF VisitEndless, TInv, CursorOK, TypeOK, Live, Ids
<1>2. e \in Event /\ passNow \in Int /\ now \in Int
  BY <1>1, LiveType DEF TInv, TypeOK
<1>3. b \in Event /\ b = [e EXCEPT !.state = b.state, !.fired = b.fired]
  <2> HIDE DEF e
  <2> QED BY <1>2, BeforeFinishProperty
<1>4. b.uid = e.uid /\ b.repeat = e.repeat
  <2> HIDE DEF e, b
  <2> QED BY <1>2, <1>3 DEF Event
<1>5. /\ events' = [events EXCEPT ![cursor] = b]
      /\ pc = "pass" /\ pc' = "loop"
      /\ UNCHANGED <<lastId, lastUid, locked, cursor, passNow, source, loaded, srv,
                     phase, snap, disk, durable, removed>>
  BY DEF VisitEndless, writeVars
<1> QED BY <1>1, <1>2, <1>3, <1>4, <1>5

LEMMA ReducedUpdate ==
    ASSUME NEW E \in Events, Reduced(E), NEW i \in Ids, NEW v,
           v = NoTimer \/ Repeatable(v)
    PROVE  Reduced([E EXCEPT ![i] = v])
BY DEF Reduced, Live, Events, Repeatable

LEMMA ReducedEmpty == Reduced(Empty)
BY DEF Reduced, Live, Empty

\* addEvent and modifyEvent normalise what clients ask for.
LEMMA NormalisedRepeatable ==
    ASSUME NEW r \in Repeats
    PROVE  Normalised(r) \in Periodic \cup {"ONCE", "UNKNOWN"}
BY DEF Normalised, Repeats

LEMMA PassedRepeat ==
    ASSUME NEW e \in Event, NEW n \in Int, NEW t \in Int
    PROVE  Passed(e, n, t).repeat = e.repeat
<1> DEFINE b == BeforeFinish(e, n)
<1>1. b \in Event /\ b.repeat = e.repeat
  <2>1. b = [e EXCEPT !.state = b.state, !.fired = b.fired] /\ b \in Event
    BY BeforeFinishProperty
  <2> HIDE DEF b
  <2> QED BY <2>1 DEF Event
<1>2. Finished(b, t).repeat = b.repeat
  <2> HIDE DEF b
  <2> QED BY <1>1 DEF Finished, Reschedule, Event
<1> QED BY <1>1, <1>2 DEF Passed

LEMMA ReducedInit == Init => AllReduced
<1>1. ASSUME Init PROVE Reduced(disk.events) /\ Reduced(snap.events)
  BY <1>1, ReducedEmpty DEF Init, NoConfig, Truncated
<1> QED BY <1>1, ReducedEmpty DEF Init, AllReduced

LEMMA ReducedTimerThread ==
    TInv /\ AllReduced /\ TimerThread => AllReduced'
<1> SUFFICES ASSUME TInv, AllReduced, TimerThread PROVE AllReduced'
  OBVIOUS
<1> USE DEF threadVars, writeVars, AllReduced
<1>1. CASE BeginLoad
  BY <1>1 DEF BeginLoad
<1>2. CASE LoadTimer
  <2>1. CASE TooOld(source[cursor], now)
    BY <1>2, <2>1 DEF LoadTimer
  <2>2. CASE ~TooOld(source[cursor], now)
    <3> DEFINE e == source[cursor]
    <3>1. cursor \in Live(source)
      BY <1>2 DEF LoadTimer, TInv, CursorOK, TypeOK, Live, Ids
    <3>2. e \in Event /\ Repeatable(e)
      BY <3>1, LiveType DEF TInv, TypeOK, Reduced, Repeatable
    <3>3. Repeatable(Loaded(e, now))
      <4> HIDE DEF e
      <4> QED BY <3>2, NormalisedRepeatable, PeriodicAssumption
              DEF Loaded, Repeatable, Event, Normalised
    <3>4. lastId + 1 \in Ids /\ events' = [events EXCEPT ![lastId + 1] = Loaded(e, now)]
      BY <1>2, <2>2, BoundsAssumption DEF LoadTimer, TInv, TypeOK, Ids
    <3>5. Reduced(events')
      BY <3>3, <3>4, ReducedUpdate DEF TInv, TypeOK
    <3> QED BY <1>2, <3>5 DEF LoadTimer
  <2> QED BY <2>1, <2>2
<1>3. CASE BeginPass
  BY <1>3 DEF BeginPass
<1>4. CASE Visit
  <2> DEFINE e == events[cursor]
             p == Passed(e, passNow, now)
  <2>1. cursor \in Live(events) /\ cursor \in Ids
    BY <1>4 DEF Visit, TInv, CursorOK, TypeOK, Live, Ids
  <2>2. e \in Event /\ Repeatable(e)
    BY <2>1, LiveType DEF TInv, TypeOK, Reduced, Repeatable
  <2>3. Repeatable(p)
    <3>1. passNow \in Int /\ now \in Int
      BY DEF TInv, TypeOK
    <3> HIDE DEF e
    <3> QED BY <2>2, <3>1, PassedRepeat DEF Repeatable
  <2>4. \/ events' = [events EXCEPT ![cursor] = NoTimer]
        \/ events' = [events EXCEPT ![cursor] = p]
    BY <1>4 DEF Visit
  <2>5. Reduced(events')
    BY <2>1, <2>3, <2>4, ReducedUpdate DEF TInv, TypeOK
  <2> QED BY <1>4, <2>5 DEF Visit
<1>5. CASE EndPass
  BY <1>5 DEF EndPass
<1>6. CASE SaveOrSleep
  <2>1. snap'.events = events \/ snap' = snap
    BY <1>6 DEF SaveOrSleep, StartSave
  <2> QED BY <1>6, <2>1 DEF SaveOrSleep, StartSave
<1>7. CASE VisitEndless
  <2> DEFINE b == BeforeFinish(events[cursor], passNow)
  <2>1. /\ cursor \in Live(events) /\ cursor \in Ids /\ b.repeat = events[cursor].repeat
        /\ events' = [events EXCEPT ![cursor] = b] /\ UNCHANGED <<source, snap, disk>>
    BY <1>7, EndlessEffect
  <2>2. Repeatable(b)
    BY <2>1 DEF Reduced, Repeatable
  <2> HIDE DEF b
  <2>3. Reduced(events')
    BY <2>1, <2>2, ReducedUpdate DEF TInv, TypeOK
  <2> QED BY <2>1, <2>3
<1> QED BY <1>1, <1>2, <1>3, <1>4, <1>5, <1>6, <1>7 DEF TimerThread

LEMMA ReducedWrite == TInv /\ AllReduced /\ Write => AllReduced'
<1> SUFFICES ASSUME TInv, AllReduced, Write PROVE AllReduced'
  OBVIOUS
<1> USE DEF threadVars, AllReduced
<1>1. CASE OpenFile
  BY <1>1, ReducedEmpty DEF OpenFile, Truncated
<1>2. CASE WriteHead
  <2> DEFINE E == [i \in Ids |-> Cut(snap.events[i])]
  <2>1. ASSUME NEW i \in Live(E) PROVE Repeatable(E[i])
    <3>1. i \in Ids /\ E[i] = Cut(snap.events[i])
      BY DEF Live
    <3>2. i \in Live(snap.events)
      BY <3>1 DEF Live, Cut
    <3>3. snap.events[i] \in Event /\ Repeatable(snap.events[i]) /\ snap.events[i] # NoTimer
      BY <3>2, LiveType, NoTimerAssumption DEF TInv, TypeOK, Config, Reduced, Repeatable
    <3> QED BY <3>1, <3>3 DEF Cut, Event, Repeatable
  <2>2. disk'.events = E
    BY <1>2 DEF WriteHead, TInv, TypeOK, Config
  <2> HIDE DEF E
  <2>3. Reduced(disk'.events)
    BY <2>1, <2>2 DEF Reduced, Repeatable
  <2> QED BY <1>2, <2>3 DEF WriteHead
<1>3. CASE WriteTail
  BY <1>3 DEF WriteTail
<1>4. CASE ClearFlag
  BY <1>4, ReducedEmpty DEF ClearFlag, NoConfig
<1> QED BY <1>1, <1>2, <1>3, <1>4 DEF Write

LEMMA ReducedInsert ==
    ASSUME TInv, AllReduced, NEW e \in Event, Repeatable(e), Insert(e)
    PROVE  AllReduced'
<1>1. lastId + 1 \in Ids /\ events' = [events EXCEPT ![lastId + 1] = e]
  BY InsertType DEF Insert, TInv
<1>2. Reduced(events')
  BY <1>1, ReducedUpdate DEF TInv, TypeOK, AllReduced
<1> QED BY <1>2 DEF Insert, AllReduced, threadVars, writeVars

LEMMA ReducedReplace ==
    ASSUME TInv, AllReduced, NEW i \in Live(events), NEW e, Repeatable(e),
           events' = [events EXCEPT ![i] = e],
           UNCHANGED <<source, snap, disk>>
    PROVE  AllReduced'
<1>1. i \in Ids
  BY LiveType DEF TInv, TypeOK
<1>2. Reduced(events')
  BY <1>1, ReducedUpdate DEF TInv, TypeOK, AllReduced
<1> QED BY <1>2 DEF AllReduced

LEMMA ReducedCommand == TInv /\ AllReduced /\ Command => AllReduced'
<1> SUFFICES ASSUME TInv, AllReduced, Command PROVE AllReduced'
  OBVIOUS
<1> USE DEF threadVars, writeVars
<1>l. ASSUME NEW i \in Live(events) PROVE events[i] \in Event /\ Repeatable(events[i])
  BY <1>l, LiveType DEF TInv, TypeOK, AllReduced, Reduced, Repeatable
<1>n. ASSUME NEW t \in NewTimers
      PROVE  t \in TimerSpec /\ Normalised(t.repeat) \in Periodic \cup {"ONCE", "UNKNOWN"}
  <2>1. t \in TimerSpec /\ t.repeat \in Repeats
    BY <1>n, InputAssumption DEF TimerSpec
  <2> QED BY <2>1, NormalisedRepeatable
<1>t. "SCHEDULED" \in States /\ "ISRUNNING" \in States /\ lastUid \in Nat /\ now \in Nat
      /\ safety \in [pre: Nat, post: Nat]
  BY DEF States, TInv, TypeOK
<1>1. CASE AddTimer
  <2>1. PICK t \in NewTimers :
          \/ Insert(Timer(t, "SCHEDULED", 0))
          \/ Insert(Timer(WithSafety(t), "SCHEDULED", 0))
    BY <1>1 DEF AddTimer
  <2>2. t \in TimerSpec /\ WithSafety(t) \in TimerSpec /\ WithSafety(t).repeat = t.repeat
    BY <1>n, <1>t, SafetyType DEF WithSafety, TimerSpec
  <2>3. /\ Timer(t, "SCHEDULED", 0) \in Event
        /\ Timer(WithSafety(t), "SCHEDULED", 0) \in Event
    BY <1>t, <2>2, TimerType
  <2>4. /\ Repeatable(Timer(t, "SCHEDULED", 0))
        /\ Repeatable(Timer(WithSafety(t), "SCHEDULED", 0))
    BY <1>n, <2>2 DEF Timer, Repeatable
  <2> QED BY <2>1, <2>3, <2>4, ReducedInsert
<1>2. CASE AddImmediateRecord
  <2> DEFINE t == ByHand
  <2>1. Insert(Timer(t, "ISRUNNING", 1))
    BY <1>2 DEF AddImmediateRecord
  <2>2. t \in TimerSpec /\ t.repeat = "ONCE"
    BY <1>t, ImmediateType DEF ByHand
  <2> HIDE DEF t
  <2>3. Timer(t, "ISRUNNING", 1) \in Event
    BY <1>t, <2>2, TimerType
  <2>4. Repeatable(Timer(t, "ISRUNNING", 1))
    BY <2>2 DEF Timer, Repeatable, Normalised
  <2> QED BY <2>1, <2>3, <2>4, ReducedInsert
<1>3. CASE RemoveTimer
  <2>1. PICK i \in Live(events) :
          events' = [events EXCEPT ![i] = [events[i] EXCEPT !.state = "TERMINATED"]]
    BY <1>3 DEF RemoveTimer
  <2>2. Repeatable([events[i] EXCEPT !.state = "TERMINATED"])
    BY <1>l DEF Repeatable, Event
  <2> QED BY <1>3, <2>1, <2>2, ReducedReplace DEF RemoveTimer
<1>4. CASE StopTimer
  <2>1. PICK i \in Live(events) :
          events' = [events EXCEPT ![i] = [events[i] EXCEPT !.state = "HASFINISHED"]]
    BY <1>4 DEF StopTimer
  <2>2. Repeatable([events[i] EXCEPT !.state = "HASFINISHED"])
    BY <1>l DEF Repeatable, Event
  <2> QED BY <1>4, <2>1, <2>2, ReducedReplace DEF StopTimer
<1>5. CASE GetEventType
  BY <1>5 DEF GetEventType, AllReduced
<1>6. CASE RescheduleTimer
  <2>1. PICK i \in Live(events), d \in Diffs :
          events' = [events EXCEPT ![i] = Shifted(events[i], d)]
    BY <1>6 DEF RescheduleTimer
  <2>2. Repeatable(Shifted(events[i], d))
    BY <1>l DEF Shifted, Repeatable, Event
  <2> QED BY <1>6, <2>1, <2>2, ReducedReplace DEF RescheduleTimer
<1>7. CASE SetSafetyPre
  BY <1>7 DEF SetSafetyPre, AllReduced
<1>8. CASE ShutdownCommand
  BY <1>8 DEF ShutdownCommand, AllReduced
<1>9. CASE SetApids
  BY <1>9 DEF SetApids, AllReduced
<1> QED BY <1>1, <1>2, <1>3, <1>4, <1>5, <1>6, <1>7, <1>8, <1>9 DEF Command

LEMMA ReducedServer == TInv /\ AllReduced /\ Server => AllReduced'
<1> SUFFICES ASSUME TInv, AllReduced, Server PROVE AllReduced'
  OBVIOUS
<1> USE DEF threadVars, writeVars
<1>1. CASE SetSafetyPost
  BY <1>1 DEF SetSafetyPost, AllReduced
<1>2. CASE SetSafetyFlag
  BY <1>2 DEF SetSafetyFlag, AllReduced
<1>3. CASE ThreadCancelled
  BY <1>3, ReducedEmpty DEF ThreadCancelled, NoConfig, AllReduced
<1>4. CASE ShutdownSave
  BY <1>4 DEF ShutdownSave, StartSave, AllReduced
<1>5. CASE ModifyTimer
  <2>1. UNCHANGED <<source, snap, disk>>
    BY <1>5 DEF ModifyTimer
  <2>2. CASE UNCHANGED events
    BY <2>1, <2>2 DEF AllReduced
  <2>3. CASE ~UNCHANGED events
    <3>1. PICK i \in Live(events), t \in NewTimers :
            events' = [events EXCEPT ![i] = Modified(events[i], t)]
      BY <1>5, <2>3 DEF ModifyTimer
    <3>2. events[i] \in Event /\ t \in TimerSpec
      BY LiveType, InputAssumption DEF TInv, TypeOK
    <3>3. Normalised(t.repeat) \in Periodic \cup {"ONCE", "UNKNOWN"}
      BY <3>2, NormalisedRepeatable DEF TimerSpec
    <3>4. Repeatable(Modified(events[i], t))
      BY <3>2, <3>3 DEF Modified, Repeatable, Event
    <3> QED BY <2>1, <3>1, <3>4, ReducedReplace
  <2> QED BY <2>2, <2>3
<1> QED BY <1>1, <1>2, <1>3, <1>4, <1>5 DEF Server

LEMMA ReducedRestart == AllReduced /\ Restart => AllReduced'
BY ReducedEmpty DEF AllReduced, Restart, NoConfig

LEMMA ReducedBox == AllReduced /\ Box => AllReduced'
BY DEF AllReduced, Box, SetTime, Tick, threadVars, writeVars

LEMMA ReducedStep == TInv /\ AllReduced /\ [Next]_vars => AllReduced'
<1> SUFFICES ASSUME TInv, AllReduced, [Next]_vars PROVE AllReduced'
  OBVIOUS
<1>1. CASE Step
  BY <1>1, ReducedTimerThread, ReducedWrite, ReducedServer, ReducedBox DEF Step
<1>2. CASE Command
  BY <1>2, ReducedCommand
<1>3. CASE PowerOff \/ PowerCut
  BY <1>3, ReducedRestart DEF PowerOff, PowerCut
<1>4. CASE UNCHANGED vars
  BY <1>4 DEF vars, threadVars, writeVars, AllReduced
<1> QED BY <1>1, <1>2, <1>3, <1>4 DEF Next, Endless, Off

---------------------------------------------------------------------------
(* What tm_eventsMutex is for: while the timer thread writes the file or   *)
(* makes a pass, no command changes the timers under it.                   *)

LEMMA LockInit == Init => LockOK
BY DEF Init, LockOK, Writing

LEMMA LockStep == LockOK /\ [Next]_vars => LockOK'
<1> SUFFICES ASSUME LockOK, [Next]_vars PROVE LockOK'
  OBVIOUS
<1> USE DEF LockOK, Writing, threadVars, writeVars
<1>1. CASE TimerThread
  <2>1. CASE BeginLoad
    BY <2>1 DEF BeginLoad
  <2>2. CASE LoadTimer
    BY <2>2 DEF LoadTimer
  <2>3. CASE BeginPass
    BY <2>3 DEF BeginPass
  <2>4. CASE Visit \/ VisitEndless
    BY <2>4 DEF Visit, VisitEndless
  <2>5. CASE EndPass
    BY <2>5 DEF EndPass
  <2>6. CASE SaveOrSleep
    BY <2>6 DEF SaveOrSleep, StartSave
  <2> QED BY <1>1, <2>1, <2>2, <2>3, <2>4, <2>5, <2>6 DEF TimerThread
<1>2. CASE Write
  BY <1>2 DEF Write, OpenFile, WriteHead, WriteTail, ClearFlag
<1>3. CASE Command
  <2>1. /\ srv = "run" /\ srv' # "save"
        /\ UNCHANGED <<locked, pc, loaded, phase>>
    BY <1>3 DEF Command, AddTimer, AddImmediateRecord, Insert, RemoveTimer, StopTimer,
                GetEventType, RescheduleTimer, SetApids, SetSafetyPre, ShutdownCommand, CommandReady
  <2> QED BY <2>1
<1>4. CASE Server
  BY <1>4 DEF Server, ModifyTimer, SetSafetyPost, SetSafetyFlag, ThreadCancelled,
              ShutdownSave, StartSave
<1>5. CASE Box
  BY <1>5 DEF Box, SetTime, Tick
<1>6. CASE PowerOff \/ PowerCut
  BY <1>6 DEF PowerOff, PowerCut, Restart
<1>7. CASE UNCHANGED vars
  BY <1>7 DEF vars
<1> QED BY <1>1, <1>2, <1>3, <1>4, <1>5, <1>6, <1>7 DEF Next, Step, Endless, Off

\* A command that changes the timers finds nobody writing and nobody in a
\* pass; any other leaves them alone.
LEMMA CommandExcluded ==
    ASSUME LockOK, Command
    PROVE  \/ phase = "none" /\ pc \notin {"pass", "loop"}
           \/ UNCHANGED <<events, saveFlag>>
BY DEF LockOK, Command, AddTimer, AddImmediateRecord, Insert, RemoveTimer, StopTimer,
       GetEventType, RescheduleTimer, SetApids, SetSafetyPre, ShutdownCommand, CommandReady

\* What no command touches.
LEMMA CommandFrame ==
    Command => UNCHANGED <<pc, cursor, passNow, loaded, phase, snap, disk, clean>>
BY DEF Command, AddTimer, AddImmediateRecord, Insert, RemoveTimer, StopTimer,
       GetEventType, RescheduleTimer, SetApids, SetSafetyPre, ShutdownCommand,
       threadVars, writeVars, history

---------------------------------------------------------------------------
(* What the timer thread is caught by. *)

LEMMA CaughtInit == Init => CaughtOK
BY DEF Init, CaughtOK

\* The visit that begins it meets a timer that cannot be rescheduled, and
\* nothing ends it but a new start of the daemon; the mutex keeps commands
\* from the timer meanwhile.
LEMMA CaughtStep == TInv /\ LockOK /\ CaughtOK /\ [Next]_vars => CaughtOK'
<1> SUFFICES ASSUME TInv, LockOK, CaughtOK, [Next]_vars, pc' = "loop"
             PROVE  events'[cursor'].repeat \notin Periodic \cup {"ONCE"}
  BY DEF CaughtOK
<1> USE DEF threadVars
<1>q. ASSUME UNCHANGED <<events, cursor, pc>>
      PROVE  events'[cursor'].repeat \notin Periodic \cup {"ONCE"}
  BY <1>q DEF CaughtOK
<1>1. CASE VisitEndless
  <2> DEFINE b == BeforeFinish(events[cursor], passNow)
  <2>1. /\ cursor \in Ids /\ b \in Event /\ cursor' = cursor
        /\ events' = [events EXCEPT ![cursor] = b]
    BY <1>1, EndlessEffect
  <2>2. ~CanReschedule(b, now)
    BY <1>1 DEF VisitEndless, Caught
  <2>3. b.repeat \notin Periodic \cup {"ONCE"}
    BY <2>2 DEF CanReschedule
  <2> HIDE DEF b
  <2>4. events'[cursor'] = b
    BY <2>1 DEF TInv, TypeOK, Events
  <2> QED BY <2>3, <2>4
<1>2. CASE TimerThread /\ ~VisitEndless
  BY <1>2, <1>q DEF TimerThread, BeginLoad, LoadTimer, BeginPass, Visit, EndPass, SaveOrSleep
<1>3. CASE Write
  BY <1>3, <1>q DEF Write, OpenFile, WriteHead, WriteTail, ClearFlag
<1>4. CASE Command
  <2>1. UNCHANGED <<cursor, pc>>
    BY <1>4, CommandFrame
  <2>2. UNCHANGED events
    BY <1>4, <2>1, CommandExcluded
  <2> QED BY <2>1, <2>2, <1>q
<1>5. CASE Server
  <2>1. CASE ModifyTimer
    BY <2>1 DEF ModifyTimer, LockOK
  <2> QED BY <1>5, <2>1, <1>q DEF Server, SetSafetyPost, SetSafetyFlag, ThreadCancelled, ShutdownSave
<1>6. CASE Box
  BY <1>6, <1>q DEF Box, SetTime, Tick
<1>7. CASE PowerOff \/ PowerCut
  BY <1>7 DEF PowerOff, PowerCut, Restart
<1>8. CASE UNCHANGED vars
  BY <1>8, <1>q DEF vars
<1> QED BY <1>1, <1>2, <1>3, <1>4, <1>5, <1>6, <1>7, <1>8 DEF Next, Step, Endless, Off

\* The timer thread is caught in the calendar loop, and with it the whole
\* daemon, whose mutex the thread holds, only by a timer whose client asked
\* for a repeat value nothing knows: not by one a client created or changed to
\* "weekdays, none chosen", nor by one read back from a torn file.
THEOREM OnlyUnknownCatches == Spec => []OnlyUnknownIsEndless
<1> DEFINE IInv == TInv /\ LockOK /\ AllReduced /\ CaughtOK
<1>1. Init => IInv
  BY TypeInit, LockInit, ReducedInit, CaughtInit
<1>2. IInv /\ [Next]_vars => IInv'
  BY TypeStep, LockStep, ReducedStep, CaughtStep
<1>3. IInv => OnlyUnknownIsEndless
  <2> SUFFICES ASSUME IInv, pc = "loop" PROVE events[cursor].repeat = "UNKNOWN"
    BY DEF OnlyUnknownIsEndless
  <2>1. cursor \in Live(events)
    BY DEF TInv, CursorOK, TypeOK, Live, Ids
  <2> QED BY <2>1 DEF AllReduced, Reduced, CaughtOK
<1> QED BY <1>1, <1>2, <1>3, PTL DEF Spec

---------------------------------------------------------------------------
LEMMA SnapInit == Init => SnapCurrent
BY DEF Init, SnapCurrent

\* The map stays as it was collected until the file is complete.
LEMMA SnapStep == TypeOK /\ LockOK /\ SnapCurrent /\ [Next]_vars => SnapCurrent'
<1> SUFFICES ASSUME TypeOK, LockOK, SnapCurrent, [Next]_vars PROVE SnapCurrent'
  OBVIOUS
<1> USE DEF SnapCurrent, threadVars, writeVars
<1>1. CASE TimerThread
  <2>1. pc # "save" /\ srv # "save" => phase = "none"
    BY DEF LockOK, Writing
  <2>2. CASE BeginLoad
    BY <2>2 DEF BeginLoad
  <2>3. CASE LoadTimer
    BY <2>1, <2>3 DEF LoadTimer, LockOK
  <2>4. CASE BeginPass
    BY <2>4 DEF BeginPass
  <2>5. CASE Visit \/ VisitEndless
    BY <2>1, <2>5 DEF Visit, VisitEndless, LockOK
  <2>6. CASE EndPass
    BY <2>6 DEF EndPass
  <2>7. CASE SaveOrSleep
    BY <2>7 DEF SaveOrSleep, StartSave
  <2> QED BY <1>1, <2>2, <2>3, <2>4, <2>5, <2>6, <2>7 DEF TimerThread
<1>2. CASE Write
  <2>1. CASE OpenFile
    BY <2>1 DEF OpenFile, TypeOK, Config
  <2>2. CASE WriteHead \/ WriteTail \/ ClearFlag
    BY <2>2 DEF WriteHead, WriteTail, ClearFlag
  <2> QED BY <1>2, <2>1, <2>2 DEF Write
<1>3. CASE Command
  BY <1>3, CommandExcluded, CommandFrame
<1>4. CASE Server
  BY <1>4 DEF Server, ModifyTimer, LockOK, SetSafetyPost, SetSafetyFlag, ThreadCancelled,
              ShutdownSave, StartSave
<1>5. CASE Box
  BY <1>5 DEF Box, SetTime, Tick
<1>6. CASE PowerOff \/ PowerCut
  BY <1>6 DEF PowerOff, PowerCut, Restart
<1>7. CASE UNCHANGED vars
  BY <1>7 DEF vars
<1> QED BY <1>1, <1>2, <1>3, <1>4, <1>5, <1>6, <1>7 DEF Next, Step, Endless, Off

---------------------------------------------------------------------------
\* Marking a timer as removed or stopped keeps it matched to its saved copy.
LEMMA MarkedMatches ==
    ASSUME NEW m \in Event, NEW d \in Event \cup {NoTimer}, Matches(m, d),
           NEW s \in {"HASFINISHED", "TERMINATED"}
    PROVE  Matches([m EXCEPT !.state = s], d)
<1>1. d \in Event /\ d # NoTimer
  BY NoTimerAssumption DEF Matches
<1> DEFINE v == [m EXCEPT !.state = s]
<1>2. v \in Event /\ v.state = s
  BY DEF Event, States
<1>3. v = [d EXCEPT !.state = s]
  BY <1>1 DEF Matches, Event
<1>4. v # NoTimer
  BY <1>2, NoTimerAssumption
<1> HIDE DEF v
<1>5. Matches(v, d)
  BY <1>1, <1>2, <1>3, <1>4 DEF Matches
<1> QED BY <1>5 DEF v

LEMMA DiskInit == Init => DiskCurrent
BY DEF Init, DiskCurrent

\* A visit that asks for no save leaves the map as it was.
LEMMA QuietVisit ==
    ASSUME TInv, Visit, ~saveFlag'
    PROVE  events' = events
<1>1. cursor \in Live(events) /\ events[cursor] \in Event
  <2>1. cursor \in Live(events)
    BY DEF Visit, TInv, CursorOK, TypeOK, Live, Ids
  <2> QED BY <2>1, LiveType DEF TInv, TypeOK
<1> DEFINE e == events[cursor]
           p == Passed(e, passNow, now)
<1>2. ~Touched(e, passNow)
  BY DEF Visit
<1>3. p = e /\ e.state # "TERMINATED"
  <2>1. passNow \in Int /\ now \in Int
    BY DEF TInv, TypeOK
  <2> HIDE DEF e
  <2> QED BY <1>1, <1>2, <2>1, UntouchedProperty DEF e
<1>4. events' = [events EXCEPT ![cursor] = p]
  BY <1>3 DEF Visit
<1> QED BY <1>3, <1>4, <1>1 DEF TInv, TypeOK, Events

LEMMA QuietEndless ==
    ASSUME TInv, VisitEndless, ~saveFlag'
    PROVE  events' = events
<1> DEFINE e == events[cursor]
<1>1. /\ cursor \in Ids
      /\ events' = [events EXCEPT ![cursor] = BeforeFinish(e, passNow)]
  BY EndlessEffect
<1>2. ~TouchedBefore(e, passNow)
  BY DEF VisitEndless
<1>3. BeforeFinish(e, passNow) = e
  <2> HIDE DEF e
  <2>1. Announced(e, passNow) = e
    BY <1>2 DEF TouchedBefore, Announced
  <2>2. Fired(e, passNow) = e
    BY <1>2, <2>1 DEF TouchedBefore, Fires, Fired
  <2>3. Stopped(e, passNow) = e
    BY <1>2, <2>1, <2>2 DEF TouchedBefore, Stops, Stopped
  <2> QED BY <2>1, <2>2, <2>3 DEF BeforeFinish
<1> QED BY <1>1, <1>3 DEF TInv, TypeOK, Events

LEMMA DiskStep ==
    TInv /\ LockOK /\ SnapCurrent /\ DiskCurrent /\ [Next]_vars => DiskCurrent'
<1> SUFFICES ASSUME TInv, LockOK, SnapCurrent, DiskCurrent, [Next]_vars,
                    loaded', ~saveFlag', phase' = "none"
             PROVE  \A i \in Ids : Matches(events[i], disk.events[i])'
  BY DEF DiskCurrent
<1> USE DEF threadVars, writeVars
<1>q. UNCHANGED <<events, disk>> /\ loaded /\ ~saveFlag /\ phase = "none"
         => \A i \in Ids : Matches(events[i], disk.events[i])'
  BY DEF DiskCurrent
<1>1. CASE TimerThread
  <2>1. CASE BeginLoad
    BY <2>1 DEF BeginLoad, LockOK
  <2>2. CASE LoadTimer
    BY <2>2 DEF LoadTimer, LockOK
  <2>3. CASE BeginPass
    BY <2>3, <1>q DEF BeginPass
  <2>4. CASE Visit
    BY <2>4, <1>q, QuietVisit DEF Visit
  <2>7. CASE VisitEndless
    BY <2>7, <1>q, QuietEndless DEF VisitEndless
  <2>5. CASE EndPass
    BY <2>5, <1>q DEF EndPass
  <2>6. CASE SaveOrSleep
    BY <2>6, <1>q DEF SaveOrSleep, StartSave
  <2> QED BY <1>1, <2>1, <2>2, <2>3, <2>4, <2>5, <2>6, <2>7 DEF TimerThread
<1>2. CASE Write
  <2>1. CASE ClearFlag
    BY <2>1 DEF ClearFlag, SnapCurrent, Matches
  <2> QED BY <1>2, <2>1 DEF Write, OpenFile, WriteHead, WriteTail
<1>3. CASE Command
  <2>1. phase = "none" /\ loaded /\ UNCHANGED disk
    BY <1>3, CommandFrame
  <2>2. CASE RemoveTimer \/ StopTimer
    <3>1. PICK i \in Live(events), s \in {"HASFINISHED", "TERMINATED"} :
            events' = [events EXCEPT ![i] = [events[i] EXCEPT !.state = s]]
      BY <2>2 DEF RemoveTimer, StopTimer
    <3>2. ~saveFlag
      BY <2>2 DEF RemoveTimer, StopTimer
    <3>3. events[i] \in Event /\ i \in Ids /\ disk.events[i] \in Event \cup {NoTimer}
      BY LiveType DEF TInv, TypeOK, Config, Events
    <3>4. Matches([events[i] EXCEPT !.state = s], disk.events[i])
      BY <2>1, <3>2, <3>3, MarkedMatches DEF DiskCurrent
    <3> QED BY <2>1, <3>1, <3>2, <3>3, <3>4 DEF DiskCurrent, TInv, TypeOK, Events
  <2>3. CASE GetEventType \/ SetSafetyPre \/ ShutdownCommand
    BY <2>1, <2>3, <1>q DEF GetEventType, SetSafetyPre, ShutdownCommand
  <2> QED BY <1>3, <2>2, <2>3 DEF Command, AddTimer, AddImmediateRecord, Insert,
             RescheduleTimer, SetApids
<1>4. CASE Server
  <2>1. CASE ThreadCancelled
    BY <2>1, <1>q DEF ThreadCancelled, Cancellable, LockOK, Writing
  <2>2. CASE SetSafetyPost
    BY <2>2, <1>q DEF SetSafetyPost
  <2>3. CASE SetSafetyFlag \/ ShutdownSave
    BY <2>3, <1>q DEF SetSafetyFlag, ShutdownSave, StartSave
  <2>4. CASE ModifyTimer
    BY <2>4, <1>q DEF ModifyTimer
  <2> QED BY <1>4, <2>1, <2>2, <2>3, <2>4 DEF Server
<1>5. CASE Box
  <2>1. CASE SetTime
    BY <2>1, <1>q DEF SetTime
  <2>2. CASE Tick
    BY <2>2, <1>q DEF Tick
  <2> QED BY <1>5, <2>1, <2>2 DEF Box
<1>6. CASE PowerOff \/ PowerCut
  BY <1>6 DEF PowerOff, PowerCut, Restart
<1>7. CASE UNCHANGED vars
  BY <1>7, <1>q DEF vars
<1> QED BY <1>1, <1>2, <1>3, <1>4, <1>5, <1>6, <1>7 DEF Next, Step, Endless, Off

\* When no save is pending and none is going on, timerd.conf holds every
\* timer as memory does, up to the marks the next pass acts on: no command is
\* lost between the daemon's memory and the file, whatever order commands,
\* passes, saves, power failures and restarts come in.
THEOREM FileIsCurrent == Spec => []DiskCurrent
<1>1. Init => TInv /\ LockOK /\ SnapCurrent /\ DiskCurrent
  BY TypeInit, LockInit, SnapInit, DiskInit
<1>2. TInv /\ LockOK /\ SnapCurrent /\ DiskCurrent /\ [Next]_vars
        => (TInv /\ LockOK /\ SnapCurrent /\ DiskCurrent)'
  BY TypeStep, LockStep, SnapStep, DiskStep DEF TInv
<1> QED BY <1>1, <1>2, PTL DEF Spec

---------------------------------------------------------------------------
LEMMA PassInit == Init => PassComplete
BY DEF Init, PassComplete

LEMMA PassVisit ==
    ASSUME TInv, PassComplete, Visit
    PROVE  PassComplete'
<1> DEFINE e == events[cursor]
           p == Passed(e, passNow, now)
<1>1. cursor \in Live(events) /\ cursor \in Ids /\ e \in Event
  <2>1. cursor \in Live(events)
    BY DEF Visit, TInv, CursorOK, TypeOK, Live, Ids
  <2> QED BY <2>1, LiveType DEF TInv, TypeOK
<1> SUFFICES ASSUME clean', NEW i \in Live(events)', cursor' = 0 \/ i < cursor'
             PROVE  ~AlarmDue(events'[i], passNow) /\ ~StopDue(events'[i], passNow)
  BY DEF PassComplete, Visit
<1>2. /\ p.state # "TERMINATED"
      /\ events' = [events EXCEPT ![cursor] = p]
      /\ IsFirst(cursor', After(events, cursor))
      /\ clean /\ pc = "pass"
  BY DEF Visit
<1>3. /\ p \in Event
      /\ ~AlarmDue(p, passNow) /\ ~StopDue(p, passNow)
  <2>1. passNow \in Int /\ now \in Int /\ passNow <= now
    BY DEF TInv, TypeOK, ClockOK
  <2>2. LET b == BeforeFinish(e, passNow)
        IN  b.state = "HASFINISHED" /\ b.count # 1 => CanReschedule(b, now)
    BY DEF Visit, Caught
  <2> HIDE DEF e
  <2> QED BY <1>1, <1>2, <2>1, <2>2, PassedProperty
<1>4. i \in Ids /\ i \in Live(events)
  BY <1>1, <1>2, <1>3, NoTimerAssumption DEF Live, TInv, TypeOK, Events
<1>5. CASE i = cursor
  BY <1>1, <1>2, <1>3, <1>5 DEF TInv, TypeOK, Events
<1>6. CASE i < cursor
  <2>1. events'[i] = events[i]
    BY <1>1, <1>2, <1>4, <1>6 DEF TInv, TypeOK, Events, Ids
  <2> QED BY <1>2, <1>4, <1>6, <2>1 DEF PassComplete
<1>7. CASE i > cursor
  <2>1. i \in After(events, cursor)
    BY <1>4, <1>7 DEF After
  <2>2. cursor' \in After(events, cursor) /\ cursor' <= i
    BY <1>2, <2>1 DEF IsFirst
  <2>3. cursor' \in Ids
    BY <2>2 DEF After, Live
  <2> QED BY <1>4, <2>2, <2>3, BoundsAssumption DEF Ids
<1> QED BY <1>1, <1>4, <1>5, <1>6, <1>7, BoundsAssumption DEF Ids

LEMMA PassStep == TInv /\ LockOK /\ PassComplete /\ [Next]_vars => PassComplete'
<1> SUFFICES ASSUME TInv, LockOK, PassComplete, [Next]_vars PROVE PassComplete'
  OBVIOUS
<1> USE DEF threadVars, writeVars, history
<1>q. ASSUME UNCHANGED <<events, cursor, pc, passNow, clean>> PROVE PassComplete'
  BY <1>q DEF PassComplete, Live
<1>1. CASE TimerThread
  <2>1. CASE BeginPass
    <3>1. UNCHANGED events /\ IsFirst(cursor', Live(events))
      BY <2>1 DEF BeginPass
    <3>2. ASSUME NEW i \in Live(events), cursor' = 0 \/ i < cursor' PROVE FALSE
      <4>1. cursor' \in Live(events) /\ cursor' <= i
        BY <3>1 DEF IsFirst
      <4> QED BY <4>1, <3>2, BoundsAssumption DEF Live, Ids
    <3> QED BY <3>1, <3>2 DEF PassComplete, Live
  <2>2. CASE Visit
    BY <2>2, PassVisit
  <2>3. pc' # "pass" => PassComplete'
    BY DEF PassComplete
  <2> QED BY <1>1, <2>1, <2>2, <2>3
          DEF TimerThread, BeginLoad, LoadTimer, VisitEndless, EndPass, SaveOrSleep
<1>2. CASE Write
  <2>1. CASE ClearFlag
    <3>1. pc # "pass"
      BY <2>1 DEF ClearFlag, Writing, LockOK
    <3> QED BY <2>1, <3>1 DEF ClearFlag, PassComplete
  <2> QED BY <1>2, <2>1, <1>q DEF Write, OpenFile, WriteHead, WriteTail
<1>3. CASE Command
  <2>1. CASE UNCHANGED events
    BY <1>3, <2>1, <1>q, CommandFrame
  <2>2. CASE pc \notin {"pass", "loop"}
    BY <1>3, <2>2, CommandFrame DEF PassComplete
  <2> QED BY <1>3, <2>1, <2>2, CommandExcluded
<1>4. CASE Server
  <2>1. CASE ThreadCancelled
    BY <2>1 DEF ThreadCancelled, PassComplete
  <2>2. CASE ModifyTimer
    BY <2>2 DEF ModifyTimer, PassComplete, LockOK
  <2> QED BY <1>4, <2>1, <2>2, <1>q DEF Server, SetSafetyPost, SetSafetyFlag, ShutdownSave
<1>5. CASE Box
  BY <1>5, <1>q DEF Box, SetTime, Tick
<1>6. CASE PowerOff \/ PowerCut
  BY <1>6 DEF PowerOff, PowerCut, Restart, PassComplete
<1>7. CASE UNCHANGED vars
  BY <1>7, <1>q DEF vars
<1> QED BY <1>1, <1>2, <1>3, <1>4, <1>5, <1>6, <1>7 DEF Next, Step, Endless, Off

\* As far as a pass has come without deleting a timer, it leaves no timer
\* behind whose alarm or stop is due: no command re-arms one in the middle of
\* the pass, and the calendar step always carries a repeating timer beyond
\* the time of the pass.
THEOREM NothingDueBehind == Spec => []PassComplete
<1>1. Init => TInv /\ LockOK /\ PassComplete
  BY TypeInit, LockInit, PassInit
<1>2. TInv /\ LockOK /\ PassComplete /\ [Next]_vars => (TInv /\ LockOK /\ PassComplete)'
  BY TypeStep, LockStep, PassStep
<1> QED BY <1>1, <1>2, PTL DEF Spec

---------------------------------------------------------------------------
(***************************************************************************)
(* What becomes of timers.  In a box that is shut down after its timers    *)
(* were loaded and keeps its power while it writes timerd.conf none is     *)
(* lost (the findings show what happens otherwise).  In any box none is    *)
(* doubled.                                                                *)
(***************************************************************************)

Orderly == ~EarlyShutdown /\ ~CutWrites

---------------------------------------------------------------------------
(* Identifiers and shutdown. *)

LEMMA FreshInit == Init => FreshOK
BY DEF Init, FreshOK, Live, Empty

\* Timers are only ever created under the next identifier.
LEMMA FreshUpdate ==
    ASSUME TInv, FreshOK, NEW i \in Ids, NEW v, i <= lastId \/ v = NoTimer,
           events' = [events EXCEPT ![i] = v], lastId' = lastId
    PROVE  FreshOK'
BY DEF TInv, TypeOK, FreshOK, Live, Events, Ids

LEMMA FreshNext ==
    ASSUME TInv, FreshOK, NEW v, lastId < MaxTimers, lastId' = lastId + 1,
           events' = [events EXCEPT ![lastId + 1] = v]
    PROVE  FreshOK'
BY BoundsAssumption DEF TInv, TypeOK, FreshOK, Live, Events, Ids

LEMMA FreshStep == TInv /\ FreshOK /\ [Next]_vars => FreshOK'
<1> SUFFICES ASSUME TInv, FreshOK, [Next]_vars PROVE FreshOK'
  OBVIOUS
<1>q. ASSUME UNCHANGED <<events, lastId>> PROVE FreshOK'
  BY <1>q DEF FreshOK, Live
<1>l. ASSUME NEW i \in Live(events) PROVE i \in Ids /\ i <= lastId
  BY <1>l DEF FreshOK, Live, TInv, TypeOK, Ids
<1>1. CASE TimerThread
  <2>1. CASE LoadTimer
    BY <2>1, <1>q, FreshNext DEF LoadTimer
  <2>2. CASE Visit
    <3>1. cursor \in Live(events)
      BY <2>2 DEF Visit, TInv, CursorOK, TypeOK, Live, Ids
    <3> QED BY <2>2, <3>1, <1>l, FreshUpdate DEF Visit
  <2>3. CASE VisitEndless
    BY <2>3, <1>l, EndlessEffect, FreshUpdate
  <2> QED BY <1>1, <2>1, <2>2, <2>3, <1>q DEF TimerThread, BeginLoad, BeginPass, EndPass, SaveOrSleep
<1>2. CASE Write
  BY <1>2, <1>q DEF Write, OpenFile, WriteHead, WriteTail, ClearFlag
<1>3. CASE Command
  <2>1. CASE AddTimer \/ AddImmediateRecord
    BY <2>1, FreshNext DEF AddTimer, AddImmediateRecord, Insert
  <2>2. CASE RemoveTimer \/ StopTimer \/ RescheduleTimer
    BY <2>2, <1>l, FreshUpdate DEF RemoveTimer, StopTimer, RescheduleTimer
  <2> QED BY <1>3, <2>1, <2>2, <1>q DEF Command, GetEventType, SetApids, SetSafetyPre, ShutdownCommand
<1>4. CASE Server
  <2>1. CASE ModifyTimer
    BY <2>1, <1>l, <1>q, FreshUpdate DEF ModifyTimer
  <2> QED BY <1>4, <2>1, <1>q DEF Server, SetSafetyPost, SetSafetyFlag, ThreadCancelled, ShutdownSave
<1>5. CASE Box
  BY <1>5, <1>q DEF Box, SetTime, Tick
<1>6. CASE PowerOff \/ PowerCut
  BY <1>6 DEF PowerOff, PowerCut, Restart, FreshOK, Live, Empty
<1>7. CASE UNCHANGED vars
  BY <1>7, <1>q DEF vars
<1> QED BY <1>1, <1>2, <1>3, <1>4, <1>5, <1>6, <1>7 DEF Next, Step, Endless, Off

LEMMA ShutInit == Init => ShutOK
BY DEF Init, ShutOK

LEMMA ShutStep == Orderly /\ LockOK /\ ShutOK /\ [Next]_vars => ShutOK'
<1> SUFFICES ASSUME Orderly, LockOK, ShutOK, [Next]_vars PROVE ShutOK'
  OBVIOUS
<1> USE DEF ShutOK, threadVars, writeVars
<1>1. CASE TimerThread
  BY <1>1 DEF TimerThread, BeginLoad, LoadTimer, BeginPass, Visit, VisitEndless,
             EndPass, SaveOrSleep, StartSave
<1>2. CASE Write
  BY <1>2 DEF Write, OpenFile, WriteHead, WriteTail, ClearFlag, Writing, LockOK
<1>3. CASE Command
  <2>1. srv' = srv \/ srv' \in {"safety", "modify"} \/ (srv' = "join" /\ loaded)
    BY <1>3 DEF Command, AddTimer, AddImmediateRecord, Insert, RemoveTimer, StopTimer,
                GetEventType, RescheduleTimer, SetApids, SetSafetyPre, ShutdownCommand, Orderly
  <2> QED BY <1>3, <2>1, CommandFrame
<1>4. CASE Server
  BY <1>4 DEF Server, ModifyTimer, SetSafetyPost, SetSafetyFlag, ThreadCancelled,
              ShutdownSave, StartSave
<1>5. CASE Box
  BY <1>5 DEF Box, SetTime, Tick
<1>6. CASE PowerOff \/ PowerCut
  BY <1>6 DEF PowerOff, PowerCut, Restart
<1>7. CASE UNCHANGED vars
  BY <1>7 DEF vars
<1> QED BY <1>1, <1>2, <1>3, <1>4, <1>5, <1>6, <1>7 DEF Next, Step, Endless, Off

\* In an orderly shutdown the thread dies between passes, writing nothing.
LEMMA DiesIdle ==
    ASSUME LockOK, ShutOK, ThreadCancelled
    PROVE  pc = "idle" /\ phase = "none"
BY DEF LockOK, ShutOK, ThreadCancelled, Cancellable, Writing

---------------------------------------------------------------------------
(* Nothing is lost. *)

LEMMA PassedUid ==
    ASSUME NEW e \in Event, NEW n \in Int, NEW t \in Int
    PROVE  Passed(e, n, t).uid = e.uid
<1> DEFINE b == BeforeFinish(e, n)
<1>1. b \in Event /\ b.uid = e.uid
  <2>1. b = [e EXCEPT !.state = b.state, !.fired = b.fired] /\ b \in Event
    BY BeforeFinishProperty
  <2> HIDE DEF b
  <2> QED BY <2>1 DEF Event
<1>2. Finished(b, t).uid = b.uid
  <2> HIDE DEF b
  <2> QED BY <1>1 DEF Finished, Reschedule, Event
<1> QED BY <1>1, <1>2 DEF Passed

\* A timer replaced by a later state of itself stays in the map, and so do
\* all others; a new timer takes no other's place.
LEMMA UidsReplace ==
    ASSUME NEW E \in Events, NEW i \in Live(E), NEW v \in Event, v.uid = E[i].uid
    PROVE  Uids(E) \subseteq Uids([E EXCEPT ![i] = v])
<1> DEFINE F == [E EXCEPT ![i] = v]
<1> SUFFICES ASSUME NEW j \in Live(E) PROVE E[j].uid \in Uids(F)
  BY DEF Uids
<1>1. i \in Ids /\ j \in Ids
  BY DEF Live
<1>2. F[i] = v /\ (j # i => F[j] = E[j]) /\ v # NoTimer
  BY <1>1, NoTimerAssumption DEF Events
<1>3. j \in Live(F) /\ F[j].uid = E[j].uid
  <2> HIDE DEF F
  <2> QED BY <1>1, <1>2 DEF Live
<1> HIDE DEF F
<1> QED BY <1>3 DEF Uids

LEMMA UidsAdd ==
    ASSUME NEW E \in Events, NEW i \in Ids, E[i] = NoTimer, NEW v \in Event
    PROVE  Uids(E) \cup {v.uid} \subseteq Uids([E EXCEPT ![i] = v])
<1> DEFINE F == [E EXCEPT ![i] = v]
<1>1. F[i] = v /\ v # NoTimer /\ \A j \in Live(E) : j \in Ids /\ F[j] = E[j]
  BY NoTimerAssumption DEF Events, Live
<1>2. i \in Live(F) /\ \A j \in Live(E) : j \in Live(F)
  <2> HIDE DEF F
  <2> QED BY <1>1 DEF Live
<1> HIDE DEF F
<1>3. v.uid \in Uids(F)
  BY <1>1, <1>2 DEF Uids
<1>4. Uids(E) \subseteq Uids(F)
  BY <1>1, <1>2 DEF Uids
<1> QED BY <1>3, <1>4 DEF F

LEMMA NextIsFree ==
    ASSUME TInv, FreshOK, lastId < MaxTimers
    PROVE  lastId + 1 \in Ids /\ events[lastId + 1] = NoTimer
BY BoundsAssumption DEF TInv, TypeOK, FreshOK, Live, Ids

\* What a command, or a visit without end, does to the map: nothing, or it
\* replaces a timer by a later state of itself, or adds one that never was.
Changes == Command \/ ModifyTimer \/ VisitEndless

Replaces == \E i \in Live(events), v \in Event :
               /\ v.uid = events[i].uid
               /\ events' = [events EXCEPT ![i] = v] /\ lastUid' = lastUid

Adds == \E v \in Event :
           /\ v.uid = lastUid + 1 /\ lastUid' = lastUid + 1 /\ lastId < MaxTimers
           /\ events' = [events EXCEPT ![lastId + 1] = v]

LEMMA ChangesEffect ==
    ASSUME TInv, Changes
    PROVE  /\ UNCHANGED <<events, lastUid>> \/ Replaces \/ Adds
           /\ durable' \subseteq durable
           /\ UNCHANGED <<source, cursor, phase, snap, disk>>
           /\ pc' = pc \/ (pc = "pass" /\ pc' = "loop")
<1> USE DEF threadVars, writeVars, history
<1>0. TypeOK /\ now \in Nat /\ lastUid \in Nat
  BY DEF TInv, TypeOK
<1>l. ASSUME NEW i \in Live(events) PROVE events[i] \in Event
  BY <1>0, <1>l, LiveType DEF TypeOK
<1>i. ASSUME NEW e \in Event, e.uid = lastUid + 1, Insert(e) PROVE Adds
  BY <1>i DEF Insert, Adds
<1>s. "SCHEDULED" \in States /\ "ISRUNNING" \in States
      /\ "TERMINATED" \in States /\ "HASFINISHED" \in States
  BY DEF States
<1>1. CASE AddTimer
  <2>1. PICK t \in NewTimers :
          \/ Insert(Timer(t, "SCHEDULED", 0))
          \/ Insert(Timer(WithSafety(t), "SCHEDULED", 0))
    BY <1>1 DEF AddTimer
  <2>2. t \in TimerSpec /\ safety \in [pre: Nat, post: Nat]
    BY <1>0, InputAssumption DEF TypeOK
  <2>3. /\ Timer(t, "SCHEDULED", 0) \in Event
        /\ Timer(WithSafety(t), "SCHEDULED", 0) \in Event
    BY <1>0, <1>s, <2>2, SafetyType, TimerType
  <2>4. /\ Timer(t, "SCHEDULED", 0).uid = lastUid + 1
        /\ Timer(WithSafety(t), "SCHEDULED", 0).uid = lastUid + 1
    BY DEF Timer
  <2>5. Adds
    BY <1>i, <2>1, <2>3, <2>4
  <2> QED BY <1>1, <2>1, <2>5 DEF AddTimer, Insert
<1>2. CASE AddImmediateRecord
  <2> DEFINE t == ByHand
  <2>1. Insert(Timer(t, "ISRUNNING", 1))
    BY <1>2 DEF AddImmediateRecord
  <2>2. t \in TimerSpec
    BY <1>0, ImmediateType
  <2> HIDE DEF t
  <2>3. Timer(t, "ISRUNNING", 1) \in Event /\ Timer(t, "ISRUNNING", 1).uid = lastUid + 1
    <3>1. Timer(t, "ISRUNNING", 1).uid = lastUid + 1
      BY DEF Timer
    <3> QED BY <1>0, <1>s, <2>2, <3>1, TimerType
  <2> QED BY <1>2, <1>i, <2>1, <2>3 DEF AddImmediateRecord, Insert
<1>3. CASE RemoveTimer \/ StopTimer
  <2>1. PICK i \in Live(events), s \in {"HASFINISHED", "TERMINATED"} :
          events' = [events EXCEPT ![i] = [events[i] EXCEPT !.state = s]]
    BY <1>3 DEF RemoveTimer, StopTimer
  <2> DEFINE v == [events[i] EXCEPT !.state = s]
  <2>2. v \in Event /\ v.uid = events[i].uid
    BY <1>l, <1>s DEF Event
  <2>3. lastUid' = lastUid
    BY <1>3 DEF RemoveTimer, StopTimer
  <2>4. Replaces
    <3>1. events' = [events EXCEPT ![i] = v]
      BY <2>1
    <3> HIDE DEF v
    <3> QED BY <2>2, <2>3, <3>1 DEF Replaces
  <2> QED BY <1>3, <2>4 DEF RemoveTimer, StopTimer
<1>4. CASE ModifyTimer /\ ~UNCHANGED events
  <2>1. PICK i \in Live(events), t \in NewTimers :
          events' = [events EXCEPT ![i] = Modified(events[i], t)]
    BY <1>4 DEF ModifyTimer
  <2>2. t \in TimerSpec /\ events[i] \in Event
    BY <1>l, InputAssumption
  <2>3. Modified(events[i], t) \in Event /\ Modified(events[i], t).uid = events[i].uid
    <3>1. Modified(events[i], t).uid = events[i].uid
      BY <2>2 DEF Modified, Event
    <3> QED BY <2>2, <3>1, ModifiedType
  <2> QED BY <1>4, <2>1, <2>3 DEF ModifyTimer, Replaces
<1>5. CASE RescheduleTimer
  <2>1. PICK i \in Live(events), d \in Diffs :
          events' = [events EXCEPT ![i] = Shifted(events[i], d)]
    BY <1>5 DEF RescheduleTimer
  <2>2. events[i] \in Event /\ d \in Int
    BY <1>l, InputAssumption
  <2>3. Shifted(events[i], d) \in Event /\ Shifted(events[i], d).uid = events[i].uid
    <3>1. Shifted(events[i], d).uid = events[i].uid
      BY <2>2 DEF Shifted, Event
    <3> QED BY <2>2, <3>1, ShiftedType
  <2> QED BY <1>5, <2>1, <2>3 DEF RescheduleTimer, Replaces
<1>6. CASE VisitEndless
  <2> DEFINE b == BeforeFinish(events[cursor], passNow)
  <2>1. /\ cursor \in Live(events) /\ b \in Event /\ b.uid = events[cursor].uid
        /\ events' = [events EXCEPT ![cursor] = b] /\ pc = "pass" /\ pc' = "loop"
        /\ UNCHANGED <<lastUid, durable, source, cursor, phase, snap, disk>>
    BY <1>6, EndlessEffect
  <2> HIDE DEF b
  <2> QED BY <2>1 DEF Replaces
<1>7. CASE ModifyTimer /\ UNCHANGED events
  BY <1>7 DEF ModifyTimer
<1> QED BY <1>1, <1>2, <1>3, <1>4, <1>5, <1>6, <1>7
        DEF Changes, Command, GetEventType, SetApids, SetSafetyPre, ShutdownCommand

\* No command takes a timer from the map, whatever it makes of it.
LEMMA ChangesUids ==
    ASSUME TInv, FreshOK, Changes
    PROVE  Uids(events) \subseteq Uids(events')
<1>1. events \in Events
  BY DEF TInv, TypeOK
<1>2. CASE Replaces
  BY <1>1, <1>2, UidsReplace DEF Replaces
<1>3. CASE Adds
  BY <1>1, <1>3, NextIsFree, UidsAdd DEF Adds
<1>4. CASE UNCHANGED events
  BY <1>4
<1> QED BY <1>2, <1>3, <1>4, ChangesEffect

LEMMA DurableInit == Init => DurableKept
BY DEF Init, DurableKept

\* The load leaves no timer of the file behind but those that are too old.
LEMMA DurableLoad ==
    ASSUME TInv, FreshOK, LockOK, DurableKept, BeginLoad \/ LoadTimer
    PROVE  DurableKept'
<1> USE DEF threadVars, writeVars, history
<1>1. CASE BeginLoad
  <2>1. phase = "none" /\ pc = "wait" /\ pc' = "load" /\ source' = disk.events
        /\ IsFirst(cursor', Live(source')) /\ UNCHANGED <<durable, disk, phase>>
    BY <1>1 DEF BeginLoad, LockOK, Writing
  <2>2. ASSUME NEW j \in Live(source') PROVE cursor' # 0 /\ j >= cursor'
    BY <2>1, <2>2 DEF IsFirst, Live, Ids
  <2>3. Uids(source') \subseteq ToLoad'
    BY <2>2 DEF Uids, ToLoad
  <2> QED BY <2>1, <2>3 DEF DurableKept
<1>2. CASE LoadTimer
  <2> DEFINE e == source[cursor]
  <2>1. cursor \in Live(source) /\ cursor \in Ids /\ e \in Event
    <3>1. cursor \in Live(source)
      BY <1>2 DEF LoadTimer, TInv, CursorOK, TypeOK, Live, Ids
    <3> QED BY <3>1, LiveType DEF TInv, TypeOK
  <2>2. /\ pc = "load" /\ pc' = "load" /\ source' = source
        /\ UNCHANGED <<disk, phase>> /\ durable' \subseteq durable
        /\ IsFirst(cursor', After(source, cursor))
    BY <1>2 DEF LoadTimer
  <2>3. ASSUME NEW j \in Live(source), j > cursor PROVE source[j].uid \in ToLoad'
    <3>1. cursor' # 0 /\ j >= cursor'
      BY <2>2, <2>3 DEF IsFirst, After, Live, Ids
    <3> QED BY <2>2, <3>1 DEF ToLoad
  <2>4. /\ Uids(events) \subseteq Uids(events')
        /\ e.uid \in durable' => e.uid \in Uids(events')
    <3>1. CASE TooOld(e, now)
      BY <1>2, <3>1 DEF LoadTimer
    <3>2. CASE ~TooOld(e, now)
      <4>1. /\ lastId < MaxTimers
            /\ events' = [events EXCEPT ![lastId + 1] = Loaded(e, now)]
        BY <1>2, <3>2 DEF LoadTimer
      <4>2. Loaded(e, now) \in Event /\ Loaded(e, now).uid = e.uid
        <5>1. now \in Int
          BY DEF TInv, TypeOK
        <5>2. Loaded(e, now).uid = e.uid
          <6> HIDE DEF e
          <6> QED BY <2>1 DEF Loaded, Event
        <5> QED BY <2>1, <5>1, <5>2, LoadedType
      <4> HIDE DEF e
      <4>3. Uids(events) \cup {Loaded(e, now).uid} \subseteq Uids(events')
        BY <4>1, <4>2, NextIsFree, UidsAdd DEF TInv, TypeOK
      <4> QED BY <4>2, <4>3
    <3> QED BY <3>1, <3>2
  <2>5. ASSUME NEW u \in durable' PROVE u \in Uids(events') \cup ToLoad'
    <3>1. u \in Uids(events) \cup ToLoad
      BY <2>2, <2>5 DEF DurableKept
    <3>2. CASE u \in ToLoad
      <4>1. PICK j \in Live(source) : u = source[j].uid /\ j >= cursor
        BY <3>2 DEF ToLoad
      <4>2. CASE j = cursor
        BY <2>4, <2>5, <4>1, <4>2
      <4>3. CASE j # cursor
        <5>1. j > cursor
          BY <2>1, <4>1, <4>3 DEF Live, Ids
        <5> QED BY <2>3, <4>1, <5>1
      <4> QED BY <4>2, <4>3
    <3> QED BY <2>4, <3>1, <3>2
  <2> QED BY <2>2, <2>5 DEF DurableKept
<1> QED BY <1>1, <1>2

\* A pass deletes only what is not owed any more.
LEMMA DurableVisit ==
    ASSUME TInv, DurableKept, Visit
    PROVE  DurableKept'
<1> USE DEF writeVars
<1> DEFINE e == events[cursor]
           p == Passed(e, passNow, now)
<1>1. cursor \in Live(events) /\ cursor \in Ids /\ e \in Event /\ events \in Events
  <2>1. cursor \in Live(events)
    BY DEF Visit, TInv, CursorOK, TypeOK, Live, Ids
  <2> QED BY <2>1, LiveType DEF TInv, TypeOK
<1>2. pc = "pass" /\ pc' = "pass" /\ UNCHANGED <<disk, phase>> /\ durable' \subseteq durable
  BY DEF Visit
<1>3. CASE p.state = "TERMINATED"
  <2>1. events' = [events EXCEPT ![cursor] = NoTimer] /\ durable' = durable \ {e.uid}
    BY <1>3 DEF Visit
  <2>2. ASSUME NEW u \in Uids(events), u # e.uid PROVE u \in Uids(events')
    <3>1. PICK i \in Live(events) : u = events[i].uid
      BY <2>2 DEF Uids
    <3>2. i # cursor /\ i \in Ids
      BY <2>2, <3>1 DEF Live
    <3>3. events'[i] = events[i] /\ i \in Live(events')
      BY <1>1, <2>1, <3>1, <3>2 DEF Events, Live
    <3> QED BY <3>1, <3>3 DEF Uids
  <2> QED BY <1>2, <2>1, <2>2 DEF DurableKept
<1>4. CASE p.state # "TERMINATED"
  <2>1. events' = [events EXCEPT ![cursor] = p] /\ durable' = durable
    BY <1>4 DEF Visit
  <2>2. p \in Event /\ p.uid = e.uid
    <3>1. passNow \in Int /\ now \in Int /\ passNow <= now
      BY DEF TInv, TypeOK, ClockOK
    <3>2. LET b == BeforeFinish(e, passNow)
          IN  b.state = "HASFINISHED" /\ b.count # 1 => CanReschedule(b, now)
      BY DEF Visit, Caught
    <3> HIDE DEF e
    <3> QED BY <1>1, <3>1, <3>2, PassedProperty, PassedUid
  <2>3. Uids(events) \subseteq Uids(events')
    <3> HIDE DEF p
    <3> QED BY <1>1, <2>1, <2>2, UidsReplace
  <2> QED BY <1>2, <2>1, <2>3 DEF DurableKept
<1> QED BY <1>3, <1>4

LEMMA DurableStep ==
    Orderly /\ TInv /\ FreshOK /\ LockOK /\ SnapCurrent /\ ShutOK /\ DurableKept /\ [Next]_vars
        => DurableKept'
<1> SUFFICES ASSUME Orderly, TInv, FreshOK, LockOK, SnapCurrent, ShutOK, DurableKept,
                    [Next]_vars
             PROVE  DurableKept'
  OBVIOUS
<1> USE DEF threadVars, writeVars, history
<1>q. ASSUME UNCHANGED <<events, durable, pc, source, cursor, disk, phase>>
      PROVE  DurableKept'
  BY <1>q DEF DurableKept, Uids, Live, ToLoad
<1>3. CASE Changes
  <2>1. /\ Uids(events) \subseteq Uids(events') /\ durable' \subseteq durable
        /\ UNCHANGED <<cursor, phase, disk, source>>
        /\ pc' = pc \/ (pc = "pass" /\ pc' = "loop")
    BY <1>3, ChangesUids, ChangesEffect
  <2>2. ToLoad' = ToLoad
    BY <2>1 DEF ToLoad
  <2> QED BY <2>1, <2>2 DEF DurableKept
<1>1. CASE TimerThread
  <2>1. CASE BeginPass \/ EndPass
    BY <2>1 DEF BeginPass, EndPass, DurableKept, Uids, Live
  <2>2. CASE SaveOrSleep
    <3>1. ToLoad = {} \/ pc # "load"
      BY <2>2 DEF SaveOrSleep, ToLoad
    <3>2. durable \subseteq Uids(events)
      BY <2>2, <3>1 DEF SaveOrSleep, DurableKept
    <3>3. durable \subseteq Uids(disk.events)
      BY <2>2 DEF SaveOrSleep, StartSave, DurableKept, LockOK, Writing, ShutOK
    <3> QED BY <2>2, <3>2, <3>3 DEF SaveOrSleep, StartSave, DurableKept, Uids, Live
  <2> QED BY <1>1, <1>3, <2>1, <2>2, DurableLoad, DurableVisit DEF TimerThread, Changes
<1>2. CASE Write
  <2>1. durable \subseteq Uids(events)
    BY <1>2 DEF Write, OpenFile, WriteHead, WriteTail, ClearFlag, DurableKept, Writing, LockOK
  <2>2. CASE OpenFile \/ WriteHead
    BY <2>1, <2>2 DEF OpenFile, WriteHead, DurableKept, Writing, LockOK, Uids, Live
  <2>3. CASE WriteTail
    <3>1. Uids(snap.events) = Uids(events) /\ durable' \subseteq Uids(events)
      BY <2>1, <2>3 DEF WriteTail, SnapCurrent
    <3> QED BY <2>3, <3>1 DEF WriteTail, DurableKept, Writing, LockOK, Uids, Live
  <2>4. CASE ClearFlag
    BY <2>1, <2>4 DEF ClearFlag, DurableKept, Writing, LockOK, Uids, Live
  <2> QED BY <1>2, <2>2, <2>3, <2>4 DEF Write
<1>4. CASE Server
  <2>1. CASE ThreadCancelled
    BY <2>1, DiesIdle DEF ThreadCancelled, DurableKept, Uids, Live
  <2>2. CASE ShutdownSave
    <3>1. phase \notin {"head", "tail"}
      BY <2>2 DEF ShutdownSave, LockOK, Writing
    <3> QED BY <2>2, <3>1 DEF ShutdownSave, StartSave, DurableKept, Uids, Live
  <2> QED BY <1>4, <1>3, <2>1, <2>2, <1>q DEF Server, Changes, SetSafetyPost, SetSafetyFlag
<1>5. CASE Box
  BY <1>5, <1>q DEF Box, SetTime, Tick
<1>6. CASE PowerOff \/ PowerCut
  <2>1. phase \notin {"head", "tail"}
    BY <1>6 DEF PowerOff, PowerCut, Orderly, ShutOK, LockOK, Writing
  <2> QED BY <1>6, <2>1 DEF PowerOff, PowerCut, Restart, DurableKept
<1>7. CASE UNCHANGED vars
  BY <1>7, <1>q DEF vars
<1> QED BY <1>1, <1>2, <1>3, <1>4, <1>5, <1>6, <1>7 DEF Next, Step, Endless, Off, Changes

\* A timer that was in the file once is in it at every start of the daemon,
\* until it ran to its end, was removed or was too old when it was loaded:
\* the load, which gives every timer a new identifier, the save after it,
\* commands that come in before and during both, and restarts lose none.
THEOREM NoTimerLost == Orderly /\ Spec => []TimersSurvive
<1> DEFINE IInv == Orderly /\ TInv /\ FreshOK /\ LockOK /\ SnapCurrent /\ ShutOK /\ DurableKept
<1>1. Orderly /\ Init => IInv
  BY TypeInit, FreshInit, LockInit, SnapInit, ShutInit, DurableInit
<1>2. IInv /\ [Next]_vars => IInv'
  <2>1. Orderly' = Orderly
    BY DEF Orderly
  <2> QED BY <2>1, TypeStep, FreshStep, LockStep, SnapStep, ShutStep, DurableStep DEF TInv
<1>3. IInv => TimersSurvive
  BY DEF DurableKept, TimersSurvive, LockOK, Writing
<1> QED BY <1>1, <1>2, <1>3, PTL DEF Spec

---------------------------------------------------------------------------
(* Nothing is there twice.  This needs no orderly box. *)

LEMMA DistinctUpdate ==
    ASSUME NEW E \in Events, Distinct(E), NEW i \in Ids, NEW v \in Event,
           \A j \in Live(E) : j # i => E[j].uid # v.uid
    PROVE  /\ Distinct([E EXCEPT ![i] = v])
           /\ Uids([E EXCEPT ![i] = v]) \subseteq Uids(E) \cup {v.uid}
<1> DEFINE F == [E EXCEPT ![i] = v]
<1>1. F[i] = v /\ \A j \in Ids : j # i => F[j] = E[j]
  BY DEF Events
<1> HIDE DEF F
<1>2. \A j \in Live(F) : j \in Ids /\ (j # i => j \in Live(E) /\ F[j] = E[j])
  BY <1>1 DEF Live
<1>3. Distinct(F)
  BY <1>1, <1>2 DEF Distinct
<1>4. Uids(F) \subseteq Uids(E) \cup {v.uid}
  BY <1>1, <1>2 DEF Uids
<1> QED BY <1>3, <1>4 DEF F

LEMMA DistinctErase ==
    ASSUME NEW E \in Events, Distinct(E), NEW i \in Ids
    PROVE  /\ Distinct([E EXCEPT ![i] = NoTimer])
           /\ Uids([E EXCEPT ![i] = NoTimer]) \subseteq Uids(E)
<1> DEFINE F == [E EXCEPT ![i] = NoTimer]
<1>1. F[i] = NoTimer /\ \A j \in Ids : j # i => F[j] = E[j]
  BY DEF Events
<1> HIDE DEF F
<1>2. \A j \in Live(F) : j \in Live(E) /\ F[j] = E[j]
  BY <1>1 DEF Live
<1>3. Distinct(F) /\ Uids(F) \subseteq Uids(E)
  BY <1>2 DEF Distinct, Uids
<1> QED BY <1>3 DEF F

LEMMA DistinctEmpty == Distinct(Empty) /\ Uids(Empty) = {}
BY DEF Distinct, Uids, Live, Empty

LEMMA DistinctCut ==
    ASSUME NEW E \in Events, Distinct(E)
    PROVE  /\ Distinct([i \in Ids |-> Cut(E[i])])
           /\ Uids([i \in Ids |-> Cut(E[i])]) \subseteq Uids(E)
<1> DEFINE F == [i \in Ids |-> Cut(E[i])]
<1>1. ASSUME NEW i \in Live(F) PROVE i \in Live(E) /\ F[i].uid = E[i].uid
  <2>1. i \in Ids /\ F[i] = Cut(E[i]) /\ F[i] # NoTimer
    BY <1>1 DEF Live
  <2>2. i \in Live(E) /\ E[i] \in Event
    BY <2>1 DEF Live, Cut, Events
  <2>3. Cut(E[i]).uid = E[i].uid
    BY <2>1, <2>2 DEF Cut, Event
  <2> QED BY <2>1, <2>2, <2>3
<1> HIDE DEF F
<1>2. Distinct(F) /\ Uids(F) \subseteq Uids(E)
  BY <1>1 DEF Distinct, Uids
<1> QED BY <1>2 DEF F

LEMMA OneInit == Init => OneOfEach
<1>1. ASSUME Init PROVE snap.events = Empty /\ disk.events = Empty
  BY <1>1 DEF Init, NoConfig, Truncated
<1> QED BY <1>1, DistinctEmpty DEF Init, OneOfEach

LEMMA OneLoad ==
    ASSUME TInv, FreshOK, OneOfEach, BeginLoad \/ LoadTimer
    PROVE  OneOfEach'
<1> USE DEF writeVars, history
<1>1. CASE BeginLoad
  <2>1. /\ pc = "wait" /\ pc' = "load" /\ source' = disk.events
        /\ UNCHANGED <<events, lastUid, snap, disk>>
    BY <1>1 DEF BeginLoad
  <2>2. ToLoad' \subseteq Uids(disk.events)
    BY <2>1 DEF ToLoad, Uids
  <2> QED BY <2>1, <2>2 DEF OneOfEach
<1>2. CASE LoadTimer
  <2> DEFINE e == source[cursor]
  <2>1. cursor \in Live(source) /\ cursor \in Ids /\ e \in Event
    <3>1. cursor \in Live(source)
      BY <1>2 DEF LoadTimer, TInv, CursorOK, TypeOK, Live, Ids
    <3> QED BY <3>1, LiveType DEF TInv, TypeOK
  <2>2. /\ pc = "load" /\ pc' = "load" /\ cursor # 0
        /\ UNCHANGED <<source, lastUid, snap, disk>>
        /\ IsFirst(cursor', After(source, cursor))
    BY <1>2 DEF LoadTimer
  <2>3. ToLoad' \subseteq ToLoad \ {e.uid}
    <3> SUFFICES ASSUME NEW j \in Live(source), cursor' # 0, j >= cursor'
                 PROVE  source[j].uid \in ToLoad /\ source[j].uid # e.uid
      BY <2>2 DEF ToLoad
    <3>1. j > cursor
      BY <2>1, <2>2 DEF IsFirst, After, Live, Ids
    <3>2. j >= cursor /\ j # cursor
      BY <2>1, <3>1 DEF Live, Ids
    <3>3. source[j].uid # e.uid
      BY <2>1, <3>2 DEF OneOfEach, Distinct
    <3> QED BY <2>2, <3>2, <3>3 DEF ToLoad
  <2>4. e.uid \in ToLoad /\ e.uid \in Uids(source)
    <3>1. cursor >= cursor
      BY <2>1 DEF Ids
    <3> QED BY <2>1, <2>2, <3>1 DEF ToLoad, Uids
  <2>5. e.uid \notin Uids(events) /\ e.uid \in 1 .. lastUid
    BY <2>2, <2>4 DEF OneOfEach
  <2>6. Distinct(events') /\ Uids(events') \subseteq Uids(events) \cup {e.uid}
    <3>1. CASE TooOld(e, now)
      BY <1>2, <3>1 DEF LoadTimer, OneOfEach
    <3>2. CASE ~TooOld(e, now)
      <4>1. /\ lastId < MaxTimers
            /\ events' = [events EXCEPT ![lastId + 1] = Loaded(e, now)]
        BY <1>2, <3>2 DEF LoadTimer
      <4>2. Loaded(e, now) \in Event /\ Loaded(e, now).uid = e.uid
        <5>1. now \in Int
          BY DEF TInv, TypeOK
        <5>2. Loaded(e, now).uid = e.uid
          <6> HIDE DEF e
          <6> QED BY <2>1 DEF Loaded, Event
        <5> QED BY <2>1, <5>1, <5>2, LoadedType
      <4> HIDE DEF e
      <4>3. \A j \in Live(events) : events[j].uid # Loaded(e, now).uid
        BY <2>5, <4>2 DEF Uids
      <4>4. events \in Events /\ Distinct(events) /\ lastId + 1 \in Ids
        BY <4>1, NextIsFree DEF TInv, TypeOK, OneOfEach
      <4> QED BY <4>1, <4>2, <4>3, <4>4, DistinctUpdate
    <3> QED BY <3>1, <3>2
  <2> HIDE DEF e
  <2> QED BY <2>2, <2>3, <2>5, <2>6 DEF OneOfEach
<1> QED BY <1>1, <1>2

LEMMA OneVisit ==
    ASSUME TInv, OneOfEach, Visit
    PROVE  OneOfEach'
<1> USE DEF writeVars
<1> DEFINE e == events[cursor]
           p == Passed(e, passNow, now)
<1>1. /\ cursor \in Live(events) /\ cursor \in Ids /\ e \in Event /\ events \in Events
      /\ Distinct(events) /\ e.uid \in Uids(events)
  <2>1. cursor \in Live(events)
    BY DEF Visit, TInv, CursorOK, TypeOK, Live, Ids
  <2> QED BY <2>1, LiveType DEF TInv, TypeOK, OneOfEach, Uids
<1>2. Distinct(events') /\ Uids(events') \subseteq Uids(events)
  <2>1. CASE p.state = "TERMINATED"
    <3>1. events' = [events EXCEPT ![cursor] = NoTimer]
      BY <2>1 DEF Visit
    <3> QED BY <1>1, <3>1, DistinctErase
  <2>2. CASE p.state # "TERMINATED"
    <3>1. events' = [events EXCEPT ![cursor] = p]
      BY <2>2 DEF Visit
    <3>2. p \in Event /\ p.uid = e.uid
      <4>1. passNow \in Int /\ now \in Int /\ passNow <= now
        BY DEF TInv, TypeOK, ClockOK
      <4>2. LET b == BeforeFinish(e, passNow)
            IN  b.state = "HASFINISHED" /\ b.count # 1 => CanReschedule(b, now)
        BY DEF Visit, Caught
      <4> HIDE DEF e
      <4> QED BY <1>1, <4>1, <4>2, PassedProperty, PassedUid
    <3>3. \A j \in Live(events) : j # cursor => events[j].uid # p.uid
      BY <1>1, <3>2 DEF Distinct
    <3> HIDE DEF p
    <3>4. Distinct(events') /\ Uids(events') \subseteq Uids(events) \cup {p.uid}
      BY <1>1, <3>1, <3>2, <3>3, DistinctUpdate
    <3> QED BY <1>1, <3>2, <3>4
  <2> QED BY <2>1, <2>2
<1>3. pc' = "pass" /\ UNCHANGED <<source, snap, disk, lastUid>>
  BY DEF Visit
<1> QED BY <1>2, <1>3 DEF OneOfEach

LEMMA OneChange ==
    ASSUME TInv, FreshOK, OneOfEach, Changes
    PROVE  OneOfEach'
<1>1. events \in Events /\ Distinct(events) /\ lastUid \in Nat
  BY DEF TInv, TypeOK, OneOfEach
<1>2. /\ UNCHANGED <<cursor, source, snap, disk>>
      /\ pc' = pc \/ (pc = "pass" /\ pc' = "loop")
  BY ChangesEffect
<1>3. ToLoad' = ToLoad
  BY <1>2 DEF ToLoad
<1>4. CASE UNCHANGED <<events, lastUid>>
  BY <1>2, <1>3, <1>4 DEF OneOfEach
<1>5. CASE Replaces
  <2>1. PICK i \in Live(events), v \in Event :
           /\ v.uid = events[i].uid
           /\ events' = [events EXCEPT ![i] = v] /\ lastUid' = lastUid
    BY <1>5 DEF Replaces
  <2>2. i \in Ids /\ v.uid \in Uids(events)
        /\ \A j \in Live(events) : j # i => events[j].uid # v.uid
    BY <1>1, <2>1 DEF Live, Uids, Distinct
  <2>3. Distinct(events') /\ Uids(events') \subseteq Uids(events) \cup {v.uid}
    BY <1>1, <2>1, <2>2, DistinctUpdate
  <2> QED BY <1>2, <1>3, <2>1, <2>2, <2>3 DEF OneOfEach
<1>6. CASE Adds
  <2>1. PICK v \in Event :
           /\ v.uid = lastUid + 1 /\ lastUid' = lastUid + 1 /\ lastId < MaxTimers
           /\ events' = [events EXCEPT ![lastId + 1] = v]
    BY <1>6 DEF Adds
  <2>2. lastId + 1 \in Ids
    BY <2>1, NextIsFree
  <2>3. \A u \in 1 .. lastUid : u \in 1 .. lastUid' /\ u # v.uid
    BY <1>1, <2>1
  <2>4. \A j \in Live(events) : events[j].uid # v.uid
    BY <2>3 DEF OneOfEach, Uids
  <2>5. Distinct(events') /\ Uids(events') \subseteq Uids(events) \cup {v.uid}
    BY <1>1, <2>1, <2>2, <2>4, DistinctUpdate
  <2>6. v.uid \in 1 .. lastUid'
    BY <1>1, <2>1
  <2>7. ToLoad \subseteq Uids(source)
    BY DEF ToLoad, Uids
  <2> QED BY <1>2, <1>3, <2>3, <2>5, <2>6, <2>7 DEF OneOfEach
<1> QED BY <1>4, <1>5, <1>6, ChangesEffect

LEMMA OneStep == TInv /\ FreshOK /\ LockOK /\ OneOfEach /\ [Next]_vars => OneOfEach'
<1> SUFFICES ASSUME TInv, FreshOK, LockOK, OneOfEach, [Next]_vars PROVE OneOfEach'
  OBVIOUS
<1> USE DEF threadVars, writeVars, history
<1>q. ASSUME UNCHANGED <<events, lastUid, pc, source, cursor, disk, snap>>
      PROVE  OneOfEach'
  BY <1>q DEF OneOfEach, ToLoad
<1>3. CASE Changes
  BY <1>3, OneChange
<1>1. CASE TimerThread
  <2>1. CASE BeginPass \/ EndPass
    BY <2>1 DEF BeginPass, EndPass, OneOfEach
  <2>2. CASE SaveOrSleep
    <3>1. snap'.events = events \/ snap' = snap
      BY <2>2 DEF SaveOrSleep, StartSave
    <3> QED BY <2>2, <3>1 DEF SaveOrSleep, StartSave, OneOfEach
  <2> QED BY <1>1, <1>3, <2>1, <2>2, OneLoad, OneVisit DEF TimerThread, Changes
<1>2. CASE Write
  <2>0. pc # "wait" /\ pc # "load" /\ pc' # "wait" /\ pc' # "load"
    BY <1>2 DEF Write, OpenFile, WriteHead, WriteTail, ClearFlag, Writing, LockOK
  <2>1. CASE OpenFile
    <3>1. disk'.events = Empty /\ snap'.events = snap.events
      BY <2>1 DEF OpenFile, Truncated, TInv, TypeOK, Config
    <3> QED BY <2>0, <2>1, <3>1, DistinctEmpty DEF OpenFile, OneOfEach
  <2>2. CASE WriteHead
    <3>1. disk'.events = [i \in Ids |-> Cut(snap.events[i])] /\ snap.events \in Events
      BY <2>2 DEF WriteHead, TInv, TypeOK, Config
    <3>2. Distinct(disk'.events) /\ Uids(disk'.events) \subseteq Uids(snap.events)
      BY <3>1, DistinctCut DEF OneOfEach
    <3> QED BY <2>0, <2>2, <3>2 DEF WriteHead, OneOfEach
  <2>3. CASE WriteTail
    BY <2>0, <2>3 DEF WriteTail, OneOfEach
  <2>4. CASE ClearFlag
    BY <2>0, <2>4, DistinctEmpty DEF ClearFlag, NoConfig, OneOfEach
  <2> QED BY <1>2, <2>1, <2>2, <2>3, <2>4 DEF Write
<1>4. CASE Server
  <2>1. CASE ThreadCancelled
    BY <2>1, DistinctEmpty DEF ThreadCancelled, NoConfig, OneOfEach
  <2>2. CASE ShutdownSave
    <3>1. snap'.events = events \/ snap' = snap
      BY <2>2 DEF ShutdownSave, StartSave
    <3> QED BY <2>2, <3>1 DEF ShutdownSave, StartSave, OneOfEach
  <2> QED BY <1>4, <1>3, <2>1, <2>2, <1>q DEF Server, Changes, SetSafetyPost, SetSafetyFlag
<1>5. CASE Box
  BY <1>5, <1>q DEF Box, SetTime, Tick
<1>6. CASE PowerOff \/ PowerCut
  BY <1>6, DistinctEmpty DEF PowerOff, PowerCut, Restart, OneOfEach, NoConfig
<1>7. CASE UNCHANGED vars
  BY <1>7, <1>q DEF vars
<1> QED BY <1>1, <1>2, <1>3, <1>4, <1>5, <1>6, <1>7 DEF Next, Step, Endless, Off, Changes

\* No timer is in the map twice: the daemon loads its timers once, whatever
\* clients add before and while it does, and a torn or half-loaded file that
\* is loaded again brings none of them a second time.
THEOREM NoTimerDoubled == Spec => []NoDuplicates
<1>1. Init => TInv /\ FreshOK /\ LockOK /\ OneOfEach
  BY TypeInit, FreshInit, LockInit, OneInit
<1>2. TInv /\ FreshOK /\ LockOK /\ OneOfEach /\ [Next]_vars
        => (TInv /\ FreshOK /\ LockOK /\ OneOfEach)'
  BY TypeStep, FreshStep, LockStep, OneStep
<1>3. OneOfEach => NoDuplicates
  BY DEF OneOfEach, Distinct, NoDuplicates
<1> QED BY <1>1, <1>2, <1>3, PTL DEF Spec

---------------------------------------------------------------------------
(* That a recording ends and that a timer fires no more often than it was
   asked to, proved under the same assumption and for clients that do not send
   CMD_RESCHEDULETIMER, which none in the repository does. *)

LEMMA AllOfUpdate ==
    ASSUME NEW E \in Events, AllOf(E), NEW i \in Ids, NEW v, v = NoTimer \/ Sound(v)
    PROVE  AllOf([E EXCEPT ![i] = v])
<1> DEFINE F == [E EXCEPT ![i] = v]
<1>1. F[i] = v /\ \A j \in Ids : j # i => F[j] = E[j]
  BY DEF Events
<1> HIDE DEF F
<1>2. AllOf(F)
  BY <1>1 DEF AllOf, Live
<1> QED BY <1>2 DEF F

LEMMA AllOfEmpty == AllOf(Empty)
BY DEF AllOf, Live, Empty

---------------------------------------------------------------------------
(* What a step makes of one timer. *)

LEMMA SoundScheduled ==
    ASSUME NEW t \in TimerSpec
    PROVE  Sound(Timer(t, "SCHEDULED", 0))
<1> DEFINE v == Timer(t, "SCHEDULED", 0)
<1>1. v.ends => v.stop > 0
  BY DEF Timer
<1>2. /\ v.budget = Budget(v.repeat, v.count) /\ v.count = t.count /\ v.fired = 0
      /\ v.state = "SCHEDULED"
  BY DEF Timer
<1>3. t.count \in Int
  BY DEF TimerSpec
<1> HIDE DEF v
<1>4. Sound(v)
  BY <1>1, <1>2, <1>3 DEF Sound, Budget, Armed
<1> QED BY <1>4 DEF v

LEMMA SoundRunning ==
    ASSUME NEW t \in TimerSpec
    PROVE  Sound(Timer(t, "ISRUNNING", 1))
<1> DEFINE v == Timer(t, "ISRUNNING", 1)
<1>1. v.ends => v.stop > 0
  BY DEF Timer
<1>2. /\ v.budget = Budget(v.repeat, v.count) /\ v.count = t.count /\ v.fired = 1
      /\ v.state = "ISRUNNING"
  BY DEF Timer
<1>3. t.count \in Int
  BY DEF TimerSpec
<1> HIDE DEF v
<1>4. Sound(v)
  BY <1>1, <1>2, <1>3 DEF Sound, Budget, Armed
<1> QED BY <1>4 DEF v

LEMMA SoundMarked ==
    ASSUME NEW e \in Event, Sound(e), NEW s \in {"HASFINISHED", "TERMINATED"}
    PROVE  Sound([e EXCEPT !.state = s])
<1> DEFINE v == [e EXCEPT !.state = s]
<1>1. /\ v.ends = e.ends /\ v.stop = e.stop /\ v.budget = e.budget /\ v.repeat = e.repeat
      /\ v.fired = e.fired /\ v.count = e.count /\ ~Armed(v)
  BY DEF Event, Armed
<1>2. e.fired \in Nat /\ e.count \in Int /\ e.budget \in Int
  BY DEF Event
<1> HIDE DEF v
<1>3. Sound(v)
  BY <1>1, <1>2 DEF Sound
<1> QED BY <1>3 DEF v

LEMMA SoundModified ==
    ASSUME NEW e \in Event, NEW t \in TimerSpec
    PROVE  Sound(Modified(e, t))
<1> DEFINE m == Modified(e, t)
           k == IF e.state = "ISRUNNING" THEN 1 ELSE 0
<1>1. /\ (m.ends => t.stop > 0) /\ m.stop = t.stop /\ m.count = t.count
      /\ m.repeat = Normalised(t.repeat) /\ m.budget = Budget(m.repeat, m.count)
      /\ m.fired = k /\ (e.state = "ISRUNNING" => m.state = "ISRUNNING")
  BY DEF Modified, Event
<1>2. t.count \in Int /\ k \in {0, 1} /\ (Armed(m) => k = 0)
  BY <1>1 DEF TimerSpec, Armed
<1> HIDE DEF m, k
<1>3. Sound(m)
  BY <1>1, <1>2 DEF Sound, Budget
<1> QED BY <1>3 DEF m

LEMMA SoundLoaded ==
    ASSUME NEW e \in Event, Sound(e), Repeatable(e), NEW t \in Int
    PROVE  Sound(Loaded(e, t))
<1> DEFINE v == Loaded(e, t)
<1>1. /\ v.ends = e.ends /\ v.stop = e.stop /\ v.budget = e.budget /\ v.repeat = e.repeat
      /\ v.fired = e.fired /\ v.count = e.count /\ (Armed(v) => Armed(e))
  BY PeriodicAssumption DEF Loaded, Event, Armed, Normalised, Repeatable
<1>2. e.fired \in Nat /\ e.count \in Int /\ e.budget \in Int
  BY DEF Event
<1> HIDE DEF v
<1>3. Sound(v)
  BY <1>1, <1>2 DEF Sound
<1> QED BY <1>3 DEF v

\* The first three stages of a visit: a timer that fires was armed.
LEMMA SoundBeforeFinish ==
    ASSUME NEW e \in Event, Sound(e), NEW n \in Int
    PROVE  Sound(BeforeFinish(e, n))
<1> DEFINE a == Announced(e, n)
           f == Fired(a, n)
           s == Stopped(f, n)
<1>1. a \in Event /\ f \in Event
  <2>1. a \in Event
    BY AnnouncedProperty
  <2> HIDE DEF a
  <2> QED BY <2>1, FiredProperty
<1>2. Sound(a)
  <2>1. /\ a.ends = e.ends /\ a.stop = e.stop /\ a.budget = e.budget
        /\ a.repeat = e.repeat /\ a.fired = e.fired /\ a.count = e.count
        /\ (Armed(a) <=> Armed(e))
    BY DEF Announced, Event, Armed, AnnounceDue
  <2> HIDE DEF a
  <2> QED BY <2>1 DEF Sound
<1> HIDE DEF a
<1>3. Sound(f)
  <2>0. a.fired \in Nat /\ a.count \in Int /\ a.budget \in Int
    BY <1>1 DEF Event
  <2>1. CASE AlarmDue(a, n)
    <3>1. /\ f.ends = a.ends /\ f.stop = a.stop /\ f.budget = a.budget
          /\ f.repeat = a.repeat /\ f.fired = a.fired + 1 /\ f.count = a.count
          /\ ~Armed(f) /\ Armed(a)
      BY <1>1, <2>1 DEF Fired, Event, Armed, AlarmDue
    <3> HIDE DEF f
    <3> QED BY <1>2, <2>0, <3>1 DEF Sound
  <2>2. CASE ~AlarmDue(a, n)
    BY <1>2, <2>2 DEF Fired
  <2> QED BY <2>1, <2>2
<1> HIDE DEF f
<1>4. Sound(s)
  BY <1>1, <1>3, SoundMarked DEF Stopped
<1> QED BY <1>4 DEF BeforeFinish, a, f

\* The fourth stage: a repetition uses up one of the count.
LEMMA SoundFinished ==
    ASSUME NEW b \in Event, Sound(b), NEW t \in Int,
           b.state = "HASFINISHED" /\ b.count # 1 => CanReschedule(b, t)
    PROVE  Sound(Finished(b, t))
<1>1. CASE b.state = "HASFINISHED" /\ b.repeat # "ONCE" /\ b.count # 1
  <2> DEFINE r == Reschedule(b, t)
  <2>1. b.stop > 0 => r.stop > 0
    <3>1. Shift(b, t) \in Nat
      BY <1>1, ShiftProperty DEF CanReschedule, Shift
    <3>2. r.stop = Moved(b.stop, Shift(b, t))
      BY <1>1 DEF Reschedule, Event
    <3>3. b.stop \in Int
      BY DEF Event
    <3> HIDE DEF r
    <3> QED BY <3>1, <3>2, <3>3 DEF Moved
  <2>2. /\ r.ends = b.ends /\ r.repeat = b.repeat /\ r.budget = b.budget /\ r.fired = b.fired
        /\ r.count = IF b.count > 0 THEN b.count - 1 ELSE b.count
    BY <1>1 DEF Reschedule, Event
  <2>3. b.count \in Int /\ b.fired \in Nat /\ b.budget \in Int /\ ~Armed(b)
    BY <1>1 DEF Event, Armed
  <2> HIDE DEF r
  <2>4. Sound(r)
    BY <1>1, <2>1, <2>2, <2>3 DEF Sound
  <2> QED BY <1>1, <2>4 DEF Finished, r
<1>2. CASE b.state = "HASFINISHED" /\ ~(b.repeat # "ONCE" /\ b.count # 1)
  <2>1. Finished(b, t) = [b EXCEPT !.state = "TERMINATED"]
    BY <1>2 DEF Finished
  <2> QED BY <2>1, SoundMarked
<1>3. CASE b.state # "HASFINISHED"
  BY <1>3 DEF Finished
<1> QED BY <1>1, <1>2, <1>3

\* A recording that is not stopped in a visit is running after it, if it was
\* running before or was fired in it.
LEMMA RecordRuns ==
    ASSUME NEW e \in Event, NEW n \in Int,
           e.type = "RECORD", e.stop > 0, ~Stops(e, n),
           Fires(e, n) \/ e.state = "ISRUNNING"
    PROVE  /\ BeforeFinish(e, n).state = "ISRUNNING"
           /\ BeforeFinish(e, n).type = "RECORD"
           /\ BeforeFinish(e, n).stop > 0
<1> DEFINE a == Announced(e, n)
           f == Fired(a, n)
<1>1. /\ a \in Event /\ a.type = e.type /\ a.stop = e.stop
      /\ e.state = "ISRUNNING" => a = e
  BY DEF Announced, AnnounceDue, Event, States
<1>2. ~StopDue(f, n) /\ (AlarmDue(a, n) \/ a.state = "ISRUNNING")
  BY <1>1 DEF Stops, Fires
<1>3. f.state = "ISRUNNING" /\ f.type = "RECORD" /\ f.stop = e.stop
  <2>1. a.stop > 0 /\ a.stop \in Int
    BY <1>1 DEF Event
  <2> HIDE DEF a
  <2> QED BY <1>1, <1>2, <2>1 DEF Fired, Event
<1>4. BeforeFinish(e, n) = f
  BY <1>2 DEF BeforeFinish, Stopped
<1> QED BY <1>3, <1>4

LEMMA RecordVisited ==
    ASSUME NEW e \in Event, NEW n \in Int, NEW t \in Int,
           e.type = "RECORD", e.stop > 0, ~Stops(e, n),
           Fires(e, n) \/ e.state = "ISRUNNING"
    PROVE  /\ Passed(e, n, t).state = "ISRUNNING"
           /\ Passed(e, n, t).type = "RECORD"
           /\ Passed(e, n, t).stop > 0
BY RecordRuns DEF Passed, Finished

---------------------------------------------------------------------------
(* Every timer is sound, in the map and on its way through the file. *)

LEMMA SoundInit == Init => AllSound
<1>1. ASSUME Init PROVE AllOf(disk.events) /\ AllOf(snap.events)
  BY <1>1, AllOfEmpty DEF Init, NoConfig, Truncated
<1> QED BY <1>1, AllOfEmpty DEF Init, AllSound

LEMMA SoundTimerThread ==
    TInv /\ LockOK /\ AllReduced /\ AllSound /\ TimerThread => AllSound'
<1> SUFFICES ASSUME TInv, LockOK, AllReduced, AllSound, TimerThread PROVE AllSound'
  OBVIOUS
<1> USE DEF threadVars, writeVars, AllSound
<1>1. CASE BeginLoad
  BY <1>1 DEF BeginLoad, LockOK, Writing
<1>2. CASE LoadTimer
  <2> DEFINE e == source[cursor]
  <2>1. CASE TooOld(e, now)
    BY <1>2, <2>1 DEF LoadTimer
  <2>2. CASE ~TooOld(e, now)
    <3>1. cursor \in Live(source)
      BY <1>2 DEF LoadTimer, TInv, CursorOK, TypeOK, Live, Ids
    <3>2. e \in Event /\ Repeatable(e) /\ Sound(e) /\ now \in Int
      BY <3>1, LiveType DEF TInv, TypeOK, AllReduced, Reduced, Repeatable, AllOf
    <3>3. /\ lastId + 1 \in Ids
          /\ events' = [events EXCEPT ![lastId + 1] = Loaded(e, now)]
      BY <1>2, <2>2, BoundsAssumption DEF LoadTimer, TInv, TypeOK, Ids
    <3>4. AllOf(events')
      <4> HIDE DEF e
      <4> QED BY <3>2, <3>3, SoundLoaded, AllOfUpdate DEF TInv, TypeOK
    <3> QED BY <1>2, <3>4 DEF LoadTimer
  <2> QED BY <2>1, <2>2
<1>3. CASE BeginPass \/ EndPass
  BY <1>3 DEF BeginPass, EndPass
<1>4. CASE Visit
  <2> DEFINE e == events[cursor]
             b == BeforeFinish(e, passNow)
             p == Passed(e, passNow, now)
  <2>1. cursor \in Live(events) /\ cursor \in Ids
    BY <1>4 DEF Visit, TInv, CursorOK, TypeOK, Live, Ids
  <2>2. e \in Event /\ Sound(e) /\ passNow \in Int /\ now \in Int
    BY <2>1, LiveType DEF TInv, TypeOK, AllOf
  <2>3. b.state = "HASFINISHED" /\ b.count # 1 => CanReschedule(b, now)
    BY <1>4 DEF Visit, Caught
  <2>4. Sound(p)
    <3> HIDE DEF e
    <3>1. b \in Event /\ Sound(b)
      BY <2>2, SoundBeforeFinish, BeforeFinishProperty
    <3>2. p = Finished(b, now)
      BY DEF Passed
    <3> HIDE DEF b, p
    <3> QED BY <2>2, <2>3, <3>1, <3>2, SoundFinished
  <2>5. \/ events' = [events EXCEPT ![cursor] = NoTimer]
        \/ events' = [events EXCEPT ![cursor] = p]
    BY <1>4 DEF Visit
  <2>6. AllOf(events')
    <3> HIDE DEF p
    <3> QED BY <2>1, <2>4, <2>5, AllOfUpdate DEF TInv, TypeOK
  <2> QED BY <1>4, <2>6 DEF Visit
<1>5. CASE SaveOrSleep
  <2>1. snap'.events = events \/ snap' = snap
    BY <1>5 DEF SaveOrSleep, StartSave
  <2>2. phase = "tail" => ~StartSave
    BY DEF StartSave, LockOK
  <2> QED BY <1>5, <2>1, <2>2 DEF SaveOrSleep, StartSave
<1>6. CASE VisitEndless
  <2> DEFINE e == events[cursor]
             b == BeforeFinish(e, passNow)
  <2>1. /\ cursor \in Live(events) /\ cursor \in Ids /\ e \in Event /\ passNow \in Int
        /\ events' = [events EXCEPT ![cursor] = b] /\ UNCHANGED <<source, snap, disk, phase>>
    BY <1>6, EndlessEffect
  <2>2. Sound(b)
    <3>1. Sound(e)
      BY <2>1 DEF AllOf
    <3> HIDE DEF e
    <3> QED BY <2>1, <3>1, SoundBeforeFinish
  <2> HIDE DEF b
  <2>3. AllOf(events')
    BY <2>1, <2>2, AllOfUpdate DEF TInv, TypeOK
  <2> QED BY <2>1, <2>3
<1> QED BY <1>1, <1>2, <1>3, <1>4, <1>5, <1>6 DEF TimerThread

LEMMA SoundWrite == TInv /\ AllSound /\ Write => AllSound'
<1> SUFFICES ASSUME TInv, AllSound, Write PROVE AllSound'
  OBVIOUS
<1> USE DEF threadVars, AllSound
<1>1. CASE OpenFile
  BY <1>1, AllOfEmpty DEF OpenFile, Truncated
<1>2. CASE WriteHead \/ WriteTail
  BY <1>2 DEF WriteHead, WriteTail
<1>3. CASE ClearFlag
  BY <1>3, AllOfEmpty DEF ClearFlag, NoConfig
<1> QED BY <1>1, <1>2, <1>3 DEF Write

LEMMA SoundInsert ==
    ASSUME TInv, AllSound, NEW e, Sound(e), Insert(e)
    PROVE  AllSound'
<1>1. /\ events' = [events EXCEPT ![lastId + 1] = e]
      /\ lastId + 1 \in Ids
      /\ UNCHANGED <<source, snap, disk, phase>>
  BY BoundsAssumption DEF Insert, TInv, TypeOK, Ids, threadVars, writeVars
<1>2. AllOf(events')
  BY <1>1, AllOfUpdate DEF TInv, TypeOK, AllSound
<1> QED BY <1>1, <1>2 DEF AllSound

LEMMA SoundReplace ==
    ASSUME TInv, AllSound, NEW i \in Live(events), NEW e, Sound(e),
           events' = [events EXCEPT ![i] = e],
           UNCHANGED <<source, snap, disk, phase>>
    PROVE  AllSound'
<1>1. i \in Ids
  BY LiveType DEF TInv, TypeOK
<1>2. AllOf(events')
  BY <1>1, AllOfUpdate DEF TInv, TypeOK, AllSound
<1> QED BY <1>2 DEF AllSound

LEMMA SoundCommand == Diffs = {} /\ TInv /\ AllSound /\ Command => AllSound'
<1> SUFFICES ASSUME Diffs = {}, TInv, AllSound, Command PROVE AllSound'
  OBVIOUS
<1> USE DEF threadVars, writeVars
<1>l. ASSUME NEW i \in Live(events) PROVE events[i] \in Event /\ Sound(events[i])
  BY <1>l, LiveType DEF TInv, TypeOK, AllSound, AllOf
<1>t. "SCHEDULED" \in States /\ "ISRUNNING" \in States /\ now \in Nat
      /\ safety \in [pre: Nat, post: Nat]
  BY DEF States, TInv, TypeOK
<1>1. CASE AddTimer
  <2>1. PICK t \in NewTimers :
          \/ Insert(Timer(t, "SCHEDULED", 0))
          \/ Insert(Timer(WithSafety(t), "SCHEDULED", 0))
    BY <1>1 DEF AddTimer
  <2>2. /\ Sound(Timer(t, "SCHEDULED", 0))
        /\ Sound(Timer(WithSafety(t), "SCHEDULED", 0))
    <3> DEFINE w == WithSafety(t)
    <3>1. t \in TimerSpec /\ w \in TimerSpec
      BY <1>t, InputAssumption, SafetyType
    <3> HIDE DEF w
    <3>2. Sound(Timer(t, "SCHEDULED", 0))
      BY <3>1, SoundScheduled
    <3>3. Sound(Timer(w, "SCHEDULED", 0))
      BY <3>1, SoundScheduled
    <3> QED BY <3>2, <3>3 DEF w
  <2> QED BY <2>1, <2>2, SoundInsert
<1>2. CASE AddImmediateRecord
  <2> DEFINE t == ByHand
  <2>1. Insert(Timer(t, "ISRUNNING", 1))
    BY <1>2 DEF AddImmediateRecord
  <2>2. t \in TimerSpec
    BY <1>t, ImmediateType
  <2> HIDE DEF t
  <2>3. Sound(Timer(t, "ISRUNNING", 1))
    BY <2>2, SoundRunning
  <2> QED BY <2>1, <2>3, SoundInsert
<1>3. CASE RemoveTimer \/ StopTimer
  <2>1. PICK i \in Live(events), s \in {"HASFINISHED", "TERMINATED"} :
          events' = [events EXCEPT ![i] = [events[i] EXCEPT !.state = s]]
    BY <1>3 DEF RemoveTimer, StopTimer
  <2>2. Sound([events[i] EXCEPT !.state = s])
    BY <1>l, SoundMarked
  <2> QED BY <1>3, <2>1, <2>2, SoundReplace DEF RemoveTimer, StopTimer
<1> QED BY <1>1, <1>2, <1>3
        DEF Command, GetEventType, RescheduleTimer, SetApids, SetSafetyPre, ShutdownCommand, AllSound

LEMMA SoundStep ==
    Orderly /\ Diffs = {} /\ TInv /\ LockOK /\ ShutOK /\ AllReduced /\ AllSound /\ [Next]_vars
        => AllSound'
<1> SUFFICES ASSUME Orderly, Diffs = {}, TInv, LockOK, ShutOK, AllReduced, AllSound,
                    [Next]_vars
             PROVE  AllSound'
  OBVIOUS
<1> USE DEF threadVars, writeVars
<1>1. CASE Server
  <2>1. CASE ThreadCancelled
    BY <2>1, AllOfEmpty, DiesIdle DEF ThreadCancelled, AllSound, NoConfig
  <2>2. CASE ShutdownSave
    <3>1. phase # "tail"
      BY <2>2 DEF ShutdownSave, LockOK, Writing
    <3> QED BY <2>2, <3>1 DEF ShutdownSave, StartSave, AllSound
  <2>3. CASE ModifyTimer
    <3>1. UNCHANGED <<source, snap, disk, phase>>
      BY <2>3 DEF ModifyTimer
    <3>2. CASE UNCHANGED events
      BY <3>1, <3>2 DEF AllSound
    <3>3. CASE ~UNCHANGED events
      <4>1. PICK i \in Live(events), t \in NewTimers :
              events' = [events EXCEPT ![i] = Modified(events[i], t)]
        BY <2>3, <3>3 DEF ModifyTimer
      <4>2. events[i] \in Event /\ t \in TimerSpec
        BY LiveType, InputAssumption DEF TInv, TypeOK
      <4>3. Sound(Modified(events[i], t))
        BY <4>2, SoundModified
      <4> QED BY <3>1, <4>1, <4>3, SoundReplace
    <3> QED BY <3>2, <3>3
  <2> QED BY <1>1, <2>1, <2>2, <2>3 DEF Server, SetSafetyPost, SetSafetyFlag, AllSound
<1>2. CASE Box
  BY <1>2 DEF Box, SetTime, Tick, AllSound
<1>3. CASE PowerOff \/ PowerCut
  <2>1. phase # "tail"
    BY <1>3 DEF PowerOff, PowerCut, Orderly, ShutOK, LockOK, Writing
  <2> QED BY <1>3, <2>1, AllOfEmpty DEF PowerOff, PowerCut, Restart, AllSound, NoConfig
<1>4. CASE UNCHANGED vars
  BY <1>4 DEF vars, AllSound
<1> QED BY <1>1, <1>2, <1>3, <1>4, SoundTimerThread, SoundWrite, SoundCommand DEF Next, Step, Endless, Off

\* The strengthening both theorems rest on.
SInv == /\ Orderly /\ Diffs = {} /\ TInv /\ LockOK /\ ShutOK
        /\ AllReduced /\ FreshOK /\ AllSound

LEMMA SInvInit == Orderly /\ Diffs = {} /\ Init => SInv
BY TypeInit, LockInit, ShutInit, ReducedInit, FreshInit, SoundInit DEF SInv

LEMMA SInvStep == SInv /\ [Next]_vars => SInv'
<1> SUFFICES ASSUME SInv, [Next]_vars PROVE SInv'
  OBVIOUS
<1>1. Orderly' /\ (Diffs = {})'
  BY DEF Orderly, SInv
<1>2. TInv' /\ LockOK' /\ ShutOK' /\ FreshOK'
  BY TypeStep, LockStep, ShutStep, FreshStep DEF SInv
<1>3. AllReduced' /\ AllSound'
  BY ReducedStep, SoundStep DEF SInv
<1> QED BY <1>1, <1>2, <1>3 DEF SInv

\* No timer fires more often than its repeat settings say: not across passes,
\* stops, changes and restarts, nor because it fires late and its repetitions
\* are made up for.
THEOREM FiresWithinCount == Orderly /\ Diffs = {} /\ Spec => []FiredWithinCount
<1>1. SInv => FiredWithinCount
  <2> SUFFICES ASSUME SInv, NEW i \in Live(events), events[i].budget > 0
               PROVE  events[i].fired <= events[i].budget
    BY DEF FiredWithinCount
  <2>1. events[i] \in Event /\ Sound(events[i])
    BY LiveType DEF SInv, TInv, TypeOK, AllSound, AllOf
  <2> QED BY <2>1 DEF Sound, Event
<1> QED BY <1>1, SInvInit, SInvStep, PTL DEF Spec

---------------------------------------------------------------------------
(* Recordings. *)

LEMMA StopperInit == Init => RecordingHasStopper
BY DEF Init, RecordingHasStopper

LEMMA StopperInsert ==
    ASSUME TInv, FreshOK, RecordingHasStopper, NEW e, Insert(e),
           \/ recording' = recording
           \/ /\ recording' = recording \cup {lastId + 1}
              /\ e # NoTimer /\ e.type = "RECORD" /\ e.state = "ISRUNNING" /\ e.stop > 0
    PROVE  RecordingHasStopper'
<1>1. /\ events' = [events EXCEPT ![lastId + 1] = e]
      /\ lastId + 1 \in Ids /\ events[lastId + 1] = NoTimer
  BY NextIsFree DEF Insert
<1>2. lastId + 1 \notin recording
  BY <1>1 DEF RecordingHasStopper
<1> QED BY <1>1, <1>2 DEF RecordingHasStopper, TInv, TypeOK, Events

\* A command that touches timer i leaves it recording only if it is running.
LEMMA StopperReplace ==
    ASSUME TInv, RecordingHasStopper, NEW i \in Live(events), NEW v,
           events' = [events EXCEPT ![i] = v], recording' \subseteq recording,
           i \in recording' =>
              v # NoTimer /\ v.type = "RECORD" /\ v.state = "ISRUNNING" /\ v.stop > 0
    PROVE  RecordingHasStopper'
BY DEF RecordingHasStopper, TInv, TypeOK, Events, Live

LEMMA StopperVisit ==
    ASSUME SInv, RecordingHasStopper, Visit
    PROVE  RecordingHasStopper'
<1> DEFINE e == events[cursor]
           p == Passed(e, passNow, now)
<1>1. cursor \in Live(events) /\ cursor \in Ids
  BY DEF Visit, SInv, TInv, CursorOK, TypeOK, Live, Ids
<1>2. e \in Event /\ Sound(e) /\ passNow \in Int /\ now \in Int /\ passNow <= now
  BY <1>1, LiveType DEF SInv, TInv, TypeOK, ClockOK, AllSound, AllOf
<1>3. recording' = IF e.type # "RECORD" THEN recording
                   ELSE IF Stops(e, passNow) THEN recording \ {cursor}
                   ELSE IF Fires(e, passNow) /\ e.ends THEN recording \cup {cursor}
                   ELSE recording
  BY DEF Visit, Recorded
<1>4. IF p.state = "TERMINATED"
      THEN events' = [events EXCEPT ![cursor] = NoTimer]
      ELSE events' = [events EXCEPT ![cursor] = p]
  BY DEF Visit
<1>5. cursor \in recording => e.type = "RECORD" /\ e.state = "ISRUNNING" /\ e.stop > 0
  BY DEF RecordingHasStopper
<1>6. p \in Event
  <2>1. LET b == BeforeFinish(e, passNow)
        IN  b.state = "HASFINISHED" /\ b.count # 1 => CanReschedule(b, now)
    BY DEF Visit, Caught
  <2> HIDE DEF e
  <2> QED BY <1>2, <2>1, PassedProperty
<1>7. cursor \in recording' =>
        p.type = "RECORD" /\ p.state = "ISRUNNING" /\ p.stop > 0
  <2> SUFFICES ASSUME cursor \in recording'
               PROVE  p.type = "RECORD" /\ p.state = "ISRUNNING" /\ p.stop > 0
    OBVIOUS
  <2>1. e.type = "RECORD" /\ ~Stops(e, passNow)
        /\ ((Fires(e, passNow) /\ e.ends) \/ (e.state = "ISRUNNING" /\ e.stop > 0))
    BY <1>3, <1>5
  <2>2. e.stop > 0
    BY <1>2, <2>1 DEF Sound
  <2> HIDE DEF e
  <2> QED BY <1>2, <2>1, <2>2, RecordVisited
<1>8. p # NoTimer
  BY <1>6, NoTimerAssumption
<1>9. \A i \in recording' : i # cursor => i \in recording
  BY <1>3
<1> HIDE DEF e, p
<1>10. ASSUME NEW i \in recording'
       PROVE  events'[i] # NoTimer /\ events'[i].type = "RECORD"
              /\ events'[i].state = "ISRUNNING" /\ events'[i].stop > 0
  <2>1. CASE i = cursor
    <3>1. events' = [events EXCEPT ![cursor] = p]
      BY <1>4, <1>7, <2>1
    <3> QED BY <1>1, <1>7, <1>8, <2>1, <3>1 DEF SInv, TInv, TypeOK, Events
  <2>2. CASE i # cursor
    <3>1. i \in recording /\ events'[i] = events[i]
      BY <1>1, <1>4, <1>9, <2>2 DEF SInv, TInv, TypeOK, Events
    <3> QED BY <3>1 DEF RecordingHasStopper
  <2> QED BY <2>1, <2>2
<1> QED BY <1>10 DEF RecordingHasStopper

\* A visit without end stops no recording it does not end, and starts none:
\* it has finished what it is caught by.
LEMMA StopperEndless ==
    ASSUME SInv, RecordingHasStopper, VisitEndless
    PROVE  RecordingHasStopper'
<1> DEFINE e == events[cursor]
           b == BeforeFinish(e, passNow)
<1>1. /\ cursor \in Live(events) /\ cursor \in Ids /\ e \in Event /\ passNow \in Int
      /\ b \in Event /\ events' = [events EXCEPT ![cursor] = b]
  BY EndlessEffect DEF SInv
<1>2. recording' = Recorded(e) /\ b.state = "HASFINISHED" /\ Sound(e)
  BY <1>1 DEF VisitEndless, Caught, SInv, AllSound, AllOf
<1>3. cursor \notin recording'
  <2> SUFFICES ASSUME cursor \in recording' PROVE FALSE
    OBVIOUS
  <2>1. e.type = "RECORD" /\ ~Stops(e, passNow)
        /\ ((Fires(e, passNow) /\ e.ends) \/ (e.state = "ISRUNNING" /\ e.stop > 0))
    BY <1>2 DEF Recorded, RecordingHasStopper
  <2>2. e.stop > 0
    BY <1>2, <2>1 DEF Sound
  <2>3. b.state = "ISRUNNING"
    <3> HIDE DEF e
    <3> QED BY <1>1, <2>1, <2>2, RecordRuns
  <2> QED BY <1>2, <2>3
<1>4. \A i \in recording' : i \in recording
  BY <1>2, <1>3 DEF Recorded
<1> HIDE DEF e, b
<1> QED BY <1>1, <1>3, <1>4 DEF RecordingHasStopper, SInv, TInv, TypeOK, Events

LEMMA StopperCommand ==
    ASSUME SInv, RecordingHasStopper, Command
    PROVE  RecordingHasStopper'
<1> USE DEF history
<1>0. TInv /\ FreshOK /\ events \in Events /\ safety \in [pre: Nat, post: Nat]
      /\ now \in Nat /\ lastUid \in Nat
  BY DEF SInv, TInv, TypeOK
<1>l. ASSUME NEW i \in Live(events) PROVE events[i] \in Event
  BY <1>0, <1>l, LiveType
<1>1. CASE AddTimer
  <2>1. PICK t \in NewTimers :
          \/ Insert(Timer(t, "SCHEDULED", 0))
          \/ Insert(Timer(WithSafety(t), "SCHEDULED", 0))
    BY <1>1 DEF AddTimer
  <2>2. recording' = recording
    BY <1>1 DEF AddTimer
  <2> QED BY <1>0, <2>1, <2>2, StopperInsert
<1>2. CASE AddImmediateRecord
  <2> DEFINE t == ByHand
             e == Timer(t, "ISRUNNING", 1)
  <2>1. Insert(e) /\ recording' = recording \cup {lastId + 1}
    BY <1>2 DEF AddImmediateRecord
  <2>2. t \in TimerSpec
    BY <1>0, ImmediateType
  <2>3. e \in Event /\ e # NoTimer
    <3> HIDE DEF t
    <3>1. "ISRUNNING" \in States
      BY DEF States
    <3> QED BY <1>0, <2>2, <3>1, TimerType, NoTimerAssumption
  <2>4. e.type = "RECORD" /\ e.state = "ISRUNNING" /\ e.stop > 0
    BY <1>0, InputAssumption DEF Timer, StopOf, ByHand
  <2> HIDE DEF e
  <2> QED BY <1>0, <2>1, <2>3, <2>4, StopperInsert
<1>3. CASE RemoveTimer \/ StopTimer
  <2>1. PICK i \in Live(events), s \in {"HASFINISHED", "TERMINATED"} :
          /\ StopRecording(i)
          /\ events' = [events EXCEPT ![i] = [events[i] EXCEPT !.state = s]]
    BY <1>3 DEF RemoveTimer, StopTimer
  <2>2. i \notin recording' /\ recording' \subseteq recording
    BY <2>1 DEF StopRecording, RecordingHasStopper
  <2> QED BY <1>0, <2>1, <2>2, StopperReplace
<1>4. CASE GetEventType \/ SetApids \/ SetSafetyPre \/ ShutdownCommand
  BY <1>4 DEF GetEventType, SetApids, SetSafetyPre, ShutdownCommand, RecordingHasStopper
<1> QED BY <1>1, <1>2, <1>3, <1>4 DEF Command, RescheduleTimer, SInv

\* The modification of a timer that records leaves it a stop time, or nothing
\* is recorded any more that has an end.
LEMMA StopperModify ==
    ASSUME SInv, RecordingHasStopper, ModifyTimer
    PROVE  RecordingHasStopper'
<1>0. TInv /\ events \in Events
  BY DEF SInv, TInv, TypeOK
<1>1. CASE UNCHANGED <<events, recording>>
  BY <1>1 DEF RecordingHasStopper
<1>2. CASE ~UNCHANGED <<events, recording>>
  <2>1. PICK i \in Live(events), t \in NewTimers :
          /\ events' = [events EXCEPT ![i] = Modified(events[i], t)]
          /\ recording' = IF t.stop > 0 THEN recording ELSE recording \ {i}
    BY <1>2 DEF ModifyTimer
  <2> DEFINE v == Modified(events[i], t)
  <2>2. t \in TimerSpec /\ events[i] \in Event
    BY <1>0, LiveType, InputAssumption
  <2>3. v \in Event /\ v # NoTimer
    BY <2>2, ModifiedType, NoTimerAssumption
  <2>4. /\ v.type = events[i].type /\ v.stop = t.stop
        /\ events[i].state = "ISRUNNING" => v.state = "ISRUNNING"
    BY <2>2 DEF Modified, Event
  <2>5. recording' \subseteq recording /\ (i \in recording' => t.stop > 0)
    BY <2>1
  <2>6. events' = [events EXCEPT ![i] = v]
    BY <2>1
  <2> HIDE DEF v
  <2>7. i \in recording' => v.type = "RECORD" /\ v.state = "ISRUNNING" /\ v.stop > 0
    BY <2>4, <2>5 DEF RecordingHasStopper
  <2> QED BY <1>0, <2>3, <2>5, <2>6, <2>7, StopperReplace
<1> QED BY <1>1, <1>2

LEMMA StopperStep == SInv /\ RecordingHasStopper /\ [Next]_vars => RecordingHasStopper'
<1> SUFFICES ASSUME SInv, RecordingHasStopper, [Next]_vars PROVE RecordingHasStopper'
  OBVIOUS
<1> USE DEF history
<1>q. ASSUME UNCHANGED <<events, recording>> PROVE RecordingHasStopper'
  BY <1>q DEF RecordingHasStopper
<1>1. CASE TimerThread
  <2>1. CASE LoadTimer
    <3>1. CASE UNCHANGED events
      BY <2>1, <3>1, <1>q DEF LoadTimer
    <3>2. CASE ~UNCHANGED events
      <4>1. PICK v : events' = [events EXCEPT ![lastId + 1] = v]
        BY <2>1, <3>2 DEF LoadTimer
      <4>2. lastId < MaxTimers /\ recording' = recording
        BY <2>1, <3>2 DEF LoadTimer
      <4>3. lastId + 1 \in Ids /\ lastId + 1 \notin recording
        BY <4>2, NextIsFree DEF SInv, RecordingHasStopper
      <4> QED BY <4>1, <4>2, <4>3 DEF RecordingHasStopper, SInv, TInv, TypeOK, Events
    <3> QED BY <3>1, <3>2
  <2> QED BY <1>1, <2>1, <1>q, StopperVisit, StopperEndless
          DEF TimerThread, BeginLoad, BeginPass, EndPass, SaveOrSleep
<1>2. CASE Write
  BY <1>2, <1>q DEF Write, OpenFile, WriteHead, WriteTail, ClearFlag
<1>3. CASE Command
  BY <1>3, StopperCommand
<1>4. CASE Server
  BY <1>4, <1>q, StopperModify DEF Server, SetSafetyPost, SetSafetyFlag, ThreadCancelled, ShutdownSave
<1>5. CASE Box
  BY <1>5, <1>q DEF Box, SetTime, Tick
<1>6. CASE PowerOff \/ PowerCut
  BY <1>6 DEF PowerOff, PowerCut, Restart, RecordingHasStopper
<1>7. CASE UNCHANGED vars
  BY <1>7, <1>q DEF vars
<1> QED BY <1>1, <1>2, <1>3, <1>4, <1>5, <1>6, <1>7 DEF Next, Step, Endless, Off

\* A recording that neutrino was told to start, for a timer with an end, always
\* has a running timer with a stop time, which will tell it to stop, until a
\* client takes the stop time away: whatever else clients ask for, of timers
\* without an end and with repeat values nothing knows too.
THEOREM RecordingsStoppable == Orderly /\ Diffs = {} /\ Spec => []RecordingHasStopper
<1>1. Orderly /\ Diffs = {} /\ Init => SInv /\ RecordingHasStopper
  BY SInvInit, StopperInit
<1>2. SInv /\ RecordingHasStopper /\ [Next]_vars => (SInv /\ RecordingHasStopper)'
  BY SInvStep, StopperStep
<1> QED BY <1>1, <1>2, PTL DEF Spec
=============================================================================
