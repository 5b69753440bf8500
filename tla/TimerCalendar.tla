--------------------------- MODULE TimerCalendar ---------------------------
(***************************************************************************)
(* CTimerEvent::Reschedule: the calendar loop that carries a repeating     *)
(* timer of neutrino's timer daemon to its next alarm.  Module TimerEvents *)
(* has the sum of its rounds as Shift; here every round is a step, with    *)
(* months, weekdays and the change between winter and summer time.         *)
(*                                                                         *)
(* Time is counted in slots of one hour; a day has DaySlots of them.       *)
(***************************************************************************)
EXTENDS Integers, Sequences

CONSTANTS
    DaySlots,       \* hours of a day
    MonthLengths,   \* the days of each month, from the first day on
    DstStart,       \* summer time begins
    DstEnd,         \* and ends
    Kinds,          \* the repeat kinds in use
    Hours,          \* the local hours timers are set for
    StartDays,      \* the days they are first set for
    Lengths,        \* the lengths of what they run
    Nows            \* the instants at which a timer is rescheduled

ASSUME CalendarAssumption ==
    /\ DaySlots \in Nat \ {0} /\ DstStart \in Nat /\ DstEnd \in Nat
    /\ MonthLengths \in Seq(Nat \ {0}) /\ Len(MonthLengths) > 2
    /\ Hours \subseteq 0 .. DaySlots - 1
    /\ StartDays \subseteq Nat /\ Lengths \subseteq Nat \ {0} /\ Nows \subseteq Nat

Months == 1 .. Len(MonthLengths)
Weekdays == 0 .. 6

\* The repeat kinds that move: DAILY, WEEKLY, BIWEEKLY and FOURWEEKLY go on by
\* days, MONTHLY by a month, WEEKDAYS to the next of those whose bit is set.
ByDays(n)     == [days |-> n, months |-> 0, weekdays |-> {}]
Monthly       == [days |-> 0, months |-> 1, weekdays |-> {}]
OnWeekdays(w) == [days |-> 0, months |-> 0, weekdays |-> w]

ASSUME KindsAssumption ==
    Kinds \subseteq {ByDays(1), ByDays(7), ByDays(14), ByDays(28), Monthly}
                        \cup {OnWeekdays(w) : w \in (SUBSET Weekdays) \ {{}}}

---------------------------------------------------------------------------
(* The C library: localtime and mktime. *)

IsDst(t) == IF DstStart <= t /\ t < DstEnd THEN 1 ELSE 0
LocalDay(t) == (t + IsDst(t)) \div DaySlots
LocalHour(t) == (t + IsDst(t)) % DaySlots

FirstDay[m \in 1 .. Len(MonthLengths) + 1] ==
    IF m = 1 THEN 0 ELSE FirstDay[m - 1] + MonthLengths[m - 1]

Month(day) == CHOOSE m \in Months : FirstDay[m] <= day /\ day < FirstDay[m + 1]
MonthDay(day) == day - FirstDay[Month(day)]

\* A broken-down time whose tm_isdst is set is read on that clock.
MkTime(day, hour, isdst) == day * DaySlots + hour - isdst

\* Bound: the calendar goes on for two months after the last of Nows.
ASSUME HorizonAssumption ==
    \A n \in Nows : n < DaySlots * FirstDay[Len(MonthLengths) - 1]

---------------------------------------------------------------------------
\* Mutants: the search for the next weekday starts with the one after the
\* next; the bits are off by one; the summer time correction is missing.
FirstFrom(weekdays, day) ==
    CHOOSE d \in day .. day + 6 : /\ d % 7 \in weekdays
                                 /\ \A x \in day .. d - 1 : x % 7 \notin weekdays

NextDayOr(k, day, d) == IF k.weekdays # {} THEN d
                        ELSE IF k.months > 0 THEN FirstDay[Month(day) + k.months] + MonthDay(day)
                        ELSE day + k.days

NextDayLate(k, day)  == NextDayOr(k, day, FirstFrom(k.weekdays, day + 2))
NextDayShift(k, day) == NextDayOr(k, day, FirstFrom(k.weekdays, day + 1) + 1)
CorrectionNone(before, after) == 0

\* The day a round moves to: by the days of the kind; to the same day of the
\* next month, which mktime carries over if the month is too short for it; to
\* the next of the selected weekdays.
NextDay(k, day) == NextDayOr(k, day, FirstFrom(k.weekdays, day + 1))

\* Winter to summer takes an hour off, summer to winter puts one on.
Correction(before, after) == before - after

\* One round of the loop: how far alarm, announce and stop are moved.
RoundDiff(k, t) ==
    LET next == MkTime(NextDay(k, LocalDay(t)), LocalHour(t), IsDst(t))
    IN  next - t + Correction(IsDst(t), IsDst(next))

---------------------------------------------------------------------------
VARIABLES
    kind, alarm, announce, stop, state,     \* the timer
    first, length, lead,                    \* history: as it was set
    now                                     \* the clock, as Reschedule reads it

asSet == <<first, length, lead>>
vars  == <<kind, alarm, announce, stop, state, asSet, now>>

\* A timer set for a local hour of a day on which its kind falls due; it has
\* just run, or the box has slept past it.
Init ==
    /\ kind \in Kinds
    /\ length \in Lengths /\ lead \in {0, 1}
    /\ \E day \in StartDays, hour \in Hours, dst \in {0, 1} :
        /\ kind.weekdays # {} => day % 7 \in kind.weekdays
        /\ first = MkTime(day, hour, dst) /\ IsDst(first) = dst
    /\ first > 1
    /\ alarm = first /\ stop = first + length
    /\ announce = IF lead > 0 THEN first - lead ELSE 0
    /\ state = "HASFINISHED"
    /\ now \in {n \in Nows : n >= alarm}

\* One round of the loop.
Round ==
    /\ state = "HASFINISHED" /\ alarm <= now
    /\ LET d == RoundDiff(kind, alarm) IN
        /\ alarm' = alarm + d
        /\ announce' = IF announce > 0 THEN announce + d ELSE announce
        /\ stop' = IF stop > 0 THEN stop + d ELSE stop
    /\ UNCHANGED <<kind, state, asSet, now>>

\* The loop is over.
Rescheduled ==
    /\ state = "HASFINISHED" /\ alarm > now
    /\ state' = "SCHEDULED"
    /\ UNCHANGED <<kind, alarm, announce, stop, asSet, now>>

\* The timer has run again, or the box has slept past its alarm once more.
RunAgain ==
    /\ state = "SCHEDULED"
    /\ state' = "HASFINISHED"
    /\ now' \in {n \in Nows : n >= alarm}
    /\ UNCHANGED <<kind, alarm, announce, stop, asSet>>

Next == Round \/ Rescheduled \/ RunAgain

Spec == Init /\ [][Next]_vars

---------------------------------------------------------------------------
\* The calendar a repeating timer promises: the days that follow the first by
\* its repeat kind.
OnCalendar(d) ==
    LET day == LocalDay(first) IN
    \/ kind.days > 0 /\ (d - day) % kind.days = 0
    \/ kind.months > 0 /\ MonthDay(d) = MonthDay(day)
    \/ d % 7 \in kind.weekdays

\* The hour for which the timer was set is the one that the first day of summer
\* time leaves out; every month has the day for which it was set.
Hour    == LocalHour(first)
Skipped == Hour = DstStart % DaySlots
EveryMonthHas == \A m \in Months : MonthDay(LocalDay(first)) < MonthLengths[m]

\* Whatever rounds it takes, and however often summer time comes and goes, a
\* repeating timer stays on its days (doku.html:94-111); monthly, if every month
\* has its day, and if summer time does not begin at its hour at midnight.
StaysOnCalendar ==
    (kind.months > 0 => EveryMonthHas) /\ ~(Skipped /\ Hour = 0) => OnCalendar(LocalDay(alarm))

\* And it stays at its hour (doku.html:95), or, if that is the hour summer time
\* leaves out, perhaps at the one before; what it runs stays as long, and is
\* announced as early, as when it was set.
SameHour ==
    /\ \/ LocalHour(alarm) = Hour
       \/ Skipped /\ LocalHour(alarm) = (Hour - 1) % DaySlots
    /\ stop - alarm = length
    /\ announce = IF lead > 0 THEN alarm - lead ELSE 0

\* Rescheduling goes to the next of the timer's days: no instant between the
\* time of rescheduling and the new alarm at which it was due is left out.  Of
\* the hour that comes twice when summer time ends one time is enough.
NoneLeftOut ==
    state = "SCHEDULED" /\ ~Skipped /\ (kind.months > 0 => EveryMonthHas) =>
        \A t \in (now + 1 .. alarm - 1) \ {DstEnd - 1, DstEnd} :
            ~(OnCalendar(LocalDay(t)) /\ LocalHour(t) = Hour)

=============================================================================
