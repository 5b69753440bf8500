-------------------------- MODULE MCTimerCalendar --------------------------
(* Small instances of module TimerCalendar for TLC. *)
EXTENDS TimerCalendar

\* January to June; summer time from day 40, hour 2, to day 70, hour 3 by the
\* summer clock.
MCMonthLengths == <<31, 28, 31, 30, 31, 30>>
MCDstStart == 24 * 40 + 2
MCDstEnd   == 24 * 70 + 2

MCKinds == {ByDays(1), ByDays(7), ByDays(14), ByDays(28), Monthly,
            OnWeekdays({1}), OnWeekdays({0, 3, 4}), OnWeekdays({5, 6})}

\* The first, a day not every month has, days about the changes of the clock.
MCStartDays == {0, 5, 12, 27, 30, 36, 39, 67, 69}

\* After some days, after weeks, after a month and more.
MCNows == {24 * d + h : d \in {6, 20, 39, 40, 41, 68, 70, 71, 77, 105}, h \in {0, 2, 13}}
=============================================================================
