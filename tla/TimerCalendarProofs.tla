------------------------ MODULE TimerCalendarProofs ------------------------
(***************************************************************************)
(* Theorems about the loop that reschedules a repeating timer, for any     *)
(* calendar, any beginning and end of summer time, and any timers.         *)
(***************************************************************************)
EXTENDS TimerCalendar, WellFoundedInduction, TLAPS

NumberOfMonths == Len(MonthLengths)
Local(t) == t + IsDst(t)

TypeOK ==
    /\ kind \in Kinds /\ state \in {"HASFINISHED", "SCHEDULED"}
    /\ first \in Nat /\ alarm \in Nat /\ alarm > 1 /\ announce \in Nat /\ stop \in Nat
    /\ length \in Nat \ {0} /\ lead \in {0, 1} /\ now \in Nows

\* What lies between now and the alarm, whether the loop is over or not.
RegularTimer == ~Skipped /\ (kind.months > 0 => EveryMonthHas)
NoneSoFar ==
    RegularTimer => \A t \in (now + 1 .. alarm - 1) \ {DstEnd - 1, DstEnd} :
                        ~(OnCalendar(LocalDay(t)) /\ LocalHour(t) = Hour)

CInv == TypeOK /\ SameHour /\ StaysOnCalendar /\ NoneSoFar

---------------------------------------------------------------------------
(* Arithmetic. *)

\* Of some numbers one is the least.
LEMMA LeastNat ==
    ASSUME NEW S \in SUBSET Nat, S # {}
    PROVE  \E n \in S : \A m \in S : n <= m
<1> DEFINE R == {r \in Nat \X Nat : r[1] < r[2]}
<1>1. IsWellFoundedOn(R, Nat)
  BY NatLessThanWellFounded DEF OpToRel
<1> HIDE DEF R
<1>2. PICK n \in S : \A m \in S : ~ <<m, n>> \in R
  BY <1>1, WFMin
<1>3. ASSUME NEW m \in S, m < n PROVE FALSE
  <2>1. <<m, n>> \in R
    BY <1>3 DEF R
  <2> QED
    BY <1>2, <2>1
<1>4. \A m \in S : n \in Nat /\ m \in Nat
  OBVIOUS
<1> QED
  BY <1>3, <1>4

\* The multiples of B are at least B apart.
LEMMA Multiples ==
    ASSUME NEW B \in Nat \ {0}, NEW x \in Int, NEW y \in Int, x < y
    PROVE  x * B \in Int /\ y * B \in Int /\ x * B + B <= y * B
<1>1. PICK n \in Nat : y = x + 1 + n
  <2>1. y - x - 1 \in Nat /\ y = x + 1 + (y - x - 1)
    OBVIOUS
  <2> QED
    BY <2>1
<1>2. y * B = x * B + B + n * B /\ x * B \in Int
  BY <1>1
<1>3. n * B \in Nat
  OBVIOUS
<1> QED
  BY <1>2, <1>3

LEMMA Division ==
    ASSUME NEW B \in Nat \ {0}, NEW n \in Int
    PROVE  /\ n \div B \in Int /\ n % B \in 0 .. B - 1
           /\ n = (n \div B) * B + (n % B)
OBVIOUS

LEMMA DivisionIs ==
    ASSUME NEW B \in Nat \ {0}, NEW q \in Int, NEW r \in 0 .. B - 1
    PROVE  (q * B + r) \div B = q /\ (q * B + r) % B = r
<1> DEFINE n == q * B + r
<1>0. n \in Int
  OBVIOUS
<1>1. n = (n \div B) * B + (n % B) /\ n % B \in 0 .. B - 1 /\ n \div B \in Int
  BY <1>0, Division
<1>2. ~ (n \div B < q)
  BY <1>1, Multiples
<1>3. ~ (q < n \div B)
  BY <1>1, Multiples
<1> QED
  BY <1>1, <1>2, <1>3

LEMMA NaturalDivision ==
    ASSUME NEW B \in Nat \ {0}, NEW n \in Nat
    PROVE  n \div B \in Nat
<1>1. n \div B \in Int /\ n % B \in 0 .. B - 1 /\ n = (n \div B) * B + (n % B)
  BY Division
<1>2. ~ (n \div B < 0)
  BY <1>1, Multiples
<1> QED
  BY <1>1, <1>2

\* Numbers are ordered first by their quotients.
LEMMA QuotientsOrder ==
    ASSUME NEW B \in Nat \ {0}, NEW x \in Int, NEW y \in Int,
           NEW r \in 0 .. B - 1, NEW s \in 0 .. B - 1, x * B + r < y * B + s
    PROVE  x <= y /\ (r = s => x < y)
<1>1. ~ (y < x)
  BY Multiples
<1> QED
  BY <1>1

---------------------------------------------------------------------------
(* The C library's calendar. *)

LEMMA MonthsType ==
    /\ NumberOfMonths \in Nat /\ NumberOfMonths > 2
    /\ \A m \in Months : MonthLengths[m] \in Nat \ {0}
BY CalendarAssumption DEF Months, NumberOfMonths

\* The recursion of FirstDay has a solution up to any month.
LEMMA FirstDayExists ==
    \A n \in 0 .. NumberOfMonths + 1 :
        \E f : f = [m \in 1 .. n |-> IF m = 1 THEN 0 ELSE f[m - 1] + MonthLengths[m - 1]]
<1> DEFINE Solved(n) ==
      \E f : f = [m \in 1 .. n |-> IF m = 1 THEN 0 ELSE f[m - 1] + MonthLengths[m - 1]]
<1> DEFINE S == {n \in 0 .. NumberOfMonths + 1 : ~Solved(n)}
<1>1. SUFFICES S = {}
  BY <1>1
<1>2. SUFFICES ASSUME S # {} PROVE FALSE
  OBVIOUS
<1>3. S \in SUBSET Nat
  BY MonthsType
<1>4. PICK n \in S : \A m \in S : n <= m
  <2> HIDE DEF S
  <2> QED
    BY <1>2, <1>3, LeastNat
<1>5. n \in 0 .. NumberOfMonths + 1 /\ ~Solved(n)
  OBVIOUS
<1>6. CASE n = 0
  <2> DEFINE f == [m \in 1 .. 0 |-> 0]
  <2>1. f = [m \in 1 .. n |-> IF m = 1 THEN 0 ELSE f[m - 1] + MonthLengths[m - 1]]
    BY <1>6
  <2> HIDE DEF f
  <2> QED
    BY <1>5, <2>1
<1>7. CASE n # 0
  <2>1. n \in Nat /\ n - 1 \in 0 .. NumberOfMonths + 1 /\ n - 1 \notin S
    <3> HIDE DEF S, Solved
    <3> QED
      BY <1>4, <1>5, <1>7, MonthsType
  <2>2. Solved(n - 1)
    BY <2>1
  <2>3. PICK f : f = [m \in 1 .. n - 1 |->
                        IF m = 1 THEN 0 ELSE f[m - 1] + MonthLengths[m - 1]]
    BY <2>2
  <2> DEFINE last == IF n = 1 THEN 0 ELSE f[n - 1] + MonthLengths[n - 1]
  <2> DEFINE g == [m \in 1 .. n |-> IF m = n THEN last ELSE f[m]]
  <2>4. \A m \in 1 .. n - 1 :
          f[m] = IF m = 1 THEN 0 ELSE f[m - 1] + MonthLengths[m - 1]
    BY <2>3
  <2>5. ASSUME NEW m \in 1 .. n
        PROVE  g[m] = IF m = 1 THEN 0 ELSE g[m - 1] + MonthLengths[m - 1]
    <3>1. CASE m = n
      <4>1. n # 1 => n - 1 \in 1 .. n /\ n - 1 # n
        BY <2>1, <3>1
      <4> QED
        BY <3>1, <4>1
    <3>2. CASE m # n
      <4>1. m \in 1 .. n - 1 /\ (m # 1 => m - 1 \in 1 .. n /\ m - 1 # n)
        BY <2>1, <3>2
      <4> QED
        BY <2>4, <3>2, <4>1
    <3> QED
      BY <3>1, <3>2
  <2>6. g = [m \in 1 .. n |-> g[m]]
    OBVIOUS
  <2> HIDE DEF g
  <2>7. g = [m \in 1 .. n |-> IF m = 1 THEN 0 ELSE g[m - 1] + MonthLengths[m - 1]]
    BY <2>5, <2>6
  <2> QED
    BY <1>5, <2>7
<1> QED
  BY <1>6, <1>7

LEMMA FirstDayDef ==
    FirstDay = [m \in 1 .. NumberOfMonths + 1 |->
                  IF m = 1 THEN 0 ELSE FirstDay[m - 1] + MonthLengths[m - 1]]
<1> DEFINE Solves(f) == f = [m \in 1 .. NumberOfMonths + 1 |->
                               IF m = 1 THEN 0 ELSE f[m - 1] + MonthLengths[m - 1]]
<1>1. \E f : Solves(f)
  <2>1. NumberOfMonths + 1 \in 0 .. NumberOfMonths + 1
    BY MonthsType
  <2> QED
    BY <2>1, FirstDayExists, Zenon
<1>2. FirstDay = CHOOSE f : Solves(f)
  BY Zenon DEF FirstDay, NumberOfMonths
<1> HIDE DEF Solves
<1>3. Solves(FirstDay)
  BY <1>1, <1>2
<1> QED
  BY <1>3 DEF Solves

\* A month begins when the one before it is over.
LEMMA FirstDayFacts ==
    /\ FirstDay[1] = 0
    /\ \A m \in 1 .. NumberOfMonths + 1 : FirstDay[m] \in Nat
    /\ \A m \in Months : FirstDay[m + 1] = FirstDay[m] + MonthLengths[m]
<1> DEFINE S == {m \in 1 .. NumberOfMonths + 1 : FirstDay[m] \notin Nat}
<1>1. /\ FirstDay[1] = 0
      /\ \A m \in 2 .. NumberOfMonths + 1 : FirstDay[m] = FirstDay[m - 1] + MonthLengths[m - 1]
  BY FirstDayDef, MonthsType
<1>2. ASSUME S # {} PROVE FALSE
  <2>1. S \in SUBSET Nat
    BY MonthsType
  <2>2. PICK n \in S : \A m \in S : n <= m
    <3> HIDE DEF S
    <3> QED
      BY <1>2, <2>1, LeastNat
  <2>3. n \in 2 .. NumberOfMonths + 1 /\ FirstDay[n] \notin Nat
    BY <1>1, MonthsType
  <2>4. n - 1 \in Months /\ n - 1 \in 1 .. NumberOfMonths + 1 /\ n - 1 \notin S
    BY <2>2, <2>3, MonthsType DEF Months, NumberOfMonths
  <2> QED
    BY <1>1, <2>3, <2>4, MonthsType
<1>3. \A m \in Months : m + 1 \in 2 .. NumberOfMonths + 1 /\ (m + 1) - 1 = m
  BY MonthsType DEF Months, NumberOfMonths
<1> QED
  BY <1>1, <1>2, <1>3

LEMMA FirstDayGrows ==
    \A m, n \in 1 .. NumberOfMonths + 1 : m < n => FirstDay[m] < FirstDay[n]
<1> SUFFICES ASSUME NEW m \in 1 .. NumberOfMonths + 1
             PROVE  \A n \in 1 .. NumberOfMonths + 1 : m < n => FirstDay[m] < FirstDay[n]
  OBVIOUS
<1> DEFINE S == {n \in 1 .. NumberOfMonths + 1 : m < n /\ ~(FirstDay[m] < FirstDay[n])}
<1>1. ASSUME S # {} PROVE FALSE
  <2>1. S \in SUBSET Nat
    BY MonthsType
  <2>2. PICK n \in S : \A k \in S : n <= k
    <3> HIDE DEF S
    <3> QED
      BY <1>1, <2>1, LeastNat
  <2>3. n - 1 \in Months /\ n - 1 \in 1 .. NumberOfMonths + 1 /\ n - 1 \notin S /\ m <= n - 1
    BY <2>2, MonthsType DEF Months, NumberOfMonths
  <2>4. FirstDay[n] = FirstDay[n - 1] + MonthLengths[n - 1]
    <3>1. (n - 1) + 1 = n
      BY MonthsType
    <3> QED
      BY <2>3, <3>1, FirstDayFacts
  <2>5. FirstDay[m] <= FirstDay[n - 1]
    BY <2>3, FirstDayFacts, MonthsType
  <2> QED
    BY <2>3, <2>4, <2>5, FirstDayFacts, MonthsType
<1> QED
  BY <1>1

\* A day lies in one month.
LEMMA MonthIs ==
    ASSUME NEW day \in Nat, NEW m \in Months, FirstDay[m] <= day, day < FirstDay[m + 1]
    PROVE  Month(day) = m
<1>1. ASSUME NEW n \in Months, FirstDay[n] <= day, day < FirstDay[n + 1] PROVE n = m
  <2>1. /\ m \in 1 .. NumberOfMonths + 1 /\ m + 1 \in 1 .. NumberOfMonths + 1
        /\ n \in 1 .. NumberOfMonths + 1 /\ n + 1 \in 1 .. NumberOfMonths + 1
    BY MonthsType DEF Months, NumberOfMonths
  <2>2. ~ m + 1 < n /\ ~ n + 1 < m
    BY <1>1, <2>1, FirstDayGrows, FirstDayFacts
  <2>3. m + 1 # n /\ n + 1 # m
    BY <1>1, <2>1, FirstDayFacts
  <2> QED
    BY <2>1, <2>2, <2>3
<1>2. \E n \in Months : FirstDay[n] <= day /\ day < FirstDay[n + 1]
  OBVIOUS
<1> QED
  BY <1>1, <1>2 DEF Month

LEMMA MonthFound ==
    ASSUME NEW day \in Nat, day < FirstDay[NumberOfMonths + 1]
    PROVE  /\ Month(day) \in Months
           /\ FirstDay[Month(day)] <= day /\ day < FirstDay[Month(day) + 1]
<1> DEFINE S == {n \in 1 .. NumberOfMonths + 1 : day < FirstDay[n]}
<1>1. NumberOfMonths + 1 \in S /\ S \in SUBSET Nat
  BY MonthsType
<1>2. PICK n \in S : \A k \in S : n <= k
  <2> HIDE DEF S
  <2> QED
    BY <1>1, LeastNat
<1>3. n # 1
  BY FirstDayFacts
<1>4. n - 1 \in Months /\ n - 1 \notin S /\ n - 1 \in 1 .. NumberOfMonths + 1 /\ (n - 1) + 1 = n
  BY <1>2, <1>3, MonthsType DEF Months, NumberOfMonths
<1>5. FirstDay[n - 1] <= day /\ day < FirstDay[(n - 1) + 1]
  BY <1>4, FirstDayFacts
<1> QED
  BY <1>4, <1>5, MonthIs

\* Seven days have every weekday, so the search for the next one ends.
LEMMA FirstFromFound ==
    ASSUME NEW w \in SUBSET Weekdays, w # {}, NEW day \in Nat
    PROVE  /\ FirstFrom(w, day) \in day .. day + 6 /\ FirstFrom(w, day) % 7 \in w
           /\ \A x \in day .. FirstFrom(w, day) - 1 : x % 7 \notin w
<1> DEFINE S == {d \in day .. day + 6 : d % 7 \in w}
<1>1. PICK v \in w : v \in 0 .. 6
  BY DEF Weekdays
<1>2. day + ((v - day) % 7) \in S
  BY <1>1
<1>3. S \in SUBSET Nat
  OBVIOUS
<1>4. PICK d \in S : \A x \in S : d <= x
  <2> HIDE DEF S
  <2> QED
    BY <1>2, <1>3, LeastNat
<1>5. d \in day .. day + 6 /\ d % 7 \in w /\ \A x \in day .. d - 1 : x % 7 \notin w
  BY <1>4
<1> QED
  BY <1>5 DEF FirstFrom

---------------------------------------------------------------------------
(* The C library's local time. *)

LEMMA SlotsType == DaySlots \in Nat \ {0}
BY CalendarAssumption

LEMMA IsDstIs == ASSUME NEW t \in Int PROVE IsDst(t) \in {0, 1} /\ Local(t) \in Int
BY DEF IsDst, Local

LEMMA LocalParts ==
    ASSUME NEW t \in Nat
    PROVE  /\ LocalDay(t) \in Nat /\ LocalHour(t) \in 0 .. DaySlots - 1
           /\ Local(t) = LocalDay(t) * DaySlots + LocalHour(t)
<1>1. Local(t) \in Nat /\ DaySlots \in Nat \ {0}
  BY CalendarAssumption DEF IsDst, Local
<1>2. ASSUME NEW n \in Nat
      PROVE  /\ n \div DaySlots \in Nat /\ n % DaySlots \in 0 .. DaySlots - 1
             /\ n = (n \div DaySlots) * DaySlots + (n % DaySlots)
  <2>1. n \in Int /\ n \div DaySlots \in Nat
    BY SlotsType, NaturalDivision
  <2>2. n % DaySlots \in 0 .. DaySlots - 1 /\ n = (n \div DaySlots) * DaySlots + (n % DaySlots)
    BY <2>1, SlotsType, Division
  <2> QED
    BY <2>1, <2>2
<1>3. LocalDay(t) = Local(t) \div DaySlots /\ LocalHour(t) = Local(t) % DaySlots
  BY DEF LocalDay, LocalHour, Local
<1> HIDE DEF Local
<1> QED
  BY <1>1, <1>2, <1>3, Zenon

LEMMA LocalIs ==
    ASSUME NEW t \in Nat, NEW day \in Int, NEW hour \in 0 .. DaySlots - 1,
           Local(t) = day * DaySlots + hour
    PROVE  LocalDay(t) = day /\ LocalHour(t) = hour
BY DivisionIs, CalendarAssumption DEF LocalDay, LocalHour, Local

\* The clock does not show the same time twice, but when summer time ends.
LEMMA LocalOrder ==
    ASSUME NEW s \in Nat, NEW t \in Nat, s < t, s # DstEnd - 1 \/ t # DstEnd
    PROVE  Local(s) < Local(t)
BY CalendarAssumption DEF Local, IsDst

\* Two times of the same hour are ordered as their days.
LEMMA SameHourOrder ==
    ASSUME NEW s \in Nat, NEW t \in Nat, Local(s) < Local(t), LocalHour(s) = LocalHour(t)
    PROVE  LocalDay(s) < LocalDay(t)
<1>1. /\ LocalDay(s) \in Int /\ LocalDay(t) \in Int /\ LocalHour(s) \in 0 .. DaySlots - 1
      /\ LocalDay(s) * DaySlots + LocalHour(s) < LocalDay(t) * DaySlots + LocalHour(s)
  BY LocalParts
<1> QED
  BY <1>1, QuotientsOrder, SlotsType

---------------------------------------------------------------------------
(* The next day of a timer. *)

LEMMA KindsAre ==
    ASSUME NEW k \in Kinds
    PROVE  \/ k.days \in {1, 7, 14, 28} /\ k.months = 0 /\ k.weekdays = {}
           \/ k.days = 0 /\ k.months = 1 /\ k.weekdays = {}
           \/ k.days = 0 /\ k.months = 0 /\ k.weekdays \in SUBSET Weekdays /\ k.weekdays # {}
<1>1. CASE k \in {ByDays(1), ByDays(7), ByDays(14), ByDays(28)}
  BY <1>1 DEF ByDays
<1>2. CASE k = Monthly
  BY <1>2 DEF Monthly
<1>3. CASE k \in {OnWeekdays(w) : w \in (SUBSET Weekdays) \ {{}}}
  <2>1. PICK w \in (SUBSET Weekdays) \ {{}} : k = OnWeekdays(w)
    BY <1>3
  <2>2. k.days = 0 /\ k.months = 0 /\ k.weekdays = w
    BY <2>1 DEF OnWeekdays
  <2>3. w \in SUBSET Weekdays /\ w # {}
    OBVIOUS
  <2> QED
    BY <2>2, <2>3
<1> QED
  BY <1>1, <1>2, <1>3, KindsAssumption

LEMMA NowBound ==
    ASSUME NEW n \in Nows, NEW t \in Nat, t <= n
    PROVE  LocalDay(t) <= FirstDay[NumberOfMonths - 1]
<1>1. n \in Nat /\ n < DaySlots * FirstDay[NumberOfMonths - 1]
  BY HorizonAssumption, CalendarAssumption DEF NumberOfMonths
<1>2. FirstDay[NumberOfMonths - 1] \in Nat
  BY FirstDayFacts, MonthsType
<1>3. Local(t) <= t + 1 /\ Local(t) \in Nat
  BY DEF Local, IsDst
<1> DEFINE d == FirstDay[NumberOfMonths - 1]
<1>4. d \in Nat /\ n < DaySlots * d
  BY <1>1, <1>2
<1> HIDE DEF d
<1>5. Local(t) <= d * DaySlots /\ d * DaySlots \in Nat
  <2>1. DaySlots * d \in Nat /\ d * DaySlots = DaySlots * d
    BY <1>4, SlotsType
  <2> QED
    BY <1>1, <1>3, <1>4, <2>1
<1>6. ~ (d < LocalDay(t))
  <2> SUFFICES ASSUME d < LocalDay(t) PROVE FALSE
    OBVIOUS
  <2>1. /\ LocalDay(t) \in Int /\ LocalHour(t) \in 0 .. DaySlots - 1
        /\ Local(t) = LocalDay(t) * DaySlots + LocalHour(t)
    BY LocalParts
  <2>2. d * DaySlots + DaySlots <= LocalDay(t) * DaySlots /\ LocalDay(t) * DaySlots \in Int
    BY <1>4, <2>1, SlotsType, Multiples
  <2> QED
    BY <1>5, <2>1, <2>2, SlotsType
<1> QED
  BY <1>4, <1>6, LocalParts DEF d

\* A day not after the horizon is in a month, and another month follows.
LEMMA MonthBeforeHorizon ==
    ASSUME NEW day \in Nat, day <= FirstDay[NumberOfMonths - 1]
    PROVE  /\ Month(day) \in Months /\ Month(day) + 1 \in Months
           /\ FirstDay[Month(day)] <= day /\ day < FirstDay[Month(day) + 1]
           /\ MonthDay(day) \in Nat /\ MonthDay(day) < MonthLengths[Month(day)]
<1> DEFINE n == NumberOfMonths
<1>1. n \in Nat /\ n > 2 /\ n - 1 \in 1 .. n + 1 /\ n \in 1 .. n + 1 /\ n + 1 \in 1 .. n + 1
  BY MonthsType
<1>2. FirstDay[n - 1] < FirstDay[n] /\ FirstDay[n] < FirstDay[n + 1]
  BY <1>1, FirstDayGrows
<1>3. FirstDay[n - 1] \in Nat /\ FirstDay[n] \in Nat /\ FirstDay[n + 1] \in Nat
  BY <1>1, FirstDayFacts
<1>4. day < FirstDay[n] /\ day < FirstDay[n + 1]
  BY <1>2, <1>3
<1>5. /\ Month(day) \in Months
      /\ FirstDay[Month(day)] <= day /\ day < FirstDay[Month(day) + 1]
  BY <1>4, MonthFound
<1>6. Month(day) # n
  BY <1>3, <1>4, <1>5
<1>7. FirstDay[Month(day)] \in Nat /\ MonthLengths[Month(day)] \in Nat
      /\ FirstDay[Month(day) + 1] = FirstDay[Month(day)] + MonthLengths[Month(day)]
      /\ Month(day) + 1 \in Months
  BY <1>1, <1>5, <1>6, FirstDayFacts, MonthsType DEF Months, NumberOfMonths
<1> QED
  BY <1>5, <1>7 DEF MonthDay

\* A round goes forward.
LEMMA NextDayLater ==
    ASSUME NEW k \in Kinds, NEW day \in Nat, day <= FirstDay[NumberOfMonths - 1]
    PROVE  NextDay(k, day) \in Nat /\ day < NextDay(k, day)
<1>1. CASE k.weekdays # {}
  <2>1. k.weekdays \in SUBSET Weekdays /\ day + 1 \in Nat
    BY <1>1, KindsAre
  <2>2. FirstFrom(k.weekdays, day + 1) \in day + 1 .. (day + 1) + 6
    BY <1>1, <2>1, FirstFromFound
  <2> QED
    BY <1>1, <2>2 DEF NextDay, NextDayOr
<1>2. CASE k.weekdays = {} /\ k.months = 1
  <2>1. FirstDay[Month(day) + 1] \in Nat /\ FirstDay[Month(day)] \in Nat
        /\ FirstDay[Month(day)] <= day /\ day < FirstDay[Month(day) + 1]
    BY MonthBeforeHorizon, FirstDayFacts, MonthsType DEF Months, NumberOfMonths
  <2> QED
    BY <1>2, <2>1 DEF NextDay, NextDayOr, MonthDay
<1>3. CASE k.weekdays = {} /\ k.months = 0 /\ k.days \in {1, 7, 14, 28}
  BY <1>3 DEF NextDay, NextDayOr
<1> QED
  BY <1>1, <1>2, <1>3, KindsAre

\* A round arrives on the next day at the same hour, or, if that is the hour
\* summer time leaves out on this day, at the hour before.
LEMMA RoundArrives ==
    ASSUME NEW k \in Kinds, NEW t \in Nat, LocalDay(t) <= FirstDay[NumberOfMonths - 1],
           NEW a, a = t + RoundDiff(k, t)
    PROVE  /\ a \in Nat /\ t <= a /\ RoundDiff(k, t) = a - t
           /\ \/ LocalDay(a) = NextDay(k, LocalDay(t)) /\ LocalHour(a) = LocalHour(t)
              \/ /\ LocalHour(t) = DstStart % DaySlots
                 /\ LocalHour(a) = (LocalHour(t) - 1) % DaySlots
                 /\ LocalHour(t) > 0 => LocalDay(a) = NextDay(k, LocalDay(t))
<1> DEFINE day == NextDay(k, LocalDay(t))
           hour == LocalHour(t)
           x == day * DaySlots + hour
           dst == IsDst(t)
<1>1. /\ LocalDay(t) \in Nat /\ hour \in 0 .. DaySlots - 1
      /\ Local(t) = LocalDay(t) * DaySlots + hour /\ Local(t) = t + dst /\ dst \in {0, 1}
  BY LocalParts, IsDstIs DEF Local
<1>2. day \in Nat /\ LocalDay(t) < day
  BY <1>1, NextDayLater
<1>3. RoundDiff(k, t) = (x - dst - t) + (dst - IsDst(x - dst))
  <2> DEFINE next == MkTime(day, hour, dst)
  <2>1. RoundDiff(k, t) = (next - t) + (dst - IsDst(next))
    BY Zenon DEF RoundDiff, Correction
  <2>2. next = x - dst
    <3>1. day * DaySlots \in Int /\ hour \in Int /\ dst \in Int
      BY <1>1, <1>2, SlotsType
    <3> QED
      BY <3>1 DEF MkTime
  <2> QED
    BY <2>1, <2>2
<1> HIDE DEF day, hour, dst
<1>4. x \in Nat /\ t + dst + DaySlots <= x
  <2>1. LocalDay(t) * DaySlots + DaySlots <= day * DaySlots /\ day * DaySlots \in Int
        /\ LocalDay(t) * DaySlots \in Int
    BY <1>1, <1>2, SlotsType, Multiples
  <2> QED
    BY <1>1, <2>1, SlotsType
<1> HIDE DEF x
<1>5. a = x - IsDst(x - dst) /\ RoundDiff(k, t) = a - t /\ a \in Nat /\ t <= a
  <2>1. IsDst(x - dst) \in {0, 1}
    BY <1>1, <1>4, IsDstIs
  <2>2. x - dst - t \in Int /\ dst - IsDst(x - dst) \in Int
    BY <1>1, <1>4, <2>1
  <2> QED
    BY <1>1, <1>3, <1>4, <2>1, <2>2, SlotsType
<1>6. Local(a) = x \/ (x = DstStart /\ Local(a) = x - 1)
  BY <1>1, <1>4, <1>5, CalendarAssumption DEF Local, IsDst
<1>7. CASE Local(a) = x
  <2>1. LocalDay(a) = day /\ LocalHour(a) = hour
    BY <1>1, <1>2, <1>5, <1>7, LocalIs DEF x
  <2> QED
    BY <1>5, <2>1 DEF day, hour
<1>8. CASE x = DstStart /\ Local(a) = x - 1
  <2>1. hour = DstStart % DaySlots
    <3>1. x % DaySlots = hour
      BY <1>1, <1>2, DivisionIs, SlotsType DEF x
    <3> QED
      BY <1>8, <3>1
  <2>2. CASE hour > 0
    <3>1. hour - 1 \in 0 .. DaySlots - 1 /\ day \in Int /\ day * DaySlots \in Int
      BY <1>1, <1>2, <2>2, SlotsType
    <3>2. Local(a) = day * DaySlots + (hour - 1)
      BY <1>1, <1>8, <3>1 DEF x
    <3>3. LocalDay(a) = day /\ LocalHour(a) = hour - 1
      BY <1>5, <3>1, <3>2, LocalIs
    <3>4. (0 * DaySlots + (hour - 1)) % DaySlots = hour - 1 /\ 0 * DaySlots = 0
      BY <3>1, DivisionIs, SlotsType
    <3>5. (hour - 1) % DaySlots = hour - 1
      BY <1>1, <3>1, <3>4
    <3> QED
      BY <1>5, <2>1, <3>3, <3>5 DEF day, hour
  <2>3. CASE hour = 0
    <3>1. DaySlots - 1 \in 0 .. DaySlots - 1 /\ day - 1 \in Int /\ -1 \in Int
      BY <1>2, SlotsType
    <3>2. (day - 1) * DaySlots = day * DaySlots - DaySlots /\ day * DaySlots \in Int
      BY <1>2, SlotsType
    <3>3. Local(a) = (day - 1) * DaySlots + (DaySlots - 1)
      BY <1>8, <2>3, <3>2, SlotsType DEF x
    <3>4. LocalHour(a) = DaySlots - 1
      BY <1>5, <3>1, <3>3, LocalIs
    <3>5. ((-1) * DaySlots + (DaySlots - 1)) % DaySlots = DaySlots - 1
      BY <3>1, DivisionIs, SlotsType
    <3>6. (-1) * DaySlots + (DaySlots - 1) = hour - 1
      BY <2>3, SlotsType
    <3> QED
      BY <1>5, <2>1, <2>3, <3>4, <3>5, <3>6 DEF day, hour
  <2> QED
    BY <1>1, <2>2, <2>3, SlotsType
<1> QED
  BY <1>6, <1>7, <1>8

\* The next day of a timer is on its calendar, and it is the next one that is.
LEMMA CalendarNext ==
    ASSUME kind \in Kinds, first \in Nat, NEW day \in Nat, day <= FirstDay[NumberOfMonths - 1],
           OnCalendar(day), kind.months > 0 => EveryMonthHas
    PROVE  /\ OnCalendar(NextDay(kind, day))
           /\ \A e \in day + 1 .. NextDay(kind, day) - 1 : ~OnCalendar(e)
<1> DEFINE next == NextDay(kind, day)
           start == LocalDay(first)
<1>1. start \in Nat
  BY LocalParts
<1>2. CASE kind.days \in {1, 7, 14, 28} /\ kind.months = 0 /\ kind.weekdays = {}
  <2>1. next = day + kind.days
    BY <1>2 DEF NextDay, NextDayOr
  <2>2. \A d : OnCalendar(d) <=> (d - start) % kind.days = 0
    BY <1>2 DEF OnCalendar
  <2>3. (day - start) % kind.days = 0
    BY <2>2
  <2> HIDE DEF next, start
  <2>4. (next - start) % kind.days = 0
    BY <1>1, <1>2, <2>1, <2>3
  <2>5. \A e \in day + 1 .. next - 1 : (e - start) % kind.days # 0
    BY <1>1, <1>2, <2>1, <2>3
  <2> QED
    BY <2>2, <2>4, <2>5 DEF next
<1>3. CASE kind.days = 0 /\ kind.months = 1 /\ kind.weekdays = {}
  <2> DEFINE m == Month(day)
             c == MonthDay(day)
  <2>1. \A d : OnCalendar(d) <=> MonthDay(d) = MonthDay(start)
    BY <1>3 DEF OnCalendar
  <2>2. next = FirstDay[m + 1] + c
    BY <1>3 DEF NextDay, NextDayOr
  <2>3. c = MonthDay(start)
    BY <2>1
  <2>4. /\ m \in Months /\ m + 1 \in Months /\ FirstDay[m] <= day /\ day < FirstDay[m + 1]
        /\ c \in Nat /\ c = day - FirstDay[m]
    BY MonthBeforeHorizon DEF MonthDay
  <2>5. c < MonthLengths[m + 1] /\ MonthLengths[m + 1] \in Nat
    BY <1>3, <2>3, <2>4, MonthsType DEF EveryMonthHas
  <2>6. /\ FirstDay[m] \in Nat /\ FirstDay[m + 1] \in Nat
        /\ FirstDay[(m + 1) + 1] = FirstDay[m + 1] + MonthLengths[m + 1]
    BY <2>4, FirstDayFacts, MonthsType DEF Months, NumberOfMonths
  <2> HIDE DEF next, start, m, c
  <2>7. MonthDay(next) = c
    <3>1. next \in Nat /\ FirstDay[m + 1] <= next /\ next < FirstDay[(m + 1) + 1]
      BY <2>2, <2>4, <2>5, <2>6
    <3>2. Month(next) = m + 1
      BY <2>4, <3>1, MonthIs
    <3> QED
      BY <2>2, <2>4, <2>6, <3>2 DEF MonthDay
  <2>8. ASSUME NEW e \in day + 1 .. next - 1 PROVE MonthDay(e) # c
    <3>1. e \in Nat /\ day < e /\ e < next
      BY <2>2, <2>4, <2>6
    <3>2. CASE e < FirstDay[m + 1]
      <4>1. Month(e) = m
        BY <2>4, <2>6, <3>1, <3>2, MonthIs
      <4> QED
        BY <2>4, <2>6, <3>1, <4>1 DEF MonthDay
    <3>3. CASE FirstDay[m + 1] <= e
      <4>1. e < FirstDay[(m + 1) + 1]
        BY <2>2, <2>4, <2>5, <2>6, <3>1
      <4>2. Month(e) = m + 1
        BY <2>4, <3>1, <3>3, <4>1, MonthIs
      <4> QED
        BY <2>2, <2>4, <2>6, <3>1, <4>2 DEF MonthDay
    <3> QED
      BY <2>6, <3>1, <3>2, <3>3
  <2> QED
    BY <2>1, <2>3, <2>7, <2>8 DEF next
<1>4. CASE /\ kind.days = 0 /\ kind.months = 0
           /\ kind.weekdays \in SUBSET Weekdays /\ kind.weekdays # {}
  <2>1. next = FirstFrom(kind.weekdays, day + 1)
    BY <1>4 DEF NextDay, NextDayOr
  <2>2. \A d : OnCalendar(d) <=> d % 7 \in kind.weekdays
    BY <1>4 DEF OnCalendar
  <2> HIDE DEF next
  <2>3. next % 7 \in kind.weekdays /\ \A x \in day + 1 .. next - 1 : x % 7 \notin kind.weekdays
    <3> DEFINE w == kind.weekdays
    <3>1. w \in SUBSET Weekdays /\ w # {} /\ day + 1 \in Nat
      BY <1>4
    <3> HIDE DEF w
    <3>2. /\ FirstFrom(w, day + 1) % 7 \in w
          /\ \A x \in day + 1 .. FirstFrom(w, day + 1) - 1 : x % 7 \notin w
      BY <3>1, FirstFromFound
    <3> QED
      BY <2>1, <3>2 DEF w
  <2> QED
    BY <2>2, <2>3 DEF next
<1> QED
  BY <1>2, <1>3, <1>4, KindsAre

---------------------------------------------------------------------------
(* The invariant. *)

LEMMA RegularHour ==
    ASSUME TypeOK, SameHour, ~Skipped
    PROVE  LocalHour(alarm) = Hour
BY DEF SameHour

LEMMA InitInv == Init => CInv
<1> SUFFICES ASSUME Init PROVE CInv
  OBVIOUS
<1>1. PICK day \in StartDays, hour \in Hours, dst \in {0, 1} :
        /\ kind.weekdays # {} => day % 7 \in kind.weekdays
        /\ first = MkTime(day, hour, dst) /\ IsDst(first) = dst
  BY Zenon DEF Init
<1>2. /\ kind \in Kinds /\ length \in Lengths /\ lead \in {0, 1} /\ first > 1
      /\ alarm = first /\ stop = first + length
      /\ announce = IF lead > 0 THEN first - lead ELSE 0
      /\ state = "HASFINISHED" /\ now \in Nows /\ now >= alarm
  BY DEF Init
<1>3. day \in Nat /\ hour \in 0 .. DaySlots - 1 /\ length \in Nat \ {0} /\ now \in Nat
  BY <1>2, CalendarAssumption
<1>4. first \in Nat /\ Local(first) = day * DaySlots + hour
  <2>1. day * DaySlots \in Int /\ hour \in Int /\ dst \in Int
    BY <1>3, SlotsType
  <2>2. first \in Int
    BY <1>1, <2>1 DEF MkTime
  <2> QED
    BY <1>1, <1>2, <2>1, <2>2 DEF MkTime, Local
<1>5. LocalDay(first) = day
  BY <1>3, <1>4, LocalIs
<1>6. TypeOK
  BY <1>2, <1>3, <1>4 DEF TypeOK
<1>7. SameHour
  BY <1>2, <1>3, <1>4 DEF SameHour, Hour
<1>8. StaysOnCalendar
  <2>1. OnCalendar(day)
    <3>1. kind.weekdays = {} => (day - day) % kind.days = 0 \/ kind.months > 0
      BY <1>2, <1>3, KindsAre
    <3> QED
      BY <1>1, <1>2, <1>5, KindsAre, <3>1 DEF OnCalendar
  <2> QED
    BY <1>2, <1>5, <2>1 DEF StaysOnCalendar
<1>9. NoneSoFar
  BY <1>2, <1>3, <1>4 DEF NoneSoFar
<1> QED
  BY <1>6, <1>7, <1>8, <1>9 DEF CInv

LEMMA RoundInv == ASSUME CInv, Round PROVE CInv'
<1> DEFINE d == RoundDiff(kind, alarm)
           day == LocalDay(alarm)
<1>1. /\ kind \in Kinds /\ state \in {"HASFINISHED", "SCHEDULED"}
      /\ first \in Nat /\ alarm \in Nat /\ alarm > 1 /\ announce \in Nat /\ stop \in Nat
      /\ length \in Nat \ {0} /\ lead \in {0, 1} /\ now \in Nows /\ now \in Nat
  BY CalendarAssumption DEF CInv, TypeOK
<1>2. /\ alarm <= now /\ alarm' = alarm + d
      /\ announce' = IF announce > 0 THEN announce + d ELSE announce
      /\ stop' = IF stop > 0 THEN stop + d ELSE stop
      /\ UNCHANGED <<kind, state, first, length, lead, now>>
  BY DEF Round, asSet
<1>3. day \in Nat /\ day <= FirstDay[NumberOfMonths - 1]
  BY <1>1, <1>2, NowBound, LocalParts
<1>4. /\ alarm' \in Nat /\ alarm <= alarm' /\ d = alarm' - alarm
      /\ \/ LocalDay(alarm') = NextDay(kind, day) /\ LocalHour(alarm') = LocalHour(alarm)
         \/ /\ LocalHour(alarm) = DstStart % DaySlots
            /\ LocalHour(alarm') = (LocalHour(alarm) - 1) % DaySlots
            /\ LocalHour(alarm) > 0 => LocalDay(alarm') = NextDay(kind, day)
  BY <1>1, <1>2, <1>3, RoundArrives
<1> HIDE DEF d
<1>5. /\ stop - alarm = length /\ announce = IF lead > 0 THEN alarm - lead ELSE 0
      /\ \/ LocalHour(alarm) = Hour
         \/ Skipped /\ LocalHour(alarm) = (Hour - 1) % DaySlots
  BY DEF CInv, SameHour
<1>6. stop' = alarm' + length /\ announce' = IF lead > 0 THEN alarm' - lead ELSE 0
  BY <1>1, <1>2, <1>4, <1>5
<1>7. TypeOK'
  BY <1>1, <1>2, <1>4, <1>6 DEF TypeOK
<1>8. Hour' = Hour /\ Skipped' = Skipped /\ EveryMonthHas' = EveryMonthHas
      /\ \A e : OnCalendar(e)' = OnCalendar(e)
  BY <1>2 DEF Hour, Skipped, EveryMonthHas, OnCalendar
<1>9. SameHour'
  <2>1. \/ LocalHour(alarm') = Hour
        \/ Skipped /\ LocalHour(alarm') = (Hour - 1) % DaySlots
    BY <1>4, <1>5 DEF Skipped
  <2>2. stop' - alarm' = length'
    BY <1>1, <1>2, <1>4, <1>6
  <2> QED
    BY <1>2, <1>6, <1>8, <2>1, <2>2 DEF SameHour
<1>10. ASSUME kind.months > 0 => EveryMonthHas, ~(Skipped /\ Hour = 0)
       PROVE  /\ LocalDay(alarm') = NextDay(kind, day) /\ OnCalendar(NextDay(kind, day))
              /\ OnCalendar(day)
              /\ \A e \in day + 1 .. NextDay(kind, day) - 1 : ~OnCalendar(e)
  <2>1. OnCalendar(day)
    BY <1>10 DEF CInv, StaysOnCalendar
  <2>2. LocalHour(alarm) = 0 /\ LocalHour(alarm) = DstStart % DaySlots => FALSE
    BY <1>5, <1>10 DEF Skipped
  <2>3. LocalHour(alarm) \in Nat
    BY <1>1, LocalParts
  <2>4. LocalDay(alarm') = NextDay(kind, day)
    BY <1>4, <2>2, <2>3
  <2> QED
    BY <1>1, <1>3, <1>10, <2>1, <2>4, CalendarNext
<1>11. StaysOnCalendar'
  BY <1>2, <1>8, <1>10 DEF StaysOnCalendar
<1>12. NoneSoFar'
  <2> SUFFICES ASSUME ~Skipped, kind.months > 0 => EveryMonthHas,
                      NEW t \in (now + 1 .. alarm' - 1) \ {DstEnd - 1, DstEnd},
                      OnCalendar(LocalDay(t)), LocalHour(t) = Hour
               PROVE  FALSE
    BY <1>2, <1>8 DEF NoneSoFar, RegularTimer
  <2>1. t \in Nat /\ alarm < t /\ t < alarm' /\ t # DstEnd /\ t # DstEnd - 1
    BY <1>1, <1>2, <1>4
  <2>2. LocalHour(alarm) = Hour /\ LocalHour(alarm') = Hour
    BY <1>4, <1>5 DEF Skipped
  <2>3. Local(alarm) < Local(t) /\ Local(t) < Local(alarm')
    BY <1>1, <1>4, <2>1, LocalOrder
  <2>4. day < LocalDay(t) /\ LocalDay(t) < LocalDay(alarm')
    BY <1>1, <1>4, <2>1, <2>2, <2>3, SameHourOrder
  <2>5. LocalDay(t) \in Nat /\ LocalDay(alarm') \in Nat
    BY <1>4, <2>1, LocalParts
  <2>6. LocalDay(t) \in day + 1 .. NextDay(kind, day) - 1
    BY <1>3, <1>10, <2>4, <2>5
  <2> QED
    BY <1>10, <2>6
<1> QED
  BY <1>7, <1>9, <1>11, <1>12 DEF CInv

LEMMA RescheduledInv == ASSUME CInv, Rescheduled PROVE CInv'
BY DEF CInv, Rescheduled, asSet, TypeOK, SameHour, StaysOnCalendar, NoneSoFar, RegularTimer,
   Hour, Skipped, EveryMonthHas, OnCalendar

LEMMA RunAgainInv == ASSUME CInv, RunAgain PROVE CInv'
<1>1. TypeOK' /\ SameHour' /\ StaysOnCalendar'
  BY DEF CInv, RunAgain, asSet, TypeOK, SameHour, StaysOnCalendar, Hour, Skipped,
     EveryMonthHas, OnCalendar
<1>2. NoneSoFar'
  <2>1. alarm' = alarm /\ alarm \in Nat /\ now' \in Nat /\ alarm <= now'
    BY CalendarAssumption DEF CInv, RunAgain, TypeOK
  <2>2. ASSUME NEW n \in Nat, alarm <= n PROVE n + 1 .. alarm - 1 = {}
    BY <2>1, <2>2
  <2>3. now' + 1 .. alarm' - 1 = {}
    BY <2>1, <2>2
  <2> QED
    BY <2>3 DEF NoneSoFar
<1> QED
  BY <1>1, <1>2 DEF CInv

\* No step leaves the invariant.
LEMMA NextInv == CInv /\ [Next]_vars => CInv'
<1> SUFFICES ASSUME CInv, [Next]_vars PROVE CInv'
  OBVIOUS
<1>1. CASE Round
  BY <1>1, RoundInv
<1>2. CASE Rescheduled
  BY <1>2, RescheduledInv
<1>3. CASE RunAgain
  BY <1>3, RunAgainInv
<1>4. CASE UNCHANGED vars
  BY <1>4 DEF CInv, vars, asSet, TypeOK, SameHour, StaysOnCalendar, NoneSoFar, RegularTimer,
     Hour, Skipped, EveryMonthHas, OnCalendar
<1> QED
  BY <1>1, <1>2, <1>3, <1>4 DEF Next

LEMMA Invariance == Spec => []CInv
BY InitInv, NextInv, PTL DEF Spec

---------------------------------------------------------------------------

\* Whatever rounds Reschedule takes and however often summer time comes and
\* goes, a repeating timer stays on the days its repeat kind promises.
THEOREM DaysKept == Spec => []StaysOnCalendar
<1>1. CInv => StaysOnCalendar
  BY DEF CInv
<1> QED
  BY <1>1, Invariance, PTL

\* It stays at its hour, or at the one before if summer time leaves its hour
\* out; length and lead stay what they were.
THEOREM HourKept == Spec => []SameHour
<1>1. CInv => SameHour
  BY DEF CInv
<1> QED
  BY <1>1, Invariance, PTL

\* Reschedule goes to the next of the timer's days: it leaves none out.
THEOREM NextDayTaken == Spec => []NoneLeftOut
<1>1. CInv => NoneLeftOut
  BY DEF CInv, NoneSoFar, NoneLeftOut, RegularTimer
<1> QED
  BY <1>1, Invariance, PTL

=============================================================================
