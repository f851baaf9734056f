--------------------------- MODULE TemporalProofs ---------------------------
(***************************************************************************)
(* For every text and every window: which texts are dates, the weekday of  *)
(* a date, and when a window is open.  The congruence is compared with the *)
(* count of days by writing the year as 100 * j + k, as the code does; the *)
(* months contribute a finite table.                                       *)
(***************************************************************************)
EXTENDS Temporal, TLAPS

\* What a state keeps: an instant is what its text parses to, and a window was
\* tested against it.
TemporalInv ==
  /\ text \in TextType \cup {Malformed}
  /\ instant = Unparsed \/ instant = parse_iso8601(text)
  /\ active \in BOOLEAN
  /\ window # NoWindow =>
       /\ window \in Windows
       /\ instant.kind = "instant"
       /\ active = eval_active_at(window, instant)

LEMMA TemporalInvHolds == Spec => []TemporalInv
<1>1. Init => TemporalInv
  BY TemporalAssumption DEF Init, TemporalInv
<1>2. TemporalInv /\ [Next]_vars => TemporalInv'
  <2> SUFFICES ASSUME TemporalInv, [Next]_vars  PROVE TemporalInv'
    OBVIOUS
  <2>1. CASE ParseAt
    BY <2>1 DEF TemporalInv, ParseAt, Unparsed
  <2>2. ASSUME NEW w \in Windows, TestWindow(w)  PROVE TemporalInv'
    <3>1. active' = eval_active_at(w, instant)' /\ window' = w
      BY <2>2 DEF TestWindow, eval_active_at
    <3>2. active' \in BOOLEAN /\ instant' = instant /\ text' = text
      BY <2>2 DEF TestWindow, eval_active_at
    <3>3. QED  BY <2>2, <3>1, <3>2 DEF TemporalInv, TestWindow
  <2>3. CASE UNCHANGED vars
    BY <2>3 DEF TemporalInv, vars
  <2>4. QED  BY <2>1, <2>2, <2>3 DEF Next
<1>3. QED  BY <1>1, <1>2, PTL DEF Spec

-----------------------------------------------------------------------------
\* Of natural numbers, Rust's division is the usual one.
LEMMA QuotNat ==
  ASSUME NEW a \in Nat
  PROVE  /\ Quot(a, 4) = a \div 4 /\ Quot(a, 5) = a \div 5
         /\ Quot(a, 100) = a \div 100
         /\ Rem(a, 4) = a % 4 /\ Rem(a, 100) = a % 100 /\ Rem(a, 400) = a % 400
         /\ Rem(a, 7) = a % 7
BY DEF Quot, Rem

\* A multiple of the week does not move the weekday.
LEMMA Week7 ==
  ASSUME NEW n \in Int, NEW q \in Int
  PROVE  (n + 7 * q) % 7 = n % 7
OBVIOUS

\* The parts of the count of days: those of the years, which start in March,
\* before one, and of a year's months before one.
YearDays(y)       == 365 * y + y \div 4 - y \div 100 + y \div 400
DaysBefore(month) == (153 * ((month + 9) % 12) + 2) \div 5

MarchDays(y, month, day) == YearDays(y) + DaysBefore(month) + day - 1 - Epoch

\* The two counts of the days of the months before one, in years that start in
\* March, differ by whole weeks and ten days.
LEMMA MonthTable ==
  ASSUME NEW month \in 1..12
  PROVE  LET m  == IF month < 3 THEN month + 12 ELSE month
             mp == (month + 9) % 12
         IN  DaysBefore(month) = (13 * (m + 1)) \div 5 + 7 * (4 * mp) - 10
<1> DEFINE m  == IF month < 3 THEN month + 12 ELSE month
           mp == (month + 9) % 12
<1>1. mp \in Nat /\ m + 1 = mp + 4
  BY SMT
<1>2. (153 * mp + 2) \div 5 = (13 * (mp + 4)) \div 5 + 28 * mp - 10
  <2> HIDE DEF mp
  <2>1. QED  BY <1>1, SMT
<1>3. DaysBefore(month) = (153 * mp + 2) \div 5
  BY DEF DaysBefore
<1>4. DaysBefore(month) = (13 * (m + 1)) \div 5 + 7 * (4 * mp) - 10
  <2> HIDE DEF mp, m
  <2>1. QED  BY <1>1, <1>2, <1>3, SMT
<1>5. QED  BY <1>4, Zenon

\* The years of the count of days, by century and year of the century.
LEMMA YearSplit ==
  ASSUME NEW j \in Nat, NEW k \in 0..99
  PROVE  YearDays(100 * j + k)
           = k + k \div 4 + j \div 4 + 5 * j + 7 * (5217 * j + 52 * k)
<1>1. (100 * j + k) \div 4 = 25 * j + k \div 4
  BY SMT
<1>2. (100 * j + k) \div 400 = j \div 4 /\ (100 * j + k) \div 100 = j
  BY SMT
<1>3. QED  BY <1>1, <1>2, SMT DEF YearDays

\* The congruence over years that start in March is the count of days.
LEMMA ZellerIsGregorian ==
  ASSUME NEW y \in Nat, NEW month \in 1..12, NEW day \in Nat
  PROVE  LET m == IF month < 3 THEN month + 12 ELSE month
         IN  Zeller(y, m, day) = ((MarchDays(y, month, day) + 3) % 7) + 1
<1> DEFINE m == IF month < 3 THEN month + 12 ELSE month
           j == y \div 100
           k == y % 100
           s == (13 * (m + 1)) \div 5
           h == day + s + k + k \div 4 + j \div 4 + 5 * j
           n == MarchDays(y, month, day)
<1>1. j \in Nat /\ k \in Nat /\ s \in Nat /\ h \in Nat /\ 13 * (m + 1) \in Nat
      /\ k \div 4 \in Nat /\ j \div 4 \in Nat
  OBVIOUS
<1>2. Zeller(y, m, day) = (((h % 7) + 5) % 7) + 1
  <2>1. Rem(y, 100) = k /\ Quot(y, 100) = j
    BY SMT DEF Rem, Quot
  <2>2. Quot(k, 4) = k \div 4 /\ Quot(j, 4) = j \div 4 /\ Quot(13 * (m + 1), 5) = s
    BY <1>1, QuotNat
  <2>3. Rem(h, 7) = h % 7 /\ Rem((h % 7) + 5, 7) = ((h % 7) + 5) % 7
    <3>1. (h % 7) + 5 \in Nat
      BY <1>1
    <3> HIDE DEF h
    <3>2. QED  BY <1>1, <3>1, QuotNat
  <2>4. QED  BY <2>1, <2>2, <2>3 DEF Zeller
<1>3. PICK c \in Int : DaysBefore(month) = s + 7 * c - 10
  <2>1. 4 * ((month + 9) % 12) \in Int
    BY SMT
  <2>2. QED  BY <2>1, MonthTable
<1>4. n + 3 = (h + 5) + 7 * (5217 * j + 52 * k + c - 102783)
  <2>1. YearDays(y) = k + k \div 4 + j \div 4 + 5 * j + 7 * (5217 * j + 52 * k)
    <3>1. y = 100 * j + k /\ k \in 0..99
      BY SMT
    <3> HIDE DEF j, k
    <3>2. QED  BY <1>1, <3>1, YearSplit
  <2> HIDE DEF j, k, s
  <2>2. QED  BY <1>1, <1>3, <2>1, SMT DEF MarchDays, Epoch
<1>5. (n + 3) % 7 = (h + 5) % 7
  <2>1. 5217 * j + 52 * k + c - 102783 \in Int /\ h + 5 \in Int
    BY <1>1
  <2> HIDE DEF h, n, j, k
  <2>2. QED  BY <1>4, <2>1, Week7
<1>6. ((h % 7) + 5) % 7 = (h + 5) % 7
  <2> HIDE DEF h
  <2>1. QED  BY <1>1
<1>7. QED  BY <1>2, <1>5, <1>6

LEMMA DayNumberInMarchDays ==
  ASSUME NEW year, NEW month, NEW day
  PROVE  DayNumber(year, month, day)
           = MarchDays(IF month <= 2 THEN year - 1 ELSE year, month, day)
BY SMT DEF DayNumber, MarchDays, YearDays, DaysBefore

LEMMA WeekdayOfDates ==
  ASSUME NEW year \in Nat, NEW month \in 1..12, NEW day \in Nat,
         ~(year = 0 /\ month < 3)
  PROVE  iso_weekday(year, month, day) = ((DayNumber(year, month, day) + 3) % 7) + 1
<1> DEFINE y == IF month <= 2 THEN year - 1 ELSE year
<1>1. y \in Nat /\ (month < 3 <=> month <= 2)
  OBVIOUS
<1>2. iso_weekday(year, month, day)
        = Zeller(y, IF month < 3 THEN month + 12 ELSE month, day)
  BY <1>1 DEF iso_weekday
<1>3. DayNumber(year, month, day) = MarchDays(y, month, day)
  BY DayNumberInMarchDays
<1> HIDE DEF y
<1>4. QED  BY <1>1, <1>2, <1>3, ZellerIsGregorian

\* A date's weekday, whatever its congruence counts: the year before 0000 too.
LEMMA WeekdayInWeek ==
  ASSUME NEW year \in Nat, NEW month \in 1..12, NEW day \in Nat
  PROVE  iso_weekday(year, month, day) \in 1..7
<1> DEFINE y == IF month < 3 THEN year - 1 ELSE year
           m == IF month < 3 THEN month + 12 ELSE month
           k == Rem(y, 100)
           j == Quot(y, 100)
           a == day + Quot(13 * (m + 1), 5) + k + Quot(k, 4) + Quot(j, 4) + 5 * j
<1>1. iso_weekday(year, month, day) = Rem(Rem(a, 7) + 5, 7) + 1
  BY DEF iso_weekday, Zeller
<1>2. 13 * (m + 1) \in Nat /\ Quot(13 * (m + 1), 5) \in Nat
      /\ Quot(13 * (m + 1), 5) >= 1
  BY SMT DEF Quot
<1>3. k \in Int /\ j \in Nat /\ Quot(k, 4) \in Int /\ Quot(j, 4) \in Nat
      /\ k + Quot(k, 4) >= -1
  <2>1. CASE y \in Nat
    <3>1. k = y % 100 /\ j = y \div 100
      BY <2>1, QuotNat
    <3>2. k \in Nat /\ j \in Nat
      BY <3>1, <2>1
    <3>3. Quot(k, 4) = k \div 4 /\ Quot(j, 4) = j \div 4
      BY <3>2, QuotNat
    <3> HIDE DEF k, j
    <3>4. QED  BY <3>2, <3>3
  <2>2. CASE y = -1
    BY <2>2, SMT DEF Quot, Rem
  <2>3. QED  BY <2>1, <2>2
<1>4. a \in Nat
  <2> HIDE DEF k, j
  <2>1. QED  BY <1>2, <1>3
<1>5. Rem(a, 7) = a % 7
  <2> HIDE DEF a
  <2>1. QED  BY <1>4, QuotNat
<1>6. Rem((a % 7) + 5, 7) = ((a % 7) + 5) % 7
  <2> HIDE DEF a
  <2>1. (a % 7) + 5 \in Nat
    BY <1>4
  <2>2. QED  BY <2>1, QuotNat
<1> HIDE DEF a
<1>7. QED  BY <1>1, <1>4, <1>5, <1>6

LEMMA FieldsOfTexts ==
  ASSUME NEW t \in TextType
  PROVE  /\ t.year \in Nat /\ t.month \in Nat /\ t.day \in Nat
         /\ t.hour \in Nat /\ t.minute \in Nat /\ t.second \in Nat
         /\ t.year \in Years /\ ~t.malformed
<1>1. /\ t.year \in Years /\ t.month \in TwoDigits /\ t.day \in TwoDigits
      /\ t.hour \in TwoDigits /\ t.minute \in TwoDigits /\ t.second \in TwoDigits
      /\ t.malformed \in {FALSE}
  BY Zenon DEF TextType
<1>2. Years \subseteq Nat /\ TwoDigits \subseteq Nat
  BY DEF Years, TwoDigits
<1>3. QED  BY <1>1, <1>2, Zenon

LEMMA ParsedInstant ==
  ASSUME NEW t \in TextType, parse_iso8601(t).kind = "instant"
  PROVE  /\ t.month \in 1..12 /\ t.day \in 1..days_in_month(t.year, t.month)
         /\ OnTheClock(t)
         /\ parse_iso8601(t).weekday = iso_weekday(t.year, t.month, t.day)
         /\ parse_iso8601(t).hour = t.hour
BY DEF parse_iso8601, Error

LEMMA InstantInWeek ==
  ASSUME TemporalInv
  PROVE  /\ instant.kind \in {"unparsed", "error", "instant"}
         /\ instant.kind = "instant" => instant.weekday \in 1..7 /\ instant.hour \in 0..23
<1>1. CASE instant = Unparsed
  BY <1>1 DEF Unparsed
<1>2. CASE instant = parse_iso8601(text) /\ text \in TextType
  <2>1. instant.kind \in {"error", "instant"}
    BY <1>2 DEF parse_iso8601, Error
  <2>2. ASSUME instant.kind = "instant"
        PROVE  instant.weekday \in 1..7 /\ instant.hour \in 0..23
    <3>1. /\ text.month \in 1..12 /\ OnTheClock(text)
          /\ instant.weekday = iso_weekday(text.year, text.month, text.day)
          /\ instant.hour = text.hour
      <4>1. text \in TextType /\ parse_iso8601(text).kind = "instant"
        BY <1>2, <2>2
      <4>2. QED  BY <4>1, <1>2, ParsedInstant, Zenon
    <3>2. text.year \in Nat /\ text.day \in Nat /\ text.hour \in Nat
      BY <1>2, FieldsOfTexts
    <3>3. text.hour \in 0..23
      BY <3>1, <3>2 DEF OnTheClock
    <3>4. iso_weekday(text.year, text.month, text.day) \in 1..7
      <4> HIDE <1>2, <2>2
      <4>1. QED  BY <3>1, <3>2, WeekdayInWeek, Zenon
    <3>5. QED  BY <3>1, <3>3, <3>4
  <2>3. QED  BY <2>1, <2>2
<1>3. CASE instant = parse_iso8601(text) /\ text = Malformed
  BY <1>3 DEF parse_iso8601, Malformed, Error
<1>4. QED  BY <1>1, <1>2, <1>3 DEF TemporalInv

\* The variables of every state have their types: the weekday and the hour of
\* a parsed instant are ones of a week and of a day, of whatever text.
THEOREM TemporalTypeCorrect == Spec => []TypeOK
<1>1. TemporalInv => TypeOK
  <2> SUFFICES ASSUME TemporalInv  PROVE TypeOK
    OBVIOUS
  <2>1. text = Malformed \/ text \in TextType
    BY DEF TemporalInv
  <2>2. /\ instant.kind \in {"unparsed", "error", "instant"}
        /\ instant.kind = "instant" => instant.weekday \in 1..7 /\ instant.hour \in 0..23
    BY InstantInWeek
  <2>3. active \in BOOLEAN /\ window \in Windows \cup {NoWindow}
    BY DEF TemporalInv, eval_active_at
  <2>4. QED  BY <2>1, <2>2, <2>3 DEF TypeOK
<1>2. QED  BY <1>1, TemporalInvHolds, PTL

-----------------------------------------------------------------------------
\* The months of a year: that of February is the one which depends on the year,
\* for the year of the count ends with it.
LEMMA LeapDay ==
  ASSUME NEW y \in Nat
  PROVE  YearDays(y) - YearDays(y - 1) = IF is_leap_year(y) THEN 366 ELSE 365
<1>1. /\ y \div 4 = (y - 1) \div 4 + (IF y % 4 = 0 THEN 1 ELSE 0)
      /\ y \div 100 = (y - 1) \div 100 + (IF y % 100 = 0 THEN 1 ELSE 0)
      /\ y \div 400 = (y - 1) \div 400 + (IF y % 400 = 0 THEN 1 ELSE 0)
  BY SMT
<1>2. (y % 400 = 0 => y % 100 = 0) /\ (y % 100 = 0 => y % 4 = 0)
  BY SMT
<1>3. is_leap_year(y) <=> (y % 4 = 0 /\ y % 100 # 0) \/ y % 400 = 0
  BY SMT DEF is_leap_year, Rem, Quot
<1>4. QED  BY <1>1, <1>2, <1>3, SMT DEF YearDays

LEMMA DaysBeforeTable ==
  /\ DaysBefore(3) = 0 /\ DaysBefore(4) = 31 /\ DaysBefore(5) = 61
  /\ DaysBefore(6) = 92 /\ DaysBefore(7) = 122 /\ DaysBefore(8) = 153
  /\ DaysBefore(9) = 184 /\ DaysBefore(10) = 214 /\ DaysBefore(11) = 245
  /\ DaysBefore(12) = 275 /\ DaysBefore(1) = 306 /\ DaysBefore(2) = 337
BY SMT DEF DaysBefore

\* A day is one of the month exactly when the next month starts after it.
LEMMA DaysOfMonths ==
  ASSUME NEW y \in Nat, NEW month \in 1..12, NEW day \in Nat
  PROVE  DayNumber(y, month, day) < FirstOfNextMonth(y, month)
           <=> day <= days_in_month(y, month)
<1>1. \A n \in Int : YearDays(n) \in Int
  BY SMT DEF YearDays
<1>2. \A n, m, d : MarchDays(n, m, d) = YearDays(n) + DaysBefore(m) + d - 1 - Epoch
  BY DEF MarchDays
<1>3. YearDays(y) - YearDays(y - 1) = IF is_leap_year(y) THEN 366 ELSE 365
  BY LeapDay
<1>4. Epoch \in Nat
  BY DEF Epoch
<1>5. CASE month \in 3..11
  <2>1. /\ DayNumber(y, month, day) = MarchDays(y, month, day)
        /\ FirstOfNextMonth(y, month) = MarchDays(y, month + 1, 1)
    BY <1>5, DayNumberInMarchDays, SMT DEF FirstOfNextMonth
  <2>2. \/ month \in {3, 5, 7, 8, 10} /\ DaysBefore(month + 1) = DaysBefore(month) + 31
        \/ month \in {4, 6, 9, 11} /\ DaysBefore(month + 1) = DaysBefore(month) + 30
    BY <1>5, DaysBeforeTable
  <2>3. DaysBefore(month) \in Int
    BY <1>5, DaysBeforeTable
  <2>4. DayNumber(y, month, day) < FirstOfNextMonth(y, month)
          <=> DaysBefore(month) + day < DaysBefore(month + 1) + 1
    BY <1>1, <1>2, <1>4, <2>1, <2>2, <2>3
  <2>5. QED  BY <2>2, <2>3, <2>4 DEF days_in_month
<1>6. CASE month = 12
  <2>1. /\ DayNumber(y, 12, day) = MarchDays(y, 12, day)
        /\ FirstOfNextMonth(y, 12) = MarchDays(y, 1, 1)
    BY DayNumberInMarchDays, SMT DEF FirstOfNextMonth
  <2>2. DayNumber(y, 12, day) < FirstOfNextMonth(y, 12) <=> 275 + day < 306 + 1
    BY <1>1, <1>2, <1>4, <2>1, DaysBeforeTable
  <2>3. QED  BY <1>6, <2>2 DEF days_in_month
<1>7. CASE month = 1
  <2>1. /\ DayNumber(y, 1, day) = MarchDays(y - 1, 1, day)
        /\ FirstOfNextMonth(y, 1) = MarchDays(y - 1, 2, 1)
    BY DayNumberInMarchDays, SMT DEF FirstOfNextMonth
  <2>2. DayNumber(y, 1, day) < FirstOfNextMonth(y, 1) <=> 306 + day < 337 + 1
    BY <1>1, <1>2, <1>4, <2>1, DaysBeforeTable
  <2>3. QED  BY <1>7, <2>2 DEF days_in_month
<1>8. CASE month = 2
  <2>1. /\ DayNumber(y, 2, day) = MarchDays(y - 1, 2, day)
        /\ FirstOfNextMonth(y, 2) = MarchDays(y, 3, 1)
    BY DayNumberInMarchDays, SMT DEF FirstOfNextMonth
  <2>2. DayNumber(y, 2, day) < FirstOfNextMonth(y, 2)
          <=> YearDays(y - 1) + 337 + day < YearDays(y) + 1
    BY <1>1, <1>2, <1>4, <2>1, DaysBeforeTable
  <2>3. QED  BY <1>1, <1>3, <1>8, <2>2 DEF days_in_month
<1>9. QED  BY <1>5, <1>6, <1>7, <1>8

\* A text is accepted exactly when its date is on the calendar and its time on
\* the clock: in every year of four digits, every month has the days that the
\* count of days gives it.
THEOREM AcceptsExactlyTheCalendar == Spec => []AcceptsTheCalendar
<1>1. TemporalInv => AcceptsTheCalendar
  <2> SUFFICES ASSUME TemporalInv, instant = parse_iso8601(text)
               PROVE  instant.kind = "instant" <=>
                        /\ ~text.malformed
                        /\ OnTheCalendar(text)
                        /\ text.hour \in 0..23 /\ text.minute \in 0..59
                        /\ text.second \in 0..59
    BY DEF TemporalInv, AcceptsTheCalendar, Unparsed
  <2>1. CASE text = Malformed
    BY <2>1 DEF parse_iso8601, Malformed, Error
  <2>2. CASE text \in TextType
    <3>1. /\ text.year \in Nat /\ text.month \in Nat /\ text.day \in Nat
          /\ text.hour \in Nat /\ text.minute \in Nat /\ text.second \in Nat
          /\ ~text.malformed
      BY <2>2, FieldsOfTexts
    <3>2. instant.kind = "instant" <=>
            /\ text.month \in 1..12
            /\ text.day \in 1..days_in_month(text.year, text.month)
            /\ OnTheClock(text)
      BY <3>1, Zenon DEF parse_iso8601, Error
    <3>3. OnTheClock(text) <=> /\ text.hour \in 0..23 /\ text.minute \in 0..59
                               /\ text.second \in 0..59
      BY <3>1 DEF OnTheClock
    <3>4. ASSUME text.month \in 1..12
          PROVE  text.day \in 1..days_in_month(text.year, text.month)
                   <=> OnTheCalendar(text)
      <4>1. DayNumber(text.year, text.month, text.day)
                < FirstOfNextMonth(text.year, text.month)
              <=> text.day <= days_in_month(text.year, text.month)
        BY <3>1, <3>4, DaysOfMonths
      <4>2. days_in_month(text.year, text.month) \in Nat
        BY <3>4 DEF days_in_month
      <4>3. text.day \in 1..days_in_month(text.year, text.month)
              <=> 1 <= text.day /\ text.day <= days_in_month(text.year, text.month)
        BY <3>1, <4>2
      <4>4. QED  BY <3>1, <3>4, <4>1, <4>3 DEF OnTheCalendar
    <3>5. OnTheCalendar(text) => text.month \in 1..12
      BY DEF OnTheCalendar
    <3>6. QED  BY <3>1, <3>2, <3>3, <3>4, <3>5
  <2>3. QED  BY <2>1, <2>2 DEF TemporalInv
<1>2. QED  BY <1>1, TemporalInvHolds, PTL

\* The weekday of every accepted date is that of the calendar, but for the first
\* two months of the year 0000, which the congruence counts with the year -1.
THEOREM WeekdaysAreGregorian ==
  Spec => [](WeekdayIsGregorian \/ (text.year = 0 /\ text.month < 3))
<1>1. TemporalInv => WeekdayIsGregorian \/ (text.year = 0 /\ text.month < 3)
  <2> SUFFICES ASSUME TemporalInv, instant.kind = "instant",
                      ~(text.year = 0 /\ text.month < 3)
               PROVE  instant.weekday =
                        ((DayNumber(text.year, text.month, text.day) + 3) % 7) + 1
    BY DEF WeekdayIsGregorian
  <2>1. instant = parse_iso8601(text) /\ text \in TextType
    BY DEF TemporalInv, Unparsed, parse_iso8601, Malformed, Error
  <2>2. /\ text.month \in 1..12
        /\ instant.weekday = iso_weekday(text.year, text.month, text.day)
    BY <2>1, ParsedInstant, Zenon
  <2>3. text.year \in Nat /\ text.day \in Nat
    BY <2>1, FieldsOfTexts
  <2>4. QED  BY <2>2, <2>3, WeekdayOfDates
<1>2. QED  BY <1>1, TemporalInvHolds, PTL

-----------------------------------------------------------------------------
\* The bit of a day of the week, as the code shifts it and as a remainder.
LEMMA DayBit ==
  ASSUME NEW n \in Int, NEW d \in 1..7
  PROVE  Bit(n, d - 1) <=> n % (2^d) >= 2^(d - 1)
<1>1. /\ (n \div 1) % 2 = 1 <=> n % 2 >= 1
      /\ (n \div 2) % 2 = 1 <=> n % 4 >= 2
      /\ (n \div 4) % 2 = 1 <=> n % 8 >= 4
      /\ (n \div 8) % 2 = 1 <=> n % 16 >= 8
      /\ (n \div 16) % 2 = 1 <=> n % 32 >= 16
      /\ (n \div 32) % 2 = 1 <=> n % 64 >= 32
      /\ (n \div 64) % 2 = 1 <=> n % 128 >= 64
  BY SMT
<1>2. 2^0 = 1 /\ 2^1 = 2 /\ 2^2 = 4 /\ 2^3 = 8 /\ 2^4 = 16 /\ 2^5 = 32 /\ 2^6 = 64
        /\ 2^7 = 128
  BY SMT
<1>3. d = 1 \/ d = 2 \/ d = 3 \/ d = 4 \/ d = 5 \/ d = 6 \/ d = 7
  OBVIOUS
<1>4. CASE d = 1
  BY <1>1, <1>2, <1>4, SMT DEF Bit
<1>5. CASE d = 2
  BY <1>1, <1>2, <1>5, SMT DEF Bit
<1>6. CASE d = 3
  BY <1>1, <1>2, <1>6, SMT DEF Bit
<1>7. CASE d = 4
  BY <1>1, <1>2, <1>7, SMT DEF Bit
<1>8. CASE d = 5
  BY <1>1, <1>2, <1>8, SMT DEF Bit
<1>9. CASE d = 6
  BY <1>1, <1>2, <1>9, SMT DEF Bit
<1>10. CASE d = 7
  BY <1>1, <1>2, <1>10, SMT DEF Bit
<1>11. QED  BY <1>3, <1>4, <1>5, <1>6, <1>7, <1>8, <1>9, <1>10

\* The hours from a start to before an end, going round the clock.
LEMMA RoundTheClock ==
  ASSUME NEW s \in 0..23, NEW e \in 0..23, NEW h \in 0..23
  PROVE  HourIn(s, e, h) <=> h \in {(s + i) % 24 : i \in 0..(((e - s) % 24) - 1)}
<1>1. ASSUME HourIn(s, e, h)
      PROVE  \E i \in 0..(((e - s) % 24) - 1) : h = (s + i) % 24
  <2> DEFINE i == IF s <= h THEN h - s ELSE 24 + h - s
             n == IF s <= e THEN e - s ELSE 24 + e - s
  <2>1. i \in Nat /\ n \in Nat /\ i <= n - 1
    BY <1>1, SMT DEF HourIn
  <2>2. (e - s) % 24 = n /\ (s + i) % 24 = h
    BY SMT
  <2> HIDE DEF i, n
  <2>3. i \in 0..(((e - s) % 24) - 1) /\ h = (s + i) % 24
    BY <2>1, <2>2
  <2>4. QED  BY <2>3
<1>2. ASSUME NEW i \in 0..(((e - s) % 24) - 1), h = (s + i) % 24
      PROVE  HourIn(s, e, h)
  BY <1>2, SMT DEF HourIn
<1>3. QED  BY <1>1, <1>2

\* A rule is active from its start to before its end, over midnight too, on the
\* days of its mask alone, whatever whole numbers its rule gives.
THEOREM ActiveOverMidnight == Spec => []ActiveFromStartToEnd
<1>1. TemporalInv => ActiveFromStartToEnd
  <2> DEFINE s == window.start.value
             e == window.end.value
  <2> SUFFICES ASSUME TemporalInv, window # NoWindow, s \in 0..23, e \in 0..23
               PROVE  active <=>
                        /\ window.days.int /\ window.start.int /\ window.end.int
                        /\ instant.weekday
                             \in {d \in 1..7 : (window.days.value % (2^d)) >= 2^(d - 1)}
                        /\ instant.hour \in {(s + i) % 24 : i \in 0..(((e - s) % 24) - 1)}
    BY DEF ActiveFromStartToEnd
  <2>1. /\ window \in Windows /\ instant.kind = "instant"
        /\ active = eval_active_at(window, instant)
    BY DEF TemporalInv
  <2>2. window.days.value \in Int
    BY <2>1, TemporalAssumption
  <2>3. instant.weekday \in 1..7 /\ instant.hour \in 0..23
    BY <2>1, InstantInWeek
  <2>4. Bit(window.days.value, instant.weekday - 1)
          <=> instant.weekday \in {d \in 1..7 : (window.days.value % (2^d)) >= 2^(d - 1)}
    BY <2>2, <2>3, DayBit
  <2>5. HourIn(s, e, instant.hour)
          <=> instant.hour \in {(s + i) % 24 : i \in 0..(((e - s) % 24) - 1)}
    BY <2>3, RoundTheClock
  <2>6. QED  BY <2>1, <2>4, <2>5 DEF eval_active_at
<1>2. QED  BY <1>1, TemporalInvHolds, PTL
=============================================================================
