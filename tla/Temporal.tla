------------------------------ MODULE Temporal ------------------------------
(***************************************************************************)
(* The reference time of a query (core/src/model/temporal.rs) and the      *)
(* $activeAt windows of the rules it is tested against (eval_active_at in  *)
(* core/src/model/where_expr.rs).                                          *)
(*                                                                         *)
(* A text of the form YYYY-MM-DDTHH:MM[:SS] is its six numbers; a text of  *)
(* another form is Malformed.  Rust divides towards zero, TLA+ downwards:  *)
(* Quot and Rem are Rust's.                                                *)
(***************************************************************************)
EXTENDS Integers

CONSTANTS Texts,    \* bound: what the texts say
          Tested,   \* bound: those of them that windows are tested with
          Windows   \* bound: the daysOfWeek, startHour and endHour of the rules

Years     == 0..9999
TwoDigits == 0..99

TextType == [year : Years, month : TwoDigits, day : TwoDigits, hour : TwoDigits,
             minute : TwoDigits, second : TwoDigits, malformed : {FALSE}]

\* A field that is missing or not an Int is Absent.
Absent  == [int |-> FALSE, value |-> 0]
Ints(S) == {Absent} \cup [int : {TRUE}, value : S]

ASSUME TemporalAssumption ==
  /\ Texts \subseteq TextType /\ Tested \subseteq Texts
  /\ \A w \in Windows : {w.days.value, w.start.value, w.end.value} \subseteq Int

VARIABLES text,     \* the query's "at"
          instant,  \* the parsed TemporalInstant
          window,   \* the properties of the rule tested, once one was
          active    \* whether the rule was admitted

vars == <<text, instant, window, active>>

Malformed == [year |-> 0, month |-> 0, day |-> 0, hour |-> 0, minute |-> 0,
              second |-> 0, malformed |-> TRUE]

Unparsed == [kind |-> "unparsed", weekday |-> 0, hour |-> 0]
Error    == [kind |-> "error", weekday |-> 0, hour |-> 0]

NoWindow == [days |-> Absent, start |-> Absent, end |-> Absent]

-----------------------------------------------------------------------------
Quot(a, b) == IF a >= 0 THEN a \div b ELSE -((-a) \div b)
Rem(a, b)  == a - b * Quot(a, b)

is_leap_year(y) == (Rem(y, 4) = 0 /\ Rem(y, 100) # 0) \/ Rem(y, 400) = 0

\* Mutant: every fourth year is a leap year.
DaysInMonthJulian(y, m) ==
  CASE m \in {1, 3, 5, 7, 8, 10, 12} -> 31
    [] m \in {4, 6, 9, 11}           -> 30
    [] m = 2                         -> IF Rem(y, 4) = 0 THEN 29 ELSE 28
    [] OTHER                         -> 0

days_in_month(y, m) ==
  CASE m \in {1, 3, 5, 7, 8, 10, 12} -> 31
    [] m \in {4, 6, 9, 11}           -> 30
    [] m = 2                         -> IF is_leap_year(y) THEN 29 ELSE 28
    [] OTHER                         -> 0

\* Zeller's congruence, January and February counted with the year before;
\* h: 0 = Saturday .. 6 = Friday.
Zeller(y, m, d) ==
  LET k == Rem(y, 100)
      j == Quot(y, 100)
      h == Rem(d + Quot(13 * (m + 1), 5) + k + Quot(k, 4) + Quot(j, 4) + 5 * j, 7)
  IN  Rem(h + 5, 7) + 1

\* Mutant: January and February are not moved to the year before.
WeekdaySameYear(year, month, day) ==
  Zeller(year, IF month < 3 THEN month + 12 ELSE month, day)

iso_weekday(year, month, day) ==
  IF month < 3 THEN Zeller(year - 1, month + 12, day) ELSE Zeller(year, month, day)

\* Mutant: midnight may be written 24:00.
ClockTo24(t) == t.hour <= 24 /\ t.minute <= 59 /\ t.second <= 59

OnTheClock(t) == t.hour <= 23 /\ t.minute <= 59 /\ t.second <= 59

parse_iso8601(t) ==
  IF /\ ~t.malformed
     /\ t.month \in 1..12
     /\ t.day \in 1..days_in_month(t.year, t.month)
     /\ OnTheClock(t)
  THEN [kind |-> "instant", weekday |-> iso_weekday(t.year, t.month, t.day),
        hour |-> t.hour]
  ELSE Error

Bit(n, i) == (n \div (2^i)) % 2 = 1

\* Mutant: a window that wraps over midnight is never open.
HourInUnwrapped(start, end, hour) == start <= hour /\ hour < end

HourIn(start, end, hour) ==
  IF start <= end THEN start <= hour /\ hour < end
                  ELSE hour >= start \/ hour < end

eval_active_at(w, at) ==
  /\ w.days.int /\ w.start.int /\ w.end.int
  /\ Bit(w.days.value, at.weekday - 1)
  /\ HourIn(w.start.value, w.end.value, at.hour)

-----------------------------------------------------------------------------
Init ==
  /\ text \in Texts \cup {Malformed}
  /\ instant = Unparsed
  /\ window = NoWindow
  /\ active = FALSE

ParseAt ==
  /\ instant = Unparsed
  /\ instant' = parse_iso8601(text)
  /\ UNCHANGED <<text, window, active>>

\* A query without an instant is not evaluated.  Bound: one rule, for a test
\* leaves nothing behind for the next.
TestWindow(w) ==
  /\ instant.kind = "instant" /\ text \in Tested
  /\ window = NoWindow
  /\ window' = w
  /\ active' = eval_active_at(w, instant)
  /\ UNCHANGED <<text, instant>>

Next == ParseAt \/ \E w \in Windows : TestWindow(w)

Spec == Init /\ [][Next]_vars

-----------------------------------------------------------------------------
(***************************************************************************)
(* The calendar, independently of the code: days since 1970-01-01, a       *)
(* Thursday, of the proleptic Gregorian calendar; years start in March so  *)
(* that the leap day is a year's last.                                     *)
(***************************************************************************)
Epoch == 719468  \* days from 0000-03-01 on

DayNumber(year, month, day) ==
  LET y == IF month <= 2 THEN year - 1 ELSE year
      m == (month + 9) % 12
  IN  365 * y + y \div 4 - y \div 100 + y \div 400 + (153 * m + 2) \div 5
        + day - 1 - Epoch

FirstOfNextMonth(year, month) ==
  IF month = 12 THEN DayNumber(year + 1, 1, 1) ELSE DayNumber(year, month + 1, 1)

OnTheCalendar(t) ==
  /\ t.month \in 1..12 /\ t.day >= 1
  /\ DayNumber(t.year, t.month, t.day) < FirstOfNextMonth(t.year, t.month)

TypeOK ==
  /\ text = Malformed \/ text \in TextType
  /\ instant.kind \in {"unparsed", "error", "instant"}
  /\ instant.kind = "instant" => instant.weekday \in 1..7 /\ instant.hour \in 0..23
  /\ window \in Windows \cup {NoWindow}
  /\ active \in BOOLEAN

\* A text is accepted exactly when its date is on the calendar and its time on
\* the clock: every month of every year has the days the calendar gives it.
AcceptsTheCalendar ==
  instant.kind # "unparsed" =>
    (instant.kind = "instant" <=>
       /\ ~text.malformed
       /\ OnTheCalendar(text)
       /\ text.hour \in 0..23 /\ text.minute \in 0..59 /\ text.second \in 0..59)

\* "The ISO 8601 day-of-week (1 = Monday .. 7 = Sunday) of a Gregorian date":
\* the congruence agrees with a count of days.
WeekdayIsGregorian ==
  instant.kind = "instant" =>
    instant.weekday =
      ((DayNumber(text.year, text.month, text.day) + 3) % 7) + 1

\* A rule is active in the hours a clock strikes going round from its start to
\* before its end, on the days of its mask alone: over midnight too, never when
\* start and end are the same, never without all three fields.
ActiveFromStartToEnd ==
  LET s == window.start.value
      e == window.end.value
  IN  window # NoWindow /\ s \in 0..23 /\ e \in 0..23 =>
        (active <=>
           /\ window.days.int /\ window.start.int /\ window.end.int
           /\ instant.weekday \in {d \in 1..7 : (window.days.value % (2^d)) >= 2^(d - 1)}
           /\ instant.hour \in {(s + i) % 24 : i \in 0..(((e - s) % 24) - 1)})
=============================================================================
