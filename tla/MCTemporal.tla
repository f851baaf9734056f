---------------------------- MODULE MCTemporal ----------------------------
(***************************************************************************)
(* Temporal for TLC.  The congruence is periodic with the calendar's 400   *)
(* years, so 1..400 stands for every year but 0000, whose January and      *)
(* February are counted with year -1: MCYearZero.cfg.                      *)
(***************************************************************************)
EXTENDS Temporal

TextsOf(years, months, days, hours, minutes) ==
  [year : years, month : months, day : days, hour : hours, minute : minutes,
   second : minutes, malformed : {FALSE}]

\* Every date of a cycle, and the months and days beside them.
Calendar(years) == TextsOf(years, 0..13, 0..32, {0}, {0})

\* Every hour of a week, and the times of day beside them.
Week  == TextsOf({2026}, {8}, 22..28, 0..23, {59})
Times == TextsOf({2026}, {8}, {22}, 0..25, {0, 59, 60})

MCTexts == Calendar(1..400 \cup {1970, 2026, 9999}) \cup Week \cup Times

YearZero == Calendar({0})

\* Windows of every length and both orientations, and hours no clock strikes.
MCHours == {-1, 0, 6, 12, 22, 23, 24}

MCWindows == [days : Ints({0, 1, 42, 64, 127, 128, -1}),
              start : Ints(MCHours), end : Ints(MCHours)]
=============================================================================
