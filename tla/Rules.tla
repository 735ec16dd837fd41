-------------------------------- MODULE Rules --------------------------------
(***************************************************************************)
(* The scoring constants and the streak formula of internal/rules, and the *)
(* window a range stands for.                                              *)
(***************************************************************************)
EXTENDS Integers

LeadWon           == 50
LeadDropped       == -50
LoginBase         == 10
StreakBonusPerDay == 5
StreakBonusCap    == 50

(***************************************************************************)
(* LoginPoints: points for the login on day n of a streak.                 *)
(***************************************************************************)
LoginPoints(n) ==
  LET day   == IF n < 1 THEN 1 ELSE n
      bonus == (day - 1) * StreakBonusPerDay
  IN  LoginBase + (IF bonus > StreakBonusCap THEN StreakBonusCap ELSE bonus)

\* A slip: a window of one day more than its range.
FirstDayEarlier(days, to) == IF days = 0 THEN 0 ELSE to - days

\* The first day of the window of that many days that ends with to; 0 is "all".
FirstDay(days, to) == IF days = 0 THEN 0 ELSE to - (days - 1)

==============================================================================
