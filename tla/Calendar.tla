------------------------------- MODULE Calendar --------------------------------
(***************************************************************************)
(* src/utils/recurrence.js: the dates on which one mandate is due, one     *)
(* after the other.  A date is a record of local year, month (0..11, as in *)
(* JavaScript) and day; hours do not matter to it.  RecurringPayments      *)
(* counts these dates as intervals: OncePerPeriod is what justifies it.    *)
(***************************************************************************)
EXTENDS Integers, FiniteSets, FiniteSetsExt, Functions

CONSTANTS FirstYear, LastYear, \* a mandate starts in one of these years
          MaxDates             \* bound: due dates followed

ASSUME YearsAssumption == FirstYear \in Nat /\ LastYear \in Nat /\ MaxDates \in Nat

VARIABLES frequency, start, nextRunAt, passed

calendarVars == <<frequency, start, nextRunAt, passed>>

Leap(year) == year % 4 = 0 /\ (year % 100 # 0 \/ year % 400 = 0)

DaysIn(year, month) ==
  CASE month \in {3, 5, 8, 10} -> 30
    [] month = 1 -> IF Leap(year) THEN 29 ELSE 28
    [] OTHER -> 31

Following(year, month) == <<year + (month + 1) \div 12, (month + 1) % 12>>

(* Date.setDate rolls days past the end of the month into the next one.    *)
PlusDays(date, n) ==
  LET over == date.day + n - DaysIn(date.year, date.month)
      next == Following(date.year, date.month)
  IN IF over =< 0 THEN [date EXCEPT !.day = @ + n]
     ELSE [year |-> next[1], month |-> next[2], day |-> over]

(* Faulty: without the clamp, as Date itself would: February 31 is in March. *)
PlusMonthRolled(date) ==
  LET next == Following(date.year, date.month)
      over == date.day - DaysIn(next[1], next[2])
      third == Following(next[1], next[2])
  IN IF over =< 0 THEN [year |-> next[1], month |-> next[2], day |-> date.day]
     ELSE [year |-> third[1], month |-> third[2], day |-> over]

(* Faulty: every February is taken to have 28 days.                        *)
PlusMonthCommon(date) ==
  LET next == Following(date.year, date.month)
  IN [year |-> next[1], month |-> next[2], day |-> Min({date.day, DaysIn(1, next[2])})]

PlusMonth(date) ==
  LET next == Following(date.year, date.month)
  IN [year |-> next[1], month |-> next[2], day |-> Min({date.day, DaysIn(next[1], next[2])})]

NextRunDate(from, freq) ==
  CASE freq = "DAILY" -> PlusDays(from, 1)
    [] freq = "WEEKLY" -> PlusDays(from, 7)
    [] freq = "MONTHLY" -> PlusMonth(from)

(* startAt, or one interval from the day of createMandate: any date.       *)
CalendarInit ==
  /\ frequency \in {"DAILY", "WEEKLY", "MONTHLY"}
  /\ \E year \in FirstYear .. LastYear, month \in 0 .. 11 :
       \E day \in 1 .. DaysIn(year, month) : start = [year |-> year, month |-> month, day |-> day]
  /\ nextRunAt = start
  /\ passed = 0

Advance ==
  /\ passed < MaxDates
  /\ nextRunAt' = NextRunDate(nextRunAt, frequency)
  /\ passed' = passed + 1
  /\ UNCHANGED <<frequency, start>>

AfterLastDate == passed = MaxDates /\ UNCHANGED calendarVars

CalendarNext == Advance \/ AfterLastDate

CalendarSpec == CalendarInit /\ [][CalendarNext]_calendarVars

-------------------------------------------------------------------------------
MonthNumber(date) == 12 * date.year + date.month

(* The days of the year before a month, and since the beginning of the    *)
(* calendar, by counting leap days.                                        *)
DaysBefore(year, month) ==
  SumFunctionOnSet([m \in 0..11 |-> DaysIn(year, m)], 0 .. month - 1)

DayNumber(date) ==
  LET before == date.year - 1
  IN 365 * before + before \div 4 - before \div 100 + before \div 400
       + DaysBefore(date.year, date.month) + date.day

(* The n-th due date lies n days, n weeks or n calendar months after the   *)
(* first: no period is left out and none comes twice, so that every run    *)
(* has a periodKey of its own (recurrence.js:6-12, :21-45).                *)
OncePerPeriod ==
  CASE frequency = "DAILY" -> DayNumber(nextRunAt) = DayNumber(start) + passed
    [] frequency = "WEEKLY" -> DayNumber(nextRunAt) = DayNumber(start) + 7 * passed
    [] OTHER -> MonthNumber(nextRunAt) = MonthNumber(start) + passed

(* A monthly mandate is due on its day, or on the last day of the shortest *)
(* month it has passed through: the clamp is permanent (recurrence.js:35). *)
DayDriftsToShortestMonth ==
  frequency = "MONTHLY" =>
    LET months == MonthNumber(start) .. MonthNumber(nextRunAt)
    IN nextRunAt.day = Min({start.day} \cup {DaysIn(m \div 12, m % 12) : m \in months})
===============================================================================
