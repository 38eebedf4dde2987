------------------------------ MODULE Periods ------------------------------
(***************************************************************************)
(* Calendar arithmetic of core/billing/periods.py, and the sweep's         *)
(* roll-forward of a free subscription, which applies it until the period  *)
(* end is in the future (process_period_end).  A date is <<year, month,    *)
(* day>>; the time of day is carried over unchanged and left out.          *)
(***************************************************************************)
EXTENDS Integers, FiniteSets

CONSTANTS Years,          \* years a subscription may start in
          MaxRolls        \* bound on periods rolled

VARIABLES period,         \* plan.period; fixed
          start, end,     \* current_period_start and current_period_end
          anchor,         \* history: the first start
          rolled          \* history: the periods rolled forward so far

vars == <<period, start, end, anchor, rolled>>

IsLeap(y) == (y % 4 = 0 /\ y % 100 # 0) \/ y % 400 = 0

\* calendar.monthrange(y, m)[1]
MonthLength(y, m) ==
    IF m = 2 THEN IF IsLeap(y) THEN 29 ELSE 28
    ELSE IF m \in {4, 6, 9, 11} THEN 30 ELSE 31

Clamped(y, m, d) == <<y, m, IF d < MonthLength(y, m) THEN d ELSE MonthLength(y, m)>>

\* period_end: one calendar month or year on, the day clamped.
PeriodEnd(from, length) ==
    IF length = "year" THEN Clamped(from[1] + 1, from[2], from[3])
    ELSE IF from[2] = 12 THEN Clamped(from[1] + 1, 1, from[3])
    ELSE Clamped(from[1], from[2] + 1, from[3])

Dates(years) == {<<y, m, d>> \in years \X (1 .. 12) \X (1 .. 31) : d <= MonthLength(y, m)}

Init == /\ period \in {"month", "year"}
        /\ start \in Dates(Years)
        /\ end = PeriodEnd(start, period)
        /\ anchor = start /\ rolled = 1

\* Mutant: the next period is counted from the last period's start.
Mut_Roll ==
    /\ rolled < MaxRolls
    /\ start' = end
    /\ end' = PeriodEnd(start, period)
    /\ rolled' = rolled + 1
    /\ UNCHANGED <<period, anchor>>

\* One iteration of the loop: the next period starts where this one ends.
Roll ==
    /\ rolled < MaxRolls
    /\ start' = end
    /\ end' = PeriodEnd(end, period)
    /\ rolled' = rolled + 1
    /\ UNCHANGED <<period, anchor>>

Next == Roll

Spec == Init /\ [][Next]_vars
----------------------------------------------------------------------------
\* Months since year 0: the reference counts months without a calendar.
MonthNumber(date) == 12 * date[1] + date[2]
Months == IF period = "year" THEN 12 ELSE 1

\* However often it is rolled, a subscription gets the calendar periods it is
\* due, one after another without a gap, none empty or doubled; and its day of
\* the month only ever moves back, to the last day of a shorter month
\* (period_end, and the loop in process_period_end).
PeriodsAddUp ==
    /\ MonthNumber(start) = MonthNumber(anchor) + (rolled - 1) * Months
    /\ MonthNumber(end) = MonthNumber(anchor) + rolled * Months
    /\ end \in Dates({end[1]})
    /\ end[3] <= start[3] /\ start[3] <= anchor[3]
    /\ end[3] < start[3] => end[3] = MonthLength(end[1], end[2])
=============================================================================
