------------------------------ MODULE Calendar ------------------------------
(***************************************************************************)
(* The calendar of the usage report: a day is a number, counted in UTC     *)
(* from 1970-01-01, which was a Thursday.  One day after the other is      *)
(* given the ISO week the code computes for it.                            *)
(***************************************************************************)
EXTENDS Integers, FiniteSets

CONSTANTS FirstDay, LastDay   \* bounds for the model checker

CalendarConstants == {FirstDay, LastDay} \subseteq Nat /\ FirstDay >= 14

VARIABLE today

CalendarInit == today = FirstDay
CalendarNext == today < LastDay /\ today' = today + 1

LeapDaysBefore(y) == (y - 1) \div 4 - (y - 1) \div 100 + (y - 1) \div 400
NewYear(y) == 365 * (y - 1970) + LeapDaysBefore(y) - LeapDaysBefore(1970)
YearOf(d)  == CHOOSE y \in (1969 + d \div 366)..(1971 + d \div 365) :
                 NewYear(y) <= d /\ d < NewYear(y + 1)

(* Mutant: Sunday is 0, as getUTCDay has it. *)
Weekday_SundayFirst(d) == (d + 4) % 7

(* Monday is 1, Sunday is 7. *)
Weekday(d) == ((d + 3) % 7) + 1

(* The year and the number of the week's Thursday. *)
IsoWeekOf(d) ==
  LET thursday == d + 4 - Weekday(d)
      y        == YearOf(thursday)
  IN  <<y, (thursday - NewYear(y) + 1 + 6) \div 7>>

NoSuchWeek == [start |-> 0, end |-> 0]

IsoWeekRange(week) ==
  LET jan4  == NewYear(week[1]) + 3
      start == jan4 - (Weekday(jan4) - 1) + (week[2] - 1) * 7
  IN  IF week[2] < 1 \/ IsoWeekOf(start) # week THEN NoSuchWeek
      ELSE [start |-> start, end |-> start + 7]

DefaultWeek(now) == IsoWeekOf(now - 7)

-----------------------------------------------------------------------------
(* ISO 8601: the week with the n-th Thursday of a year is week n of it. *)
Reference(d) ==
  LET monday   == CHOOSE m \in (d - 6)..d : m % 7 = 4
      thursday == monday + 3
      y        == CHOOSE z \in 1969..(1971 + d) : NewYear(z) <= thursday /\ thursday < NewYear(z + 1)
  IN  <<y, Cardinality({t \in NewYear(y)..thursday : t % 7 = 0})>>

(* Every day is in the week it is given, which is the one ISO 8601 gives it;
   the weeks a year does not have are refused; and a report nobody names a
   week for is about the last week that is over (usage-report.ts, isoWeekOf,
   isoWeekRange and buildUsageReport: "the last complete ISO week").       *)
WeeksAreIso ==
  LET week  == IsoWeekOf(today)
      range == IsoWeekRange(week)
      last  == IsoWeekRange(DefaultWeek(today))
  IN  /\ week = Reference(today)
      /\ range.start <= today /\ today < range.end
      /\ last.end = range.start
      /\ \A n \in {0, 53, 54} :
            LET r == IsoWeekRange(<<week[1], n>>)
            IN  r # NoSuchWeek => Reference(r.start) = <<week[1], n>>
=============================================================================
