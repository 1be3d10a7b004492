------------------------------ MODULE LondonWeeks ------------------------------
(***************************************************************************)
(* The weeks that the stage statistics are counted in (src/stage-stats.js, *)
(* "Week windows"): Monday to Monday, midnight in London, in hours.  Hour  *)
(* 0 is a Monday's midnight in winter time; London is an hour ahead from   *)
(* Spring until Autumn, both a Sunday at 01:00 GMT.                        *)
(***************************************************************************)
EXTENDS Integers

CONSTANTS
    Spring, Autumn,     \* when the clocks change, each 145 hours into its week
    Hours               \* bound on the hours that are looked at

ASSUME WeeksConstants ==
    /\ {Spring, Autumn, Hours} \subseteq Nat /\ Spring < Autumn /\ 168 <= Hours
    /\ Spring % 168 = 145 /\ Autumn % 168 = 145

VARIABLE hour

WeeksInit == hour = 168

WeeksNext == hour < Hours /\ hour' = hour + 1

WeeksSpec == WeeksInit /\ [][WeeksNext]_hour

-----------------------------------------------------------------------------
Offset(h) == IF Spring <= h /\ h < Autumn THEN 1 ELSE 0

\* londonWallClock, in hours of the wall clock; and londonDateString, the day of it.
Wall(h) == h + Offset(h)
LocalDay(h) == Wall(h) \div 24

\* Mutant: one guess is enough.
LondonMidnight_OneGuess(day) == day * 24

(***************************************************************************)
(* londonMidnightUtcMs: guess the midnight of UTC, and correct the guess   *)
(* twice by how far London's clock is from the target.                     *)
(***************************************************************************)
LondonMidnight(day) ==
    LET target == day * 24
        Corrected(guess) == guess - (Wall(guess) - target)
    IN  Corrected(Corrected(target))

MondayOf(h) == LocalDay(h) - (LocalDay(h) % 7)

CurrentWeek(h) == [start |-> LondonMidnight(MondayOf(h)), end |-> LondonMidnight(MondayOf(h) + 7)]

PreviousWeekStart(h) == LondonMidnight(MondayOf(h) - 7)

\* The date that a walk of RF's search begins after, for a window from h.
SinceDate(h) == LocalDay(h - 24)

-----------------------------------------------------------------------------
WeeksTypeOK == hour \in 168 .. Hours

\* An hour of Autumn's Sunday, a day of 25, from which a day back is that Sunday.
LongDaysEnd(h) == Autumn <= h /\ LocalDay(h) = LocalDay(h - 24)

(***************************************************************************)
(* Every instant is in its week; a week begins when London's clock says    *)
(* so, and ends where the next begins, also when the clocks change; the    *)
(* previous week ends where this begins; and the search's date lies before *)
(* the day of the window's start, but in the last hour of the long Sunday. *)
(***************************************************************************)
WeeksTile ==
    LET week == CurrentWeek(hour)
    IN  /\ week.start <= hour /\ hour < week.end
        /\ Wall(week.start) = MondayOf(hour) * 24
        /\ week.end = CurrentWeek(week.end).start
        /\ week.start = CurrentWeek(week.start - 1).end
        /\ PreviousWeekStart(hour) = CurrentWeek(week.start - 1).start
        /\ week.end - week.start = 168 + Offset(week.start) - Offset(week.end)
        /\ SinceDate(hour) < LocalDay(hour) \/ LongDaysEnd(hour)
        /\ LongDaysEnd(hour) => Wall(hour) % 24 = 23
=============================================================================
