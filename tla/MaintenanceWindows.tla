-------------------------- MODULE MaintenanceWindows --------------------------
(***************************************************************************)
(* A maintenance window that may repeat (services/maintenanceSchedule.ts)  *)
(* and what is done to it (routes/maintenance.ts).  Its occurrences are    *)
(* not stored: each question searches for them from local calendar dates,  *)
(* across a change of clocks, and an occurrence that was ended early is    *)
(* known by the instant it began.                                          *)
(*                                                                         *)
(* One window in one timezone, whose clocks change once.  Time is counted  *)
(* in hours, with few hours to a day and few days to a week; an hour is    *)
(* what the clocks move by and the margin between two occurrences.  The    *)
(* minutes below an hour, monitors, names and notices are left out.        *)
(***************************************************************************)
EXTENDS Integers, FiniteSets

CONSTANTS
  HoursPerDay,
  DaysPerWeek,
  Clocks,         \* changes of clocks: the instant and the UTC offsets around it
  Starts,         \* values of startsAt
  Lengths,        \* lengths of windows
  WeekdaySets,    \* values of recurrenceDays
  Untils,         \* values of recurrenceUntil
  LastHour,       \* bound: hours that pass
  MaxWindowEdits  \* bound: edits of the window

Null == -1

\* East of UTC, or on it, no timezone goes forward over midnight, from the last
\* hour of one date into the next (America/Nuuk, west of it, does).
OverMidnight(change) ==
  change.before >= 0 /\ change.after > change.before /\ (change.at + change.after) % HoursPerDay = 0

\* Clocks go forward or back by an hour.
Calendars ==
  /\ HoursPerDay \in Nat \ {0, 1} /\ DaysPerWeek \in Nat \ {0}
  /\ {LastHour, MaxWindowEdits} \subseteq Nat
  /\ Starts \cup Untils \subseteq Nat
  /\ Lengths \subseteq Nat \ {0}
  /\ WeekdaySets \subseteq SUBSET (0 .. DaysPerWeek - 1) \ {{}}
  /\ Clocks \subseteq [at : Nat, before : Int, after : Int]
  /\ \A change \in Clocks : change.after - change.before \in {-1, 1} /\ ~OverMidnight(change)

ASSUME MaintenanceAssumption == Calendars

VARIABLES
  clocks,      \* the change of clocks of the timezone
  now,         \* the hour
  win,         \* the row, or NoWindow
  windowEdits  \* edits so far

windowVars == <<clocks, now, win, windowEdits>>

Recurrences == {"none", "daily", "weekly"}

Windows ==
  [startsAt : Nat, endsAt : Nat, recurrence : Recurrences, days : SUBSET (0 .. DaysPerWeek - 1),
   until : Nat \cup {Null}, endedStart : Int, endedAt : Int]

NoWindow == [recurrence |-> "no window"]

WindowTypeOK ==
  /\ clocks \in Clocks
  /\ now \in 0 .. LastHour
  /\ win \in Windows \cup {NoWindow}
  /\ windowEdits \in 0 .. MaxWindowEdits

WindowInit ==
  /\ clocks \in Clocks
  /\ now = 0
  /\ win = NoWindow
  /\ windowEdits = 0

-----------------------------------------------------------------------------
(* Local time.                                                             *)

Offset(at) == IF at < clocks.at THEN clocks.before ELSE clocks.after

LocalDay(at) == (at + Offset(at)) \div HoursPerDay
LocalHour(at) == (at + Offset(at)) % HoursPerDay

\* The instant at which the clocks read `hour` on the date `day`.
InstantOf(day, hour) ==
  LET wall == day * HoursPerDay + hour
      guess == wall - Offset(wall)
  IN wall - Offset(guess)

-----------------------------------------------------------------------------
(* The search for occurrences (windowOccurrences).                         *)

Length(w) == w.endsAt - w.startsAt

Least(S) == CHOOSE x \in S : \A y \in S : x <= y
Greatest(S) == CHOOSE x \in S : \A y \in S : y <= x

\* As many days as hours need, rounded up.
DaysFor(hours) == (hours + HoursPerDay - 1) \div HoursPerDay

\* SCAN_DAYS: one day more than the longest gap between two occurrences.
ScanDays == DaysPerWeek + 1

Chosen(w, day) == w.recurrence = "weekly" => day % DaysPerWeek \in w.days

\* On the date of the window's own start the stored instant is the occurrence.
StartOn(w, day) ==
  IF day = LocalDay(w.startsAt) THEN w.startsAt ELSE InstantOf(day, LocalHour(w.startsAt))

\* An occurrence of a repeating window that was ended early stops at that time.
End(w, start) ==
  IF w.recurrence # "none" /\ start = w.endedStart
  THEN Least({w.endedAt, start + Length(w)})
  ELSE start + Length(w)

\* Planted bug: the search begins with the date of today.
FirstDayToday(w, at) == Greatest({LocalDay(at), LocalDay(w.startsAt)})

\* An occurrence that is running began no earlier than its length ago, and
\* none begins before the window itself.
FirstDay(w, at) == Greatest({LocalDay(at - Length(w)), LocalDay(w.startsAt)})

\* The starts the loop comes to: it leaves with the first one that is past the
\* end of the recurrence, or that is still to come.
Scanned(w, at) ==
  LET visited == {day \in FirstDay(w, at) .. FirstDay(w, at) + DaysFor(Length(w)) + ScanDays :
                    Chosen(w, day) /\ StartOn(w, day) >= w.startsAt}
      past(day) == w.until # Null /\ StartOn(w, day) > w.until
      reached == {day \in visited :
                    \A earlier \in visited : earlier < day => ~past(earlier) /\ StartOn(w, earlier) <= at}
  IN {StartOn(w, day) : day \in {d \in reached : ~past(d)}}

\* A window that does not repeat has exactly its own span.
Found(w, at) == IF w.recurrence = "none" THEN {w.startsAt} ELSE Scanned(w, at)

Running(w, starts, at) == {start \in starts : start <= at /\ at <= End(w, start)}

LastOf(S) == IF S = {} THEN Null ELSE Greatest(S)
FirstOf(S) == IF S = {} THEN Null ELSE Least(S)

\* The start of the occurrence that runs, and of the next one.
Current(w, at) == LastOf(Running(w, Found(w, at), at))
Upcoming(w, at) == FirstOf({start \in Found(w, at) : start > at})

\* The condition of the query of activeWindows, before the search.
Selected(w, at) ==
  /\ w.startsAt <= at
  /\ \/ w.endsAt >= at
     \/ w.recurrence # "none" /\ (w.until = Null \/ w.until + Length(w) >= at)

ActiveWindow(w, at) == IF Selected(w, at) THEN Current(w, at) ELSE Null

-----------------------------------------------------------------------------
(* The handlers.                                                           *)

\* Planted bug: a whole day, or the whole gap between two weekdays.
MaxOccurrenceFull(recurrence, days) ==
  IF recurrence = "daily" THEN HoursPerDay
  ELSE HoursPerDay * Least({DaysPerWeek} \cup ({(e - d) % DaysPerWeek : d, e \in days} \ {0}))

\* An hour less than a day, or than the shortest gap between two weekdays.
MaxOccurrence(recurrence, days) ==
  IF recurrence = "daily" THEN HoursPerDay - 1
  ELSE HoursPerDay * Least({DaysPerWeek} \cup ({(e - d) % DaysPerWeek : d, e \in days} \ {0})) - 1

\* windowProblem finds none.
Acceptable(w) ==
  /\ w.endsAt > w.startsAt
  /\ w.recurrence = "weekly" => w.days # {}
  /\ w.until # Null => w.until >= w.startsAt
  /\ w.recurrence # "none" => Length(w) <= MaxOccurrence(w.recurrence, w.days)

\* recurrenceColumns: days and end only where the kind uses them.
Columns(startsAt, endsAt, recurrence, days, until) ==
  [startsAt |-> startsAt, endsAt |-> endsAt, recurrence |-> recurrence,
   days |-> IF recurrence = "weekly" THEN days ELSE {},
   until |-> IF recurrence = "none" THEN Null ELSE until]

WithEnd(columns, start, at) ==
  [startsAt |-> columns.startsAt, endsAt |-> columns.endsAt, recurrence |-> columns.recurrence,
   days |-> columns.days, until |-> columns.until, endedStart |-> start, endedAt |-> at]

Create(startsAt, length, recurrence, days, until) ==
  /\ win = NoWindow
  /\ win' = WithEnd(Columns(startsAt, startsAt + length, recurrence, days, until), Null, Null)
  /\ Acceptable(win')
  /\ UNCHANGED <<clocks, now, windowEdits>>

\* PATCH; an early end stays as it is.
Patch(startsAt, endsAt, recurrence, days, until) ==
  /\ win # NoWindow
  /\ windowEdits < MaxWindowEdits
  /\ windowEdits' = windowEdits + 1
  /\ win' = WithEnd(Columns(startsAt, endsAt, recurrence, days, until), win.endedStart, win.endedAt)
  /\ Acceptable(win')
  /\ UNCHANGED <<clocks, now>>

\* A repeating window keeps its later occurrences.
Ended(w, start, at) ==
  IF w.recurrence = "none" THEN [w EXCEPT !.endsAt = Greatest({at, w.startsAt + 1})]
  ELSE [w EXCEPT !.endedStart = start, !.endedAt = at]

EndNow ==
  /\ win # NoWindow
  /\ Current(win, now) # Null
  /\ win' = Ended(win, Current(win, now), now)
  /\ UNCHANGED <<clocks, now, windowEdits>>

Delete ==
  /\ win # NoWindow
  /\ windowEdits < MaxWindowEdits
  /\ windowEdits' = windowEdits + 1
  /\ win' = NoWindow
  /\ UNCHANGED <<clocks, now>>

HourPasses ==
  /\ now < LastHour
  /\ now' = now + 1
  /\ UNCHANGED <<clocks, win, windowEdits>>

WindowNext ==
  \/ \E startsAt \in Starts, length \in Lengths, recurrence \in Recurrences, days \in WeekdaySets,
        until \in Untils \cup {Null} : Create(startsAt, length, recurrence, days, until)
  \/ \E startsAt \in Starts, length \in Lengths, recurrence \in Recurrences, days \in WeekdaySets,
        until \in Untils \cup {Null} :
       \/ Patch(startsAt, startsAt + length, recurrence, days, until)
       \/ win # NoWindow /\ Patch(startsAt, win.endsAt, recurrence, days, until)
  \/ EndNow
  \/ Delete
  \/ HourPasses

WindowSpec == WindowInit /\ [][WindowNext]_windowVars

-----------------------------------------------------------------------------
(* Properties.                                                             *)

Reads(at, day, hour) == LocalDay(at) = day /\ LocalHour(at) = hour

\* 01:00 stays 01:00: an occurrence begins when the clocks read its hour on its
\* date, or next to the change of clocks on the night that hour is skipped
\* (instantOf; docs/incidents-and-maintenance.md on a change of clocks).
KeepsWallClock ==
  \A day \in LocalDay(clocks.at) - 2 .. LocalDay(clocks.at) + 2, hour \in 0 .. HoursPerDay - 1 :
    IF \E at \in clocks.at - 4 * HoursPerDay .. clocks.at + 4 * HoursPerDay : Reads(at, day, hour)
    THEN Reads(InstantOf(day, hour), day, hour)
    ELSE InstantOf(day, hour) - clocks.at \in -1 .. 1

\* The dates from before the window's own start to more than a week from `at`.
Dates(w, at) ==
  LocalDay(w.startsAt) - 2 .. Greatest({LocalDay(at), LocalDay(w.startsAt)}) + DaysPerWeek + 2

\* The occurrences on these dates: one for every chosen date from the window's
\* own start to the end of its recurrence.
Occurrences(w, at) ==
  IF w.recurrence = "none" THEN {w.startsAt}
  ELSE {start \in {StartOn(w, day) : day \in {d \in Dates(w, at) : Chosen(w, d)}} :
          w.startsAt <= start /\ (w.until # Null => start <= w.until)}

\* The search misses no occurrence and invents none, at any time and across a
\* change of clocks: the date it begins with, the dates it looks at, the query
\* before it and its early exits leave what a list of all occurrences shows
\* (windowOccurrences, activeWindows), and each begins at its hour.
OccurrencesFound ==
  /\ now = 0 => KeepsWallClock
  /\ win # NoWindow =>
       /\ ActiveWindow(win, now) = LastOf(Running(win, Occurrences(win, now), now))
       /\ Upcoming(win, now) = FirstOf({start \in Occurrences(win, now) : start > now})

\* Ending an occurrence ends that one and nothing else: from then on no
\* occurrence covers the time it still had, and the later ones run as before
\* (POST /maintenance/:id/end with maxOccurrenceMs: "ending one early could not
\* stop the other").
EndCutsOne ==
  [][EndNow =>
       \A at \in now + 2 .. LastHour + 2 * HoursPerDay :
         Running(win', Occurrences(win', at), at) = Running(win, Occurrences(win, at), at) \ {Current(win, now)}]_windowVars
===============================================================================
