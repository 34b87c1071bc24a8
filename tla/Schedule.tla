------------------------------ MODULE Schedule ------------------------------
(***************************************************************************)
(* The dates of one card on the calendar and the timeline of several       *)
(* viewers: what the scheduled-cards endpoint sends them                   *)
(* (backend/src/routes/cards/scheduled.ts), where the grids show it        *)
(* (frontend/src/lib/calendar-dates.ts, timeline-dates.ts, due-dates.ts)   *)
(* and the PATCHes of a drag, a resize and the date pickers                *)
(* (components/views/calendar and timeline, CardDetailModal.tsx).          *)
(*                                                                         *)
(* A time is a whole number of hours of UTC.  A stored date stands for the *)
(* UTC day it falls on; a cell of a grid is a day of its viewer's zone,    *)
(* whose clock may change in the night of one day.                         *)
(***************************************************************************)
EXTENDS Integers

CONSTANTS
  Viewer,
  Zone,       \* viewer -> [before, after, change]: hours east of UTC up to and
              \* after the night of day change
  FirstDay,   \* where a grid may start: the days of
  LastDay,    \* FirstDay..LastDay (bound)
  GridDays,   \* days of a grid: 42 of a month, 7 or 28 of a timeline
  MaxEdits,   \* bound: PATCHes ever sent
  NoDate, Keep, Unseen

ASSUME ScheduleConstants ==
  /\ \A v \in Viewer : /\ Zone[v].before \in -12..14 /\ Zone[v].after \in -12..14
                       /\ Zone[v].change \in Int
  /\ FirstDay \in Int /\ LastDay \in Int /\ FirstDay =< LastDay
  /\ GridDays \in Nat \ {0} /\ MaxEdits \in Nat
  /\ NoDate \notin Int /\ Keep \notin Int \cup {NoDate}

VARIABLES
  dates,  \* the card's row: start and due, each a time or NoDate
  pos,    \* the first day of each viewer's grid
  cache,  \* what each viewer was last sent, per first day of the grid
  patch,  \* each viewer's PATCH on its way, or Unseen
  edits,  \* PATCHes sent so far
  tidy    \* history: nothing happened that may turn the span around

schedVars == <<dates, pos, cache, patch, edits, tidy>>

Dates == [start: Int \cup {NoDate}, due: Int \cup {NoDate}]

Undated == [start |-> NoDate, due |-> NoDate]

Start0 == FirstDay..LastDay

SchedTypeOK ==
  /\ dates \in Dates
  /\ pos \in [Viewer -> Start0]
  /\ cache \in [Viewer -> [Start0 -> Dates \cup {Unseen}]]
  /\ \A v \in Viewer : patch[v] # Unseen =>
       /\ patch[v].start \in Int \cup {NoDate, Keep}
       /\ patch[v].due \in Int \cup {NoDate, Keep}
       /\ patch[v].of \in Dates \cup {Unseen}
  /\ edits \in 0..MaxEdits
  /\ tidy \in BOOLEAN

SchedInit ==
  /\ dates \in {Undated, [start |-> 24 * FirstDay, due |-> 24 * FirstDay + 24]}
  /\ pos = [v \in Viewer |-> FirstDay]
  /\ cache = [v \in Viewer |-> [p \in Start0 |-> Unseen]]
  /\ patch = [v \in Viewer |-> Unseen]
  /\ edits = 0
  /\ tidy = TRUE

-----------------------------------------------------------------------------
(* Days and times.                                                          *)

\* The clock changes at two in the morning of day change.
offset(v, d) == IF d > Zone[v].change THEN Zone[v].after ELSE Zone[v].before

\* startOfDay of day d, and noon of it.
midnight(v, d) == 24 * d - offset(v, d)
noon(v, d)     == 24 * d + 12 - offset(v, d + 1)

\* The day of v's calendar that holds time t.
localDay(v, t) ==
  IF t >= 24 * Zone[v].change + 2 - Zone[v].before
  THEN (t + Zone[v].after) \div 24
  ELSE (t + Zone[v].before) \div 24

\* dueDateKey: the day a stored date stands for.
dateKey(t) == t \div 24

isLabel(t) == t = NoDate \/ t % 24 = 0

\* A card with one date spans that day.
first(c) == IF c.start = NoDate THEN c.due ELSE c.start
last(c)  == IF c.due = NoDate THEN c.start ELSE c.due

Dated(c) == c # Undated

cardOverlapsDay(c, d) ==
  Dated(c) /\ dateKey(first(c)) =< d /\ d =< dateKey(last(c))

Grid(v) == pos[v]..(pos[v] + GridDays - 1)

\* Slip: the range is that of the grid itself, without a day on each side.
fromUnpadded(v) == midnight(v, pos[v])

\* monthGridRange ends with the last millisecond of the day after the grid, the
\* windowRange of a timeline one later: the last whole hour of that day.
from(v) == midnight(v, pos[v] - 1)
to(v)   == midnight(v, pos[v] + GridDays + 1) - 1

\* queryCards: the dates in the answer, or Unseen for no such card in it.
Queried(v, c) ==
  IF Dated(c) => last(c) >= from(v) /\ first(c) =< to(v) THEN c ELSE Unseen

\* Slip: the last column is not clipped at the window's own last day.
barEndLate(v, c) ==
  LET d == dateKey(last(c)) IN IF d > pos[v] + GridDays - 1 THEN GridDays - 2 ELSE d - pos[v]

\* cardSpanInWindow: the columns a bar starts and ends at; the first is 0.
barStart(v, c) == LET d == dateKey(first(c)) IN IF d < pos[v] THEN 0 ELSE d - pos[v]
barEnd(v, c) ==
  LET d == dateKey(last(c))
  IN  IF d > pos[v] + GridDays - 1 THEN GridDays - 1 ELSE d - pos[v]

Barred(v, c) ==
  /\ Dated(c)
  /\ dateKey(last(c)) >= pos[v] /\ dateKey(first(c)) =< pos[v] + GridDays - 1

-----------------------------------------------------------------------------
(* The viewers.                                                             *)

Fetch(v) ==
  /\ cache' = [cache EXCEPT ![v][pos[v]] = Queried(v, dates)]
  /\ UNCHANGED <<dates, pos, patch, edits, tidy>>

\* The month before or after; what was fetched for it earlier is shown again.
Page(v) == \E p \in Start0 :
  /\ p # pos[v] /\ p - pos[v] \in {-1, 1}
  /\ pos' = [pos EXCEPT ![v] = p]
  /\ UNCHANGED <<dates, cache, patch, edits, tidy>>

shown(v) == cache[v][pos[v]]

\* useRescheduleCard sends the fields of u; of is the copy they were made from.
Send(v, u, of) ==
  /\ patch[v] = Unseen
  /\ edits < MaxEdits
  /\ edits' = edits + 1
  /\ patch' = [patch EXCEPT ![v] = [start |-> u.start, due |-> u.due, of |-> of]]
  /\ UNCHANGED <<dates, pos, cache, tidy>>

moved(t, delta) == IF t = NoDate THEN Keep ELSE t + delta

\* shiftCardDates: both dates move by the time between two midnights.
shiftCardDates(v, c, f, d) ==
  LET delta == midnight(v, d) - midnight(v, f)
  IN  [start |-> moved(c.start, delta), due |-> moved(c.due, delta)]

\* A pill or a bar is dragged from one of its cells to another.
Drag(v, f, d) ==
  /\ shown(v) # Unseen
  /\ cardOverlapsDay(shown(v), f)
  /\ Send(v, shiftCardDates(v, shown(v), f, d), shown(v))

\* A card of the sidebar is dropped on a day.
Anchor(v, d) ==
  /\ shown(v) = Undated
  /\ Send(v, [start |-> Keep, due |-> noon(v, d)], shown(v))

\* resizeCardDates, of a card with one date, n # 0: it becomes a span.
Promote(v, edge, n) ==
  LET c == shown(v)
      t == last(c)
  IN  /\ c # Unseen /\ (c.start = NoDate) # (c.due = NoDate)
      /\ \/ edge = "end" /\ n > 0 /\ Send(v, [start |-> t, due |-> t + 24 * n], c)
         \/ edge = "start" /\ n < 0 /\ Send(v, [start |-> t + 24 * n, due |-> t], c)

Spans(c) == c # Unseen /\ c.start # NoDate /\ c.due # NoDate

\* Slip: the new edge is not compared with the other one.
ResizeFreely(v, edge, n) ==
  /\ Spans(shown(v))
  /\ LET c == shown(v)
     IN  Send(v, IF edge = "start" THEN [start |-> c.start + 24 * n, due |-> Keep]
                                   ELSE [start |-> Keep, due |-> c.due + 24 * n], c)

\* ... and of a span: the edge moves, unless that turns the span around.
Resize(v, edge, n) ==
  /\ Spans(shown(v))
  /\ LET c == shown(v)
         s == IF edge = "start" THEN c.start + 24 * n ELSE c.start
         e == IF edge = "start" THEN c.due ELSE c.due + 24 * n
     IN  /\ localDay(v, s) =< localDay(v, e)
         /\ Send(v, IF edge = "start" THEN [start |-> s, due |-> Keep]
                                      ELSE [start |-> Keep, due |-> e], c)

\* The pickers of the card's dialog.  A due date cleared is sent as undefined.
Pick(v) == \E d \in Grid(v) :
  \/ Send(v, [start |-> 24 * d, due |-> Keep], Unseen)
  \/ Send(v, [start |-> NoDate, due |-> Keep], Unseen)
  \/ Send(v, [start |-> Keep, due |-> 24 * d], Unseen)

-----------------------------------------------------------------------------
(* The server.                                                              *)

Applied(u, c) ==
  [start |-> IF u.start = Keep THEN c.start ELSE u.start,
   due   |-> IF u.due = Keep THEN c.due ELSE u.due]

Straight(c) == Dated(c) => dateKey(first(c)) =< dateKey(last(c))

\* On the night its clock goes back across UTC a viewer's day holds two labels.
TwoLabels(v) == Zone[v].before >= 0 /\ Zone[v].after < 0

\* updateCard writes the fields that are there.  Not tidy: a change made from a
\* copy that is no longer the row, dates that are not labels, a picker's choice
\* that turns the span around.
Land(v) ==
  /\ patch[v] # Unseen
  /\ LET new == Applied(patch[v], dates)
     IN  /\ dates' = new
         /\ tidy' = (/\ tidy
                     /\ IF patch[v].of = Unseen THEN Straight(new) ELSE patch[v].of = dates
                     /\ isLabel(new.start) /\ isLabel(new.due) /\ ~TwoLabels(v))
  /\ patch' = [patch EXCEPT ![v] = Unseen]
  /\ UNCHANGED <<pos, cache, edits>>

\* The PATCH fails; the viewer is told, and its copy is as it was.
Lose(v) ==
  /\ patch[v] # Unseen
  /\ patch' = [patch EXCEPT ![v] = Unseen]
  /\ UNCHANGED <<dates, pos, cache, edits, tidy>>

Edges == {"start", "end"}

\* A bar can be pulled as far as the window is wide.
Steps == (-GridDays..GridDays) \ {0}

SchedNext == \E v \in Viewer :
  \/ Fetch(v) \/ Page(v) \/ Pick(v) \/ Land(v) \/ Lose(v)
  \/ \E d \in Grid(v) : Anchor(v, d) \/ \E f \in Grid(v) : Drag(v, f, d)
  \/ \E edge \in Edges, n \in Steps : Promote(v, edge, n) \/ Resize(v, edge, n)

SchedSpec == SchedInit /\ [][SchedNext]_schedVars

-----------------------------------------------------------------------------
(* Properties.                                                              *)

\* The endpoint never leaves out a card that the viewer's grid has a cell for,
\* whatever the viewer's zone: the range is a day longer than the grid on each
\* side (monthGridRange, windowRange and the filter of queryCards).
FetchCoversGrid ==
  \A v \in Viewer : \A d \in Grid(v) :
    cardOverlapsDay(dates, d) => Queried(v, dates) = dates

\* The timeline's bar covers the columns of the days on which the calendar
\* shows the card, no more and no less, unless the span is turned around.
BarMatchesCalendar ==
  \A v \in Viewer : Straight(dates) =>
    \A i \in 0..(GridDays - 1) :
      cardOverlapsDay(dates, pos[v] + i)
        <=> Barred(v, dates) /\ barStart(v, dates) =< i /\ i =< barEnd(v, dates)

\* Drags, resizes and pickers never turn a span around, one after the other:
\* it takes two viewers at once, or times that are not dates (resizeCardDates).
NeverTurned == tidy => Straight(dates)
=============================================================================
