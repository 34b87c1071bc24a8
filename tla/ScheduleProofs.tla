--------------------------- MODULE ScheduleProofs ---------------------------
(***************************************************************************)
(* What holds of a card's dates in every time zone and for grids of any    *)
(* length: the range asked for covers the grid, the timeline's bar is the  *)
(* calendar's row of cells, and no edit turns a span around.               *)
(*                                                                         *)
(* For the last, the invariant keeps of every PATCH on its way that it     *)
(* would leave the copy it was made from with its dates in order.          *)
(***************************************************************************)
EXTENDS Schedule, TLAPS

Patches == [start: Int \cup {NoDate, Keep}, due: Int \cup {NoDate, Keep}, of: Dates \cup {Unseen}]

Labelled(c) == isLabel(c.start) /\ isLabel(c.due)

\* A PATCH made from a copy in order leaves it in order, where a viewer's day holds
\* one label.
KeepsOrder(v, u) ==
  (u.of # Unseen /\ Straight(u.of) /\ Labelled(u.of) /\ Labelled(Applied(u, u.of)) /\ ~TwoLabels(v))
     => Straight(Applied(u, u.of))

PatchesKeepOrder ==
  \A v \in Viewer : patch[v] # Unseen => patch[v] \in Patches /\ KeepsOrder(v, patch[v])

TidyLabelled == tidy => Labelled(dates) /\ Straight(dates)

\* The row is two dates, each a time or none, and so is every copy.
DatesOK ==
  /\ dates \in Dates
  /\ pos \in [Viewer -> Start0]
  /\ cache \in [Viewer -> [Start0 -> Dates \cup {Unseen}]]
  /\ patch \in [Viewer -> Patches \cup {Unseen}]
  /\ edits \in 0..MaxEdits
  /\ tidy \in BOOLEAN

SchedInv == DatesOK /\ PatchesKeepOrder /\ TidyLabelled

-----------------------------------------------------------------------------
(* Arithmetic of days.                                                      *)

\* Hour t belongs to day d of UTC exactly from midnight to midnight.
LEMMA DayOfHour ==
  ASSUME NEW t \in Int, NEW d \in Int
  PROVE  /\ dateKey(t) \in Int
         /\ dateKey(t) =< d <=> t < 24 * d + 24
         /\ d =< dateKey(t) <=> 24 * d =< t
  BY DEF dateKey

\* The span of a dated card.
LEMMA SpanOfDates ==
  ASSUME NEW c \in Dates, Dated(c)
  PROVE  first(c) \in Int /\ last(c) \in Int
  BY ScheduleConstants DEF Dates, Dated, Undated, first, last

\* No viewer's clock is more than half a day behind UTC, or 14 hours ahead.
LEMMA OffsetBounds ==
  ASSUME NEW v \in Viewer, NEW d \in Int
  PROVE  offset(v, d) \in -12..14
  BY ScheduleConstants DEF offset

-----------------------------------------------------------------------------
(* What the grids show, of any dates.                                       *)

LEMMA RangeCoversGrid ==
  ASSUME NEW v \in Viewer, NEW c \in Dates, NEW d \in Grid(v), pos[v] \in Int, cardOverlapsDay(c, d)
  PROVE  Queried(v, c) = c
<1> USE ScheduleConstants
<1>1. Dated(c) /\ first(c) \in Int /\ last(c) \in Int
  BY SpanOfDates DEF cardOverlapsDay
<1>2. d \in Int /\ pos[v] =< d /\ d =< pos[v] + GridDays - 1
  BY DEF Grid
<1>3. first(c) < 24 * d + 24 /\ 24 * d =< last(c)
  BY <1>1, <1>2, DayOfHour DEF cardOverlapsDay
<1>4. from(v) =< 24 * pos[v] - 12
  <2>1. offset(v, pos[v] - 1) \in -12..14
    BY OffsetBounds
  <2> QED
    BY <2>1 DEF from, midnight
<1>5. to(v) >= 24 * (pos[v] + GridDays) + 9
  <2>1. offset(v, pos[v] + GridDays + 1) \in -12..14
    BY OffsetBounds
  <2> QED
    BY <2>1 DEF to, midnight
<1>6. from(v) \in Int /\ to(v) \in Int
  BY OffsetBounds DEF from, to, midnight
<1> QED
  BY <1>1, <1>2, <1>3, <1>4, <1>5, <1>6 DEF Queried

LEMMA BarIsRow ==
  ASSUME NEW v \in Viewer, NEW c \in Dates, pos[v] \in Int, Straight(c), NEW i \in 0..(GridDays - 1)
  PROVE  cardOverlapsDay(c, pos[v] + i) <=> Barred(v, c) /\ barStart(v, c) =< i /\ i =< barEnd(v, c)
<1> USE ScheduleConstants
<1>1. CASE ~Dated(c)
  BY <1>1 DEF cardOverlapsDay, Barred
<1>2. CASE Dated(c)
  <2>1. dateKey(first(c)) \in Int /\ dateKey(last(c)) \in Int /\ dateKey(first(c)) =< dateKey(last(c))
    BY <1>2, SpanOfDates, DayOfHour DEF Straight
  <2> QED
    BY <1>2, <2>1 DEF cardOverlapsDay, Barred, barStart, barEnd
<1> QED
  BY <1>1, <1>2

-----------------------------------------------------------------------------
(* Edits keep order.                                                        *)

\* The hours of labels are in order as the days they stand for are.
LEMMA LabelDays ==
  ASSUME NEW s \in Int, NEW e \in Int, s % 24 = 0, e % 24 = 0
  PROVE  dateKey(s) =< dateKey(e) <=> s =< e
  BY DEF dateKey

\* A viewer whose day holds one label sees labels in order only if they are.
LEMMA LocalOrder ==
  ASSUME NEW v \in Viewer, NEW s \in Int, NEW e \in Int, s % 24 = 0, e % 24 = 0,
         ~TwoLabels(v), localDay(v, s) =< localDay(v, e)
  PROVE  s =< e
<1> DEFINE turn == 24 * Zone[v].change + 2 - Zone[v].before
           b    == Zone[v].before
           a    == Zone[v].after
<1>1. b \in -12..14 /\ a \in -12..14 /\ turn \in Int /\ ~(b >= 0 /\ a < 0)
  BY ScheduleConstants DEF TwoLabels
<1>2. /\ localDay(v, s) = IF s >= turn THEN (s + a) \div 24 ELSE (s + b) \div 24
      /\ localDay(v, e) = IF e >= turn THEN (e + a) \div 24 ELSE (e + b) \div 24
  BY DEF localDay
<1>3. PICK i \in Int, j \in Int : s = 24 * i /\ e = 24 * j
  <2>1. s = 24 * (s \div 24) /\ e = 24 * (e \div 24)
    OBVIOUS
  <2> QED
    BY <2>1
<1> HIDE DEF turn, a, b
<1>4. \A k \in Int, z \in -12..14 : (24 * k + z) \div 24 = IF z < 0 THEN k - 1 ELSE k
  OBVIOUS
<1>5. /\ localDay(v, s) = IF s >= turn THEN IF a < 0 THEN i - 1 ELSE i ELSE IF b < 0 THEN i - 1 ELSE i
      /\ localDay(v, e) = IF e >= turn THEN IF a < 0 THEN j - 1 ELSE j ELSE IF b < 0 THEN j - 1 ELSE j
  BY <1>1, <1>2, <1>3, <1>4
<1> QED
  BY <1>1, <1>3, <1>5

\* shiftCardDates moves both dates by the same time.
LEMMA DragKeepsOrder ==
  ASSUME NEW v \in Viewer, NEW c \in Dates, NEW f \in Int, NEW d \in Int
  PROVE  LET u == shiftCardDates(v, c, f, d)
             p == [start |-> u.start, due |-> u.due, of |-> c]
         IN  p \in Patches /\ KeepsOrder(v, p)
<1> USE ScheduleConstants
<1> DEFINE delta == midnight(v, d) - midnight(v, f)
           p == [start |-> moved(c.start, delta), due |-> moved(c.due, delta), of |-> c]
<1>1. delta \in Int
  BY OffsetBounds DEF midnight
<1> HIDE DEF delta
<1>2. p \in Patches
  BY <1>1 DEF Patches, moved, Dates
<1>3. Applied(p, c) = [start |-> IF c.start = NoDate THEN NoDate ELSE c.start + delta,
                       due |-> IF c.due = NoDate THEN NoDate ELSE c.due + delta]
  BY <1>1 DEF Applied, moved, Dates
<1>4. KeepsOrder(v, p)
  <2> SUFFICES ASSUME Straight(c), Labelled(c), Labelled(Applied(p, c)) PROVE Straight(Applied(p, c))
    BY DEF KeepsOrder
  <2>1. CASE c.start # NoDate /\ c.due # NoDate
    <3> DEFINE s == c.start
               e == c.due
               n == Applied(p, c)
    <3>1. s \in Int /\ e \in Int /\ n = [start |-> s + delta, due |-> e + delta]
      BY <1>3, <2>1 DEF Dates
    <3>2. s % 24 = 0 /\ e % 24 = 0 /\ (s + delta) % 24 = 0 /\ (e + delta) % 24 = 0
      BY <1>1, <3>1, <2>1 DEF Labelled, isLabel
    <3>3. s =< e
      BY <2>1, <3>1, <3>2, LabelDays DEF Straight, Dated, Undated, first, last
    <3>4. dateKey(s + delta) =< dateKey(e + delta)
      BY <1>1, <3>1, <3>2, <3>3, LabelDays
    <3>5. first(n) = s + delta /\ last(n) = e + delta
      BY <1>1, <3>1 DEF first, last
    <3> QED
      BY <3>4, <3>5 DEF Straight
  <2>2. CASE c.start = NoDate \/ c.due = NoDate
    <3>1. first(Applied(p, c)) = last(Applied(p, c))
      BY <1>1, <1>3, <2>2 DEF first, last, Dates
    <3>2. Dated(Applied(p, c)) => first(Applied(p, c)) \in Int
      BY <1>1, <1>3, <2>2 DEF first, Dates, Dated, Undated
    <3> QED
      BY <3>1, <3>2, DayOfHour DEF Straight
  <2> QED
    BY <2>1, <2>2
<1> QED
  BY <1>2, <1>4 DEF shiftCardDates, delta

\* A date that becomes a span: the new edge lies on its own side.
LEMMA SpanKeepsOrder ==
  ASSUME NEW v \in Viewer, NEW c \in Dates, NEW s \in Int, NEW e \in Int, s =< e
  PROVE  LET p == [start |-> s, due |-> e, of |-> c] IN p \in Patches /\ KeepsOrder(v, p)
<1> USE ScheduleConstants
<1> DEFINE p == [start |-> s, due |-> e, of |-> c]
<1>1. Applied(p, c) = [start |-> s, due |-> e]
  BY DEF Applied
<1>2. Straight(Applied(p, c))
  <2>1. first(Applied(p, c)) = s /\ last(Applied(p, c)) = e
    BY <1>1 DEF first, last
  <2>2. dateKey(s) =< dateKey(e)
    BY DEF dateKey
  <2> QED
    BY <2>1, <2>2 DEF Straight
<1> QED
  BY <1>2 DEF Patches, KeepsOrder

\* One edge of a span moves, and the viewer sees the days in order.
LEMMA ResizeKeepsOrder ==
  ASSUME NEW v \in Viewer, NEW c \in Dates, Spans(c), NEW s \in Int, NEW e \in Int,
         localDay(v, s) =< localDay(v, e), NEW p \in Patches, p.of = c,
         Applied(p, c) = [start |-> s, due |-> e]
  PROVE  KeepsOrder(v, p)
<1> USE ScheduleConstants
<1> SUFFICES ASSUME Labelled(Applied(p, c)), ~TwoLabels(v) PROVE Straight(Applied(p, c))
  BY DEF KeepsOrder
<1>1. s % 24 = 0 /\ e % 24 = 0
  BY DEF Labelled, isLabel
<1>2. dateKey(s) =< dateKey(e)
  BY <1>1, LocalOrder, LabelDays
<1>3. first(Applied(p, c)) = s /\ last(Applied(p, c)) = e
  BY DEF first, last
<1> QED
  BY <1>2, <1>3 DEF Straight
-----------------------------------------------------------------------------
(* The invariant.                                                           *)

LEMMA SchedStarts == SchedInit => SchedInv
<1> SUFFICES ASSUME SchedInit PROVE SchedInv
  OBVIOUS
<1> USE ScheduleConstants DEF SchedInit
<1>1. dates \in Dates
  BY DEF Dates, Undated
<1>2. pos \in [Viewer -> Start0] /\ cache \in [Viewer -> [Start0 -> Dates \cup {Unseen}]]
  <2>1. FirstDay \in Start0
    BY DEF Start0
  <2> QED
    BY <2>1
<1>3. Labelled(dates) /\ Straight(dates)
  BY DEF Labelled, isLabel, Straight, Dated, Undated, first, last, dateKey
<1> QED
  BY <1>1, <1>2, <1>3 DEF SchedInv, DatesOK, PatchesKeepOrder, TidyLabelled

\* Sending a PATCH that keeps order.
LEMMA SendKeeps ==
  ASSUME NEW v \in Viewer, NEW u, NEW of, SchedInv, Send(v, u, of),
         LET p == [start |-> u.start, due |-> u.due, of |-> of] IN p \in Patches /\ KeepsOrder(v, p)
  PROVE  SchedInv'
<1> DEFINE p == [start |-> u.start, due |-> u.due, of |-> of]
<1>1. p \in Patches /\ KeepsOrder(v, p)
  OBVIOUS
<1> HIDE DEF p
<1>2. patch' = [patch EXCEPT ![v] = p] /\ UNCHANGED <<dates, pos, cache, tidy>>
  BY DEF Send, p
<1>3. DatesOK'
  BY <1>1, <1>2, ScheduleConstants DEF SchedInv, DatesOK, Send
<1>4. PatchesKeepOrder'
  BY <1>1, <1>2 DEF SchedInv, DatesOK, PatchesKeepOrder
<1>5. TidyLabelled'
  BY <1>2 DEF SchedInv, TidyLabelled, Labelled, isLabel
<1> QED
  BY <1>3, <1>4, <1>5 DEF SchedInv

LEMMA ShownIsDates ==
  ASSUME NEW v \in Viewer, SchedInv
  PROVE  shown(v) \in Dates \cup {Unseen} /\ pos[v] \in Int
  BY ScheduleConstants DEF SchedInv, DatesOK, shown, Start0

LEMMA DragKeeps ==
  ASSUME NEW v \in Viewer, SchedInv, NEW d \in Grid(v), NEW f \in Grid(v), Drag(v, f, d)
  PROVE  SchedInv'
<1>1. d \in Int /\ f \in Int /\ shown(v) \in Dates
  BY ShownIsDates DEF Grid, Drag
<1> QED
  BY <1>1, DragKeepsOrder, SendKeeps DEF Drag

\* A card without dates is in order whatever one date it gets.
LEMMA AnchorKeeps ==
  ASSUME NEW v \in Viewer, SchedInv, NEW d \in Grid(v), Anchor(v, d)
  PROVE  SchedInv'
<1> USE ScheduleConstants
<1> DEFINE u == [start |-> Keep, due |-> noon(v, d)]
           p == [start |-> u.start, due |-> u.due, of |-> shown(v)]
<1>1. d \in Int /\ shown(v) = Undated /\ Undated \in Dates
  BY ShownIsDates DEF Grid, Anchor, Undated, Dates
<1>2. u.due \in Int
  BY <1>1, OffsetBounds DEF noon
<1>3. p \in Patches
  BY <1>1, <1>2 DEF Patches
<1>4. Applied(p, p.of) = [start |-> NoDate, due |-> u.due]
  BY <1>1, <1>2 DEF Applied, Undated
<1>5. Straight(Applied(p, p.of))
  BY <1>2, <1>4, DayOfHour DEF Straight, first, last
<1> QED
  BY <1>3, <1>5, SendKeeps DEF Anchor, KeepsOrder

LEMMA PromoteKeeps ==
  ASSUME NEW v \in Viewer, SchedInv, NEW edge \in Edges, NEW n \in Steps, Promote(v, edge, n)
  PROVE  SchedInv'
<1> USE ScheduleConstants
<1> DEFINE c == shown(v)
           t == last(c)
<1>1. c \in Dates /\ Dated(c) /\ n \in Int
  BY ShownIsDates DEF Promote, Dated, Undated, Steps, Dates
<1>2. t \in Int
  BY <1>1, SpanOfDates
<1> HIDE DEF c, t
<1>3. ASSUME NEW s \in Int, NEW e \in Int, s =< e, Send(v, [start |-> s, due |-> e], c)
      PROVE  SchedInv'
  <2>1. [start |-> s, due |-> e, of |-> c] \in Patches /\ KeepsOrder(v, [start |-> s, due |-> e, of |-> c])
    BY <1>1, <1>3, SpanKeepsOrder
  <2> DEFINE u == [start |-> s, due |-> e]
  <2>2. u.start = s /\ u.due = e /\ Send(v, u, c)
    BY <1>3
  <2> HIDE DEF u
  <2> QED
    BY <2>1, <2>2, SendKeeps
<1>4. CASE n > 0 /\ Send(v, [start |-> t, due |-> t + 24 * n], c)
  <2>1. t + 24 * n \in Int /\ t =< t + 24 * n
    BY <1>1, <1>2, <1>4
  <2> QED
    BY <1>2, <1>3, <1>4, <2>1
<1>5. CASE n < 0 /\ Send(v, [start |-> t + 24 * n, due |-> t], c)
  <2>1. t + 24 * n \in Int /\ t + 24 * n =< t
    BY <1>1, <1>2, <1>5
  <2> QED
    BY <1>2, <1>3, <1>5, <2>1
<1> QED
  BY <1>4, <1>5 DEF Promote, c, t

LEMMA ResizeKeeps ==
  ASSUME NEW v \in Viewer, SchedInv, NEW edge \in Edges, NEW n \in Steps, Resize(v, edge, n)
  PROVE  SchedInv'
<1> USE ScheduleConstants
<1> DEFINE c == shown(v)
           s == IF edge = "start" THEN c.start + 24 * n ELSE c.start
           e == IF edge = "start" THEN c.due ELSE c.due + 24 * n
           u == IF edge = "start" THEN [start |-> s, due |-> Keep] ELSE [start |-> Keep, due |-> e]
           p == [start |-> u.start, due |-> u.due, of |-> c]
<1>1. c \in Dates /\ Spans(c) /\ localDay(v, s) =< localDay(v, e) /\ Send(v, u, c)
  BY ShownIsDates DEF Resize, Spans
<1>2. c.start \in Int /\ c.due \in Int /\ n \in Int
  BY <1>1 DEF Dates, Spans, Steps
<1> HIDE DEF c
<1>3. s \in Int /\ e \in Int
  BY <1>2
<1>4. p \in Patches /\ p.of = c
  BY <1>1, <1>3 DEF Patches
<1>5. Applied(p, c) = [start |-> s, due |-> e]
  BY <1>2, <1>3 DEF Applied
<1>6. KeepsOrder(v, p)
  <2> HIDE DEF p, s, e
  <2> QED
    BY <1>1, <1>3, <1>4, <1>5, ResizeKeepsOrder
<1> QED
  BY <1>1, <1>4, <1>6, SendKeeps

\* What a picker sends was made from no copy.
LEMMA PickKeeps == ASSUME NEW v \in Viewer, SchedInv, Pick(v) PROVE SchedInv'
<1>1. ASSUME NEW s \in Int \cup {NoDate, Keep}, NEW e \in Int \cup {NoDate, Keep},
             Send(v, [start |-> s, due |-> e], Unseen)
      PROVE  SchedInv'
  BY <1>1, SendKeeps DEF Patches, KeepsOrder
<1>2. PICK d \in Grid(v) : \/ Send(v, [start |-> 24 * d, due |-> Keep], Unseen)
                           \/ Send(v, [start |-> NoDate, due |-> Keep], Unseen)
                           \/ Send(v, [start |-> Keep, due |-> 24 * d], Unseen)
  BY DEF Pick
<1>3. 24 * d \in Int \cup {NoDate, Keep}
  BY ShownIsDates DEF Grid
<1>4. NoDate \in Int \cup {NoDate, Keep} /\ Keep \in Int \cup {NoDate, Keep}
  OBVIOUS
<1> HIDE DEF Send
<1> QED
  BY <1>1, <1>2, <1>3, <1>4

\* A PATCH lands: one that counts as tidy was made from the row as it is.
LEMMA LandKeeps == ASSUME NEW v \in Viewer, SchedInv, Land(v) PROVE SchedInv'
<1> USE ScheduleConstants
<1> DEFINE new == Applied(patch[v], dates)
<1>1. patch[v] \in Patches /\ KeepsOrder(v, patch[v]) /\ dates \in Dates
  BY DEF SchedInv, DatesOK, PatchesKeepOrder, Land
<1>2. new \in Dates
  BY <1>1 DEF Applied, Patches, Dates
<1>3. dates' = new /\ patch' = [patch EXCEPT ![v] = Unseen] /\ UNCHANGED <<pos, cache, edits>>
  BY DEF Land
<1>4. tidy' = (/\ tidy
               /\ IF patch[v].of = Unseen THEN Straight(new) ELSE patch[v].of = dates
               /\ isLabel(new.start) /\ isLabel(new.due) /\ ~TwoLabels(v))
  BY DEF Land
<1> HIDE DEF new
<1>5. DatesOK'
  BY <1>2, <1>3, <1>4 DEF SchedInv, DatesOK
<1>6. PatchesKeepOrder'
  BY <1>3 DEF SchedInv, DatesOK, PatchesKeepOrder
<1>7. TidyLabelled'
  <2> SUFFICES ASSUME tidy' PROVE Labelled(new) /\ Straight(new)
    BY <1>3 DEF TidyLabelled, Labelled, isLabel, Straight, Dated, first, last
  <2>1. Labelled(new)
    BY <1>4 DEF Labelled
  <2>2. CASE patch[v].of # Unseen
    <3>1. patch[v].of = dates /\ Labelled(dates) /\ Straight(dates) /\ ~TwoLabels(v)
      BY <1>4, <2>2 DEF SchedInv, TidyLabelled
    <3> QED
      BY <1>1, <2>1, <2>2, <3>1 DEF KeepsOrder, new
  <2> QED
    BY <1>4, <2>1, <2>2
<1> QED
  BY <1>5, <1>6, <1>7 DEF SchedInv

\* Fetching, paging and a PATCH that is lost leave the row alone.
LEMMA ViewKeeps ==
  ASSUME NEW v \in Viewer, SchedInv, Fetch(v) \/ Page(v) \/ Lose(v)
  PROVE  SchedInv'
<1>1. dates' = dates /\ tidy' = tidy /\ edits' = edits
  BY DEF Fetch, Page, Lose
<1>2. Queried(v, dates) \in Dates \cup {Unseen}
  BY DEF Queried, SchedInv, DatesOK
<1>3. pos' \in [Viewer -> Start0] /\ cache' \in [Viewer -> [Start0 -> Dates \cup {Unseen}]]
  <2>1. pos \in [Viewer -> Start0] /\ cache \in [Viewer -> [Start0 -> Dates \cup {Unseen}]]
    BY DEF SchedInv, DatesOK
  <2>2. CASE Fetch(v)
    <3>1. pos' = pos /\ cache' = [cache EXCEPT ![v][pos[v]] = Queried(v, dates)]
      BY <2>2 DEF Fetch
    <3>2. pos[v] \in Start0 /\ cache[v] \in [Start0 -> Dates \cup {Unseen}]
      BY <2>1
    <3>3. [cache[v] EXCEPT ![pos[v]] = Queried(v, dates)] \in [Start0 -> Dates \cup {Unseen}]
      BY <1>2, <3>2
    <3> QED
      BY <2>1, <3>1, <3>3
  <2>3. CASE Page(v)
    BY <2>1, <2>3 DEF Page
  <2>4. CASE Lose(v)
    BY <2>1, <2>4 DEF Lose
  <2> QED
    BY <2>2, <2>3, <2>4
<1>4. patch' = patch \/ patch' = [patch EXCEPT ![v] = Unseen]
  BY DEF Fetch, Page, Lose
<1>5. DatesOK'
  BY <1>1, <1>3, <1>4 DEF SchedInv, DatesOK
<1>6. PatchesKeepOrder'
  BY <1>4 DEF SchedInv, DatesOK, PatchesKeepOrder
<1>7. TidyLabelled'
  BY <1>1 DEF SchedInv, TidyLabelled, Labelled
<1> QED
  BY <1>5, <1>6, <1>7 DEF SchedInv

-----------------------------------------------------------------------------

LEMMA SchedInvKept == SchedInv /\ [SchedNext]_schedVars => SchedInv'
<1> SUFFICES ASSUME SchedInv, [SchedNext]_schedVars PROVE SchedInv'
  OBVIOUS
<1>1. CASE UNCHANGED schedVars
  BY <1>1 DEF schedVars, SchedInv, DatesOK, PatchesKeepOrder, TidyLabelled, Labelled
<1>2. CASE SchedNext
  <2> PICK v \in Viewer : SchedNext!(v)
    BY <1>2 DEF SchedNext
  <2> QED
    BY ViewKeeps, PickKeeps, LandKeeps, AnchorKeeps, DragKeeps, PromoteKeeps, ResizeKeeps
<1> QED
  BY <1>1, <1>2

\* The invariant holds in every reachable state.
THEOREM ScheduleInvariant == SchedSpec => []SchedInv
BY SchedStarts, SchedInvKept, PTL DEF SchedSpec

\* FetchCoversGrid in every zone: what the endpoint sends for a grid holds every
\* card that has a cell in it.
THEOREM RangeIsWideEnough == SchedSpec => []FetchCoversGrid
<1>1. SchedInv => FetchCoversGrid
  BY RangeCoversGrid, ShownIsDates DEF FetchCoversGrid, SchedInv, DatesOK
<1> QED
  BY ScheduleInvariant, <1>1, PTL

\* BarMatchesCalendar for a window of any length: the timeline's bar spans the
\* columns of the days on which the calendar shows the card.
THEOREM BarIsCalendarRow == SchedSpec => []BarMatchesCalendar
<1>1. SchedInv => BarMatchesCalendar
  BY BarIsRow, ShownIsDates DEF BarMatchesCalendar, SchedInv, DatesOK
<1> QED
  BY ScheduleInvariant, <1>1, PTL

\* NeverTurned for any viewers, zones and number of edits: no sequence of drags,
\* resizes and picks, each made from the row as it is, puts the due day first.
THEOREM SpanNeverTurned == SchedSpec => []NeverTurned
<1>1. SchedInv => NeverTurned
  BY DEF SchedInv, TidyLabelled, NeverTurned
<1> QED
  BY ScheduleInvariant, <1>1, PTL
=============================================================================
