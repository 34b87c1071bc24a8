----------------------------- MODULE BoardSync -----------------------------
(***************************************************************************)
(* One board in the caches of the tabs that show it: React Query's copy    *)
(* (hooks/use-boards.ts), optimistic card moves (use-cards.ts), drags of   *)
(* cards and lists with their snapshots (use-kanban-drag.ts,               *)
(* use-list-drag.ts, use-lists.ts), and the events that make a tab fetch   *)
(* again (use-realtime-board.ts, routes/cards/index.ts).                   *)
(*                                                                         *)
(* A board is the list each card is in and the order of the lists.  Of the *)
(* events on their way to a tab it matters only whether there are any:     *)
(* every one of them has the same effect.                                  *)
(***************************************************************************)
EXTENDS Integers

CONSTANTS
  Tab, Elsewhere,  \* the tabs that are followed, and any other client
  SyncCard, Lane, LaneOrder,
  Change,     \* changes ever asked for (bound)
  SeedBoard,
  LISTS, NoBoardYet, Unread, NoFetch, NoDrag,
  MaxLosses   \* bound: connections lost, fetches and answers failed

SyncBoard == [at: [SyncCard -> Lane], order: LaneOrder]

\* A fetch: the answer, once it was read; clean: nothing went untold since.
Fetching == [answer: SyncBoard \cup {Unread}, clean: BOOLEAN]

\* A drag of a card, or of LISTS: back is the copy to put back; stale is history,
\* a fresh copy came in after back was taken.
Dragging == [what: SyncCard \cup {LISTS}, back: SyncBoard, stale: BOOLEAN]

ASSUME SyncConstants ==
  /\ SeedBoard \in SyncBoard /\ LISTS \notin SyncCard /\ Elsewhere \notin Tab
  /\ NoBoardYet \notin SyncBoard /\ Unread \notin SyncBoard /\ MaxLosses \in Nat
  /\ NoFetch \notin Fetching /\ NoDrag \notin Dragging

VARIABLES
  server,  \* the board in the database
  copy,   \* each tab's copy
  fetch,   \* each tab's fetch under way: the answer read for it, if it was
  live,    \* the tab has a socket open
  event,   \* events are on their way to it
  change,  \* the changes asked for
  drag,    \* each tab's drag: the copy it started from
  missed,  \* history: a tab shows what it was never told is outdated
  losses

syncVars == <<server, copy, fetch, live, event, change, drag, missed, losses>>

\* What is moved is a card, or LISTS; back is the copy to roll back to.
Moving == [pc: {"free", "sent", "written", "answered", "failed", "done"}, what: SyncCard \cup {LISTS},
           tab: Tab \cup {Elsewhere, NoBoardYet}, to: SyncBoard, back: SyncBoard \cup {NoBoardYet}]

NoChange == [pc |-> "free", what |-> LISTS, tab |-> NoBoardYet, to |-> SeedBoard, back |-> NoBoardYet]

Closed == [NoChange EXCEPT !.pc = "done"]

Sent == [answer |-> Unread, clean |-> TRUE]

SyncTypeOK ==
  /\ server \in SyncBoard
  /\ copy \in [Tab -> SyncBoard \cup {NoBoardYet}]
  /\ fetch \in [Tab -> Fetching \cup {NoFetch}] /\ drag \in [Tab -> Dragging \cup {NoDrag}]
  /\ live \in [Tab -> BOOLEAN] /\ event \in [Tab -> BOOLEAN] /\ missed \in [Tab -> BOOLEAN]
  /\ change \in [Change -> Moving]
  /\ \A m \in Change : change[m].pc \notin {"free", "done"} =>
       change[m].tab \in Tab \cup {Elsewhere} /\ change[m].back \in SyncBoard
  /\ losses \in 0..MaxLosses

SyncInit ==
  /\ server = SeedBoard
  /\ copy = [c \in Tab |-> NoBoardYet]
  /\ fetch = [c \in Tab |-> NoFetch]
  /\ live = [c \in Tab |-> FALSE]
  /\ event = [c \in Tab |-> FALSE]
  /\ change = [m \in Change |-> NoChange]
  /\ drag = [c \in Tab |-> NoDrag]
  /\ missed = [c \in Tab |-> FALSE]
  /\ losses = 0

Lost == losses < MaxLosses /\ losses' = losses + 1

-----------------------------------------------------------------------------
(* Fetching.                                                                *)

\* invalidateQueries starts over: what a fetch under way brings is dropped.
Invalidate(c) == fetch' = [d \in Tab |-> IF d = c THEN Sent ELSE fetch[d]]

\* The page is mounted, or looked at again.
Visit(c) ==
  /\ fetch[c] = NoFetch
  /\ Invalidate(c)
  /\ UNCHANGED <<server, copy, live, event, change, drag, missed, losses>>

\* findByIdWithChildren; its reads of lists and cards are taken as one.
Read(c) ==
  /\ fetch[c] = Sent
  /\ fetch' = [fetch EXCEPT ![c].answer = server]
  /\ UNCHANGED <<server, copy, live, event, change, drag, missed, losses>>

Arrive(c) ==
  /\ fetch[c] # NoFetch /\ fetch[c].answer # Unread
  /\ copy' = [copy EXCEPT ![c] = fetch[c].answer]
  /\ missed' = [missed EXCEPT ![c] = ~fetch[c].clean]
  /\ fetch' = [fetch EXCEPT ![c] = NoFetch]
  /\ drag' = [drag EXCEPT ![c] = IF @ = NoDrag THEN @ ELSE [@ EXCEPT !.stale = TRUE]]
  /\ UNCHANGED <<server, live, event, change, losses>>

\* After one retry the old copy stays.
FetchFails(c) ==
  /\ fetch[c] # NoFetch
  /\ Lost
  /\ fetch' = [fetch EXCEPT ![c] = NoFetch]
  /\ missed' = [missed EXCEPT ![c] = TRUE]
  /\ UNCHANGED <<server, copy, live, event, change, drag>>

\* Nothing is fetched when a socket opens.
Connect(c) ==
  /\ ~live[c]
  /\ live' = [live EXCEPT ![c] = TRUE]
  /\ UNCHANGED <<server, copy, fetch, event, change, drag, missed, losses>>

\* Whom a change is not told to: missed, and whatever answer was read before it.
Untold(S) ==
  /\ missed' = [c \in Tab |-> missed[c] \/ (c \in S /\ copy[c] # NoBoardYet)]
  /\ fetch' = [c \in Tab |-> IF c \in S /\ fetch[c] # NoFetch /\ fetch[c].answer # Unread
                             THEN [fetch[c] EXCEPT !.clean = FALSE] ELSE fetch[c]]

Disconnect(c) ==
  /\ live[c]
  /\ Lost
  /\ live' = [live EXCEPT ![c] = FALSE]
  /\ event' = [event EXCEPT ![c] = FALSE]
  /\ Untold(IF event[c] THEN {c} ELSE {})
  /\ UNCHANGED <<server, copy, change, drag>>

\* Slip: a fetch under way is taken to be recent enough.
OnEventLazily(c) ==
  /\ live[c] /\ event[c]
  /\ event' = [event EXCEPT ![c] = FALSE]
  /\ fetch' = [fetch EXCEPT ![c] = IF @ = NoFetch THEN Sent ELSE @]
  /\ UNCHANGED <<server, copy, live, change, drag, missed, losses>>

OnEvent(c) ==
  /\ live[c] /\ event[c]
  /\ event' = [event EXCEPT ![c] = FALSE]
  /\ Invalidate(c)
  /\ UNCHANGED <<server, copy, live, change, drag, missed, losses>>

-----------------------------------------------------------------------------
(* Drags.                                                                   *)

\* The boards with `what` somewhere else than in b.
Rearranged(b, what) ==
  (IF what = LISTS THEN {[b EXCEPT !.order = o] : o \in LaneOrder}
                   ELSE {[b EXCEPT !.at[what] = l] : l \in Lane}) \ {b}

DragStart(c) ==
  /\ drag[c] = NoDrag /\ copy[c] # NoBoardYet
  /\ \E what \in SyncCard \cup {LISTS} :
       drag' = [drag EXCEPT ![c] = [what |-> what, back |-> copy[c], stale |-> FALSE]]
  /\ UNCHANGED <<server, copy, fetch, live, event, change, missed, losses>>

\* handleDragOver rearranges the copy under the pointer.
DragOver(c) ==
  /\ drag[c] # NoDrag
  /\ \E b \in Rearranged(copy[c], drag[c].what) : copy' = [copy EXCEPT ![c] = b]
  /\ UNCHANGED <<server, fetch, live, event, change, drag, missed, losses>>

\* Dropped nowhere: the copy of the start is put back, over whatever came in.
DragCancel(c) ==
  /\ drag[c] # NoDrag
  /\ copy' = [copy EXCEPT ![c] = drag[c].back]
  /\ missed' = [missed EXCEPT ![c] = @ \/ drag[c].stale]
  /\ drag' = [drag EXCEPT ![c] = NoDrag]
  /\ UNCHANGED <<server, fetch, live, event, change, losses>>

\* A card's move cancels the fetch under way; the order of the lists does not.
Mutate(m, c, what, b, back) ==
  /\ change[m].pc = "free"
  /\ change' = [change EXCEPT ![m] = [pc |-> "sent", what |-> what, tab |-> c, to |-> b, back |-> back]]
  /\ fetch' = IF what = LISTS THEN fetch ELSE [fetch EXCEPT ![c] = NoFetch]

\* The card is in the list, or the lists are in the order, it started from.
BackAtStart(d, b) == IF d.what = LISTS THEN b.order = d.back.order ELSE b.at[d.what] = d.back.at[d.what]

\* Back where it started: nothing is sent and the copy stays.
DragNothing(c) ==
  /\ drag[c] # NoDrag /\ BackAtStart(drag[c], copy[c])
  /\ drag' = [drag EXCEPT ![c] = NoDrag]
  /\ missed' = [missed EXCEPT ![c] = @ \/ drag[c].stale]
  /\ UNCHANGED <<server, copy, fetch, live, event, change, losses>>

\* A card may have another place in the same list.
DragEnd(c, m) ==
  /\ drag[c] # NoDrag /\ ~(drag[c].what = LISTS /\ BackAtStart(drag[c], copy[c]))
  /\ Mutate(m, c, drag[c].what, copy[c], drag[c].back)
  /\ drag' = [drag EXCEPT ![c] = NoDrag]
  /\ UNCHANGED <<server, copy, live, event, missed, losses>>

\* The menus' moves, shown at once.
MenuMove(c, m) ==
  /\ copy[c] # NoBoardYet /\ drag[c] = NoDrag
  /\ \E what \in SyncCard \cup {LISTS} : \E b \in Rearranged(copy[c], what) :
       Mutate(m, c, what, b, copy[c]) /\ copy' = [copy EXCEPT ![c] = b]
  /\ UNCHANGED <<server, live, event, drag, missed, losses>>

\* Another client's change, whatever copy it was made in.
ChangeElsewhere(m) ==
  /\ change[m].pc = "free"
  /\ \E what \in SyncCard \cup {LISTS} : \E b \in Rearranged(server, what) :
       change' = [change EXCEPT ![m] = [pc |-> "sent", what |-> what, tab |-> Elsewhere,
                                        to |-> b, back |-> server]]
  /\ UNCHANGED <<server, copy, fetch, live, event, drag, missed, losses>>

-----------------------------------------------------------------------------
(* The server, and its answer.                                              *)

\* The card goes to its list, or the lists get their order; only the card
\* routes announce it, in a later step.
Write(m) ==
  /\ change[m].pc = "sent"
  /\ LET k == change[m].what
     IN  IF k # LISTS
         THEN /\ server' = [server EXCEPT !.at[k] = change[m].to.at[k]]
              /\ change' = [change EXCEPT ![m].pc = "written"]
              /\ UNCHANGED <<fetch, missed>>
         ELSE /\ server' = [server EXCEPT !.order = change[m].to.order]
              /\ change' = [change EXCEPT ![m].pc = "answered"]
              /\ Untold(Tab \ {change[m].tab})
  /\ UNCHANGED <<copy, live, event, drag, losses>>

\* realtimeHub.publish to all sockets of the board, its own tab's too.
Announce(m) ==
  /\ change[m].pc = "written"
  /\ event' = [c \in Tab |-> event[c] \/ live[c]]
  /\ Untold({c \in Tab : ~live[c]})
  /\ change' = [change EXCEPT ![m].pc = "answered"]
  /\ UNCHANGED <<server, copy, live, drag, losses>>

\* An integration or a bulk insert writes cards and announces nothing.
WriteUntold ==
  /\ Lost
  /\ \E k \in SyncCard : server' \in Rearranged(server, k)
  /\ Untold(Tab)
  /\ UNCHANGED <<copy, live, event, change, drag>>

\* The request fails, before it wrote or after; a process that dies between
\* the two steps of a card's move announces nothing.
Break(m) ==
  /\ change[m].pc \in {"sent", "written", "answered"}
  /\ Lost
  /\ change' = [change EXCEPT ![m].pc = "failed"]
  /\ Untold(CASE change[m].pc = "written" -> Tab
              [] change[m].pc = "answered" /\ change[m].what = LISTS -> {change[m].tab}
              [] OTHER -> {})
  /\ UNCHANGED <<server, copy, live, event, drag>>

\* onSuccess of the lists, onSettled of a card: fetch again.
Succeed(m) ==
  /\ change[m].pc = "answered"
  /\ Invalidate(change[m].tab)
  /\ change' = [change EXCEPT ![m] = Closed]
  /\ UNCHANGED <<server, copy, live, event, drag, missed, losses>>

PutBack(m) == copy' = [c \in Tab |-> IF c = change[m].tab THEN change[m].back ELSE copy[c]]

\* The copy is rolled back; for a card only it is fetched again.
Revert(m) ==
  /\ change[m].pc = "failed"
  /\ PutBack(m)
  /\ IF change[m].what # LISTS
     THEN Invalidate(change[m].tab) /\ UNCHANGED missed
     ELSE UNCHANGED fetch /\ missed' = [c \in Tab |-> missed[c] \/ c = change[m].tab]
  /\ change' = [change EXCEPT ![m] = Closed]
  /\ UNCHANGED <<server, live, event, drag, losses>>

SyncNext ==
  \/ WriteUntold
  \/ \E c \in Tab :
       \/ Visit(c) \/ Read(c) \/ Arrive(c) \/ FetchFails(c)
       \/ Connect(c) \/ Disconnect(c) \/ OnEvent(c)
       \/ DragStart(c) \/ DragOver(c) \/ DragCancel(c) \/ DragNothing(c)
       \/ \E m \in Change : DragEnd(c, m) \/ MenuMove(c, m)
  \/ \E m \in Change : Write(m) \/ ChangeElsewhere(m) \/ Announce(m) \/ Break(m) \/ Succeed(m) \/ Revert(m)

SyncSpec == SyncInit /\ [][SyncNext]_syncVars

-----------------------------------------------------------------------------
(* Properties.                                                              *)

\* Nothing is on its way that would still change what tab c shows.
AtRest(c) ==
  /\ live[c] /\ ~event[c] /\ fetch[c] = NoFetch /\ drag[c] = NoDrag
  /\ \A m \in Change : change[m].pc # "written" /\ (change[m].tab = c => change[m].pc \in {"free", "done"})

\* A tab at rest shows the server's board, unless a change was never announced
\* to it, a fetch failed, or a drag or a refused order of lists put an old copy
\* back: optimistic moves, their rollbacks, events and fetches overtaking one
\* another never leave it behind.
RestingTabShowsBoard ==
  \A c \in Tab : AtRest(c) /\ ~missed[c] /\ copy[c] # NoBoardYet => copy[c] = server
=============================================================================
