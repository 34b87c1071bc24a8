----------------------------- MODULE CardOrder -----------------------------
(***************************************************************************)
(* Where a card stands in its list: creating, bulk-creating, moving,       *)
(* dragging and deleting cards (backend/src/repositories/card.repo.ts,     *)
(* services/card.service.ts, the tail inserts of                           *)
(* services/board-composition.service.ts, and the drop of                  *)
(* frontend/src/hooks/use-kanban-drag.ts).                                 *)
(*                                                                         *)
(* A request slot r is at one await of its handler.  Between the read that *)
(* resolves an index and the write that uses it other requests run, and    *)
(* the UPDATEs of a respace (Promise.all, no transaction) land one by one  *)
(* in any order.  A drop computes its index on the client: the time to its *)
(* write is also how stale the client's view is.                           *)
(***************************************************************************)
EXTENDS OrderIndex, SequencesExt

CONSTANTS
  Card, List, Request,
  SeedCards,    \* the cards earlier requests left: card -> [list, key] or None
  ForeignKeys,  \* explicit indices that integrations send
  BulkSize,     \* bound: the cards of one bulk create
  None, Gone,
  MaxRequests,  \* bound: requests ever started
  MaxFailures   \* bound: awaits that fail

Placed == [list: List, key: Key]

VARIABLES
  cards,     \* the cards table
  req,       \* the requests being served
  started,   \* requests started so far
  failures,  \* awaits that failed
  muddled    \* history: lists that need not be in the order their users made

vars == <<cards, req, started, failures, muddled>>

isCard(c) == cards[c] \notin {None, Gone}

CardsIn(l) == {c \in Card : isCard(c) /\ cards[c].list = l}

keyOf(c) == cards[c].key

\* place: "top" and "bottom" are resolved by the server, "at" comes with key.
\* n: cards to insert; 0 moves card.  todo: UPDATEs of a respace in flight.
\* before: the order the respace read.  prev, next: the neighbours of a drop.
\* touches: history, the lists whose order the request may change.
Idle == [pc |-> "idle", n |-> 0, card |-> None, list |-> None, place |-> "bottom", touches |-> {},
         key |-> NoKey, todo |-> <<>>, before |-> <<>>, failed |-> FALSE,
         prev |-> None, next |-> None, prevKey |-> NoKey, nextKey |-> NoKey]

TypeOK ==
  /\ cards \in [Card -> Placed \cup {None, Gone}]
  /\ \A r \in Request :
       /\ DOMAIN req[r] = DOMAIN Idle
       /\ req[r].pc \in {"idle", "find", "head", "respace", "tail", "write"}
       /\ req[r].pc # "idle" => req[r].list \in List
       /\ req[r].pc \in {"respace", "write"} => req[r].key \in Key
       /\ \A c \in DOMAIN req[r].todo : c \in Card /\ req[r].todo[c] \in Key
  /\ started \in 0..MaxRequests /\ failures \in 0..MaxFailures
  /\ muddled \subseteq List

ASSUME CardOrderConstants ==
  /\ SeedCards \in [Card -> Placed \cup {None}]
  /\ \A c, d \in Card : SeedCards[c] # None /\ SeedCards[c] = SeedCards[d] => c = d
  /\ ForeignKeys \subseteq Key
  /\ BulkSize \in Nat \ {0} /\ MaxRequests \in Nat /\ MaxFailures \in Nat
  /\ IsFiniteSet(Card) /\ None \notin Card \cup List \cup Placed /\ Gone \notin Placed /\ NoKey \notin Key

Init ==
  /\ cards = SeedCards
  /\ req = [r \in Request |-> Idle]
  /\ started = 0 /\ failures = 0
  /\ muddled = {}

-----------------------------------------------------------------------------
(* Requests arrive.                                                         *)

active(r) == req[r].pc # "idle"

at(r, pc) == req[r].pc = pc

Goto(r, pc) == req' = [req EXCEPT ![r].pc = pc]

Return(r) == req' = [req EXCEPT ![r] = Idle]

\* Two requests that touch a common list muddle the lists of both while they
\* overlap; so do a failed UPDATE and an index at or beyond a neighbour's.
Muddle(lists) == muddled' = muddled \cup lists

OverlapOf(lists) ==
  LET met == {s \in Request : active(s) /\ req[s].touches \cap lists # {}}
  IN  IF met = {} THEN {} ELSE lists \cup UNION {req[s].touches : s \in met}

\* A card that others moved to a list its request does not know of.
Strayed(c, known) == IF isCard(c) THEN {cards[c].list} \ known ELSE {}

Start(r, call, tight) ==
  LET lists == {call.list} \cup (IF call.card \in Card /\ isCard(call.card)
                                THEN {cards[call.card].list} ELSE {})
  IN  /\ ~active(r)
      /\ started < MaxRequests
      /\ started' = started + 1
      /\ req' = [req EXCEPT ![r] = [call EXCEPT !.touches = lists]]
      /\ Muddle(OverlapOf(lists) \cup IF tight THEN {call.list} ELSE {})
      /\ UNCHANGED <<cards, failures>>

\* POST .../cards, .../cards/:cardId/duplicate and .../cards/bulk into a list.
StartCreate(r) == \E l \in List, place \in {"top", "bottom"}, n \in 1..BulkSize :
  /\ n > 1 => place = "bottom"
  /\ Start(r, [Idle EXCEPT !.pc = IF place = "top" THEN "head" ELSE "tail",
                           !.n = n, !.list = l, !.place = place], FALSE)

\* POST .../move with a position, from the card's menu.
StartMove(r) == \E c \in {d \in Card : cards[d] # None}, l \in List, place \in {"top", "bottom"} :
  Start(r, [Idle EXCEPT !.pc = "find", !.card = c, !.list = l, !.place = place], FALSE)

\* move_card of an integration, with its own index.
StartForeign(r) == \E c \in {d \in Card : cards[d] # None}, l \in List, k \in ForeignKeys :
  Start(r, [Idle EXCEPT !.pc = "find", !.card = c, !.list = l, !.place = "at", !.key = k], TRUE)

-----------------------------------------------------------------------------
(* handleDragEnd: the client drops card c between the neighbours it shows.  *)

\* Cards shown next to each other: equal keys are shown in any order.
Neighbours(p, n) ==
  /\ p # n /\ ~(keyOf(n) \prec keyOf(p))

Between(p, n, l, c) ==
  {d \in CardsIn(l) \ {c, p, n} :
     keyOf(p) \prec keyOf(d) /\ keyOf(d) \prec keyOf(n)}

\* The slots of list l that a card c can be dropped into.
Slots(l, c) ==
  LET rest == CardsIn(l) \ {c}
  IN  {s \in [prev: rest \cup {None}, next: rest \cup {None}] :
         CASE s.prev = None /\ s.next = None -> rest = {}
           [] s.prev = None /\ s.next # None ->
                \A d \in rest : ~(keyOf(d) \prec keyOf(s.next))
           [] s.prev # None /\ s.next = None ->
                \A d \in rest : ~(keyOf(s.prev) \prec keyOf(d))
           [] OTHER -> Neighbours(s.prev, s.next) /\ Between(s.prev, s.next, l, c) = {}}

StartDrop(r) == \E c \in {d \in Card : isCard(d)}, l \in List : \E s \in Slots(l, c) :
  LET prevKey == IF s.prev = None THEN NoKey ELSE keyOf(s.prev)
      nextKey == IF s.next = None THEN NoKey ELSE keyOf(s.next)
      key     == indexForSlot(prevKey, nextKey)
      call    == [Idle EXCEPT !.pc = "find", !.card = c, !.list = l]
  IN  /\ ~(cards[c].list = l /\ keyOf(c) = key)
      /\ IF key = NoKey
         THEN Start(r, [call EXCEPT !.place = "top"], FALSE)
         ELSE Start(r, [call EXCEPT !.place = "at", !.key = key, !.prev = s.prev,
                          !.next = s.next, !.prevKey = prevKey, !.nextKey = nextKey],
                    \/ prevKey # NoKey /\ ~(prevKey \prec key)
                    \/ nextKey # NoKey /\ ~(key \prec nextKey))

-----------------------------------------------------------------------------
(* cardService.moveCard, cardRepo.headIndexFor, tailIndexFor and create.    *)

\* moveCard first looks the card up.
Find(r) ==
  /\ at(r, "find")
  /\ IF isCard(req[r].card)
     THEN Goto(r, CASE req[r].place = "top"    -> "head"
                    [] req[r].place = "bottom" -> "tail"
                    [] OTHER                   -> "write")
     ELSE Return(r)
  /\ UNCHANGED <<cards, started, failures, muddled>>

\* The cards of list l as ORDER BY order_index answers them.
Ordered(l) ==
  {s \in SetToSeqs(CardsIn(l)) :
     IsSorted(s, LAMBDA c, d : ~(keyOf(d) \prec keyOf(c)))}

\* Respacing the cards s gives the i-th of them index i + shift of those made.
Respaced(r, s, shift) ==
  LET indices == generateNIndices(Len(s) + 1)
  IN  req' = [req EXCEPT ![r] = [@ EXCEPT
        !.pc = "respace", !.key = indices[1], !.before = s,
        !.todo = [c \in CardsIn(req[r].list) |->
                    indices[shift + CHOOSE i \in 1..Len(s) : s[i] = c]]]]

HeadKey(l) == generateIndexBefore(keyOf(CHOOSE c \in CardsIn(l) :
                \A d \in CardsIn(l) : ~(keyOf(d) \prec keyOf(c))))

Resolved(r, key) == req' = [req EXCEPT ![r] = [@ EXCEPT !.pc = "write", !.key = key]]

\* Slip: the exhausted key space is not noticed.
ReadHeadUnchecked(r) ==
  /\ at(r, "head")
  /\ LET l == req[r].list
     IN  Resolved(r, IF CardsIn(l) = {} THEN generateInitialIndex ELSE HeadKey(l))
  /\ UNCHANGED <<cards, started, failures, muddled>>

\* Slip: no ORDER BY, so the cards are respaced in the order they are found.
ReadHeadUnordered(r) ==
  /\ at(r, "head")
  /\ LET l == req[r].list
     IN  IF CardsIn(l) = {} THEN Resolved(r, generateInitialIndex)
         ELSE IF HeadKey(l) # NoKey THEN Resolved(r, HeadKey(l))
         ELSE \E s \in SetToSeqs(CardsIn(l)) : \E t \in Ordered(l) :
                LET indices == generateNIndices(Len(s) + 1)
                IN  req' = [req EXCEPT ![r] = [@ EXCEPT
                      !.pc = "respace", !.key = indices[1], !.before = t,
                      !.todo = [c \in CardsIn(l) |->
                                  indices[1 + CHOOSE i \in 1..Len(s) : s[i] = c]]]]
  /\ UNCHANGED <<cards, started, failures, muddled>>

\* Below 'a' there is no index: the whole list is respaced.
ReadHead(r) ==
  /\ at(r, "head")
  /\ LET l == req[r].list
     IN  IF CardsIn(l) = {} THEN Resolved(r, generateInitialIndex)
         ELSE IF HeadKey(l) # NoKey THEN Resolved(r, HeadKey(l))
         ELSE \E s \in Ordered(l) : Respaced(r, s, 1)
  /\ UNCHANGED <<cards, started, failures, muddled>>

\* One UPDATE of a respace is done or, of a card deleted meanwhile, does
\* nothing; with the last one the request goes on, unless one has failed.
Settle(r, c, failed) ==
  LET rest == [d \in DOMAIN req[r].todo \ {c} |-> req[r].todo[d]]
  IN  req' = [req EXCEPT ![r] =
        IF DOMAIN rest # {} THEN [@ EXCEPT !.todo = rest, !.failed = failed]
        ELSE IF failed THEN Idle
        ELSE [@ EXCEPT !.todo = <<>>, !.pc = "write"]]

Respace(r) ==
  /\ at(r, "respace")
  /\ \E c \in DOMAIN req[r].todo :
       /\ cards' = IF isCard(c) THEN [cards EXCEPT ![c].key = req[r].todo[c]] ELSE cards
       /\ Settle(r, c, req[r].failed)
       /\ Muddle(Strayed(c, {req[r].list}))
  /\ UNCHANGED <<started, failures>>

\* Promise.all rejects, and what it sent already still lands.
RespaceFails(r) ==
  /\ at(r, "respace")
  /\ failures < MaxFailures
  /\ failures' = failures + 1
  /\ \E c \in DOMAIN req[r].todo : Settle(r, c, TRUE)
  /\ Muddle(req[r].touches)
  /\ UNCHANGED <<cards, started>>

\* Any other await fails, or the process dies; a respace stops half-way.
Fail(r) ==
  /\ active(r)
  /\ failures < MaxFailures
  /\ failures' = failures + 1
  /\ Return(r)
  /\ Muddle(IF at(r, "respace") THEN req[r].touches ELSE {})
  /\ UNCHANGED <<cards, started>>

ReadTail(r) ==
  /\ at(r, "tail")
  /\ LET here == CardsIn(req[r].list)
     IN  IF here = {} THEN Resolved(r, generateInitialIndex)
         ELSE \E c \in here :
                /\ \A d \in here : ~(keyOf(c) \prec keyOf(d))
                /\ Resolved(r, generateIndexAfter(keyOf(c)))
  /\ UNCHANGED <<cards, started, failures, muddled>>

Insert(r) ==
  /\ at(r, "write") /\ req[r].n > 0
  /\ \E s \in {t \in [1..req[r].n -> {c \in Card : cards[c] = None}] : IsInjective(t)} :
       cards' = [c \in Card |->
         IF \E i \in DOMAIN s : s[i] = c
         THEN [list |-> req[r].list,
               key  |-> keyAfter(req[r].key, CHOOSE i \in DOMAIN s : s[i] = c)]
         ELSE cards[c]]
  /\ Return(r)
  /\ UNCHANGED <<started, failures, muddled>>

\* cardRepo.update of a card deleted meanwhile changes no row.
Move(r) ==
  /\ at(r, "write") /\ req[r].n = 0
  /\ cards' = IF isCard(req[r].card)
              THEN [cards EXCEPT ![req[r].card] = [list |-> req[r].list, key |-> req[r].key]]
              ELSE cards
  /\ Return(r)
  /\ Muddle(OverlapOf(Strayed(req[r].card, req[r].touches)))
  /\ UNCHANGED <<started, failures>>

\* deleteCard.
Delete(c) ==
  /\ isCard(c)
  /\ cards' = [cards EXCEPT ![c] = Gone]
  /\ Muddle(OverlapOf({cards[c].list}))
  /\ UNCHANGED <<req, started, failures>>

-----------------------------------------------------------------------------

Next ==
  \/ \E r \in Request :
       \/ StartCreate(r) \/ StartMove(r) \/ StartForeign(r) \/ StartDrop(r)
       \/ Find(r) \/ ReadHead(r) \/ Respace(r) \/ RespaceFails(r) \/ Fail(r) \/ ReadTail(r)
       \/ Insert(r) \/ Move(r)
  \/ \E c \in Card : Delete(c)

Spec == Init /\ [][Next]_vars

-----------------------------------------------------------------------------
(* Properties.                                                              *)

\* In a list that no overlapping requests muddled, whatever went on in others, no
\* two cards share an index, so every client shows the same order.
IndicesDistinct ==
  \A l \in List \ muddled : (\A r \in Request : at(r, "respace") => req[r].list # l) =>
    \A c, d \in CardsIn(l) : keyOf(c) = keyOf(d) => c = d

\* A card put at the top or the bottom of such a list ends up above or below
\* all others, however little room was left there.
LandsAtItsEnd ==
  [][\A r \in Request :
       req[r].list \notin muddled' /\ at(r, "write") /\ ~at(r, "write")' =>
         \A c, d \in Card :
           /\ isCard(c)' /\ isCard(d)' /\ cards'[c] # cards[c] /\ cards'[d] = cards[d]
           /\ cards'[c].list = cards'[d].list
           => /\ req[r].place = "top" => cards'[c].key \prec cards'[d].key
              /\ req[r].place = "bottom" => cards'[d].key \prec cards'[c].key]_vars

\* A respace leaves the cards in the order it found them.
RespaceKeepsOrder ==
  \A r \in Request : at(r, "write") /\ req[r].list \notin muddled =>
    \A i, j \in 1..Len(req[r].before) :
      i < j => keyOf(req[r].before[i]) \prec keyOf(req[r].before[j])

\* The neighbours of a drop are where the client saw them.
Unmoved(q) ==
  /\ q.prev # None => cards[q.prev] = [list |-> q.list, key |-> q.prevKey]
  /\ q.next # None => cards[q.next] = [list |-> q.list, key |-> q.nextKey]

\* What a card's key k must be after such a drop.
LandsBetween(q, k) ==
  /\ q.prev # None => q.prevKey \prec k
  /\ q.next # None => k \prec q.nextKey

\* A card dropped at an end of a list, or where two indices leave a letter
\* between them, lands where it was dropped.
RoomyDropLands ==
  \A r \in Request :
    /\ at(r, "write") /\ (req[r].prev # None \/ req[r].next # None)
    /\ req[r].prev # None /\ req[r].next # None => Gap(req[r].prevKey, req[r].nextKey)
    => LandsBetween(req[r], req[r].key)

\* What utils/order-index.ts says of generateIndexBetween: "Generate an index
\* between two existing indices".  So a card dropped between two others lands
\* between them.
DropLands ==
  [][\A r \in Request :
       Move(r) /\ req[r].prev # None /\ req[r].next # None
       /\ isCard(req[r].card) /\ Unmoved(req[r]) /\ req[r].prevKey \prec req[r].nextKey
       => LandsBetween(req[r], cards'[req[r].card].key)]_vars
=============================================================================
