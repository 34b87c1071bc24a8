------------------------------ MODULE Notices ------------------------------
(***************************************************************************)
(* Who is told of what happens to a card: the notifications that updating  *)
(* and commenting on it leave (backend/src/services/card.service.ts,       *)
(* comment.service.ts, notification.service.ts).                           *)
(*                                                                         *)
(* A request is answered when its row is written; the notifications follow *)
(* in the background, await by await, and what fails there is dropped.     *)
(* Other requests run in between.                                          *)
(***************************************************************************)
EXTENDS Integers

CONSTANTS
  Recipient, Owner, \* profiles; the one who made the board
  Kata,             \* cards
  NoticeCall,       \* slots for requests being served, and what they leave behind
  Unassigned, Same, NoKata,
  MaxNoticeCalls,   \* bound: requests ever served
  MaxNoticeFails    \* bound: awaits that fail

KataRow == [assignee: Recipient \cup {Unassigned}, sealed: BOOLEAN]

Kinds == {"card.assigned", "card.completed", "comment.created"}

ASSUME NoticeConstants ==
  /\ Owner \in Recipient
  /\ Unassigned \notin Recipient /\ Same \notin Recipient \cup BOOLEAN \cup {Unassigned}
  /\ NoKata \notin KataRow
  /\ MaxNoticeCalls \in Nat /\ MaxNoticeFails \in Nat

VARIABLES
  kata,        \* the cards table
  board,       \* the board is there
  queue,       \* notification_queue: how often each was told of each kind, per card
  notice,      \* the requests
  noticed, noticeFails,
  turns,       \* history: how often each should have been
  overtaken    \* history: cards of which nothing can be said

noticeVars == <<kata, board, queue, notice, noticed, noticeFails, turns, overtaken>>

\* by: who asks; assignee and sealed: the input of an update; mentions: that of a
\* comment; old: the row as it was read.
NoNotice == [pc |-> "idle", card |-> NoKata, by |-> Owner, assignee |-> Same, sealed |-> Same,
             mentions |-> {}, old |-> NoKata]

Stations == {"idle", "find", "update", "board", "assigned", "completed", "check", "bulk",
             "comment", "commented", "comment board", "create many", "find gone", "delete"}

NoticeRequest ==
  [pc: Stations, card: Kata \cup {NoKata}, by: Recipient, assignee: Recipient \cup {Unassigned, Same},
   sealed: BOOLEAN \cup {Same}, mentions: SUBSET Recipient, old: KataRow \cup {NoKata}]

Counts == [Kata -> [Recipient -> [Kinds -> Nat]]]

NoticesTypeOK ==
  /\ kata \in [Kata -> KataRow \cup {NoKata}]
  /\ board \in BOOLEAN
  /\ queue \in Counts /\ turns \in Counts
  /\ notice \in [NoticeCall -> NoticeRequest]
  /\ \A k \in NoticeCall :
       LET q == notice[k]
       IN  /\ q.pc # "idle" => q.card \in Kata
           /\ q.pc \in {"update", "board", "assigned", "completed", "comment board", "create many"} => q.old \in KataRow
           /\ q.pc = "assigned" => q.assignee \in Recipient
  /\ noticed \in 0..MaxNoticeCalls /\ noticeFails \in 0..MaxNoticeFails
  /\ overtaken \subseteq Kata

NoCounts == [c \in Kata |-> [u \in Recipient |-> [n \in Kinds |-> 0]]]

\* A card that was created with an assignee, or duplicated, told nobody.
NoticesInit ==
  /\ kata \in [Kata -> [assignee: Recipient \cup {Unassigned}, sealed: {FALSE}]]
  /\ board = TRUE
  /\ queue = NoCounts /\ turns = NoCounts
  /\ notice = [k \in NoticeCall |-> NoNotice]
  /\ noticed = 0 /\ noticeFails = 0
  /\ overtaken = {}

-----------------------------------------------------------------------------
(* Steps.                                                                   *)

Begin(k, q) ==
  /\ notice[k].pc = "idle"
  /\ noticed < MaxNoticeCalls /\ noticed' = noticed + 1
  /\ notice' = [notice EXCEPT ![k] = q]
  /\ UNCHANGED <<kata, board, queue, noticeFails, turns, overtaken>>

GoOn(k, pc) ==
  notice' = [notice EXCEPT ![k] = IF pc = "idle" THEN NoNotice ELSE [notice[k] EXCEPT !.pc = pc]]

ReadCard(k, pc) ==
  LET row == kata[notice[k].card]
  IN  notice' = [notice EXCEPT ![k] = IF row = NoKata THEN NoNotice ELSE [notice[k] EXCEPT !.pc = pc, !.old = row]]

NothingStored == UNCHANGED <<kata, board, queue, noticed, noticeFails, turns, overtaken>>

\* The row is written.  Who read it before, and goes by what they read, is overtaken.
StoreCard(k, row) ==
  LET c == notice[k].card
  IN  /\ kata' = [kata EXCEPT ![c] = row]
      /\ overtaken' = IF \E j \in NoticeCall \ {k} : notice[j].card = c /\ notice[j].pc \in {"update", "commented"}
                      THEN overtaken \cup {c} ELSE overtaken
      /\ UNCHANGED <<board, queue, noticed, noticeFails>>

Changed(row, q) ==
  IF row = NoKata THEN NoKata
  ELSE [assignee |-> IF q.assignee = Same THEN row.assignee ELSE q.assignee,
        sealed   |-> IF q.sealed = Same THEN row.sealed ELSE q.sealed]

Counted(n, c, who, kind) ==
  [n EXCEPT ![c] = [u \in Recipient |-> [n[c][u] EXCEPT ![kind] = @ + IF u \in who THEN 1 ELSE 0]]]

\* fireNotifications, onCardAssigned: a new assignee, unless they did it themselves.
newAssignee(q, row) ==
  IF q.assignee \notin {Same, Unassigned, row.assignee, q.by} THEN {q.assignee} ELSE {}

\* onCardCompleted: sealed by this update, and not by the owner.
toldOwner(q, row) == IF q.sealed = TRUE /\ ~row.sealed /\ q.by # Owner THEN {Owner} ELSE {}

\* onCommentCreated.
recipients(q, row) == (({row.assignee} \cap Recipient) \cup q.mentions) \ {q.by}

-----------------------------------------------------------------------------
(* PATCH /cards/:cardId.                                                    *)

StartUpdate(k) ==
  \E c \in Kata, u \in Recipient, a \in Recipient \cup {Unassigned, Same}, s \in {TRUE, FALSE, Same} :
    Begin(k, [NoNotice EXCEPT !.pc = "find", !.card = c, !.by = u, !.assignee = a, !.sealed = s])

FindCard(k) == notice[k].pc = "find" /\ ReadCard(k, "update") /\ NothingStored

\* A row deleted meanwhile is not missed: the notifications follow all the same.
UpdateCard(k) ==
  LET q   == notice[k]
      row == kata[q.card]
  IN  /\ q.pc = "update"
      /\ StoreCard(k, Changed(row, q))
      /\ turns' = IF row = NoKata THEN turns
                  ELSE Counted(Counted(turns, q.card, newAssignee(q, row), "card.assigned"),
                               q.card, toldOwner(q, row), "card.completed")
      /\ GoOn(k, "board")

\* Slip: what changed is taken from the row as it is by now.
FindBoardAnew(k) ==
  LET q   == notice[k]
      row == kata[q.card]
  IN  /\ q.pc = "board"
      /\ GoOn(k, IF ~board \/ row = NoKata THEN "idle"
                 ELSE IF newAssignee(q, row) # {} THEN "assigned"
                 ELSE IF toldOwner(q, row) # {} THEN "completed" ELSE "idle")
      /\ NothingStored

FindBoard(k) ==
  LET q == notice[k]
  IN  /\ q.pc = "board"
      /\ GoOn(k, IF ~board THEN "idle"
                 ELSE IF newAssignee(q, q.old) # {} THEN "assigned"
                 ELSE IF toldOwner(q, q.old) # {} THEN "completed" ELSE "idle")
      /\ NothingStored

Queue(k, who, kind) ==
  /\ queue' = Counted(queue, notice[k].card, who, kind)
  /\ UNCHANGED <<kata, board, noticed, noticeFails, turns, overtaken>>

TellAssignee(k) ==
  LET q == notice[k]
  IN  /\ q.pc = "assigned"
      /\ Queue(k, newAssignee(q, q.old), "card.assigned")
      /\ GoOn(k, IF toldOwner(q, q.old) # {} THEN "completed" ELSE "idle")

TellOwner(k) ==
  /\ notice[k].pc = "completed"
  /\ Queue(k, {Owner}, "card.completed")
  /\ GoOn(k, "idle")

-----------------------------------------------------------------------------
(* The other requests.                                                      *)

StartComment(k) == \E c \in Kata, u \in Recipient, m \in SUBSET Recipient :
  Begin(k, [NoNotice EXCEPT !.pc = "comment", !.card = c, !.by = u, !.mentions = m])

\* The foreign key refuses a comment on a card that is gone.
AddComment(k) ==
  LET q == notice[k]
  IN  /\ q.pc = "comment"
      /\ GoOn(k, IF kata[q.card] = NoKata THEN "idle" ELSE "commented")
      /\ turns' = IF kata[q.card] = NoKata THEN turns
                  ELSE Counted(turns, q.card, recipients(q, kata[q.card]), "comment.created")
      /\ UNCHANGED <<kata, board, queue, noticed, noticeFails, overtaken>>

FindCommented(k) == notice[k].pc = "commented" /\ ReadCard(k, "comment board") /\ NothingStored

FindCommentBoard(k) ==
  LET q == notice[k]
  IN  /\ q.pc = "comment board"
      /\ GoOn(k, IF board /\ recipients(q, q.old) # {} THEN "create many" ELSE "idle")
      /\ NothingStored

TellCommented(k) ==
  LET q == notice[k]
  IN  /\ q.pc = "create many"
      /\ Queue(k, recipients(q, q.old), "comment.created")
      /\ GoOn(k, "idle")

\* bulkUpdateCards, of one of its cards: nobody is told.
StartBulk(k) ==
  \E c \in Kata, a \in Recipient \cup {Unassigned, Same}, s \in {TRUE, FALSE, Same} :
    Begin(k, [NoNotice EXCEPT !.pc = "check", !.card = c, !.assignee = a, !.sealed = s])

CheckBulk(k) ==
  /\ notice[k].pc = "check"
  /\ GoOn(k, IF kata[notice[k].card] = NoKata THEN "idle" ELSE "bulk")
  /\ NothingStored

WriteBulk(k) ==
  LET q == notice[k]
  IN  /\ q.pc = "bulk"
      /\ StoreCard(k, Changed(kata[q.card], q))
      /\ UNCHANGED turns
      /\ GoOn(k, "idle")

StartDelete(k) == \E c \in Kata : Begin(k, [NoNotice EXCEPT !.pc = "find gone", !.card = c])

FindDeleted(k) == notice[k].pc = "find gone" /\ ReadCard(k, "delete") /\ NothingStored

DeleteCard(k) ==
  /\ notice[k].pc = "delete"
  /\ StoreCard(k, NoKata)
  /\ UNCHANGED turns
  /\ GoOn(k, "idle")

\* The board goes, and its cards with it; what is under way is not told.
DeleteBoardAndCards ==
  /\ board /\ board' = FALSE
  /\ kata' = [c \in Kata |-> NoKata]
  /\ overtaken' = overtaken \cup {notice[k].card : k \in {j \in NoticeCall : notice[j].pc # "idle"}}
  /\ UNCHANGED <<queue, notice, noticed, noticeFails, turns>>

\* An await fails or the process dies; once the row is written nothing makes up for it.
NoticeStepFails(k) ==
  LET q == notice[k]
  IN  /\ q.pc # "idle"
      /\ noticeFails < MaxNoticeFails /\ noticeFails' = noticeFails + 1
      /\ overtaken' = IF q.pc \in {"board", "assigned", "completed", "commented", "comment board", "create many"}
                      THEN overtaken \cup {q.card} ELSE overtaken
      /\ GoOn(k, "idle")
      /\ UNCHANGED <<kata, board, queue, noticed, turns>>

NoticesNext ==
  \/ \E k \in NoticeCall :
       \/ StartUpdate(k) \/ FindCard(k) \/ UpdateCard(k) \/ FindBoard(k) \/ TellAssignee(k) \/ TellOwner(k)
       \/ StartComment(k) \/ AddComment(k) \/ FindCommented(k) \/ FindCommentBoard(k) \/ TellCommented(k)
       \/ StartBulk(k) \/ CheckBulk(k) \/ WriteBulk(k)
       \/ StartDelete(k) \/ FindDeleted(k) \/ DeleteCard(k)
       \/ NoticeStepFails(k)
  \/ DeleteBoardAndCards

NoticesSpec == NoticesInit /\ [][NoticesNext]_noticeVars

-----------------------------------------------------------------------------
(* Properties.                                                              *)

\* Of each assignment, completion and comment everybody concerned is told once,
\* however late and in whatever order the notifications are sent: what another
\* request has done to the card by then makes no difference, unless it came
\* between a request's own read and write, or between a comment and the read
\* of its card.
ToldOncePerTurn ==
  \A c \in Kata \ overtaken, u \in Recipient, n \in Kinds :
    /\ queue[c][u][n] <= turns[c][u][n]
    /\ (\A k \in NoticeCall : notice[k].card # c) => queue[c][u][n] = turns[c][u][n]
=============================================================================
