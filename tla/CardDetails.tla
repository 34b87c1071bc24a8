---------------------------- MODULE CardDetails ----------------------------
(***************************************************************************)
(* What hangs on one card: time entries (routes/cards/time-entries.ts),    *)
(* checklist items (checklist.ts), custom fields (routes/custom-fields)    *)
(* and labels (routes/labels).  None of the tables has a unique key but    *)
(* its id (db/schema/card-features.ts), and the handlers look before they  *)
(* write: other calls run in between.                                      *)
(***************************************************************************)
EXTENDS Integers

CONSTANTS
  Row,            \* ids of rows, given out once
  Editor, Tag,    \* users, and labels of the board
  DetailCall,     \* slots for calls being served
  CHECKLIST, FIELDS, NoRow, UsedRow,
  MaxDetailCalls, \* bound: calls ever served
  MaxDetailFails  \* bound: awaits that fail

\* A row belongs to its user, its label, the field definition it is a value of,
\* or the list it is an item of; n is its order_index, or 1 of a running timer.
DetailRow == [table: {"time", "item", "def", "value", "link"},
              of: Editor \cup Tag \cup Row \cup {CHECKLIST, FIELDS}, n: Nat]

ASSUME DetailConstants ==
  /\ MaxDetailCalls \in Nat /\ MaxDetailFails \in Nat
  /\ NoRow \notin Row /\ NoRow \notin DetailRow /\ UsedRow \notin DetailRow /\ NoRow # UsedRow

VARIABLES
  details,   \* the tables
  cardGone,  \* the card was deleted
  calls,
  served, detailFails,
  crossed    \* history: keys that two calls looked up at once

detailVars == <<details, cardGone, calls, served, detailFails, crossed>>

NoCall == [pc |-> "idle", table |-> "time", of |-> CHECKLIST, row |-> NoRow, n |-> 0, alone |-> TRUE]

DetailTypeOK ==
  /\ details \in [Row -> DetailRow \cup {NoRow, UsedRow}]
  /\ cardGone \in BOOLEAN
  /\ \A k \in DetailCall :
       /\ calls[k].pc \in {"idle", "halt", "find", "last", "find timer", "update", "insert"}
       /\ calls[k].row \in Row \cup {NoRow} /\ calls[k].n \in Nat
  /\ served \in 0..MaxDetailCalls /\ detailFails \in 0..MaxDetailFails

DetailInit ==
  /\ details = [r \in Row |-> NoRow]
  /\ cardGone = FALSE
  /\ calls = [k \in DetailCall |-> NoCall]
  /\ served = 0 /\ detailFails = 0
  /\ crossed = {}

stored(r) == details[r] \notin {NoRow, UsedRow}

RowsIn(table, of) == {r \in Row : stored(r) /\ details[r].table = table /\ details[r].of = of}

Running(u) == {r \in RowsIn("time", u) : details[r].n = 1}

keyOfCall(q) == <<q.table, q.of>>

\* Deleting a field definition takes its values with it (ON DELETE CASCADE).
Without(S) == details' =
  [r \in Row |-> IF r \in S \/ (stored(r) /\ details[r].table = "value" /\ details[r].of \in S)
                 THEN UsedRow ELSE details[r]]

\* An INSERT into a row id never used; without the card, or the definition of a
\* value, the foreign key refuses it.
Add(table, of, n) ==
  IF (cardGone /\ table # "def") \/ (table = "value" /\ ~stored(of)) THEN UNCHANGED details
  ELSE \E r \in Row : /\ details[r] = NoRow
                      /\ details' = [details EXCEPT ![r] = [table |-> table, of |-> of, n |-> n]]

-----------------------------------------------------------------------------
(* Calls that look first.                                                   *)

\* Stopping a timer cannot get in the way of another call.
Enter(k, q) ==
  LET met == {j \in DetailCall : calls[j].pc \notin {"idle", "find timer"} /\ keyOfCall(calls[j]) = keyOfCall(q)}
  IN  /\ calls[k].pc = "idle"
      /\ served < MaxDetailCalls /\ served' = served + 1
      /\ IF q.pc = "find timer" \/ met = {}
         THEN calls' = [calls EXCEPT ![k] = q] /\ UNCHANGED crossed
         ELSE /\ calls' = [j \in DetailCall |-> IF j = k THEN [q EXCEPT !.alone = FALSE]
                                                ELSE IF j \in met THEN [calls[j] EXCEPT !.alone = FALSE]
                                                ELSE calls[j]]
              /\ crossed' = crossed \cup {keyOfCall(q)}
      /\ UNCHANGED <<details, cardGone, detailFails>>

StartTimer(k) == \E u \in Editor : Enter(k, [NoCall EXCEPT !.pc = "halt", !.of = u])

StopTimer(k) == \E u \in Editor : Enter(k, [NoCall EXCEPT !.pc = "find timer", !.of = u])

PutValue(k) == \E d \in RowsIn("def", FIELDS) :
  Enter(k, [NoCall EXCEPT !.pc = "find", !.table = "value", !.of = d])

AddItem(k) == Enter(k, [NoCall EXCEPT !.pc = "last", !.table = "item"])

CreateDefinition(k) == Enter(k, [NoCall EXCEPT !.pc = "last", !.table = "def", !.of = FIELDS])

Proceed(k, q) == calls' = [calls EXCEPT ![k] = q] /\ UNCHANGED <<cardGone, served, detailFails>>

\* Slip: one running timer is looked up and stopped, as the stop call does.
HaltOne(k) ==
  /\ calls[k].pc = "halt"
  /\ IF Running(calls[k].of) = {} THEN UNCHANGED details
     ELSE \E r \in Running(calls[k].of) : details' = [details EXCEPT ![r].n = 0]
  /\ Proceed(k, [calls[k] EXCEPT !.pc = "insert", !.n = 1])
  /\ UNCHANGED crossed

\* The UPDATE that stops all running timers of the user on the card.
HaltTimers(k) ==
  /\ calls[k].pc = "halt"
  /\ details' = [r \in Row |-> IF r \in Running(calls[k].of) THEN [details[r] EXCEPT !.n = 0] ELSE details[r]]
  /\ Proceed(k, [calls[k] EXCEPT !.pc = "insert", !.n = 1])
  /\ UNCHANGED crossed

\* SELECT ... LIMIT 1 without an order: any of them.
LookUp(k) ==
  LET q    == calls[k]
      here == IF q.pc = "find timer" THEN Running(q.of) ELSE RowsIn(q.table, q.of)
  IN  /\ q.pc \in {"find", "find timer"}
      /\ IF here # {} THEN \E r \in here : Proceed(k, [q EXCEPT !.pc = "update", !.row = r])
         ELSE Proceed(k, IF q.pc = "find" THEN [q EXCEPT !.pc = "insert"] ELSE NoCall)
      /\ UNCHANGED <<details, crossed>>

\* An UPDATE by id; a row deleted meanwhile is not missed.
UpdateRow(k) ==
  /\ calls[k].pc = "update"
  /\ details' = IF stored(calls[k].row) THEN [details EXCEPT ![calls[k].row].n = 0] ELSE details
  /\ Proceed(k, NoCall)
  /\ UNCHANGED crossed

ReadLast(k) ==
  LET q       == calls[k]
      indices == {details[r].n : r \in RowsIn(q.table, q.of)}
      last    == IF indices = {} THEN 0 ELSE CHOOSE n \in indices : \A i \in indices : i <= n
  IN  /\ q.pc = "last"
      /\ Proceed(k, [q EXCEPT !.pc = "insert", !.n = last + 1])
      /\ UNCHANGED <<details, crossed>>

\* A start that met no other leaves one timer running, whatever ran before.
InsertRow(k) ==
  LET q == calls[k]
  IN  /\ q.pc = "insert"
      /\ Add(q.table, q.of, q.n)
      /\ Proceed(k, NoCall)
      /\ crossed' = IF q.table = "time" /\ q.alone THEN crossed \ {keyOfCall(q)} ELSE crossed

DetailFails(k) ==
  /\ calls[k].pc # "idle"
  /\ detailFails < MaxDetailFails /\ detailFails' = detailFails + 1
  /\ calls' = [calls EXCEPT ![k] = NoCall]
  /\ UNCHANGED <<details, cardGone, served, crossed>>

-----------------------------------------------------------------------------
(* Calls that are one statement.                                            *)

AtOnce == served < MaxDetailCalls /\ served' = served + 1 /\ UNCHANGED <<calls, detailFails, crossed>>

\* A time entry, a checklist item, a field definition, or every link of a label.
RemoveRows == /\ \E r \in Row : /\ stored(r) /\ details[r].table # "value"
                            /\ Without(IF details[r].table = "link" THEN RowsIn("link", details[r].of) ELSE {r})
          /\ AtOnce /\ UNCHANGED cardGone

AssignLabel == /\ \E t \in Tag : Add("link", t, 0)
               /\ AtOnce /\ UNCHANGED cardGone

\* Definitions belong to the board and stay.
DropCard ==
  /\ ~cardGone /\ cardGone' = TRUE
  /\ Without({r \in Row : stored(r) /\ details[r].table # "def"})
  /\ AtOnce

DetailNext ==
  \/ \E k \in DetailCall :
       \/ StartTimer(k) \/ StopTimer(k) \/ PutValue(k) \/ AddItem(k) \/ CreateDefinition(k)
       \/ HaltTimers(k) \/ LookUp(k) \/ UpdateRow(k) \/ ReadLast(k) \/ InsertRow(k) \/ DetailFails(k)
  \/ RemoveRows \/ AssignLabel \/ DropCard

DetailSpec == DetailInit /\ [][DetailNext]_detailVars

-----------------------------------------------------------------------------
(* Properties.                                                              *)

\* Unless two calls looked for the same thing at once, a user has one timer
\* running on the card, a field one value, and the items of the checklist and
\* the field definitions an order; a start alone mends timers that doubled.
AloneNothingDoubles ==
  \A r, s \in Row :
    (r # s /\ stored(r) /\ stored(s) /\ keyOfCall(details[r]) = keyOfCall(details[s])
      /\ keyOfCall(details[r]) \notin crossed)
    => /\ details[r].table = "time" => ~(details[r].n = 1 /\ details[s].n = 1)
       /\ details[r].table # "value"
       /\ details[r].table \in {"item", "def"} => details[r].n # details[s].n
=============================================================================
