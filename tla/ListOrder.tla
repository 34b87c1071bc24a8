----------------------------- MODULE ListOrder -----------------------------
(***************************************************************************)
(* The order of a board's lists, its columns: creating, deleting and       *)
(* reordering them (backend/src/services/list.service.ts,                  *)
(* repositories/list.repo.ts, routes/lists/index.ts).                      *)
(*                                                                         *)
(* A reorder sends the columns the client shows, all of them updated under *)
(* Promise.all and no transaction; a create reads the last index and       *)
(* inserts after it, and so does a template applied to a board             *)
(* (services/board-composition.service.ts), several lists at a time.       *)
(* Other calls run in between.                                             *)
(***************************************************************************)
EXTENDS OrderIndex, SequencesExt

CONSTANTS
  Column,          \* ids of lists, given out once
  ColumnCall,      \* slots for calls being served
  NoColumn, DroppedColumn,
  MaxColumnCalls,  \* bound: calls ever served
  MaxAtOnce,       \* bound: lists that a template adds
  MaxColumnFails   \* bound: awaits that fail

ASSUME ColumnConstants ==
  /\ IsFiniteSet(Column)
  /\ MaxColumnCalls \in Nat /\ MaxAtOnce \in Nat /\ MaxColumnFails \in Nat
  /\ NoColumn # DroppedColumn /\ NoColumn \notin Key /\ DroppedColumn \notin Key

VARIABLES
  columns,   \* the lists table: column -> its order_index
  colCalls,
  colServed, colFails,
  made,      \* history: the order the users made, of columns dropped since too
  tangled    \* history: the columns need not be in it

colVars == <<columns, colCalls, colServed, colFails, made, tangled>>

\* n: lists to insert, from key on; todo: UPDATEs of a reorder in flight; sent: the columns it was sent.
NoColCall == [pc |-> "idle", n |-> 0, key |-> NoKey, sent |-> <<>>, todo |-> {}, alone |-> TRUE]

exists(c) == columns[c] \notin {NoColumn, DroppedColumn}

Columns == {c \in Column : exists(c)}

ColumnsTypeOK ==
  /\ \A c \in Columns : columns[c] \in Key
  /\ \A k \in ColumnCall : /\ colCalls[k].pc \in {"idle", "tail", "insert", "reorder"}
                           /\ colCalls[k].pc = "insert" => colCalls[k].key \in Key
                           /\ colCalls[k].todo \subseteq Column
  /\ colServed \in 0..MaxColumnCalls /\ colFails \in 0..MaxColumnFails
  /\ made \in Seq(Column) /\ tangled \in BOOLEAN

ColumnsInit ==
  /\ columns = [c \in Column |-> NoColumn]
  /\ colCalls = [k \in ColumnCall |-> NoColCall]
  /\ colServed = 0 /\ colFails = 0
  /\ made = <<>> /\ tangled = FALSE

\* Two calls at once: neither can be sure of the order they leave.
ColStart(k, q) ==
  LET met == {j \in ColumnCall : colCalls[j].pc # "idle"}
  IN  /\ colCalls[k].pc = "idle"
      /\ colServed < MaxColumnCalls /\ colServed' = colServed + 1
      /\ colCalls' = [j \in ColumnCall |-> IF j = k THEN [q EXCEPT !.alone = met = {}]
                                           ELSE [colCalls[j] EXCEPT !.alone = met = {}]]
      /\ tangled' = (tangled \/ met # {})
      /\ UNCHANGED <<columns, colFails, made>>

\* createList, or applyStructureToBoard with the lists of a template.
StartColumn(k) == \E n \in 1..MaxAtOnce : ColStart(k, [NoColCall EXCEPT !.pc = "tail", !.n = n])

\* The client may show columns dropped since, and miss new ones.
StartReorder(k) == \E S \in SUBSET {c \in Column : columns[c] # NoColumn} : \E s \in SetToSeqs(S) :
  /\ Len(s) > 1
  /\ ColStart(k, [NoColCall EXCEPT !.pc = "reorder", !.sent = s, !.todo = S])

\* listRepo.create.
ReadLastColumn(k) ==
  LET last == CHOOSE c \in Columns : \A d \in Columns : ~(columns[c] \prec columns[d])
  IN  /\ colCalls[k].pc = "tail"
      /\ colCalls' = [colCalls EXCEPT ![k].pc = "insert", ![k].key =
                        IF Columns = {} THEN generateInitialIndex ELSE generateIndexAfter(columns[last])]
      /\ UNCHANGED <<columns, colServed, colFails, made, tangled>>

\* The first index, and for each further list the one after it; all are there at
\* once, as the transaction commits.  Which ids they get does not matter.
InsertColumn(k) ==
  LET q    == colCalls[k]
      free == SetToSeq({c \in Column : columns[c] = NoColumn})
      new  == SubSeq(free, 1, q.n)
  IN  /\ q.pc = "insert" /\ q.n <= Len(free)
      /\ columns' = [c \in Column |-> IF c \in Range(new) THEN keyAfter(q.key, CHOOSE i \in 1..q.n : new[i] = c)
                                     ELSE columns[c]]
      /\ made' = made \o new
      /\ colCalls' = [colCalls EXCEPT ![k] = NoColCall]
      /\ UNCHANGED <<colServed, colFails, tangled>>

\* One UPDATE lands, of a column that may be gone.  With the last one the columns
\* are as sent, if the call was alone and the client knew them all.
Landed(k, c, i) ==
  LET q    == colCalls[k]
      rest == q.todo \ {c}
  IN  /\ columns' = IF exists(c) THEN [columns EXCEPT ![c] = generateNIndices(Len(q.sent))[i]] ELSE columns
      /\ colCalls' = [colCalls EXCEPT ![k] = IF rest = {} THEN NoColCall ELSE [q EXCEPT !.todo = rest]]
      /\ IF rest # {} THEN UNCHANGED <<made, tangled>>
         ELSE /\ made' = q.sent
              /\ tangled' = ~(q.alone /\ Columns \subseteq Range(q.sent))
      /\ UNCHANGED <<colServed, colFails>>

\* Slip: the updates take the indices in the order they run.
ReorderAsTheyRun(k) == \E c \in colCalls[k].todo :
  Landed(k, c, Len(colCalls[k].sent) + 1 - Cardinality(colCalls[k].todo))

Reorder(k) == \E c \in colCalls[k].todo :
  Landed(k, c, CHOOSE i \in DOMAIN colCalls[k].sent : colCalls[k].sent[i] = c)

\* An await fails, or the process dies: of a reorder any part may have landed.
ColumnFails(k) ==
  /\ colCalls[k].pc # "idle"
  /\ colFails < MaxColumnFails /\ colFails' = colFails + 1
  /\ colCalls' = [colCalls EXCEPT ![k] = NoColCall]
  /\ tangled' = (tangled \/ colCalls[k].pc = "reorder")
  /\ UNCHANGED <<columns, colServed, made>>

\* Promise.all rejects, and the UPDATEs it sent still land.
ReorderFails(k) == \E c \in colCalls[k].todo :
  /\ colFails < MaxColumnFails /\ colFails' = colFails + 1
  /\ LET rest == colCalls[k].todo \ {c}
     IN  colCalls' = [colCalls EXCEPT ![k] = IF rest = {} THEN NoColCall
                                             ELSE [@ EXCEPT !.todo = rest, !.alone = FALSE]]
  /\ tangled' = TRUE
  /\ UNCHANGED <<columns, colServed, made>>

DropColumn(c) ==
  /\ exists(c)
  /\ columns' = [columns EXCEPT ![c] = DroppedColumn]
  /\ UNCHANGED <<colCalls, colServed, colFails, made, tangled>>

ColumnsNext ==
  \/ \E k \in ColumnCall : \/ StartColumn(k) \/ StartReorder(k) \/ ReadLastColumn(k) \/ InsertColumn(k)
                           \/ Reorder(k) \/ ColumnFails(k) \/ ReorderFails(k)
  \/ \E c \in Column : DropColumn(c)

ColumnsSpec == ColumnsInit /\ [][ColumnsNext]_colVars

-----------------------------------------------------------------------------
(* Properties.                                                              *)

\* Unless calls overlapped, failed half-way or came from a client that missed a
\* column, every client shows the columns in the order the users made: as they
\* were last sent, and new ones last.  A reorder of all columns mends the rest.
ColumnsAsMade ==
  (~tangled /\ \A k \in ColumnCall : colCalls[k].pc # "reorder") =>
    /\ Columns \subseteq Range(made)
    /\ \A i, j \in DOMAIN made :
         i < j /\ exists(made[i]) /\ exists(made[j]) => columns[made[i]] \prec columns[made[j]]
=============================================================================
