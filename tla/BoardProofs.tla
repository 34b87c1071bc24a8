----------------------------- MODULE BoardProofs -----------------------------
(***************************************************************************)
(* Proofs about what tabs and requests know of a board: who else is on it, *)
(* the details of its cards, the copy a tab shows of it, and who is told   *)
(* of a change.  The modules share no variable; each section has the       *)
(* invariant of one of them, for any number of sockets, calls, tabs and    *)
(* cards.                                                                  *)
(***************************************************************************)
EXTENDS MCBoards, OrderProofs, BoardAccessProofs, OAuthProofs, SequenceTheorems,
        FiniteSetTheorems, WellFoundedInduction, TLAPS

-----------------------------------------------------------------------------
(***************************************************************************)
(* That a tab that is open and has handled what was sent to it shows the   *)
(* others on its board.  Each wire ends in the roster of the channel.      *)
(***************************************************************************)

\* The last roster a tab will have handled once its wire is empty.
LastTold(w, shown) == IF w = <<>> THEN shown ELSE w[Len(w)]

\* One socket: where it is, which ticket it holds, what it will have been told.
SocketOK(s) ==
  /\ line[s] = "new" => wire[s] = <<>>
  /\ fresh[s] \/ line[s] \in {"open", "dead"} => ticket[s] \in Channel
  /\ line[s] \in {"open", "dead"} <=> \E b \in Channel : s \in channel[b]
  /\ \A b \in Channel : s \in channel[b] => b = ticket[s]
  /\ line[s] = "open" => LastTold(wire[s], others[s]) = rosterOf(channel[ticket[s]])

HubInv == HubTypeOK /\ \A s \in Socket : SocketOK(s)

-----------------------------------------------------------------------------

\* A roster appended is the last one told; handling the first does not change it.
LEMMA LastAppended ==
  ASSUME NEW R, NEW w \in Seq(R), NEW r \in R, NEW o
  PROVE  LastTold(Append(w, r), o) = r /\ Append(w, r) # <<>>
BY DEF LastTold

LEMMA LastHandled ==
  ASSUME NEW R, NEW w \in Seq(R), w # <<>>, NEW o
  PROVE  /\ LastTold(Tail(w), Head(w)) = LastTold(w, o)
         /\ Head(w) \in R /\ Tail(w) \in Seq(R)
<1>1. /\ Head(w) \in R /\ Tail(w) \in Seq(R) /\ Len(w) \in Nat \ {0}
      /\ Len(Tail(w)) = Len(w) - 1 /\ Head(w) = w[1]
  BY HeadTailProperties, EmptySeq
<1>2. CASE Len(w) = 1
  <2>1. Tail(w) # <<>> => Len(Tail(w)) \in Nat \ {0}
    BY ONLY <1>1, EmptySeq
  <2> QED
    BY <1>1, <1>2, <2>1 DEF LastTold
<1>3. CASE Len(w) # 1
  <2>1. \A i \in 1..Len(Tail(w)) : Tail(w)[i] = w[i + 1]
    BY HeadTailProperties
  <2>2. Len(<<>>) = 0 /\ Len(Tail(w)) \in 1..Len(Tail(w)) /\ Len(Tail(w)) + 1 = Len(w)
    BY <1>1, <1>3
  <2>3. Tail(w) # <<>> /\ Tail(w)[Len(Tail(w))] = w[Len(w)]
    BY ONLY <1>1, <1>3, <2>1, <2>2
  <2> QED
    BY <2>3 DEF LastTold
<1> QED
  BY <1>1, <1>2, <1>3

\* Nobody has the id of a session: the filter of the tab removes no one.
LEMMA FilterRemovesNobody ==
  ASSUME NEW s \in Socket, NEW r \in SUBSET Profile
  PROVE  {p \in r : p # SessionOf[s]} = r
BY HubConstants DEF Profile

LEMMA RostersAreProfiles ==
  ASSUME NEW x \in SUBSET Socket
  PROVE  rosterOf(x) \in SUBSET Profile
BY DEF rosterOf, Profile

\* A board's sockets are told of a change of its sockets: those on it and open
\* have been told the new roster last, and no other wire has changed.
LEMMA BroadcastTells ==
  ASSUME HubTypeOK, NEW x \in SUBSET Socket, broadcastPresence(x), NEW s \in Socket
  PROVE  /\ wire' \in [Socket -> Seq(SUBSET Profile)]
         /\ s \in x /\ line'[s] = "open" => \A o : LastTold(wire'[s], o) = rosterOf(x)
         /\ ~(s \in x /\ line'[s] = "open") => wire'[s] = wire[s]
<1>1. wire \in [Socket -> Seq(SUBSET Profile)] /\ rosterOf(x) \in SUBSET Profile
  BY RostersAreProfiles DEF HubTypeOK
<1>2. wire' = [t \in Socket |->
                 IF t \in x /\ line'[t] = "open" THEN Append(wire[t], rosterOf(x)) ELSE wire[t]]
  BY DEF broadcastPresence
<1>3. wire' \in [Socket -> Seq(SUBSET Profile)]
  <2>1. \A t \in Socket : Append(wire[t], rosterOf(x)) \in Seq(SUBSET Profile)
    BY <1>1
  <2> QED
    BY ONLY <1>1, <1>2, <2>1
<1>4. wire[s] \in Seq(SUBSET Profile)
  BY <1>1
<1>5. \A o : LastTold(Append(wire[s], rosterOf(x)), o) = rosterOf(x)
  BY ONLY <1>1, <1>4, LastAppended
<1> QED
  BY ONLY s \in Socket, <1>2, <1>3, <1>5

LEMMA HubStarts == HubInit => HubInv
<1> SUFFICES ASSUME HubInit PROVE HubInv
  OBVIOUS
<1>1. HubTypeOK
  BY DEF HubInit, HubTypeOK
<1>2. \A s \in Socket : SocketOK(s)
  BY DEF HubInit, SocketOK
<1> QED
  BY <1>1, <1>2 DEF HubInv

\* Before a socket is open nobody else sees what happens to it.
LEMMA TicketKeeps ==
  ASSUME HubInv, NEW s \in Socket, IssueTicket(s) \/ Expire(s) \/ Refuse(s)
  PROVE  HubInv'
<1>1. HubTypeOK /\ \A t \in Socket : SocketOK(t)
  BY DEF HubInv
<1>2. HubTypeOK'
  BY ONLY <1>1, s \in Socket, IssueTicket(s) \/ Expire(s) \/ Refuse(s) DEF HubTypeOK, IssueTicket, Expire, Refuse
<1>3. channel' = channel /\ wire' = wire /\ others' = others
  BY DEF IssueTicket, Expire, Refuse
<1>4. \A t \in Socket : t # s => line'[t] = line[t] /\ fresh'[t] = fresh[t] /\ ticket'[t] = ticket[t]
  BY <1>1 DEF IssueTicket, Expire, Refuse, HubTypeOK
<1>5. /\ line[s] = "new" /\ line'[s] \in {"new", "closed"}
      /\ fresh'[s] => ticket'[s] \in Channel
  <2>1. CASE IssueTicket(s)
    BY <1>1, <2>1 DEF IssueTicket, HubTypeOK
  <2>2. CASE Expire(s)
    BY <1>1, <2>2 DEF Expire, HubTypeOK
  <2>3. CASE Refuse(s)
    BY <1>1, <2>3 DEF Refuse, HubTypeOK
  <2> QED
    BY <2>1, <2>2, <2>3
<1>6. ASSUME NEW t \in Socket PROVE SocketOK(t)'
  <2>1. CASE t = s
    <3>1. SocketOK(s)
      BY <1>1
    <3> QED
      BY ONLY <1>3, <1>5, <2>1, <3>1 DEF SocketOK
  <2>2. CASE t # s
    <3>1. SocketOK(t) /\ line'[t] = line[t] /\ fresh'[t] = fresh[t] /\ ticket'[t] = ticket[t]
      BY <1>1, <1>4, <2>2
    <3> QED
      BY ONLY <1>3, <3>1 DEF SocketOK
  <2> QED
    BY <2>1, <2>2
<1> QED
  BY <1>2, <1>6 DEF HubInv

\* The board's sockets change, by one that comes or goes, and those left are told.
LEMMA JoinOrLeaveKeeps ==
  ASSUME HubInv, NEW s \in Socket, Join(s) \/ Leave(s)
  PROVE  HubInv'
<1> DEFINE b == ticket[s]
           now == channel'[b]
<1>1. HubTypeOK /\ \A t \in Socket : SocketOK(t)
  BY DEF HubInv
<1>2. b \in Channel
  BY <1>1 DEF Join, Leave, SocketOK
<1>3. /\ channel' \in [Channel -> SUBSET Socket]
      /\ \A c \in Channel : c # b => channel'[c] = channel[c]
      /\ \A t \in Socket : t # s => (t \in now <=> t \in channel[b])
      /\ s \in now <=> Join(s)
  <2>1. channel \in [Channel -> SUBSET Socket]
    BY <1>1 DEF HubTypeOK
  <2>2. CASE Join(s)
    BY <1>2, <2>1, <2>2 DEF Join
  <2>3. CASE Leave(s)
    <3>1. channel' = [channel EXCEPT ![b] = @ \ {s}] /\ ~Join(s)
      BY <2>3 DEF Join, Leave
    <3> QED
      BY <1>2, <2>1, <3>1
  <2> QED
    BY <2>2, <2>3
<1>4. /\ ticket' = ticket /\ fresh' = fresh /\ others' = others
      /\ line' \in [Socket -> {"new", "open", "dead", "closed"}]
      /\ \A t \in Socket : t # s => line'[t] = line[t]
      /\ Join(s) => line[s] = "new" /\ line'[s] = "open"
      /\ ~Join(s) => line[s] = "dead" /\ line'[s] = "closed"
  BY <1>1 DEF Join, Leave, HubTypeOK
<1>5. now \in SUBSET Socket /\ broadcastPresence(now)
  <2>1. channel \in [Channel -> SUBSET Socket]
    BY <1>1 DEF HubTypeOK
  <2>2. CASE Join(s)
    <3>1. now = channel[b] \cup {s}
      BY <1>2, <2>1, <2>2 DEF Join
    <3> QED
      BY <1>2, <2>1, <2>2, <3>1 DEF Join
  <2>3. CASE Leave(s)
    <3>1. now = channel[b] \ {s}
      BY <1>2, <2>1, <2>3 DEF Leave
    <3> QED
      BY <1>2, <2>1, <2>3, <3>1 DEF Leave
  <2> QED
    BY <2>2, <2>3
<1>6. /\ wire' \in [Socket -> Seq(SUBSET Profile)]
      /\ \A t \in Socket :
           /\ t \in now /\ line'[t] = "open" => \A o : LastTold(wire'[t], o) = rosterOf(now)
           /\ ~(t \in now /\ line'[t] = "open") => wire'[t] = wire[t]
  BY ONLY <1>1, <1>5, BroadcastTells
<1>7. HubTypeOK'
  BY <1>1, <1>3, <1>4, <1>6 DEF HubTypeOK
<1>8. ASSUME NEW t \in Socket, t # s PROVE SocketOK(t)'
  <2>1. SocketOK(t) /\ line'[t] = line[t] /\ ticket'[t] = ticket[t] /\ fresh'[t] = fresh[t] /\ others'[t] = others[t]
    BY <1>1, <1>4, <1>8
  <2>2. \A c \in Channel : t \in channel'[c] <=> t \in channel[c]
    BY ONLY t \in Socket, <1>3, <1>8
  <2>3. line'[t] = "new" => wire'[t] = <<>>
    BY ONLY t \in Socket, <1>6, <2>1 DEF SocketOK
  <2>4. ASSUME line'[t] = "open" PROVE LastTold(wire'[t], others'[t]) = rosterOf(channel'[ticket'[t]])
    <3>1. ticket[t] \in Channel /\ t \in channel[ticket[t]] /\ LastTold(wire[t], others[t]) = rosterOf(channel[ticket[t]])
      BY <2>1, <2>4 DEF SocketOK
    <3>2. CASE ticket[t] = b
      BY <1>3, <1>6, <1>8, <2>1, <2>4, <3>1, <3>2
    <3>3. CASE ticket[t] # b
      <4>1. t \notin channel[b]
        BY <1>2, <2>1, <3>3 DEF SocketOK
      <4>2. wire'[t] = wire[t] /\ channel'[ticket[t]] = channel[ticket[t]]
        BY <1>2, <1>3, <1>6, <1>8, <3>1, <3>3, <4>1
      <4> QED
        BY <2>1, <3>1, <4>2
    <3> QED
      BY <3>2, <3>3
  <2> QED
    BY ONLY <2>1, <2>2, <2>3, <2>4 DEF SocketOK
<1>9. SocketOK(s)'
  <2>1. SocketOK(s)
    BY <1>1
  <2>2. ASSUME NEW c \in Channel, c # b PROVE s \notin channel'[c]
    <3>1. s \notin channel[c]
      BY ONLY c \in Channel, <2>1, <2>2 DEF SocketOK
    <3> QED
      BY <1>3, <2>2, <3>1
  <2>3. ASSUME line'[s] = "open" PROVE LastTold(wire'[s], others'[s]) = rosterOf(channel'[ticket'[s]])
    <3>1. s \in now /\ ticket' = ticket
      BY <1>3, <1>4, <2>3
    <3> QED
      BY <1>6, <2>3, <3>1
  <2> QED
    BY ONLY <1>2, <1>3, <1>4, <2>2, <2>3 DEF SocketOK
<1> QED
  BY <1>7, <1>8, <1>9 DEF HubInv

\* A tab handles a roster: the last one it will have handled stays the same.
LEMMA ReceiveKeeps ==
  ASSUME HubInv, NEW s \in Socket, Receive(s)
  PROVE  HubInv'
<1>1. HubTypeOK /\ \A t \in Socket : SocketOK(t)
  BY DEF HubInv
<1>2. /\ line[s] = "open" /\ wire[s] # <<>> /\ wire[s] \in Seq(SUBSET Profile)
      /\ ticket' = ticket /\ fresh' = fresh /\ channel' = channel /\ line' = line
  BY <1>1 DEF Receive, HubTypeOK
<1>3. Head(wire[s]) \in SUBSET Profile /\ Tail(wire[s]) \in Seq(SUBSET Profile)
      /\ LastTold(Tail(wire[s]), Head(wire[s])) = LastTold(wire[s], others[s])
  BY ONLY <1>2, LastHandled
<1>4. {p \in Head(wire[s]) : p # SessionOf[s]} = Head(wire[s])
  BY ONLY s \in Socket, <1>3, FilterRemovesNobody
<1>5. /\ others' = [others EXCEPT ![s] = Head(wire[s])]
      /\ wire' = [wire EXCEPT ![s] = Tail(wire[s])]
  BY <1>4 DEF Receive
<1>6. HubTypeOK'
  BY ONLY s \in Socket, <1>1, <1>2, <1>3, <1>5 DEF HubTypeOK
<1>7. ASSUME NEW t \in Socket PROVE SocketOK(t)'
  <2>1. SocketOK(t)
    BY <1>1
  <2>2. CASE t = s
    <3>1. wire'[s] = Tail(wire[s]) /\ others'[s] = Head(wire[s])
      BY <1>1, <1>5 DEF HubTypeOK
    <3>2. LastTold(wire'[s], others'[s]) = LastTold(wire[s], others[s])
      BY ONLY <1>3, <3>1
    <3> QED
      BY ONLY <1>2, <2>1, <2>2, <3>2 DEF SocketOK
  <2>3. CASE t # s
    <3>1. wire'[t] = wire[t] /\ others'[t] = others[t]
      BY <1>1, <1>5, <2>3 DEF HubTypeOK
    <3> QED
      BY ONLY <1>2, <2>1, <3>1 DEF SocketOK
  <2> QED
    BY <2>2, <2>3
<1> QED
  BY <1>6, <1>7 DEF HubInv

\* A dead socket stays on its board until the server notices.
LEMMA DropKeepsHub ==
  ASSUME HubInv, NEW s \in Socket, Drop(s)
  PROVE  HubInv'
<1>1. HubTypeOK /\ \A t \in Socket : SocketOK(t)
  BY DEF HubInv
<1>2. HubTypeOK'
  <2>1. <<>> \in Seq(SUBSET Profile) /\ {} \in SUBSET Profile
    OBVIOUS
  <2> QED
    BY ONLY s \in Socket, Drop(s), <1>1, <2>1 DEF HubTypeOK, Drop
<1>3. ASSUME NEW t \in Socket PROVE SocketOK(t)'
  <2>1. SocketOK(t) /\ ticket' = ticket /\ fresh' = fresh /\ channel' = channel
    BY <1>1 DEF Drop
  <2>2. CASE t = s
    <3>1. line[s] = "open" /\ line'[s] = "dead"
      BY <1>1 DEF Drop, HubTypeOK
    <3> QED
      BY ONLY <2>1, <2>2, <3>1 DEF SocketOK
  <2>3. CASE t # s
    <3>1. wire'[t] = wire[t] /\ others'[t] = others[t] /\ line'[t] = line[t]
      BY <1>1, <2>3 DEF Drop, HubTypeOK
    <3> QED
      BY ONLY <2>1, <3>1 DEF SocketOK
  <2> QED
    BY <2>2, <2>3
<1> QED
  BY <1>2, <1>3 DEF HubInv

LEMMA HubInvKept == HubInv /\ [HubNext]_hubVars => HubInv'
<1> SUFFICES ASSUME HubInv, [HubNext]_hubVars PROVE HubInv'
  OBVIOUS
<1>1. ASSUME NEW s \in Socket,
             IssueTicket(s) \/ Expire(s) \/ Join(s) \/ Refuse(s) \/ Drop(s) \/ Leave(s) \/ Receive(s)
      PROVE  HubInv'
  BY ONLY HubInv, <1>1, TicketKeeps, JoinOrLeaveKeeps, ReceiveKeeps, DropKeepsHub
<1>2. CASE UNCHANGED hubVars
  <2>1. /\ ticket' = ticket /\ fresh' = fresh /\ channel' = channel /\ line' = line
        /\ wire' = wire /\ others' = others
    BY <1>2 DEF hubVars
  <2> QED
    BY <2>1 DEF HubInv, HubTypeOK, SocketOK
<1> QED
  BY <1>1, <1>2 DEF HubNext

\* The inductive invariant of presence.
THEOREM HubInvHolds == HubSpec => []HubInv
BY HubStarts, HubInvKept, PTL DEF HubSpec

\* A tab that has handled all it was sent shows everyone who has a socket on its
\* board, itself included.
THEOREM RosterIsShownHolds == HubSpec => []RosterIsShown
<1>1. HubInv => RosterIsShown
  BY DEF HubInv, SocketOK, LastTold, RosterIsShown
<1> QED
  BY <1>1, HubInvHolds, PTL

-----------------------------------------------------------------------------
(***************************************************************************)
(* That calls which did not overlap leave no card with two running timers, *)
(* two values of a field, or two items with one index.  What a call found  *)
(* missing is still missing when it writes (SlotOK), unless another call   *)
(* was at the same rows, and then both know (BothKnow).                    *)
(***************************************************************************)

RowOwner == Editor \cup Tag \cup Row \cup {CHECKLIST, FIELDS}

DetailSlot == [pc: {"idle", "halt", "find", "last", "find timer", "update", "insert"},
               table: {"time", "item", "def", "value"}, of: RowOwner, row: Row \cup {NoRow},
               n: Nat, alone: BOOLEAN]

\* Calls that have looked, or are about to, and will write what they found missing.
Looking(k) == calls[k].pc \in {"halt", "find", "last", "insert"}

\* What one call may rely on between its look and its write.
SlotOK(k) ==
  LET q == calls[k]
  IN  /\ q.pc = "halt" => q.table = "time"
      /\ q.pc = "find" => q.table = "value"
      /\ q.pc = "last" => q.table \in {"item", "def"}
      /\ Looking(k) /\ ~q.alone => keyOfCall(q) \in crossed
      /\ q.pc = "insert" =>
           /\ q.table = "time" => q.n = 1 /\ (q.alone => Running(q.of) = {})
           /\ q.table = "value" /\ keyOfCall(q) \notin crossed => RowsIn("value", q.of) = {}
           /\ q.table \in {"item", "def"} /\ keyOfCall(q) \notin crossed =>
                \A r \in RowsIn(q.table, q.of) : details[r].n < q.n
      /\ q.pc = "update" => /\ q.row \in Row /\ details[q.row] # NoRow
                            /\ stored(q.row) => details[q.row].table \in {"time", "value"}

\* Two that look for the same thing know that they are not alone.
BothKnow ==
  \A j, k \in DetailCall :
    j # k /\ Looking(j) /\ Looking(k) /\ keyOfCall(calls[j]) = keyOfCall(calls[k])
      => ~calls[j].alone /\ ~calls[k].alone

\* The indices have an upper bound.
IndicesBounded == \E m \in Nat : \A r \in Row : stored(r) => details[r].n <= m

DetailShape ==
  /\ DetailTypeOK
  /\ details \in [Row -> DetailRow \cup {NoRow, UsedRow}]
  /\ calls \in [DetailCall -> DetailSlot]

DetailRest == (\A k \in DetailCall : SlotOK(k)) /\ BothKnow /\ AloneNothingDoubles

DetailInv == DetailShape /\ DetailRest /\ IndicesBounded

-----------------------------------------------------------------------------

\* A bounded set of numbers has a greatest: its up-sets are finite, and the least
\* of them belongs to it.
LEMMA BoundedHasGreatest ==
  ASSUME NEW I \in SUBSET Nat, I # {}, NEW m \in Nat, \A i \in I : i <= m
  PROVE  \E x \in I : \A i \in I : i <= x
<1> DEFINE Up(i) == {j \in 0..m : i <= j}
           T == {Up(i) : i \in I}
<1>1. T \subseteq FiniteSubsetsOf(0..m) /\ T # {}
  <2>1. \A i \in I : Up(i) \in SUBSET (0..m)
    OBVIOUS
  <2>2. IsFiniteSet(0..m)
    BY FS_Interval
  <2>3. \A S \in SUBSET (0..m) : IsFiniteSet(S)
    BY <2>2, FS_Subset
  <2> QED
    BY <2>1, <2>3 DEF FiniteSubsetsOf
<1>2. PICK U \in T : \A V \in T : <<V, U>> \notin StrictSubsetOrdering(0..m)
  <2> HIDE DEF T
  <2> QED
    BY <1>1, FS_StrictSubsetOrderingWellFounded, WFMin
<1>3. PICK x \in I : U = Up(x)
  OBVIOUS
<1>4. ASSUME NEW i \in I, ~(i <= x) PROVE FALSE
  <2>1. Up(i) \subseteq Up(x) /\ x \in Up(x) /\ x \notin Up(i)
    BY <1>4
  <2>2. Up(i) \in T /\ Up(i) \in SUBSET (0..m) /\ Up(x) \in SUBSET (0..m)
    OBVIOUS
  <2> HIDE DEF Up
  <2>3. <<Up(i), Up(x)>> \in StrictSubsetOrdering(0..m)
    BY <2>1, <2>2, <1>1, <1>3 DEF StrictSubsetOrdering, FiniteSubsetsOf
  <2> QED
    BY <1>2, <1>3, <2>2, <2>3
<1> QED
  BY <1>4

LEMMA DetailStarts == DetailInit => DetailInv
<1> SUFFICES ASSUME DetailInit PROVE DetailInv
  OBVIOUS
<1>1. DetailShape
  <2>1. details \in [Row -> DetailRow \cup {NoRow, UsedRow}]
    BY DEF DetailInit
  <2>2. NoCall \in DetailSlot
    BY DEF NoCall, DetailSlot, RowOwner
  <2>3. calls \in [DetailCall -> DetailSlot]
    BY <2>2 DEF DetailInit
  <2>4. 0 \in 0..MaxDetailCalls /\ 0 \in 0..MaxDetailFails
    BY DetailConstants
  <2>5. DetailTypeOK
    BY <2>1, <2>3, <2>4 DEF DetailInit, DetailTypeOK, DetailSlot
  <2> QED
    BY <2>1, <2>3, <2>5 DEF DetailShape
<1>2. /\ \A r \in Row : ~stored(r)
      /\ \A k \in DetailCall : calls[k].pc = "idle"
  BY DEF DetailInit, stored, NoCall
<1>3. DetailRest
  BY ONLY <1>2 DEF DetailRest, SlotOK, Looking, BothKnow, AloneNothingDoubles
<1>4. IndicesBounded
  BY <1>2 DEF IndicesBounded
<1> QED
  BY <1>1, <1>3, <1>4 DEF DetailInv

-----------------------------------------------------------------------------
(* What happens to the rows.                                                *)

\* A row stays, goes, or is a timer or a value that is written over.
Thinned ==
  \A r \in Row :
    \/ details'[r] = details[r]
    \/ details[r] # NoRow /\ details'[r] = UsedRow
    \/ /\ stored(r) /\ details[r].table \in {"time", "value"}
       /\ details'[r] \in DetailRow
       /\ details'[r].table = details[r].table /\ details'[r].of = details[r].of /\ details'[r].n = 0

\* A row comes to a table.
Grown(table, of, n) ==
  \/ details' = details
  \/ \E r \in Row : /\ details[r] = NoRow /\ details'[r] \in DetailRow
                   /\ details'[r].table = table /\ details'[r].of = of /\ details'[r].n = n
                   /\ \A s \in Row : s # r => details'[s] = details[s]

LEMMA ThinnedRows ==
  ASSUME DetailShape, Thinned
  PROVE  /\ \A r \in Row : stored(r)' =>
              /\ stored(r) /\ details'[r].table = details[r].table /\ details'[r].of = details[r].of
              /\ details'[r].n = details[r].n \/ (details'[r].n = 0 /\ details[r].table \in {"time", "value"})
         /\ \A r \in Row : details[r] # NoRow => details'[r] # NoRow
         /\ \A table, of : \A r \in Row : r \in RowsIn(table, of)' => r \in RowsIn(table, of)
         /\ \A u : \A r \in Row : r \in Running(u)' => r \in Running(u)
<1>1. \A r \in Row : stored(r)' =>
              /\ stored(r) /\ details'[r].table = details[r].table /\ details'[r].of = details[r].of
              /\ details'[r].n = details[r].n \/ (details'[r].n = 0 /\ details[r].table \in {"time", "value"})
  BY DetailConstants DEF Thinned, stored
<1>2. \A r \in Row : details[r] # NoRow => details'[r] # NoRow
  BY DetailConstants DEF Thinned, stored
<1>3. \A table, of : \A r \in Row : r \in RowsIn(table, of)' => r \in RowsIn(table, of)
  BY ONLY <1>1 DEF RowsIn
<1>4. \A u : \A r \in Row : r \in Running(u)' => r \in Running(u)
  <2> SUFFICES ASSUME NEW u, NEW r \in Row, r \in Running(u)' PROVE r \in Running(u)
    OBVIOUS
  <2>1. r \in RowsIn("time", u)' /\ details'[r].n = 1
    BY DEF Running
  <2>2. r \in RowsIn("time", u)
    BY ONLY r \in Row, <1>3, <2>1
  <2>3. details[r].n = 1
    BY ONLY r \in Row, <1>1, <2>1 DEF RowsIn
  <2> QED
    BY <2>2, <2>3 DEF Running
<1> QED
  BY ONLY <1>1, <1>2, <1>3, <1>4

\* A slot that did not move, while rows thin out.
LEMMA SlotStays ==
  ASSUME DetailShape, Thinned, NEW k \in DetailCall, SlotOK(k), calls'[k] = calls[k],
         keyOfCall(calls[k]) \in crossed => keyOfCall(calls[k]) \in crossed'
  PROVE  SlotOK(k)'
<1>0. PICK q : q = calls[k]
  OBVIOUS
<1>1. /\ q.pc = "halt" => q.table = "time"
      /\ q.pc = "find" => q.table = "value"
      /\ q.pc = "last" => q.table \in {"item", "def"}
      /\ Looking(k) /\ ~q.alone => keyOfCall(q) \in crossed
      /\ q.pc = "insert" =>
           /\ q.table = "time" => q.n = 1 /\ (q.alone => Running(q.of) = {})
           /\ q.table = "value" /\ keyOfCall(q) \notin crossed => RowsIn("value", q.of) = {}
           /\ q.table \in {"item", "def"} /\ keyOfCall(q) \notin crossed =>
                \A r \in RowsIn(q.table, q.of) : details[r].n < q.n
      /\ q.pc = "update" => /\ q.row \in Row /\ details[q.row] # NoRow
                            /\ stored(q.row) => details[q.row].table \in {"time", "value"}
  BY <1>0 DEF SlotOK
<1>2. calls'[k] = q /\ (Looking(k)' <=> Looking(k))
  BY <1>0 DEF Looking
<1>3. q.pc = "insert" =>
           /\ q.table = "time" => q.n = 1 /\ (q.alone => Running(q.of)' = {})
           /\ q.table = "value" /\ keyOfCall(q) \notin crossed' => RowsIn("value", q.of)' = {}
           /\ q.table \in {"item", "def"} /\ keyOfCall(q) \notin crossed' =>
                \A r \in RowsIn(q.table, q.of)' : details'[r].n < q.n
  <2> SUFFICES ASSUME q.pc = "insert"
               PROVE  /\ q.table = "time" => q.n = 1 /\ (q.alone => Running(q.of)' = {})
                      /\ q.table = "value" /\ keyOfCall(q) \notin crossed' => RowsIn("value", q.of)' = {}
                      /\ q.table \in {"item", "def"} /\ keyOfCall(q) \notin crossed' =>
                           \A r \in RowsIn(q.table, q.of)' : details'[r].n < q.n
    OBVIOUS
  <2>1. /\ \A table, of : RowsIn(table, of)' \subseteq RowsIn(table, of)
        /\ \A u : Running(u)' \subseteq Running(u)
    BY ThinnedRows DEF RowsIn, Running
  <2>2. q.table \in {"item", "def"} => \A r \in RowsIn(q.table, q.of)' : details'[r].n = details[r].n
    BY ThinnedRows DEF RowsIn
  <2>3. keyOfCall(q) \notin crossed' => keyOfCall(q) \notin crossed
    BY <1>0
  <2>4. \A r \in RowsIn(q.table, q.of)' : r \in RowsIn(q.table, q.of)
    BY ONLY <2>1
  <2>5. ASSUME q.table \in {"item", "def"}, keyOfCall(q) \notin crossed', NEW r \in RowsIn(q.table, q.of)'
        PROVE  details'[r].n < q.n
    <3>1. details'[r].n = details[r].n
      BY ONLY <2>2, <2>5
    <3>2. details[r].n < q.n
      BY ONLY q.pc = "insert", <1>1, <2>3, <2>4, <2>5
    <3> QED
      BY ONLY <3>1, <3>2
  <2>6. q.table = "time" => q.n = 1 /\ (q.alone => Running(q.of)' = {})
    BY ONLY q.pc = "insert", <1>1, <2>1
  <2>7. q.table = "value" /\ keyOfCall(q) \notin crossed' => RowsIn("value", q.of)' = {}
    BY ONLY q.pc = "insert", <1>1, <2>1, <2>3
  <2> QED
    BY <2>5, <2>6, <2>7
<1>4. q.pc = "update" => /\ q.row \in Row /\ details'[q.row] # NoRow
                         /\ stored(q.row)' => details'[q.row].table \in {"time", "value"}
  BY <1>1, ThinnedRows
<1>5. Looking(k) /\ ~q.alone => keyOfCall(q) \in crossed'
  BY <1>0, <1>1
<1> QED
  BY ONLY <1>1, <1>2, <1>3, <1>4, <1>5 DEF SlotOK

LEMMA RowsStayApart ==
  ASSUME DetailShape, Thinned, AloneNothingDoubles, \A x : x \in crossed => x \in crossed'
  PROVE  AloneNothingDoubles'
<1> SUFFICES ASSUME NEW r \in Row, NEW s \in Row, r # s, stored(r)', stored(s)',
                    keyOfCall(details'[r]) = keyOfCall(details'[s]), keyOfCall(details'[r]) \notin crossed'
             PROVE  /\ details'[r].table = "time" => ~(details'[r].n = 1 /\ details'[s].n = 1)
                    /\ details'[r].table # "value"
                    /\ details'[r].table \in {"item", "def"} => details'[r].n # details'[s].n
  BY DEF AloneNothingDoubles
<1>1. /\ stored(r) /\ stored(s) /\ details'[r].table = details[r].table /\ details'[s].table = details[s].table
      /\ details'[r].of = details[r].of /\ details'[s].of = details[s].of
      /\ details'[r].n = details[r].n \/ (details'[r].n = 0 /\ details[r].table \in {"time", "value"})
      /\ details'[s].n = details[s].n \/ (details'[s].n = 0 /\ details[s].table \in {"time", "value"})
  BY ThinnedRows
<1>2. /\ keyOfCall(details'[r]) = keyOfCall(details[r]) /\ keyOfCall(details'[s]) = keyOfCall(details[s])
      /\ details[r].table = details[s].table
  BY <1>1 DEF keyOfCall
<1>3. keyOfCall(details[r]) = keyOfCall(details[s]) /\ keyOfCall(details[r]) \notin crossed
  BY <1>2
<1>4. /\ details[r].table = "time" => ~(details[r].n = 1 /\ details[s].n = 1)
      /\ details[r].table # "value"
      /\ details[r].table \in {"item", "def"} => details[r].n # details[s].n
  BY <1>1, <1>3 DEF AloneNothingDoubles
<1> QED
  BY ONLY <1>1, <1>2, <1>4

-----------------------------------------------------------------------------
(* A row comes: the others of its key know of it.                           *)

LEMMA GrownRows ==
  ASSUME DetailShape, NEW table, NEW of, NEW n, Grown(table, of, n)
  PROVE  /\ \A r \in Row : details[r] # NoRow => details'[r] = details[r]
         /\ \A r \in Row : stored(r)' =>
              \/ stored(r) /\ details'[r] = details[r]
              \/ details'[r].table = table /\ details'[r].of = of /\ details'[r].n = n
         /\ \A r \in Row, s \in Row : r # s => \/ stored(r)' => stored(r) /\ details'[r] = details[r]
                                               \/ stored(s)' => stored(s) /\ details'[s] = details[s]
<1>1. CASE details' = details
  BY <1>1 DEF stored
<1>2. CASE details' # details
  <2>1. PICK r \in Row : /\ details[r] = NoRow /\ details'[r] \in DetailRow
                   /\ details'[r].table = table /\ details'[r].of = of /\ details'[r].n = n
                   /\ \A s \in Row : s # r => details'[s] = details[s]
    BY <1>2 DEF Grown
  <2>2. \A s \in Row : s # r => (stored(s)' <=> stored(s))
    BY <2>1 DEF stored
  <2> QED
    BY <2>1, <2>2
<1> QED
  BY <1>1, <1>2

LEMMA OtherRows ==
  ASSUME DetailShape, NEW table, NEW of, NEW n, Grown(table, of, n),
         NEW t, NEW o, <<t, o>> # <<table, of>>
  PROVE  \A r \in RowsIn(t, o)' : r \in RowsIn(t, o) /\ details'[r] = details[r]
<1>1. t # table \/ o # of
  OBVIOUS
<1> QED
  BY <1>1, GrownRows DEF RowsIn

LEMMA SlotSees ==
  ASSUME DetailShape, NEW table, NEW of, NEW n, Grown(table, of, n),
         NEW k \in DetailCall, SlotOK(k), calls'[k] = calls[k],
         keyOfCall(calls[k]) # <<table, of>> => (keyOfCall(calls[k]) \in crossed' <=> keyOfCall(calls[k]) \in crossed),
         keyOfCall(calls[k]) = <<table, of>> /\ Looking(k) => ~calls[k].alone /\ keyOfCall(calls[k]) \in crossed'
  PROVE  SlotOK(k)'
<1>0. PICK q : q = calls[k]
  OBVIOUS
<1>1. /\ q.pc = "halt" => q.table = "time"
      /\ q.pc = "find" => q.table = "value"
      /\ q.pc = "last" => q.table \in {"item", "def"}
      /\ Looking(k) /\ ~q.alone => keyOfCall(q) \in crossed
      /\ q.pc = "insert" =>
           /\ q.table = "time" => q.n = 1 /\ (q.alone => Running(q.of) = {})
           /\ q.table = "value" /\ keyOfCall(q) \notin crossed => RowsIn("value", q.of) = {}
           /\ q.table \in {"item", "def"} /\ keyOfCall(q) \notin crossed =>
                \A r \in RowsIn(q.table, q.of) : details[r].n < q.n
      /\ q.pc = "update" => /\ q.row \in Row /\ details[q.row] # NoRow
                            /\ stored(q.row) => details[q.row].table \in {"time", "value"}
  BY <1>0 DEF SlotOK
<1>2. calls'[k] = q /\ (Looking(k)' <=> Looking(k)) /\ (q.pc = "insert" => Looking(k))
  BY <1>0 DEF Looking
<1>3. /\ keyOfCall(q) # <<table, of>> => (keyOfCall(q) \in crossed' <=> keyOfCall(q) \in crossed)
      /\ keyOfCall(q) = <<table, of>> /\ Looking(k) => ~q.alone /\ keyOfCall(q) \in crossed'
  BY <1>0
<1>4. q.pc = "update" => /\ q.row \in Row /\ details'[q.row] # NoRow
                         /\ stored(q.row)' => details'[q.row].table \in {"time", "value"}
  <2> SUFFICES ASSUME q.pc = "update"
               PROVE  /\ q.row \in Row /\ details'[q.row] # NoRow
                      /\ stored(q.row)' => details'[q.row].table \in {"time", "value"}
    OBVIOUS
  <2>1. q.row \in Row /\ details'[q.row] = details[q.row] /\ (stored(q.row)' <=> stored(q.row))
    BY <1>1, GrownRows DEF stored
  <2> QED
    BY ONLY q.pc = "update", <1>1, <2>1
<1>5. CASE keyOfCall(q) = <<table, of>>
  <2>1. q.pc = "insert" => ~q.alone /\ keyOfCall(q) \in crossed'
    BY <1>2, <1>3, <1>5
  <2> QED
    BY ONLY <1>1, <1>2, <1>3, <1>4, <1>5, <2>1 DEF SlotOK
<1>6. CASE keyOfCall(q) # <<table, of>>
  <2>1. <<q.table, q.of>> # <<table, of>>
    BY <1>6 DEF keyOfCall
  <2>2. \A r \in RowsIn(q.table, q.of)' : r \in RowsIn(q.table, q.of) /\ details'[r] = details[r]
    BY <2>1, OtherRows
  <2>3. q.table = "time" => \A r \in Running(q.of)' : r \in Running(q.of)
    BY ONLY <2>2 DEF Running
  <2>4. q.pc = "insert" =>
           /\ q.table = "time" => q.n = 1 /\ (q.alone => Running(q.of)' = {})
           /\ q.table = "value" /\ keyOfCall(q) \notin crossed' => RowsIn("value", q.of)' = {}
           /\ q.table \in {"item", "def"} /\ keyOfCall(q) \notin crossed' =>
                \A r \in RowsIn(q.table, q.of)' : details'[r].n < q.n
    <3>1. q.pc = "insert" /\ q.table = "time" => q.n = 1 /\ (q.alone => Running(q.of)' = {})
      BY ONLY <1>1, <2>3
    <3>2. q.pc = "insert" /\ q.table = "value" /\ keyOfCall(q) \notin crossed' => RowsIn("value", q.of)' = {}
      BY ONLY <1>1, <1>3, <1>6, <2>2
    <3>3. q.pc = "insert" /\ q.table \in {"item", "def"} /\ keyOfCall(q) \notin crossed' =>
                \A r \in RowsIn(q.table, q.of)' : details'[r].n < q.n
      BY ONLY <1>1, <1>3, <1>6, <2>2
    <3> QED
      BY ONLY <3>1, <3>2, <3>3
  <2>5. Looking(k) /\ ~q.alone => keyOfCall(q) \in crossed'
    BY <1>1, <1>3, <1>6
  <2> QED
    BY ONLY <1>1, <1>2, <1>4, <2>4, <2>5 DEF SlotOK
<1> QED
  BY <1>5, <1>6

LEMMA NewRowApart ==
  ASSUME DetailShape, NEW table, NEW of, NEW n \in Nat, Grown(table, of, n), AloneNothingDoubles,
         \A x : x # <<table, of>> => (x \in crossed' <=> x \in crossed),
         <<table, of>> \notin crossed' =>
           \/ table = "link"
           \/ table = "time" /\ Running(of) = {}
           \/ <<table, of>> \notin crossed /\ table = "value" /\ RowsIn("value", of) = {}
           \/ <<table, of>> \notin crossed /\ table \in {"item", "def"} /\ \A r \in RowsIn(table, of) : details[r].n < n
  PROVE  AloneNothingDoubles'
<1> SUFFICES ASSUME NEW r \in Row, NEW s \in Row, r # s, stored(r)', stored(s)',
                    keyOfCall(details'[r]) = keyOfCall(details'[s]), keyOfCall(details'[r]) \notin crossed'
             PROVE  /\ details'[r].table = "time" => ~(details'[r].n = 1 /\ details'[s].n = 1)
                    /\ details'[r].table # "value"
                    /\ details'[r].table \in {"item", "def"} => details'[r].n # details'[s].n
  BY DEF AloneNothingDoubles
<1>1. details'[r].table = details'[s].table /\ details'[r].of = details'[s].of
  BY DEF keyOfCall
<1>2. CASE stored(r) /\ stored(s) /\ details'[r] = details[r] /\ details'[s] = details[s]
             /\ keyOfCall(details[r]) \notin crossed
  BY <1>2 DEF AloneNothingDoubles
<1>3. keyOfCall(details'[r]) # <<table, of>> => keyOfCall(details'[r]) \notin crossed
  OBVIOUS
<1>4. \A x \in Row : stored(x)' =>
              \/ stored(x) /\ details'[x] = details[x]
              \/ details'[x].table = table /\ details'[x].of = of /\ details'[x].n = n
  BY GrownRows
<1>5. (stored(r) /\ details'[r] = details[r]) \/ (stored(s) /\ details'[s] = details[s])
  BY GrownRows
<1>6. CASE keyOfCall(details'[r]) # <<table, of>>
  <2>1. ~(details'[r].table = table /\ details'[r].of = of)
    BY <1>6 DEF keyOfCall
  <2> QED
    BY <1>1, <1>2, <1>3, <1>4, <1>6, <2>1
<1>7. CASE keyOfCall(details'[r]) = <<table, of>>
  <2>1. details'[r].table = table /\ details'[r].of = of /\ details'[s].table = table /\ details'[s].of = of
    BY <1>1, <1>7 DEF keyOfCall
  <2>2. \A x \in {r, s} : /\ stored(x) /\ details'[x] = details[x] => x \in RowsIn(table, of)
                          /\ stored(x) /\ details'[x] = details[x] /\ details'[x].n = 1 /\ table = "time" => x \in Running(of)
    BY <2>1 DEF RowsIn, Running
  <2>3. <<table, of>> \notin crossed'
    BY <1>7
  <2>4. CASE table = "link"
    BY <2>1, <2>4
  <2>5. CASE table = "time" /\ Running(of) = {}
    BY ONLY <1>5, <2>1, <2>2, <2>5
  <2>6. CASE <<table, of>> \notin crossed /\ table = "value" /\ RowsIn("value", of) = {}
    BY ONLY <1>5, <2>1, <2>2, <2>6
  <2>7. CASE <<table, of>> \notin crossed /\ table \in {"item", "def"} /\ \A x \in RowsIn(table, of) : details[x].n < n
    <3>1. keyOfCall(details'[r]) \notin crossed
      BY <1>7, <2>7
    <3>2. ASSUME NEW x \in {r, s}, stored(x), details'[x] = details[x] PROVE details'[x].n < n /\ details'[x].n \in Nat
      <4>1. x \in RowsIn(table, of)
        BY <2>2, <3>2
      <4>2. details[x] \in DetailRow
        BY <3>2 DEF DetailShape, stored
      <4>3. details[x].n \in Nat
        BY <4>2 DEF DetailRow
      <4> QED
        BY <2>7, <3>2, <4>1, <4>3
    <3>3. CASE details'[r].n = n /\ stored(s) /\ details'[s] = details[s]
      BY <2>1, <2>7, <3>2, <3>3
    <3>4. CASE details'[s].n = n /\ stored(r) /\ details'[r] = details[r]
      BY <2>1, <2>7, <3>2, <3>4
    <3> QED
      BY <1>2, <1>4, <1>5, <3>1, <3>3, <3>4
  <2> QED
    BY <2>3, <2>4, <2>5, <2>6, <2>7
<1> QED
  BY <1>6, <1>7

-----------------------------------------------------------------------------
(* The steps.                                                               *)

LEMMA StaysBounded ==
  ASSUME DetailShape, IndicesBounded, Thinned
  PROVE  IndicesBounded'
<1>1. PICK m \in Nat : \A r \in Row : stored(r) => details[r].n <= m
  BY DEF IndicesBounded
<1>2. ASSUME NEW r \in Row, stored(r)' PROVE details'[r].n <= m
  <2>1. stored(r) /\ (details'[r].n = details[r].n \/ details'[r].n = 0)
    BY <1>2, ThinnedRows
  <2> QED
    BY <1>1, <2>1
<1> QED
  BY <1>1, <1>2 DEF IndicesBounded

LEMMA GrowsBounded ==
  ASSUME DetailShape, IndicesBounded, NEW table, NEW of, NEW n \in Nat, Grown(table, of, n)
  PROVE  IndicesBounded'
<1>1. PICK m \in Nat : \A r \in Row : stored(r) => details[r].n <= m
  BY DEF IndicesBounded
<1>2. PICK g \in Nat : m <= g /\ n <= g
  OBVIOUS
<1>3. ASSUME NEW r \in Row, stored(r)' PROVE details'[r].n <= g
  <2>1. CASE stored(r) /\ details'[r] = details[r]
    <3>1. details[r] \in DetailRow
      BY <2>1 DEF DetailShape, stored
    <3>2. details[r].n \in Nat /\ details[r].n <= m
      BY <1>1, <2>1, <3>1 DEF DetailRow
    <3> QED
      BY <1>2, <2>1, <3>2
  <2>2. CASE details'[r].n = n
    BY <1>2, <2>2
  <2> QED
    BY <1>3, <2>1, <2>2, GrownRows
<1> QED
  BY <1>2, <1>3 DEF IndicesBounded

LEMMA KnowStays ==
  ASSUME DetailShape, BothKnow, NEW k \in DetailCall, NEW q, calls' = [calls EXCEPT ![k] = q],
         q.pc \in {"halt", "find", "last", "insert"} =>
           Looking(k) /\ keyOfCall(q) = keyOfCall(calls[k]) /\ q.alone = calls[k].alone
  PROVE  BothKnow'
<1>1. \A j \in DetailCall : calls'[j] = IF j = k THEN q ELSE calls[j]
  BY DEF DetailShape
<1>2. \A j \in DetailCall : Looking(j)' =>
        Looking(j) /\ keyOfCall(calls'[j]) = keyOfCall(calls[j]) /\ calls'[j].alone = calls[j].alone
  BY <1>1 DEF Looking
<1> QED
  BY ONLY <1>2, BothKnow DEF BothKnow

LEMMA ShapeStays ==
  ASSUME DetailShape, details' \in [Row -> DetailRow \cup {NoRow, UsedRow}],
         calls' \in [DetailCall -> DetailSlot], cardGone' \in BOOLEAN,
         served' \in 0..MaxDetailCalls, detailFails' \in 0..MaxDetailFails
  PROVE  DetailShape'
BY DEF DetailShape, DetailTypeOK, DetailSlot

\* One call goes on, and rows thin out.
LEMMA CallGoesOn ==
  ASSUME DetailInv, Thinned, details' \in [Row -> DetailRow \cup {NoRow, UsedRow}],
         NEW k \in DetailCall, NEW q \in DetailSlot, calls' = [calls EXCEPT ![k] = q],
         q.pc \in {"halt", "find", "last", "insert"} =>
           Looking(k) /\ keyOfCall(q) = keyOfCall(calls[k]) /\ q.alone = calls[k].alone,
         SlotOK(k)', crossed' = crossed, cardGone' = cardGone, served' = served,
         detailFails' \in 0..MaxDetailFails
  PROVE  DetailInv'
<1>1. DetailShape /\ BothKnow /\ AloneNothingDoubles /\ IndicesBounded /\ \A j \in DetailCall : SlotOK(j)
  BY DEF DetailInv, DetailRest
<1>2. calls' \in [DetailCall -> DetailSlot] /\ \A j \in DetailCall : j # k => calls'[j] = calls[j]
  BY <1>1 DEF DetailShape
<1>3. DetailShape'
  BY <1>1, <1>2, ShapeStays DEF DetailShape, DetailTypeOK
<1>4. BothKnow'
  BY <1>1, KnowStays
<1>5. AloneNothingDoubles'
  BY <1>1, RowsStayApart
<1>6. IndicesBounded'
  BY <1>1, StaysBounded
<1>7. \A j \in DetailCall : SlotOK(j)'
  BY <1>1, <1>2, SlotStays
<1> QED
  BY <1>3, <1>4, <1>5, <1>6, <1>7 DEF DetailInv, DetailRest

LEMMA RowsOnlyThin ==
  ASSUME DetailInv, Thinned, details' \in [Row -> DetailRow \cup {NoRow, UsedRow}],
         calls' = calls, crossed' = crossed, cardGone' \in BOOLEAN, served' \in 0..MaxDetailCalls,
         detailFails' = detailFails
  PROVE  DetailInv'
<1>1. DetailShape /\ BothKnow /\ AloneNothingDoubles /\ IndicesBounded /\ \A j \in DetailCall : SlotOK(j)
  BY DEF DetailInv, DetailRest
<1>3. DetailShape'
  BY <1>1, ShapeStays DEF DetailShape, DetailTypeOK
<1>4. BothKnow'
  BY <1>1 DEF BothKnow, Looking
<1>5. AloneNothingDoubles'
  BY <1>1, RowsStayApart
<1>6. IndicesBounded'
  BY <1>1, StaysBounded
<1>7. \A j \in DetailCall : SlotOK(j)'
  BY <1>1, SlotStays
<1> QED
  BY <1>3, <1>4, <1>5, <1>6, <1>7 DEF DetailInv, DetailRest

\* A call comes in and looks for something: those that look for it too learn of it.
LEMMA EnterKeeps ==
  ASSUME DetailInv, NEW k \in DetailCall, NEW q \in DetailSlot, q.alone = TRUE,
         \/ q.pc = "find timer"
         \/ q.pc = "halt" /\ q.table = "time"
         \/ q.pc = "find" /\ q.table = "value"
         \/ q.pc = "last" /\ q.table \in {"item", "def"},
         Enter(k, q)
  PROVE  DetailInv'
<1>0. DetailShape /\ BothKnow /\ AloneNothingDoubles /\ IndicesBounded /\ \A j \in DetailCall : SlotOK(j)
  BY DEF DetailInv, DetailRest
<1> DEFINE met == {j \in DetailCall : calls[j].pc \notin {"idle", "find timer"} /\ keyOfCall(calls[j]) = keyOfCall(q)}
<1>1. /\ calls[k].pc = "idle" /\ served < MaxDetailCalls /\ served' = served + 1
      /\ details' = details /\ cardGone' = cardGone /\ detailFails' = detailFails
  BY DEF Enter
<1>2. \A x : x \in crossed => x \in crossed'
  BY DEF Enter
<1>3. Thinned
  BY <1>1 DEF Thinned
<1>4. AloneNothingDoubles' /\ IndicesBounded'
  BY <1>0, <1>2, <1>3, RowsStayApart, StaysBounded
<1>5. \/ /\ q.pc = "find timer" \/ met = {}
         /\ \A j \in DetailCall : calls'[j] = IF j = k THEN q ELSE calls[j]
         /\ crossed' = crossed
      \/ /\ \A j \in DetailCall : calls'[j] = IF j = k THEN [q EXCEPT !.alone = FALSE]
                                                ELSE IF j \in met THEN [calls[j] EXCEPT !.alone = FALSE]
                                                ELSE calls[j]
         /\ keyOfCall(q) \in crossed'
  BY <1>0 DEF Enter, DetailShape
<1>6. /\ [q EXCEPT !.alone = FALSE] \in DetailSlot
      /\ [q EXCEPT !.alone = FALSE].pc = q.pc /\ [q EXCEPT !.alone = FALSE].alone = FALSE
      /\ [q EXCEPT !.alone = FALSE].table = q.table /\ [q EXCEPT !.alone = FALSE].of = q.of
      /\ [q EXCEPT !.alone = FALSE].row = q.row /\ [q EXCEPT !.alone = FALSE].n = q.n
  BY DEF DetailSlot
<1>7. \A j \in DetailCall :
        /\ calls[j] \in DetailSlot /\ [calls[j] EXCEPT !.alone = FALSE] \in DetailSlot
        /\ [calls[j] EXCEPT !.alone = FALSE].pc = calls[j].pc /\ [calls[j] EXCEPT !.alone = FALSE].alone = FALSE
        /\ [calls[j] EXCEPT !.alone = FALSE].table = calls[j].table /\ [calls[j] EXCEPT !.alone = FALSE].of = calls[j].of
        /\ [calls[j] EXCEPT !.alone = FALSE].row = calls[j].row /\ [calls[j] EXCEPT !.alone = FALSE].n = calls[j].n
  BY <1>0 DEF DetailShape, DetailSlot
<1>8. DetailShape'
  <2>1. DOMAIN calls' = DetailCall /\ calls' = [j \in DetailCall |-> calls'[j]]
    BY <1>0 DEF Enter, DetailShape
  <2>2. \A j \in DetailCall : calls'[j] \in DetailSlot
    BY ONLY q \in DetailSlot, <1>5, <1>6, <1>7
  <2>3. calls' \in [DetailCall -> DetailSlot]
    BY <2>1, <2>2
  <2>4. served' \in 0..MaxDetailCalls
    <3>1. served \in 0..MaxDetailCalls /\ MaxDetailCalls \in Nat
      BY <1>0, DetailConstants DEF DetailShape, DetailTypeOK
    <3> QED
      BY ONLY <1>1, <3>1
  <2> QED
    BY <1>0, <1>1, <2>3, <2>4, ShapeStays DEF DetailShape, DetailTypeOK
\* Only the one that enters is new; the others may have lost their solitude.
<1>9. \A j \in DetailCall : j # k =>
        /\ calls'[j].pc = calls[j].pc /\ calls'[j].table = calls[j].table /\ calls'[j].of = calls[j].of
        /\ calls'[j].row = calls[j].row /\ calls'[j].n = calls[j].n
        /\ \/ calls'[j].alone = calls[j].alone
           \/ ~calls'[j].alone /\ keyOfCall(calls[j]) \in crossed'
  BY <1>2, <1>5, <1>7
<1>10. calls'[k].pc = q.pc /\ calls'[k].table = q.table /\ calls'[k].of = q.of
        /\ (~calls'[k].alone => keyOfCall(q) \in crossed')
  BY <1>5, <1>6
<1>11. SlotOK(k)'
  <2>1. q.pc \notin {"insert", "update"}
    OBVIOUS
  <2>2. /\ q.pc = "halt" => q.table = "time"
        /\ q.pc = "find" => q.table = "value"
        /\ q.pc = "last" => q.table \in {"item", "def"}
    OBVIOUS
  <2> QED
    BY ONLY <1>10, <2>1, <2>2 DEF SlotOK, keyOfCall
<1>12. ASSUME NEW j \in DetailCall, j # k PROVE SlotOK(j)'
  <2>0. PICK p : p = calls[j]
    OBVIOUS
  <2>1. PICK x : x = calls'[j]
    OBVIOUS
  <2>2. /\ x.pc = p.pc /\ x.table = p.table /\ x.of = p.of /\ x.row = p.row /\ x.n = p.n
        /\ x.alone = p.alone \/ (~x.alone /\ keyOfCall(p) \in crossed')
    BY <1>9, <1>12, <2>0, <2>1
  <2>3. keyOfCall(x) = keyOfCall(p)
    BY <2>2 DEF keyOfCall
  <2>4. /\ p.pc = "halt" => p.table = "time"
        /\ p.pc = "find" => p.table = "value"
        /\ p.pc = "last" => p.table \in {"item", "def"}
        /\ Looking(j) /\ ~p.alone => keyOfCall(p) \in crossed
        /\ p.pc = "insert" =>
             /\ p.table = "time" => p.n = 1 /\ (p.alone => Running(p.of) = {})
             /\ p.table = "value" /\ keyOfCall(p) \notin crossed => RowsIn("value", p.of) = {}
             /\ p.table \in {"item", "def"} /\ keyOfCall(p) \notin crossed =>
                  \A r \in RowsIn(p.table, p.of) : details[r].n < p.n
        /\ p.pc = "update" => /\ p.row \in Row /\ details[p.row] # NoRow
                              /\ stored(p.row) => details[p.row].table \in {"time", "value"}
    BY <1>0, <2>0 DEF SlotOK
  <2>5. /\ \A t, o : RowsIn(t, o)' = RowsIn(t, o)
        /\ \A u : Running(u)' = Running(u)
        /\ \A r : stored(r)' <=> stored(r)
    BY <1>1 DEF RowsIn, Running, stored
  <2>6. (Looking(j)' <=> Looking(j)) /\ details' = details
    BY <1>1, <2>0, <2>1, <2>2 DEF Looking
  <2>7. (x.alone => p.alone) /\ (Looking(j) /\ ~x.alone => keyOfCall(p) \in crossed')
    BY <1>0, <1>2, <2>0, <2>1, <2>2, <2>4, <1>7, <1>8 DEF DetailShape, DetailSlot
  <2>8. p.pc = "insert" =>
             /\ p.table = "time" => p.n = 1 /\ (x.alone => Running(p.of) = {})
             /\ p.table = "value" /\ keyOfCall(p) \notin crossed' => RowsIn("value", p.of) = {}
             /\ p.table \in {"item", "def"} /\ keyOfCall(p) \notin crossed' =>
                  \A r \in RowsIn(p.table, p.of) : details[r].n < p.n
    BY ONLY <1>2, <2>4, <2>7
  <2>9. /\ x.pc = "halt" => x.table = "time"
        /\ x.pc = "find" => x.table = "value"
        /\ x.pc = "last" => x.table \in {"item", "def"}
        /\ Looking(j)' /\ ~x.alone => keyOfCall(x) \in crossed'
    BY ONLY <2>2, <2>3, <2>4, <2>6, <2>7
  <2>10. x.pc = "insert" =>
             /\ x.table = "time" => x.n = 1 /\ (x.alone => Running(x.of)' = {})
             /\ x.table = "value" /\ keyOfCall(x) \notin crossed' => RowsIn("value", x.of)' = {}
             /\ x.table \in {"item", "def"} /\ keyOfCall(x) \notin crossed' =>
                  \A r \in RowsIn(x.table, x.of)' : details'[r].n < x.n
    BY ONLY <2>2, <2>3, <2>5, <2>6, <2>8
  <2>11. x.pc = "update" => /\ x.row \in Row /\ details'[x.row] # NoRow
                            /\ stored(x.row)' => details'[x.row].table \in {"time", "value"}
    BY ONLY <2>2, <2>4, <2>5, <2>6
  <2> QED
    BY ONLY <2>1, <2>9, <2>10, <2>11 DEF SlotOK
<1>13. BothKnow'
  <2> SUFFICES ASSUME NEW i \in DetailCall, NEW j \in DetailCall, i # j, Looking(i)', Looking(j)',
                      keyOfCall(calls'[i]) = keyOfCall(calls'[j])
               PROVE  ~calls'[i].alone
    BY DEF BothKnow
  <2>1. \A h \in DetailCall : h # k =>
          /\ Looking(h)' <=> Looking(h)
          /\ keyOfCall(calls'[h]) = keyOfCall(calls[h])
          /\ ~calls[h].alone => ~calls'[h].alone
    <3>1. \A h \in DetailCall : h # k =>
            (Looking(h)' <=> Looking(h)) /\ keyOfCall(calls'[h]) = keyOfCall(calls[h])
      BY ONLY <1>9 DEF Looking, keyOfCall
    <3>2. \A h \in DetailCall : h # k => (~calls[h].alone => ~calls'[h].alone)
      BY <1>9
    <3> QED
      BY <3>1, <3>2
  <2>2. CASE i # k /\ j # k
    BY <1>0, <2>1, <2>2 DEF BothKnow
  <2>3. ASSUME NEW h \in DetailCall, h # k, Looking(h)', Looking(k)', keyOfCall(calls'[h]) = keyOfCall(calls'[k])
        PROVE  ~calls'[h].alone /\ ~calls'[k].alone
    <3>1. keyOfCall(calls[h]) = keyOfCall(q) /\ Looking(h) /\ q.pc # "find timer"
      BY <1>10, <2>1, <2>3 DEF keyOfCall, Looking
    <3>2. h \in met
      BY <3>1 DEF Looking
    <3>3. \A g \in DetailCall : calls'[g] = IF g = k THEN [q EXCEPT !.alone = FALSE]
                                                ELSE IF g \in met THEN [calls[g] EXCEPT !.alone = FALSE]
                                                ELSE calls[g]
      BY ONLY <1>5, <3>1, <3>2
    <3> HIDE DEF met
    <3> QED
      BY <1>6, <1>7, <2>3, <3>2, <3>3
  <2> QED
    BY <2>2, <2>3
<1> QED
  BY <1>4, <1>8, <1>11, <1>12, <1>13 DEF DetailInv, DetailRest

\* A row is added, while the others of its key know of it.
LEMMA RowComes ==
  ASSUME DetailInv, NEW table, NEW of, NEW n \in Nat, Grown(table, of, n),
         details' \in [Row -> DetailRow \cup {NoRow, UsedRow}],
         \A x : x # <<table, of>> => (x \in crossed' <=> x \in crossed),
         <<table, of>> \notin crossed' =>
           \/ table = "link"
           \/ table = "time" /\ Running(of) = {}
           \/ <<table, of>> \notin crossed /\ table = "value" /\ RowsIn("value", of) = {}
           \/ <<table, of>> \notin crossed /\ table \in {"item", "def"} /\ \A r \in RowsIn(table, of) : details[r].n < n,
         calls' \in [DetailCall -> DetailSlot],
         \A j \in DetailCall :
           \/ calls'[j] = NoCall
           \/ /\ calls'[j] = calls[j]
              /\ keyOfCall(calls[j]) = <<table, of>> /\ Looking(j) => ~calls[j].alone /\ keyOfCall(calls[j]) \in crossed',
         cardGone' = cardGone, served' \in 0..MaxDetailCalls, detailFails' = detailFails
  PROVE  DetailInv'
<1>1. DetailShape /\ BothKnow /\ AloneNothingDoubles /\ IndicesBounded /\ \A j \in DetailCall : SlotOK(j)
  BY DEF DetailInv, DetailRest
<1>2. DetailShape'
  BY <1>1, ShapeStays DEF DetailShape, DetailTypeOK
<1>3. AloneNothingDoubles'
  BY <1>1, NewRowApart
<1>4. IndicesBounded'
  BY <1>1, GrowsBounded
<1>5. ASSUME NEW j \in DetailCall PROVE SlotOK(j)'
  <2>1. CASE calls'[j] = NoCall
    BY <2>1 DEF NoCall, SlotOK, Looking
  <2>2. CASE calls'[j] = calls[j] /\ (keyOfCall(calls[j]) = <<table, of>> /\ Looking(j) => ~calls[j].alone /\ keyOfCall(calls[j]) \in crossed')
    <3>1. SlotOK(j) /\ calls'[j] = calls[j]
      BY <1>1, <2>2
    <3>2. keyOfCall(calls[j]) # <<table, of>> => (keyOfCall(calls[j]) \in crossed' <=> keyOfCall(calls[j]) \in crossed)
      OBVIOUS
    <3>3. keyOfCall(calls[j]) = <<table, of>> /\ Looking(j) => ~calls[j].alone /\ keyOfCall(calls[j]) \in crossed'
      BY <2>2
    <3> QED
      BY <1>1, <3>1, <3>2, <3>3, SlotSees
  <2> QED
    BY <2>1, <2>2
<1>6. BothKnow'
  <2>1. \A j \in DetailCall : Looking(j)' => Looking(j) /\ calls'[j] = calls[j]
    BY DEF Looking, NoCall
  <2> QED
    BY ONLY <1>1, <2>1 DEF BothKnow
<1> QED
  BY <1>2, <1>3, <1>4, <1>5, <1>6 DEF DetailInv, DetailRest

LEMMA AddGrows ==
  ASSUME DetailShape, NEW table \in {"time", "item", "def", "value", "link"}, NEW of \in RowOwner, NEW n \in Nat,
         Add(table, of, n)
  PROVE  /\ Grown(table, of, n)
         /\ details' \in [Row -> DetailRow \cup {NoRow, UsedRow}]
<1>1. CASE details' = details
  BY <1>1 DEF Grown, DetailShape
<1>2. CASE details' # details
  <2>1. PICK r \in Row : /\ details[r] = NoRow
                         /\ details' = [details EXCEPT ![r] = [table |-> table, of |-> of, n |-> n]]
    BY <1>2 DEF Add
  <2>2. [table |-> table, of |-> of, n |-> n] \in DetailRow
    BY DEF DetailRow, RowOwner
  <2>3. details' \in [Row -> DetailRow \cup {NoRow, UsedRow}]
    BY <2>1, <2>2 DEF DetailShape
  <2>4. details'[r] = [table |-> table, of |-> of, n |-> n] /\ \A s \in Row : s # r => details'[s] = details[s]
    BY <2>1 DEF DetailShape
  <2> QED
    BY <2>1, <2>2, <2>3, <2>4 DEF Grown
<1> QED
  BY <1>1, <1>2

LEMMA InsertKeeps ==
  ASSUME DetailInv, NEW k \in DetailCall, InsertRow(k)
  PROVE  DetailInv'
<1>0. DetailShape /\ BothKnow /\ AloneNothingDoubles /\ IndicesBounded /\ \A j \in DetailCall : SlotOK(j)
  BY DEF DetailInv, DetailRest
<1>1. PICK q : q = calls[k]
  OBVIOUS
<1>2. /\ q.pc = "insert" /\ q \in DetailSlot /\ SlotOK(k)
      /\ Add(q.table, q.of, q.n)
      /\ calls' = [calls EXCEPT ![k] = NoCall]
      /\ cardGone' = cardGone /\ served' = served /\ detailFails' = detailFails
      /\ crossed' = IF q.table = "time" /\ q.alone THEN crossed \ {keyOfCall(q)} ELSE crossed
  BY <1>0, <1>1 DEF InsertRow, Proceed, DetailShape
<1>3. /\ q.table \in {"time", "item", "def", "value"} /\ q.of \in RowOwner /\ q.n \in Nat /\ q.alone \in BOOLEAN
      /\ keyOfCall(q) = <<q.table, q.of>>
  BY <1>2 DEF DetailSlot, keyOfCall
<1>4. Grown(q.table, q.of, q.n) /\ details' \in [Row -> DetailRow \cup {NoRow, UsedRow}]
  BY <1>0, <1>2, <1>3, AddGrows
<1>5. /\ ~q.alone => keyOfCall(q) \in crossed
      /\ q.table = "time" => q.n = 1 /\ (q.alone => Running(q.of) = {})
      /\ q.table = "value" /\ keyOfCall(q) \notin crossed => RowsIn("value", q.of) = {}
      /\ q.table \in {"item", "def"} /\ keyOfCall(q) \notin crossed =>
                \A r \in RowsIn(q.table, q.of) : details[r].n < q.n
  BY <1>1, <1>2 DEF SlotOK, Looking
<1>6. \A x : x # <<q.table, q.of>> => (x \in crossed' <=> x \in crossed)
  BY ONLY <1>2, <1>3
<1>7. <<q.table, q.of>> \notin crossed' =>
           \/ q.table = "link"
           \/ q.table = "time" /\ Running(q.of) = {}
           \/ <<q.table, q.of>> \notin crossed /\ q.table = "value" /\ RowsIn("value", q.of) = {}
           \/ <<q.table, q.of>> \notin crossed /\ q.table \in {"item", "def"} /\ \A r \in RowsIn(q.table, q.of) : details[r].n < q.n
  BY ONLY <1>2, <1>3, <1>5
<1>8. NoCall \in DetailSlot /\ calls' \in [DetailCall -> DetailSlot]
  <2>1. NoCall \in DetailSlot
    BY DEF NoCall, DetailSlot, RowOwner
  <2> QED
    BY <1>0, <1>2, <2>1 DEF DetailShape
<1>9. ASSUME NEW j \in DetailCall
      PROVE  \/ calls'[j] = NoCall
             \/ /\ calls'[j] = calls[j]
                /\ keyOfCall(calls[j]) = <<q.table, q.of>> /\ Looking(j) => ~calls[j].alone /\ keyOfCall(calls[j]) \in crossed'
  <2>1. CASE j = k
    BY <1>0, <1>2, <2>1 DEF DetailShape
  <2>2. CASE j # k
    <3>1. calls'[j] = calls[j]
      BY <1>0, <1>2, <2>2 DEF DetailShape
    <3>2. ASSUME keyOfCall(calls[j]) = <<q.table, q.of>>, Looking(j)
          PROVE  ~calls[j].alone /\ keyOfCall(calls[j]) \in crossed'
      <4>1. Looking(k)
        BY <1>1, <1>2 DEF Looking
      <4>2. ~calls[j].alone /\ ~q.alone
        BY <1>0, <1>1, <1>3, <2>2, <3>2, <4>1 DEF BothKnow
      <4> QED
        BY ONLY <1>2, <1>3, <1>5, <3>2, <4>2
    <3> QED
      BY <3>1, <3>2
  <2> QED
    BY <2>1, <2>2
<1>10. served' \in 0..MaxDetailCalls
  BY <1>0, <1>2 DEF DetailShape, DetailTypeOK
<1> QED
  BY <1>2, <1>3, <1>4, <1>6, <1>7, <1>8, <1>9, <1>10, RowComes

LEMMA AssignKeeps == ASSUME DetailInv, AssignLabel PROVE DetailInv'
<1>0. DetailShape /\ \A j \in DetailCall : SlotOK(j)
  BY DEF DetailInv, DetailRest
<1>1. PICK t \in Tag : Add("link", t, 0)
  BY DEF AssignLabel
<1>2. /\ served < MaxDetailCalls /\ served' = served + 1 /\ cardGone' = cardGone
      /\ calls' = calls /\ detailFails' = detailFails /\ crossed' = crossed
  BY DEF AssignLabel, AtOnce
<1>3. "link" \in {"time", "item", "def", "value", "link"} /\ t \in RowOwner /\ 0 \in Nat
  BY DEF RowOwner
<1>4. Grown("link", t, 0) /\ details' \in [Row -> DetailRow \cup {NoRow, UsedRow}]
  BY <1>0, <1>1, <1>3, AddGrows
<1>5. served' \in 0..MaxDetailCalls
  <2>1. served \in 0..MaxDetailCalls /\ MaxDetailCalls \in Nat
    BY <1>0, DetailConstants DEF DetailShape, DetailTypeOK
  <2> QED
    BY ONLY <1>2, <2>1
<1>6. calls' \in [DetailCall -> DetailSlot]
  BY <1>0, <1>2 DEF DetailShape
<1>7. \A j \in DetailCall :
        /\ calls'[j] = calls[j]
        /\ keyOfCall(calls[j]) = <<"link", t>> /\ Looking(j) => ~calls[j].alone /\ keyOfCall(calls[j]) \in crossed'
  <2>1. \A j \in DetailCall : calls[j].table # "link"
    BY <1>0 DEF DetailShape, DetailSlot
  <2> QED
    BY <1>2, <2>1 DEF keyOfCall
<1> QED
  BY <1>2, <1>3, <1>4, <1>5, <1>6, <1>7, RowComes

\* What Without leaves behind.
LEMMA WithoutThins ==
  ASSUME DetailShape, NEW S \in SUBSET Row, \A r \in S : stored(r), Without(S)
  PROVE  Thinned /\ details' \in [Row -> DetailRow \cup {NoRow, UsedRow}]
<1>1. \A r \in Row : \/ details'[r] = details[r]
                     \/ stored(r) /\ details'[r] = UsedRow
  BY DEF Without
<1>2. Thinned
  BY <1>1 DEF Thinned, stored
<1> QED
  BY <1>2 DEF Without, DetailShape

LEMMA DropKeeps == ASSUME DetailInv, RemoveRows \/ DropCard PROVE DetailInv'
<1>0. DetailShape
  BY DEF DetailInv
<1>1. /\ served < MaxDetailCalls /\ served' = served + 1 /\ cardGone' \in BOOLEAN
      /\ calls' = calls /\ detailFails' = detailFails /\ crossed' = crossed
  BY <1>0 DEF RemoveRows, DropCard, AtOnce, DetailShape, DetailTypeOK
<1>2. Thinned /\ details' \in [Row -> DetailRow \cup {NoRow, UsedRow}]
  <2>1. CASE RemoveRows
    <3>1. PICK r \in Row : /\ stored(r)
                           /\ Without(IF details[r].table = "link" THEN RowsIn("link", details[r].of) ELSE {r})
      BY <2>1 DEF RemoveRows
    <3> DEFINE S == IF details[r].table = "link" THEN RowsIn("link", details[r].of) ELSE {r}
    <3>2. S \in SUBSET Row /\ \A s \in S : stored(s)
      BY <3>1 DEF RowsIn
    <3>3. Without(S)
      BY <3>1
    <3> HIDE DEF S
    <3> QED
      BY <1>0, <3>2, <3>3, WithoutThins
  <2>2. CASE DropCard
    <3> DEFINE S == {r \in Row : stored(r) /\ details[r].table # "def"}
    <3>1. Without(S)
      BY <2>2 DEF DropCard
    <3>2. S \in SUBSET Row /\ \A s \in S : stored(s)
      OBVIOUS
    <3> HIDE DEF S
    <3> QED
      BY <1>0, <3>1, <3>2, WithoutThins
  <2> QED
    BY <2>1, <2>2
<1>3. served' \in 0..MaxDetailCalls
  <2>1. served \in 0..MaxDetailCalls /\ MaxDetailCalls \in Nat
    BY <1>0, DetailConstants DEF DetailShape, DetailTypeOK
  <2> QED
    BY ONLY <1>1, <2>1
<1> QED
  BY <1>1, <1>2, <1>3, RowsOnlyThin

LEMMA HaltKeeps == ASSUME DetailInv, NEW k \in DetailCall, HaltTimers(k) PROVE DetailInv'
<1>0. DetailShape /\ \A j \in DetailCall : SlotOK(j)
  BY DEF DetailInv, DetailRest
<1>1. PICK q : q = calls[k]
  OBVIOUS
<1> DEFINE to == [q EXCEPT !.pc = "insert", !.n = 1]
<1>2. /\ q.pc = "halt" /\ q \in DetailSlot /\ SlotOK(k)
      /\ details' = [r \in Row |-> IF r \in Running(q.of) THEN [details[r] EXCEPT !.n = 0] ELSE details[r]]
      /\ calls' = [calls EXCEPT ![k] = to]
      /\ cardGone' = cardGone /\ served' = served /\ detailFails' = detailFails /\ crossed' = crossed
  BY <1>0, <1>1 DEF HaltTimers, Proceed, DetailShape
<1>3. to \in DetailSlot /\ to.pc = "insert" /\ to.n = 1 /\ to.table = q.table /\ to.of = q.of /\ to.alone = q.alone
  BY <1>2 DEF DetailSlot
<1>4. q.table = "time" /\ (~q.alone => keyOfCall(q) \in crossed) /\ Looking(k)
  BY <1>1, <1>2 DEF SlotOK, Looking
<1>5. \A r \in Running(q.of) : stored(r) /\ details[r] \in DetailRow /\ details[r].table = "time" /\ r \in Row
  BY <1>0 DEF Running, RowsIn, stored, DetailShape
<1>6. \A r \in Running(q.of) :
        /\ details'[r] \in DetailRow /\ details'[r].table = details[r].table
        /\ details'[r].of = details[r].of /\ details'[r].n = 0
  <2> SUFFICES ASSUME NEW r \in Running(q.of)
               PROVE  /\ details'[r] \in DetailRow /\ details'[r].table = details[r].table
                      /\ details'[r].of = details[r].of /\ details'[r].n = 0
    OBVIOUS
  <2>1. details'[r] = [details[r] EXCEPT !.n = 0] /\ details[r] \in DetailRow
    BY <1>2, <1>5
  <2> QED
    BY ONLY <2>1 DEF DetailRow
<1>7. \A r \in Row : r \notin Running(q.of) => details'[r] = details[r]
  BY <1>2
<1>8. Thinned
  <2> SUFFICES ASSUME NEW r \in Row
               PROVE  \/ details'[r] = details[r]
                      \/ /\ stored(r) /\ details[r].table \in {"time", "value"}
                         /\ details'[r] \in DetailRow
                         /\ details'[r].table = details[r].table /\ details'[r].of = details[r].of /\ details'[r].n = 0
    BY DEF Thinned
  <2> QED
    BY ONLY r \in Row, <1>5, <1>6, <1>7
<1>9. details' \in [Row -> DetailRow \cup {NoRow, UsedRow}]
  <2>1. \A r \in Row : details'[r] \in DetailRow \cup {NoRow, UsedRow}
    BY <1>0, <1>6, <1>7 DEF DetailShape
  <2> QED
    BY <1>2, <2>1
<1>10. Running(q.of)' = {}
  <2> SUFFICES ASSUME NEW r \in Running(q.of)' PROVE FALSE
    OBVIOUS
  <2>1. r \in Row /\ details'[r].n = 1
    BY DEF Running, RowsIn
  <2>2. r \in Running(q.of)
    BY <1>0, <1>8, <2>1, ThinnedRows
  <2> QED
    BY <1>6, <2>1, <2>2
<1>11. calls'[k] = to
  BY <1>0, <1>2 DEF DetailShape
<1> HIDE DEF to
<1>12. SlotOK(k)'
  <2>1. keyOfCall(to) = keyOfCall(q)
    BY <1>3 DEF keyOfCall
  <2> QED
    BY ONLY <1>2, <1>3, <1>4, <1>10, <1>11, <2>1 DEF SlotOK
<1>13. /\ to.pc \in {"halt", "find", "last", "insert"} =>
            Looking(k) /\ keyOfCall(to) = keyOfCall(calls[k]) /\ to.alone = calls[k].alone
       /\ detailFails' \in 0..MaxDetailFails
  BY <1>0, <1>1, <1>2, <1>3, <1>4 DEF keyOfCall, DetailShape, DetailTypeOK
<1> QED
  BY <1>2, <1>3, <1>8, <1>9, <1>12, <1>13, CallGoesOn

\* One call goes on, and the tables stay.
LEMMA CallReads ==
  ASSUME DetailInv, NEW k \in DetailCall, NEW q \in DetailSlot, calls' = [calls EXCEPT ![k] = q],
         q.pc \in {"halt", "find", "last", "insert"} =>
           Looking(k) /\ keyOfCall(q) = keyOfCall(calls[k]) /\ q.alone = calls[k].alone,
         details' = details, crossed' = crossed, cardGone' = cardGone, served' = served,
         detailFails' \in 0..MaxDetailFails,
         q.pc = "insert" =>
           \/ q.table = "value" /\ RowsIn("value", q.of) = {}
           \/ q.table \in {"item", "def"} /\ \A r \in RowsIn(q.table, q.of) : details[r].n < q.n,
         q.pc = "update" => q.row \in Row /\ stored(q.row) /\ details[q.row].table \in {"time", "value"},
         q.pc \in {"idle", "insert", "update"}
  PROVE  DetailInv'
<1>1. DetailShape /\ \A j \in DetailCall : SlotOK(j)
  BY DEF DetailInv, DetailRest
<1>2. Thinned
  BY DEF Thinned
<1>3. details' \in [Row -> DetailRow \cup {NoRow, UsedRow}]
  BY <1>1 DEF DetailShape
<1>4. /\ \A t, o : RowsIn(t, o)' = RowsIn(t, o)
      /\ \A r : stored(r)' <=> stored(r)
  BY DEF RowsIn, stored
<1>5. calls'[k] = q
  BY <1>1 DEF DetailShape
<1>6. q.pc = "insert" /\ ~q.alone => keyOfCall(q) \in crossed
  BY <1>1 DEF SlotOK
<1>7. q.pc = "update" => details[q.row] # NoRow
  BY DEF stored
<1>8. q.pc = "insert" =>
           /\ q.table # "time"
           /\ q.table = "value" => RowsIn("value", q.of) = {}
           /\ q.table \in {"item", "def"} => \A r \in RowsIn(q.table, q.of) : details[r].n < q.n
  OBVIOUS
<1>9. /\ details' = details /\ crossed' = crossed /\ q.pc \in {"idle", "insert", "update"}
      /\ q.pc = "update" => q.row \in Row /\ stored(q.row) /\ details[q.row].table \in {"time", "value"}
  OBVIOUS
<1>10. SlotOK(k)'
  BY ONLY <1>4, <1>5, <1>6, <1>7, <1>8, <1>9 DEF SlotOK, Looking
<1> QED
  BY <1>2, <1>3, <1>10, CallGoesOn

LEMMA LookUpKeeps == ASSUME DetailInv, NEW k \in DetailCall, LookUp(k) PROVE DetailInv'
<1>0. DetailShape /\ \A j \in DetailCall : SlotOK(j)
  BY DEF DetailInv, DetailRest
<1>1. PICK q : q = calls[k]
  OBVIOUS
<1> DEFINE here == IF q.pc = "find timer" THEN Running(q.of) ELSE RowsIn(q.table, q.of)
<1>2. /\ q.pc \in {"find", "find timer"} /\ q \in DetailSlot /\ SlotOK(k)
      /\ details' = details /\ crossed' = crossed
      /\ cardGone' = cardGone /\ served' = served /\ detailFails' = detailFails
      /\ IF here # {} THEN \E r \in here : calls' = [calls EXCEPT ![k] = [q EXCEPT !.pc = "update", !.row = r]]
         ELSE calls' = [calls EXCEPT ![k] = IF q.pc = "find" THEN [q EXCEPT !.pc = "insert"] ELSE NoCall]
  BY <1>0, <1>1 DEF LookUp, Proceed, DetailShape
<1>3. detailFails' \in 0..MaxDetailFails
  BY <1>0, <1>2 DEF DetailShape, DetailTypeOK
<1>4. q.pc = "find" => q.table = "value" /\ Looking(k)
  BY <1>1, <1>2 DEF SlotOK, Looking
<1>5. CASE here # {}
  <2>1. PICK r \in here : calls' = [calls EXCEPT ![k] = [q EXCEPT !.pc = "update", !.row = r]]
    BY <1>2, <1>5
  <2>2. r \in Row /\ stored(r) /\ details[r].table \in {"time", "value"}
    BY <1>2, <1>4 DEF Running, RowsIn
  <2>3. /\ [q EXCEPT !.pc = "update", !.row = r] \in DetailSlot
        /\ [q EXCEPT !.pc = "update", !.row = r].pc = "update" /\ [q EXCEPT !.pc = "update", !.row = r].row = r
    BY <1>2, <2>2 DEF DetailSlot
  <2> HIDE DEF here
  <2>4. PICK to : to = [q EXCEPT !.pc = "update", !.row = r]
    OBVIOUS
  <2> QED
    BY <1>2, <1>3, <2>1, <2>2, <2>3, <2>4, CallReads
<1>6. CASE here = {} /\ q.pc = "find"
  <2>1. calls' = [calls EXCEPT ![k] = [q EXCEPT !.pc = "insert"]]
    BY <1>2, <1>6
  <2>2. PICK to : to = [q EXCEPT !.pc = "insert"]
    OBVIOUS
  <2>3. to \in DetailSlot /\ to.pc = "insert" /\ to.table = q.table /\ to.of = q.of /\ to.alone = q.alone
    BY <1>2, <2>2 DEF DetailSlot
  <2>4. to.table = "value" /\ RowsIn("value", to.of) = {}
    BY <1>4, <1>6, <2>3
  <2>5. Looking(k) /\ keyOfCall(to) = keyOfCall(calls[k]) /\ to.alone = calls[k].alone
    BY <1>1, <1>4, <1>6, <2>3 DEF keyOfCall
  <2> HIDE DEF here
  <2> QED
    BY <1>2, <1>3, <2>1, <2>2, <2>3, <2>4, <2>5, CallReads
<1>7. CASE here = {} /\ q.pc # "find"
  <2>1. calls' = [calls EXCEPT ![k] = NoCall]
    BY <1>2, <1>7
  <2>2. NoCall \in DetailSlot /\ NoCall.pc = "idle"
    BY DEF NoCall, DetailSlot, RowOwner
  <2> HIDE DEF here
  <2> QED
    BY <1>2, <1>3, <2>1, <2>2, CallReads
<1> QED
  BY <1>5, <1>6, <1>7

LEMMA ReadLastKeeps == ASSUME DetailInv, NEW k \in DetailCall, ReadLast(k) PROVE DetailInv'
<1>0. DetailShape /\ IndicesBounded /\ \A j \in DetailCall : SlotOK(j)
  BY DEF DetailInv, DetailRest
<1>1. PICK q : q = calls[k]
  OBVIOUS
<1> DEFINE indices == {details[r].n : r \in RowsIn(q.table, q.of)}
           last    == IF indices = {} THEN 0 ELSE CHOOSE n \in indices : \A i \in indices : i <= n
<1>2. /\ q.pc = "last" /\ q \in DetailSlot /\ SlotOK(k)
      /\ details' = details /\ crossed' = crossed
      /\ cardGone' = cardGone /\ served' = served /\ detailFails' = detailFails
      /\ calls' = [calls EXCEPT ![k] = [q EXCEPT !.pc = "insert", !.n = last + 1]]
  BY <1>0, <1>1 DEF ReadLast, Proceed, DetailShape
<1>3. detailFails' \in 0..MaxDetailFails
  BY <1>0, <1>2 DEF DetailShape, DetailTypeOK
<1>4. q.table \in {"item", "def"} /\ Looking(k)
  BY <1>1, <1>2 DEF SlotOK, Looking
<1>5. last \in Nat /\ \A i \in indices : i <= last
  <2>1. CASE indices = {}
    BY <2>1
  <2>2. CASE indices # {}
    <3>1. \A r \in RowsIn(q.table, q.of) : stored(r) /\ r \in Row /\ details[r].n \in Nat
      BY <1>0 DEF RowsIn, stored, DetailShape, DetailRow
    <3>2. PICK m \in Nat : \A i \in indices : i <= m
      BY <1>0, <3>1 DEF IndicesBounded
    <3>3. indices \in SUBSET Nat
      BY <3>1
    <3>4. \E n \in indices : \A i \in indices : i <= n
      <4> HIDE DEF indices
      <4> QED
        BY <2>2, <3>2, <3>3, BoundedHasGreatest
    <3>5. last = CHOOSE n \in indices : \A i \in indices : i <= n
      BY <2>2
    <3> HIDE DEF indices, last
    <3>6. last \in indices /\ \A i \in indices : i <= last
      BY <3>4, <3>5
    <3> QED
      BY <3>3, <3>6
  <2> QED
    BY <2>1, <2>2
<1>6. \A r \in RowsIn(q.table, q.of) : details[r].n \in indices /\ details[r].n \in Nat
  BY <1>0 DEF RowsIn, stored, DetailShape, DetailRow
<1>7. PICK m \in Nat : m = last
  <2> HIDE DEF indices, last
  <2> QED
    BY ONLY <1>5
<1>8. PICK to : to = [q EXCEPT !.pc = "insert", !.n = m + 1]
  OBVIOUS
<1>9. calls' = [calls EXCEPT ![k] = to]
  <2> HIDE DEF indices, last
  <2> QED
    BY ONLY <1>2, <1>7, <1>8
<1>10. \A r \in RowsIn(q.table, q.of) : details[r].n < m + 1
  <2> HIDE DEF indices, last
  <2> QED
    BY <1>5, <1>6, <1>7
<1> HIDE DEF indices, last
<1>11. to \in DetailSlot /\ to.pc = "insert" /\ to.table = q.table /\ to.of = q.of /\ to.alone = q.alone /\ to.n = m + 1
  <2>1. q \in DetailSlot /\ m + 1 \in Nat
    BY <1>2
  <2> QED
    BY ONLY <1>8, <2>1 DEF DetailSlot
<1>12. to.table \in {"item", "def"} /\ \A r \in RowsIn(to.table, to.of) : details[r].n < to.n
  BY ONLY <1>4, <1>10, <1>11
<1>13. Looking(k) /\ keyOfCall(to) = keyOfCall(calls[k]) /\ to.alone = calls[k].alone
  BY <1>1, <1>4, <1>11 DEF keyOfCall
<1> QED
  BY <1>2, <1>3, <1>9, <1>11, <1>12, <1>13, CallReads

LEMMA FailKeeps == ASSUME DetailInv, NEW k \in DetailCall, DetailFails(k) PROVE DetailInv'
<1>0. DetailShape
  BY DEF DetailInv
<1>1. /\ detailFails < MaxDetailFails /\ detailFails' = detailFails + 1
      /\ calls' = [calls EXCEPT ![k] = NoCall]
      /\ details' = details /\ cardGone' = cardGone /\ served' = served /\ crossed' = crossed
  BY DEF DetailFails
<1>2. detailFails' \in 0..MaxDetailFails
  <2>1. detailFails \in 0..MaxDetailFails /\ MaxDetailFails \in Nat
    BY <1>0, DetailConstants DEF DetailShape, DetailTypeOK
  <2> QED
    BY ONLY <1>1, <2>1
<1>3. NoCall \in DetailSlot /\ NoCall.pc = "idle"
  BY DEF NoCall, DetailSlot, RowOwner
<1> QED
  BY <1>1, <1>2, <1>3, CallReads

LEMMA UpdateKeeps == ASSUME DetailInv, NEW k \in DetailCall, UpdateRow(k) PROVE DetailInv'
<1>0. DetailShape /\ \A j \in DetailCall : SlotOK(j)
  BY DEF DetailInv, DetailRest
<1>1. PICK q : q = calls[k]
  OBVIOUS
<1>2. /\ q.pc = "update"
      /\ details' = IF stored(q.row) THEN [details EXCEPT ![q.row].n = 0] ELSE details
      /\ calls' = [calls EXCEPT ![k] = NoCall]
      /\ cardGone' = cardGone /\ served' = served /\ detailFails' = detailFails /\ crossed' = crossed
      /\ q.row \in Row /\ (stored(q.row) => details[q.row].table \in {"time", "value"})
  BY <1>0, <1>1 DEF UpdateRow, Proceed, SlotOK
<1>3. NoCall \in DetailSlot /\ NoCall.pc = "idle"
  BY DEF NoCall, DetailSlot, RowOwner
<1>4. Thinned /\ details' \in [Row -> DetailRow \cup {NoRow, UsedRow}]
  <2>1. CASE ~stored(q.row)
    BY <1>0, <1>2, <2>1 DEF Thinned, DetailShape
  <2>2. CASE stored(q.row)
    <3>1. details' = [details EXCEPT ![q.row] = [details[q.row] EXCEPT !.n = 0]] /\ details[q.row] \in DetailRow
      BY <1>0, <1>2, <2>2 DEF DetailShape, stored
    <3>2. PICK y : y = [details[q.row] EXCEPT !.n = 0]
      OBVIOUS
    <3>3. y \in DetailRow /\ y.table = details[q.row].table /\ y.of = details[q.row].of /\ y.n = 0
      BY ONLY <3>1, <3>2 DEF DetailRow
    <3>4. details' = [details EXCEPT ![q.row] = y]
      BY <3>1, <3>2
    <3>5. details' \in [Row -> DetailRow \cup {NoRow, UsedRow}]
      BY ONLY <1>0, <1>2, <3>3, <3>4 DEF DetailShape
    <3>6. details'[q.row] = y /\ \A r \in Row : r # q.row => details'[r] = details[r]
      BY ONLY <1>0, <1>2, <3>4 DEF DetailShape
    <3> QED
      BY <1>2, <2>2, <3>3, <3>5, <3>6 DEF Thinned
  <2> QED
    BY <2>1, <2>2
<1>5. SlotOK(k)'
  <2>1. calls'[k] = NoCall
    BY <1>0, <1>2 DEF DetailShape
  <2> QED
    BY <1>3, <2>1 DEF SlotOK, Looking
<1>6. detailFails' \in 0..MaxDetailFails
  BY <1>0, <1>2 DEF DetailShape, DetailTypeOK
<1> QED
  BY <1>2, <1>3, <1>4, <1>5, <1>6, CallGoesOn

LEMMA ComesIn ==
  ASSUME DetailInv, NEW k \in DetailCall,
         StartTimer(k) \/ StopTimer(k) \/ PutValue(k) \/ AddItem(k) \/ CreateDefinition(k)
  PROVE  DetailInv'
<1>1. CASE StartTimer(k)
  <2>1. PICK u \in Editor : Enter(k, [NoCall EXCEPT !.pc = "halt", !.of = u])
    BY <1>1 DEF StartTimer
  <2>2. PICK q : q = [NoCall EXCEPT !.pc = "halt", !.of = u]
    OBVIOUS
  <2>3. q \in DetailSlot /\ q.alone = TRUE /\ q.pc = "halt" /\ q.table = "time"
    BY ONLY <2>2 DEF NoCall, DetailSlot, RowOwner
  <2> QED
    BY <2>1, <2>2, <2>3, EnterKeeps
<1>2. CASE StopTimer(k)
  <2>1. PICK u \in Editor : Enter(k, [NoCall EXCEPT !.pc = "find timer", !.of = u])
    BY <1>2 DEF StopTimer
  <2>2. PICK q : q = [NoCall EXCEPT !.pc = "find timer", !.of = u]
    OBVIOUS
  <2>3. q \in DetailSlot /\ q.alone = TRUE /\ q.pc = "find timer"
    BY ONLY <2>2 DEF NoCall, DetailSlot, RowOwner
  <2> QED
    BY <2>1, <2>2, <2>3, EnterKeeps
<1>3. CASE PutValue(k)
  <2>1. PICK d \in RowsIn("def", FIELDS) : Enter(k, [NoCall EXCEPT !.pc = "find", !.table = "value", !.of = d])
    BY <1>3 DEF PutValue
  <2>2. PICK q : q = [NoCall EXCEPT !.pc = "find", !.table = "value", !.of = d]
    OBVIOUS
  <2>3. q \in DetailSlot /\ q.alone = TRUE /\ q.pc = "find" /\ q.table = "value"
    BY ONLY <2>2 DEF NoCall, DetailSlot, RowOwner, RowsIn
  <2> QED
    BY <2>1, <2>2, <2>3, EnterKeeps
<1>4. CASE AddItem(k)
  <2>2. PICK q : q = [NoCall EXCEPT !.pc = "last", !.table = "item"]
    OBVIOUS
  <2>3. q \in DetailSlot /\ q.alone = TRUE /\ q.pc = "last" /\ q.table \in {"item", "def"}
    BY ONLY <2>2 DEF NoCall, DetailSlot, RowOwner
  <2> QED
    BY <1>4, <2>2, <2>3, EnterKeeps DEF AddItem
<1>5. CASE CreateDefinition(k)
  <2>2. PICK q : q = [NoCall EXCEPT !.pc = "last", !.table = "def", !.of = FIELDS]
    OBVIOUS
  <2>3. q \in DetailSlot /\ q.alone = TRUE /\ q.pc = "last" /\ q.table \in {"item", "def"}
    BY ONLY <2>2 DEF NoCall, DetailSlot, RowOwner
  <2> QED
    BY <1>5, <2>2, <2>3, EnterKeeps DEF CreateDefinition
<1> QED
  BY <1>1, <1>2, <1>3, <1>4, <1>5

LEMMA DetailStays == ASSUME DetailInv, UNCHANGED detailVars PROVE DetailInv'
<1>1. /\ details' = details /\ cardGone' = cardGone /\ calls' = calls
      /\ served' = served /\ detailFails' = detailFails /\ crossed' = crossed
  BY DEF detailVars
<1>2. Thinned
  BY <1>1 DEF Thinned
<1> QED
  BY <1>1, <1>2, RowsOnlyThin DEF DetailInv, DetailShape, DetailTypeOK

LEMMA DetailInvKept == DetailInv /\ [DetailNext]_detailVars => DetailInv'
<1>1. ASSUME DetailInv, DetailNext PROVE DetailInv'
  BY <1>1, ComesIn, HaltKeeps, LookUpKeeps, UpdateKeeps, ReadLastKeeps, InsertKeeps, FailKeeps,
     DropKeeps, AssignKeeps DEF DetailNext
<1> QED
  BY <1>1, DetailStays

\* The rows of a card's features keep their keys, and every call between its look
\* and its write either still sees what it saw or knows of the other that looked
\* for the same (time-entries.ts, checklist.ts, custom-fields).
THEOREM DetailInvHolds == DetailSpec => []DetailInv
BY DetailInvKept, DetailStarts, PTL DEF DetailSpec

\* Unless two calls looked for the same at once, there is one running timer per
\* user, one value per field, and no two items or definitions with one index.
THEOREM AloneNothingDoublesHolds == DetailSpec => []AloneNothingDoubles
BY DetailInvHolds, PTL DEF DetailInv, DetailRest

-----------------------------------------------------------------------------
(***************************************************************************)
(* That a tab at rest, which missed no event, shows the server's board:    *)
(* what it shows, was answered or would put back is the server's board,    *)
(* unless something is still to come (TabOK).                              *)
(***************************************************************************)

\* A change of a card is stored and not announced.
Unannounced == \E m \in Change : change[m].pc = "written"

\* The tab waits for the answer to an order of the lists that is stored.
ListsAnswered(c) == \E m \in Change :
  change[m].tab = c /\ change[m].pc = "answered" /\ change[m].what = LISTS

\* The tab has a change under way.
Busy(c) == \E m \in Change : change[m].tab = c /\ change[m].pc \notin {"free", "done"}

\* b is back, but for what is dragged.
SameBut(what, b, back) ==
  /\ what = LISTS => b.at = back.at
  /\ what # LISTS => b.order = back.order /\ \A k \in SyncCard \ {what} : b.at[k] = back.at[k]

\* What a tab shows, was answered or would put back is the server's board, unless
\* something is still to come or it was missed.
TabOK(c) ==
  /\ copy[c] # NoBoardYet /\ ~missed[c] /\ ~event[c] /\ ~Unannounced /\ ~Busy(c) /\ fetch[c] = NoFetch /\ drag[c] = NoDrag
       => copy[c] = server
  /\ fetch[c] # NoFetch => (fetch[c].answer # Unread /\ fetch[c].clean /\ ~event[c] /\ ~Unannounced /\ ~ListsAnswered(c)
       => fetch[c].answer = server)
  /\ drag[c] # NoDrag =>
       /\ copy[c] # NoBoardYet
       /\ ~drag[c].stale /\ ~missed[c] /\ fetch[c] = NoFetch =>
            /\ SameBut(drag[c].what, copy[c], drag[c].back)
            /\ ~event[c] /\ ~Unannounced /\ ~Busy(c) => drag[c].back = server

SyncInv == SyncTypeOK /\ \A c \in Tab : TabOK(c)

-----------------------------------------------------------------------------
(* One tab.                                                                 *)

\* What is still to come for a tab.
Pending(c) == event[c] \/ Unannounced \/ (Busy(c) /\ ListsAnswered(c))

LEMMA TabStays ==
  ASSUME NEW c, TabOK(c), server' = server, copy'[c] = copy[c], fetch'[c] = fetch[c], drag'[c] = drag[c],
         missed'[c] = missed[c], event[c] => event'[c], Unannounced => Unannounced', Busy(c) => Busy(c)',
         ListsAnswered(c) => ListsAnswered(c)'
  PROVE  TabOK(c)'
BY DEF TabOK, SameBut

LEMMA TabAwaits ==
  ASSUME NEW c, TabOK(c), copy'[c] = copy[c], fetch'[c] = fetch[c], drag'[c] = drag[c],
         missed'[c] = missed[c], Pending(c)'
  PROVE  TabOK(c)'
BY DEF TabOK, SameBut, Pending

LEMMA TabUntold ==
  ASSUME SyncTypeOK, NEW c \in Tab, TabOK(c), copy'[c] = copy[c], drag'[c] = drag[c],
         missed'[c] = (missed[c] \/ copy[c] # NoBoardYet),
         fetch'[c] = IF fetch[c] # NoFetch /\ fetch[c].answer # Unread THEN [fetch[c] EXCEPT !.clean = FALSE] ELSE fetch[c]
  PROVE  TabOK(c)'
<1>1. fetch[c] # NoFetch => /\ fetch[c] \in Fetching
                            /\ [fetch[c] EXCEPT !.clean = FALSE] \in Fetching
                            /\ [fetch[c] EXCEPT !.clean = FALSE].clean = FALSE
  BY DEF SyncTypeOK, Fetching
<1>2. fetch'[c] # NoFetch => fetch'[c].answer = Unread \/ ~fetch'[c].clean
  BY <1>1
<1>3. drag[c] # NoDrag => copy[c] # NoBoardYet
  BY DEF TabOK
<1> QED
  BY <1>2, <1>3 DEF TabOK

LEMMA TabFetches ==
  ASSUME NEW c, TabOK(c), fetch'[c] = Sent, Sent # NoFetch, drag'[c] = drag[c],
         copy[c] # NoBoardYet => copy'[c] # NoBoardYet
  PROVE  TabOK(c)'
BY DEF TabOK, Sent

LEMMA TabMissed ==
  ASSUME NEW c, TabOK(c), server' = server, fetch'[c] = fetch[c], drag'[c] = drag[c],
         copy[c] # NoBoardYet => copy'[c] # NoBoardYet, missed'[c] = TRUE,
         event[c] => event'[c], Unannounced => Unannounced', ListsAnswered(c) => ListsAnswered(c)'
  PROVE  TabOK(c)'
BY DEF TabOK

LEMMA Shapes ==
  /\ Sent \in Fetching /\ Sent # NoFetch
  /\ NoChange \in Moving /\ Closed \in Moving /\ Closed.pc = "done" /\ Closed.tab = NoBoardYet
  /\ \A f \in Fetching : /\ f # NoFetch
                         /\ [f EXCEPT !.clean = FALSE] \in Fetching /\ [f EXCEPT !.clean = FALSE].answer = f.answer
                         /\ \A b \in SyncBoard : [f EXCEPT !.answer = b] \in Fetching
                                                 /\ [f EXCEPT !.answer = b].answer = b /\ [f EXCEPT !.answer = b].clean = f.clean
  /\ \A d \in Dragging : /\ [d EXCEPT !.stale = TRUE] \in Dragging /\ [d EXCEPT !.stale = TRUE].stale = TRUE
                         /\ d # NoDrag
<1>1. NoChange \in Moving /\ Closed \in Moving /\ Closed.pc = "done" /\ Closed.tab = NoBoardYet
  BY SyncConstants DEF NoChange, Closed, Moving
<1>2. Sent \in Fetching /\ Sent # NoFetch
  <2>1. Sent \in Fetching
    BY DEF Sent, Fetching
  <2> QED
    BY <2>1, SyncConstants
<1>3. \A f \in Fetching : /\ f # NoFetch
                         /\ [f EXCEPT !.clean = FALSE] \in Fetching /\ [f EXCEPT !.clean = FALSE].answer = f.answer
  BY SyncConstants DEF Fetching
<1>4. \A f \in Fetching : \A b \in SyncBoard : [f EXCEPT !.answer = b] \in Fetching
                                                 /\ [f EXCEPT !.answer = b].answer = b /\ [f EXCEPT !.answer = b].clean = f.clean
  BY DEF Fetching
<1>5. \A d \in Dragging : /\ [d EXCEPT !.stale = TRUE] \in Dragging /\ [d EXCEPT !.stale = TRUE].stale = TRUE
                         /\ d # NoDrag
  BY SyncConstants DEF Dragging
<1> QED
  BY <1>1, <1>2, <1>3, <1>4, <1>5

LEMMA SyncStarts == SyncInit => SyncInv
<1> SUFFICES ASSUME SyncInit PROVE SyncInv
  OBVIOUS
<1>1. SyncTypeOK
  BY SyncConstants, Shapes DEF SyncInit, SyncTypeOK, NoChange
<1>2. \A c \in Tab : TabOK(c)
  BY DEF SyncInit, TabOK
<1> QED
  BY <1>1, <1>2 DEF SyncInv

\* What becomes of the tabs when some are not told.
LEMMA UntoldTabs ==
  ASSUME SyncTypeOK, \A c \in Tab : TabOK(c), NEW S \in SUBSET Tab, Untold(S), copy' = copy, drag' = drag,
         \A c \in Tab \ S :
           \/ Pending(c)'
           \/ /\ server' = server
              /\ event[c] => event'[c]
              /\ Unannounced => Unannounced'
              /\ Busy(c) => Busy(c)'
              /\ ListsAnswered(c) => ListsAnswered(c)'
  PROVE  /\ \A c \in Tab : TabOK(c)'
         /\ missed' \in [Tab -> BOOLEAN] /\ fetch' \in [Tab -> Fetching \cup {NoFetch}]
<1>1. /\ \A c \in S : /\ missed'[c] = (missed[c] \/ copy[c] # NoBoardYet)
                      /\ fetch'[c] = IF fetch[c] # NoFetch /\ fetch[c].answer # Unread
                                     THEN [fetch[c] EXCEPT !.clean = FALSE] ELSE fetch[c]
      /\ \A c \in Tab \ S : missed'[c] = missed[c] /\ fetch'[c] = fetch[c]
  BY DEF Untold, SyncTypeOK
<1>2. missed' \in [Tab -> BOOLEAN] /\ fetch' \in [Tab -> Fetching \cup {NoFetch}]
  BY Shapes DEF Untold, SyncTypeOK
<1>3. \A c \in S : TabOK(c)'
  BY <1>1, TabUntold
<1>4. \A c \in Tab \ S : TabOK(c)'
  BY <1>1, TabStays, TabAwaits
<1> QED
  BY <1>2, <1>3, <1>4

-----------------------------------------------------------------------------
(* The changes.                                                             *)

LEMMA ChangeMade ==
  ASSUME SyncTypeOK, NEW m \in Change, change[m].pc = "free",
         NEW x \in Moving, x.pc = "sent", x.tab \in Tab \cup {Elsewhere}, x.back \in SyncBoard,
         change' = [change EXCEPT ![m] = x]
  PROVE  /\ change' \in [Change -> Moving]
         /\ \A j \in Change : change'[j].pc \notin {"free", "done"} =>
              change'[j].tab \in Tab \cup {Elsewhere} /\ change'[j].back \in SyncBoard
         /\ Unannounced => Unannounced'
         /\ \A c : (Busy(c) => Busy(c)') /\ (ListsAnswered(c) => ListsAnswered(c)')
         /\ Busy(x.tab)'
<1>1. \A j \in Change : change'[j] = IF j = m THEN x ELSE change[j]
  BY DEF SyncTypeOK
<1>2. change' \in [Change -> Moving]
  BY DEF SyncTypeOK
<1>3. \A j \in Change : change'[j].pc \notin {"free", "done"} =>
              change'[j].tab \in Tab \cup {Elsewhere} /\ change'[j].back \in SyncBoard
  BY <1>1 DEF SyncTypeOK
<1>4. \A j \in Change : change[j].pc # "free" => change'[j] = change[j]
  BY <1>1
<1>5. Unannounced => Unannounced'
  BY ONLY <1>4 DEF Unannounced
<1>6. \A c : (Busy(c) => Busy(c)') /\ (ListsAnswered(c) => ListsAnswered(c)')
  BY ONLY <1>4 DEF Busy, ListsAnswered
<1>7. Busy(x.tab)'
  BY <1>1 DEF Busy
<1> QED
  BY <1>2, <1>3, <1>5, <1>6, <1>7

\* A change goes on, or ends; p is where it stood.
LEMMA ChangeGoesOn ==
  ASSUME SyncTypeOK, NEW m \in Change, NEW to \in {"written", "answered", "failed"},
         change[m].pc \notin {"free", "done"}, change' = [change EXCEPT ![m].pc = to]
  PROVE  /\ change' \in [Change -> Moving]
         /\ \A j \in Change : change'[j].pc \notin {"free", "done"} =>
              change'[j].tab \in Tab \cup {Elsewhere} /\ change'[j].back \in SyncBoard
         /\ change'[m].pc = to /\ change'[m].tab = change[m].tab /\ change'[m].what = change[m].what
         /\ \A j \in Change : j # m => change'[j] = change[j]
         /\ \A c : Busy(c) => Busy(c)'
         /\ \A c : change[m].tab # c => (ListsAnswered(c) => ListsAnswered(c)')
<1>1. PICK x : x = [change[m] EXCEPT !.pc = to]
  OBVIOUS
<1>2. change[m] \in Moving
  BY DEF SyncTypeOK
<1>3. x \in Moving /\ x.pc = to /\ x.tab = change[m].tab /\ x.what = change[m].what /\ x.back = change[m].back
  BY ONLY <1>1, <1>2, to \in {"written", "answered", "failed"} DEF Moving
<1>4. change' = [change EXCEPT ![m] = x]
  BY <1>1
<1>5. \A j \in Change : change'[j] = IF j = m THEN x ELSE change[j]
  BY <1>4 DEF SyncTypeOK
<1>6. change' \in [Change -> Moving]
  BY <1>3, <1>4 DEF SyncTypeOK
<1>7. \A j \in Change : change'[j].pc \notin {"free", "done"} =>
              change'[j].tab \in Tab \cup {Elsewhere} /\ change'[j].back \in SyncBoard
  BY <1>3, <1>5 DEF SyncTypeOK
<1>8. \A j \in Change : change[j].pc \notin {"free", "done"} =>
        change'[j].pc \notin {"free", "done"} /\ change'[j].tab = change[j].tab
  BY <1>3, <1>5
<1>9. \A c : Busy(c) => Busy(c)'
  BY ONLY <1>8 DEF Busy
<1>10. \A c : change[m].tab # c => (ListsAnswered(c) => ListsAnswered(c)')
  BY <1>5 DEF ListsAnswered
<1> QED
  BY <1>3, <1>5, <1>6, <1>7, <1>9, <1>10

LEMMA ChangeEnds ==
  ASSUME SyncTypeOK, NEW m \in Change, change[m].pc \in {"answered", "failed"}, change' = [change EXCEPT ![m] = Closed]
  PROVE  /\ change' \in [Change -> Moving]
         /\ \A j \in Change : change'[j].pc \notin {"free", "done"} =>
              change'[j].tab \in Tab \cup {Elsewhere} /\ change'[j].back \in SyncBoard
         /\ Unannounced => Unannounced'
         /\ \A c : change[m].tab # c => (Busy(c) => Busy(c)')
         /\ \A c : change[m].tab # c \/ change[m].pc = "failed" => (ListsAnswered(c) => ListsAnswered(c)')
<1>1. \A j \in Change : change'[j] = IF j = m THEN Closed ELSE change[j]
  BY DEF SyncTypeOK
<1>2. change' \in [Change -> Moving]
  BY Shapes DEF SyncTypeOK
<1>3. \A j \in Change : change'[j].pc \notin {"free", "done"} =>
              change'[j].tab \in Tab \cup {Elsewhere} /\ change'[j].back \in SyncBoard
  BY <1>1, Shapes DEF SyncTypeOK
<1>4. \A j \in Change : j # m => change'[j] = change[j]
  BY <1>1
<1>5. Unannounced => Unannounced'
  BY <1>4 DEF Unannounced
<1>6. \A c : change[m].tab # c => (Busy(c) => Busy(c)')
  BY <1>4 DEF Busy
<1>7. \A c : change[m].tab # c \/ change[m].pc = "failed" => (ListsAnswered(c) => ListsAnswered(c)')
  BY <1>4 DEF ListsAnswered
<1> QED
  BY <1>2, <1>3, <1>5, <1>6, <1>7

LEMMA SameChanges ==
  ASSUME change' = change
  PROVE  (Unannounced' <=> Unannounced) /\ \A c : (Busy(c)' <=> Busy(c)) /\ (ListsAnswered(c)' <=> ListsAnswered(c))
BY DEF Unannounced, Busy, ListsAnswered

\* What moving something of a board gives.
LEMMA RearrangedBoard ==
  ASSUME NEW b \in SyncBoard, NEW what \in SyncCard \cup {LISTS}, NEW x \in Rearranged(b, what)
  PROVE  x \in SyncBoard /\ SameBut(what, x, b)
<1>1. CASE what = LISTS
  BY <1>1 DEF Rearranged, SyncBoard, SameBut
<1>2. CASE what # LISTS
  <2>1. PICK l \in Lane : x = [b EXCEPT !.at[what] = l]
    BY <1>2 DEF Rearranged
  <2>2. b.at \in [SyncCard -> Lane] /\ b.order \in LaneOrder
    BY DEF SyncBoard
  <2>3. x = [b EXCEPT !.at = [b.at EXCEPT ![what] = l]]
    BY <2>1
  <2>4. x.at = [b.at EXCEPT ![what] = l] /\ x.order = b.order /\ x \in SyncBoard
    BY <2>2, <2>3 DEF SyncBoard
  <2>5. \A k \in SyncCard \ {what} : x.at[k] = b.at[k]
    BY <2>2, <2>4
  <2> QED
    BY <1>2, <2>4, <2>5 DEF SameBut
<1> QED
  BY <1>1, <1>2

LEMMA SameButGoesOn ==
  ASSUME NEW what, NEW x, NEW b, NEW a, SameBut(what, x, b), SameBut(what, b, a)
  PROVE  SameBut(what, x, a)
BY DEF SameBut

\* A board that is back but for what was dragged, and has that where it was, is back.
LEMMA SameAgain ==
  ASSUME NEW d \in Dragging, NEW b \in SyncBoard, SameBut(d.what, b, d.back), BackAtStart(d, b)
  PROVE  b = d.back
<1>1. /\ d.back \in SyncBoard /\ d.what \in SyncCard \cup {LISTS}
      /\ b.at \in [SyncCard -> Lane] /\ d.back.at \in [SyncCard -> Lane]
      /\ b = [at |-> b.at, order |-> b.order] /\ d.back = [at |-> d.back.at, order |-> d.back.order]
  BY DEF Dragging, SyncBoard
<1>2. b.order = d.back.order /\ b.at = d.back.at
  <2>1. CASE d.what = LISTS
    BY <2>1 DEF SameBut, BackAtStart
  <2>2. CASE d.what # LISTS
    <3>1. b.order = d.back.order /\ \A k \in SyncCard : b.at[k] = d.back.at[k]
      BY <2>2 DEF SameBut, BackAtStart
    <3> QED
      BY <1>1, <3>1
  <2> QED
    BY <2>1, <2>2
<1> QED
  BY ONLY <1>1, <1>2

-----------------------------------------------------------------------------
(* The steps.                                                               *)

\* A step of one tab: the others keep what they have.
LEMMA OneTab ==
  ASSUME SyncInv, NEW c \in Tab, TabOK(c)', server' = server,
         \A d \in Tab : d # c => /\ copy'[d] = copy[d] /\ fetch'[d] = fetch[d] /\ drag'[d] = drag[d]
                                 /\ missed'[d] = missed[d] /\ event'[d] = event[d]
                                 /\ Busy(d) => Busy(d)'
                                 /\ ListsAnswered(d) => ListsAnswered(d)',
         Unannounced => Unannounced'
  PROVE  \A d \in Tab : TabOK(d)'
BY TabStays DEF SyncInv

LEMMA VisitKeeps == ASSUME SyncInv, NEW c \in Tab, Visit(c) PROVE SyncInv'
<1>1. SyncTypeOK /\ TabOK(c) /\ (fetch' = [d \in Tab |-> IF d = c THEN Sent ELSE fetch[d]])
  BY DEF SyncInv, Visit, Invalidate
<1>2. /\ server' = server /\ copy' = copy /\ live' = live /\ event' = event /\ change' = change
      /\ drag' = drag /\ missed' = missed /\ losses' = losses
  BY DEF Visit
<1>3. SyncTypeOK'
  BY <1>1, <1>2, Shapes DEF SyncTypeOK
<1>4. TabOK(c)'
  BY <1>1, <1>2, Shapes, TabFetches
<1>5. \A d \in Tab : TabOK(d)'
  BY <1>1, <1>2, <1>4, SameChanges, OneTab
<1> QED
  BY <1>3, <1>5 DEF SyncInv

LEMMA OnEventKeeps == ASSUME SyncInv, NEW c \in Tab, OnEvent(c) PROVE SyncInv'
<1>1. /\ SyncTypeOK /\ TabOK(c) /\ fetch' = [d \in Tab |-> IF d = c THEN Sent ELSE fetch[d]]
      /\ event' = [event EXCEPT ![c] = FALSE]
  BY DEF SyncInv, OnEvent, Invalidate
<1>2. /\ server' = server /\ copy' = copy /\ live' = live /\ change' = change
      /\ drag' = drag /\ missed' = missed /\ losses' = losses
  BY DEF OnEvent
<1>3. SyncTypeOK'
  BY <1>1, <1>2, Shapes DEF SyncTypeOK
<1>4. TabOK(c)'
  BY <1>1, <1>2, Shapes, TabFetches
<1>5. \A d \in Tab : d # c => event'[d] = event[d] /\ fetch'[d] = fetch[d]
  BY <1>1 DEF SyncTypeOK
<1>6. \A d \in Tab : TabOK(d)'
  BY <1>2, <1>4, <1>5, SameChanges, OneTab
<1> QED
  BY <1>3, <1>6 DEF SyncInv

LEMMA ReadServerKeeps == ASSUME SyncInv, NEW c \in Tab, Read(c) PROVE SyncInv'
<1>1. SyncTypeOK /\ TabOK(c) /\ fetch[c] = Sent
  BY DEF SyncInv, Read
<1>2. /\ server' = server /\ copy' = copy /\ live' = live /\ event' = event /\ change' = change
      /\ drag' = drag /\ missed' = missed /\ losses' = losses
  BY DEF Read
<1>3. PICK f : f = [Sent EXCEPT !.answer = server]
  OBVIOUS
<1>4. f \in Fetching /\ f.answer = server /\ f # NoFetch
  BY <1>1, <1>3, Shapes DEF SyncTypeOK
<1>5. fetch' = [fetch EXCEPT ![c] = f]
  BY <1>1, <1>3 DEF Read
<1>6. SyncTypeOK'
  BY <1>1, <1>2, <1>4, <1>5 DEF SyncTypeOK
<1>7. fetch'[c] = f /\ \A d \in Tab : d # c => fetch'[d] = fetch[d]
  BY <1>1, <1>5 DEF SyncTypeOK
<1>8. TabOK(c)'
  <2>1. drag'[c] # NoDrag => copy'[c] # NoBoardYet
    BY <1>1, <1>2 DEF TabOK
  <2> QED
    BY <1>2, <1>4, <1>7, <2>1 DEF TabOK
<1>9. \A d \in Tab : TabOK(d)'
  BY <1>2, <1>7, <1>8, SameChanges, OneTab
<1> QED
  BY <1>6, <1>9 DEF SyncInv

LEMMA ArriveKeeps == ASSUME SyncInv, NEW c \in Tab, Arrive(c) PROVE SyncInv'
<1>1. /\ SyncTypeOK /\ TabOK(c) /\ fetch[c] # NoFetch /\ fetch[c].answer # Unread
      /\ copy' = [copy EXCEPT ![c] = fetch[c].answer]
      /\ missed' = [missed EXCEPT ![c] = ~fetch[c].clean]
      /\ fetch' = [fetch EXCEPT ![c] = NoFetch]
      /\ drag' = [drag EXCEPT ![c] = IF drag[c] = NoDrag THEN drag[c] ELSE [drag[c] EXCEPT !.stale = TRUE]]
  BY DEF SyncInv, Arrive
<1>2. /\ server' = server /\ live' = live /\ event' = event /\ change' = change /\ losses' = losses
  BY DEF Arrive
<1>3. fetch[c] \in Fetching /\ fetch[c].answer \in SyncBoard /\ fetch[c].clean \in BOOLEAN /\ fetch[c].answer # NoBoardYet
  BY <1>1, SyncConstants DEF SyncTypeOK, Fetching
<1>4. drag' \in [Tab -> Dragging \cup {NoDrag}]
  BY <1>1, Shapes DEF SyncTypeOK
<1>5. SyncTypeOK'
  BY <1>1, <1>2, <1>3, <1>4 DEF SyncTypeOK
<1>6. /\ copy'[c] = fetch[c].answer /\ missed'[c] = ~fetch[c].clean /\ fetch'[c] = NoFetch
      /\ drag'[c] # NoDrag => drag'[c].stale
      /\ \A d \in Tab : d # c => /\ copy'[d] = copy[d] /\ missed'[d] = missed[d]
                                 /\ fetch'[d] = fetch[d] /\ drag'[d] = drag[d]
  BY <1>1, Shapes DEF SyncTypeOK
<1>7. (Unannounced' <=> Unannounced) /\ (Busy(c)' <=> Busy(c)) /\ (ListsAnswered(c)' <=> ListsAnswered(c))
      /\ (ListsAnswered(c) => Busy(c))
  BY <1>2, SameChanges DEF ListsAnswered, Busy
<1>8. TabOK(c)'
  BY <1>1, <1>2, <1>3, <1>6, <1>7 DEF TabOK
<1>9. \A d \in Tab : TabOK(d)'
  BY <1>2, <1>6, <1>8, SameChanges, OneTab
<1> QED
  BY <1>5, <1>9 DEF SyncInv

LEMMA Losing == ASSUME SyncTypeOK, Lost PROVE losses' \in 0..MaxLosses
<1>1. losses \in 0..MaxLosses /\ MaxLosses \in Nat /\ losses < MaxLosses /\ losses' = losses + 1
  BY SyncConstants DEF SyncTypeOK, Lost
<1> QED
  BY ONLY <1>1

LEMMA FetchFailsKeeps == ASSUME SyncInv, NEW c \in Tab, FetchFails(c) PROVE SyncInv'
<1>1. /\ SyncTypeOK /\ TabOK(c) /\ losses' \in 0..MaxLosses
      /\ fetch' = [fetch EXCEPT ![c] = NoFetch]
      /\ missed' = [missed EXCEPT ![c] = TRUE]
  BY Losing DEF SyncInv, FetchFails
<1>2. /\ server' = server /\ copy' = copy /\ live' = live /\ event' = event /\ change' = change /\ drag' = drag
  BY DEF FetchFails
<1>3. SyncTypeOK'
  BY <1>1, <1>2 DEF SyncTypeOK
<1>4. /\ fetch'[c] = NoFetch /\ missed'[c] = TRUE
      /\ \A d \in Tab : d # c => missed'[d] = missed[d] /\ fetch'[d] = fetch[d]
  BY <1>1 DEF SyncTypeOK
<1>5. TabOK(c)'
  BY <1>1, <1>2, <1>4 DEF TabOK
<1>6. \A d \in Tab : TabOK(d)'
  BY <1>2, <1>4, <1>5, SameChanges, OneTab
<1> QED
  BY <1>3, <1>6 DEF SyncInv

LEMMA SocketKeeps == ASSUME SyncInv, NEW c \in Tab, Connect(c) \/ Disconnect(c) PROVE SyncInv'
<1>0. SyncTypeOK /\ \A d \in Tab : TabOK(d)
  BY DEF SyncInv
<1>1. CASE Connect(c)
  <2>1. /\ live' = [live EXCEPT ![c] = TRUE]
        /\ server' = server /\ copy' = copy /\ fetch' = fetch /\ event' = event /\ change' = change
        /\ drag' = drag /\ missed' = missed /\ losses' = losses
    BY <1>1 DEF Connect
  <2>2. SyncTypeOK'
    BY <1>0, <2>1 DEF SyncTypeOK
  <2>3. \A d \in Tab : TabOK(d)'
    BY <1>0, <2>1, SameChanges, TabStays
  <2> QED
    BY <2>2, <2>3 DEF SyncInv
<1>2. CASE Disconnect(c)
  <2> DEFINE S == IF event[c] THEN {c} ELSE {}
  <2>1. /\ live' = [live EXCEPT ![c] = FALSE] /\ losses' \in 0..MaxLosses
        /\ event' = [event EXCEPT ![c] = FALSE] /\ Untold(S) /\ S \in SUBSET Tab
        /\ server' = server /\ copy' = copy /\ change' = change /\ drag' = drag
    BY <1>0, <1>2, Losing DEF Disconnect
  <2>2. \A d \in Tab \ S : event[d] => event'[d]
    BY <1>0, <2>1 DEF SyncTypeOK
  <2> HIDE DEF S
  <2>3. /\ \A d \in Tab : TabOK(d)'
        /\ missed' \in [Tab -> BOOLEAN] /\ fetch' \in [Tab -> Fetching \cup {NoFetch}]
    BY <1>0, <2>1, <2>2, SameChanges, UntoldTabs
  <2>4. SyncTypeOK'
    BY <1>0, <2>1, <2>3 DEF SyncTypeOK
  <2> QED
    BY <2>3, <2>4 DEF SyncInv
<1> QED
  BY <1>1, <1>2

LEMMA DragStartKeeps == ASSUME SyncInv, NEW c \in Tab, DragStart(c) PROVE SyncInv'
<1>1. PICK what \in SyncCard \cup {LISTS} :
        drag' = [drag EXCEPT ![c] = [what |-> what, back |-> copy[c], stale |-> FALSE]]
  BY DEF DragStart
<1>2. PICK x : x = [what |-> what, back |-> copy[c], stale |-> FALSE]
  OBVIOUS
<1>3. /\ SyncTypeOK /\ TabOK(c) /\ drag[c] = NoDrag /\ copy[c] # NoBoardYet /\ copy[c] \in SyncBoard
      /\ server' = server /\ copy' = copy /\ fetch' = fetch /\ live' = live /\ event' = event
      /\ change' = change /\ missed' = missed /\ losses' = losses
  BY DEF SyncInv, DragStart, SyncTypeOK
<1>4. x \in Dragging /\ x.back = copy[c] /\ x # NoDrag
  BY <1>2, <1>3, Shapes DEF Dragging
<1>5. drag' = [drag EXCEPT ![c] = x]
  BY <1>1, <1>2
<1>6. SyncTypeOK'
  BY <1>3, <1>4, <1>5 DEF SyncTypeOK
<1>7. drag'[c] = x /\ \A d \in Tab : d # c => drag'[d] = drag[d]
  BY <1>3, <1>5 DEF SyncTypeOK
<1>8. SameBut(x.what, copy[c], x.back)
  BY <1>4 DEF SameBut
<1>9. TabOK(c)'
  BY <1>3, <1>4, <1>7, <1>8, SameChanges DEF TabOK, SameBut
<1>10. \A d \in Tab : TabOK(d)'
  BY <1>3, <1>7, <1>9, SameChanges, OneTab
<1> QED
  BY <1>6, <1>10 DEF SyncInv

LEMMA DragOverKeeps == ASSUME SyncInv, NEW c \in Tab, DragOver(c) PROVE SyncInv'
<1>1. PICK b \in Rearranged(copy[c], drag[c].what) : copy' = [copy EXCEPT ![c] = b]
  BY DEF DragOver
<1>3. /\ SyncTypeOK /\ TabOK(c) /\ drag[c] # NoDrag /\ drag[c] \in Dragging /\ copy[c] \in SyncBoard
      /\ server' = server /\ drag' = drag /\ fetch' = fetch /\ live' = live /\ event' = event
      /\ change' = change /\ missed' = missed /\ losses' = losses
  BY DEF SyncInv, DragOver, SyncTypeOK, TabOK
<1>4. b \in SyncBoard /\ SameBut(drag[c].what, b, copy[c])
  BY <1>3, RearrangedBoard DEF Dragging
<1>5. b # NoBoardYet
  BY <1>4, SyncConstants
<1>6. SyncTypeOK'
  BY <1>1, <1>3, <1>4 DEF SyncTypeOK
<1>7. copy'[c] = b /\ \A d \in Tab : d # c => copy'[d] = copy[d]
  BY <1>1, <1>3 DEF SyncTypeOK
<1>8. SameBut(drag[c].what, copy[c], drag[c].back) => SameBut(drag[c].what, b, drag[c].back)
  BY <1>4, SameButGoesOn
<1>9. (Unannounced' <=> Unannounced) /\ (Busy(c)' <=> Busy(c)) /\ (ListsAnswered(c)' <=> ListsAnswered(c))
  BY <1>3, SameChanges
<1>10. SameBut(drag[c].what, copy[c], drag[c].back) => SameBut(drag[c].what, copy[c], drag[c].back)'
  BY <1>3, <1>7, <1>8 DEF SameBut
<1>11. TabOK(c)'
  BY <1>3, <1>5, <1>7, <1>9, <1>10 DEF TabOK
<1>12. \A d \in Tab : TabOK(d)'
  BY <1>3, <1>7, <1>11, SameChanges, OneTab
<1> QED
  BY <1>6, <1>12 DEF SyncInv

LEMMA DragStopKeeps == ASSUME SyncInv, NEW c \in Tab, DragCancel(c) \/ DragNothing(c) PROVE SyncInv'
<1>1. /\ drag[c] # NoDrag /\ drag' = [drag EXCEPT ![c] = NoDrag]
      /\ missed' = [missed EXCEPT ![c] = missed[c] \/ drag[c].stale]
      /\ server' = server /\ fetch' = fetch /\ live' = live /\ event' = event
      /\ change' = change /\ losses' = losses
      /\ \/ copy' = [copy EXCEPT ![c] = drag[c].back]
         \/ copy' = copy /\ BackAtStart(drag[c], copy[c])
  BY DEF DragCancel, DragNothing
<1>2. /\ SyncTypeOK /\ TabOK(c) /\ drag[c] \in Dragging /\ copy[c] \in SyncBoard
      /\ drag[c].back \in SyncBoard /\ drag[c].stale \in BOOLEAN
  BY <1>1 DEF SyncInv, SyncTypeOK, TabOK, Dragging
<1>3. SyncTypeOK'
  BY <1>1, <1>2 DEF SyncTypeOK
<1>4. /\ drag'[c] = NoDrag /\ missed'[c] = (missed[c] \/ drag[c].stale)
      /\ copy'[c] = drag[c].back \/ (copy'[c] = copy[c] /\ BackAtStart(drag[c], copy[c]))
      /\ \A d \in Tab : d # c => copy'[d] = copy[d] /\ drag'[d] = drag[d] /\ missed'[d] = missed[d]
  BY <1>1, <1>2 DEF SyncTypeOK
<1>5. SameBut(drag[c].what, copy[c], drag[c].back) => copy'[c] = drag[c].back
  BY <1>2, <1>4, SameAgain
<1>6. (Unannounced' <=> Unannounced) /\ (Busy(c)' <=> Busy(c)) /\ (ListsAnswered(c)' <=> ListsAnswered(c))
  BY <1>1, SameChanges
<1>7. TabOK(c)'
  <2>1. /\ drag[c] # NoDrag
        /\ ~drag[c].stale /\ ~missed[c] /\ fetch[c] = NoFetch =>
            /\ SameBut(drag[c].what, copy[c], drag[c].back)
            /\ ~event[c] /\ ~Unannounced /\ ~Busy(c) => drag[c].back = server
        /\ fetch[c] # NoFetch => (fetch[c].answer # Unread /\ fetch[c].clean /\ ~event[c] /\ ~Unannounced /\ ~ListsAnswered(c)
              => fetch[c].answer = server)
    BY <1>1, <1>2 DEF TabOK
  <2>2. /\ server' = server /\ fetch'[c] = fetch[c] /\ event'[c] = event[c]
    BY <1>1
  <2>3. missed'[c] \/ (~missed[c] /\ ~drag[c].stale)
    BY <1>4
  <2> QED
    BY <1>4, <1>5, <1>6, <2>1, <2>2, <2>3 DEF TabOK
<1>8. \A d \in Tab : TabOK(d)'
  BY <1>1, <1>4, <1>7, SameChanges, OneTab
<1> QED
  BY <1>3, <1>8 DEF SyncInv

\* A change is asked for in a tab: it is busy until the change has ended.
LEMMA MutateKeeps ==
  ASSUME SyncInv, NEW c \in Tab, NEW m \in Change, NEW what \in SyncCard \cup {LISTS},
         NEW b \in SyncBoard, NEW back \in SyncBoard, Mutate(m, c, what, b, back), drag'[c] = NoDrag,
         drag' \in [Tab -> Dragging \cup {NoDrag}], copy' \in [Tab -> SyncBoard \cup {NoBoardYet}],
         \A d \in Tab : d # c => copy'[d] = copy[d] /\ drag'[d] = drag[d],
         server' = server, live' = live, event' = event, missed' = missed, losses' = losses
  PROVE  SyncInv'
<1>0. SyncTypeOK /\ TabOK(c)
  BY DEF SyncInv
<1>1. PICK x : x = [pc |-> "sent", what |-> what, tab |-> c, to |-> b, back |-> back]
  OBVIOUS
<1>2. x \in Moving /\ x.pc = "sent" /\ x.tab = c /\ x.back = back
  BY <1>1 DEF Moving
<1>3. change[m].pc = "free" /\ change' = [change EXCEPT ![m] = x]
  BY <1>1 DEF Mutate
<1>4. /\ change' \in [Change -> Moving]
      /\ \A j \in Change : change'[j].pc \notin {"free", "done"} =>
              change'[j].tab \in Tab \cup {Elsewhere} /\ change'[j].back \in SyncBoard
      /\ Unannounced => Unannounced'
      /\ \A d : (Busy(d) => Busy(d)') /\ (ListsAnswered(d) => ListsAnswered(d)')
      /\ Busy(c)'
  BY <1>0, <1>2, <1>3, ChangeMade
<1>5. /\ fetch' \in [Tab -> Fetching \cup {NoFetch}]
      /\ fetch'[c] = fetch[c] \/ fetch'[c] = NoFetch
      /\ \A d \in Tab : d # c => fetch'[d] = fetch[d]
  BY <1>0 DEF Mutate, SyncTypeOK
<1>6. SyncTypeOK'
  BY <1>0, <1>4, <1>5 DEF SyncTypeOK
<1>7. TabOK(c)'
  BY <1>0, <1>4, <1>5 DEF TabOK
<1>8. \A d \in Tab : TabOK(d)'
  BY <1>4, <1>5, <1>7, OneTab
<1> QED
  BY <1>6, <1>8 DEF SyncInv

LEMMA DragEndKeeps == ASSUME SyncInv, NEW c \in Tab, NEW m \in Change, DragEnd(c, m) PROVE SyncInv'
<1>1. /\ SyncTypeOK /\ drag[c] # NoDrag /\ drag[c] \in Dragging /\ copy[c] \in SyncBoard
      /\ Mutate(m, c, drag[c].what, copy[c], drag[c].back)
      /\ drag' = [drag EXCEPT ![c] = NoDrag]
      /\ server' = server /\ copy' = copy /\ live' = live /\ event' = event
      /\ missed' = missed /\ losses' = losses
  BY DEF SyncInv, DragEnd, SyncTypeOK, TabOK
<1>2. drag[c].what \in SyncCard \cup {LISTS} /\ drag[c].back \in SyncBoard
  BY <1>1 DEF Dragging
<1>3. /\ drag'[c] = NoDrag /\ drag' \in [Tab -> Dragging \cup {NoDrag}]
      /\ copy' \in [Tab -> SyncBoard \cup {NoBoardYet}]
      /\ \A d \in Tab : d # c => copy'[d] = copy[d] /\ drag'[d] = drag[d]
  BY <1>1 DEF SyncTypeOK
<1>4. PICK what, back : what = drag[c].what /\ back = drag[c].back
  OBVIOUS
<1> QED
  BY <1>1, <1>2, <1>3, <1>4, MutateKeeps

LEMMA MenuMoveKeeps == ASSUME SyncInv, NEW c \in Tab, NEW m \in Change, MenuMove(c, m) PROVE SyncInv'
<1>1. PICK what \in SyncCard \cup {LISTS} : \E b \in Rearranged(copy[c], what) :
         Mutate(m, c, what, b, copy[c]) /\ copy' = [copy EXCEPT ![c] = b]
  BY DEF MenuMove
<1>2. PICK b \in Rearranged(copy[c], what) :
         Mutate(m, c, what, b, copy[c]) /\ copy' = [copy EXCEPT ![c] = b]
  BY <1>1
<1>3. /\ SyncTypeOK /\ drag[c] = NoDrag /\ copy[c] \in SyncBoard
      /\ server' = server /\ drag' = drag /\ live' = live /\ event' = event
      /\ missed' = missed /\ losses' = losses
  BY DEF SyncInv, MenuMove, SyncTypeOK
<1>4. b \in SyncBoard
  BY <1>3, RearrangedBoard
<1>5. /\ drag'[c] = NoDrag /\ drag' \in [Tab -> Dragging \cup {NoDrag}]
      /\ copy' \in [Tab -> SyncBoard \cup {NoBoardYet}]
      /\ \A d \in Tab : d # c => copy'[d] = copy[d] /\ drag'[d] = drag[d]
  BY <1>2, <1>3, <1>4 DEF SyncTypeOK
<1>6. PICK back : back = copy[c]
  OBVIOUS
<1> QED
  BY <1>2, <1>3, <1>4, <1>5, <1>6, MutateKeeps

LEMMA ElsewhereKeeps == ASSUME SyncInv, NEW m \in Change, ChangeElsewhere(m) PROVE SyncInv'
<1>0. SyncTypeOK /\ \A c \in Tab : TabOK(c)
  BY DEF SyncInv
<1>1. PICK what \in SyncCard \cup {LISTS} : \E b \in Rearranged(server, what) :
       change' = [change EXCEPT ![m] = [pc |-> "sent", what |-> what, tab |-> Elsewhere, to |-> b, back |-> server]]
  BY DEF ChangeElsewhere
<1>2. PICK b \in Rearranged(server, what) :
       change' = [change EXCEPT ![m] = [pc |-> "sent", what |-> what, tab |-> Elsewhere, to |-> b, back |-> server]]
  BY <1>1
<1>3. /\ change[m].pc = "free" /\ server \in SyncBoard
      /\ server' = server /\ copy' = copy /\ fetch' = fetch /\ drag' = drag /\ live' = live /\ event' = event
      /\ missed' = missed /\ losses' = losses
  BY <1>0 DEF ChangeElsewhere, SyncTypeOK
<1>4. b \in SyncBoard
  BY <1>3, RearrangedBoard
<1>5. PICK x : x = [pc |-> "sent", what |-> what, tab |-> Elsewhere, to |-> b, back |-> server]
  OBVIOUS
<1>6. x \in Moving /\ x.pc = "sent" /\ x.tab = Elsewhere /\ x.back = server
  BY <1>3, <1>4, <1>5 DEF Moving
<1>7. change' = [change EXCEPT ![m] = x]
  BY <1>2, <1>5
<1>8. /\ change' \in [Change -> Moving]
      /\ \A j \in Change : change'[j].pc \notin {"free", "done"} =>
              change'[j].tab \in Tab \cup {Elsewhere} /\ change'[j].back \in SyncBoard
      /\ Unannounced => Unannounced'
      /\ \A d : (Busy(d) => Busy(d)') /\ (ListsAnswered(d) => ListsAnswered(d)')
  BY <1>0, <1>3, <1>6, <1>7, ChangeMade
<1>9. SyncTypeOK'
  BY <1>0, <1>3, <1>8 DEF SyncTypeOK
<1>10. \A c \in Tab : TabOK(c)'
  BY <1>0, <1>3, <1>8, TabStays
<1> QED
  BY <1>9, <1>10 DEF SyncInv

LEMMA WriteKeeps == ASSUME SyncInv, NEW m \in Change, Write(m) PROVE SyncInv'
<1>0. SyncTypeOK /\ (\A c \in Tab : TabOK(c)) /\ change[m] \in Moving
  BY DEF SyncInv, SyncTypeOK
<1>1. /\ change[m].pc = "sent"
      /\ copy' = copy /\ live' = live /\ event' = event /\ drag' = drag /\ losses' = losses
  BY DEF Write
<1>2. PICK k : k = change[m].what
  OBVIOUS
<1>3. /\ k \in SyncCard \cup {LISTS} /\ change[m].to \in SyncBoard
      /\ change[m].tab \in Tab \cup {Elsewhere} /\ change[m].to.at \in [SyncCard -> Lane] /\ change[m].to.order \in LaneOrder
      /\ server \in SyncBoard /\ server.at \in [SyncCard -> Lane] /\ server.order \in LaneOrder
  BY <1>0, <1>1, <1>2 DEF Moving, SyncTypeOK, SyncBoard
<1>4. CASE k # LISTS
  <2>1. /\ server' = [server EXCEPT !.at[k] = change[m].to.at[k]]
        /\ change' = [change EXCEPT ![m].pc = "written"]
        /\ fetch' = fetch /\ missed' = missed
    BY <1>2, <1>4 DEF Write
  <2>2. server' = [server EXCEPT !.at = [server.at EXCEPT ![k] = change[m].to.at[k]]]
    BY <2>1
  <2>3. [server.at EXCEPT ![k] = change[m].to.at[k]] \in [SyncCard -> Lane]
    BY <1>3, <1>4
  <2>4. server' \in SyncBoard
    BY ONLY <1>3, <2>2, <2>3 DEF SyncBoard
  <2>5. /\ change' \in [Change -> Moving]
        /\ \A j \in Change : change'[j].pc \notin {"free", "done"} =>
              change'[j].tab \in Tab \cup {Elsewhere} /\ change'[j].back \in SyncBoard
        /\ change'[m].pc = "written"
    BY <1>0, <1>1, <2>1, ChangeGoesOn
  <2>6. SyncTypeOK'
    BY <1>0, <1>1, <2>1, <2>4, <2>5 DEF SyncTypeOK
  <2>7. Unannounced'
    BY <2>5 DEF Unannounced
  <2>8. \A c \in Tab : TabOK(c)'
    BY <1>0, <1>1, <2>1, <2>7, TabAwaits DEF Pending
  <2> QED
    BY <2>6, <2>8 DEF SyncInv
<1>5. CASE k = LISTS
  <2> DEFINE S == Tab \ {change[m].tab}
  <2>1. /\ server' = [server EXCEPT !.order = change[m].to.order]
        /\ change' = [change EXCEPT ![m].pc = "answered"]
        /\ Untold(S) /\ S \in SUBSET Tab
    BY <1>2, <1>5 DEF Write
  <2>4. server' \in SyncBoard
    BY <1>3, <2>1 DEF SyncBoard
  <2>5. /\ change' \in [Change -> Moving]
        /\ \A j \in Change : change'[j].pc \notin {"free", "done"} =>
              change'[j].tab \in Tab \cup {Elsewhere} /\ change'[j].back \in SyncBoard
        /\ change'[m].pc = "answered" /\ change'[m].tab = change[m].tab /\ change'[m].what = change[m].what
    BY <1>0, <1>1, <2>1, ChangeGoesOn
  <2>6. \A c \in Tab \ S : Pending(c)'
    BY <1>2, <1>5, <2>5 DEF Pending, Busy, ListsAnswered
  <2> HIDE DEF S
  <2>7. /\ \A c \in Tab : TabOK(c)'
        /\ missed' \in [Tab -> BOOLEAN] /\ fetch' \in [Tab -> Fetching \cup {NoFetch}]
    BY <1>0, <1>1, <2>1, <2>6, UntoldTabs
  <2>8. SyncTypeOK'
    BY <1>0, <1>1, <2>4, <2>5, <2>7 DEF SyncTypeOK
  <2> QED
    BY <2>7, <2>8 DEF SyncInv
<1> QED
  BY <1>4, <1>5

LEMMA AnnounceKeeps == ASSUME SyncInv, NEW m \in Change, Announce(m) PROVE SyncInv'
<1>0. SyncTypeOK /\ (\A c \in Tab : TabOK(c))
  BY DEF SyncInv
<1> DEFINE S == {c \in Tab : ~live[c]}
<1>1. /\ change[m].pc = "written" /\ Untold(S) /\ S \in SUBSET Tab
      /\ event' = [c \in Tab |-> event[c] \/ live[c]]
      /\ change' = [change EXCEPT ![m].pc = "answered"]
      /\ server' = server /\ copy' = copy /\ live' = live /\ drag' = drag /\ losses' = losses
  BY DEF Announce
<1>2. /\ change' \in [Change -> Moving]
      /\ \A j \in Change : change'[j].pc \notin {"free", "done"} =>
              change'[j].tab \in Tab \cup {Elsewhere} /\ change'[j].back \in SyncBoard
  BY <1>0, <1>1, ChangeGoesOn
<1>3. \A c \in Tab \ S : Pending(c)'
  BY <1>1 DEF Pending
<1>4. event' \in [Tab -> BOOLEAN]
  BY <1>1
<1> HIDE DEF S
<1>5. /\ \A c \in Tab : TabOK(c)'
      /\ missed' \in [Tab -> BOOLEAN] /\ fetch' \in [Tab -> Fetching \cup {NoFetch}]
  BY <1>0, <1>1, <1>3, UntoldTabs
<1>6. SyncTypeOK'
  BY <1>0, <1>1, <1>2, <1>4, <1>5 DEF SyncTypeOK
<1> QED
  BY <1>5, <1>6 DEF SyncInv

LEMMA WriteUntoldKeeps == ASSUME SyncInv, WriteUntold PROVE SyncInv'
<1>0. SyncTypeOK /\ (\A c \in Tab : TabOK(c))
  BY DEF SyncInv
<1>1. /\ Untold(Tab) /\ losses' \in 0..MaxLosses
      /\ copy' = copy /\ live' = live /\ event' = event /\ change' = change /\ drag' = drag
  BY <1>0, Losing DEF WriteUntold
<1>2. server' \in SyncBoard
  <2>1. PICK k \in SyncCard : server' \in Rearranged(server, k)
    BY DEF WriteUntold
  <2> QED
    BY <1>0, <2>1, RearrangedBoard DEF SyncTypeOK
<1>3. Tab \in SUBSET Tab /\ Tab \ Tab = {}
  OBVIOUS
<1>4. /\ \A c \in Tab : TabOK(c)'
      /\ missed' \in [Tab -> BOOLEAN] /\ fetch' \in [Tab -> Fetching \cup {NoFetch}]
  BY <1>0, <1>1, <1>3, UntoldTabs
<1>5. SyncTypeOK'
  BY <1>0, <1>1, <1>2, <1>4 DEF SyncTypeOK
<1> QED
  BY <1>4, <1>5 DEF SyncInv

LEMMA BreakKeeps == ASSUME SyncInv, NEW m \in Change, Break(m) PROVE SyncInv'
<1>0. SyncTypeOK /\ (\A c \in Tab : TabOK(c))
  BY DEF SyncInv
<1>1. /\ change[m].pc \in {"sent", "written", "answered"} /\ losses' \in 0..MaxLosses
      /\ change' = [change EXCEPT ![m].pc = "failed"]
      /\ server' = server /\ copy' = copy /\ live' = live /\ event' = event /\ drag' = drag
  BY <1>0, Losing DEF Break
<1>2. /\ change' \in [Change -> Moving]
      /\ \A j \in Change : change'[j].pc \notin {"free", "done"} =>
              change'[j].tab \in Tab \cup {Elsewhere} /\ change'[j].back \in SyncBoard
      /\ \A j \in Change : j # m => change'[j] = change[j]
      /\ \A c : Busy(c) => Busy(c)'
      /\ \A c : change[m].tab # c => (ListsAnswered(c) => ListsAnswered(c)')
  BY <1>0, <1>1, ChangeGoesOn
<1>3. PICK S \in SUBSET Tab :
        /\ Untold(S)
        /\ change[m].pc = "written" => S = Tab
        /\ \A c \in Tab \ S : change[m].pc = "answered" /\ change[m].what = LISTS => change[m].tab # c
  <2>1. CASE change[m].pc = "written"
    <3>1. Untold(Tab)
      BY <2>1 DEF Break
    <3> QED
      BY <2>1, <3>1
  <2>2. CASE change[m].pc = "answered" /\ change[m].what = LISTS
    <3>1. Untold({change[m].tab})
      BY <2>2 DEF Break
    <3>2. Untold({change[m].tab} \cap Tab)
      BY <3>1 DEF Untold
    <3> QED
      BY <2>2, <3>2
  <2>3. CASE ~(change[m].pc = "written") /\ ~(change[m].pc = "answered" /\ change[m].what = LISTS)
    <3>1. Untold({})
      BY <2>3 DEF Break
    <3> QED
      BY <2>3, <3>1
  <2> QED
    BY <2>1, <2>2, <2>3
<1>4. ASSUME NEW c \in Tab \ S
      PROVE  /\ Unannounced => Unannounced'
             /\ Busy(c) => Busy(c)'
             /\ ListsAnswered(c) => ListsAnswered(c)'
  <2>1. change[m].pc # "written"
    BY <1>3
  <2>2. Unannounced => Unannounced'
    BY <1>2, <2>1 DEF Unannounced
  <2>3. ListsAnswered(c) => ListsAnswered(c)'
    BY <1>2, <1>3 DEF ListsAnswered
  <2> QED
    BY <1>2, <2>2, <2>3
<1>5. /\ \A c \in Tab : TabOK(c)'
      /\ missed' \in [Tab -> BOOLEAN] /\ fetch' \in [Tab -> Fetching \cup {NoFetch}]
  BY <1>0, <1>1, <1>3, <1>4, UntoldTabs
<1>6. SyncTypeOK'
  BY <1>0, <1>1, <1>2, <1>5 DEF SyncTypeOK
<1> QED
  BY <1>5, <1>6 DEF SyncInv

LEMMA SettleKeeps == ASSUME SyncInv, NEW m \in Change, Succeed(m) \/ Revert(m) PROVE SyncInv'
<1>0. SyncTypeOK /\ (\A c \in Tab : TabOK(c))
  BY DEF SyncInv
<1>1. PICK t : t = change[m].tab
  OBVIOUS
<1>2. /\ change[m].pc \in {"answered", "failed"} /\ change' = [change EXCEPT ![m] = Closed]
      /\ server' = server /\ live' = live /\ event' = event /\ drag' = drag /\ losses' = losses
      /\ change[m].back \in SyncBoard /\ change[m].back # NoBoardYet
  BY <1>0, SyncConstants DEF Succeed, Revert, SyncTypeOK
<1>3. /\ change' \in [Change -> Moving]
      /\ \A j \in Change : change'[j].pc \notin {"free", "done"} =>
              change'[j].tab \in Tab \cup {Elsewhere} /\ change'[j].back \in SyncBoard
      /\ Unannounced => Unannounced'
      /\ \A c : t # c => (Busy(c) => Busy(c)')
      /\ \A c : t # c \/ change[m].pc = "failed" => (ListsAnswered(c) => ListsAnswered(c)')
  BY <1>0, <1>1, <1>2, ChangeEnds
<1>4. \/ /\ fetch' = [c \in Tab |-> IF c = t THEN Sent ELSE fetch[c]] /\ missed' = missed
         /\ copy' = copy \/ copy' = [c \in Tab |-> IF c = t THEN change[m].back ELSE copy[c]]
      \/ /\ change[m].pc = "failed" /\ fetch' = fetch /\ missed' = [c \in Tab |-> missed[c] \/ c = t]
         /\ copy' = [c \in Tab |-> IF c = t THEN change[m].back ELSE copy[c]]
  BY <1>1 DEF Succeed, Revert, Invalidate, PutBack
<1>5. /\ copy' \in [Tab -> SyncBoard \cup {NoBoardYet}] /\ missed' \in [Tab -> BOOLEAN]
      /\ fetch' \in [Tab -> Fetching \cup {NoFetch}]
  <2>1. /\ copy \in [Tab -> SyncBoard \cup {NoBoardYet}] /\ missed \in [Tab -> BOOLEAN]
        /\ fetch \in [Tab -> Fetching \cup {NoFetch}] /\ Sent \in Fetching
    BY <1>0, Shapes DEF SyncTypeOK
  <2>2. change[m].back \in SyncBoard
    BY <1>2
  <2>3. copy' \in [Tab -> SyncBoard \cup {NoBoardYet}]
    BY ONLY <1>4, <2>1, <2>2
  <2>4. missed' \in [Tab -> BOOLEAN]
    BY ONLY <1>4, <2>1
  <2>5. fetch' \in [Tab -> Fetching \cup {NoFetch}]
    BY ONLY <1>4, <2>1
  <2> QED
    BY <2>3, <2>4, <2>5
<1>6. SyncTypeOK'
  BY <1>0, <1>2, <1>3, <1>5 DEF SyncTypeOK
<1>7. ASSUME NEW c \in Tab, c # t PROVE TabOK(c)'
  <2>1. copy'[c] = copy[c] /\ fetch'[c] = fetch[c] /\ missed'[c] = missed[c]
    BY <1>0, <1>4, <1>7 DEF SyncTypeOK
  <2> QED
    BY <1>0, <1>2, <1>3, <1>7, <2>1, TabStays
<1>8. ASSUME NEW c \in Tab, c = t PROVE TabOK(c)'
  <2>1. copy[c] # NoBoardYet => copy'[c] # NoBoardYet
    BY <1>0, <1>2, <1>4, <1>8 DEF SyncTypeOK
  <2>2. CASE fetch' = [d \in Tab |-> IF d = t THEN Sent ELSE fetch[d]]
    BY <1>0, <1>2, <1>8, <2>1, <2>2, Shapes, TabFetches
  <2>3. CASE change[m].pc = "failed" /\ fetch' = fetch /\ missed' = [d \in Tab |-> missed[d] \/ d = t]
    BY <1>0, <1>2, <1>3, <1>8, <2>1, <2>3, TabMissed
  <2> QED
    BY <1>4, <2>2, <2>3
<1> QED
  BY <1>6, <1>7, <1>8 DEF SyncInv

LEMMA SyncStutters == ASSUME SyncInv, UNCHANGED syncVars PROVE SyncInv'
<1>1. /\ server' = server /\ copy' = copy /\ live' = live /\ event' = event /\ change' = change
      /\ drag' = drag /\ missed' = missed /\ losses' = losses /\ fetch' = fetch
  BY DEF syncVars
<1>2. SyncTypeOK'
  BY <1>1 DEF SyncInv, SyncTypeOK
<1>3. \A c \in Tab : TabOK(c)'
  BY <1>1, SameChanges, TabStays DEF SyncInv
<1> QED
  BY <1>2, <1>3 DEF SyncInv

LEMMA SyncInvKept == SyncInv /\ [SyncNext]_syncVars => SyncInv'
<1>1. ASSUME SyncInv, SyncNext PROVE SyncInv'
  BY <1>1, VisitKeeps, ReadServerKeeps, ArriveKeeps, FetchFailsKeeps, SocketKeeps, OnEventKeeps, DragStartKeeps,
     DragOverKeeps, DragStopKeeps, DragEndKeeps, MenuMoveKeeps, WriteKeeps, ElsewhereKeeps, AnnounceKeeps,
     WriteUntoldKeeps, BreakKeeps, SettleKeeps DEF SyncNext
<1> QED
  BY <1>1, SyncStutters

\* Whatever a tab shows, waits for or would put back is the server's board, unless
\* an event, an answer or a settled change is still to come (use-realtime-board.ts,
\* use-cards.ts, use-kanban-drag.ts).
THEOREM SyncInvHolds == SyncSpec => []SyncInv
BY SyncInvKept, SyncStarts, PTL DEF SyncSpec

\* A tab at rest that missed nothing shows the server's board.
THEOREM RestingTabShowsBoardHolds == SyncSpec => []RestingTabShowsBoard
<1>1. SyncInv => RestingTabShowsBoard
  BY DEF SyncInv, RestingTabShowsBoard, AtRest, TabOK, Unannounced, Busy
<1> QED
  BY <1>1, SyncInvHolds, PTL

-----------------------------------------------------------------------------
(***************************************************************************)
(* That the user a turn of a card concerns is told once: what is in the    *)
(* queue and what the requests under way still owe is the number of turns  *)
(* (Even), unless a request wrote over another's.                          *)
(***************************************************************************)

\* Who will still be told, by what a request left behind.
Owes(k, c, u, n) ==
  LET q == notice[k]
  IN  /\ q.card = c
      /\ \/ q.pc \in {"board", "assigned"} /\ n = "card.assigned" /\ u \in newAssignee(q, q.old)
         \/ q.pc \in {"board", "assigned", "completed"} /\ n = "card.completed" /\ u \in toldOwner(q, q.old)
         \/ q.pc = "commented" /\ n = "comment.created" /\ u \in recipients(q, kata[c])
         \/ q.pc \in {"comment board", "create many"} /\ n = "comment.created" /\ u \in recipients(q, q.old)

Debt(c, u, n) == {k \in NoticeCall : Owes(k, c, u, n)}

Even(c, u, n) ==
  /\ IsFiniteSet(Debt(c, u, n))
  /\ queue[c][u][n] + Cardinality(Debt(c, u, n)) = turns[c][u][n]

\* Calls that have read the card, or written it, and go by what they know.
Late == {"update", "board", "assigned", "completed", "commented", "comment board", "create many"}

RequestOK(k) ==
  LET q == notice[k]
  IN  /\ q.pc = "completed" => toldOwner(q, q.old) = {Owner}
      /\ q.card \notin overtaken =>
           /\ q.pc = "update" => kata[q.card] = q.old
           /\ q.pc = "commented" => kata[q.card] # NoKata
           /\ q.pc \in Late => board

NoticesInv ==
  /\ NoticesTypeOK
  /\ ~board => \A c \in Kata : kata[c] = NoKata
  /\ \A k \in NoticeCall : RequestOK(k)
  /\ \A c \in Kata : c \notin overtaken => \A u \in Recipient, n \in Kinds : Even(c, u, n)

-----------------------------------------------------------------------------
(* Counting.                                                                *)

\* A turn that is owed, or told, or neither.
Balanced(k, c, u, n) ==
  \/ queue'[c][u][n] = queue[c][u][n] /\ turns'[c][u][n] = turns[c][u][n] /\ (Owes(k, c, u, n)' <=> Owes(k, c, u, n))
  \/ queue'[c][u][n] = queue[c][u][n] /\ turns'[c][u][n] = turns[c][u][n] + 1 /\ ~Owes(k, c, u, n) /\ Owes(k, c, u, n)'
  \/ queue'[c][u][n] = queue[c][u][n] + 1 /\ turns'[c][u][n] = turns[c][u][n] /\ Owes(k, c, u, n) /\ ~Owes(k, c, u, n)'

LEMMA EvenKept ==
  ASSUME NEW c, NEW u, NEW n, Even(c, u, n), NEW k \in NoticeCall,
         \A j \in NoticeCall : j # k => (Owes(j, c, u, n)' <=> Owes(j, c, u, n)),
         queue[c][u][n] \in Nat, turns[c][u][n] \in Nat, Balanced(k, c, u, n)
  PROVE  Even(c, u, n)'
<1> DEFINE D == Debt(c, u, n)
           D2 == Debt(c, u, n)'
<1>1. IsFiniteSet(D) /\ queue[c][u][n] + Cardinality(D) = turns[c][u][n] /\ Cardinality(D) \in Nat
  BY FS_CardinalityType DEF Even
<1>2. /\ D2 = {j \in NoticeCall : Owes(j, c, u, n)'}
      /\ D = {j \in NoticeCall : Owes(j, c, u, n)}
  BY DEF Debt
<1>3. CASE Owes(k, c, u, n)' <=> Owes(k, c, u, n)
  <2>1. D2 = D
    BY <1>2, <1>3
  <2>2. queue'[c][u][n] = queue[c][u][n] /\ turns'[c][u][n] = turns[c][u][n]
    BY <1>3 DEF Balanced
  <2> QED
    BY <1>1, <2>1, <2>2 DEF Even
<1>4. CASE ~Owes(k, c, u, n) /\ Owes(k, c, u, n)'
  <2>1. D2 = D \cup {k} /\ k \notin D
    BY <1>2, <1>4
  <2>2. queue'[c][u][n] = queue[c][u][n] /\ turns'[c][u][n] = turns[c][u][n] + 1
    BY <1>4 DEF Balanced
  <2> HIDE DEF D, D2
  <2>3. IsFiniteSet(D2) /\ Cardinality(D2) = Cardinality(D) + 1
    BY <1>1, <2>1, FS_AddElement
  <2>4. queue'[c][u][n] + Cardinality(D2) = turns'[c][u][n]
    BY <1>1, <2>2, <2>3
  <2> QED
    BY <2>3, <2>4 DEF Even, D2
<1>5. CASE Owes(k, c, u, n) /\ ~Owes(k, c, u, n)'
  <2>1. D2 = D \ {k} /\ k \in D
    BY <1>2, <1>5
  <2>2. queue'[c][u][n] = queue[c][u][n] + 1 /\ turns'[c][u][n] = turns[c][u][n]
    BY <1>5 DEF Balanced
  <2> HIDE DEF D, D2
  <2>3. IsFiniteSet(D2) /\ Cardinality(D2) = Cardinality(D) - 1
    BY <1>1, <2>1, FS_RemoveElement
  <2>4. queue'[c][u][n] + Cardinality(D2) = turns'[c][u][n]
    BY <1>1, <2>2, <2>3
  <2> QED
    BY <2>3, <2>4 DEF Even, D2
<1> QED
  BY <1>3, <1>4, <1>5

LEMMA OthersOwe ==
  ASSUME NEW j, notice'[j] = notice[j], NEW c,
         kata'[c] = kata[c] \/ notice[j].card # c \/ notice[j].pc # "commented"
  PROVE  \A u, n : Owes(j, c, u, n)' <=> Owes(j, c, u, n)
BY DEF Owes

LEMMA OthersOK ==
  ASSUME NEW j, RequestOK(j), notice'[j] = notice[j], \A c : c \in overtaken => c \in overtaken', board' = board,
         \/ kata'[notice[j].card] = kata[notice[j].card]
         \/ notice[j].pc \notin {"update", "commented"}
         \/ notice[j].card \in overtaken'
  PROVE  RequestOK(j)'
BY DEF RequestOK

\* One request goes a step.
LEMMA OneStep ==
  ASSUME NoticesInv, NEW k \in NoticeCall, NEW q \in NoticeRequest, notice' = [notice EXCEPT ![k] = q],
         kata' \in [Kata -> KataRow \cup {NoKata}], queue' \in Counts, turns' \in Counts, board' = board,
         noticed' \in 0..MaxNoticeCalls, noticeFails' \in 0..MaxNoticeFails,
         \A c : c \in overtaken => c \in overtaken', \A c : c \in overtaken' => c \in Kata,
         ~board => \A c \in Kata : kata'[c] = NoKata,
         \A c \in Kata : \/ kata'[c] = kata[c]
                         \/ c \in overtaken'
                         \/ \A j \in NoticeCall : j # k => notice[j].card # c \/ notice[j].pc \notin {"update", "commented"},
         q.pc # "idle" => q.card \in Kata,
         q.pc \in {"update", "board", "assigned", "completed", "comment board", "create many"} => q.old \in KataRow,
         q.pc = "assigned" => q.assignee \in Recipient,
         RequestOK(k)',
         \A c \in Kata : c \notin overtaken' => \A u \in Recipient, n \in Kinds : Balanced(k, c, u, n)
  PROVE  NoticesInv'
<1>1. NoticesTypeOK /\ \A j \in NoticeCall : RequestOK(j)
  BY DEF NoticesInv
<1>2. \A j \in NoticeCall : notice'[j] = IF j = k THEN q ELSE notice[j]
  BY <1>1 DEF NoticesTypeOK
<1>3. NoticesTypeOK'
  <2>1. notice' \in [NoticeCall -> NoticeRequest]
    BY <1>1 DEF NoticesTypeOK
  <2>2. \A j \in NoticeCall :
          /\ notice'[j].pc # "idle" => notice'[j].card \in Kata
          /\ notice'[j].pc \in {"update", "board", "assigned", "completed", "comment board", "create many"} => notice'[j].old \in KataRow
          /\ notice'[j].pc = "assigned" => notice'[j].assignee \in Recipient
    BY <1>1, <1>2 DEF NoticesTypeOK
  <2>3. board' \in BOOLEAN /\ overtaken' \subseteq Kata
    BY <1>1 DEF NoticesTypeOK
  <2> QED
    BY <2>1, <2>2, <2>3 DEF NoticesTypeOK
<1>4. \A j \in NoticeCall : RequestOK(j)'
  <2> SUFFICES ASSUME NEW j \in NoticeCall, j # k PROVE RequestOK(j)'
    OBVIOUS
  <2>1. notice'[j] = notice[j] /\ RequestOK(j)
    BY <1>1, <1>2
  <2>2. notice[j].pc # "idle" => notice[j].card \in Kata
    BY <1>1 DEF NoticesTypeOK
  <2>3. \/ kata'[notice[j].card] = kata[notice[j].card]
        \/ notice[j].pc \notin {"update", "commented"}
        \/ notice[j].card \in overtaken'
    BY <2>2
  <2> QED
    BY <2>1, <2>3, OthersOK
<1>5. ASSUME NEW c \in Kata, c \notin overtaken', NEW u \in Recipient, NEW n \in Kinds PROVE Even(c, u, n)'
  <2>1. Even(c, u, n) /\ Balanced(k, c, u, n)
    BY <1>5 DEF NoticesInv
  <2>2. queue[c][u][n] \in Nat /\ turns[c][u][n] \in Nat
    <3>1. queue \in Counts /\ turns \in Counts
      BY <1>1 DEF NoticesTypeOK
    <3> QED
      BY ONLY <3>1, c \in Kata, u \in Recipient, n \in Kinds DEF Counts
  <2>3. ASSUME NEW j \in NoticeCall, j # k PROVE Owes(j, c, u, n)' <=> Owes(j, c, u, n)
    <3>1. notice'[j] = notice[j]
      BY <1>2, <2>3
    <3>2. kata'[c] = kata[c] \/ notice[j].card # c \/ notice[j].pc # "commented"
      BY <1>5, <2>3
    <3> QED
      BY <3>1, <3>2, OthersOwe
  <2> QED
    BY <2>1, <2>2, <2>3, EvenKept
<1>6. (~board => \A c \in Kata : kata[c] = NoKata)'
  OBVIOUS
<1> QED
  BY <1>3, <1>4, <1>5, <1>6 DEF NoticesInv

\* What a request is, further on.
LEMMA FurtherOn ==
  ASSUME NEW q \in NoticeRequest, NEW pc \in Stations, NEW x, x = [q EXCEPT !.pc = pc]
  PROVE  /\ x \in NoticeRequest /\ x.pc = pc /\ x.card = q.card /\ x.assignee = q.assignee /\ x.old = q.old
         /\ \A row : newAssignee(x, row) = newAssignee(q, row)
         /\ \A row : toldOwner(x, row) = toldOwner(q, row)
         /\ \A row : recipients(x, row) = recipients(q, row)
<1>1. /\ x \in NoticeRequest /\ x.pc = pc /\ x.card = q.card /\ x.assignee = q.assignee
      /\ x.by = q.by /\ x.mentions = q.mentions /\ x.old = q.old
  BY DEF NoticeRequest
<1>2. x.sealed = q.sealed
  BY DEF NoticeRequest
<1>3. \A row : newAssignee(x, row) = newAssignee(q, row)
  BY <1>1 DEF newAssignee
<1>4. \A row : recipients(x, row) = recipients(q, row)
  BY <1>1 DEF recipients
<1>5. \A row : toldOwner(x, row) = toldOwner(q, row)
  BY <1>1, <1>2 DEF toldOwner
<1> QED
  BY <1>1, <1>3, <1>4, <1>5

LEMMA NobodyOwes == NoNotice \in NoticeRequest /\ NoNotice.pc = "idle"
<1>1. Owner \in Recipient
  BY NoticeConstants
<1> QED
  BY <1>1 DEF NoNotice, NoticeRequest, Stations

LEMMA CountedAt ==
  ASSUME NEW m \in Counts, NEW c \in Kata, NEW who, NEW kind \in Kinds
  PROVE  /\ Counted(m, c, who, kind) \in Counts
         /\ \A d \in Kata, u \in Recipient, n \in Kinds :
              Counted(m, c, who, kind)[d][u][n] = IF d = c /\ n = kind /\ u \in who THEN m[d][u][n] + 1 ELSE m[d][u][n]
<1>1. /\ m \in [Kata -> [Recipient -> [Kinds -> Nat]]] /\ m[c] \in [Recipient -> [Kinds -> Nat]]
      /\ \A u \in Recipient : m[c][u] \in [Kinds -> Nat] /\ m[c][u][kind] \in Nat
  BY DEF Counts
<1> DEFINE add(u) == [m[c][u] EXCEPT ![kind] = m[c][u][kind] + IF u \in who THEN 1 ELSE 0]
           row    == [u \in Recipient |-> add(u)]
<1>2. \A u \in Recipient : /\ add(u) \in [Kinds -> Nat]
                           /\ \A n \in Kinds : add(u)[n] = IF n = kind /\ u \in who THEN m[c][u][n] + 1 ELSE m[c][u][n]
  <2> SUFFICES ASSUME NEW u \in Recipient
               PROVE  /\ add(u) \in [Kinds -> Nat]
                      /\ \A n \in Kinds : add(u)[n] = IF n = kind /\ u \in who THEN m[c][u][n] + 1 ELSE m[c][u][n]
    OBVIOUS
  <2>1. m[c][u] \in [Kinds -> Nat] /\ m[c][u][kind] \in Nat
    BY <1>1
  <2>2. PICK f : f = m[c][u]
    OBVIOUS
  <2>3. add(u) = [f EXCEPT ![kind] = f[kind] + IF u \in who THEN 1 ELSE 0]
    BY <2>2
  <2>4. f \in [Kinds -> Nat]
    BY <2>1, <2>2
  <2>5. PICK v \in Nat : v = f[kind] + IF u \in who THEN 1 ELSE 0
    BY <2>4
  <2>6. add(u) = [f EXCEPT ![kind] = v]
    BY <2>3, <2>5
  <2> HIDE DEF add
  <2>7. add(u) \in [Kinds -> Nat] /\ \A n \in Kinds : add(u)[n] = IF n = kind THEN v ELSE f[n]
    BY <2>4, <2>6
  <2>8. \A n \in Kinds : f[n] \in Nat
    BY <2>4
  <2> QED
    BY <2>2, <2>5, <2>7, <2>8
<1> HIDE DEF add
<1>3. row \in [Recipient -> [Kinds -> Nat]]
  BY <1>2
<1>4. Counted(m, c, who, kind) = [m EXCEPT ![c] = row]
  BY DEF Counted, add
<1>5. Counted(m, c, who, kind) \in Counts
  BY <1>1, <1>3, <1>4 DEF Counts
<1>6. \A d \in Kata : Counted(m, c, who, kind)[d] = IF d = c THEN row ELSE m[d]
  BY <1>1, <1>4
<1>7. \A u \in Recipient : row[u] = add(u)
  OBVIOUS
<1> HIDE DEF row
<1> QED
  BY <1>2, <1>5, <1>6, <1>7

-----------------------------------------------------------------------------
(* The steps.                                                               *)

\* A step that leaves all but the request alone, and what it owes.
LEMMA OnlyTheRequest ==
  ASSUME NoticesInv, NEW k \in NoticeCall, NEW q \in NoticeRequest, notice' = [notice EXCEPT ![k] = q],
         kata' = kata, board' = board, queue' = queue, turns' = turns, overtaken' = overtaken,
         noticed' \in 0..MaxNoticeCalls, noticeFails' = noticeFails,
         q.pc # "idle" => q.card \in Kata,
         q.pc \in {"update", "board", "assigned", "completed", "comment board", "create many"} => q.old \in KataRow,
         q.pc = "assigned" => q.assignee \in Recipient,
         RequestOK(k)',
         \A c \in Kata : c \notin overtaken => \A u \in Recipient, n \in Kinds : Owes(k, c, u, n)' <=> Owes(k, c, u, n)
  PROVE  NoticesInv'
<1>1. NoticesTypeOK /\ (~board => \A c \in Kata : kata[c] = NoKata)
  BY DEF NoticesInv
<1>2. /\ kata' \in [Kata -> KataRow \cup {NoKata}] /\ queue' \in Counts /\ turns' \in Counts
      /\ noticeFails' \in 0..MaxNoticeFails /\ \A c : c \in overtaken' => c \in Kata
  BY <1>1 DEF NoticesTypeOK
<1>3. \A c \in Kata : c \notin overtaken' => \A u \in Recipient, n \in Kinds : Balanced(k, c, u, n)
  BY DEF Balanced
<1> QED
  BY <1>1, <1>2, <1>3, OneStep

LEMMA BeginKeeps ==
  ASSUME NoticesInv, NEW k \in NoticeCall, NEW q \in NoticeRequest, q.card \in Kata,
         q.pc \in {"find", "comment", "check", "find gone"}, Begin(k, q)
  PROVE  NoticesInv'
<1>0. NoticesTypeOK
  BY DEF NoticesInv
<1>1. /\ notice[k].pc = "idle" /\ noticed < MaxNoticeCalls /\ noticed' = noticed + 1
      /\ notice' = [notice EXCEPT ![k] = q]
      /\ kata' = kata /\ board' = board /\ queue' = queue /\ turns' = turns /\ overtaken' = overtaken
      /\ noticeFails' = noticeFails
  BY DEF Begin
<1>2. noticed' \in 0..MaxNoticeCalls
  <2>1. noticed \in 0..MaxNoticeCalls /\ MaxNoticeCalls \in Nat
    BY <1>0, NoticeConstants DEF NoticesTypeOK
  <2> QED
    BY ONLY <1>1, <2>1
<1>3. notice'[k] = q
  BY <1>0, <1>1 DEF NoticesTypeOK
<1>4. RequestOK(k)'
  BY <1>3 DEF RequestOK, Late
<1>5. \A c, u, n : ~Owes(k, c, u, n) /\ ~Owes(k, c, u, n)'
  BY <1>1, <1>3 DEF Owes
<1> QED
  BY <1>1, <1>2, <1>4, <1>5, OnlyTheRequest

LEMMA StartsKeep ==
  ASSUME NoticesInv, NEW k \in NoticeCall,
         StartUpdate(k) \/ StartComment(k) \/ StartBulk(k) \/ StartDelete(k)
  PROVE  NoticesInv'
<1>0. Owner \in Recipient
  BY NoticeConstants
<1>1. CASE StartUpdate(k)
  <2>1. PICK c \in Kata, u \in Recipient, a \in Recipient \cup {Unassigned, Same}, s \in {TRUE, FALSE, Same} :
          Begin(k, [NoNotice EXCEPT !.pc = "find", !.card = c, !.by = u, !.assignee = a, !.sealed = s])
    BY <1>1 DEF StartUpdate
  <2>2. PICK q : q = [NoNotice EXCEPT !.pc = "find", !.card = c, !.by = u, !.assignee = a, !.sealed = s]
    OBVIOUS
  <2>3. q \in NoticeRequest /\ q.card \in Kata /\ q.pc = "find"
    BY ONLY <1>0, <2>1, <2>2, c \in Kata, u \in Recipient, a \in Recipient \cup {Unassigned, Same}, s \in {TRUE, FALSE, Same}
       DEF NoNotice, NoticeRequest, Stations
  <2> QED
    BY <2>1, <2>2, <2>3, BeginKeeps
<1>2. CASE StartComment(k)
  <2>1. PICK c \in Kata, u \in Recipient, m \in SUBSET Recipient :
          Begin(k, [NoNotice EXCEPT !.pc = "comment", !.card = c, !.by = u, !.mentions = m])
    BY <1>2 DEF StartComment
  <2>2. PICK q : q = [NoNotice EXCEPT !.pc = "comment", !.card = c, !.by = u, !.mentions = m]
    OBVIOUS
  <2>3. q \in NoticeRequest /\ q.card \in Kata /\ q.pc = "comment"
    BY <1>0, <2>2 DEF NoNotice, NoticeRequest, Stations
  <2> QED
    BY <2>1, <2>2, <2>3, BeginKeeps
<1>3. CASE StartBulk(k)
  <2>1. PICK c \in Kata, a \in Recipient \cup {Unassigned, Same}, s \in {TRUE, FALSE, Same} :
          Begin(k, [NoNotice EXCEPT !.pc = "check", !.card = c, !.assignee = a, !.sealed = s])
    BY <1>3 DEF StartBulk
  <2>2. PICK q : q = [NoNotice EXCEPT !.pc = "check", !.card = c, !.assignee = a, !.sealed = s]
    OBVIOUS
  <2>3. q \in NoticeRequest /\ q.card \in Kata /\ q.pc = "check"
    BY ONLY <1>0, <2>1, <2>2, c \in Kata, a \in Recipient \cup {Unassigned, Same}, s \in {TRUE, FALSE, Same}
       DEF NoNotice, NoticeRequest, Stations
  <2> QED
    BY <2>1, <2>2, <2>3, BeginKeeps
<1>4. CASE StartDelete(k)
  <2>1. PICK c \in Kata : Begin(k, [NoNotice EXCEPT !.pc = "find gone", !.card = c])
    BY <1>4 DEF StartDelete
  <2>2. PICK q : q = [NoNotice EXCEPT !.pc = "find gone", !.card = c]
    OBVIOUS
  <2>3. q \in NoticeRequest /\ q.card \in Kata /\ q.pc = "find gone"
    BY <1>0, <2>2 DEF NoNotice, NoticeRequest, Stations
  <2> QED
    BY <2>1, <2>2, <2>3, BeginKeeps
<1> QED
  BY <1>1, <1>2, <1>3, <1>4

\* Reading the card: before a write, or to tell of a comment.
LEMMA ReadKatasKeeps ==
  ASSUME NoticesInv, NEW k \in NoticeCall, FindCard(k) \/ FindCommented(k) \/ FindDeleted(k)
  PROVE  NoticesInv'
<1>0. /\ NoticesTypeOK /\ RequestOK(k) /\ notice[k] \in NoticeRequest
      /\ ~board => \A c \in Kata : kata[c] = NoKata
  BY DEF NoticesInv, NoticesTypeOK
<1>1. PICK q : q = notice[k]
  OBVIOUS
<1>2. PICK row : row = kata[q.card]
  OBVIOUS
<1>3. PICK pc \in {"update", "comment board", "delete"} :
        /\ ReadCard(k, pc)
        /\ pc = "update" => q.pc = "find"
        /\ pc = "comment board" => q.pc = "commented"
        /\ pc = "delete" => q.pc = "find gone"
  BY <1>1 DEF FindCard, FindCommented, FindDeleted
<1>4. /\ kata' = kata /\ board' = board /\ queue' = queue /\ turns' = turns /\ overtaken' = overtaken
      /\ noticeFails' = noticeFails /\ noticed' = noticed /\ noticed \in 0..MaxNoticeCalls
  BY <1>0 DEF FindCard, FindCommented, FindDeleted, NothingStored, NoticesTypeOK
<1>5. q.card \in Kata /\ row \in KataRow \cup {NoKata} /\ q \in NoticeRequest
  BY <1>0, <1>1, <1>2, <1>3 DEF NoticesTypeOK
<1>6. CASE row = NoKata
  <2>1. notice' = [notice EXCEPT ![k] = NoNotice]
    BY <1>1, <1>2, <1>3, <1>6 DEF ReadCard
  <2>2. notice'[k] = NoNotice
    BY <1>0, <2>1 DEF NoticesTypeOK
  <2>3. RequestOK(k)' /\ \A c, u, n : ~Owes(k, c, u, n)'
    BY <2>2, NobodyOwes DEF RequestOK, Owes, Late
  <2>4. \A c \in Kata : c \notin overtaken => \A u, n : ~Owes(k, c, u, n)
    BY <1>0, <1>1, <1>2, <1>3, <1>6 DEF RequestOK, Owes
  <2> QED
    BY <1>4, <2>1, <2>3, <2>4, NobodyOwes, OnlyTheRequest
<1>7. CASE row # NoKata
  <2>1. PICK x : x = [q EXCEPT !.pc = pc, !.old = row]
    OBVIOUS
  <2>2. notice' = [notice EXCEPT ![k] = x]
    BY <1>1, <1>2, <1>3, <1>7, <2>1 DEF ReadCard
  <2>3. /\ x \in NoticeRequest /\ x.pc = pc /\ x.card = q.card /\ x.old = row
        /\ \A r : recipients(x, r) = recipients(q, r)
    <3>1. pc \in Stations
      BY DEF Stations
    <3>2. /\ x \in NoticeRequest /\ x.pc = pc /\ x.card = q.card /\ x.old = row
          /\ x.by = q.by /\ x.mentions = q.mentions
      BY ONLY <1>5, <2>1, <3>1 DEF NoticeRequest
    <3>3. \A r : recipients(x, r) = recipients(q, r)
      BY ONLY <3>2 DEF recipients
    <3> QED
      BY ONLY <3>2, <3>3
  <2>4. notice'[k] = x
    BY <1>0, <2>2 DEF NoticesTypeOK
  <2>5. RequestOK(k)'
    <3>1. x.card \notin overtaken /\ x.pc \in Late => board
      BY <1>0, <1>2, <1>5, <1>7, <2>3
    <3> QED
      BY <1>2, <1>3, <1>4, <2>3, <2>4, <3>1 DEF RequestOK
  <2>6. ASSUME NEW c \in Kata, NEW u, NEW n PROVE Owes(k, c, u, n)' <=> Owes(k, c, u, n)
    <3>1. CASE pc = "comment board"
      <4>1. Owes(k, c, u, n)' <=> (x.card = c /\ n = "comment.created" /\ u \in recipients(x, x.old))
        BY <1>3, <2>3, <2>4, <3>1 DEF Owes
      <4>2. Owes(k, c, u, n) <=> (q.card = c /\ n = "comment.created" /\ u \in recipients(q, kata[c]))
        BY <1>1, <1>3, <3>1 DEF Owes
      <4> QED
        BY <1>2, <2>3, <4>1, <4>2
    <3>2. CASE pc # "comment board"
      <4>1. ~Owes(k, c, u, n)'
        BY <1>3, <2>3, <2>4, <3>2 DEF Owes
      <4>2. ~Owes(k, c, u, n)
        BY <1>1, <1>3, <3>2 DEF Owes
      <4> QED
        BY <4>1, <4>2
    <3> QED
      BY <3>1, <3>2
  <2>7. /\ x.pc # "idle" => x.card \in Kata
        /\ x.old \in KataRow
        /\ x.pc # "assigned"
    BY <1>3, <1>5, <1>7, <2>3
  <2> QED
    BY <1>4, <2>2, <2>3, <2>5, <2>6, <2>7, OnlyTheRequest
<1> QED
  BY <1>6, <1>7

LEMMA GoneOn ==
  ASSUME NoticesTypeOK, NEW k \in NoticeCall,
         NEW pc \in Stations, GoOn(k, pc)
  PROVE  \E x \in NoticeRequest :
           /\ notice' = [notice EXCEPT ![k] = x] /\ notice'[k] = x /\ x.pc = pc
           /\ pc = "idle" => x = NoNotice
           /\ pc # "idle" =>
                /\ x.card = notice[k].card /\ x.assignee = notice[k].assignee /\ x.old = notice[k].old
                /\ \A row : newAssignee(x, row) = newAssignee(notice[k], row)
                /\ \A row : toldOwner(x, row) = toldOwner(notice[k], row)
                /\ \A row : recipients(x, row) = recipients(notice[k], row)
<1>0. notice[k] \in NoticeRequest /\ notice \in [NoticeCall -> NoticeRequest]
  BY DEF NoticesTypeOK
<1>1. CASE pc = "idle"
  <2>1. notice' = [notice EXCEPT ![k] = NoNotice]
    BY <1>1 DEF GoOn
  <2> QED
    BY <1>0, <1>1, <2>1, NobodyOwes
<1>2. CASE pc # "idle"
  <2>1. PICK q : q = notice[k]
    OBVIOUS
  <2>2. PICK x : x = [q EXCEPT !.pc = pc]
    OBVIOUS
  <2>3. notice' = [notice EXCEPT ![k] = x]
    BY <1>2, <2>1, <2>2 DEF GoOn
  <2>4. notice'[k] = x
    BY <1>0, <2>3
  <2>6. /\ x \in NoticeRequest /\ x.pc = pc /\ x.card = q.card /\ x.assignee = q.assignee /\ x.old = q.old
        /\ \A row : newAssignee(x, row) = newAssignee(q, row)
        /\ \A row : toldOwner(x, row) = toldOwner(q, row)
        /\ \A row : recipients(x, row) = recipients(q, row)
    BY <1>0, <2>1, <2>2, FurtherOn
  <2> QED
    BY <1>2, <2>1, <2>3, <2>4, <2>6
<1> QED
  BY <1>1, <1>2

\* Of a request that is over nobody will be told.
LEMMA OverAndDone ==
  ASSUME NEW k, notice'[k] = NoNotice
  PROVE  RequestOK(k)' /\ \A c, u, n : ~Owes(k, c, u, n)'
BY NobodyOwes DEF RequestOK, Owes, Late

LEMMA CheckBulkKeeps == ASSUME NoticesInv, NEW k \in NoticeCall, CheckBulk(k) PROVE NoticesInv'
<1>0. NoticesTypeOK
  BY DEF NoticesInv
<1>1. /\ notice[k].pc = "check" /\ notice[k].card \in Kata
      /\ kata' = kata /\ board' = board /\ queue' = queue /\ turns' = turns /\ overtaken' = overtaken
      /\ noticeFails' = noticeFails /\ noticed' = noticed /\ noticed \in 0..MaxNoticeCalls
  BY <1>0 DEF CheckBulk, NothingStored, NoticesTypeOK
<1>2. PICK pc \in {"idle", "bulk"} : GoOn(k, pc)
  BY DEF CheckBulk
<1>3. PICK x \in NoticeRequest :
           /\ notice' = [notice EXCEPT ![k] = x] /\ notice'[k] = x /\ x.pc = pc
           /\ pc # "idle" => x.card = notice[k].card
  <2>1. pc \in Stations
    BY DEF Stations
  <2> QED
    BY ONLY k \in NoticeCall, <1>0, <1>2, <2>1, GoneOn
<1>4. RequestOK(k)'
  BY <1>3 DEF RequestOK, Late
<1>5. \A c, u, n : ~Owes(k, c, u, n)' /\ ~Owes(k, c, u, n)
  BY <1>1, <1>3 DEF Owes
<1> QED
  BY <1>1, <1>3, <1>4, <1>5, OnlyTheRequest

\* What a request may rely on, after a step.
LEMMA RequestThen ==
  ASSUME NEW k, NEW x, x = notice'[k], overtaken' = overtaken, board' = board, kata' = kata,
         x.pc \notin {"update", "commented"},
         x.pc = "completed" => toldOwner(x, x.old) = {Owner},
         x.pc \in Late /\ x.card \notin overtaken => board
  PROVE  RequestOK(k)'
BY DEF RequestOK

\* Who an update tells.
OwedByUpdate(q, u, n) ==
  \/ n = "card.assigned" /\ u \in newAssignee(q, q.old)
  \/ n = "card.completed" /\ u \in toldOwner(q, q.old)

\* Who is owed, by where a request stands.
LEMMA OwesAt ==
  ASSUME NEW k, NEW c, NEW u, NEW n
  PROVE  /\ notice[k].pc \in {"board", "assigned"} =>
              (Owes(k, c, u, n) <=> (notice[k].card = c /\ OwedByUpdate(notice[k], u, n)))
         /\ notice[k].pc = "completed" =>
              (Owes(k, c, u, n) <=> (notice[k].card = c /\ n = "card.completed" /\ u \in toldOwner(notice[k], notice[k].old)))
         /\ notice[k].pc = "commented" =>
              (Owes(k, c, u, n) <=> (notice[k].card = c /\ n = "comment.created" /\ u \in recipients(notice[k], kata[c])))
         /\ notice[k].pc \in {"comment board", "create many"} =>
              (Owes(k, c, u, n) <=> (notice[k].card = c /\ n = "comment.created" /\ u \in recipients(notice[k], notice[k].old)))
         /\ notice[k].pc \notin {"board", "assigned", "completed", "commented", "comment board", "create many"} => ~Owes(k, c, u, n)
<1>1. notice[k].pc \in {"board", "assigned"} =>
              (Owes(k, c, u, n) <=> (notice[k].card = c /\ OwedByUpdate(notice[k], u, n)))
  BY DEF Owes, OwedByUpdate
<1>2. notice[k].pc = "completed" =>
              (Owes(k, c, u, n) <=> (notice[k].card = c /\ n = "card.completed" /\ u \in toldOwner(notice[k], notice[k].old)))
  BY DEF Owes
<1>3. notice[k].pc = "commented" =>
              (Owes(k, c, u, n) <=> (notice[k].card = c /\ n = "comment.created" /\ u \in recipients(notice[k], kata[c])))
  BY DEF Owes
<1>4. notice[k].pc \in {"comment board", "create many"} =>
              (Owes(k, c, u, n) <=> (notice[k].card = c /\ n = "comment.created" /\ u \in recipients(notice[k], notice[k].old)))
  BY DEF Owes
<1>5. notice[k].pc \notin {"board", "assigned", "completed", "commented", "comment board", "create many"} => ~Owes(k, c, u, n)
  BY DEF Owes
<1> QED
  BY <1>1, <1>2, <1>3, <1>4, <1>5

\* The same, after a step.
LEMMA OwesThen ==
  ASSUME NEW k, NEW c, NEW u, NEW n
  PROVE  /\ notice'[k].pc \in {"board", "assigned"} =>
              (Owes(k, c, u, n)' <=> (notice'[k].card = c /\ OwedByUpdate(notice'[k], u, n)))
         /\ notice'[k].pc = "completed" =>
              (Owes(k, c, u, n)' <=> (notice'[k].card = c /\ n = "card.completed" /\ u \in toldOwner(notice'[k], notice'[k].old)))
         /\ notice'[k].pc = "commented" =>
              (Owes(k, c, u, n)' <=> (notice'[k].card = c /\ n = "comment.created" /\ u \in recipients(notice'[k], kata'[c])))
         /\ notice'[k].pc \in {"comment board", "create many"} =>
              (Owes(k, c, u, n)' <=> (notice'[k].card = c /\ n = "comment.created" /\ u \in recipients(notice'[k], notice'[k].old)))
         /\ notice'[k].pc \notin {"board", "assigned", "completed", "commented", "comment board", "create many"} => ~Owes(k, c, u, n)'
<1>1. notice'[k].pc \in {"board", "assigned"} =>
              (Owes(k, c, u, n)' <=> (notice'[k].card = c /\ OwedByUpdate(notice'[k], u, n)))
  BY DEF Owes, OwedByUpdate
<1>2. notice'[k].pc = "completed" =>
              (Owes(k, c, u, n)' <=> (notice'[k].card = c /\ n = "card.completed" /\ u \in toldOwner(notice'[k], notice'[k].old)))
  BY DEF Owes
<1>3. notice'[k].pc = "commented" =>
              (Owes(k, c, u, n)' <=> (notice'[k].card = c /\ n = "comment.created" /\ u \in recipients(notice'[k], kata'[c])))
  BY DEF Owes
<1>4. notice'[k].pc \in {"comment board", "create many"} =>
              (Owes(k, c, u, n)' <=> (notice'[k].card = c /\ n = "comment.created" /\ u \in recipients(notice'[k], notice'[k].old)))
  BY DEF Owes
<1>5. notice'[k].pc \notin {"board", "assigned", "completed", "commented", "comment board", "create many"} => ~Owes(k, c, u, n)'
  BY DEF Owes
<1> QED
  BY <1>1, <1>2, <1>3, <1>4, <1>5

LEMMA ToldIsOwner == \A q, row : toldOwner(q, row) # {} => toldOwner(q, row) = {Owner}
BY DEF toldOwner

LEMMA FindBoardKeeps == ASSUME NoticesInv, NEW k \in NoticeCall, FindBoard(k) PROVE NoticesInv'
<1>0. NoticesTypeOK /\ RequestOK(k)
  BY DEF NoticesInv
<1>1. PICK q : q = notice[k]
  OBVIOUS
<1>2. /\ q.pc = "board" /\ q.card \in Kata /\ q.old \in KataRow /\ q \in NoticeRequest
      /\ kata' = kata /\ board' = board /\ queue' = queue /\ turns' = turns /\ overtaken' = overtaken
      /\ noticeFails' = noticeFails /\ noticed' = noticed /\ noticed \in 0..MaxNoticeCalls
  BY <1>0, <1>1 DEF FindBoard, NothingStored, NoticesTypeOK
<1>3. PICK pc : pc = IF ~board THEN "idle"
                 ELSE IF newAssignee(q, q.old) # {} THEN "assigned"
                 ELSE IF toldOwner(q, q.old) # {} THEN "completed" ELSE "idle"
  OBVIOUS
<1>4. GoOn(k, pc) /\ pc \in {"idle", "assigned", "completed"}
  BY <1>1, <1>3 DEF FindBoard
<1>5. PICK x \in NoticeRequest :
           /\ notice' = [notice EXCEPT ![k] = x] /\ notice'[k] = x /\ x.pc = pc
           /\ pc = "idle" => x = NoNotice
           /\ pc # "idle" =>
                /\ x.card = q.card /\ x.assignee = q.assignee /\ x.old = q.old
                /\ \A row : newAssignee(x, row) = newAssignee(q, row)
                /\ \A row : toldOwner(x, row) = toldOwner(q, row)
  <2>1. pc \in Stations
    BY <1>4 DEF Stations
  <2>2. NoticesTypeOK /\ GoOn(k, pc)
    BY <1>0, <1>4
  <2> QED
    BY ONLY k \in NoticeCall, <1>1, <2>1, <2>2, GoneOn
<1>6. q.card \notin overtaken => board
  BY <1>0, <1>1, <1>2 DEF RequestOK, Late
<1>7. pc = "completed" => toldOwner(q, q.old) = {Owner}
  BY <1>3, ToldIsOwner
<1>8. pc = "assigned" => q.assignee \in Recipient
  <2>1. newAssignee(q, q.old) # {} => q.assignee \notin {Same, Unassigned}
    BY DEF newAssignee
  <2>2. q.assignee \in Recipient \cup {Unassigned, Same}
    BY <1>2 DEF NoticeRequest
  <2> QED
    BY <1>3, <2>1, <2>2
<1>9. RequestOK(k)'
  <2>1. x.pc = "completed" => toldOwner(x, x.old) = {Owner}
    BY ONLY <1>5, <1>7
  <2>2. x.pc \in Late /\ x.card \notin overtaken => board
    BY ONLY <1>5, <1>6, NobodyOwes DEF Late
  <2>3. x.pc \notin {"update", "commented"} /\ x = notice'[k]
    BY <1>4, <1>5
  <2>4. overtaken' = overtaken /\ board' = board /\ kata' = kata
    BY <1>2
  <2> QED
    BY ONLY <2>1, <2>2, <2>3, <2>4, RequestThen
<1>10. ASSUME NEW c \in Kata, c \notin overtaken, NEW u, NEW n PROVE Owes(k, c, u, n)' <=> Owes(k, c, u, n)
  <2>1. Owes(k, c, u, n) <=> (q.card = c /\ OwedByUpdate(q, u, n))
    <3>1. q.pc = "board"
      BY <1>2
    <3> QED
      BY ONLY <1>1, <3>1, OwesAt
  <2>2. CASE q.card # c
    <3>1. ~Owes(k, c, u, n)'
      BY <1>4, <1>5, <2>2, OverAndDone DEF Owes
    <3> QED
      BY <2>1, <2>2, <3>1
  <2>3. CASE q.card = c
    <3>1. board
      BY <1>6, <1>10, <2>3
    <3>2. CASE pc = "assigned"
      <4>1. Owes(k, c, u, n)' <=> (x.card = c /\ OwedByUpdate(x, u, n))
        <5>1. notice'[k] = x /\ x.pc = "assigned"
          BY <1>5, <3>2
        <5> QED
          BY ONLY <5>1, OwesThen
      <4> QED
        BY <1>5, <2>1, <3>2, <4>1 DEF OwedByUpdate
    <3>3. CASE pc = "completed"
      <4>1. Owes(k, c, u, n)' <=> (x.card = c /\ n = "card.completed" /\ u \in toldOwner(x, x.old))
        <5>1. notice'[k] = x /\ x.pc = "completed"
          BY <1>5, <3>3
        <5> QED
          BY ONLY <5>1, OwesThen
      <4> QED
        BY <1>3, <1>5, <2>1, <3>1, <3>3, <4>1 DEF OwedByUpdate
    <3>4. CASE pc = "idle"
      <4>1. ~Owes(k, c, u, n)'
        BY <1>5, <3>4, OverAndDone
      <4> QED
        BY <1>3, <2>1, <3>1, <3>4, <4>1 DEF OwedByUpdate
    <3> QED
      BY <1>4, <3>2, <3>3, <3>4
  <2> QED
    BY <2>2, <2>3
<1>11. /\ x.pc # "idle" => x.card \in Kata
       /\ x.pc \in {"update", "board", "assigned", "completed", "comment board", "create many"} => x.old \in KataRow
       /\ x.pc = "assigned" => x.assignee \in Recipient
  BY <1>2, <1>5, <1>8
<1> QED
  BY <1>2, <1>5, <1>9, <1>10, <1>11, OnlyTheRequest

LEMMA FindCommentBoardKeeps == ASSUME NoticesInv, NEW k \in NoticeCall, FindCommentBoard(k) PROVE NoticesInv'
<1>0. NoticesTypeOK /\ RequestOK(k)
  BY DEF NoticesInv
<1>1. PICK q : q = notice[k]
  OBVIOUS
<1>2. /\ q.pc = "comment board" /\ q.card \in Kata /\ q.old \in KataRow
      /\ kata' = kata /\ board' = board /\ queue' = queue /\ turns' = turns /\ overtaken' = overtaken
      /\ noticeFails' = noticeFails /\ noticed' = noticed /\ noticed \in 0..MaxNoticeCalls
  BY <1>0, <1>1 DEF FindCommentBoard, NothingStored, NoticesTypeOK
<1>3. PICK pc : pc = IF board /\ recipients(q, q.old) # {} THEN "create many" ELSE "idle"
  OBVIOUS
<1>4. GoOn(k, pc) /\ pc \in {"idle", "create many"}
  BY <1>1, <1>3 DEF FindCommentBoard
<1>5. PICK x \in NoticeRequest :
           /\ notice' = [notice EXCEPT ![k] = x] /\ notice'[k] = x /\ x.pc = pc
           /\ pc = "idle" => x = NoNotice
           /\ pc # "idle" => /\ x.card = q.card /\ x.old = q.old
                             /\ \A row : recipients(x, row) = recipients(q, row)
  <2>1. pc \in Stations
    BY <1>4 DEF Stations
  <2>2. NoticesTypeOK /\ GoOn(k, pc)
    BY <1>0, <1>4
  <2> QED
    BY ONLY k \in NoticeCall, <1>1, <2>1, <2>2, GoneOn
<1>6. q.card \notin overtaken => board
  BY <1>0, <1>1, <1>2 DEF RequestOK, Late
<1>9. RequestOK(k)'
  <2>1. x.pc \notin {"update", "commented", "completed"} /\ x = notice'[k]
    BY <1>4, <1>5
  <2>2. x.pc \in Late /\ x.card \notin overtaken => board
    BY ONLY <1>5, <1>6, NobodyOwes DEF Late
  <2>3. overtaken' = overtaken /\ board' = board /\ kata' = kata
    BY <1>2
  <2> QED
    BY ONLY <2>1, <2>2, <2>3, RequestThen
<1>10. ASSUME NEW c \in Kata, c \notin overtaken, NEW u, NEW n PROVE Owes(k, c, u, n)' <=> Owes(k, c, u, n)
  <2>1. Owes(k, c, u, n) <=> (q.card = c /\ n = "comment.created" /\ u \in recipients(q, q.old))
    <3>1. q.pc = "comment board"
      BY <1>2
    <3> QED
      BY ONLY <1>1, <3>1, OwesAt
  <2>2. CASE pc = "create many"
    <3>1. Owes(k, c, u, n)' <=> (x.card = c /\ n = "comment.created" /\ u \in recipients(x, x.old))
      <4>1. notice'[k] = x /\ x.pc = "create many"
        BY <1>5, <2>2
      <4> QED
        BY ONLY <4>1, OwesThen
    <3> QED
      BY <1>5, <2>1, <2>2, <3>1
  <2>3. CASE pc = "idle"
    <3>1. ~Owes(k, c, u, n)'
      BY <1>5, <2>3, OverAndDone
    <3> QED
      BY <1>3, <1>6, <1>10, <2>1, <2>3, <3>1
  <2> QED
    BY <1>4, <2>2, <2>3
<1>11. /\ x.pc # "idle" => x.card \in Kata
       /\ x.pc \in {"update", "board", "assigned", "completed", "comment board", "create many"} => x.old \in KataRow
       /\ x.pc # "assigned"
  BY <1>2, <1>4, <1>5
<1> QED
  BY <1>2, <1>5, <1>9, <1>10, <1>11, OnlyTheRequest

\* Some are told, and owed it no more.
LEMMA TellingKeeps ==
  ASSUME NoticesInv, NEW k \in NoticeCall, NEW q \in NoticeRequest, notice' = [notice EXCEPT ![k] = q],
         notice[k].card \in Kata, NEW who, NEW kind \in Kinds, Queue(k, who, kind),
         q.pc # "idle" => q.card \in Kata /\ q.old \in KataRow, q.pc # "assigned", RequestOK(k)',
         \A c \in Kata, u \in Recipient, n \in Kinds :
           /\ Owes(k, c, u, n)' <=> (Owes(k, c, u, n) /\ ~(c = notice[k].card /\ n = kind /\ u \in who))
           /\ c = notice[k].card /\ n = kind /\ u \in who => Owes(k, c, u, n)
  PROVE  NoticesInv'
<1>1. NoticesTypeOK /\ (~board => \A c \in Kata : kata[c] = NoKata)
  BY DEF NoticesInv
<1>2. /\ kata' = kata /\ board' = board /\ noticed' = noticed /\ noticeFails' = noticeFails
      /\ turns' = turns /\ overtaken' = overtaken /\ queue' = Counted(queue, notice[k].card, who, kind)
  BY DEF Queue
<1>3. /\ kata \in [Kata -> KataRow \cup {NoKata}] /\ queue \in Counts /\ turns \in Counts
      /\ noticed \in 0..MaxNoticeCalls /\ noticeFails \in 0..MaxNoticeFails /\ overtaken \subseteq Kata
  BY <1>1 DEF NoticesTypeOK
<1>4. /\ queue' \in Counts
      /\ \A d \in Kata, u \in Recipient, n \in Kinds :
           queue'[d][u][n] = IF d = notice[k].card /\ n = kind /\ u \in who THEN queue[d][u][n] + 1 ELSE queue[d][u][n]
  BY <1>2, <1>3, CountedAt
<1>5. \A c \in Kata : c \notin overtaken' => \A u \in Recipient, n \in Kinds : Balanced(k, c, u, n)
  BY <1>2, <1>4 DEF Balanced
<1>6. /\ \A c : c \in overtaken' => c \in Kata
      /\ ~board => \A c \in Kata : kata'[c] = NoKata
      /\ turns' \in Counts
  BY <1>1, <1>2, <1>3
<1> QED
  BY <1>2, <1>3, <1>4, <1>5, <1>6, OneStep

LEMMA TellAssigneeKeeps == ASSUME NoticesInv, NEW k \in NoticeCall, TellAssignee(k) PROVE NoticesInv'
<1>0. NoticesTypeOK /\ RequestOK(k)
  BY DEF NoticesInv
<1>1. PICK q : q = notice[k]
  OBVIOUS
<1>2. /\ q.pc = "assigned" /\ q.card \in Kata /\ q.old \in KataRow
      /\ Queue(k, newAssignee(q, q.old), "card.assigned")
      /\ overtaken' = overtaken /\ board' = board /\ kata' = kata
  BY <1>0, <1>1 DEF TellAssignee, NoticesTypeOK, Queue
<1>3. PICK pc : pc = IF toldOwner(q, q.old) # {} THEN "completed" ELSE "idle"
  OBVIOUS
<1>4. GoOn(k, pc) /\ pc \in {"idle", "completed"}
  BY <1>1, <1>3 DEF TellAssignee
<1>5. PICK x \in NoticeRequest :
           /\ notice' = [notice EXCEPT ![k] = x] /\ notice'[k] = x /\ x.pc = pc
           /\ pc = "idle" => x = NoNotice
           /\ pc # "idle" =>
                /\ x.card = q.card /\ x.assignee = q.assignee /\ x.old = q.old
                /\ \A row : newAssignee(x, row) = newAssignee(q, row)
                /\ \A row : toldOwner(x, row) = toldOwner(q, row)
  <2>1. pc \in Stations
    BY <1>4 DEF Stations
  <2>2. NoticesTypeOK /\ GoOn(k, pc)
    BY <1>0, <1>4
  <2> QED
    BY ONLY k \in NoticeCall, <1>1, <2>1, <2>2, GoneOn
<1>6. q.card \notin overtaken => board
  BY <1>0, <1>1, <1>2 DEF RequestOK, Late
<1>7. pc = "completed" => toldOwner(q, q.old) = {Owner}
  BY <1>3, ToldIsOwner
<1>8. RequestOK(k)'
  <2>1. x.pc = "completed" => toldOwner(x, x.old) = {Owner}
    BY ONLY <1>5, <1>7
  <2>2. x.pc \in Late /\ x.card \notin overtaken => board
    BY ONLY <1>5, <1>6, NobodyOwes DEF Late
  <2>3. x.pc \notin {"update", "commented"} /\ x = notice'[k]
    BY <1>4, <1>5
  <2>4. overtaken' = overtaken /\ board' = board /\ kata' = kata
    BY <1>2
  <2> QED
    BY ONLY <2>1, <2>2, <2>3, <2>4, RequestThen
<1>9. ASSUME NEW c \in Kata, NEW u \in Recipient, NEW n \in Kinds
      PROVE  /\ Owes(k, c, u, n)' <=> (Owes(k, c, u, n) /\ ~(c = q.card /\ n = "card.assigned" /\ u \in newAssignee(q, q.old)))
             /\ c = q.card /\ n = "card.assigned" /\ u \in newAssignee(q, q.old) => Owes(k, c, u, n)
  <2>1. Owes(k, c, u, n) <=> (q.card = c /\ OwedByUpdate(q, u, n))
    <3>1. q.pc = "assigned"
      BY <1>2
    <3> QED
      BY ONLY <1>1, <3>1, OwesAt
  <2>2. CASE pc = "completed"
    <3>1. Owes(k, c, u, n)' <=> (x.card = c /\ n = "card.completed" /\ u \in toldOwner(x, x.old))
      <4>1. notice'[k] = x /\ x.pc = "completed"
        BY <1>5, <2>2
      <4> QED
        BY ONLY <4>1, OwesThen
    <3> QED
      BY ONLY <1>5, <2>1, <2>2, <3>1 DEF OwedByUpdate
  <2>3. CASE pc = "idle"
    <3>1. ~Owes(k, c, u, n)'
      BY <1>5, <2>3, OverAndDone
    <3>2. toldOwner(q, q.old) = {}
      BY <1>3, <2>3
    <3> QED
      BY ONLY <2>1, <3>1, <3>2 DEF OwedByUpdate
  <2> QED
    BY <1>4, <2>2, <2>3
<1>10. /\ x.pc # "idle" => x.card \in Kata /\ x.old \in KataRow
       /\ x.pc # "assigned"
  BY <1>2, <1>4, <1>5
<1>11. "card.assigned" \in Kinds
  BY DEF Kinds
<1>12. PICK who : who = newAssignee(q, q.old)
  OBVIOUS
<1>13. notice[k].card \in Kata /\ Queue(k, who, "card.assigned") /\ notice' = [notice EXCEPT ![k] = x]
  BY <1>1, <1>2, <1>5, <1>12
<1>14. \A c \in Kata, u \in Recipient, n \in Kinds :
         /\ Owes(k, c, u, n)' <=> (Owes(k, c, u, n) /\ ~(c = notice[k].card /\ n = "card.assigned" /\ u \in who))
         /\ c = notice[k].card /\ n = "card.assigned" /\ u \in who => Owes(k, c, u, n)
  BY ONLY <1>1, <1>9, <1>12
<1> QED
  BY ONLY NoticesInv, k \in NoticeCall, x \in NoticeRequest, <1>8, <1>10, <1>11, <1>13, <1>14, TellingKeeps

\* The last to be told.
LEMMA TellLast ==
  ASSUME NoticesInv, NEW k \in NoticeCall, TellOwner(k) \/ TellCommented(k)
  PROVE  NoticesInv'
<1>0. NoticesTypeOK /\ RequestOK(k)
  BY DEF NoticesInv
<1>1. PICK q : q = notice[k]
  OBVIOUS
<1>2. PICK who, kind :
        /\ Queue(k, who, kind) /\ GoOn(k, "idle") /\ kind \in Kinds
        /\ \/ q.pc = "completed" /\ kind = "card.completed" /\ who = {Owner}
           \/ q.pc = "create many" /\ kind = "comment.created" /\ who = recipients(q, q.old)
  BY <1>1 DEF TellOwner, TellCommented, Kinds
<1>3. /\ notice' = [notice EXCEPT ![k] = NoNotice] /\ notice'[k] = NoNotice
  BY <1>0, <1>2 DEF GoOn, NoticesTypeOK
<1>4. RequestOK(k)' /\ \A c, u, n : ~Owes(k, c, u, n)'
  BY <1>3, OverAndDone
<1>5. \A c, u, n : Owes(k, c, u, n) <=> (c = q.card /\ n = kind /\ u \in who)
  <2>1. CASE q.pc = "completed" /\ kind = "card.completed" /\ who = {Owner}
    <3>1. toldOwner(q, q.old) = {Owner}
      BY <1>0, <1>1, <2>1 DEF RequestOK
    <3> QED
      BY ONLY <1>1, <2>1, <3>1, OwesAt
  <2>2. CASE q.pc = "create many" /\ kind = "comment.created" /\ who = recipients(q, q.old)
    BY ONLY <1>1, <2>2, OwesAt
  <2> QED
    BY <1>2, <2>1, <2>2
<1>6. q.card \in Kata
  BY <1>0, <1>1, <1>2 DEF NoticesTypeOK
<1>7. notice[k].card \in Kata /\ Queue(k, who, kind) /\ kind \in Kinds /\ notice' = [notice EXCEPT ![k] = NoNotice]
  BY <1>1, <1>2, <1>3, <1>6
<1>8. \A c \in Kata, u \in Recipient, n \in Kinds :
        /\ Owes(k, c, u, n)' <=> (Owes(k, c, u, n) /\ ~(c = notice[k].card /\ n = kind /\ u \in who))
        /\ c = notice[k].card /\ n = kind /\ u \in who => Owes(k, c, u, n)
  BY ONLY <1>1, <1>4, <1>5
<1>9. NoNotice \in NoticeRequest /\ NoNotice.pc # "assigned" /\ (NoNotice.pc # "idle" => NoNotice.card \in Kata /\ NoNotice.old \in KataRow)
  BY ONLY NobodyOwes
<1>10. RequestOK(k)'
  BY <1>4
<1> QED
  BY ONLY NoticesInv, k \in NoticeCall, <1>7, <1>8, <1>9, <1>10, TellingKeeps

LEMMA AddCommentKeeps == ASSUME NoticesInv, NEW k \in NoticeCall, AddComment(k) PROVE NoticesInv'
<1>0. NoticesTypeOK /\ (~board => \A c \in Kata : kata[c] = NoKata)
  BY DEF NoticesInv
<1>1. PICK q : q = notice[k]
  OBVIOUS
<1>2. PICK row : row = kata[q.card]
  OBVIOUS
<1>3. /\ q.pc = "comment" /\ q.card \in Kata
      /\ kata' = kata /\ board' = board /\ queue' = queue /\ overtaken' = overtaken
      /\ noticeFails' = noticeFails /\ noticed' = noticed
      /\ noticed \in 0..MaxNoticeCalls /\ noticeFails \in 0..MaxNoticeFails
      /\ turns \in Counts /\ queue \in Counts /\ kata \in [Kata -> KataRow \cup {NoKata}] /\ overtaken \subseteq Kata
  BY <1>0, <1>1 DEF AddComment, NoticesTypeOK
<1>4. \A c, u, n : ~Owes(k, c, u, n)
  BY <1>1, <1>3 DEF Owes
<1>5. CASE row = NoKata
  <2>1. turns' = turns /\ GoOn(k, "idle")
    BY <1>1, <1>2, <1>5 DEF AddComment
  <2>2. notice' = [notice EXCEPT ![k] = NoNotice] /\ notice'[k] = NoNotice
    BY <1>0, <2>1 DEF GoOn, NoticesTypeOK
  <2>3. RequestOK(k)' /\ \A c, u, n : ~Owes(k, c, u, n)'
    BY <2>2, OverAndDone
  <2> QED
    BY <1>3, <1>4, <2>1, <2>2, <2>3, NobodyOwes, OnlyTheRequest
<1>6. CASE row # NoKata
  <2>1. PICK who : who = recipients(q, row)
    OBVIOUS
  <2>2. turns' = Counted(turns, q.card, who, "comment.created") /\ GoOn(k, "commented") /\ board
    BY <1>0, <1>1, <1>2, <1>3, <1>6, <2>1 DEF AddComment
  <2>3. PICK x \in NoticeRequest :
          /\ notice' = [notice EXCEPT ![k] = x] /\ notice'[k] = x /\ x.pc = "commented" /\ x.card = q.card
          /\ \A r : recipients(x, r) = recipients(q, r)
    <3>1. "commented" \in Stations /\ "commented" # "idle"
      BY DEF Stations
    <3>2. GoOn(k, "commented")
      BY <2>2
    <3> QED
      BY ONLY k \in NoticeCall, <1>0, <1>1, <3>1, <3>2, GoneOn
  <2>4. /\ turns' \in Counts
        /\ \A d \in Kata, u \in Recipient, n \in Kinds :
             turns'[d][u][n] = IF d = q.card /\ n = "comment.created" /\ u \in who THEN turns[d][u][n] + 1 ELSE turns[d][u][n]
    <3>1. "comment.created" \in Kinds
      BY DEF Kinds
    <3> QED
      BY ONLY <1>3, <2>2, <3>1, CountedAt
  <2>5. RequestOK(k)'
    BY <1>2, <1>3, <1>6, <2>2, <2>3 DEF RequestOK
  <2>6. ASSUME NEW c \in Kata, NEW u \in Recipient, NEW n \in Kinds PROVE Balanced(k, c, u, n)
    <3>1. Owes(k, c, u, n)' <=> (x.card = c /\ n = "comment.created" /\ u \in recipients(x, kata'[c]))
      BY ONLY <2>3, OwesThen
    <3>2. Owes(k, c, u, n)' <=> (c = q.card /\ n = "comment.created" /\ u \in who)
      BY <1>2, <1>3, <2>1, <2>3, <3>1
    <3> QED
      BY <1>3, <1>4, <2>4, <3>2 DEF Balanced
  <2>7. /\ kata' \in [Kata -> KataRow \cup {NoKata}] /\ queue' \in Counts
        /\ noticed' \in 0..MaxNoticeCalls /\ noticeFails' \in 0..MaxNoticeFails
        /\ \A c : c \in overtaken => c \in overtaken'
        /\ \A c : c \in overtaken' => c \in Kata
        /\ ~board => \A c \in Kata : kata'[c] = NoKata
        /\ x.card \in Kata
    BY <1>0, <1>3, <2>3
  <2> QED
    BY <1>3, <2>3, <2>4, <2>5, <2>6, <2>7, OneStep
<1> QED
  BY <1>5, <1>6

\* A card is written, or deleted.
LEMMA Stored ==
  ASSUME NoticesInv, NEW k \in NoticeCall, NEW row, StoreCard(k, row), notice[k].pc # "idle",
         row \in KataRow \cup {NoKata}, ~board => row = NoKata
  PROVE  /\ notice[k].card \in Kata
         /\ kata' \in [Kata -> KataRow \cup {NoKata}] /\ queue' \in Counts /\ queue' = queue /\ board' = board
         /\ noticed' \in 0..MaxNoticeCalls /\ noticeFails' \in 0..MaxNoticeFails
         /\ \A c : c \in overtaken => c \in overtaken'
         /\ \A c : c \in overtaken' => c \in Kata
         /\ ~board => \A c \in Kata : kata'[c] = NoKata
         /\ \A c \in Kata : \/ kata'[c] = kata[c]
                            \/ c \in overtaken'
                            \/ \A j \in NoticeCall : j # k => notice[j].card # c \/ notice[j].pc \notin {"update", "commented"}
<1>0. NoticesTypeOK /\ (~board => \A c \in Kata : kata[c] = NoKata)
  BY DEF NoticesInv
<1>1. PICK d : d = notice[k].card
  OBVIOUS
<1>2. /\ d \in Kata /\ kata \in [Kata -> KataRow \cup {NoKata}] /\ queue \in Counts
      /\ noticed \in 0..MaxNoticeCalls /\ noticeFails \in 0..MaxNoticeFails /\ overtaken \subseteq Kata
  BY <1>0, <1>1 DEF NoticesTypeOK
<1>3. /\ kata' = [kata EXCEPT ![d] = row]
      /\ overtaken' = IF \E j \in NoticeCall \ {k} : notice[j].card = d /\ notice[j].pc \in {"update", "commented"}
                      THEN overtaken \cup {d} ELSE overtaken
      /\ board' = board /\ queue' = queue /\ noticed' = noticed /\ noticeFails' = noticeFails
  BY <1>1 DEF StoreCard
<1>4. kata' \in [Kata -> KataRow \cup {NoKata}] /\ \A c \in Kata : kata'[c] = IF c = d THEN row ELSE kata[c]
  BY <1>2, <1>3
<1>5. \A c : (c \in overtaken => c \in overtaken') /\ (c \in overtaken' => c \in Kata)
  BY <1>2, <1>3
<1>6. \A c \in Kata : \/ kata'[c] = kata[c]
                      \/ c \in overtaken'
                      \/ \A j \in NoticeCall : j # k => notice[j].card # c \/ notice[j].pc \notin {"update", "commented"}
  BY <1>3, <1>4
<1> QED
  BY <1>0, <1>1, <1>2, <1>3, <1>4, <1>5, <1>6

\* What a write makes of a row is a row.
LEMMA ChangedIsRow ==
  ASSUME NEW row \in KataRow \cup {NoKata}, NEW q \in NoticeRequest
  PROVE  Changed(row, q) \in KataRow \cup {NoKata} /\ (row = NoKata => Changed(row, q) = NoKata)
<1>1. /\ q.assignee \in Recipient \cup {Unassigned, Same} /\ q.sealed \in BOOLEAN \cup {Same}
      /\ Same \notin Recipient \cup BOOLEAN \cup {Unassigned}
  BY NoticeConstants DEF NoticeRequest
<1>2. CASE row # NoKata
  <2>1. row \in KataRow /\ row.assignee \in Recipient \cup {Unassigned} /\ row.sealed \in BOOLEAN
    BY <1>2 DEF KataRow
  <2>2. PICK a : a = IF q.assignee = Same THEN row.assignee ELSE q.assignee
    OBVIOUS
  <2>3. PICK s : s = IF q.sealed = Same THEN row.sealed ELSE q.sealed
    OBVIOUS
  <2>4. a \in Recipient \cup {Unassigned} /\ s \in BOOLEAN
    BY ONLY <1>1, <2>1, <2>2, <2>3
  <2>5. Changed(row, q) = [assignee |-> a, sealed |-> s]
    BY <1>2, <2>2, <2>3 DEF Changed
  <2> QED
    BY ONLY <1>2, <2>4, <2>5 DEF KataRow
<1>3. CASE row = NoKata
  BY <1>3 DEF Changed
<1> QED
  BY <1>2, <1>3

\* A write, or a deletion, that tells nobody.
LEMMA SilentStores ==
  ASSUME NoticesInv, NEW k \in NoticeCall, WriteBulk(k) \/ DeleteCard(k)
  PROVE  NoticesInv'
<1>0. NoticesTypeOK /\ (~board => \A c \in Kata : kata[c] = NoKata) /\ notice[k] \in NoticeRequest
  BY DEF NoticesInv, NoticesTypeOK
<1>1. /\ notice[k].pc \in {"bulk", "delete"} /\ notice[k].card \in Kata /\ kata[notice[k].card] \in KataRow \cup {NoKata}
      /\ turns' = turns /\ turns \in Counts /\ GoOn(k, "idle")
  BY <1>0 DEF WriteBulk, DeleteCard, NoticesTypeOK
<1>2. PICK row \in KataRow \cup {NoKata} : StoreCard(k, row) /\ (~board => row = NoKata)
  <2>1. CASE WriteBulk(k)
    <3>1. StoreCard(k, Changed(kata[notice[k].card], notice[k]))
      BY <2>1 DEF WriteBulk
    <3> QED
      BY <1>0, <1>1, <3>1, ChangedIsRow
  <2>2. CASE DeleteCard(k)
    BY <2>2 DEF DeleteCard
  <2> QED
    BY <2>1, <2>2
<1>3. notice' = [notice EXCEPT ![k] = NoNotice] /\ notice'[k] = NoNotice
  BY <1>0, <1>1 DEF GoOn, NoticesTypeOK
<1>4. RequestOK(k)' /\ \A c, u, n : ~Owes(k, c, u, n)'
  BY <1>3, OverAndDone
<1>5. \A c, u, n : ~Owes(k, c, u, n)
  BY <1>1 DEF Owes
<1>6. \A c \in Kata : c \notin overtaken' => \A u \in Recipient, n \in Kinds : Balanced(k, c, u, n)
  <2>1. queue' = queue
    BY <1>2 DEF StoreCard
  <2> QED
    BY ONLY <1>1, <1>4, <1>5, <2>1 DEF Balanced
<1>7. turns' \in Counts /\ notice[k].pc # "idle"
  BY <1>1
<1>8. /\ kata' \in [Kata -> KataRow \cup {NoKata}] /\ queue' \in Counts /\ board' = board
      /\ noticed' \in 0..MaxNoticeCalls /\ noticeFails' \in 0..MaxNoticeFails
      /\ \A c : c \in overtaken => c \in overtaken'
      /\ \A c : c \in overtaken' => c \in Kata
      /\ ~board => \A c \in Kata : kata'[c] = NoKata
      /\ \A c \in Kata : \/ kata'[c] = kata[c]
                         \/ c \in overtaken'
                         \/ \A j \in NoticeCall : j # k => notice[j].card # c \/ notice[j].pc \notin {"update", "commented"}
  BY ONLY NoticesInv, k \in NoticeCall, row \in KataRow \cup {NoKata}, <1>2, <1>7, Stored
<1> QED
  BY ONLY NoticesInv, k \in NoticeCall, <1>3, <1>4, <1>6, <1>7, <1>8, NobodyOwes, OneStep

LEMMA NoticeStepFailsKeeps == ASSUME NoticesInv, NEW k \in NoticeCall, NoticeStepFails(k) PROVE NoticesInv'
<1>0. NoticesTypeOK /\ (~board => \A c \in Kata : kata[c] = NoKata)
  BY DEF NoticesInv
<1>1. PICK q : q = notice[k]
  OBVIOUS
<1>2. /\ q.pc # "idle" /\ q.card \in Kata
      /\ noticeFails < MaxNoticeFails /\ noticeFails' = noticeFails + 1
      /\ overtaken' = IF q.pc \in {"board", "assigned", "completed", "commented", "comment board", "create many"}
                      THEN overtaken \cup {q.card} ELSE overtaken
      /\ GoOn(k, "idle")
      /\ kata' = kata /\ board' = board /\ queue' = queue /\ noticed' = noticed /\ turns' = turns
      /\ noticed \in 0..MaxNoticeCalls /\ noticeFails \in 0..MaxNoticeFails
      /\ turns \in Counts /\ queue \in Counts /\ kata \in [Kata -> KataRow \cup {NoKata}] /\ overtaken \subseteq Kata
  BY <1>0, <1>1 DEF NoticeStepFails, NoticesTypeOK
<1>3. noticeFails' \in 0..MaxNoticeFails
  <2>1. MaxNoticeFails \in Nat
    BY NoticeConstants
  <2>2. noticeFails < MaxNoticeFails /\ noticeFails' = noticeFails + 1 /\ noticeFails \in 0..MaxNoticeFails
    BY <1>2
  <2> QED
    BY ONLY <2>1, <2>2
<1>4. notice' = [notice EXCEPT ![k] = NoNotice] /\ notice'[k] = NoNotice
  BY <1>0, <1>2 DEF GoOn, NoticesTypeOK
<1>5. RequestOK(k)' /\ \A c, u, n : ~Owes(k, c, u, n)'
  BY <1>4, OverAndDone
<1>6. ASSUME NEW c \in Kata, c \notin overtaken', NEW u \in Recipient, NEW n \in Kinds PROVE Balanced(k, c, u, n)
  <2>1. ~Owes(k, c, u, n)
    BY <1>1, <1>2, <1>6 DEF Owes
  <2> QED
    BY ONLY <1>2, <1>5, <2>1 DEF Balanced
<1>7. /\ \A c : c \in overtaken => c \in overtaken'
      /\ \A c : c \in overtaken' => c \in Kata
      /\ ~board => \A c \in Kata : kata'[c] = NoKata
      /\ \A c \in Kata : kata'[c] = kata[c]
      /\ kata' \in [Kata -> KataRow \cup {NoKata}] /\ queue' \in Counts /\ turns' \in Counts
      /\ noticed' \in 0..MaxNoticeCalls /\ board' = board
  BY <1>0, <1>2
<1>8. \A c \in Kata : c \notin overtaken' => \A u \in Recipient, n \in Kinds : Balanced(k, c, u, n)
  BY <1>6
<1> QED
  BY ONLY NoticesInv, k \in NoticeCall, <1>3, <1>4, <1>5, <1>7, <1>8, NobodyOwes, OneStep

LEMMA UpdateCardKeeps == ASSUME NoticesInv, NEW k \in NoticeCall, UpdateCard(k) PROVE NoticesInv'
<1>0. NoticesTypeOK /\ (~board => \A c \in Kata : kata[c] = NoKata) /\ RequestOK(k) /\ notice[k] \in NoticeRequest
  BY DEF NoticesInv, NoticesTypeOK
<1>1. PICK q : q = notice[k]
  OBVIOUS
<1>2. PICK row : row = kata[q.card]
  OBVIOUS
<1>3. /\ q.pc = "update" /\ q.card \in Kata /\ q.old \in KataRow /\ q \in NoticeRequest
      /\ row \in KataRow \cup {NoKata} /\ turns \in Counts
  BY <1>0, <1>1, <1>2 DEF UpdateCard, NoticesTypeOK
<1>4. PICK new : new = Changed(row, q)
  OBVIOUS
<1>5. StoreCard(k, new) /\ GoOn(k, "board")
  BY <1>1, <1>2, <1>4 DEF UpdateCard
<1>6. new \in KataRow \cup {NoKata} /\ (~board => new = NoKata) /\ notice[k].pc # "idle"
  <2>1. ~board => row = NoKata
    BY <1>0, <1>2, <1>3
  <2>2. new \in KataRow \cup {NoKata} /\ (row = NoKata => new = NoKata)
    BY ONLY <1>3, <1>4, ChangedIsRow
  <2>3. notice[k].pc # "idle"
    BY <1>1, <1>3
  <2> QED
    BY ONLY <2>1, <2>2, <2>3
<1>7. /\ kata' \in [Kata -> KataRow \cup {NoKata}] /\ queue' \in Counts /\ queue' = queue /\ board' = board
      /\ noticed' \in 0..MaxNoticeCalls /\ noticeFails' \in 0..MaxNoticeFails
      /\ \A c : c \in overtaken => c \in overtaken'
      /\ \A c : c \in overtaken' => c \in Kata
      /\ ~board => \A c \in Kata : kata'[c] = NoKata
      /\ \A c \in Kata : \/ kata'[c] = kata[c]
                         \/ c \in overtaken'
                         \/ \A j \in NoticeCall : j # k => notice[j].card # c \/ notice[j].pc \notin {"update", "commented"}
  BY ONLY NoticesInv, k \in NoticeCall, <1>5, <1>6, Stored
<1>8. PICK x \in NoticeRequest :
        /\ notice' = [notice EXCEPT ![k] = x] /\ notice'[k] = x /\ x.pc = "board" /\ x.card = q.card /\ x.old = q.old
        /\ \A r : newAssignee(x, r) = newAssignee(q, r)
        /\ \A r : toldOwner(x, r) = toldOwner(q, r)
  <2>1. "board" \in Stations /\ "board" # "idle"
    BY DEF Stations
  <2>2. NoticesTypeOK /\ GoOn(k, "board")
    BY <1>0, <1>5
  <2> QED
    BY ONLY k \in NoticeCall, <1>1, <2>1, <2>2, GoneOn
<1>9. \A c, u, n : ~Owes(k, c, u, n)
  BY <1>1, <1>3 DEF Owes
<1>10. q.card \notin overtaken' => row = q.old /\ board
  <2>1. q.card \notin overtaken => kata[q.card] = q.old /\ board
    BY ONLY <1>0, <1>1, <1>3 DEF RequestOK, Late
  <2> QED
    BY ONLY <1>2, <1>7, <2>1
<1>11. RequestOK(k)'
  <2>1. notice'[k].pc = "board" /\ notice'[k].card = q.card
    BY <1>8
  <2>2. q.card \notin overtaken' => board'
    BY <1>7, <1>10
  <2> QED
    BY ONLY <2>1, <2>2 DEF RequestOK
<1>12. PICK who1, who2 : who1 = newAssignee(q, row) /\ who2 = toldOwner(q, row)
  OBVIOUS
<1>13. turns' = IF row = NoKata THEN turns
                ELSE Counted(Counted(turns, q.card, who1, "card.assigned"), q.card, who2, "card.completed")
  BY <1>1, <1>2, <1>12 DEF UpdateCard
<1>14. PICK mid : mid = Counted(turns, q.card, who1, "card.assigned")
  OBVIOUS
<1>15. "card.assigned" \in Kinds /\ "card.completed" \in Kinds
  BY DEF Kinds
<1>16. /\ mid \in Counts
       /\ \A d \in Kata, u \in Recipient, n \in Kinds :
            mid[d][u][n] = IF d = q.card /\ n = "card.assigned" /\ u \in who1 THEN turns[d][u][n] + 1 ELSE turns[d][u][n]
  BY ONLY <1>3, <1>14, <1>15, CountedAt
<1>17. PICK last : last = Counted(mid, q.card, who2, "card.completed")
  OBVIOUS
<1>18. /\ last \in Counts
       /\ \A d \in Kata, u \in Recipient, n \in Kinds :
            last[d][u][n] = IF d = q.card /\ n = "card.completed" /\ u \in who2 THEN mid[d][u][n] + 1 ELSE mid[d][u][n]
  BY ONLY <1>3, <1>15, <1>16, <1>17, CountedAt
<1>19. turns' = IF row = NoKata THEN turns ELSE last
  BY ONLY <1>13, <1>14, <1>17
<1>20. turns' \in Counts
  BY ONLY <1>3, <1>18, <1>19
<1>21. ASSUME NEW c \in Kata, c \notin overtaken', NEW u \in Recipient, NEW n \in Kinds PROVE Balanced(k, c, u, n)
  <2>1. Owes(k, c, u, n)' <=> (x.card = c /\ OwedByUpdate(x, u, n))
    <3>1. notice'[k] = x /\ x.pc = "board"
      BY <1>8
    <3> QED
      BY ONLY <3>1, OwesThen
  <2>2. CASE c # q.card
    <3>1. turns'[c][u][n] = turns[c][u][n]
      BY ONLY <1>16, <1>18, <1>19, <2>2, c \in Kata, u \in Recipient, n \in Kinds
    <3>2. ~Owes(k, c, u, n)'
      BY ONLY <1>8, <2>1, <2>2
    <3> QED
      BY ONLY <1>7, <1>9, <3>1, <3>2 DEF Balanced
  <2>3. CASE c = q.card
    <3>1. row = q.old /\ row # NoKata
      BY <1>3, <1>10, <1>21, <2>3, NoticeConstants
    <3>2. turns'[c][u][n] = IF (n = "card.assigned" /\ u \in who1) \/ (n = "card.completed" /\ u \in who2)
                            THEN turns[c][u][n] + 1 ELSE turns[c][u][n]
      BY ONLY <1>16, <1>18, <1>19, <2>3, <3>1, c \in Kata, u \in Recipient, n \in Kinds
    <3>3. OwedByUpdate(x, u, n) <=> ((n = "card.assigned" /\ u \in who1) \/ (n = "card.completed" /\ u \in who2))
      BY ONLY <1>8, <1>12, <3>1 DEF OwedByUpdate
    <3>4. Owes(k, c, u, n)' <=> ((n = "card.assigned" /\ u \in who1) \/ (n = "card.completed" /\ u \in who2))
      BY ONLY <1>8, <2>1, <2>3, <3>3
    <3> QED
      BY ONLY <1>7, <1>9, <3>2, <3>4 DEF Balanced
  <2> QED
    BY <2>2, <2>3
<1>22. \A c \in Kata : c \notin overtaken' => \A u \in Recipient, n \in Kinds : Balanced(k, c, u, n)
  BY <1>21
<1>23. /\ x.pc # "idle" => x.card \in Kata
       /\ x.pc \in {"update", "board", "assigned", "completed", "comment board", "create many"} => x.old \in KataRow
       /\ x.pc # "assigned"
  BY ONLY <1>3, <1>8
<1> QED
  BY ONLY NoticesInv, k \in NoticeCall, x \in NoticeRequest, <1>7, <1>8, <1>11, <1>20, <1>22, <1>23, OneStep

LEMMA BoardGoneKeeps == ASSUME NoticesInv, DeleteBoardAndCards PROVE NoticesInv'
<1>1. /\ NoticesTypeOK /\ \A k \in NoticeCall : RequestOK(k)
      /\ \A c \in Kata : c \notin overtaken => \A u \in Recipient, n \in Kinds : Even(c, u, n)
  BY DEF NoticesInv
<1>2. /\ board' = FALSE /\ kata' = [c \in Kata |-> NoKata]
      /\ overtaken' = overtaken \cup {notice[k].card : k \in {j \in NoticeCall : notice[j].pc # "idle"}}
      /\ queue' = queue /\ notice' = notice /\ noticed' = noticed /\ noticeFails' = noticeFails /\ turns' = turns
  BY DEF DeleteBoardAndCards
<1>3. \A k \in NoticeCall : notice[k].pc # "idle" => notice[k].card \in overtaken' /\ notice[k].card \in Kata
  BY <1>1, <1>2 DEF NoticesTypeOK
<1>4. NoticesTypeOK'
  BY <1>1, <1>2, <1>3 DEF NoticesTypeOK
<1>5. ASSUME NEW k \in NoticeCall PROVE RequestOK(k)'
  <2>1. notice'[k] = notice[k] /\ RequestOK(k)
    BY <1>1, <1>2
  <2>2. notice[k].pc = "idle" \/ notice[k].card \in overtaken'
    BY <1>3
  <2> QED
    BY ONLY <2>1, <2>2 DEF RequestOK, Late
<1>6. ASSUME NEW c \in Kata, c \notin overtaken', NEW u \in Recipient, NEW n \in Kinds PROVE Even(c, u, n)'
  <2>1. Even(c, u, n)
    BY <1>1, <1>2, <1>6
  <2>2. \A k \in NoticeCall : ~Owes(k, c, u, n) /\ ~Owes(k, c, u, n)'
    BY <1>2, <1>3, <1>6 DEF Owes
  <2>3. Debt(c, u, n)' = Debt(c, u, n)
    BY ONLY <2>2 DEF Debt
  <2> QED
    BY ONLY <1>2, <2>1, <2>3 DEF Even
<1> QED
  BY <1>2, <1>4, <1>5, <1>6 DEF NoticesInv

LEMMA NoticesInvInit == NoticesInit => NoticesInv
<1> SUFFICES ASSUME NoticesInit PROVE NoticesInv
  OBVIOUS
<1>1. NoCounts \in Counts /\ \A c \in Kata, u \in Recipient, n \in Kinds : NoCounts[c][u][n] = 0
  BY DEF NoCounts, Counts
<1>2. /\ kata \in [Kata -> KataRow \cup {NoKata}] /\ board = TRUE /\ queue = NoCounts /\ turns = NoCounts
      /\ \A k \in NoticeCall : notice[k] = NoNotice
      /\ notice \in [NoticeCall -> NoticeRequest] /\ noticed = 0 /\ noticeFails = 0 /\ overtaken = {}
  BY NobodyOwes DEF NoticesInit, KataRow
<1>3. NoticesTypeOK
  <2>1. noticed \in 0..MaxNoticeCalls /\ noticeFails \in 0..MaxNoticeFails
    <3>1. MaxNoticeCalls \in Nat /\ MaxNoticeFails \in Nat
      BY NoticeConstants
    <3>2. noticed = 0 /\ noticeFails = 0
      BY <1>2
    <3> QED
      BY ONLY <3>1, <3>2
  <2>2. \A k \in NoticeCall : notice[k].pc = "idle"
    BY <1>2, NobodyOwes
  <2>3. board \in BOOLEAN /\ queue \in Counts /\ turns \in Counts /\ overtaken \subseteq Kata
    BY <1>1, <1>2
  <2> QED
    BY <1>2, <2>1, <2>2, <2>3 DEF NoticesTypeOK
<1>4. \A k \in NoticeCall : RequestOK(k) /\ \A c, u, n : ~Owes(k, c, u, n)
  BY <1>2, NobodyOwes DEF RequestOK, Owes, Late
<1>5. ASSUME NEW c \in Kata, NEW u \in Recipient, NEW n \in Kinds PROVE Even(c, u, n)
  <2>1. Debt(c, u, n) = {}
    BY <1>4 DEF Debt
  <2> QED
    BY <1>1, <1>2, <2>1, FS_EmptySet DEF Even
<1> QED
  BY <1>2, <1>3, <1>4, <1>5 DEF NoticesInv

LEMMA NoticesInvKept == NoticesInv /\ [NoticesNext]_noticeVars => NoticesInv'
<1> SUFFICES ASSUME NoticesInv, [NoticesNext]_noticeVars PROVE NoticesInv'
  OBVIOUS
<1>1. ASSUME NEW k \in NoticeCall,
             \/ StartUpdate(k) \/ FindCard(k) \/ UpdateCard(k) \/ FindBoard(k) \/ TellAssignee(k) \/ TellOwner(k)
             \/ StartComment(k) \/ AddComment(k) \/ FindCommented(k) \/ FindCommentBoard(k) \/ TellCommented(k)
             \/ StartBulk(k) \/ CheckBulk(k) \/ WriteBulk(k)
             \/ StartDelete(k) \/ FindDeleted(k) \/ DeleteCard(k)
             \/ NoticeStepFails(k)
      PROVE  NoticesInv'
  BY <1>1, StartsKeep, ReadKatasKeeps, UpdateCardKeeps, FindBoardKeeps, TellAssigneeKeeps, TellLast, AddCommentKeeps,
     FindCommentBoardKeeps, CheckBulkKeeps, SilentStores, NoticeStepFailsKeeps
<1>2. CASE DeleteBoardAndCards
  BY <1>2, BoardGoneKeeps
<1>3. CASE UNCHANGED noticeVars
  <2>1. /\ kata' = kata /\ board' = board /\ queue' = queue /\ notice' = notice /\ noticed' = noticed
        /\ noticeFails' = noticeFails /\ turns' = turns /\ overtaken' = overtaken
    BY <1>3 DEF noticeVars
  <2>2. NoticesTypeOK'
    BY <2>1 DEF NoticesInv, NoticesTypeOK
  <2>3. \A k \in NoticeCall : RequestOK(k)' <=> RequestOK(k)
    BY <2>1 DEF RequestOK
  <2>4. \A k, c, u, n : Owes(k, c, u, n)' <=> Owes(k, c, u, n)
    BY <2>1 DEF Owes
  <2>5. \A c, u, n : Debt(c, u, n)' = Debt(c, u, n)
    BY <2>4 DEF Debt
  <2>6. \A c, u, n : Even(c, u, n)' <=> Even(c, u, n)
    BY <2>1, <2>5 DEF Even
  <2> QED
    BY <2>1, <2>2, <2>3, <2>6 DEF NoticesInv
<1> QED
  BY <1>1, <1>2, <1>3 DEF NoticesNext

\* Every step of a request, and the end of the board, keep the books even.
THEOREM NoticesInvHolds == NoticesSpec => []NoticesInv
BY NoticesInvInit, NoticesInvKept, PTL DEF NoticesSpec

\* However the requests that touch a card interleave: of every card that none
\* has overtaken, nobody is told more often than something happened, and once
\* all of its requests are over everybody has been told exactly as often.
THEOREM ToldOncePerTurnHolds == NoticesSpec => []ToldOncePerTurn
<1>1. NoticesInv => ToldOncePerTurn
  <2> SUFFICES ASSUME NoticesInv, NEW c \in Kata \ overtaken, NEW u \in Recipient, NEW n \in Kinds
               PROVE  /\ queue[c][u][n] <= turns[c][u][n]
                      /\ (\A k \in NoticeCall : notice[k].card # c) => queue[c][u][n] = turns[c][u][n]
    BY DEF ToldOncePerTurn
  <2>1. /\ Even(c, u, n) /\ queue \in Counts /\ turns \in Counts
    BY DEF NoticesInv, NoticesTypeOK
  <2>2. queue[c][u][n] \in Nat /\ turns[c][u][n] \in Nat
    BY ONLY <2>1, c \in Kata \ overtaken, u \in Recipient, n \in Kinds DEF Counts
  <2>3. IsFiniteSet(Debt(c, u, n)) /\ queue[c][u][n] + Cardinality(Debt(c, u, n)) = turns[c][u][n]
    BY <2>1 DEF Even
  <2>4. Cardinality(Debt(c, u, n)) \in Nat
    BY <2>3, FS_CardinalityType
  <2>5. (\A k \in NoticeCall : notice[k].card # c) => Cardinality(Debt(c, u, n)) = 0
    <3>1. (\A k \in NoticeCall : notice[k].card # c) => Debt(c, u, n) = {}
      BY DEF Debt, Owes
    <3> QED
      BY <3>1, FS_EmptySet
  <2>6. PICK d : d = Cardinality(Debt(c, u, n))
    OBVIOUS
  <2> QED
    BY ONLY <2>2, <2>3, <2>4, <2>5, <2>6
<1> QED
  BY <1>1, NoticesInvHolds, PTL

-----------------------------------------------------------------------------
(* All of them together.                                                    *)

BoardsInv ==
  CardsInv /\ SyncInv /\ HubInv /\ AccessInv /\ DetailInv /\ ColumnsInv /\ OauthInv /\ NoticesInv

\* In whatever area a run of MCBoards is, the rows, the requests and the tabs of
\* every area have their types: a step of one leaves the others as they are.
THEOREM BoardsTypeCorrect == BoardsSpec => []BoardsTypeOK
<1>1. BoardsInit => BoardsInv
  BY CardsStart, SyncStarts, HubStarts, AccessStarts, DetailStarts, ColumnsStart, OauthStarts,
     NoticesInvInit DEF BoardsInit, BoardsInv
<1>2. BoardsInv /\ [BoardsNext]_boardVars => BoardsInv'
  <2> SUFFICES ASSUME BoardsInv, [BoardsNext]_boardVars PROVE BoardsInv'
    OBVIOUS
  <2>1. /\ [Next]_vars /\ [SyncNext]_syncVars /\ [HubNext]_hubVars /\ [AccessNext]_accessVars
        /\ [DetailNext]_detailVars /\ [ColumnsNext]_colVars /\ [OauthNext]_oauthVars
        /\ [NoticesNext]_noticeVars
    BY DEF BoardsNext, boardVars
  <2> QED
    BY ONLY BoardsInv, <2>1, CardsInvKept, SyncInvKept, HubInvKept, AccessInvKept, DetailInvKept,
       ColumnsInvKept, OauthInvKept, NoticesInvKept DEF BoardsInv
<1>3. BoardsInv => BoardsTypeOK
  <2>1. AccessInv => AccessTypeOK
    BY DEF AccessInv, AccessTypeOK, TablesOK, Sound
  <2>2. ColumnsInv => ColumnsTypeOK
    <3> SUFFICES ASSUME ColumnShape PROVE ColumnsTypeOK
      BY DEF ColumnsInv
    <3>1. \A c \in Columns : columns[c] \in Key
      BY DEF ColumnShape, Columns, exists
    <3>2. ASSUME NEW k \in ColumnCall
          PROVE  /\ colCalls[k].pc \in {"idle", "tail", "insert", "reorder"}
                 /\ colCalls[k].pc = "insert" => colCalls[k].key \in Key
                 /\ colCalls[k].todo \subseteq Column
      <4>1. colCalls[k] \in ColumnWork /\ ColumnCallOK(colCalls[k])
        BY DEF ColumnShape
      <4>2. colCalls[k].pc \in {"idle", "tail", "insert", "reorder"} /\ colCalls[k].todo \subseteq Column
        BY ONLY <4>1 DEF ColumnWork
      <4> QED
        BY ONLY <4>1, <4>2 DEF ColumnCallOK
    <3> QED
      BY <3>1, <3>2 DEF ColumnShape, ColumnsTypeOK
  <2>3. DetailInv => DetailTypeOK
    BY DEF DetailInv, DetailShape
  <2>4. /\ SyncInv => SyncTypeOK
        /\ HubInv => HubTypeOK
        /\ OauthInv => OauthTypeOK
        /\ NoticesInv => NoticesTypeOK
    BY DEF SyncInv, HubInv, OauthInv, NoticesInv
  <2> QED
    BY ONLY <2>1, <2>2, <2>3, <2>4, CardsTypeCorrect DEF BoardsInv, BoardsTypeOK
<1> QED
  BY <1>1, <1>2, <1>3, PTL DEF BoardsSpec
=============================================================================
