---------------------------- MODULE BoardAccess ----------------------------
(***************************************************************************)
(* Who may do what on a board: the three answers the backend computes to   *)
(* that question -- for one user and one board (resolveBoardRole), for all *)
(* boards of a user (findAllForUser) and for all users of a board          *)
(* (findAllForBoard) -- and the requests that change it: making a board,   *)
(* attaching, re-roling and detaching clans, deleting the board.           *)
(*                                                                         *)
(* Every answer is put together from two reads; between them clans, their  *)
(* members and the board itself change.  Of a list the model follows the   *)
(* one entry of user q.who on board q.board: the entries do not interact.  *)
(***************************************************************************)
EXTENDS Integers

CONSTANTS
  Person, Team, Dojo,
  Query,       \* requests being served
  SeedBoards,  \* board -> its creator, or Nobody for one to come
  SeedTeams,   \* clan -> user -> role, or NoRole
  Nobody, Removed, NoRole,
  MaxQueries,  \* bound: requests ever started
  MaxChanges   \* bound: changes of clans and their members

\* BOARD_ROLE_RANK: 1 viewer, 2 editor, 3 owner; 0 is no access.
Ranks == 0..3

ClanRoles == {"reader", "member", "admin"}

\* CLAN_TO_BOARD, as a rank.
mapped(r) == CASE r = "admin" -> 3 [] r = "member" -> 2 [] r = "reader" -> 1 [] OTHER -> 0

ASSUME AccessConstants ==
  /\ NoRole \notin ClanRoles /\ Nobody \notin Person /\ Removed \notin Person
  /\ SeedBoards \in [Dojo -> Person \cup {Nobody}]
  /\ SeedTeams \in [Team -> [Person -> ClanRoles \cup {NoRole}]]
  /\ MaxQueries \in Nat /\ MaxChanges \in Nat

VARIABLES
  creator,  \* boards: who made it; Nobody before, Removed after
  ceiling,  \* board_clans: the rank a clan is capped at on a board; 0 for no row
  roles,    \* clan_members
  query,    \* the requests being served
  queries,  \* requests so far
  changes   \* changes of clans so far

accessVars == <<creator, ceiling, roles, query, queries, changes>>

Least(a, b) == IF a < b THEN a ELSE b

\* effectiveRole, and the rank clan t gives user u through a row capped at cap.
effectiveRole(r, cap) == Least(mapped(r), cap)
via(t, u, caps, members) == IF caps[t] = 0 THEN 0 ELSE effectiveRole(members[t][u], caps[t])

\* The rows of the join, and the highest of them; no row is no access.
Highest(S) == CHOOSE n \in S : \A k \in S : k =< n
bestOf(u, caps, members) == Highest({0} \cup {via(t, u, caps, members) : t \in Team})

viaClans(u, b) == bestOf(u, ceiling[b], roles)

\* History of q: low and high, the lowest and the highest rank that q.who had on
\* q.board, by the access rule, at any moment since q arrived.
Asked(pc, op, u, b, t, cap, rank) ==
  [pc |-> pc, op |-> op, who |-> u, board |-> b, team |-> t, cap |-> cap, answer |-> 0, low |-> rank, high |-> rank]

NoQuery == Asked("free", "view", Nobody, Nobody, Nobody, 0, 0)

\* Which answer an operation starts from.
Resolving == {"view", "delete"}            \* requireBoardRole, getBoard
Creating  == {"attach", "cap", "detach"}   \* requireBoardCreator
Listing   == {"boards", "members"}
Making    == {"make"}                      \* boardRepo.create

Queries ==
  [pc: {"free", "board", "rows", "done", "check", "insert", "write"},
   op: Resolving \cup Creating \cup Listing \cup Making, who: Person \cup {Nobody}, board: Dojo \cup {Nobody},
   team: Team \cup {Nobody}, cap: Ranks, answer: Ranks, low: Ranks, high: Ranks]

AccessTypeOK ==
  /\ creator \in [Dojo -> Person \cup {Nobody, Removed}]
  /\ ceiling \in [Dojo -> [Team -> Ranks]]
  /\ roles \in [Team -> [Person -> ClanRoles \cup {NoRole}]]
  /\ query \in [Query -> Queries]
  /\ \A q \in Query : query[q].pc # "free" => query[q].who \in Person /\ query[q].board \in Dojo
  /\ queries \in 0..MaxQueries /\ changes \in 0..MaxChanges

AccessInit ==
  /\ creator = SeedBoards
  /\ ceiling = [b \in Dojo |-> [t \in Team |-> 0]]
  /\ roles = SeedTeams
  /\ query = [q \in Query |-> NoQuery]
  /\ queries = 0 /\ changes = 0

\* The access rule of db/schema/board-clans.ts, in one look at the tables.
RuleIn(made, caps, members, u, b) ==
  LET ranks == {0} \cup {IF caps[b][t] = 0 THEN 0 ELSE Least(mapped(members[t][u]), caps[b][t]) : t \in Team}
  IN  IF made[b] = u THEN 3
      ELSE IF made[b] \in Person THEN CHOOSE n \in ranks : \A k \in ranks : k =< n ELSE 0

Rule(u, b) == RuleIn(creator, ceiling, roles, u, b)

-----------------------------------------------------------------------------
(* Requests.                                                                *)

\* Every step ends with what the requests under way could now be told.
Seen(r) ==
  IF r.pc \in {"free", "done"} THEN r
  ELSE LET now == RuleIn(creator', ceiling', roles', r.who, r.board)
       IN  [r EXCEPT !.low = Least(@, now), !.high = IF @ < now THEN now ELSE @]

Step(q, r) == query' = [p \in Query |-> Seen(IF p = q THEN r ELSE query[p])]

Tables == <<creator, ceiling, roles>>

Reads == UNCHANGED <<Tables, queries, changes>>

Ask(q) ==
  /\ query[q].pc \in {"free", "done"}
  /\ queries < MaxQueries
  /\ queries' = queries + 1
  /\ UNCHANGED <<Tables, changes>>
  /\ \E u \in Person, b \in Dojo, op \in Resolving \cup Listing :
       Step(q, Asked("board", op, u, b, Nobody, 0, Rule(u, b)))

\* Changing the clans of a board, or making one for a clan.
AskChange(q) ==
  /\ query[q].pc \in {"free", "done"}
  /\ queries < MaxQueries
  /\ queries' = queries + 1
  /\ UNCHANGED <<Tables, changes>>
  /\ \E u \in Person, b \in Dojo, op \in Creating \cup Making, t \in Team, cap \in {1, 2, 3} :
       /\ op = "make" => cap = 3 /\ creator[b] = Nobody
       /\ op = "detach" => cap = 1
       /\ Step(q, Asked(IF op = "make" THEN "insert" ELSE "board", op, u, b, t, cap, Rule(u, b)))

Done(r, n) == [r EXCEPT !.pc = "done", !.answer = n]

\* requireBoardRole('owner') lets a deletion through; a view is answered.
Concluded(r, n) ==
  IF r.op = "delete" /\ n = 3 THEN [r EXCEPT !.pc = "write", !.answer = n] ELSE Done(r, n)

\* The first read is of the board's row.  A resolution ends there for its
\* creator, and for a board that is not there; findAllForUser goes on anyway.
ReadBoard(q) ==
  /\ query[q].pc = "board"
  /\ Reads
  /\ LET r   == query[q]
         own == creator[r.board] = r.who
     IN  Step(q, IF r.op \in Creating THEN IF own THEN [r EXCEPT !.pc = "check"] ELSE Done(r, 0)
                 ELSE IF creator[r.board] \notin Person /\ r.op # "boards" THEN Done(r, 0)
                 ELSE IF r.op \in Resolving /\ own THEN Concluded(r, 3)
                 ELSE [r EXCEPT !.pc = "rows", !.answer = IF own THEN 3 ELSE 0])

\* Slip: a row of the clans replaces the creator's own.
ReadRowsOver(q) ==
  /\ query[q].pc = "rows"
  /\ Reads
  /\ LET r == query[q]
         n == viaClans(r.who, r.board)
     IN  Step(q, Concluded(r, IF n > 0 THEN n ELSE r.answer))

\* The second read joins the board's clans with their members; of a user's two
\* entries a list keeps the higher.
ReadRows(q) ==
  /\ query[q].pc = "rows"
  /\ Reads
  /\ LET r == query[q]
         n == viaClans(r.who, r.board)
     IN  Step(q, Concluded(r, IF n > r.answer THEN n ELSE r.answer))

\* Attaching looks for the row first; a change or a removal is one statement.
CheckRow(q) ==
  /\ query[q].pc = "check"
  /\ Reads
  /\ LET r == query[q]
     IN  Step(q, IF r.op = "attach" /\ ceiling[r.board][r.team] # 0 THEN Done(r, 0)
                 ELSE [r EXCEPT !.pc = "write"])

\* boardRepo.create inserts the board, and then the row of its clan.
InsertBoard(q) ==
  /\ query[q].pc = "insert" /\ creator[query[q].board] = Nobody
  /\ creator' = [creator EXCEPT ![query[q].board] = query[q].who]
  /\ UNCHANGED <<ceiling, roles, queries, changes>>
  /\ Step(q, [query[q] EXCEPT !.pc = "write"])

\* A row for a board that is gone is refused, and so is a second one of a clan.
WriteRow(q) ==
  /\ query[q].pc = "write" /\ query[q].op \in Creating \cup Making
  /\ LET r   == query[q]
         old == ceiling[r.board][r.team]
         new == IF r.op = "detach" THEN 0
                ELSE IF r.op = "cap" THEN IF old = 0 THEN 0 ELSE r.cap
                ELSE IF old = 0 /\ creator[r.board] \in Person THEN r.cap ELSE old
     IN  ceiling' = [ceiling EXCEPT ![r.board][r.team] = new]
  /\ UNCHANGED <<creator, roles, queries, changes>>
  /\ Step(q, Done(query[q], 0))

\* deleteBoard; the rows of the board go with it.
DeleteBoard(q) ==
  /\ query[q].pc = "write" /\ query[q].op = "delete"
  /\ LET b == query[q].board
     IN  /\ creator' = [creator EXCEPT ![b] = IF @ \in Person THEN Removed ELSE @]
         /\ ceiling' = [ceiling EXCEPT ![b] = [t \in Team |-> 0]]
  /\ UNCHANGED <<roles, queries, changes>>
  /\ Step(q, Done(query[q], query[q].answer))

\* An await fails or the process dies, between the two inserts too.
GiveUp(q) ==
  /\ query[q].pc \notin {"free", "done"}
  /\ Reads
  /\ Step(q, NoQuery)

\* A member joins, leaves or changes role, and a clan is deleted (see Clans).
ChangeMember(t, u) ==
  /\ changes < MaxChanges
  /\ changes' = changes + 1
  /\ \E r \in (ClanRoles \cup {NoRole}) \ {roles[t][u]} : roles' = [roles EXCEPT ![t][u] = r]
  /\ UNCHANGED <<creator, ceiling, queries>>
  /\ Step(Nobody, NoQuery)

DropTeam(t) ==
  /\ changes < MaxChanges
  /\ changes' = changes + 1
  /\ roles' = [roles EXCEPT ![t] = [u \in Person |-> NoRole]]
  /\ ceiling' = [b \in Dojo |-> [ceiling[b] EXCEPT ![t] = 0]]
  /\ UNCHANGED <<creator, queries>>
  /\ Step(Nobody, NoQuery)

AccessNext ==
  \/ \E q \in Query : \/ Ask(q) \/ AskChange(q) \/ ReadBoard(q) \/ ReadRows(q) \/ CheckRow(q)
                      \/ InsertBoard(q) \/ WriteRow(q) \/ DeleteBoard(q) \/ GiveUp(q)
  \/ \E t \in Team : DropTeam(t) \/ \E u \in Person : ChangeMember(t, u)

AccessSpec == AccessInit /\ [][AccessNext]_accessVars

-----------------------------------------------------------------------------
(* Properties.                                                              *)

\* Whatever changes between its two reads, an answer is never above the highest
\* nor below the lowest rank the access rule gave the user while the request
\* ran: nobody is let in who was not in, and nobody who stayed in is left out.
AnswersWereTrue ==
  \A q \in Query :
    LET r == query[q]
    IN  /\ r.pc = "write" /\ r.op = "delete" => r.high = 3
        /\ r.pc = "done" /\ r.op \notin Creating \cup Making => r.low =< r.answer /\ r.answer =< r.high
=============================================================================
