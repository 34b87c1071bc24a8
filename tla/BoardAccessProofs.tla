------------------------- MODULE BoardAccessProofs -------------------------
(***************************************************************************)
(* That no answer about a board is outside what its asker was allowed      *)
(* while the request ran, for any number of users, clans, boards, requests *)
(* and changes.                                                            *)
(*                                                                         *)
(* What the second read finds was true at the second read; the invariant   *)
(* carries what the first one found.  It held then (answer 3), or the      *)
(* board was not the asker's and is not now, or it became the asker's      *)
(* after a time when nobody had access.                                    *)
(***************************************************************************)
EXTENDS BoardAccess, TLAPS

\* A request, by itself.
Sound(r) ==
  /\ r \in Queries
  /\ r.pc # "free" => r.who \in Person /\ r.board \in Dojo
  /\ r.pc = "done" /\ r.op \notin Creating \cup Making => r.low =< r.answer /\ r.answer =< r.high
  /\ r.pc = "rows" => r.answer = 0 \/ (r.answer = 3 /\ r.high = 3)
  /\ r.pc = "write" /\ r.op = "delete" => r.answer = 3 /\ r.high = 3
  /\ r.pc = "insert" => r.op = "make"
  /\ r.pc = "check" => r.op \in Creating

\* A request that goes on without the creator's rank needs none, or came before it.
Apart(made, r) == (r.pc = "rows" /\ r.answer = 0) => (made[r.board] # r.who \/ r.low = 0)

\* The history of a request under way holds what the tables say now.
Within(made, caps, members, r) ==
  r.pc \notin {"free", "done"} =>
    LET now == RuleIn(made, caps, members, r.who, r.board) IN r.low =< now /\ now =< r.high

TablesOK(made, caps, members) ==
  /\ made \in [Dojo -> Person \cup {Nobody, Removed}]
  /\ caps \in [Dojo -> [Team -> Ranks]]
  /\ members \in [Team -> [Person -> ClanRoles \cup {NoRole}]]

\* A board that is not there has no clans.
NoStrayRows(made, caps) == \A b \in Dojo : made[b] \notin Person => \A t \in Team : caps[b][t] = 0

AccessInv ==
  /\ TablesOK(creator, ceiling, roles)
  /\ NoStrayRows(creator, ceiling)
  /\ query \in [Query -> Queries]
  /\ \A q \in Query : /\ Sound(query[q]) /\ Apart(creator, query[q])
                      /\ Within(creator, ceiling, roles, query[q])
  /\ queries \in 0..MaxQueries /\ changes \in 0..MaxChanges

-----------------------------------------------------------------------------
(* Ranks.                                                                   *)

\* The highest of some ranks is one of them, and none is above it.
LEMMA HighestRank ==
  ASSUME NEW S \in SUBSET Ranks, 0 \in S
  PROVE  Highest(S) \in S /\ \A k \in S : k =< Highest(S)
<1>1. \E n \in S : \A k \in S : k =< n
  <2>1. CASE 3 \in S
    BY <2>1 DEF Ranks
  <2>2. CASE 3 \notin S /\ 2 \in S
    BY <2>2 DEF Ranks
  <2>3. CASE 3 \notin S /\ 2 \notin S /\ 1 \in S
    BY <2>3 DEF Ranks
  <2>4. CASE 3 \notin S /\ 2 \notin S /\ 1 \notin S
    BY <2>4 DEF Ranks
  <2> QED
    BY <2>1, <2>2, <2>3, <2>4
<1> QED
  BY <1>1 DEF Highest

\* What the join answers is a rank, and none without rows.
LEMMA BestRank ==
  ASSUME NEW u \in Person, NEW caps \in [Team -> Ranks],
         NEW members \in [Team -> [Person -> ClanRoles \cup {NoRole}]]
  PROVE  /\ bestOf(u, caps, members) \in Ranks
         /\ (\A t \in Team : caps[t] = 0) => bestOf(u, caps, members) = 0
<1> DEFINE S == {0} \cup {via(t, u, caps, members) : t \in Team}
<1>1. \A t \in Team : via(t, u, caps, members) \in Ranks
  BY DEF via, effectiveRole, Least, mapped, Ranks, ClanRoles
<1>2. S \in SUBSET Ranks /\ 0 \in S
  BY <1>1 DEF Ranks
<1>3. (\A t \in Team : caps[t] = 0) => S \subseteq {0}
  BY DEF via
<1> HIDE DEF S
<1>4. Highest(S) \in S /\ S \subseteq Ranks
  BY <1>2, HighestRank
<1> QED
  BY <1>3, <1>4 DEF bestOf, S

\* The access rule: the creator owns, a board that is not there gives nothing, and
\* otherwise the clans' rows decide, as in the join.
LEMMA RuleCases ==
  ASSUME NEW made, NEW caps, NEW members, TablesOK(made, caps, members), NEW u \in Person, NEW b \in Dojo
  PROVE  /\ RuleIn(made, caps, members, u, b) \in Ranks
         /\ made[b] = u => RuleIn(made, caps, members, u, b) = 3
         /\ made[b] \notin Person => RuleIn(made, caps, members, u, b) = 0
         /\ (made[b] # u /\ made[b] \in Person) => RuleIn(made, caps, members, u, b) = bestOf(u, caps[b], members)
<1>1. CASE made[b] = u
  BY <1>1 DEF RuleIn, Ranks
<1>2. CASE made[b] \notin Person
  BY <1>2 DEF RuleIn, Ranks
<1>3. CASE made[b] # u /\ made[b] \in Person
  <2>1. RuleIn(made, caps, members, u, b) = bestOf(u, caps[b], members)
    BY <1>3 DEF RuleIn, bestOf, Highest, via, effectiveRole
  <2>2. bestOf(u, caps[b], members) \in Ranks
    BY BestRank DEF TablesOK
  <2> QED
    BY <1>3, <2>1, <2>2
<1> QED
  BY <1>1, <1>2, <1>3

-----------------------------------------------------------------------------
(* Steps.                                                                   *)

\* What a step tells a request keeps it sound.
LEMMA SeenKeeps ==
  ASSUME NEW r, Sound(r), TablesOK(creator', ceiling', roles'), Apart(creator', r)
  PROVE  LET s == Seen(r)
         IN  Sound(s) /\ Apart(creator', s) /\ Within(creator', ceiling', roles', s)
<1>1. CASE r.pc \in {"free", "done"}
  BY <1>1 DEF Seen, Within, Apart
<1>2. CASE r.pc \notin {"free", "done"}
  <2> DEFINE now == RuleIn(creator', ceiling', roles', r.who, r.board)
             s == [r EXCEPT !.low = Least(r.low, now), !.high = IF r.high < now THEN now ELSE r.high]
  <2>1. Seen(r) = s
    BY <1>2 DEF Seen
  <2>2. r \in Queries /\ r.who \in Person /\ r.board \in Dojo /\ r.low \in Ranks /\ r.high \in Ranks
    BY <1>2 DEF Sound, Queries
  <2>3. now \in Ranks
    BY <2>2, RuleCases
  <2> HIDE DEF now
  <2>4. /\ s \in Queries /\ s.pc = r.pc /\ s.op = r.op /\ s.who = r.who /\ s.board = r.board
        /\ s.answer = r.answer /\ s.low = Least(r.low, now) /\ s.high = IF r.high < now THEN now ELSE r.high
    BY <2>2, <2>3 DEF Queries, Least, Ranks
  <2> HIDE DEF s
  <2>5. s.low =< r.low /\ r.high =< s.high /\ s.low =< now /\ now =< s.high /\ s.low \in Ranks /\ s.high \in Ranks
    BY <2>2, <2>3, <2>4 DEF Least, Ranks
  <2>6. Sound(s)
    BY <1>2, <2>2, <2>4, <2>5 DEF Sound, Ranks
  <2>7. Apart(creator', s)
    BY <2>2, <2>4, <2>5 DEF Apart, Ranks
  <2>8. Within(creator', ceiling', roles', s)
    BY <2>4, <2>5 DEF Within, now
  <2> QED
    BY <2>1, <2>6, <2>7, <2>8
<1> QED
  BY <1>1, <1>2

\* A step that leaves sound tables, gives no board a creator but one that was not
\* there, and gives request q a sound next state.
LEMMA StepKeeps ==
  ASSUME AccessInv, NEW q, NEW r, Step(q, r), Sound(r), Apart(creator', r),
         TablesOK(creator', ceiling', roles'), NoStrayRows(creator', ceiling'),
         \A b \in Dojo : creator'[b] = creator[b] \/ creator[b] \notin Person \/ creator'[b] \notin Person,
         queries' \in 0..MaxQueries, changes' \in 0..MaxChanges
  PROVE  AccessInv'
<1>1. \A p \in Query : Sound(query[p]) /\ Apart(creator', query[p])
  <2> SUFFICES ASSUME NEW p \in Query, query[p].pc = "rows", query[p].answer = 0, query[p].low # 0
               PROVE  creator'[query[p].board] # query[p].who
    BY DEF AccessInv, Apart
  <2> DEFINE x == query[p]
  <2>1. Sound(x) /\ x.who \in Person /\ x.board \in Dojo /\ x.low \in Ranks
    BY DEF AccessInv, Sound, Queries
  <2>2. creator[x.board] # x.who
    BY DEF AccessInv, Apart
  <2>3. creator[x.board] \in Person
    <3>1. x.low =< Rule(x.who, x.board)
      BY DEF AccessInv, Within, Rule
    <3>2. creator[x.board] \notin Person => Rule(x.who, x.board) = 0
      BY <2>1, RuleCases DEF AccessInv, Rule
    <3> QED
      BY <2>1, <3>1, <3>2 DEF Ranks
  <2> QED
    BY <2>1, <2>2, <2>3
<1>2. \A p \in Query : query'[p] = Seen(IF p = q THEN r ELSE query[p])
  BY DEF Step
<1>3. \A p \in Query : /\ Sound(query'[p]) /\ Apart(creator', query'[p])
                       /\ Within(creator', ceiling', roles', query'[p])
  BY <1>1, <1>2, SeenKeeps
<1>4. query' \in [Query -> Queries]
  BY <1>3 DEF Step, Sound
<1> QED
  BY <1>3, <1>4 DEF AccessInv, Sound, Apart, Within

LEMMA NoQuerySound == Sound(NoQuery) /\ \A made, caps, members : Apart(made, NoQuery) /\ Within(made, caps, members, NoQuery)
<1>1. NoQuery \in Queries /\ NoQuery.pc = "free"
  BY DEF NoQuery, Asked, Queries, Resolving, Ranks
<1> QED
  BY <1>1 DEF Sound, Apart, Within

LEMMA AccessStarts == AccessInit => AccessInv
<1> SUFFICES ASSUME AccessInit PROVE AccessInv
  OBVIOUS
<1> USE AccessConstants DEF AccessInit
<1>1. TablesOK(creator, ceiling, roles) /\ NoStrayRows(creator, ceiling)
  BY DEF TablesOK, NoStrayRows, Ranks
<1> QED
  BY <1>1, NoQuerySound DEF AccessInv, Sound

\* A step that only reads.
LEMMA ReadKeeps ==
  ASSUME AccessInv, NEW q, NEW r, Step(q, r), UNCHANGED Tables,
         queries' \in 0..MaxQueries, changes' \in 0..MaxChanges,
         Sound(r), Apart(creator, r)
  PROVE  AccessInv'
<1>1. /\ TablesOK(creator', ceiling', roles') /\ NoStrayRows(creator', ceiling') /\ Apart(creator', r)
      /\ \A b \in Dojo : creator'[b] = creator[b]
  BY DEF AccessInv, Tables
<1> QED
  BY <1>1, StepKeeps

\* What the invariant says of one request.
LEMMA OneQuery ==
  ASSUME AccessInv, NEW q \in Query, query[q].pc \notin {"free", "done"}
  PROVE  LET r == query[q]
         IN  /\ Sound(r) /\ r \in Queries /\ r.who \in Person /\ r.board \in Dojo
             /\ r.low \in Ranks /\ r.high \in Ranks /\ r.answer \in Ranks
             /\ Rule(r.who, r.board) \in Ranks
             /\ r.low =< Rule(r.who, r.board) /\ Rule(r.who, r.board) =< r.high
             /\ Apart(creator, r)
<1> DEFINE r == query[q]
<1>1. Sound(r) /\ Apart(creator, r) /\ Within(creator, ceiling, roles, r)
  BY DEF AccessInv
<1>2. /\ r \in Queries /\ r.who \in Person /\ r.board \in Dojo
      /\ r.low \in Ranks /\ r.high \in Ranks /\ r.answer \in Ranks
  BY <1>1 DEF Sound, Queries
<1>3. Rule(r.who, r.board) \in Ranks
  BY <1>2, RuleCases DEF Rule, AccessInv
<1> QED
  BY <1>1, <1>2, <1>3 DEF Within, Rule

\* An answer between the two ranks is sound.
LEMMA DoneIsSound ==
  ASSUME NEW r \in Queries, r.who \in Person, r.board \in Dojo, NEW n \in Ranks,
         r.op \notin Creating \cup Making => r.low =< n /\ n =< r.high
  PROVE  Sound(Done(r, n)) /\ \A made : Apart(made, Done(r, n))
<1> DEFINE s == Done(r, n)
<1>1. /\ s \in Queries /\ s.pc = "done" /\ s.op = r.op /\ s.who = r.who /\ s.board = r.board
      /\ s.answer = n /\ s.low = r.low /\ s.high = r.high
  BY DEF Done, Queries
<1> HIDE DEF s
<1> QED
  BY <1>1 DEF Sound, Apart, s

LEMMA ConcludedIsSound ==
  ASSUME NEW r \in Queries, r.who \in Person, r.board \in Dojo, NEW n \in Ranks,
         r.op \notin Creating \cup Making => r.low =< n /\ n =< r.high
  PROVE  Sound(Concluded(r, n)) /\ \A made : Apart(made, Concluded(r, n))
<1>1. CASE r.op = "delete" /\ n = 3
  <2> DEFINE s == [r EXCEPT !.pc = "write", !.answer = n]
  <2>1. /\ s \in Queries /\ s.pc = "write" /\ s.op = r.op /\ s.who = r.who /\ s.board = r.board
        /\ s.answer = n /\ s.high = r.high
    BY DEF Queries
  <2>2. r.high = 3
    BY <1>1 DEF Queries, Ranks, Creating, Making
  <2>3. Concluded(r, n) = s
    BY <1>1 DEF Concluded
  <2> HIDE DEF s
  <2> QED
    BY <1>1, <2>1, <2>2, <2>3 DEF Sound, Apart
<1>2. CASE ~(r.op = "delete" /\ n = 3)
  BY <1>2, DoneIsSound DEF Concluded
<1> QED
  BY <1>1, <1>2

\* A request that moves on to another statement.
LEMMA GotoIsSound ==
  ASSUME NEW r \in Queries, r.who \in Person, r.board \in Dojo,
         NEW pc \in {"board", "check", "insert", "write"},
         pc = "insert" => r.op = "make", pc = "check" => r.op \in Creating, pc = "write" => r.op # "delete"
  PROVE  Sound([r EXCEPT !.pc = pc]) /\ \A made : Apart(made, [r EXCEPT !.pc = pc])
<1> DEFINE s == [r EXCEPT !.pc = pc]
<1>1. s \in Queries /\ s.pc = pc /\ s.op = r.op /\ s.who = r.who /\ s.board = r.board
  BY DEF Queries
<1> HIDE DEF s
<1> QED
  BY <1>1 DEF Sound, Apart, s

LEMMA AskKeeps ==
  ASSUME AccessInv, NEW q \in Query, Ask(q) \/ AskChange(q) PROVE AccessInv'
<1> USE AccessConstants
<1>0. \A u \in Person, b \in Dojo : Rule(u, b) \in Ranks
  BY RuleCases DEF Rule, AccessInv
<1>1. PICK pc \in {"board", "insert"}, op \in Resolving \cup Creating \cup Listing \cup Making,
           u \in Person, b \in Dojo, t \in Team \cup {Nobody}, cap \in Ranks :
        /\ Step(q, Asked(pc, op, u, b, t, cap, Rule(u, b)))
        /\ pc = "insert" => op = "make"
  <2>1. CASE Ask(q)
    <3>1. 0 \in Ranks
      BY DEF Ranks
    <3> QED
      BY <2>1, <3>1 DEF Ask
  <2>2. CASE AskChange(q)
    <3>1. \A cap \in {1, 2, 3} : cap \in Ranks
      BY DEF Ranks
    <3> QED
      BY <2>2, <3>1 DEF AskChange
  <2> QED
    BY <2>1, <2>2
<1> DEFINE r == Asked(pc, op, u, b, t, cap, Rule(u, b))
<1>2. Sound(r) /\ Apart(creator, r)
  <2>1. 0 \in Ranks /\ Rule(u, b) \in Ranks
    BY <1>0 DEF Ranks
  <2>2. r \in Queries /\ r.who = u /\ r.board = b /\ r.pc = pc /\ r.op = op
    BY <2>1 DEF Asked, Queries
  <2> HIDE DEF r
  <2> QED
    BY <1>1, <2>2 DEF Sound, Apart
<1>3. queries' \in 0..MaxQueries /\ changes' \in 0..MaxChanges /\ UNCHANGED Tables
  <2>1. queries < MaxQueries /\ queries' = queries + 1 /\ UNCHANGED <<Tables, changes>>
    BY DEF Ask, AskChange
  <2> QED
    BY <2>1 DEF AccessInv
<1> QED
  BY <1>1, <1>2, <1>3, ReadKeeps

\* The first read.
LEMMA ReadBoardKeeps ==
  ASSUME AccessInv, NEW q \in Query, ReadBoard(q) PROVE AccessInv'
<1> USE AccessConstants
<1> DEFINE r == query[q]
           own == creator[r.board] = r.who
           on == [r EXCEPT !.pc = "rows", !.answer = IF own THEN 3 ELSE 0]
           n == IF r.op \in Creating THEN IF own THEN [r EXCEPT !.pc = "check"] ELSE Done(r, 0)
                ELSE IF creator[r.board] \notin Person /\ r.op # "boards" THEN Done(r, 0)
                ELSE IF r.op \in Resolving /\ own THEN Concluded(r, 3)
                ELSE on
<1>1. r.pc = "board" /\ Reads /\ Step(q, n)
  BY DEF ReadBoard
<1>2. /\ Sound(r) /\ r \in Queries /\ r.who \in Person /\ r.board \in Dojo
      /\ r.low \in Ranks /\ r.high \in Ranks
      /\ r.low =< Rule(r.who, r.board) /\ Rule(r.who, r.board) =< r.high
  BY <1>1, OneQuery
<1>3. /\ own => Rule(r.who, r.board) = 3
      /\ creator[r.board] \notin Person => Rule(r.who, r.board) = 0
  BY <1>2, RuleCases DEF Rule, AccessInv
<1>4. 0 \in Ranks /\ 3 \in Ranks
  BY DEF Ranks
<1>5. own => r.low =< 3 /\ 3 =< r.high /\ r.high = 3
  BY <1>2, <1>3 DEF Ranks
<1>6. creator[r.board] \notin Person => r.low =< 0 /\ 0 =< r.high
  BY <1>2, <1>3
<1>7. Sound(on) /\ Apart(creator, on)
  <2>1. /\ on \in Queries /\ on.pc = "rows" /\ on.who \in Person /\ on.board \in Dojo
        /\ on.who = r.who /\ on.board = r.board /\ on.high = r.high
    BY <1>2, <1>4 DEF Queries
  <2>4. on.answer = IF own THEN 3 ELSE 0
    BY <1>2 DEF Queries
  <2>2. CASE own
    <3>1. on.answer = 3 /\ on.high = 3
      BY <1>5, <2>1, <2>4, <2>2
    <3> HIDE DEF on, own, r
    <3>2. Sound(on)
      BY <2>1, <3>1 DEF Sound
    <3>3. Apart(creator, on)
      BY <2>1, <3>1 DEF Apart
    <3> QED
      BY <3>2, <3>3
  <2>3. CASE ~own
    <3>1. on.answer = 0 /\ creator[on.board] # on.who
      BY <2>1, <2>4, <2>3
    <3> HIDE DEF on, own, r
    <3>2. Sound(on)
      BY <2>1, <3>1 DEF Sound
    <3>3. Apart(creator, on)
      BY <2>1, <3>1 DEF Apart
    <3> QED
      BY <3>2, <3>3
  <2> QED
    BY <2>2, <2>3
<1>8. Sound(n) /\ Apart(creator, n)
  <2> HIDE DEF r, own, on
  <2>1. CASE r.op \in Creating /\ own
    BY <1>2, <2>1, GotoIsSound
  <2>2. CASE r.op \in Creating /\ ~own
    BY <1>2, <1>4, <2>2, DoneIsSound
  <2>3. CASE r.op \notin Creating /\ creator[r.board] \notin Person /\ r.op # "boards"
    BY <1>2, <1>4, <1>6, <2>3, DoneIsSound
  <2>4. CASE r.op \in Resolving /\ own
    <3>1. r.op \notin Creating /\ creator[r.board] \in Person
      BY <1>2, <2>4 DEF Resolving, Creating, own
    <3>2. Sound(Concluded(r, 3)) /\ Apart(creator, Concluded(r, 3))
      BY <1>2, <1>4, <1>5, <2>4, ConcludedIsSound
    <3> QED
      BY <2>4, <3>1, <3>2
  <2>5. CASE r.op \notin Creating /\ ~(creator[r.board] \notin Person /\ r.op # "boards") /\ ~(r.op \in Resolving /\ own)
    BY <1>7, <2>5
  <2> QED
    BY <2>1, <2>2, <2>3, <2>4, <2>5
<1> HIDE DEF n
<1>9. queries' \in 0..MaxQueries /\ changes' \in 0..MaxChanges /\ UNCHANGED Tables
  BY <1>1 DEF Reads, AccessInv
<1> QED
  BY <1>1, <1>8, <1>9, ReadKeeps

\* The second read: what it finds is true now, and what the first one found was.
LEMMA ReadRowsKeeps ==
  ASSUME AccessInv, NEW q \in Query, ReadRows(q) PROVE AccessInv'
<1> DEFINE r == query[q]
           n == viaClans(r.who, r.board)
           m == IF n > r.answer THEN n ELSE r.answer
<1>1. r.pc = "rows" /\ Reads /\ Step(q, Concluded(r, m))
  BY DEF ReadRows
<1>2. /\ Sound(r) /\ Apart(creator, r) /\ r \in Queries /\ r.who \in Person /\ r.board \in Dojo
      /\ r.low \in Ranks /\ r.high \in Ranks /\ r.answer \in Ranks
      /\ r.low =< Rule(r.who, r.board) /\ Rule(r.who, r.board) =< r.high
  BY <1>1, OneQuery
<1>3. TablesOK(creator, ceiling, roles) /\ ceiling[r.board] \in [Team -> Ranks]
  BY <1>2 DEF AccessInv, TablesOK
<1>4. n \in Ranks /\ (creator[r.board] \notin Person => n = 0)
  BY <1>2, <1>3, BestRank DEF viaClans, AccessInv, TablesOK, NoStrayRows
<1>5. r.answer = 0 \/ (r.answer = 3 /\ r.high = 3)
  BY <1>1, <1>2 DEF Sound
<1>6. r.low =< m /\ m =< r.high /\ m \in Ranks
  <2> DEFINE now == Rule(r.who, r.board)
  <2>1. /\ now \in Ranks
        /\ creator[r.board] = r.who => now = 3
        /\ creator[r.board] \notin Person => now = 0
        /\ (creator[r.board] # r.who /\ creator[r.board] \in Person) => now = n
    BY <1>2, <1>3, RuleCases DEF Rule, viaClans
  <2> HIDE DEF n, now
  <2>2. CASE r.answer = 3
    BY <1>2, <1>4, <1>5, <2>2 DEF Ranks
  <2>3. CASE r.answer = 0 /\ creator[r.board] # r.who
    <3>1. m = n /\ now = n
      BY <1>4, <2>1, <2>3 DEF Ranks
    <3> QED
      BY <1>2, <1>4, <3>1 DEF now
  <2>4. CASE r.answer = 0 /\ creator[r.board] = r.who
    <3>1. r.low = 0 /\ now = 3
      BY <1>1, <1>2, <2>1, <2>4 DEF Apart
    <3> QED
      BY <1>2, <1>4, <2>4, <3>1 DEF Ranks, now
  <2> QED
    BY <1>5, <2>2, <2>3, <2>4
<1> HIDE DEF m, n
<1>7. Sound(Concluded(r, m)) /\ Apart(creator, Concluded(r, m))
  BY <1>2, <1>6, ConcludedIsSound
<1>8. queries' \in 0..MaxQueries /\ changes' \in 0..MaxChanges /\ UNCHANGED Tables
  BY <1>1 DEF Reads, AccessInv
<1> QED
  BY <1>1, <1>7, <1>8, ReadKeeps

\* The look for a row, and a request that fails.
LEMMA CheckRowKeeps ==
  ASSUME AccessInv, NEW q \in Query, CheckRow(q) PROVE AccessInv'
<1> DEFINE r == query[q]
           n == IF r.op = "attach" /\ ceiling[r.board][r.team] # 0 THEN Done(r, 0) ELSE [r EXCEPT !.pc = "write"]
<1>1. r.pc = "check" /\ Reads /\ Step(q, n)
  BY DEF CheckRow
<1>2. r \in Queries /\ r.who \in Person /\ r.board \in Dojo /\ r.op \in Creating /\ 0 \in Ranks
  BY <1>1, OneQuery DEF Sound, Ranks
<1>3. r.op # "delete"
  BY <1>2 DEF Creating
<1>4. Sound(Done(r, 0)) /\ Apart(creator, Done(r, 0))
  BY <1>2, DoneIsSound
<1>5. Sound([r EXCEPT !.pc = "write"]) /\ Apart(creator, [r EXCEPT !.pc = "write"])
  BY <1>2, <1>3, GotoIsSound
<1>6. Sound(n) /\ Apart(creator, n)
  BY <1>4, <1>5
<1> HIDE DEF n
<1>7. queries' \in 0..MaxQueries /\ changes' \in 0..MaxChanges /\ UNCHANGED Tables
  BY <1>1 DEF Reads, AccessInv
<1> QED
  BY <1>1, <1>6, <1>7, ReadKeeps

LEMMA GiveUpKeeps ==
  ASSUME AccessInv, NEW q \in Query, GiveUp(q) PROVE AccessInv'
<1>1. Reads /\ Step(q, NoQuery)
  BY DEF GiveUp
<1>2. Sound(NoQuery) /\ Apart(creator, NoQuery)
  BY NoQuerySound
<1>3. queries' \in 0..MaxQueries /\ changes' \in 0..MaxChanges /\ UNCHANGED Tables
  BY <1>1 DEF Reads, AccessInv
<1> QED
  BY <1>1, <1>2, <1>3, ReadKeeps

\* A board is inserted; nobody had access to it before.
LEMMA InsertBoardKeeps ==
  ASSUME AccessInv, NEW q \in Query, InsertBoard(q) PROVE AccessInv'
<1> USE AccessConstants
<1> DEFINE r == query[q]
           n == [r EXCEPT !.pc = "write"]
<1>1. r.pc = "insert" /\ creator[r.board] = Nobody /\ Step(q, n)
  BY DEF InsertBoard
<1>2. r \in Queries /\ r.who \in Person /\ r.board \in Dojo /\ r.op = "make"
  BY <1>1, OneQuery DEF Sound
<1>3. Sound(n) /\ Apart(creator', n)
  BY <1>2, GotoIsSound
<1> HIDE DEF n
<1>4. creator' = [creator EXCEPT ![r.board] = r.who] /\ UNCHANGED <<ceiling, roles, queries, changes>>
  BY DEF InsertBoard
<1>5. \A b \in Dojo : creator'[b] = IF b = r.board THEN r.who ELSE creator[b]
  BY <1>2, <1>4 DEF AccessInv, TablesOK
<1>6. TablesOK(creator', ceiling', roles') /\ NoStrayRows(creator', ceiling')
  BY <1>2, <1>4, <1>5 DEF AccessInv, TablesOK, NoStrayRows
<1>7. \A b \in Dojo : creator'[b] = creator[b] \/ creator[b] \notin Person \/ creator'[b] \notin Person
  BY <1>1, <1>5
<1>8. queries' \in 0..MaxQueries /\ changes' \in 0..MaxChanges
  BY <1>4 DEF AccessInv
<1> QED
  BY <1>1, <1>3, <1>6, <1>7, <1>8, StepKeeps

\* A row of a board is written, if the board is there.
LEMMA WriteRowKeeps ==
  ASSUME AccessInv, NEW q \in Query, WriteRow(q) PROVE AccessInv'
<1> DEFINE r   == query[q]
           old == ceiling[r.board][r.team]
           new == IF r.op = "detach" THEN 0
                  ELSE IF r.op = "cap" THEN IF old = 0 THEN 0 ELSE r.cap
                  ELSE IF old = 0 /\ creator[r.board] \in Person THEN r.cap ELSE old
           n   == Done(r, 0)
<1>1. r.pc = "write" /\ r.op \in Creating \cup Making /\ Step(q, n)
  BY DEF WriteRow
<1>2. ceiling' = [ceiling EXCEPT ![r.board][r.team] = new] /\ UNCHANGED <<creator, roles, queries, changes>>
  BY DEF WriteRow
<1>3. r \in Queries /\ r.who \in Person /\ r.board \in Dojo /\ r.cap \in Ranks /\ 0 \in Ranks
  BY <1>1, OneQuery DEF Sound, Queries, Ranks
<1>4. Sound(n) /\ Apart(creator', n)
  BY <1>1, <1>3, DoneIsSound
<1> HIDE DEF n, r
<1>5. ceiling \in [Dojo -> [Team -> Ranks]] /\ NoStrayRows(creator, ceiling)
  BY DEF AccessInv, TablesOK
<1>6. r.team \in Team => /\ new \in Ranks
                         /\ creator[r.board] \notin Person => new = 0
  BY <1>3, <1>5 DEF NoStrayRows
<1> HIDE DEF new
<1>7. \A b \in Dojo : /\ ceiling'[b] \in [Team -> Ranks]
                      /\ \A t \in Team : ceiling'[b][t] = IF b = r.board /\ t = r.team THEN new ELSE ceiling[b][t]
  BY <1>2, <1>3, <1>5, <1>6
<1>8. TablesOK(creator', ceiling', roles')
  BY <1>2, <1>5, <1>7 DEF AccessInv, TablesOK
<1>9. NoStrayRows(creator', ceiling')
  BY <1>2, <1>5, <1>6, <1>7 DEF NoStrayRows
<1>10. queries' \in 0..MaxQueries /\ changes' \in 0..MaxChanges /\ \A b \in Dojo : creator'[b] = creator[b]
  BY <1>2 DEF AccessInv
<1> QED
  BY <1>1, <1>4, <1>8, <1>9, <1>10, StepKeeps

\* A board goes with its rows.
LEMMA DeleteBoardKeeps ==
  ASSUME AccessInv, NEW q \in Query, DeleteBoard(q) PROVE AccessInv'
<1> USE AccessConstants
<1> DEFINE r == query[q]
           n == Done(r, r.answer)
<1>1. r.pc = "write" /\ r.op = "delete" /\ Step(q, n)
  BY DEF DeleteBoard
<1>2. /\ creator' = [creator EXCEPT ![r.board] = IF creator[r.board] \in Person THEN Removed ELSE creator[r.board]]
      /\ ceiling' = [ceiling EXCEPT ![r.board] = [t \in Team |-> 0]]
      /\ UNCHANGED <<roles, queries, changes>>
  BY DEF DeleteBoard
<1>3. /\ r \in Queries /\ r.who \in Person /\ r.board \in Dojo /\ r.low \in Ranks
      /\ r.answer = 3 /\ r.high = 3 /\ 3 \in Ranks
  BY <1>1, OneQuery DEF Sound, Ranks
<1>4. Sound(n) /\ Apart(creator', n)
  <2>1. r.low =< r.answer /\ r.answer =< r.high /\ r.answer \in Ranks
    BY <1>3 DEF Ranks
  <2> QED
    BY <1>3, <2>1, DoneIsSound
<1> HIDE DEF n, r
<1>5. TablesOK(creator, ceiling, roles) /\ NoStrayRows(creator, ceiling) /\ 0 \in Ranks
  BY DEF AccessInv, Ranks
<1>6. \A b \in Dojo : creator'[b] = IF b # r.board THEN creator[b]
                                    ELSE IF creator[b] \in Person THEN Removed ELSE creator[b]
  BY <1>2, <1>3, <1>5 DEF TablesOK
<1>7. \A b \in Dojo : ceiling'[b] = IF b = r.board THEN [t \in Team |-> 0] ELSE ceiling[b]
  BY <1>2, <1>3, <1>5 DEF TablesOK
<1>8. TablesOK(creator', ceiling', roles')
  BY <1>2, <1>5, <1>6, <1>7 DEF TablesOK
<1>9. NoStrayRows(creator', ceiling')
  BY <1>5, <1>6, <1>7 DEF NoStrayRows
<1>10. \A b \in Dojo : creator'[b] = creator[b] \/ creator[b] \notin Person \/ creator'[b] \notin Person
  BY <1>6
<1>11. queries' \in 0..MaxQueries /\ changes' \in 0..MaxChanges
  BY <1>2 DEF AccessInv
<1> QED
  BY <1>1, <1>4, <1>8, <1>9, <1>10, <1>11, StepKeeps

\* Members and clans come and go.
LEMMA ChangeKeeps ==
  ASSUME AccessInv, NEW t \in Team, DropTeam(t) \/ \E u \in Person : ChangeMember(t, u)
  PROVE  AccessInv'
<1> USE AccessConstants
<1>1. /\ Step(Nobody, NoQuery) /\ UNCHANGED <<creator, queries>>
      /\ changes < MaxChanges /\ changes' = changes + 1
  BY DEF DropTeam, ChangeMember
<1>2. Sound(NoQuery) /\ Apart(creator', NoQuery)
  BY NoQuerySound
<1>3. TablesOK(creator, ceiling, roles) /\ NoStrayRows(creator, ceiling) /\ 0 \in Ranks
  BY DEF AccessInv, Ranks
<1>4. TablesOK(creator', ceiling', roles') /\ NoStrayRows(creator', ceiling')
  <2>1. CASE DropTeam(t)
    <3>1. /\ roles' = [roles EXCEPT ![t] = [u \in Person |-> NoRole]]
          /\ ceiling' = [b \in Dojo |-> [ceiling[b] EXCEPT ![t] = 0]]
      BY <2>1 DEF DropTeam
    <3>2. roles' \in [Team -> [Person -> ClanRoles \cup {NoRole}]]
      BY <1>3, <3>1 DEF TablesOK
    <3>3. \A b \in Dojo : /\ ceiling'[b] \in [Team -> Ranks]
                          /\ \A s \in Team : ceiling'[b][s] = IF s = t THEN 0 ELSE ceiling[b][s]
      BY <1>3, <3>1 DEF TablesOK
    <3>4. ceiling' \in [Dojo -> [Team -> Ranks]]
      BY <3>1, <3>3
    <3> QED
      BY <1>1, <1>3, <3>2, <3>3, <3>4 DEF TablesOK, NoStrayRows
  <2>2. CASE \E u \in Person : ChangeMember(t, u)
    <3>1. PICK u \in Person, x \in ClanRoles \cup {NoRole} : roles' = [roles EXCEPT ![t][u] = x]
      BY <2>2 DEF ChangeMember
    <3>2. ceiling' = ceiling
      BY <2>2 DEF ChangeMember
    <3>3. roles' \in [Team -> [Person -> ClanRoles \cup {NoRole}]]
      BY <1>3, <3>1 DEF TablesOK
    <3> QED
      BY <1>1, <1>3, <3>2, <3>3 DEF TablesOK, NoStrayRows
  <2> QED
    BY <2>1, <2>2
<1>5. queries' \in 0..MaxQueries /\ changes' \in 0..MaxChanges /\ \A b \in Dojo : creator'[b] = creator[b]
  BY <1>1 DEF AccessInv
<1> QED
  BY <1>1, <1>2, <1>4, <1>5, StepKeeps

-----------------------------------------------------------------------------

LEMMA AccessInvKept == AccessInv /\ [AccessNext]_accessVars => AccessInv'
<1> SUFFICES ASSUME AccessInv, [AccessNext]_accessVars PROVE AccessInv'
  OBVIOUS
<1>1. CASE UNCHANGED accessVars
  BY <1>1 DEF accessVars, AccessInv, Sound, Apart, Within
<1>2. CASE AccessNext
  BY <1>2, AskKeeps, ReadBoardKeeps, ReadRowsKeeps, CheckRowKeeps, InsertBoardKeeps, WriteRowKeeps,
     DeleteBoardKeeps, GiveUpKeeps, ChangeKeeps DEF AccessNext
<1> QED
  BY <1>1, <1>2

\* The invariant holds in every reachable state.
THEOREM AccessInvariant == AccessSpec => []AccessInv
BY AccessStarts, AccessInvKept, PTL DEF AccessSpec

\* AnswersWereTrue for any number of users, clans, boards and requests: whatever
\* happens between the two reads, the answer was true while the request ran.
THEOREM AnswersAreTrue == AccessSpec => []AnswersWereTrue
<1>1. AccessInv => AnswersWereTrue
  BY DEF AccessInv, Sound, AnswersWereTrue
<1> QED
  BY AccessInvariant, <1>1, PTL
=============================================================================
