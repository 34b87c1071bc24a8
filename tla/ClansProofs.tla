----------------------------- MODULE ClansProofs -----------------------------
(***************************************************************************)
(* Theorems about Clans, for every set of users, clans, rows and request   *)
(* slots.                                                                  *)
(***************************************************************************)
EXTENDS Clans, FiniteSetTheorems, TLAPS

-----------------------------------------------------------------------------
(* Type correctness.                                                        *)

\* The constants as the leaves below use them.
LEMMA ConstantFacts ==
  /\ Owner \subseteq User /\ FreeOwner \subseteq Owner
  /\ IsFiniteSet(User) /\ IsFiniteSet(Request)
  /\ Proc = Request \cup {Job} /\ Job \notin Request
  /\ None \notin User /\ None \notin Clan /\ None \notin Member /\ None \notin Inv
  /\ Gone \notin User /\ Gone # None
  /\ None \notin MemberRow /\ Gone \notin MemberRow
  /\ None \notin Invitation /\ Gone \notin Invitation
  /\ InviteRole \subseteq Role /\ Caller \subseteq User
  /\ Cap \in Nat \ {0}
BY ClansConstants, SeatSyncConstants

LEMMA IdleType == Idle \in SyncState /\ Idle.at = "idle"
BY DEF Idle, SyncState

LEMMA NoReqType == NoReq \in ReqState /\ NoReq.pc = "idle"
BY DEF NoReq, ReqState, Operation, Role

\* The seed is a well-typed state.
LEMMA InitType == Init => TypeOK
<1> SUFFICES ASSUME Init PROVE TypeOK
  OBVIOUS
<1>1. SeatTypeOK
  BY SeedIsSound, IdleType DEF Init, SeatTypeOK
<1>2. createdBy \in [Clan -> User \cup {None, Gone}] /\ settings \subseteq Clan
  BY SeedIsSound DEF Init
<1>3. /\ members \in [Member -> MemberRow \cup {None, Gone}]
      /\ invites \in [Inv -> Invitation \cup {None, Gone}]
  BY SeedIsSound DEF Init
<1>4. req \in [Request -> ReqState] /\ \A r \in Request : Shape(req[r])
  BY NoReqType DEF Init, Shape, NoReq
<1> QED
  BY <1>1, <1>2, <1>3, <1>4 DEF TypeOK, Init, NoJob

\* A step that puts request r at q and leaves the others where they are.
LEMMA MoveType ==
  ASSUME TypeOK, NEW r \in Request, NEW q \in ReqState, Shape(q),
         req' = [req EXCEPT ![r] = q]
  PROVE  req' \in [Request -> ReqState] /\ \A s \in Request : Shape(req'[s])
BY DEF TypeOK

\* A call for owner o is a well-typed sync.
LEMMA SyncCallType ==
  ASSUME SeatTypeOK, NEW p \in Proc, NEW o \in User, SyncCall(p, o), UNCHANGED <<sub, items>>
  PROVE  SeatTypeOK'
BY DEF SeatTypeOK, SyncCall, Idle, SyncState

LEMMA SyncStepType ==
  ASSUME SeatTypeOK, NEW p \in Proc, NEW n \in Nat,
         SyncReadSub(p) \/ SyncCount(p, n) \/ SyncRetrieve(p) \/ SyncUpdate(p) \/ SyncThrow(p)
  PROVE  SeatTypeOK'
<1>1. CASE SyncReadSub(p)
  BY <1>1 DEF SeatTypeOK, SyncReadSub, Idle, SyncState, SubRow
<1>2. CASE SyncCount(p, n)
  BY <1>2 DEF SeatTypeOK, SyncCount, billableSeats, SyncState
<1>3. CASE SyncRetrieve(p)
  <2> DEFINE base == baseItem(items[sync[p].owner], sync[p].price)
  <2>1. base \subseteq Item
    BY DEF baseItem
  <2>2. sync[p] \in SyncState /\ sync[p].at = "retrieve" /\ sync[p].owner \in User
    BY <1>3 DEF SeatTypeOK, SyncRetrieve
  <2>3. CASE sync' = [sync EXCEPT ![p] = Idle]
    BY <2>3, <1>3, IdleType DEF SeatTypeOK, SyncRetrieve
  <2>4. ASSUME NEW i \in base,
               sync' = [sync EXCEPT ![p] = [sync[p] EXCEPT !.at = "update", !.item = i]]
        PROVE  SeatTypeOK'
    <3>1. [sync[p] EXCEPT !.at = "update", !.item = i] \in SyncState
      BY <2>1, <2>2 DEF SyncState
    <3> QED
      BY <3>1, <2>1, <2>2, <2>4, <1>3 DEF SeatTypeOK, SyncRetrieve, SyncState
  <2>5. \/ sync' = [sync EXCEPT ![p] = Idle]
        \/ \E i \in base : sync' = [sync EXCEPT ![p] = [sync[p] EXCEPT !.at = "update", !.item = i]]
    BY <1>3 DEF SyncRetrieve, SeatTypeOK
  <2> QED BY <2>3, <2>4, <2>5
<1>4. CASE SyncUpdate(p)
  <2>1. sync[p] \in SyncState /\ sync[p].owner \in User /\ sync[p].item \in Item
    BY <1>4 DEF SeatTypeOK, SyncUpdate
  <2>2. sync[p].qty \in Nat
    BY <2>1 DEF SyncState
  <2>3. items' \in [User -> [Item -> StripeItem]]
    BY <1>4, <2>1, <2>2 DEF SeatTypeOK, SyncUpdate, StripeItem
  <2> QED BY <1>4, <2>3, IdleType DEF SeatTypeOK, SyncUpdate
<1>5. CASE SyncThrow(p)
  BY <1>5, IdleType DEF SeatTypeOK, SyncThrow
<1> QED BY <1>1, <1>2, <1>3, <1>4, <1>5

\* A handler step that only reads: it moves request r to q.
LEMMA ReadType ==
  ASSUME TypeOK, NEW r \in Request, NEW q \in ReqState, Shape(q),
         req' = [req EXCEPT ![r] = q],
         UNCHANGED <<sub, items, sync, rows, job, history>>
  PROVE  TypeOK'
BY MoveType DEF TypeOK, SeatTypeOK, rows, history

\* A call arrives, whatever it asks for.
LEMMA StartType ==
  ASSUME TypeOK, NEW r \in Request, NEW q \in ReqState, Shape(q), Start(r, q)
  PROVE  TypeOK'
BY MoveType DEF TypeOK, SeatTypeOK, Start, rows

LEMMA ArriveType ==
  ASSUME TypeOK, NEW r \in Request, Arrive(r)
  PROVE  TypeOK'
<1>1. CASE StartCreate(r)
  BY <1>1, StartType, ConstantFacts DEF StartCreate, NoReq, ReqState, Shape, Stages, Operation, Role
<1>2. CASE StartOnClan(r)
  BY <1>2, StartType, ConstantFacts DEF StartOnClan, NoReq, ReqState, Shape, Stages, Operation, Role
<1>3. CASE StartPatch(r)
  <2>1. PICK u \in User, c \in Clan, m \in Member, role \in Role :
          Start(r, [NoReq EXCEPT !.pc = "role", !.op = "patch", !.user = u, !.clan = c,
                                 !.row = m, !.role = role])
    BY <1>3, ConstantFacts DEF StartPatch
  <2> DEFINE q == [NoReq EXCEPT !.pc = "role", !.op = "patch", !.user = u, !.clan = c,
                                !.row = m, !.role = role]
  <2>2. q \in ReqState
    BY DEF NoReq, ReqState, Operation, Role
  <2>3. Shape(q)
    BY DEF NoReq, Shape, Stages
  <2> QED BY <2>1, <2>2, <2>3, StartType
<1>4. CASE StartRemove(r)
  BY <1>4, StartType, ConstantFacts DEF StartRemove, NoReq, ReqState, Shape, Stages, Operation, Role
<1>5. CASE StartAccept(r)
  BY <1>5, StartType, ConstantFacts DEF StartAccept, NoReq, ReqState, Shape, Stages, Operation, Role
<1> QED BY <1>1, <1>2, <1>3, <1>4, <1>5 DEF Arrive

\* Answering is a move to the idle request; going on changes only pc.
LEMMA ReturnMove ==
  ASSUME NEW r \in Request, Return(r)
  PROVE  req' = [req EXCEPT ![r] = NoReq] /\ NoReq \in ReqState /\ Shape(NoReq)
BY NoReqType DEF Return, Shape, NoReq

LEMMA GotoMove ==
  ASSUME TypeOK, NEW r \in Request, NEW pc, Goto(r, pc)
  PROVE  req' = [req EXCEPT ![r] = [req[r] EXCEPT !.pc = pc]]
BY DEF Goto, TypeOK

\* The steps of the handlers that only read.
LEMMA ReadsType ==
  ASSUME TypeOK, NEW r \in Request,
         \/ RequireAdmin(r) \/ CheckSeat(r) \/ CheckTier(r) \/ CheckCount(r)
         \/ ReadTarget(r) \/ ReadCurrent(r) \/ ReadAdmins(r) \/ LookupOwner(r)
         \/ ReadInvitation(r) \/ ReadExisting(r) \/ Finish(r)
  PROVE  TypeOK'
<1> DEFINE q == req[r]
           Move(x) == req' = [req EXCEPT ![r] = x]
           go(pc) == [q EXCEPT !.pc = pc]
<1>0. q \in ReqState /\ Shape(q)
  BY DEF TypeOK
<1>1. UNCHANGED <<sub, items, sync, rows, job, history>>
  BY DEF RequireAdmin, CheckSeat, CheckTier, CheckCount, ReadTarget, ReadCurrent,
         ReadAdmins, LookupOwner, ReadInvitation, ReadExisting, Finish
<1>2. \E x \in ReqState : Shape(x) /\ Move(x)
  <2>0. CASE Return(r)
    BY <2>0, ReturnMove
  <2>1. CASE RequireAdmin(r) /\ ~Return(r)
    <3>1. /\ at(r, "role")
          /\ \E pc \in {"target", "insertInvite", "current"} :
               pc \in Stages(q.op) /\ Goto(r, pc)
      BY <2>1, <1>0 DEF RequireAdmin, at, Shape, Stages, ReqState
    <3> QED BY <3>1, <1>0, GotoMove DEF at, ReqState, Shape, Stages
  <2>2. CASE CheckSeat(r)
    <3>1. /\ at(r, "seat")
          /\ \E pc \in {Allowed(r), "tier"} : Goto(r, pc)
      BY <2>2 DEF CheckSeat
    <3> QED BY <3>1, <1>0, GotoMove DEF at, Allowed, ReqState, Shape, Stages
  <2>3. CASE CheckTier(r)
    <3>1. /\ at(r, "tier")
          /\ \E pc \in {Allowed(r), "count"} : Goto(r, pc)
      BY <2>3 DEF CheckTier
    <3> QED BY <3>1, <1>0, GotoMove DEF at, Allowed, ReqState, Shape, Stages
  <2>4. CASE CheckCount(r) /\ ~Return(r)
    <3>1. at(r, "count") /\ Goto(r, Allowed(r))
      BY <2>4 DEF CheckCount
    <3> QED BY <3>1, <1>0, GotoMove DEF at, Allowed, ReqState, Shape, Stages
  <2>5. CASE ReadTarget(r) /\ ~Return(r)
    <3>1. /\ at(r, "target") /\ createdBy[q.clan] \in User
          /\ Move([q EXCEPT !.pc = "deleteClan", !.owner = createdBy[q.clan]])
      BY <2>5 DEF ReadTarget, live
    <3> QED BY <3>1, <1>0 DEF at, ReqState, Shape, Stages
  <2>6. CASE ReadCurrent(r) /\ ~Return(r)
    <3>1. /\ at(r, "current") /\ members[q.row] \in MemberRow
          /\ \E pc \in {"admins", "updateRole", "lookup"} :
               /\ pc \in Stages(q.op)
               /\ Move([q EXCEPT !.pc = pc, !.clan = members[q.row].clan])
      BY <2>6, <1>0 DEF ReadCurrent, TypeOK, isRow, at, Shape, Stages, ReqState
    <3>2. PICK pc \in {"admins", "updateRole", "lookup"} :
            pc \in Stages(q.op) /\ Move([q EXCEPT !.pc = pc, !.clan = members[q.row].clan])
      BY <3>1
    <3> DEFINE x == [q EXCEPT !.pc = pc, !.clan = members[q.row].clan]
    <3>3. /\ x \in ReqState /\ x.pc = pc /\ x.op = q.op /\ x.user = q.user /\ x.row = q.row
          /\ x.inv = q.inv /\ x.owner = q.owner /\ x.clan \in Clan
      BY <3>1, <1>0 DEF ReqState, MemberRow
    <3>4. Shape(x)
      BY <3>1, <3>2, <3>3, <1>0 DEF at, Shape, Stages
    <3> QED BY <3>2, <3>3, <3>4
  <2>7. CASE ReadAdmins(r) /\ ~Return(r)
    <3>1. /\ at(r, "admins")
          /\ \E pc \in {"updateRole", "lookup"} :
               pc \in Stages(q.op) /\ Goto(r, pc)
      BY <2>7, <1>0 DEF ReadAdmins, at, Shape, Stages, ReqState
    <3> QED BY <3>1, <1>0, GotoMove DEF at, ReqState, Shape, Stages
  <2>8. CASE LookupOwner(r)
    <3>1. /\ at(r, "lookup")
          /\ \E o \in User \cup {None} : Move([q EXCEPT !.pc = "deleteRow", !.owner = o])
      BY <2>8 DEF LookupOwner, live
    <3> QED BY <3>1, <1>0 DEF at, ReqState, Shape, Stages
  <2>9. CASE ReadInvitation(r) /\ ~Return(r)
    <3>1. /\ at(r, "invitation") /\ invites[q.inv] \in Invitation
          /\ Move([q EXCEPT !.pc = "existing", !.clan = invites[q.inv].clan,
                            !.role = invites[q.inv].role])
      BY <2>9 DEF ReadInvitation
    <3> QED BY <3>1, <1>0 DEF at, ReqState, Shape, Stages, Invitation
  <2>10. CASE ReadExisting(r) /\ ~Return(r)
    <3>1. /\ at(r, "existing") /\ createdBy[q.clan] \in User
          /\ \E pc \in {"seat", "markAccepted"} :
               Move([q EXCEPT !.pc = pc, !.owner = createdBy[q.clan]])
      BY <2>10 DEF ReadExisting, live
    <3> QED BY <3>1, <1>0 DEF at, ReqState, Shape, Stages
  <2> QED
    BY <2>0, <2>1, <2>2, <2>3, <2>4, <2>5, <2>6, <2>7, <2>8, <2>9, <2>10 DEF Finish
<1> QED BY <1>1, <1>2, ReadType

\* The ids chosen for new rows are unused ones.
LEMMA FreshIds ==
  /\ (\E m \in Member : members[m] = None) => FreshMember \in Member /\ members[FreshMember] = None
  /\ (\E i \in Inv : invites[i] = None) => FreshInv \in Inv /\ invites[FreshInv] = None
BY DEF FreshMember, FreshInv

\* A step of request r that also calls the sync, or leaves it alone.
LEMMA WriteType ==
  ASSUME TypeOK, NEW r \in Request, NEW q \in ReqState, Shape(q),
         req' = [req EXCEPT ![r] = q],
         (\E o \in User : SyncCall(r, o)) \/ UNCHANGED sync,
         UNCHANGED <<sub, items, job, history>>
  PROVE  /\ SeatTypeOK'
         /\ req' \in [Request -> ReqState] /\ \A s \in Request : Shape(req'[s])
         /\ job' \in [on: BOOLEAN, todo: SUBSET Owner]
         /\ started' \in Nat /\ planChanges' \in Nat
         /\ overlapped' \in BOOLEAN /\ drift' \in BOOLEAN
<1>1. r \in Proc
  BY ConstantFacts
<1>2. SeatTypeOK'
  BY <1>1, SyncCallType DEF TypeOK, SeatTypeOK
<1> QED BY <1>2, MoveType DEF TypeOK, history

\* The steps of the handlers that write a table.
LEMMA WritesType ==
  ASSUME TypeOK, NEW r \in Request,
         \/ InsertClan(r) \/ InsertAdmin(r) \/ InsertSettings(r) \/ DeleteClan(r)
         \/ UpdateRole(r) \/ DeleteRow(r) \/ InsertInvite(r) \/ InsertRow(r)
         \/ MarkAccepted(r)
  PROVE  TypeOK'
<1> DEFINE q == req[r]
           Move(x) == req' = [req EXCEPT ![r] = x]
<1>0. q \in ReqState /\ Shape(q)
  BY DEF TypeOK
<1>1. \E x \in ReqState : Shape(x) /\ Move(x)
  <2>0. CASE Return(r)
    BY <2>0, ReturnMove
  <2>1. CASE InsertClan(r)
    <3>1. at(r, "insertClan") /\ \E c \in Clan : Move([q EXCEPT !.pc = "insertAdmin", !.clan = c])
      BY <2>1 DEF InsertClan
    <3> QED BY <3>1, <1>0 DEF at, ReqState, Shape, Stages
  <2>2. CASE InsertAdmin(r)
    BY <2>2, <1>0, GotoMove DEF InsertAdmin, at, ReqState, Shape, Stages
  <2>3. CASE InsertSettings(r) /\ ~Return(r)
    BY <2>3, <1>0, GotoMove DEF InsertSettings, at, ReqState, Shape, Stages
  <2>4. CASE DeleteClan(r)
    BY <2>4, <1>0, GotoMove DEF DeleteClan, at, ReqState, Shape, Stages
  <2>5. CASE DeleteRow(r) /\ ~Return(r)
    BY <2>5, <1>0, GotoMove DEF DeleteRow, at, ReqState, Shape, Stages
  <2>6. CASE InsertRow(r) /\ ~Return(r)
    BY <2>6, <1>0, GotoMove DEF InsertRow, at, ReqState, Shape, Stages
  <2>7. CASE MarkAccepted(r)
    BY <2>7, <1>0, GotoMove DEF MarkAccepted, at, ReqState, Shape, Stages
  <2> QED
    BY <2>0, <2>1, <2>2, <2>3, <2>4, <2>5, <2>6, <2>7 DEF UpdateRole, InsertInvite
<1>2. (\E o \in User : SyncCall(r, o)) \/ UNCHANGED sync
  <2>1. CASE InsertSettings(r)
    BY <2>1, <1>0 DEF InsertSettings, at, Shape, Stages, ReqState
  <2>2. CASE DeleteClan(r)
    BY <2>2, <1>0 DEF DeleteClan, at, Shape, Stages, ReqState
  <2>3. CASE DeleteRow(r)
    BY <2>3, <1>0 DEF DeleteRow, ReqState
  <2>4. CASE MarkAccepted(r)
    BY <2>4, <1>0 DEF MarkAccepted, at, Shape, Stages, ReqState
  <2> QED
    BY <2>1, <2>2, <2>3, <2>4 DEF InsertClan, InsertAdmin, UpdateRole, InsertInvite, InsertRow
<1>3. UNCHANGED <<sub, items, job, history>>
  BY DEF InsertClan, InsertAdmin, InsertSettings, DeleteClan, UpdateRole, DeleteRow,
         InsertInvite, InsertRow, MarkAccepted
<1>4. createdBy' \in [Clan -> User \cup {None, Gone}]
  BY <1>0 DEF InsertClan, InsertAdmin, InsertSettings, DeleteClan, UpdateRole, DeleteRow,
         InsertInvite, InsertRow, MarkAccepted, TypeOK, at, Shape, Stages, ReqState
<1>5. settings' \subseteq Clan
  BY <1>0 DEF InsertClan, InsertAdmin, InsertSettings, DeleteClan, UpdateRole, DeleteRow,
         InsertInvite, InsertRow, MarkAccepted, TypeOK, at, Shape, Stages, ReqState
<1>6. members' \in [Member -> MemberRow \cup {None, Gone}]
  <2>1. CASE InsertAdmin(r)
    <3>1. [clan |-> q.clan, user |-> q.user, role |-> "admin"] \in MemberRow
      BY <2>1, <1>0 DEF InsertAdmin, at, Shape, Stages, ReqState, MemberRow, Role
    <3> QED BY <3>1, <2>1, FreshIds DEF InsertAdmin, TypeOK
  <2>2. CASE InsertRow(r)
    <3>1. at(r, "insertRow") => [clan |-> q.clan, user |-> q.user, role |-> q.role] \in MemberRow
      BY <1>0 DEF at, Shape, Stages, ReqState, MemberRow
    <3> QED BY <3>1, <2>2, FreshIds DEF InsertRow, TypeOK
  <2>3. CASE UpdateRole(r)
    BY <2>3, <1>0 DEF UpdateRole, isRow, TypeOK, MemberRow, ReqState
  <2>4. CASE DeleteClan(r)
    BY <2>4 DEF DeleteClan, TypeOK
  <2>5. CASE DeleteRow(r)
    BY <2>5 DEF DeleteRow, TypeOK
  <2> QED
    BY <2>1, <2>2, <2>3, <2>4, <2>5
    DEF InsertClan, InsertSettings, InsertInvite, MarkAccepted, TypeOK
<1>7. invites' \in [Inv -> Invitation \cup {None, Gone}]
  <2>1. CASE InsertInvite(r)
    <3>1. q.clan \in Clan
      BY <2>1, <1>0 DEF InsertInvite, at, Shape, Stages, ReqState
    <3>2. \A u \in User, role \in InviteRole :
            [clan |-> q.clan, user |-> u, role |-> role, accepted |-> FALSE, expired |-> FALSE]
              \in Invitation
      BY <3>1, ConstantFacts DEF Invitation
    <3> QED BY <3>2, <2>1, FreshIds DEF InsertInvite, TypeOK
  <2>2. CASE MarkAccepted(r)
    BY <2>2 DEF MarkAccepted, TypeOK, Invitation
  <2>3. CASE DeleteClan(r)
    BY <2>3 DEF DeleteClan, TypeOK
  <2> QED
    BY <2>1, <2>2, <2>3
    DEF InsertClan, InsertAdmin, InsertSettings, UpdateRole, DeleteRow, InsertRow, TypeOK
<1> QED BY <1>1, <1>2, <1>3, <1>4, <1>5, <1>6, <1>7, WriteType DEF TypeOK

\* The number of people counted is a number: there are finitely many users.
LEMMA CountType ==
  ASSUME NEW o
  PROVE  IsFiniteSet(SeatSet(o)) /\ countOwnedSeats(o) \in Nat
<1>1. SeatSet(o) \subseteq User
  BY DEF SeatSet
<1>2. IsFiniteSet(SeatSet(o))
  BY <1>1, ConstantFacts, FS_Subset
<1> QED BY <1>2, FS_CardinalityType DEF countOwnedSeats

LEMMA HandlerType ==
  ASSUME TypeOK, NEW r \in Request, Handler(r)
  PROVE  TypeOK'
BY ReadsType, WritesType DEF Handler

LEMMA FailType ==
  ASSUME TypeOK, NEW r \in Request, Fail(r)
  PROVE  TypeOK'
<1>1. req' \in [Request -> ReqState] /\ \A s \in Request : Shape(req'[s])
  BY ReturnMove, MoveType DEF Fail
<1> QED BY <1>1 DEF Fail, TypeOK, SeatTypeOK, rows

LEMMA SyncType ==
  ASSUME TypeOK, NEW p \in Proc, SyncStep(p) \/ SyncFails(p)
  PROVE  TypeOK'
<1>1. SeatTypeOK'
  BY SyncStepType, CountType DEF SyncStep, SyncFails, TypeOK
<1> QED BY <1>1 DEF SyncStep, SyncFails, TypeOK, rows, history

LEMMA JobType ==
  ASSUME TypeOK, JobStart \/ JobVisit \/ JobEnd
  PROVE  TypeOK'
<1>1. CASE JobStart
  BY <1>1 DEF JobStart, TypeOK, SeatTypeOK, rows
<1>2. CASE JobVisit
  <2>1. Job \in Proc /\ Owner \subseteq User
    BY ConstantFacts
  <2>2. SeatTypeOK'
    BY <1>2, <2>1, SyncCallType DEF JobVisit, TypeOK
  <2>3. job' \in [on: BOOLEAN, todo: SUBSET Owner]
    BY <1>2 DEF JobVisit, TypeOK
  <2> QED BY <1>2, <2>2, <2>3 DEF JobVisit, TypeOK, rows, history
<1>3. CASE JobEnd
  BY <1>3 DEF JobEnd, TypeOK, SeatTypeOK, rows, history, NoJob
<1> QED BY <1>1, <1>2, <1>3

LEMMA OutsideType ==
  ASSUME TypeOK,
         \/ \E i \in Inv : Expire(i)
         \/ \E o \in Owner \ FreeOwner : PlanChange(o) \/ WebhookArrives(o)
  PROVE  TypeOK'
<1>1. ASSUME NEW i \in Inv, Expire(i) PROVE TypeOK'
  <2>1. [invites[i] EXCEPT !.expired = TRUE] \in Invitation
    BY <1>1 DEF Expire, Invitation
  <2> QED BY <1>1, <2>1 DEF Expire, TypeOK, SeatTypeOK, history
<1>2. ASSUME NEW o \in Owner \ FreeOwner, PlanChange(o) PROVE TypeOK'
  <2>1. Cardinality(User) \in Nat
    BY ConstantFacts, FS_CardinalityType
  <2>2. items' \in [User -> [Item -> StripeItem]] /\ UNCHANGED <<sub, sync>>
    <3>1. CASE StripeCancels(o)
      BY <3>1 DEF StripeCancels, TypeOK, SeatTypeOK, StripeItem
    <3>2. ASSUME NEW price \in PerSeatPrice, NEW q \in 1..Cardinality(User),
                 StripeSetsPlan(o, price, q)
          PROVE  items' \in [User -> [Item -> StripeItem]] /\ UNCHANGED <<sub, sync>>
      <4>1. [price |-> price, qty |-> q] \in StripeItem
        BY <2>1 DEF StripeItem, Price
      <4>2. o \in User /\ "base" \in Item
        BY ConstantFacts DEF Item
      <4> QED BY <3>2, <4>1, <4>2 DEF StripeSetsPlan, TypeOK, SeatTypeOK
    <3> QED BY <1>2, <3>1, <3>2 DEF PlanChange
  <2> QED BY <1>2, <2>2 DEF PlanChange, TypeOK, SeatTypeOK, rows
<1>3. ASSUME NEW o \in Owner \ FreeOwner, WebhookArrives(o) PROVE TypeOK'
  <2>1. sub' \in [User -> SubRow] /\ UNCHANGED <<items, sync>>
    BY <1>3 DEF WebhookArrives, RowFollows, FreeRow, TypeOK, SeatTypeOK, SubRow, Tier, Price
  <2> QED BY <1>3, <2>1 DEF WebhookArrives, TypeOK, SeatTypeOK, rows
<1> QED BY <1>1, <1>2, <1>3

LEMMA NextType == TypeOK /\ [Next]_vars => TypeOK'
<1>1. ASSUME TypeOK, Next PROVE TypeOK'
  BY <1>1, ArriveType, HandlerType, FailType, SyncType, JobType, OutsideType DEF Next
<1>2. ASSUME TypeOK, UNCHANGED vars PROVE TypeOK'
  BY <1>2 DEF vars, rows, history, TypeOK, SeatTypeOK
<1> QED BY <1>1, <1>2

\* Every reachable state is well typed: a request at an await holds what the
\* await needs (a clan, a row, an owner to bill), and a sync its owner and item.
THEOREM TypeCorrect == Spec => []TypeOK
BY InitType, NextType, PTL DEF Spec

-----------------------------------------------------------------------------
(***************************************************************************)
(* The safety theorems of Clans: the guards of the handlers work as long   *)
(* as requests do not overlap, and the free plan's seat cap is exceeded by *)
(* at most one seat per further overlapping request.                       *)
(***************************************************************************)

-----------------------------------------------------------------------------
(* What steps touch.                                                        *)

\* Only these steps write the clans or the clan_members table.
LEMMA TableSteps ==
  ASSUME [Next]_vars
  PROVE  \/ UNCHANGED <<createdBy, members>>
         \/ \E r \in Request : \/ InsertClan(r) \/ InsertAdmin(r) \/ DeleteClan(r)
                               \/ UpdateRole(r) \/ DeleteRow(r) \/ InsertRow(r)
<1>1. ASSUME NEW r \in Request, Arrive(r) PROVE UNCHANGED <<createdBy, members>>
  BY <1>1 DEF Arrive, StartCreate, StartOnClan, StartPatch, StartRemove, StartAccept, Start, rows
<1>2. ASSUME NEW r \in Request, Handler(r)
      PROVE  \/ UNCHANGED <<createdBy, members>>
             \/ InsertClan(r) \/ InsertAdmin(r) \/ DeleteClan(r)
             \/ UpdateRole(r) \/ DeleteRow(r) \/ InsertRow(r)
  BY <1>2 DEF Handler, RequireAdmin, CheckSeat, CheckTier, CheckCount, InsertSettings,
       ReadTarget, ReadCurrent, ReadAdmins, LookupOwner, InsertInvite, ReadInvitation,
       ReadExisting, MarkAccepted, Finish, rows
<1>3. ASSUME NEW r \in Request, Fail(r) PROVE UNCHANGED <<createdBy, members>>
  BY <1>3 DEF Fail, rows
<1>4. ASSUME NEW p \in Proc, SyncStep(p) \/ SyncFails(p) PROVE UNCHANGED <<createdBy, members>>
  BY <1>4 DEF SyncStep, SyncFails, rows
<1>5. ASSUME JobStart \/ JobVisit \/ JobEnd PROVE UNCHANGED <<createdBy, members>>
  BY <1>5 DEF JobStart, JobVisit, JobEnd, rows
<1>6. ASSUME NEW i \in Inv, Expire(i) PROVE UNCHANGED <<createdBy, members>>
  BY <1>6 DEF Expire
<1>7. ASSUME NEW o, PlanChange(o) \/ WebhookArrives(o) PROVE UNCHANGED <<createdBy, members>>
  BY <1>7 DEF PlanChange, WebhookArrives, rows
<1>8. CASE UNCHANGED vars
  BY <1>8 DEF vars, rows
<1> QED BY <1>1, <1>2, <1>3, <1>4, <1>5, <1>6, <1>7, <1>8 DEF Next

\* Requests move by arriving, by a step of their handler, or by failing.
LEMMA RequestSteps ==
  ASSUME [Next]_vars
  PROVE  \/ UNCHANGED <<req, overlapped>>
         \/ \E r \in Request : Arrive(r)
         \/ \E r \in Request : Handler(r) /\ UNCHANGED overlapped
         \/ \E r \in Request : Fail(r)
<1>1. ASSUME NEW r \in Request, Handler(r) PROVE UNCHANGED overlapped
  BY <1>1 DEF Handler, RequireAdmin, CheckSeat, CheckTier, CheckCount, InsertClan,
       InsertAdmin, InsertSettings, ReadTarget, DeleteClan, ReadCurrent, ReadAdmins,
       UpdateRole, LookupOwner, DeleteRow, InsertInvite, ReadInvitation, ReadExisting,
       InsertRow, MarkAccepted, Finish, history
<1>2. ASSUME NEW p \in Proc, SyncStep(p) \/ SyncFails(p) PROVE UNCHANGED <<req, overlapped>>
  BY <1>2 DEF SyncStep, SyncFails, history
<1>3. ASSUME JobStart \/ JobVisit \/ JobEnd PROVE UNCHANGED <<req, overlapped>>
  BY <1>3 DEF JobStart, JobVisit, JobEnd, history
<1>4. ASSUME NEW i \in Inv, Expire(i) PROVE UNCHANGED <<req, overlapped>>
  BY <1>4 DEF Expire, history
<1>5. ASSUME NEW o, PlanChange(o) \/ WebhookArrives(o) PROVE UNCHANGED <<req, overlapped>>
  BY <1>5 DEF PlanChange, WebhookArrives
<1>6. CASE UNCHANGED vars
  BY <1>6 DEF vars, history
<1> QED BY <1>1, <1>2, <1>3, <1>4, <1>5, <1>6 DEF Next

\* A request moves no other request.
LEMMA OthersStay ==
  ASSUME TypeOK, NEW r \in Request, NEW s \in Request, s # r,
         Arrive(r) \/ Handler(r) \/ Fail(r)
  PROVE  req'[s] = req[s]
<1>1. CASE Arrive(r)
  BY <1>1 DEF Arrive, StartCreate, StartOnClan, StartPatch, StartRemove, StartAccept, Start, TypeOK
<1>2. CASE Fail(r)
  BY <1>2 DEF Fail, Return, TypeOK
<1>3. CASE Handler(r)
  BY <1>3 DEF Handler, RequireAdmin, CheckSeat, CheckTier, CheckCount, InsertClan,
       InsertAdmin, InsertSettings, ReadTarget, DeleteClan, ReadCurrent, ReadAdmins,
       UpdateRole, LookupOwner, DeleteRow, InsertInvite, ReadInvitation, ReadExisting,
       InsertRow, MarkAccepted, Finish, Goto, Return, TypeOK
<1> QED BY <1>1, <1>2, <1>3

\* A handler step is one of an active request.
LEMMA HandlerActive ==
  ASSUME NEW r \in Request, Handler(r) \/ Fail(r)
  PROVE  active(r)
BY DEF Handler, RequireAdmin, CheckSeat, CheckTier, CheckCount, InsertClan,
       InsertAdmin, InsertSettings, ReadTarget, DeleteClan, ReadCurrent, ReadAdmins,
       UpdateRole, LookupOwner, DeleteRow, InsertInvite, ReadInvitation, ReadExisting,
       InsertRow, MarkAccepted, Finish, Fail, at, active

-----------------------------------------------------------------------------
(* The foreign key from clan_members to clans.                              *)

ForeignKey == \A m \in Member : isRow(m) => live(members[m].clan)

LEMMA InitKey == Init => ForeignKey
BY SeedIsSound, ConstantFacts DEF Init, ForeignKey, isRow, live, MemberRow

LEMMA NextKey == TypeOK /\ ForeignKey /\ [Next]_vars => ForeignKey'
<1> SUFFICES ASSUME TypeOK, ForeignKey, [Next]_vars PROVE ForeignKey'
  OBVIOUS
<1> USE DEF isRow, live
<1>1. ASSUME UNCHANGED <<createdBy, members>> PROVE ForeignKey'
  BY <1>1 DEF ForeignKey
<1>2. ASSUME NEW r \in Request, InsertClan(r) PROVE ForeignKey'
  BY <1>2, ConstantFacts DEF InsertClan, ForeignKey, TypeOK, MemberRow, ReqState, at, Shape, Stages
<1>3. ASSUME NEW r \in Request, InsertAdmin(r) PROVE ForeignKey'
  BY <1>3 DEF InsertAdmin, ForeignKey, TypeOK
<1>4. ASSUME NEW r \in Request, DeleteClan(r) PROVE ForeignKey'
  BY <1>4, ConstantFacts DEF DeleteClan, ForeignKey, TypeOK, MemberRow
<1>5. ASSUME NEW r \in Request, UpdateRole(r) PROVE ForeignKey'
  BY <1>5, ConstantFacts DEF UpdateRole, ForeignKey, TypeOK, MemberRow
<1>6. ASSUME NEW r \in Request, DeleteRow(r) PROVE ForeignKey'
  BY <1>6 DEF DeleteRow, ForeignKey, TypeOK
<1>7. ASSUME NEW r \in Request, InsertRow(r) PROVE ForeignKey'
  BY <1>7 DEF InsertRow, ForeignKey, TypeOK
<1> QED BY <1>1, <1>2, <1>3, <1>4, <1>5, <1>6, <1>7, TableSteps

-----------------------------------------------------------------------------
(* Requests that do not overlap.                                            *)

LEMMA InitFresh == Init => SerialReadsFresh
BY DEF Init, SerialReadsFresh, active, Fresh, NoReq

\* At these awaits nothing has been read that could have changed.
LEMMA NothingRead ==
  ASSUME NEW q,
         \/ q.pc \in {"idle", "role", "target", "deleteClan", "insertInvite", "invitation",
                      "existing", "current", "insertSettings", "markAccepted", "sync"}
         \/ (q.op = "create" /\ q.pc = "seat")
  PROVE  Fresh(q)'
BY DEF Fresh

\* A call that arrives has read nothing.
LEMMA ArriveFresh ==
  ASSUME TypeOK, NEW r \in Request, Arrive(r)
  PROVE  Fresh(req[r])' /\ (~overlapped' => ~overlapped /\ \A s \in Request : ~active(s))
<1>1. ASSUME NEW q, Start(r, q),
             q.pc \in {"role", "invitation"} \/ (q.op = "create" /\ q.pc = "seat")
      PROVE  Fresh(req[r])' /\ (~overlapped' => ~overlapped /\ \A s \in Request : ~active(s))
  <2>1. req'[r] = q
    BY <1>1 DEF Start, TypeOK
  <2>2. Fresh(req[r])'
    BY <1>1, <2>1, NothingRead
  <2> QED BY <1>1, <2>2 DEF Start
<1>2. CASE StartCreate(r)
  BY <1>1, <1>2 DEF StartCreate, NoReq
<1>3. CASE StartOnClan(r)
  BY <1>1, <1>3 DEF StartOnClan, NoReq
<1>4. CASE StartPatch(r)
  BY <1>1, <1>4 DEF StartPatch, NoReq
<1>5. CASE StartRemove(r)
  BY <1>1, <1>5 DEF StartRemove, NoReq
<1>6. CASE StartAccept(r)
  BY <1>1, <1>6 DEF StartAccept, NoReq
<1> QED BY <1>2, <1>3, <1>4, <1>5, <1>6 DEF Arrive

\* Alone, a handler finds at its next await what it read before.
LEMMA HandlerFresh ==
  ASSUME TypeOK, ForeignKey, NEW r \in Request, Fresh(req[r]), Handler(r)
  PROVE  Fresh(req[r])'
<1> DEFINE q == req[r]
<1>0. q \in ReqState /\ Shape(q)
  BY DEF TypeOK
<1>1. CASE Return(r)
  BY <1>1 DEF Return, NoReq, Fresh, TypeOK
<1>2. CASE ReadCurrent(r) /\ ~Return(r)
  <2>1. /\ q.row \in Member /\ isRow(q.row) /\ members[q.row] \in MemberRow
        /\ q.op \in {"patch", "remove"}
    BY <1>2, <1>0 DEF ReadCurrent, at, Shape, Stages, ReqState, TypeOK, isRow
  <2>2. PICK pc \in {"admins", "updateRole", "lookup"} :
          /\ pc # "admins" => members[q.row].role # "admin" \/ (q.op = "patch" /\ q.role = "admin")
          /\ req' = [req EXCEPT ![r] = [q EXCEPT !.pc = pc, !.clan = members[q.row].clan]]
    BY <1>2, <2>1 DEF ReadCurrent
  <2>3. /\ req'[r].pc = pc /\ req'[r].clan = members[q.row].clan /\ req'[r].row = q.row
        /\ req'[r].op = q.op /\ req'[r].role = q.role
    BY <2>2, <1>0 DEF TypeOK, ReqState
  <2>4. members' = members
    BY <1>2 DEF ReadCurrent, rows
  <2> QED BY <2>1, <2>2, <2>3, <2>4 DEF Fresh, AdminsOf, isRow
<1>3. CASE ReadAdmins(r) /\ ~Return(r)
  <2>1. q.op \in {"patch", "remove"} /\ q.row \in Member /\ q.pc = "admins"
    BY <1>3, <1>0 DEF ReadAdmins, at, Shape, Stages, ReqState
  <2>2. PICK pc \in {"updateRole", "lookup"} : req' = [req EXCEPT ![r] = [q EXCEPT !.pc = pc]]
    BY <1>3, GotoMove DEF ReadAdmins
  <2>3. AdminsOf(q.clan) # {q.row}
    BY <1>3, <2>1 DEF ReadAdmins
  <2>4. /\ req'[r].pc = pc /\ req'[r].clan = q.clan /\ req'[r].row = q.row
        /\ req'[r].op = q.op /\ req'[r].role = q.role
    BY <2>2, <1>0 DEF TypeOK, ReqState
  <2>5. members' = members
    BY <1>3 DEF ReadAdmins, rows
  <2>6. isRow(q.row) /\ members[q.row].clan = q.clan
    BY <2>1 DEF Fresh
  <2>7. q.row \notin AdminsOf(q.clan) \/ \E n \in AdminsOf(q.clan) : n # q.row
    BY <2>3
  <2> QED BY <2>1, <2>2, <2>4, <2>5, <2>6, <2>7 DEF Fresh, AdminsOf, isRow
<1>4. CASE LookupOwner(r)
  BY <1>4, <1>0 DEF LookupOwner, Fresh, TypeOK, AdminsOf, isRow, rows, at
<1>5. CASE ReadExisting(r) /\ ~Return(r)
  <2>1. q.op = "accept"
    BY <1>5, <1>0 DEF ReadExisting, at, Shape, Stages, ReqState
  <2>2. PICK pc \in {"seat", "markAccepted"} :
          /\ pc = "seat" => RowsOf(q.clan, q.user) = {}
          /\ req' = [req EXCEPT ![r] = [q EXCEPT !.pc = pc, !.owner = createdBy[q.clan]]]
    BY <1>5 DEF ReadExisting
  <2>3. req'[r].pc = pc /\ req'[r].clan = q.clan /\ req'[r].user = q.user
    BY <2>2, <1>0 DEF TypeOK, ReqState
  <2>4. members' = members
    BY <1>5 DEF ReadExisting, rows
  <2> QED BY <2>2, <2>3, <2>4 DEF Fresh, RowsOf, isRow
<1>6. CASE CheckSeat(r)
  BY <1>6, <1>0 DEF CheckSeat, Allowed, Goto, Fresh, TypeOK, RowsOf, isRow, rows, at, Shape, Stages, ReqState
<1>7. CASE CheckTier(r)
  BY <1>7, <1>0 DEF CheckTier, Allowed, Goto, Fresh, TypeOK, RowsOf, isRow, rows, at, Shape, Stages, ReqState
<1>8. CASE CheckCount(r) /\ ~Return(r)
  BY <1>8, <1>0 DEF CheckCount, Allowed, Goto, Fresh, TypeOK, RowsOf, isRow, rows, at, Shape, Stages, ReqState
<1>9. CASE InsertClan(r)
  BY <1>9, <1>0, ConstantFacts DEF InsertClan, ForeignKey, live, Fresh, TypeOK, RowsOf, isRow, at, Shape, Stages, ReqState
<1>10. CASE RequireAdmin(r) /\ ~Return(r)
  <2>1. \E pc \in {"target", "insertInvite", "current"} : req' = [req EXCEPT ![r] = [q EXCEPT !.pc = pc]]
    BY <1>10, GotoMove DEF RequireAdmin
  <2>2. req'[r].pc \in {"target", "insertInvite", "current"}
    BY <2>1, <1>0 DEF TypeOK, ReqState
  <2> QED BY <2>2, NothingRead
<1>11. CASE ReadInvitation(r) /\ ~Return(r)
  <2>1. req' = [req EXCEPT ![r] = [q EXCEPT !.pc = "existing", !.clan = invites[q.inv].clan,
                                            !.role = invites[q.inv].role]]
    BY <1>11 DEF ReadInvitation
  <2>2. req'[r].pc = "existing"
    BY <2>1, <1>0 DEF TypeOK, ReqState
  <2> QED BY <2>2, NothingRead
<1>12. CASE ReadTarget(r) /\ ~Return(r)
  <2>1. req' = [req EXCEPT ![r] = [q EXCEPT !.pc = "deleteClan", !.owner = createdBy[q.clan]]]
    BY <1>12 DEF ReadTarget
  <2>2. req'[r].pc = "deleteClan"
    BY <2>1, <1>0 DEF TypeOK, ReqState
  <2> QED BY <2>2, NothingRead
<1>13. ASSUME \E pc \in {"insertSettings", "markAccepted", "sync"} : Goto(r, pc)
       PROVE  Fresh(req[r])'
  BY <1>13 DEF Goto, Fresh, TypeOK
<1> QED
  BY <1>1, <1>2, <1>3, <1>4, <1>5, <1>6, <1>7, <1>8, <1>9, <1>10, <1>11, <1>12, <1>13
  DEF Handler, InsertAdmin, InsertSettings, DeleteClan, UpdateRole, DeleteRow, InsertInvite,
      InsertRow, MarkAccepted, Finish

LEMMA NextFresh == TypeOK /\ ForeignKey /\ SerialReadsFresh /\ [Next]_vars => SerialReadsFresh'
<1> SUFFICES ASSUME TypeOK, ForeignKey, SerialReadsFresh, [Next]_vars, ~overlapped'
             PROVE  /\ \A r, s \in Request : active(r)' /\ active(s)' => r = s
                    /\ \A r \in Request : Fresh(req[r])'
  BY DEF SerialReadsFresh
<1>1. CASE UNCHANGED <<req, overlapped>>
  <2>1. CASE UNCHANGED <<createdBy, members>>
    BY <1>1, <2>1 DEF SerialReadsFresh, active, Fresh, AdminsOf, RowsOf, isRow
  <2>2. ASSUME NEW r \in Request,
               \/ InsertClan(r) \/ InsertAdmin(r) \/ DeleteClan(r)
               \/ UpdateRole(r) \/ DeleteRow(r) \/ InsertRow(r)
        PROVE  FALSE
    <3>1. req[r] \in ReqState
      BY DEF TypeOK
    <3>2. req'[r].pc # req[r].pc
      <4>1. CASE InsertClan(r)
        BY <4>1, <3>1 DEF InsertClan, at, TypeOK, ReqState
      <4>2. ASSUME Return(r), active(r) PROVE req'[r].pc # req[r].pc
        BY <4>2 DEF Return, NoReq, active, TypeOK
      <4>3. ASSUME NEW pc, Goto(r, pc), ~at(r, pc) PROVE req'[r].pc # req[r].pc
        BY <4>3, <3>1, GotoMove DEF at, TypeOK, ReqState
      <4>4. CASE InsertAdmin(r) \/ DeleteClan(r)
        BY <4>3, <4>4 DEF InsertAdmin, DeleteClan, at
      <4>5. CASE UpdateRole(r) \/ DeleteRow(r) \/ InsertRow(r)
        BY <4>2, <4>3, <4>5 DEF UpdateRole, DeleteRow, InsertRow, at, active
      <4> QED BY <2>2, <4>1, <4>4, <4>5
    <3> QED BY <1>1, <3>2
  <2> QED BY <2>1, <2>2, TableSteps
<1>2. ASSUME NEW r \in Request,
             /\ \A s \in Request : s # r => ~active(s)
             /\ Arrive(r) \/ Handler(r) \/ Fail(r)
             /\ Fresh(req[r])'
      PROVE  /\ \A t, s \in Request : active(t)' /\ active(s)' => t = s
             /\ \A s \in Request : Fresh(req[s])'
  <2>1. \A s \in Request : s # r => req'[s] = req[s] /\ req'[s].pc = "idle"
    BY <1>2, OthersStay DEF active
  <2>2. \A s \in Request : s # r => Fresh(req[s])'
    BY <2>1, NothingRead
  <2> QED BY <1>2, <2>1, <2>2 DEF active
<1>3. ASSUME NEW r \in Request, Arrive(r) PROVE \A s \in Request : ~active(s)
  BY <1>3, ArriveFresh
<1>4. ASSUME NEW r \in Request, Handler(r), UNCHANGED overlapped
      PROVE  Fresh(req[r])' /\ \A s \in Request : s # r => ~active(s)
  BY <1>4, HandlerFresh, HandlerActive DEF SerialReadsFresh
<1>5. ASSUME NEW r \in Request, Fail(r)
      PROVE  Fresh(req[r])' /\ \A s \in Request : s # r => ~active(s)
  <2>1. req'[r].pc = "idle" /\ UNCHANGED overlapped
    BY <1>5 DEF Fail, Return, NoReq, TypeOK
  <2> QED BY <1>5, <2>1, NothingRead, HandlerActive DEF SerialReadsFresh
<1> QED BY <1>1, <1>2, <1>3, <1>4, <1>5, ArriveFresh, RequestSteps

\* What the handlers of non-overlapping requests read is still true when they write.
THEOREM ReadsStayFresh == Spec => []SerialReadsFresh
<1>1. Init => TypeOK /\ ForeignKey /\ SerialReadsFresh
  BY InitType, InitKey, InitFresh
<1>2. /\ TypeOK /\ ForeignKey /\ SerialReadsFresh /\ [Next]_vars
      => (TypeOK /\ ForeignKey /\ SerialReadsFresh)'
  BY NextType, NextKey, NextFresh
<1> QED BY <1>1, <1>2, PTL DEF Spec

-----------------------------------------------------------------------------
(* The last admin.                                                          *)

LEMMA StepKeepsAdmin ==
  ASSUME TypeOK, SerialReadsFresh, [Next]_vars, ~overlapped, NEW c \in Clan,
         live(c), live(c)', AdminsOf(c) # {}
  PROVE  AdminsOf(c)' # {}
<1>0. PICK a \in AdminsOf(c) : TRUE
  OBVIOUS
<1>1. a \in Member /\ members[a] \in MemberRow /\ members[a].clan = c /\ members[a].role = "admin"
  BY DEF AdminsOf, isRow, TypeOK
<1>2. CASE UNCHANGED <<createdBy, members>>
  BY <1>0, <1>2 DEF AdminsOf, isRow
<1>3. ASSUME members'[a] = members[a] PROVE AdminsOf(c)' # {}
  <2>1. a \in AdminsOf(c)'
    BY <1>0, <1>3 DEF AdminsOf, isRow
  <2> QED BY <2>1
<1>4. ASSUME NEW r \in Request, InsertClan(r) PROVE AdminsOf(c)' # {}
  BY <1>3, <1>4 DEF InsertClan
<1>5. ASSUME NEW r \in Request, InsertAdmin(r) \/ InsertRow(r) PROVE AdminsOf(c)' # {}
  <2>1. members' = members \/ (FreshMember \in Member /\ members[FreshMember] = None
            /\ \E x : members' = [members EXCEPT ![FreshMember] = x])
    BY <1>5, FreshIds DEF InsertAdmin, InsertRow
  <2> QED BY <2>1, <1>1, <1>3, ConstantFacts DEF TypeOK
<1>6. ASSUME NEW r \in Request, DeleteClan(r) PROVE AdminsOf(c)' # {}
  <2>1. c # req[r].clan
    BY <1>6, ConstantFacts DEF DeleteClan, live, TypeOK
  <2> QED BY <2>1, <1>1, <1>3, <1>6 DEF DeleteClan
<1>7. ASSUME NEW r \in Request, UpdateRole(r) \/ DeleteRow(r) PROVE AdminsOf(c)' # {}
  <2> DEFINE m == req[r].row
  <2>1. Fresh(req[r]) /\ Shape(req[r]) /\ req[r].pc \in {"updateRole", "deleteRow"}
    BY <1>7 DEF SerialReadsFresh, UpdateRole, DeleteRow, at, TypeOK
  <2>2. m \in Member /\ isRow(m) /\ members[m].clan = req[r].clan
    BY <2>1 DEF Fresh, Shape, Stages, ReqState, TypeOK
  <2>3. CASE a # m
    BY <2>3, <1>1, <1>3, <1>7 DEF UpdateRole, DeleteRow
  <2>4. CASE a = m
    <3>1. req[r].clan = c
      BY <2>2, <2>4, <1>1
    <3>2. CASE \E n \in AdminsOf(c) : n # m
      <4>1. PICK n \in AdminsOf(c) : n # m
        BY <3>2
      <4>2. n \in Member /\ members'[n] = members[n]
        BY <4>1, <1>7 DEF UpdateRole, DeleteRow, AdminsOf
      <4>3. n \in AdminsOf(c)'
        BY <4>1, <4>2 DEF AdminsOf, isRow
      <4> QED BY <4>3
    <3>3. CASE req[r].op = "patch" /\ req[r].role = "admin"
      <4>1. UpdateRole(r)
        BY <3>3, <1>7, <2>1 DEF DeleteRow, at, Shape, Stages
      <4>2. members'[m] = [members[m] EXCEPT !.role = "admin"]
        <5>1. members' = [n \in Member |->
                IF n = m /\ isRow(n) THEN [members[n] EXCEPT !.role = req[r].role] ELSE members[n]]
          BY <4>1 DEF UpdateRole
        <5> QED BY <5>1, <2>2, <3>3
      <4>3. members'[m] \in MemberRow /\ members'[m].clan = c /\ members'[m].role = "admin"
        BY <4>2, <2>4, <1>1 DEF MemberRow, Role
      <4>4. m \in AdminsOf(c)'
        BY <4>3, <2>2, ConstantFacts DEF AdminsOf, isRow
      <4> QED BY <4>4
    <3> QED BY <3>1, <3>2, <3>3, <2>1, <2>4, <1>0 DEF Fresh
  <2> QED BY <2>3, <2>4
<1> QED BY <1>2, <1>4, <1>5, <1>6, <1>7, TableSteps

\* Requests that do not overlap never take a clan's last admin away: the
\* guards of the PATCH and DELETE member handlers do what their comment says.
THEOREM AdminKept == Spec => SerialKeepsAdmin
<1>1. TypeOK /\ SerialReadsFresh /\ [Next]_vars
      => [~overlapped => KeepsAdmin]_vars
  BY StepKeepsAdmin DEF KeepsAdmin
<1> QED BY <1>1, TypeCorrect, ReadsStayFresh, PTL DEF Spec, SerialKeepsAdmin

-----------------------------------------------------------------------------
(* One row per person.                                                      *)

LEMMA InitOneRow == Init => SerialOneRowPerPerson
BY SeedIsSound DEF Init, SerialOneRowPerPerson, isRow

LEMMA NextOneRow ==
  TypeOK /\ SerialReadsFresh /\ SerialOneRowPerPerson /\ [Next]_vars => SerialOneRowPerPerson'
<1> SUFFICES ASSUME TypeOK, SerialReadsFresh, SerialOneRowPerPerson, [Next]_vars, ~overlapped',
                    NEW m \in Member, NEW n \in Member, isRow(m)', isRow(n)',
                    members'[m].clan = members'[n].clan, members'[m].user = members'[n].user
             PROVE  m = n
  BY DEF SerialOneRowPerPerson
<1>0. ~overlapped
  <2>1. ASSUME NEW r \in Request, Fail(r) PROVE UNCHANGED overlapped
    BY <2>1 DEF Fail
  <2> QED BY <2>1, RequestSteps, ArriveFresh
\* A row there is was there before, for the same person.
<1>1. ASSUME \A k \in Member : isRow(k)' =>
               isRow(k) /\ members'[k].clan = members[k].clan /\ members'[k].user = members[k].user
      PROVE  m = n
  BY <1>0, <1>1 DEF SerialOneRowPerPerson
<1>2. CASE UNCHANGED <<createdBy, members>>
  BY <1>1, <1>2 DEF isRow
<1>3. ASSUME NEW r \in Request, InsertClan(r) \/ DeleteClan(r) \/ UpdateRole(r) \/ DeleteRow(r)
      PROVE  m = n
  <2>1. CASE InsertClan(r)
    BY <2>1, <1>1 DEF InsertClan, isRow
  <2>2. CASE DeleteClan(r)
    <3>1. \A k \in Member : members'[k] \in {members[k], Gone}
      BY <2>2 DEF DeleteClan
    <3> QED BY <3>1, <1>1 DEF isRow
  <2>3. CASE DeleteRow(r)
    <3>1. \A k \in Member : members'[k] \in {members[k], Gone}
      BY <2>3 DEF DeleteRow
    <3> QED BY <3>1, <1>1 DEF isRow
  <2>4. CASE UpdateRole(r)
    <3>1. ASSUME NEW k \in Member, isRow(k)'
          PROVE  isRow(k) /\ members'[k].clan = members[k].clan /\ members'[k].user = members[k].user
      <4>1. members'[k] = members[k]
            \/ (isRow(k) /\ members'[k] = [members[k] EXCEPT !.role = req[r].role])
        BY <2>4 DEF UpdateRole
      <4>2. isRow(k) => members[k] \in MemberRow
        BY DEF isRow, TypeOK
      <4> QED BY <3>1, <4>1, <4>2 DEF isRow, MemberRow
    <3> QED BY <3>1, <1>1
  <2> QED BY <1>3, <2>1, <2>2, <2>3, <2>4
\* A new row is for a person who has none.
<1>4. ASSUME NEW r \in Request, InsertAdmin(r) \/ InsertRow(r) PROVE m = n
  <2>1. CASE members' = members
    BY <2>1, <1>1 DEF isRow
  <2>2. CASE members' # members
    <3>1. /\ RowsOf(req[r].clan, req[r].user) = {}
          /\ FreshMember \in Member /\ ~isRow(FreshMember)
          /\ \A k \in Member : k # FreshMember => members'[k] = members[k]
          /\ members'[FreshMember].clan = req[r].clan /\ members'[FreshMember].user = req[r].user
      <4>1. Fresh(req[r]) /\ Shape(req[r])
        BY <1>0 DEF SerialReadsFresh, TypeOK
      <4>2. CASE InsertAdmin(r)
        BY <4>1, <4>2, FreshIds DEF InsertAdmin, Fresh, Shape, at, isRow, TypeOK
      <4>3. CASE InsertRow(r)
        BY <2>2, <4>1, <4>3, FreshIds DEF InsertRow, Fresh, Shape, Stages, at, isRow, TypeOK, ReqState
      <4> QED BY <1>4, <4>2, <4>3
    <3>2. \A k \in Member : k # FreshMember /\ isRow(k)' =>
            \/ members'[k].clan # req[r].clan
            \/ members'[k].user # req[r].user
      BY <3>1 DEF RowsOf, isRow
    <3>3. CASE m # FreshMember /\ n # FreshMember
      BY <3>1, <3>3, <1>0 DEF SerialOneRowPerPerson, isRow
    <3> QED BY <3>1, <3>2, <3>3
  <2> QED BY <2>1, <2>2
<1> QED BY <1>2, <1>3, <1>4, TableSteps

\* Accepting, accepting again and creating, one request after the other, never
\* list a person twice in a clan, although no unique index forbids it.
THEOREM OneRowPerPerson == Spec => []SerialOneRowPerPerson
<1>1. TypeOK /\ SerialReadsFresh /\ SerialOneRowPerPerson /\ [Next]_vars => SerialOneRowPerPerson'
  BY NextOneRow
<1> QED BY <1>1, InitOneRow, TypeCorrect, ReadsStayFresh, PTL DEF Spec

-----------------------------------------------------------------------------
(* The personal clan.                                                       *)

\* A delete that got as far as its write is of another clan.
SparesPersonal ==
  \A r \in Request : at(r, "deleteClan") => \A o \in Owner : req[r].clan # Personal[o]

LEMMA NextSpares == TypeOK /\ SparesPersonal /\ [Next]_vars => SparesPersonal'
<1> SUFFICES ASSUME TypeOK, SparesPersonal, [Next]_vars, NEW r \in Request,
                    req'[r].pc = "deleteClan", NEW o \in Owner
             PROVE  req'[r].clan # Personal[o]
  BY DEF SparesPersonal, at
<1>1. CASE req'[r] = req[r]
  BY <1>1 DEF SparesPersonal, at
<1>2. CASE Arrive(r) \/ Fail(r)
  <2>1. ASSUME Fail(r) PROVE FALSE
    BY <2>1 DEF Fail, Return, NoReq, TypeOK
  <2>2. ASSUME NEW q, Start(r, q), q.pc # "deleteClan" PROVE FALSE
    BY <2>2 DEF Start, TypeOK
  <2> QED
    BY <1>2, <2>1, <2>2
    DEF Arrive, StartCreate, StartOnClan, StartPatch, StartRemove, StartAccept, NoReq
<1>3. CASE Handler(r)
  <2> DEFINE q == req[r]
  <2>0. q \in ReqState
    BY DEF TypeOK
  <2>1. ASSUME Return(r) PROVE FALSE
    BY <2>1 DEF Return, NoReq, TypeOK
  <2>2. ASSUME NEW pc, Goto(r, pc), pc # "deleteClan" PROVE FALSE
    BY <2>0, <2>2, GotoMove DEF TypeOK, ReqState
  <2>3. CASE ReadTarget(r)
    <3>1. /\ \A w \in Owner : q.clan # Personal[w]
          /\ req' = [req EXCEPT ![r] = [q EXCEPT !.pc = "deleteClan", !.owner = createdBy[q.clan]]]
      BY <2>1, <2>3 DEF ReadTarget
    <3> QED BY <2>0, <3>1 DEF TypeOK, ReqState
  <2>4. ASSUME InsertClan(r) \/ ReadCurrent(r) \/ LookupOwner(r) \/ ReadInvitation(r) \/ ReadExisting(r)
        PROVE  FALSE
    <3>1. CASE InsertClan(r)
      BY <2>0, <3>1 DEF InsertClan, TypeOK, ReqState
    <3>2. CASE ReadCurrent(r)
      <4>1. PICK pc \in {"admins", "updateRole", "lookup"} :
              req' = [req EXCEPT ![r] = [q EXCEPT !.pc = pc, !.clan = members[q.row].clan]]
        BY <2>1, <3>2 DEF ReadCurrent
      <4> QED BY <2>0, <4>1 DEF TypeOK, ReqState
    <3>3. CASE LookupOwner(r)
      BY <2>0, <3>3 DEF LookupOwner, TypeOK, ReqState
    <3>4. CASE ReadInvitation(r)
      <4>1. req' = [req EXCEPT ![r] = [q EXCEPT !.pc = "existing", !.clan = invites[q.inv].clan,
                                                !.role = invites[q.inv].role]]
        BY <2>1, <3>4 DEF ReadInvitation
      <4> QED BY <2>0, <4>1 DEF TypeOK, ReqState
    <3>5. CASE ReadExisting(r)
      <4>1. PICK pc \in {"seat", "markAccepted"} :
              req' = [req EXCEPT ![r] = [q EXCEPT !.pc = pc, !.owner = createdBy[q.clan]]]
        BY <2>1, <3>5 DEF ReadExisting
      <4> QED BY <2>0, <4>1 DEF TypeOK, ReqState
    <3> QED BY <2>4, <3>1, <3>2, <3>3, <3>4, <3>5
  <2>5. CASE RequireAdmin(r) \/ CheckSeat(r) \/ CheckTier(r) \/ CheckCount(r) \/ ReadAdmins(r)
    BY <2>1, <2>2, <2>5 DEF RequireAdmin, CheckSeat, CheckTier, CheckCount, ReadAdmins, Allowed
  <2> QED
    BY <1>3, <2>1, <2>2, <2>3, <2>4, <2>5
    DEF Handler, InsertAdmin, InsertSettings, DeleteClan, UpdateRole, DeleteRow,
        InsertInvite, InsertRow, MarkAccepted, Finish
<1> QED BY <1>1, <1>2, <1>3, OthersStay, RequestSteps

PersonalClanStays == \A o \in Owner : createdBy[Personal[o]] = o

LEMMA NextPersonal ==
  TypeOK /\ SparesPersonal /\ PersonalClanStays /\ [Next]_vars => PersonalClanStays'
<1> SUFFICES ASSUME TypeOK, SparesPersonal, PersonalClanStays, [Next]_vars, NEW o \in Owner
             PROVE  createdBy'[Personal[o]] = o
  BY DEF PersonalClanStays
<1>1. Personal[o] \in Clan /\ createdBy[Personal[o]] = o /\ o # None
  BY ClansConstants, ConstantFacts DEF PersonalClanStays
<1>2. ASSUME NEW r \in Request, InsertClan(r) PROVE createdBy'[Personal[o]] = o
  BY <1>1, <1>2 DEF InsertClan, TypeOK
<1>3. ASSUME NEW r \in Request, DeleteClan(r) PROVE createdBy'[Personal[o]] = o
  BY <1>1, <1>3 DEF DeleteClan, SparesPersonal, TypeOK
<1> QED
  BY <1>1, <1>2, <1>3, TableSteps DEF InsertAdmin, UpdateRole, DeleteRow, InsertRow

PersonalHasAdmin == ~overlapped => \A o \in Owner : AdminsOf(Personal[o]) # {}

\* The clan made with a profile is there for good and, unless requests
\* overlapped, has an admin.
THEOREM PersonalAnchored == Spec => []PersonalClanAnchored
<1>1. Init => SparesPersonal /\ PersonalClanStays /\ PersonalHasAdmin
  <2>1. ASSUME Init PROVE SparesPersonal
    BY <2>1 DEF Init, SparesPersonal, at, NoReq
  <2>2. ASSUME Init PROVE PersonalClanStays
    BY <2>2, SeedIsSound DEF Init, PersonalClanStays
  <2>3. ASSUME Init, NEW o \in Owner PROVE AdminsOf(Personal[o]) # {}
    <3>1. Personal[o] \in Clan /\ SeedClans[Personal[o]] # None
      BY SeedIsSound, ClansConstants, ConstantFacts
    <3>2. PICK m \in Member : SeedMembers[m] # None /\ SeedMembers[m].clan = Personal[o]
                              /\ SeedMembers[m].role = "admin"
      BY <3>1, SeedIsSound
    <3>3. SeedMembers[m] \in MemberRow
      BY <3>2, SeedIsSound
    <3>4. m \in AdminsOf(Personal[o])
      BY <2>3, <3>2, <3>3, ConstantFacts DEF Init, AdminsOf, isRow
    <3> QED BY <3>4
  <2> QED BY <2>1, <2>2, <2>3 DEF PersonalHasAdmin
<1>2. TypeOK /\ SparesPersonal /\ PersonalClanStays /\ [Next]_vars
      => SparesPersonal' /\ PersonalClanStays'
  BY NextSpares, NextPersonal
<1>3. /\ TypeOK /\ TypeOK' /\ SerialReadsFresh
      /\ PersonalClanStays /\ PersonalClanStays' /\ PersonalHasAdmin /\ [Next]_vars
      => PersonalHasAdmin'
  <2> SUFFICES ASSUME TypeOK, SerialReadsFresh, PersonalClanStays, PersonalClanStays',
                      PersonalHasAdmin, [Next]_vars, ~overlapped', NEW o \in Owner
               PROVE  AdminsOf(Personal[o])' # {}
    BY DEF PersonalHasAdmin
  <2>1. ~overlapped
    <3>1. ASSUME NEW r \in Request, Fail(r) PROVE UNCHANGED overlapped
      BY <3>1 DEF Fail
    <3> QED BY <3>1, RequestSteps, ArriveFresh
  <2>2. Personal[o] \in Clan /\ live(Personal[o]) /\ live(Personal[o])'
    BY ClansConstants, ConstantFacts DEF PersonalClanStays, live
  <2> QED BY <2>1, <2>2, StepKeepsAdmin DEF PersonalHasAdmin
<1>4. PersonalClanStays /\ PersonalHasAdmin => PersonalClanAnchored
  BY DEF PersonalClanStays, PersonalHasAdmin, PersonalClanAnchored
<1> QED BY <1>1, <1>2, <1>3, <1>4, TypeCorrect, ReadsStayFresh, PTL DEF Spec

-----------------------------------------------------------------------------
(* The seat cap.  A request past assertCanAddSeat has not added its person  *)
(* yet: what the cap bounds is the people seated or about to be.            *)

Adders(o) == {r \in Request : /\ req[r].pc \in {"insertClan", "insertAdmin", "insertRow"}
                              /\ req[r].owner = o}

Pending(o) == {req[r].user : r \in Adders(o)}

Seated(o) == SeatSet(o) \cup Pending(o)

Limit == IF overlapped THEN Cap - 1 + Cardinality(Request) ELSE Cap

CapInv == \A o \in FreeOwner : Cardinality(Seated(o)) <= Limit

FreeStaysFree == \A o \in FreeOwner : sub[o].tier = "free"

\* The owner a request looked up still owns the clan it adds to.
OwnerHolds ==
  \A r \in Request :
    \/ at(r, "insertAdmin")
    \/ req[r].op = "accept" /\ req[r].pc \in {"seat", "tier", "count", "insertRow"}
    => createdBy[req[r].clan] \in {req[r].owner, Gone}

\* A value for each of some requests: no more values than requests.
LEMMA ImageCount ==
  ASSUME NEW S \in SUBSET Request, NEW f
  PROVE  LET T == {f[r] : r \in S}
         IN  IsFiniteSet(T) /\ Cardinality(T) \in Nat /\ Cardinality(T) <= Cardinality(Request)
<1> DEFINE T == {f[r] : r \in S}
           g == [r \in S |-> f[r]]
<1>1. g \in Surjection(S, T)
  BY DEF Surjection
<1>2. IsFiniteSet(S) /\ Cardinality(S) <= Cardinality(Request)
  BY ConstantFacts, FS_Subset
<1>3. IsFiniteSet(T) /\ Cardinality(T) <= Cardinality(S)
  BY <1>1, <1>2, FS_Surjection
<1>4. Cardinality(T) \in Nat /\ Cardinality(S) \in Nat /\ Cardinality(Request) \in Nat
  BY <1>2, <1>3, ConstantFacts, FS_CardinalityType
<1> QED BY <1>2, <1>3, <1>4

\* There are no more people pending than requests.
LEMMA PendingCount ==
  ASSUME TypeOK, NEW o
  PROVE  /\ IsFiniteSet(Pending(o)) /\ Pending(o) \subseteq User
         /\ Cardinality(Pending(o)) \in Nat /\ Cardinality(Pending(o)) <= Cardinality(Request)
<1> DEFINE f == [r \in Adders(o) |-> req[r].user]
<1>1. Adders(o) \subseteq Request /\ Pending(o) = {f[r] : r \in Adders(o)}
  BY DEF Pending, Adders
<1>2. Pending(o) \subseteq User
  BY DEF Pending, Adders, TypeOK, Shape
<1> HIDE DEF f
<1> QED BY <1>1, <1>2, ImageCount

LEMMA LimitType ==
  ASSUME TypeOK
  PROVE  /\ Limit \in Nat /\ Cap <= Limit /\ Cap \in Nat
         /\ Cap - 1 + Cardinality(Request) \in Nat /\ Cap <= Cap - 1 + Cardinality(Request)
<1>1. Cardinality(Request) \in Nat /\ Cardinality(Request) # 0
  BY ClansConstants, FS_CardinalityType, FS_EmptySet
<1> QED BY <1>1, ConstantFacts DEF Limit

LEMMA OverlapGrows ==
  ASSUME TypeOK, TypeOK', [Next]_vars
  PROVE  (overlapped => overlapped') /\ Limit <= Limit'
<1>1. overlapped => overlapped'
  <2>1. ASSUME NEW r \in Request, Fail(r) PROVE UNCHANGED overlapped
    BY <2>1 DEF Fail
  <2> QED BY <2>1, RequestSteps, ArriveFresh
<1> QED BY <1>1, LimitType DEF Limit

LEMMA NextFree == TypeOK /\ FreeStaysFree /\ [Next]_vars => FreeStaysFree'
<1> SUFFICES ASSUME TypeOK, FreeStaysFree, [Next]_vars, NEW o \in FreeOwner
             PROVE  sub'[o].tier = "free"
  BY DEF FreeStaysFree
<1>1. ASSUME UNCHANGED sub PROVE sub'[o].tier = "free"
  BY <1>1 DEF FreeStaysFree
<1>2. ASSUME NEW r \in Request, Arrive(r) \/ Fail(r) PROVE UNCHANGED sub
  BY <1>2 DEF Arrive, StartCreate, StartOnClan, StartPatch, StartRemove, StartAccept, Start, Fail
<1>3. ASSUME NEW r \in Request, Handler(r) PROVE UNCHANGED sub
  BY <1>3 DEF Handler, RequireAdmin, CheckSeat, CheckTier, CheckCount, InsertClan,
       InsertAdmin, InsertSettings, ReadTarget, DeleteClan, ReadCurrent, ReadAdmins,
       UpdateRole, LookupOwner, DeleteRow, InsertInvite, ReadInvitation, ReadExisting,
       InsertRow, MarkAccepted, Finish
<1>4. ASSUME NEW p \in Proc, SyncStep(p) \/ SyncFails(p) PROVE UNCHANGED sub
  BY <1>4 DEF SyncStep, SyncFails, SyncReadSub, SyncCount, SyncRetrieve, SyncUpdate, SyncThrow
<1>5. ASSUME JobStart \/ JobVisit \/ JobEnd PROVE UNCHANGED sub
  BY <1>5 DEF JobStart, JobVisit, JobEnd
<1>6. ASSUME NEW i \in Inv, Expire(i) PROVE UNCHANGED sub
  BY <1>6 DEF Expire
<1>7. ASSUME NEW w \in Owner \ FreeOwner, PlanChange(w) \/ WebhookArrives(w)
      PROVE  sub'[o] = sub[o]
  BY <1>7, ConstantFacts DEF PlanChange, StripeSetsPlan, StripeCancels, WebhookArrives,
       RowFollows, TypeOK, SeatTypeOK
<1>8. CASE UNCHANGED vars
  BY <1>1, <1>8 DEF vars
<1>9. ASSUME sub'[o] = sub[o] PROVE sub'[o].tier = "free"
  BY <1>9 DEF FreeStaysFree
<1> QED BY <1>1, <1>2, <1>3, <1>4, <1>5, <1>6, <1>7, <1>8, <1>9 DEF Next

\* A clan that has an owner keeps it until it is deleted.
LEMMA OwnerFixed ==
  ASSUME TypeOK, [Next]_vars, NEW c \in Clan, createdBy[c] # None
  PROVE  createdBy'[c] \in {createdBy[c], Gone}
BY TableSteps DEF InsertClan, InsertAdmin, DeleteClan, UpdateRole, DeleteRow, InsertRow, TypeOK

\* How a request gets to the awaits from which people are added.
LEMMA SeatPath ==
  ASSUME TypeOK, NEW r \in Request, Handler(r),
         req'[r].pc \in {"seat", "tier", "count", "insertClan", "insertAdmin", "insertRow"}
  PROVE  /\ ReadExisting(r) \/ CheckSeat(r) \/ CheckTier(r) \/ CheckCount(r) \/ InsertClan(r)
         /\ ~Return(r)
<1> DEFINE q == req[r]
<1>0. q \in ReqState /\ Shape(q)
  BY DEF TypeOK
<1>1. ~Return(r)
  BY DEF Return, NoReq, TypeOK
<1>2. ASSUME NEW pc, Goto(r, pc) PROVE req'[r].pc = pc
  BY <1>0, <1>2, GotoMove DEF TypeOK, ReqState
<1>3. ~RequireAdmin(r) /\ ~ReadAdmins(r)
  BY <1>1, <1>2 DEF RequireAdmin, ReadAdmins
<1>4. ~ReadTarget(r)
  <2>1. ASSUME ReadTarget(r) PROVE FALSE
    <3>1. req' = [req EXCEPT ![r] = [q EXCEPT !.pc = "deleteClan", !.owner = createdBy[q.clan]]]
      BY <1>1, <2>1 DEF ReadTarget
    <3> QED BY <1>0, <3>1 DEF TypeOK, ReqState
  <2> QED BY <2>1
<1>5. ~ReadCurrent(r)
  <2>1. ASSUME ReadCurrent(r) PROVE FALSE
    <3>1. PICK pc \in {"admins", "updateRole", "lookup"} :
            req' = [req EXCEPT ![r] = [q EXCEPT !.pc = pc, !.clan = members[q.row].clan]]
      BY <1>1, <2>1 DEF ReadCurrent
    <3> QED BY <1>0, <3>1 DEF TypeOK, ReqState
  <2> QED BY <2>1
<1>6. ~LookupOwner(r)
  <2>1. ASSUME LookupOwner(r) PROVE FALSE
    <3>1. PICK o : req' = [req EXCEPT ![r] = [q EXCEPT !.pc = "deleteRow", !.owner = o]]
      BY <2>1 DEF LookupOwner
    <3> QED BY <1>0, <3>1 DEF TypeOK, ReqState
  <2> QED BY <2>1
<1>7. ~ReadInvitation(r)
  <2>1. ASSUME ReadInvitation(r) PROVE FALSE
    <3>1. req' = [req EXCEPT ![r] = [q EXCEPT !.pc = "existing", !.clan = invites[q.inv].clan,
                                              !.role = invites[q.inv].role]]
      BY <1>1, <2>1 DEF ReadInvitation
    <3> QED BY <1>0, <3>1 DEF TypeOK, ReqState
  <2> QED BY <2>1
<1>8. /\ ~InsertAdmin(r) /\ ~InsertSettings(r) /\ ~DeleteClan(r) /\ ~UpdateRole(r) /\ ~DeleteRow(r)
      /\ ~InsertInvite(r) /\ ~InsertRow(r) /\ ~MarkAccepted(r) /\ ~Finish(r)
  BY <1>1, <1>2 DEF InsertAdmin, InsertSettings, DeleteClan, UpdateRole, DeleteRow,
       InsertInvite, InsertRow, MarkAccepted, Finish
<1> QED BY <1>1, <1>3, <1>4, <1>5, <1>6, <1>7, <1>8 DEF Handler

\* On that path a check changes only pc, and reading the membership the owner.
LEMMA SeatMoves ==
  ASSUME TypeOK, NEW r \in Request, Handler(r),
         req'[r].pc \in {"seat", "tier", "count", "insertClan", "insertAdmin", "insertRow"}
  PROVE  /\ req'[r].user = req[r].user /\ req'[r].op = req[r].op
         /\ ReadExisting(r) => /\ req'[r].clan = req[r].clan /\ req'[r].pc = "seat"
                               /\ req'[r].owner = createdBy[req[r].clan]
         /\ CheckSeat(r) \/ CheckTier(r) \/ CheckCount(r) =>
              req'[r].clan = req[r].clan /\ req'[r].owner = req[r].owner
         /\ InsertClan(r) => /\ req'[r].owner = req[r].owner /\ req'[r].pc = "insertAdmin"
                             /\ req'[r].clan \in Clan /\ createdBy[req'[r].clan] = None
                             /\ createdBy' = [createdBy EXCEPT ![req'[r].clan] = req[r].user]
<1> DEFINE q == req[r]
<1>0. q \in ReqState /\ Shape(q)
  BY DEF TypeOK
<1>1. CASE ReadExisting(r)
  <2>1. PICK pc \in {"seat", "markAccepted"} :
          req' = [req EXCEPT ![r] = [q EXCEPT !.pc = pc, !.owner = createdBy[q.clan]]]
    BY <1>1, SeatPath DEF ReadExisting
  <2>2. /\ req'[r].pc = pc /\ req'[r].owner = createdBy[q.clan] /\ req'[r].clan = q.clan
        /\ req'[r].user = q.user /\ req'[r].op = q.op
    BY <2>1, <1>0 DEF TypeOK, ReqState
  <2> QED BY <2>2, <1>1 DEF ReadExisting, CheckSeat, CheckTier, CheckCount, InsertClan, at
<1>2. CASE CheckSeat(r) \/ CheckTier(r) \/ CheckCount(r)
  <2>1. PICK pc : req' = [req EXCEPT ![r] = [q EXCEPT !.pc = pc]]
    BY <1>2, SeatPath, GotoMove DEF CheckSeat, CheckTier, CheckCount
  <2>2. /\ req'[r].pc = pc /\ req'[r].owner = q.owner /\ req'[r].clan = q.clan
        /\ req'[r].user = q.user /\ req'[r].op = q.op
    BY <2>1, <1>0 DEF TypeOK, ReqState
  <2> QED BY <2>2, <1>2 DEF ReadExisting, CheckSeat, CheckTier, CheckCount, InsertClan, at
<1>3. CASE InsertClan(r)
  <2>1. PICK c \in Clan :
          /\ createdBy[c] = None
          /\ createdBy' = [createdBy EXCEPT ![c] = q.user]
          /\ req' = [req EXCEPT ![r] = [q EXCEPT !.pc = "insertAdmin", !.clan = c]]
    BY <1>3 DEF InsertClan
  <2>2. /\ req'[r].pc = "insertAdmin" /\ req'[r].owner = q.owner /\ req'[r].clan = c
        /\ req'[r].user = q.user /\ req'[r].op = q.op
    BY <2>1, <1>0 DEF TypeOK, ReqState
  <2> QED BY <2>1, <2>2, <1>3 DEF ReadExisting, CheckSeat, CheckTier, CheckCount, InsertClan, at
<1> QED BY <1>1, <1>2, <1>3, SeatPath

LEMMA NextOwner == TypeOK /\ TypeOK' /\ OwnerHolds /\ [Next]_vars => OwnerHolds'
<1> SUFFICES ASSUME TypeOK, TypeOK', OwnerHolds, [Next]_vars, NEW r \in Request,
                    \/ req'[r].pc = "insertAdmin"
                    \/ req'[r].op = "accept" /\ req'[r].pc \in {"seat", "tier", "count", "insertRow"}
             PROVE  createdBy'[req'[r].clan] \in {req'[r].owner, Gone}
  BY DEF OwnerHolds, at
<1>1. ASSUME req'[r].clan = req[r].clan, req'[r].owner = req[r].owner, req[r].clan \in Clan,
             createdBy[req[r].clan] \in {req[r].owner, Gone}, req[r].owner \in User
      PROVE  createdBy'[req'[r].clan] \in {req'[r].owner, Gone}
  BY <1>1, OwnerFixed, ConstantFacts
<1>2. CASE req'[r] = req[r]
  <2>1. req[r].clan \in Clan /\ req[r].owner \in User
    BY <1>2 DEF TypeOK, Shape, Stages, ReqState
  <2> QED BY <1>1, <1>2, <2>1 DEF OwnerHolds, at
<1>3. CASE Arrive(r) \/ Fail(r)
  <2>1. ASSUME Fail(r) PROVE FALSE
    BY <2>1 DEF Fail, Return, NoReq, TypeOK
  <2>2. ASSUME NEW q, Start(r, q),
               q.pc \in {"role", "invitation"} \/ (q.op = "create" /\ q.pc = "seat")
        PROVE  FALSE
    BY <2>2 DEF Start, TypeOK
  <2> QED
    BY <1>3, <2>1, <2>2
    DEF Arrive, StartCreate, StartOnClan, StartPatch, StartRemove, StartAccept, NoReq
<1>4. CASE Handler(r)
  <2>0. req[r] \in ReqState /\ Shape(req[r]) /\ Shape(req'[r])
    BY DEF TypeOK
  <2>1. CASE ReadExisting(r)
    BY <1>4, <2>1, SeatMoves DEF ReadExisting, rows
  <2>2. CASE InsertClan(r)
    <3>1. req[r].owner = req[r].user
      BY <2>0, <2>2 DEF InsertClan, Shape, Stages, at, ReqState, Operation
    <3>2. /\ req'[r].owner = req[r].owner /\ req'[r].clan \in Clan
          /\ createdBy' = [createdBy EXCEPT ![req'[r].clan] = req[r].user]
      BY <1>4, <2>2, SeatMoves
    <3> QED BY <3>1, <3>2 DEF TypeOK
  <2>3. CASE CheckSeat(r) \/ CheckTier(r) \/ CheckCount(r)
    <3>1. req[r].pc \in {"seat", "tier", "count"}
      BY <2>3 DEF CheckSeat, CheckTier, CheckCount, at
    <3>2. req'[r].pc # "insertAdmin" /\ req[r].op = "accept"
      <4>1. req'[r].pc # "insertAdmin"
        <5>1. PICK pc \in {"tier", "count", "insertClan", "insertRow"} : Goto(r, pc)
          BY <1>4, <2>3, SeatPath DEF CheckSeat, CheckTier, CheckCount, Allowed
        <5> QED BY <5>1, <2>0, GotoMove DEF TypeOK, ReqState
      <4> QED BY <1>4, <4>1, SeatMoves
    <3>3. req[r].clan \in Clan /\ req[r].owner \in User
      BY <2>0, <3>1, <3>2 DEF Shape
    <3> QED BY <1>1, <1>4, <2>3, <3>1, <3>2, <3>3, SeatMoves DEF OwnerHolds
  <2> QED BY <1>4, <2>1, <2>2, <2>3, SeatPath
<1> QED BY <1>2, <1>3, <1>4, OthersStay, RequestSteps

\* A person newly seated was pending.
LEMMA SeatSetStep ==
  ASSUME TypeOK, ForeignKey, OwnerHolds, [Next]_vars, NEW o \in FreeOwner
  PROVE  SeatSet(o)' \subseteq Seated(o)
<1> SUFFICES ASSUME NEW u \in User, NEW c \in Clan, NEW m \in Member,
                    createdBy'[c] = o, isRow(m)', members'[m].clan = c, members'[m].user = u
             PROVE  u \in Seated(o)
  BY DEF SeatSet, RowsOf
<1>0. o \in User /\ o # Gone /\ o # None
  BY ConstantFacts
<1>1. ASSUME createdBy[c] = o, isRow(m), members[m].clan = c, members[m].user = u
      PROVE  u \in Seated(o)
  BY <1>1 DEF Seated, SeatSet, RowsOf
<1>2. CASE UNCHANGED <<createdBy, members>>
  BY <1>1, <1>2 DEF isRow
<1>3. ASSUME NEW r \in Request, InsertClan(r) PROVE u \in Seated(o)
  <2>1. isRow(m) /\ members[m].clan = c /\ members[m].user = u
    BY <1>3 DEF InsertClan, isRow
  <2>2. createdBy[c] # None
    BY <2>1, ConstantFacts DEF ForeignKey, live
  <2>3. createdBy[c] = o
    BY <1>3, <2>2 DEF InsertClan, TypeOK
  <2> QED BY <1>1, <2>1, <2>3
<1>4. ASSUME NEW r \in Request, DeleteClan(r) \/ DeleteRow(r) PROVE u \in Seated(o)
  <2>1. members'[m] \in {members[m], Gone} /\ createdBy'[c] \in {createdBy[c], Gone}
    BY <1>4 DEF DeleteClan, DeleteRow, TypeOK
  <2> QED BY <1>0, <1>1, <2>1 DEF isRow
<1>5. ASSUME NEW r \in Request, UpdateRole(r) PROVE u \in Seated(o)
  <2>1. members'[m] = members[m]
        \/ (isRow(m) /\ members'[m] = [members[m] EXCEPT !.role = req[r].role])
    BY <1>5 DEF UpdateRole
  <2>2. isRow(m) => members[m] \in MemberRow
    BY DEF isRow, TypeOK
  <2>3. createdBy' = createdBy
    BY <1>5 DEF UpdateRole
  <2> QED BY <1>1, <2>1, <2>2, <2>3 DEF isRow, MemberRow
<1>6. ASSUME NEW r \in Request, InsertAdmin(r) \/ InsertRow(r) PROVE u \in Seated(o)
  <2>1. createdBy' = createdBy
    BY <1>6 DEF InsertAdmin, InsertRow
  <2>2. CASE members'[m] = members[m]
    BY <1>1, <2>1, <2>2 DEF isRow
  <2>3. CASE members'[m] # members[m]
    <3>1. /\ u = req[r].user /\ c = req[r].clan
          /\ at(r, "insertAdmin") \/ at(r, "insertRow")
      BY <1>6, <2>3 DEF InsertAdmin, InsertRow, TypeOK
    <3>2. createdBy[c] \in {req[r].owner, Gone}
      BY <3>1 DEF OwnerHolds, at, TypeOK, Shape, Stages, ReqState
    <3>3. req[r].owner = o
      BY <1>0, <2>1, <3>2
    <3> QED BY <3>1, <3>3 DEF Seated, Pending, Adders, at
  <2> QED BY <2>2, <2>3
<1> QED BY <1>2, <1>3, <1>4, <1>5, <1>6, TableSteps

\* A person newly pending on the free plan has just been counted.
LEMMA PendingStep ==
  ASSUME TypeOK, TypeOK', FreeStaysFree, [Next]_vars, NEW o \in FreeOwner, NEW u \in Pending(o)'
  PROVE  \/ u \in Seated(o)
         \/ \E r \in Request : CheckCount(r) /\ ~Return(r) /\ req[r].owner = o /\ req[r].user = u
<1>1. PICK r \in Request : /\ req'[r].pc \in {"insertClan", "insertAdmin", "insertRow"}
                           /\ req'[r].owner = o /\ req'[r].user = u
  BY DEF Pending, Adders
<1>2. CASE req'[r] = req[r]
  BY <1>1, <1>2 DEF Seated, Pending, Adders
<1>3. CASE Arrive(r) \/ Fail(r)
  <2>1. ASSUME Fail(r) PROVE FALSE
    BY <1>1, <2>1 DEF Fail, Return, NoReq, TypeOK
  <2>2. ASSUME NEW q, Start(r, q), q.pc \in {"role", "invitation", "seat"} PROVE FALSE
    BY <1>1, <2>2 DEF Start, TypeOK
  <2> QED
    BY <1>3, <2>1, <2>2
    DEF Arrive, StartCreate, StartOnClan, StartPatch, StartRemove, StartAccept, NoReq
<1>4. CASE Handler(r)
  <2>1. /\ ReadExisting(r) \/ CheckSeat(r) \/ CheckTier(r) \/ CheckCount(r) \/ InsertClan(r)
        /\ ~Return(r) /\ ~ReadExisting(r) /\ req[r].owner = o /\ req[r].user = u
    BY <1>1, <1>4, SeatPath, SeatMoves
  <2>2. CASE InsertClan(r)
    BY <2>1, <2>2 DEF InsertClan, at, Seated, Pending, Adders
  <2>3. CASE CheckSeat(r)
    <3>1. \/ u \in SeatSet(o)
          \/ Goto(r, "tier")
      BY <2>1, <2>3 DEF CheckSeat
    <3>2. ~Goto(r, "tier")
      BY <1>1, GotoMove DEF TypeOK, ReqState
    <3> QED BY <3>1, <3>2 DEF Seated
  <2>4. CASE CheckTier(r)
    <3>1. Goto(r, "count")
      BY <2>1, <2>4 DEF CheckTier, normalizeTier, FreeStaysFree
    <3> QED BY <1>1, <3>1, GotoMove DEF TypeOK, ReqState
  <2> QED BY <2>1, <2>2, <2>3, <2>4
<1> QED BY <1>2, <1>3, <1>4, OthersStay, RequestSteps

LEMMA NextCap ==
  /\ TypeOK /\ TypeOK' /\ ForeignKey /\ SerialReadsFresh /\ OwnerHolds /\ FreeStaysFree
  /\ CapInv /\ [Next]_vars
  => CapInv'
<1> SUFFICES ASSUME TypeOK, TypeOK', ForeignKey, SerialReadsFresh, OwnerHolds, FreeStaysFree,
                    CapInv, [Next]_vars, NEW o \in FreeOwner
             PROVE  Cardinality(Seated(o)') <= Limit'
  BY DEF CapInv
<1>1. /\ IsFiniteSet(Seated(o)) /\ Cardinality(Seated(o)) \in Nat
      /\ IsFiniteSet(SeatSet(o)) /\ Cardinality(SeatSet(o)) \in Nat
  BY PendingCount, CountType, FS_Union, FS_CardinalityType DEF Seated
<1>2. IsFiniteSet(User) /\ Seated(o)' \subseteq User
  BY ConstantFacts DEF Seated, SeatSet, Pending, Adders, TypeOK, Shape
<1>3. IsFiniteSet(Seated(o)') /\ Cardinality(Seated(o)') \in Nat
  BY <1>2, FS_Subset, FS_CardinalityType
<1>4. Limit \in Nat /\ Limit' \in Nat /\ Limit <= Limit'
  BY LimitType, OverlapGrows DEF Limit
<1>5. CASE Seated(o)' \subseteq Seated(o)
  <2>1. Cardinality(Seated(o)') <= Cardinality(Seated(o))
    BY <1>1, <1>5, FS_Subset
  <2>2. Cardinality(Seated(o)) <= Limit
    BY DEF CapInv
  <2> QED BY <1>1, <1>3, <1>4, <2>1, <2>2
<1>6. ASSUME NEW r \in Request, CheckCount(r), ~Return(r), req[r].owner = o
      PROVE  Cardinality(Seated(o)') <= Limit'
  <2>1. Cardinality(SeatSet(o)) + 1 <= Cap /\ Cap \in Nat
    BY <1>1, <1>6, LimitType DEF CheckCount, countOwnedSeats
  <2>2. SeatSet(o)' = SeatSet(o) /\ overlapped' = overlapped
    BY <1>6 DEF CheckCount, rows, history, SeatSet, RowsOf, isRow
  <2>3. CASE overlapped
    <3>1. /\ IsFiniteSet(Pending(o)') /\ Cardinality(Pending(o)') \in Nat
          /\ Cardinality(Pending(o)') <= Cardinality(Request)
      <4>1. Pending(o)' = {req'[s].user : s \in Adders(o)'} /\ Adders(o)' \subseteq Request
        BY DEF Pending, Adders
      <4> DEFINE f == [s \in Adders(o)' |-> req'[s].user]
      <4>2. Pending(o)' = {f[s] : s \in Adders(o)'}
        BY <4>1
      <4>3. PICK S : S = Adders(o)'
        OBVIOUS
      <4>4. PICK g : g = f
        OBVIOUS
      <4>5. S \in SUBSET Request /\ Pending(o)' = {g[s] : s \in S}
        BY <4>1, <4>2, <4>3, <4>4
      <4> HIDE DEF f
      <4> QED BY <4>5, ImageCount
    <3>2. Cardinality(Seated(o)') <= Cardinality(SeatSet(o)) + Cardinality(Pending(o)')
      <4>1. Seated(o)' = SeatSet(o) \cup Pending(o)'
        BY <2>2 DEF Seated
      <4>2. IsFiniteSet(SeatSet(o) \cap Pending(o)')
        BY <1>1, FS_Subset
      <4>3. Cardinality(SeatSet(o) \cap Pending(o)') \in Nat
        BY <4>2, FS_CardinalityType
      <4>4. Cardinality(SeatSet(o) \cup Pending(o)') = Cardinality(SeatSet(o))
              + Cardinality(Pending(o)') - Cardinality(SeatSet(o) \cap Pending(o)')
        BY <1>1, <3>1, FS_Union
      <4> QED BY <1>1, <1>3, <3>1, <4>1, <4>3, <4>4
    <3>3. Limit' = Cap - 1 + Cardinality(Request) /\ Cardinality(Request) \in Nat
      BY <2>2, <2>3, ConstantFacts, FS_CardinalityType DEF Limit
    <3> QED BY <1>1, <1>3, <2>1, <3>1, <3>2, <3>3
  <2>4. CASE ~overlapped
    <3>1. \A s \in Request : s # r => req'[s] = req[s] /\ req[s].pc = "idle"
      BY <1>6, <2>4, OthersStay, HandlerActive DEF SerialReadsFresh, active, Handler
    <3>2. Pending(o)' \subseteq {req'[r].user}
      BY <3>1 DEF Pending, Adders
    <3>3. Seated(o)' \subseteq SeatSet(o) \cup {req'[r].user}
      BY <2>2, <3>2 DEF Seated
    <3>4. /\ IsFiniteSet(SeatSet(o) \cup {req'[r].user})
          /\ Cardinality(SeatSet(o) \cup {req'[r].user}) <= Cardinality(SeatSet(o)) + 1
      BY <1>1, FS_AddElement, SMTT(30)
    <3>5. Cardinality(Seated(o)') <= Cardinality(SeatSet(o) \cup {req'[r].user})
      BY <3>3, <3>4, FS_Subset
    <3>6. Limit' = Cap
      BY <2>2, <2>4 DEF Limit
    <3>7. Cardinality(SeatSet(o) \cup {req'[r].user}) \in Nat
      BY <3>4, FS_CardinalityType
    <3> QED BY <1>1, <1>3, <2>1, <3>4, <3>5, <3>6, <3>7
  <2> QED BY <2>3, <2>4
<1>7. Seated(o)' \subseteq Seated(o)
      \/ \E r \in Request : CheckCount(r) /\ ~Return(r) /\ req[r].owner = o
  <2>1. Seated(o)' = SeatSet(o)' \cup Pending(o)'
    BY DEF Seated
  <2> QED BY <2>1, SeatSetStep, PendingStep
<1> QED BY <1>5, <1>6, <1>7

LEMMA InitCap == Init => CapInv /\ FreeStaysFree /\ OwnerHolds
<1> SUFFICES ASSUME Init PROVE CapInv /\ FreeStaysFree /\ OwnerHolds
  OBVIOUS
<1>1. OwnerHolds
  BY DEF Init, OwnerHolds, at, NoReq
<1>2. FreeStaysFree
  <2>1. PICK plan \in SeedPlans : sub = plan.sub
    BY DEF Init
  <2> QED BY <2>1, SeedIsSound DEF FreeStaysFree
<1>3. ASSUME NEW o \in FreeOwner PROVE Cardinality(Seated(o)) <= Limit
  <2> DEFINE seeded == SeedSeats(o)
  <2>1. Pending(o) = {}
    BY DEF Init, Pending, Adders, NoReq
  <2>2. SeatSet(o) \subseteq seeded
    BY DEF SeatSet, RowsOf, isRow, Init, SeedSeats
  <2>3. IsFiniteSet(seeded) /\ Cardinality(seeded) <= Cap
    <3>1. seeded \subseteq User /\ IsFiniteSet(User)
      BY ConstantFacts DEF SeedSeats
    <3> QED BY <3>1, FS_Subset, SeedIsSound
  <2>4. Cardinality(SeatSet(o)) <= Cardinality(seeded) /\ IsFiniteSet(SeatSet(o))
    BY <2>2, <2>3, FS_Subset
  <2>5. Cardinality(SeatSet(o)) \in Nat /\ Cardinality(seeded) \in Nat
    BY <2>3, <2>4, FS_CardinalityType
  <2>6. Limit = Cap /\ Cap \in Nat
    BY ConstantFacts DEF Init, Limit
  <2> QED BY <2>1, <2>3, <2>4, <2>5, <2>6 DEF Seated
<1> QED BY <1>1, <1>2, <1>3 DEF CapInv

\* The free plan's cap is exact for requests that do not overlap; n that do may
\* exceed it together by n - 1 seats and never by more.
THEOREM CapHolds == Spec => []SeatCapHolds
<1>1. Init => CapInv /\ FreeStaysFree /\ OwnerHolds /\ ForeignKey
  BY InitCap, InitKey
<1>2. /\ TypeOK /\ TypeOK' /\ SerialReadsFresh /\ [Next]_vars
      /\ CapInv /\ FreeStaysFree /\ OwnerHolds /\ ForeignKey
      => CapInv' /\ FreeStaysFree' /\ OwnerHolds' /\ ForeignKey'
  BY NextCap, NextFree, NextOwner, NextKey
<1>3. TypeOK /\ CapInv => SeatCapHolds
  <2> SUFFICES ASSUME TypeOK, CapInv, NEW o \in FreeOwner PROVE countOwnedSeats(o) <= Limit
    BY DEF SeatCapHolds, Limit
  <2>1. IsFiniteSet(Seated(o)) /\ SeatSet(o) \subseteq Seated(o)
    BY PendingCount, CountType, FS_Union DEF Seated
  <2>2. /\ countOwnedSeats(o) <= Cardinality(Seated(o)) /\ Cardinality(Seated(o)) \in Nat
        /\ countOwnedSeats(o) \in Nat
    BY <2>1, FS_Subset, FS_CardinalityType, CountType DEF countOwnedSeats
  <2>3. Cardinality(Seated(o)) <= Limit /\ Limit \in Nat
    BY LimitType DEF CapInv
  <2> QED BY <2>2, <2>3
<1> QED BY <1>1, <1>2, <1>3, TypeCorrect, ReadsStayFresh, PTL DEF Spec

-----------------------------------------------------------------------------
(* Flat prices.  What a sync read of the row, and the item it picked at     *)
(* Stripe, are sold per seat for as long as the item is there.              *)

SyncOnSeatPrice ==
  \A p \in Proc :
    /\ sync[p].at \in {"count", "retrieve", "update"} => sync[p].price \in PerSeatPrice
    /\ sync[p].at = "update" =>
         items[sync[p].owner][sync[p].item].price \in PerSeatPrice \cup {None}

\* A change made at Stripe leaves no flat price behind: an item keeps its price,
\* goes, or is sold per seat from then on.
ItemsStep ==
  \A o \in User, i \in Item :
    /\ items'[o][i].price \in {items[o][i].price, None} \cup PerSeatPrice
    /\ items[o][i].price \in OtherPrice /\ items'[o][i].price = items[o][i].price
       => items'[o][i].qty = items[o][i].qty

LEMMA SyncMoves ==
  ASSUME TypeOK, SyncOnSeatPrice, NEW p \in Proc,
         SyncReadSub(p) \/ (\E n : SyncCount(p, n)) \/ SyncRetrieve(p)
           \/ SyncUpdate(p) \/ SyncThrow(p)
  PROVE  SyncOnSeatPrice' /\ ItemsStep
<1> DEFINE s == sync[p]
<1>0. s \in SyncState /\ (s.at # "idle" => s.owner \in User) /\ (s.at = "update" => s.item \in Item)
  BY DEF TypeOK, SeatTypeOK
<1>1. ASSUME NEW x \in SyncState, sync' = [sync EXCEPT ![p] = x], UNCHANGED items,
             x.at \in {"count", "retrieve", "update"} => x.price \in PerSeatPrice,
             x.at = "update" => items[x.owner][x.item].price \in PerSeatPrice
      PROVE  SyncOnSeatPrice' /\ ItemsStep
  BY <1>1 DEF SyncOnSeatPrice, ItemsStep, TypeOK, SeatTypeOK
<1>2. CASE sync' = [sync EXCEPT ![p] = Idle] /\ UNCHANGED items
  BY <1>1, <1>2, IdleType
<1>3. CASE SyncReadSub(p)
  <2>1. CASE Syncable(sub[s.owner])
    <3>1. sync' = [sync EXCEPT ![p] = [s EXCEPT !.at = "count", !.price = sub[s.owner].price]]
      BY <1>3, <2>1 DEF SyncReadSub, TypeOK, SeatTypeOK
    <3>2. sub[s.owner].price \in PerSeatPrice
      BY <2>1 DEF Syncable, isPerSeatPriceId
    <3>3. [s EXCEPT !.at = "count", !.price = sub[s.owner].price] \in SyncState
      BY <1>0, <3>2 DEF SyncState, Price
    <3>4. /\ [s EXCEPT !.at = "count", !.price = sub[s.owner].price].at = "count"
          /\ [s EXCEPT !.at = "count", !.price = sub[s.owner].price].price = sub[s.owner].price
      BY <1>0 DEF SyncState
    <3> QED BY <1>1, <1>3, <3>1, <3>2, <3>3, <3>4 DEF SyncReadSub
  <2>2. CASE ~Syncable(sub[s.owner])
    BY <1>2, <1>3, <2>2 DEF SyncReadSub
  <2> QED BY <2>1, <2>2
<1>4. ASSUME NEW n, SyncCount(p, n) PROVE SyncOnSeatPrice' /\ ItemsStep
  <2>1. sync'[p].price = s.price /\ sync'[p].at = "retrieve" /\ s.at = "count"
    BY <1>0, <1>4 DEF SyncCount, TypeOK, SeatTypeOK, SyncState
  <2>2. \A x \in Proc : x # p => sync'[x] = sync[x]
    BY <1>4 DEF SyncCount, TypeOK, SeatTypeOK
  <2>3. UNCHANGED items
    BY <1>4 DEF SyncCount
  <2> QED BY <2>1, <2>2, <2>3 DEF SyncOnSeatPrice, ItemsStep
<1>5. CASE SyncRetrieve(p)
  <2> DEFINE base == baseItem(items[s.owner], s.price)
  <2>1. s.price \in PerSeatPrice /\ s.at = "retrieve"
    BY <1>5 DEF SyncRetrieve, SyncOnSeatPrice
  <2>2. \A i \in base : i \in Item /\ items[s.owner][i].price \in PerSeatPrice
    BY <2>1 DEF baseItem
  <2>3. ASSUME NEW i \in base,
               sync' = [sync EXCEPT ![p] = [s EXCEPT !.at = "update", !.item = i]]
        PROVE  SyncOnSeatPrice' /\ ItemsStep
    <3>1. /\ [s EXCEPT !.at = "update", !.item = i] \in SyncState
          /\ [s EXCEPT !.at = "update", !.item = i].price = s.price
          /\ [s EXCEPT !.at = "update", !.item = i].owner = s.owner
          /\ [s EXCEPT !.at = "update", !.item = i].item = i
      BY <1>0, <2>2 DEF SyncState
    <3> QED BY <1>1, <1>5, <2>1, <2>2, <2>3, <3>1 DEF SyncRetrieve
  <2>4. \/ sync' = [sync EXCEPT ![p] = Idle]
        \/ \E i \in base : sync' = [sync EXCEPT ![p] = [s EXCEPT !.at = "update", !.item = i]]
    BY <1>5 DEF SyncRetrieve, TypeOK, SeatTypeOK
  <2> QED BY <1>2, <1>5, <2>3, <2>4 DEF SyncRetrieve
<1>6. CASE SyncUpdate(p)
  <2>1. s.owner \in User /\ s.item \in Item /\ items[s.owner][s.item].price \in PerSeatPrice
    BY <1>0, <1>6 DEF SyncUpdate, SyncOnSeatPrice
  <2>2. \A o \in User, i \in Item :
          /\ items'[o][i].price = items[o][i].price
          /\ items'[o][i].qty # items[o][i].qty => o = s.owner /\ i = s.item
    BY <1>6, <2>1 DEF SyncUpdate, TypeOK, SeatTypeOK, StripeItem
  <2>3. ItemsStep
    BY <2>1, <2>2, SeatSyncConstants DEF ItemsStep
  <2>4. sync' = [sync EXCEPT ![p] = Idle]
    BY <1>6 DEF SyncUpdate
  <2>5. SyncOnSeatPrice'
    <3> SUFFICES ASSUME NEW x \in Proc
                 PROVE  /\ sync'[x].at \in {"count", "retrieve", "update"}
                             => sync'[x].price \in PerSeatPrice
                        /\ sync'[x].at = "update" =>
                             items'[sync'[x].owner][sync'[x].item].price \in PerSeatPrice \cup {None}
      BY DEF SyncOnSeatPrice
    <3>1. CASE x = p
      BY <2>4, <3>1, IdleType DEF TypeOK, SeatTypeOK
    <3>2. CASE x # p
      <4>1. sync'[x] = sync[x]
        BY <2>4, <3>2 DEF TypeOK, SeatTypeOK
      <4>2. sync[x].at = "update" => sync[x].owner \in User /\ sync[x].item \in Item
        BY DEF TypeOK, SeatTypeOK
      <4> QED BY <2>2, <4>1, <4>2 DEF SyncOnSeatPrice
    <3> QED BY <3>1, <3>2
  <2> QED BY <2>3, <2>5
<1>7. CASE SyncThrow(p)
  BY <1>2, <1>7 DEF SyncThrow
<1> QED BY <1>3, <1>4, <1>5, <1>6, <1>7

LEMMA NextSeatPrice ==
  TypeOK /\ SyncOnSeatPrice /\ [Next]_vars => SyncOnSeatPrice' /\ ItemsStep
<1> SUFFICES ASSUME TypeOK, SyncOnSeatPrice, [Next]_vars PROVE SyncOnSeatPrice' /\ ItemsStep
  OBVIOUS
<1>1. CASE UNCHANGED <<items, sync>>
  BY <1>1 DEF SyncOnSeatPrice, ItemsStep
<1>2. ASSUME NEW p \in Proc, NEW o \in User, SyncCall(p, o), UNCHANGED items
      PROVE  SyncOnSeatPrice' /\ ItemsStep
  <2>1. \A x \in Proc : x # p => sync'[x] = sync[x]
    BY <1>2 DEF SyncCall, TypeOK, SeatTypeOK
  <2>2. sync'[p].at = "sub"
    BY <1>2 DEF SyncCall, Idle, TypeOK, SeatTypeOK
  <2> QED BY <1>2, <2>1, <2>2 DEF SyncOnSeatPrice, ItemsStep
<1>3. ASSUME NEW r \in Request, Arrive(r) \/ Fail(r) PROVE UNCHANGED <<items, sync>>
  BY <1>3 DEF Arrive, StartCreate, StartOnClan, StartPatch, StartRemove, StartAccept, Start, Fail
<1>4. ASSUME NEW r \in Request, Handler(r)
      PROVE  UNCHANGED items /\ (UNCHANGED sync \/ \E o \in User : SyncCall(r, o))
  <2>0. req[r] \in ReqState /\ Shape(req[r])
    BY DEF TypeOK
  <2>1. CASE InsertSettings(r)
    BY <2>0, <2>1 DEF InsertSettings, at, Shape, Stages, ReqState
  <2>2. CASE DeleteClan(r)
    BY <2>0, <2>2 DEF DeleteClan, at, Shape, Stages, ReqState
  <2>3. CASE DeleteRow(r)
    BY <2>0, <2>3 DEF DeleteRow, ReqState
  <2>4. CASE MarkAccepted(r)
    BY <2>0, <2>4 DEF MarkAccepted, at, Shape, Stages, ReqState
  <2> QED
    BY <1>4, <2>1, <2>2, <2>3, <2>4
    DEF Handler, RequireAdmin, CheckSeat, CheckTier, CheckCount, InsertClan, InsertAdmin,
        ReadTarget, ReadCurrent, ReadAdmins, UpdateRole, LookupOwner, InsertInvite,
        ReadInvitation, ReadExisting, InsertRow, Finish
<1>5. ASSUME NEW p \in Proc, SyncStep(p) \/ SyncFails(p) PROVE SyncOnSeatPrice' /\ ItemsStep
  BY <1>5, SyncMoves DEF SyncStep, SyncFails
<1>6. ASSUME JobStart \/ JobVisit \/ JobEnd PROVE SyncOnSeatPrice' /\ ItemsStep
  BY <1>1, <1>2, <1>6, ConstantFacts DEF JobStart, JobVisit, JobEnd, TypeOK
<1>7. ASSUME NEW i \in Inv, Expire(i) PROVE UNCHANGED <<items, sync>>
  BY <1>7 DEF Expire
<1>8. ASSUME NEW o \in Owner \ FreeOwner, PlanChange(o) \/ WebhookArrives(o)
      PROVE  SyncOnSeatPrice' /\ ItemsStep
  <2>1. CASE WebhookArrives(o)
    BY <1>1, <2>1 DEF WebhookArrives, RowFollows
  <2>2. CASE PlanChange(o)
    <3>1. UNCHANGED sync /\ o \in User
      BY <2>2, ConstantFacts DEF PlanChange, StripeSetsPlan, StripeCancels
    <3>2. \A x \in User, i \in Item :
            items'[x][i] = items[x][i] \/ items'[x][i].price \in PerSeatPrice \cup {None}
      <4>1. CASE StripeCancels(o)
        BY <3>1, <4>1 DEF StripeCancels, TypeOK, SeatTypeOK
      <4>2. ASSUME NEW price \in PerSeatPrice, NEW q, StripeSetsPlan(o, price, q)
            PROVE  \A x \in User, i \in Item :
                     items'[x][i] = items[x][i] \/ items'[x][i].price \in PerSeatPrice
        BY <3>1, <4>2 DEF StripeSetsPlan, TypeOK, SeatTypeOK, Item
      <4> QED BY <2>2, <4>1, <4>2 DEF PlanChange
    <3>3. ItemsStep
      BY <3>2, SeatSyncConstants DEF ItemsStep
    <3>4. SyncOnSeatPrice'
      BY <3>1, <3>2 DEF SyncOnSeatPrice, TypeOK, SeatTypeOK
    <3> QED BY <3>3, <3>4
  <2> QED BY <1>8, <2>1, <2>2
<1>9. CASE UNCHANGED vars
  BY <1>1, <1>9 DEF vars
<1> QED BY <1>1, <1>2, <1>3, <1>4, <1>5, <1>6, <1>7, <1>8, <1>9, ConstantFacts DEF Next

\* Whatever overlaps and whatever Stripe does meanwhile, the quantity of a flat
\* price or of the old overage item is never written.
THEOREM FlatPricesUntouched == Spec => FlatPriceUntouched
<1>1. Init => SyncOnSeatPrice
  BY IdleType DEF Init, SyncOnSeatPrice
<1>2. ItemsStep => [\A o \in Owner, i \in Item :
       items[o][i].price \in OtherPrice /\ items'[o][i].price = items[o][i].price
       => items'[o][i].qty = items[o][i].qty]_vars
  BY ConstantFacts DEF ItemsStep
<1> QED BY <1>1, <1>2, NextSeatPrice, TypeCorrect, PTL DEF Spec, FlatPriceUntouched

-----------------------------------------------------------------------------
(* Seats are billed.  While requests neither overlap nor fail, an owner     *)
(* whose seats are not billed is owed a sync by the request that changed    *)
(* them, and the quantity a sync has at hand is of the people there are.    *)

\* A price sold now is of a paid plan, and is not the overage line's.
PricesTell ==
  \A o \in Owner : /\ sub[o].price \in PerSeatPrice => isPerSeat(sub[o].tier)
                   /\ items[o]["extra"].price \notin PerSeatPrice

\* A request syncs at its end, the job while it is on.
SyncsInPlace ==
  /\ \A r \in Request : syncing(r) => at(r, "sync")
  /\ syncing(Job) \/ job.todo # {} => job.on

\* Alone, a request knows the owner whose seats it changes.
Knows(q) ==
  q.pc \in {"deleteClan", "deleteRow", "insertSettings"} =>
    q.owner \in User /\ createdBy[q.clan] = q.owner

OwnerKnown == ~overlapped => \A r \in Request : Knows(req[r])

\* The quantity at hand is of the people there are.
Counted(p) ==
  /\ sync[p].at \in {"retrieve", "update"} =>
       sync[p].qty = billableSeats(countOwnedSeats(sync[p].owner))
  /\ sync[p].at = "update" /\ sync[p].owner \in Owner => sync[p].item = "base"

\* A request that changed the seats of o and has not synced them yet.
Owes(r, o) ==
  \/ req[r].pc \in {"insertSettings", "markAccepted"} /\ req[r].owner = o
  \/ syncing(r) /\ sync[r].owner = o

BillsDue ==
  ~overlapped /\ ~drift =>
    /\ job.on => \A r \in Request : ~active(r)
    /\ \A p \in Proc : Counted(p)
    /\ \A o \in Owner : Billed(o, countOwnedSeats(o)) \/ \E r \in Request : Owes(r, o)

BillInv == PricesTell /\ SyncsInPlace /\ OwnerKnown /\ BillsDue

\* What a handler's step does to the syncs: four of them end in one.
LEMMA HandlerSyncs ==
  ASSUME TypeOK, NEW r \in Request, Handler(r)
  PROVE  /\ UNCHANGED <<sub, items, job, history>>
         /\ \/ UNCHANGED sync /\ ~at(r, "sync")
            \/ UNCHANGED <<sync, createdBy, members>> /\ at(r, "sync") /\ ~syncing(r) /\ Return(r)
            \/ /\ InsertSettings(r) \/ DeleteClan(r) \/ DeleteRow(r) \/ MarkAccepted(r)
               /\ ~at(r, "sync")
               /\ SyncCall(r, req[r].owner) /\ Goto(r, "sync") /\ req[r].owner \in User
<1> DEFINE q == req[r]
<1>0. q \in ReqState /\ Shape(q)
  BY DEF TypeOK
<1>1. UNCHANGED <<sub, items, job, history>>
  BY DEF Handler, RequireAdmin, CheckSeat, CheckTier, CheckCount, InsertClan,
       InsertAdmin, InsertSettings, ReadTarget, DeleteClan, ReadCurrent, ReadAdmins,
       UpdateRole, LookupOwner, DeleteRow, InsertInvite, ReadInvitation, ReadExisting,
       InsertRow, MarkAccepted, Finish
<1>2. CASE InsertSettings(r)
  BY <1>0, <1>1, <1>2 DEF InsertSettings, at, Shape, Stages, ReqState
<1>3. CASE DeleteClan(r)
  BY <1>0, <1>1, <1>3 DEF DeleteClan, at, Shape, Stages, ReqState
<1>4. CASE DeleteRow(r)
  BY <1>0, <1>1, <1>4 DEF DeleteRow, at, ReqState
<1>5. CASE MarkAccepted(r)
  BY <1>0, <1>1, <1>5 DEF MarkAccepted, at, Shape, Stages, ReqState
<1>6. CASE Finish(r)
  BY <1>1, <1>6 DEF Finish, rows
<1>7. CASE \/ RequireAdmin(r) \/ CheckSeat(r) \/ CheckTier(r) \/ CheckCount(r) \/ InsertClan(r)
           \/ InsertAdmin(r) \/ ReadTarget(r) \/ ReadCurrent(r) \/ ReadAdmins(r)
           \/ UpdateRole(r) \/ LookupOwner(r) \/ InsertInvite(r) \/ ReadInvitation(r)
           \/ ReadExisting(r) \/ InsertRow(r)
  BY <1>1, <1>7
  DEF RequireAdmin, CheckSeat, CheckTier, CheckCount, InsertClan, InsertAdmin, ReadTarget,
      ReadCurrent, ReadAdmins, UpdateRole, LookupOwner, InsertInvite, ReadInvitation,
      ReadExisting, InsertRow, at
<1> QED BY <1>2, <1>3, <1>4, <1>5, <1>6, <1>7 DEF Handler

\* A step at the seats moves its request; no other does.
LEMMA QuietSteps ==
  ASSUME [Next]_vars
  PROVE  \/ \E r \in Request : Handler(r)
         \/ UNCHANGED <<createdBy, members>>
BY TableSteps DEF Handler

LEMMA HistoryGrows ==
  ASSUME TypeOK, TypeOK', [Next]_vars
  PROVE  (overlapped => overlapped') /\ (drift => drift')
<1>1. ASSUME NEW r \in Request, Arrive(r) \/ Fail(r) PROVE drift => drift'
  BY <1>1 DEF Arrive, StartCreate, StartOnClan, StartPatch, StartRemove, StartAccept, Start, Fail
<1>2. ASSUME NEW r \in Request, Handler(r) PROVE drift => drift'
  BY <1>2, HandlerSyncs DEF history
<1>3. ASSUME NEW p \in Proc, SyncStep(p) \/ SyncFails(p) PROVE drift => drift'
  BY <1>3 DEF SyncStep, SyncFails, history
<1>4. ASSUME JobStart \/ JobVisit \/ JobEnd PROVE drift => drift'
  BY <1>4 DEF JobStart, JobVisit, JobEnd, history
<1>5. ASSUME NEW i \in Inv, Expire(i) PROVE drift => drift'
  BY <1>5 DEF Expire, history
<1>6. ASSUME NEW o, PlanChange(o) \/ WebhookArrives(o) PROVE drift => drift'
  BY <1>6 DEF PlanChange, WebhookArrives
<1>7. CASE UNCHANGED vars
  BY <1>7 DEF vars, history
<1> QED BY <1>1, <1>2, <1>3, <1>4, <1>5, <1>6, <1>7, OverlapGrows DEF Next

-----------------------------------------------------------------------------
(* Whose seats a step changes.                                              *)

\* Row m seats its person with o.
Seats(m, o) == isRow(m) /\ createdBy[members[m].clan] = o

LEMMA SameSeats ==
  ASSUME TypeOK, TypeOK', NEW o \in User,
         \A m \in Member : /\ Seats(m, o) <=> Seats(m, o)'
                           /\ Seats(m, o) => members'[m].user = members[m].user
  PROVE  SeatSet(o)' = SeatSet(o) /\ countOwnedSeats(o)' = countOwnedSeats(o)
<1>1. ASSUME NEW u \in User
      PROVE  (\E c \in Clan : createdBy[c] = o /\ RowsOf(c, u) # {})
             <=> \E m \in Member : Seats(m, o) /\ members[m].user = u
  <2>1. \A m \in Member : isRow(m) => members[m].clan \in Clan
    BY DEF TypeOK, isRow, MemberRow
  <2> QED BY <2>1 DEF Seats, RowsOf
<1>2. ASSUME NEW u \in User
      PROVE  ((\E c \in Clan : createdBy[c] = o /\ RowsOf(c, u) # {})
             <=> \E m \in Member : Seats(m, o) /\ members[m].user = u)'
  <2>1. \A m \in Member : isRow(m)' => members'[m].clan \in Clan
    BY DEF TypeOK, isRow, MemberRow
  <2> QED BY <2>1 DEF Seats, RowsOf
<1>3. ASSUME NEW u \in User
      PROVE  (\E m \in Member : Seats(m, o) /\ members[m].user = u)
             <=> (\E m \in Member : Seats(m, o) /\ members[m].user = u)'
  OBVIOUS
<1>4. SeatSet(o)' = SeatSet(o)
  BY <1>1, <1>2, <1>3 DEF SeatSet
<1> QED BY <1>4 DEF countOwnedSeats

\* Only the seats of the owner a request knows are changed by it, and only by
\* the four steps that insert a person or delete one.
LEMMA OnlyTheOwners ==
  ASSUME TypeOK, TypeOK', ForeignKey, OwnerHolds, SerialReadsFresh, OwnerKnown, ~overlapped,
         NEW r \in Request, Handler(r), NEW o \in User,
         \/ o # req[r].owner
         \/ ~InsertAdmin(r) /\ ~DeleteClan(r) /\ ~DeleteRow(r) /\ ~InsertRow(r)
  PROVE  countOwnedSeats(o)' = countOwnedSeats(o)
<1> DEFINE q == req[r]
<1>0. /\ q \in ReqState /\ Shape(q) /\ Knows(q) /\ Fresh(q)
      /\ o # None /\ o # Gone
  BY ConstantFacts DEF TypeOK, OwnerKnown, SerialReadsFresh
<1>1. CASE UNCHANGED <<createdBy, members>>
  BY <1>1, SameSeats DEF Seats, isRow
<1>2. CASE InsertClan(r)
  <2>1. PICK c \in Clan : createdBy[c] = None /\ createdBy' = [createdBy EXCEPT ![c] = q.user]
                          /\ members' = members
    BY <1>2 DEF InsertClan
  <2>2. \A m \in Member : isRow(m) => members[m].clan # c /\ members[m].clan \in Clan
    BY <2>1, ConstantFacts DEF ForeignKey, live, TypeOK, isRow, MemberRow
  <2> QED BY <2>1, <2>2, SameSeats DEF Seats, isRow, TypeOK
<1>3. CASE UpdateRole(r)
  <2>1. \A m \in Member : /\ isRow(m) <=> isRow(m)'
                          /\ isRow(m) => /\ members'[m].clan = members[m].clan
                                         /\ members'[m].user = members[m].user
    <3> SUFFICES ASSUME NEW m \in Member
                 PROVE  /\ isRow(m) <=> isRow(m)'
                        /\ isRow(m) => /\ members'[m].clan = members[m].clan
                                       /\ members'[m].user = members[m].user
      OBVIOUS
    <3>1. CASE members'[m] = members[m]
      BY <3>1 DEF isRow
    <3>2. CASE isRow(m) /\ members'[m] = [members[m] EXCEPT !.role = q.role]
      <4>1. members[m] \in MemberRow /\ q.role \in Role
        BY <1>0, <3>2 DEF isRow, TypeOK, ReqState
      <4>2. /\ members'[m] \in MemberRow
            /\ members'[m].clan = members[m].clan /\ members'[m].user = members[m].user
        BY <3>2, <4>1 DEF MemberRow
      <4> QED BY <3>2, <4>2, ConstantFacts DEF isRow
    <3> QED BY <1>3, <3>1, <3>2 DEF UpdateRole
  <2>2. createdBy' = createdBy
    BY <1>3 DEF UpdateRole
  <2> QED BY <2>1, <2>2, SameSeats DEF Seats
<1>4. CASE (InsertAdmin(r) \/ InsertRow(r)) /\ o # q.owner /\ members' # members
  <2>1. /\ createdBy' = createdBy /\ createdBy[q.clan] = q.owner
    <3>1. at(r, "insertAdmin") \/ (at(r, "insertRow") /\ q.op = "accept")
      BY <1>0, <1>4 DEF InsertAdmin, InsertRow, at, Shape, Stages, ReqState, Operation
    <3>2. createdBy[q.clan] \in {q.owner, Gone}
      BY <3>1 DEF OwnerHolds, at
    <3>3. live(q.clan) /\ createdBy' = createdBy
      BY <1>4 DEF InsertAdmin, InsertRow
    <3> QED BY <3>2, <3>3, ConstantFacts DEF live
  <2>2. PICK f \in Member : \E x : /\ members[f] = None /\ x.clan = q.clan
                                   /\ members' = [members EXCEPT ![f] = x]
    <3>1. \E m \in Member : members[m] = None
      BY <1>4 DEF InsertAdmin, InsertRow
    <3>2. FreshMember \in Member /\ members[FreshMember] = None
      BY <3>1 DEF FreshMember
    <3> QED BY <1>4, <3>2 DEF InsertAdmin, InsertRow
  <2>3. members'[f].clan = q.clan /\ \A m \in Member : m # f => members'[m] = members[m]
    BY <2>2 DEF TypeOK
  <2>4. ~Seats(f, o) /\ ~Seats(f, o)'
    BY <1>4, <2>1, <2>2, <2>3 DEF Seats, isRow
  <2> QED BY <2>1, <2>3, <2>4, SameSeats DEF Seats, isRow
<1>5. CASE DeleteClan(r) /\ o # q.owner
  <2>1. /\ createdBy[q.clan] = q.owner /\ q.clan \in Clan
        /\ createdBy' = [createdBy EXCEPT ![q.clan] = Gone]
        /\ members' = [m \in Member |->
                        IF isRow(m) /\ members[m].clan = q.clan THEN Gone ELSE members[m]]
    BY <1>0, <1>5 DEF DeleteClan, at, Knows, Shape, Stages, ReqState
  <2>2. ASSUME NEW m \in Member
        PROVE  (Seats(m, o) <=> Seats(m, o)') /\ (Seats(m, o) => members'[m].user = members[m].user)
    <3>1. CASE isRow(m) /\ members[m].clan = q.clan
      BY <1>5, <2>1, <3>1 DEF Seats, isRow
    <3>2. CASE ~isRow(m)
      BY <2>1, <3>2 DEF Seats, isRow
    <3>3. CASE isRow(m) /\ members[m].clan # q.clan
      <4>1. members'[m] = members[m] /\ createdBy'[members[m].clan] = createdBy[members[m].clan]
        BY <2>1, <3>3 DEF TypeOK, isRow, MemberRow
      <4> QED BY <4>1 DEF Seats, isRow
    <3> QED BY <3>1, <3>2, <3>3
  <2> QED BY <2>2, SameSeats
<1>6. CASE DeleteRow(r) /\ o # q.owner
  <2>1. /\ createdBy[q.clan] = q.owner /\ isRow(q.row) /\ members[q.row].clan = q.clan
        /\ createdBy' = createdBy
        /\ members' = [m \in Member |-> IF m = q.row /\ isRow(m) THEN Gone ELSE members[m]]
    BY <1>0, <1>6 DEF DeleteRow, at, Knows, Fresh
  <2> QED BY <1>6, <2>1, SameSeats DEF Seats, isRow
<1>7. CASE \/ RequireAdmin(r) \/ CheckSeat(r) \/ CheckTier(r) \/ CheckCount(r)
           \/ InsertSettings(r) \/ ReadTarget(r) \/ ReadCurrent(r) \/ ReadAdmins(r)
           \/ LookupOwner(r) \/ InsertInvite(r) \/ ReadInvitation(r)
           \/ ReadExisting(r) \/ MarkAccepted(r) \/ Finish(r)
  BY <1>1, <1>7
  DEF RequireAdmin, CheckSeat, CheckTier, CheckCount, InsertSettings, ReadTarget,
      ReadCurrent, ReadAdmins, LookupOwner, InsertInvite, ReadInvitation,
      ReadExisting, MarkAccepted, Finish, rows
<1>8. CASE (InsertAdmin(r) \/ InsertRow(r)) /\ members' = members
  BY <1>1, <1>8 DEF InsertAdmin, InsertRow
<1> QED BY <1>2, <1>3, <1>4, <1>5, <1>6, <1>7, <1>8 DEF Handler

-----------------------------------------------------------------------------
(* The parts of the invariant, one step at a time.                          *)

LEMMA NextPrices == TypeOK /\ PricesTell /\ [Next]_vars => PricesTell'
<1> SUFFICES ASSUME TypeOK, PricesTell, [Next]_vars, NEW o \in Owner
             PROVE  /\ sub'[o].price \in PerSeatPrice => isPerSeat(sub'[o].tier)
                    /\ items'[o]["extra"].price \notin PerSeatPrice
  BY DEF PricesTell
<1> DEFINE Goal == /\ sub'[o].price \in PerSeatPrice => isPerSeat(sub'[o].tier)
                   /\ items'[o]["extra"].price \notin PerSeatPrice
<1>0. /\ o \in User /\ "extra" \in Item /\ "base" \in Item /\ None \notin PerSeatPrice
      /\ items[o]["extra"] \in StripeItem
  BY ConstantFacts, SeatSyncConstants DEF Item, TypeOK, SeatTypeOK
<1>1. ASSUME sub'[o] = sub[o], items'[o]["extra"].price = items[o]["extra"].price PROVE Goal
  BY <1>1 DEF PricesTell
<1>2. ASSUME NEW r \in Request, Arrive(r) \/ Fail(r) \/ Handler(r) PROVE Goal
  <2>1. ASSUME Arrive(r) \/ Fail(r) PROVE UNCHANGED <<sub, items>>
    BY <2>1 DEF Arrive, StartCreate, StartOnClan, StartPatch, StartRemove, StartAccept, Start, Fail
  <2> QED BY <1>1, <1>2, <2>1, HandlerSyncs
<1>3. ASSUME NEW p \in Proc, SyncStep(p) \/ SyncFails(p) PROVE Goal
  <2>1. CASE SyncUpdate(p)
    <3>1. sub' = sub /\ \E q : items' = [items EXCEPT ![sync[p].owner][sync[p].item].qty = q]
      BY <2>1 DEF SyncUpdate
    <3>2. sync[p].owner \in User /\ sync[p].item \in Item
      BY <2>1 DEF SyncUpdate, TypeOK, SeatTypeOK
    <3>3. items'[o]["extra"].price = items[o]["extra"].price
      BY <1>0, <3>1, <3>2 DEF TypeOK, SeatTypeOK, StripeItem
    <3> QED BY <1>1, <3>1, <3>3
  <2>2. CASE UNCHANGED <<sub, items>>
    BY <1>1, <2>2
  <2> QED BY <1>3, <2>1, <2>2 DEF SyncStep, SyncFails, SyncReadSub, SyncCount, SyncRetrieve, SyncThrow
<1>4. ASSUME JobStart \/ JobVisit \/ JobEnd PROVE Goal
  BY <1>1, <1>4 DEF JobStart, JobVisit, JobEnd
<1>5. ASSUME NEW i \in Inv, Expire(i) PROVE Goal
  BY <1>1, <1>5 DEF Expire
<1>6. ASSUME NEW w \in Owner \ FreeOwner, WebhookArrives(w) PROVE Goal
  <2>1. items' = items /\ (sub'[o] = sub[o] \/ (sub'[o].price \in PerSeatPrice => sub'[o].tier = "clan"))
    BY <1>0, <1>6 DEF WebhookArrives, RowFollows, FreeRow, TypeOK, SeatTypeOK
  <2> QED BY <1>1, <2>1 DEF PricesTell, isPerSeat, normalizeTier
<1>7. ASSUME NEW w \in Owner \ FreeOwner, PlanChange(w) PROVE Goal
  <2>1. CASE StripeCancels(w)
    BY <1>0, <1>1, <2>1, ConstantFacts DEF StripeCancels, TypeOK, SeatTypeOK, PricesTell
  <2>2. ASSUME NEW price, NEW n, StripeSetsPlan(w, price, n) PROVE Goal
    BY <1>0, <1>1, <2>2, ConstantFacts DEF StripeSetsPlan, TypeOK, SeatTypeOK
  <2> QED BY <1>7, <2>1, <2>2 DEF PlanChange
<1>8. CASE UNCHANGED vars
  BY <1>1, <1>8 DEF vars
<1> QED BY <1>2, <1>3, <1>4, <1>5, <1>6, <1>7, <1>8 DEF Next

\* A sync's step is of a process that was syncing.
LEMMA SyncActive ==
  ASSUME NEW p \in Proc, SyncStep(p) \/ SyncFails(p)
  PROVE  syncing(p)
BY DEF SyncStep, SyncFails, SyncReadSub, SyncCount, SyncRetrieve, SyncUpdate, SyncThrow, syncing

LEMMA SyncOthers ==
  ASSUME TypeOK, NEW p \in Proc, SyncStep(p) \/ SyncFails(p)
  PROVE  /\ \A x \in Proc : x # p => sync'[x] = sync[x]
         /\ UNCHANGED <<rows, req, job, overlapped>>
BY DEF SyncStep, SyncFails, SyncReadSub, SyncCount, SyncRetrieve, SyncUpdate, SyncThrow, TypeOK,
       SeatTypeOK, history

LEMMA NextPlaces == TypeOK /\ SyncsInPlace /\ [Next]_vars => SyncsInPlace'
<1> SUFFICES ASSUME TypeOK, SyncsInPlace, [Next]_vars PROVE SyncsInPlace'
  OBVIOUS
<1>0. Job \in Proc /\ Job \notin Request /\ Request \subseteq Proc
  BY ConstantFacts
<1>1. CASE UNCHANGED <<sync, req, job>>
  BY <1>1 DEF SyncsInPlace, syncing, at
<1>2. ASSUME NEW r \in Request, req' = [req EXCEPT ![r] = req'[r]], UNCHANGED job,
             ~at(r, "sync") \/ ~syncing(r), UNCHANGED sync
      PROVE  SyncsInPlace'
  <2>1. ~syncing(r)
    BY <1>2 DEF SyncsInPlace
  <2>2. \A s \in Request : s # r => req'[s] = req[s]
    BY <1>2 DEF TypeOK
  <2> QED BY <1>2, <2>1, <2>2 DEF SyncsInPlace, syncing, at
<1>3. ASSUME NEW r \in Request, Arrive(r) \/ Fail(r) PROVE SyncsInPlace'
  <2>1. UNCHANGED <<sync, job>> /\ ~at(r, "sync")
    BY <1>3 DEF Arrive, StartCreate, StartOnClan, StartPatch, StartRemove, StartAccept, Start,
         Fail, active, at
  <2>2. req' = [req EXCEPT ![r] = req'[r]]
    BY <1>3 DEF Arrive, StartCreate, StartOnClan, StartPatch, StartRemove, StartAccept, Start,
         Fail, Return, TypeOK
  <2> QED BY <1>2, <2>1, <2>2
<1>4. ASSUME NEW r \in Request, Handler(r) PROVE SyncsInPlace'
  <2>1. \A s \in Request : s # r => req'[s] = req[s]
    BY <1>4, OthersStay
  <2>2. UNCHANGED job
    BY <1>4, HandlerSyncs
  <2>3. CASE UNCHANGED sync /\ (~at(r, "sync") \/ ~syncing(r))
    BY <1>0, <2>1, <2>2, <2>3 DEF SyncsInPlace, syncing, at
  <2>4. CASE SyncCall(r, req[r].owner) /\ Goto(r, "sync")
    <3>1. req'[r].pc = "sync"
      BY <2>4, GotoMove DEF TypeOK, ReqState
    <3>2. \A p \in Proc : p # r => sync'[p] = sync[p]
      BY <2>4 DEF SyncCall, TypeOK, SeatTypeOK
    <3> QED BY <1>0, <2>1, <2>2, <3>1, <3>2 DEF SyncsInPlace, syncing, at
  <2> QED BY <1>4, <2>3, <2>4, HandlerSyncs
<1>5. ASSUME NEW p \in Proc, SyncStep(p) \/ SyncFails(p) PROVE SyncsInPlace'
  <2>1. syncing(p) /\ UNCHANGED <<req, job>> /\ \A x \in Proc : x # p => sync'[x] = sync[x]
    BY <1>5, SyncActive, SyncOthers
  <2> QED BY <1>0, <2>1 DEF SyncsInPlace, syncing, at
<1>6. CASE JobStart
  BY <1>6 DEF JobStart, SyncsInPlace, syncing, at
<1>7. CASE JobVisit
  <2>1. /\ job.on /\ job'.on = job.on /\ req' = req
        /\ \A x \in Proc : x # Job => sync'[x] = sync[x]
    BY <1>0, <1>7 DEF JobVisit, SyncCall, SyncsInPlace, TypeOK, SeatTypeOK
  <2> QED BY <1>0, <2>1 DEF SyncsInPlace, syncing, at
<1>8. CASE JobEnd
  BY <1>8 DEF JobEnd, SyncsInPlace, syncing, at, NoJob
<1>9. ASSUME NEW o, PlanChange(o) \/ WebhookArrives(o) PROVE UNCHANGED <<sync, req, job>>
  BY <1>9 DEF PlanChange, WebhookArrives, StripeSetsPlan, StripeCancels, RowFollows
<1>10. ASSUME NEW i \in Inv, Expire(i) PROVE UNCHANGED <<sync, req, job>>
  BY <1>10 DEF Expire
<1> QED BY <1>1, <1>3, <1>4, <1>5, <1>6, <1>7, <1>8, <1>9, <1>10 DEF Next, vars

LEMMA HandlerKnows ==
  ASSUME TypeOK, ForeignKey, OwnerHolds, SerialReadsFresh, ~overlapped,
         NEW r \in Request, Handler(r)
  PROVE  Knows(req[r])'
<1> DEFINE q == req[r]
<1>0. q \in ReqState /\ Shape(q) /\ Fresh(q)
  BY DEF TypeOK, SerialReadsFresh
<1>1. ASSUME Return(r) PROVE Knows(req[r])'
  BY <1>1 DEF Return, NoReq, Knows, TypeOK
<1>2. ASSUME NEW pc, Goto(r, pc), pc \notin {"deleteClan", "deleteRow", "insertSettings"}
      PROVE  Knows(req[r])'
  BY <1>0, <1>2, GotoMove DEF Knows, TypeOK, ReqState
<1>3. CASE InsertAdmin(r)
  <2>1. /\ req'[r].pc = "insertSettings" /\ req'[r].clan = q.clan /\ req'[r].owner = q.owner
    BY <1>0, <1>3, GotoMove DEF InsertAdmin, TypeOK, ReqState
  <2>2. createdBy[q.clan] \in {q.owner, Gone} /\ live(q.clan) /\ createdBy' = createdBy
    BY <1>3 DEF InsertAdmin, OwnerHolds
  <2> QED BY <2>1, <2>2, ConstantFacts DEF Knows, live
<1>4. CASE ReadTarget(r)
  <2>1. CASE ~Return(r)
    <3>1. /\ req' = [req EXCEPT ![r] = [q EXCEPT !.pc = "deleteClan", !.owner = createdBy[q.clan]]]
          /\ live(q.clan) /\ createdBy' = createdBy
      BY <1>4, <2>1 DEF ReadTarget, rows
    <3>2. req'[r].owner = createdBy[q.clan] /\ req'[r].clan = q.clan
      BY <1>0, <3>1 DEF TypeOK, ReqState
    <3> QED BY <3>1, <3>2 DEF Knows, live
  <2> QED BY <1>1, <2>1
<1>5. CASE LookupOwner(r)
  <2>1. live(q.clan)
    <3>1. q.row \in Member
      BY <1>0, <1>5 DEF LookupOwner, at, Shape, Stages, ReqState, Operation
    <3>2. isRow(q.row) /\ members[q.row].clan = q.clan
      BY <1>0, <1>5 DEF LookupOwner, at, Fresh
    <3> QED BY <3>1, <3>2 DEF ForeignKey
  <2>2. /\ req' = [req EXCEPT ![r] = [q EXCEPT !.pc = "deleteRow", !.owner = createdBy[q.clan]]]
        /\ createdBy' = createdBy
    BY <1>5, <2>1 DEF LookupOwner, rows
  <2>3. req'[r].owner = createdBy[q.clan] /\ req'[r].clan = q.clan
    BY <1>0, <2>2 DEF TypeOK, ReqState
  <2> QED BY <2>1, <2>2, <2>3 DEF Knows, live
<1>6. CASE ReadCurrent(r)
  <2>1. CASE ~Return(r)
    <3>1. PICK pc \in {"admins", "updateRole", "lookup"} :
            req' = [req EXCEPT ![r] = [q EXCEPT !.pc = pc, !.clan = members[q.row].clan]]
      BY <1>6, <2>1 DEF ReadCurrent
    <3>2. req'[r].pc = pc
      BY <1>0, <3>1 DEF TypeOK, ReqState
    <3> QED BY <3>2 DEF Knows
  <2> QED BY <1>1, <2>1
<1>7. CASE ReadInvitation(r)
  <2>1. CASE ~Return(r)
    <3>1. req' = [req EXCEPT ![r] = [q EXCEPT !.pc = "existing", !.clan = invites[q.inv].clan,
                                              !.role = invites[q.inv].role]]
      BY <1>7, <2>1 DEF ReadInvitation
    <3>2. req'[r].pc = "existing"
      BY <1>0, <3>1 DEF TypeOK, ReqState
    <3> QED BY <3>2 DEF Knows
  <2> QED BY <1>1, <2>1
<1>8. CASE ReadExisting(r)
  <2>1. CASE ~Return(r)
    <3>1. PICK pc \in {"seat", "markAccepted"} :
            req' = [req EXCEPT ![r] = [q EXCEPT !.pc = pc, !.owner = createdBy[q.clan]]]
      BY <1>8, <2>1 DEF ReadExisting
    <3>2. req'[r].pc = pc
      BY <1>0, <3>1 DEF TypeOK, ReqState
    <3> QED BY <3>2 DEF Knows
  <2> QED BY <1>1, <2>1
<1>9. CASE InsertClan(r)
  <2>1. PICK c : req' = [req EXCEPT ![r] = [q EXCEPT !.pc = "insertAdmin", !.clan = c]]
    BY <1>9 DEF InsertClan
  <2>2. req'[r].pc = "insertAdmin"
    BY <1>0, <2>1 DEF TypeOK, ReqState
  <2> QED BY <2>2 DEF Knows
<1>10. CASE RequireAdmin(r) \/ ReadAdmins(r)
  BY <1>1, <1>2, <1>10 DEF RequireAdmin, ReadAdmins
<1>11. CASE CheckSeat(r) \/ CheckTier(r) \/ CheckCount(r)
  BY <1>1, <1>2, <1>11 DEF CheckSeat, CheckTier, CheckCount, Allowed
<1>12. CASE InsertSettings(r) \/ DeleteClan(r) \/ DeleteRow(r) \/ MarkAccepted(r) \/ InsertRow(r)
  BY <1>1, <1>2, <1>12 DEF InsertSettings, DeleteClan, DeleteRow, MarkAccepted, InsertRow
<1>13. CASE UpdateRole(r) \/ InsertInvite(r) \/ Finish(r)
  BY <1>1, <1>13 DEF UpdateRole, InsertInvite, Finish
<1> QED
  BY <1>3, <1>4, <1>5, <1>6, <1>7, <1>8, <1>9, <1>10, <1>11, <1>12, <1>13 DEF Handler

LEMMA NextKnown ==
  /\ TypeOK /\ TypeOK' /\ ForeignKey /\ OwnerHolds /\ SerialReadsFresh /\ OwnerKnown /\ [Next]_vars
  => OwnerKnown'
<1> SUFFICES ASSUME TypeOK, TypeOK', ForeignKey, OwnerHolds, SerialReadsFresh, OwnerKnown,
                    [Next]_vars, ~overlapped', NEW s \in Request
             PROVE  Knows(req[s])'
  BY DEF OwnerKnown
<1>0. ~overlapped /\ Knows(req[s])
  BY HistoryGrows DEF OwnerKnown
<1>1. ASSUME NEW r \in Request, Handler(r) PROVE Knows(req[s])'
  <2>1. CASE s = r
    BY <1>0, <1>1, <2>1, HandlerKnows
  <2>2. CASE s # r
    <3>1. req'[s] = req[s] /\ req[s].pc = "idle"
      BY <1>0, <1>1, <2>2, OthersStay, HandlerActive DEF SerialReadsFresh, active
    <3> QED BY <3>1 DEF Knows
  <2> QED BY <2>1, <2>2
<1>2. ASSUME UNCHANGED <<createdBy, members>> PROVE Knows(req[s])'
  <2>1. CASE UNCHANGED <<req, overlapped>>
    BY <1>0, <1>2, <2>1 DEF Knows
  <2>2. ASSUME NEW r \in Request, Arrive(r) \/ Fail(r) PROVE Knows(req[s])'
    <3>1. CASE s # r
      BY <1>0, <1>2, <2>2, <3>1, OthersStay DEF Knows
    <3>2. CASE s = r /\ Arrive(r)
      <4>1. req'[r].pc \in {"seat", "role", "invitation"}
        <5>1. ASSUME NEW q, Start(r, q), q.pc \in {"seat", "role", "invitation"}
              PROVE  req'[r].pc \in {"seat", "role", "invitation"}
          BY <5>1 DEF Start, TypeOK
        <5> QED BY <3>2, <5>1 DEF Arrive, StartCreate, StartOnClan, StartPatch, StartRemove,
                                  StartAccept, NoReq
      <4> QED BY <3>2, <4>1 DEF Knows
    <3>3. CASE s = r /\ Fail(r)
      <4>1. req'[r].pc = "idle"
        BY <3>3 DEF Fail, Return, NoReq, TypeOK
      <4> QED BY <3>3, <4>1 DEF Knows
    <3> QED BY <2>2, <3>1, <3>2, <3>3
  <2> QED BY <1>1, <2>1, <2>2, RequestSteps
<1> QED BY <1>1, <1>2, QuietSteps

-----------------------------------------------------------------------------
(* A sync bills.                                                            *)

\* What a sync's step makes of its owner's bill and of the others'.
LEMMA SyncBills ==
  ASSUME TypeOK, PricesTell, SyncOnSeatPrice, NEW p \in Proc, SyncStep(p), Counted(p),
         NEW o \in User
  PROVE  /\ Counted(p)'
         /\ o \in Owner /\ Billed(o, countOwnedSeats(o)) => Billed(o, countOwnedSeats(o))'
         /\ o \in Owner /\ sync[p].owner = o => \/ syncing(p)' /\ sync'[p].owner = o
                                 \/ Billed(o, countOwnedSeats(o))'
<1> DEFINE s == sync[p]
<1>0. /\ s \in SyncState /\ o \in User
      /\ \A w : countOwnedSeats(w)' = countOwnedSeats(w) /\ countOwnedSeats(w) \in Nat
  <2>1. UNCHANGED <<createdBy, members>>
    BY SyncOthers DEF rows
  <2>2. \A w : countOwnedSeats(w)' = countOwnedSeats(w)
    BY <2>1 DEF countOwnedSeats, SeatSet, RowsOf, isRow
  <2>3. \A w : countOwnedSeats(w) \in Nat
    BY CountType
  <2> QED BY <2>2, <2>3, ConstantFacts DEF TypeOK, SeatTypeOK
<1>1. CASE SyncReadSub(p)
  <2>1. UNCHANGED <<sub, items>>
    BY <1>1 DEF SyncReadSub
  <2>2. CASE Syncable(sub[s.owner])
    <3>1. sync'[p] = [s EXCEPT !.at = "count", !.price = sub[s.owner].price]
      BY <1>1, <2>2 DEF SyncReadSub, TypeOK, SeatTypeOK
    <3>2. sync'[p].at = "count" /\ sync'[p].owner = s.owner
      BY <1>0, <3>1 DEF SyncState
    <3> QED BY <1>0, <2>1, <3>2 DEF Counted, Billed, syncing
  <2>3. CASE ~Syncable(sub[s.owner])
    <3>1. sync'[p].at = "idle"
      BY <1>1, <2>3 DEF SyncReadSub, TypeOK, SeatTypeOK, Idle
    <3>2. o \in Owner /\ s.owner = o => Billed(o, countOwnedSeats(o))
      BY <1>0, <2>3, SeatSyncConstants
      DEF Syncable, Billed, BilledBy, PricesTell, isPerSeatPriceId
    <3> QED BY <1>0, <2>1, <3>1, <3>2 DEF Counted, Billed, syncing
  <2> QED BY <2>2, <2>3
<1>2. CASE SyncCount(p, countOwnedSeats(s.owner))
  <2>1. UNCHANGED <<sub, items>>
    BY <1>2 DEF SyncCount
  <2>2. /\ sync'[p].at = "retrieve" /\ sync'[p].owner = s.owner
        /\ sync'[p].qty = billableSeats(countOwnedSeats(s.owner))
    BY <1>0, <1>2 DEF SyncCount, TypeOK, SeatTypeOK, SyncState
  <2> QED BY <1>0, <2>1, <2>2 DEF Counted, Billed, syncing
<1>3. CASE SyncRetrieve(p)
  <2> DEFINE base == baseItem(items[s.owner], s.price)
  <2>1. /\ UNCHANGED <<sub, items>> /\ s.at = "retrieve" /\ s.price \in PerSeatPrice
        /\ s.qty = billableSeats(countOwnedSeats(s.owner))
    BY <1>3 DEF SyncRetrieve, SyncOnSeatPrice, Counted
  <2>2. \A i \in base : i \in Item /\ items[s.owner][i].price \in PerSeatPrice
    BY <2>1 DEF baseItem
  <2>3. s.owner \in Owner => \A i \in base : i = "base"
    BY <2>2 DEF PricesTell, Item
  <2>4. CASE base = {} /\ sync' = [sync EXCEPT ![p] = Idle]
    <3>1. sync'[p].at = "idle"
      BY <2>4 DEF TypeOK, SeatTypeOK, Idle
    <3>2. items[s.owner]["base"].price \notin PerSeatPrice
      BY <2>4 DEF baseItem, Item
    <3>3. o \in Owner /\ s.owner = o => Billed(o, countOwnedSeats(o))
      BY <3>2 DEF Billed, BilledBy
    <3> QED BY <1>0, <2>1, <3>1, <3>3 DEF Counted, Billed, syncing
  <2>5. ASSUME NEW i \in base, items[s.owner][i].qty = s.qty, sync' = [sync EXCEPT ![p] = Idle]
        PROVE  /\ Counted(p)'
               /\ o \in Owner /\ Billed(o, countOwnedSeats(o)) => Billed(o, countOwnedSeats(o))'
               /\ o \in Owner /\ sync[p].owner = o => Billed(o, countOwnedSeats(o))'
    <3>1. sync'[p].at = "idle"
      BY <2>5 DEF TypeOK, SeatTypeOK, Idle
    <3>2. o \in Owner /\ s.owner = o => Billed(o, countOwnedSeats(o))
      BY <1>0, <2>1, <2>3, <2>5 DEF Billed, BilledBy, billableSeats
    <3> QED BY <1>0, <2>1, <3>1, <3>2 DEF Counted, Billed
  <2>6. ASSUME NEW i \in base, sync' = [sync EXCEPT ![p] = [s EXCEPT !.at = "update", !.item = i]]
        PROVE  /\ Counted(p)'
               /\ o \in Owner /\ Billed(o, countOwnedSeats(o)) => Billed(o, countOwnedSeats(o))'
               /\ o \in Owner /\ sync[p].owner = o => syncing(p)' /\ sync'[p].owner = o
    <3>1. /\ sync'[p].at = "update" /\ sync'[p].owner = s.owner /\ sync'[p].qty = s.qty
          /\ sync'[p].item = i
      BY <1>0, <2>6 DEF TypeOK, SeatTypeOK, SyncState
    <3> QED BY <1>0, <2>1, <2>3, <3>1 DEF Counted, Billed, syncing
  <2> HIDE DEF base
  <2>7. \/ base = {} /\ sync' = [sync EXCEPT ![p] = Idle]
        \/ \E i \in base : \/ items[s.owner][i].qty = s.qty /\ sync' = [sync EXCEPT ![p] = Idle]
                           \/ sync' = [sync EXCEPT ![p] = [s EXCEPT !.at = "update", !.item = i]]
    BY <1>3 DEF SyncRetrieve, base, TypeOK, SeatTypeOK
  <2> QED BY <2>4, <2>5, <2>6, <2>7
<1>4. CASE SyncUpdate(p)
  <2>1. /\ s.at = "update" /\ s.qty = billableSeats(countOwnedSeats(s.owner))
        /\ s.owner \in Owner => s.item = "base"
        /\ s.owner \in User /\ s.item \in Item
    BY <1>4 DEF SyncUpdate, Counted, TypeOK, SeatTypeOK
  <2>2. /\ sub' = sub /\ sync'[p].at = "idle"
        /\ items' = [items EXCEPT ![s.owner][s.item].qty = s.qty]
    BY <1>4 DEF SyncUpdate, TypeOK, SeatTypeOK, Idle
  <2>3. CASE o # s.owner
    <3>1. items'[o] = items[o]
      BY <1>0, <2>1, <2>2, <2>3 DEF TypeOK, SeatTypeOK
    <3> QED BY <1>0, <2>2, <2>3, <3>1 DEF Counted, Billed
  <2>4. CASE o = s.owner /\ o \in Owner
    <3>1. items'[o]["base"].qty = billableSeats(countOwnedSeats(o))
      BY <1>0, <2>1, <2>2, <2>4 DEF TypeOK, SeatTypeOK, StripeItem
    <3>2. Billed(o, countOwnedSeats(o))'
      BY <1>0, <3>1 DEF Billed, BilledBy, billableSeats
    <3> QED BY <2>2, <3>2 DEF Counted
  <2>5. CASE o \notin Owner
    BY <2>2, <2>5 DEF Counted
  <2> QED BY <2>3, <2>4, <2>5
<1> QED BY <1>1, <1>2, <1>3, <1>4 DEF SyncStep

-----------------------------------------------------------------------------
(* What is due.                                                             *)

\* With nobody at work, or one request that has not changed a seat, all is billed.
LEMMA NothingDue ==
  ASSUME SyncsInPlace, BillsDue, ~overlapped, ~drift,
         \A r \in Request : req[r].pc \notin {"insertSettings", "markAccepted", "sync"}
  PROVE  \A o \in Owner : Billed(o, countOwnedSeats(o))
BY DEF BillsDue, SyncsInPlace, Owes, at

LEMMA SameBills ==
  ASSUME NEW o, UNCHANGED <<sub, items>>, countOwnedSeats(o)' = countOwnedSeats(o),
         Billed(o, countOwnedSeats(o))
  PROVE  Billed(o, countOwnedSeats(o))'
BY DEF Billed

LEMMA SameCounts ==
  ASSUME UNCHANGED <<createdBy, members>>
  PROVE  \A o : countOwnedSeats(o)' = countOwnedSeats(o)
BY DEF countOwnedSeats, SeatSet, RowsOf, isRow

LEMMA HandlerDue ==
  ASSUME TypeOK, TypeOK', ForeignKey, OwnerHolds, SerialReadsFresh, SyncsInPlace, OwnerKnown,
         BillsDue, ~overlapped, ~drift, NEW r \in Request, Handler(r)
  PROVE  /\ job'.on => \A s \in Request : ~active(s)'
         /\ \A p \in Proc : Counted(p)'
         /\ \A o \in Owner : \/ Billed(o, countOwnedSeats(o))'
                             \/ \E s \in Request : Owes(s, o)'
<1> DEFINE q == req[r]
<1>0. /\ q \in ReqState /\ Shape(q) /\ Knows(q) /\ active(r) /\ ~job.on
      /\ Owner \subseteq User /\ Proc = Request \cup {Job}
      /\ \A s \in Request : s # r => req[s].pc = "idle"
      /\ UNCHANGED <<sub, items, job>>
  BY HandlerActive, HandlerSyncs, ConstantFacts
  DEF TypeOK, OwnerKnown, SerialReadsFresh, BillsDue, active
<1>1. \A p \in Proc : p # r => ~syncing(p)
  BY <1>0 DEF SyncsInPlace, at
<1>2. CASE at(r, "sync")
  <2>1. UNCHANGED <<sync, createdBy, members>> /\ ~syncing(r)
    BY <1>2, HandlerSyncs, GotoMove
  <2>2. \A o \in Owner : ~Owes(r, o)
    BY <1>2, <2>1 DEF Owes, at
  <2>3. \A o \in Owner, s \in Request : ~Owes(s, o)
    BY <1>0, <1>1, <2>2 DEF Owes
  <2>4. \A o \in Owner : Billed(o, countOwnedSeats(o))
    BY <2>3 DEF BillsDue
  <2>5. \A o \in Owner : Billed(o, countOwnedSeats(o))'
    BY <1>0, <2>1, <2>4, SameBills, SameCounts
  <2>6. \A p \in Proc : Counted(p)'
    BY <1>1, <2>1 DEF Counted, syncing
  <2> QED BY <1>0, <2>5, <2>6
<1>3. CASE ~at(r, "sync")
  <2>1. \A p \in Proc : ~syncing(p)
    BY <1>1, <1>3 DEF SyncsInPlace
  <2>2. ASSUME NEW o \in Owner, o # q.owner \/ q.pc \notin {"insertSettings", "markAccepted"}
        PROVE  Billed(o, countOwnedSeats(o))
    <3>1. \A s \in Request : ~Owes(s, o)
      BY <1>0, <2>1, <2>2, ConstantFacts DEF Owes
    <3> QED BY <3>1 DEF BillsDue
  <2>3. \A p \in Proc : Counted(p)'
    <3>0. UNCHANGED sync \/ at(r, "sync") \/ SyncCall(r, req[r].owner)
      BY ONLY TypeOK, r \in Request, Handler(r), HandlerSyncs
    <3>1. UNCHANGED sync \/ SyncCall(r, req[r].owner)
      BY <1>3, <3>0, ZenonT(60)
    <3>2. \A p \in Proc : sync'[p].at \in {"idle", "sub"}
      <4>1. sync \in [Proc -> SyncState]
        BY DEF TypeOK, SeatTypeOK
      <4>2. \A p \in Proc : sync[p].at = "idle"
        BY <2>1 DEF syncing
      <4>3. ASSUME SyncCall(r, req[r].owner)
            PROVE  \A p \in Proc : sync'[p].at \in {"idle", "sub"}
        BY <4>1, <4>2, <4>3 DEF SyncCall, Idle
      <4> QED BY <3>1, <4>2, <4>3
    <3> QED BY <3>2 DEF Counted
  <2>4. ASSUME NEW o \in Owner PROVE Billed(o, countOwnedSeats(o))' \/ Owes(r, o)'
    <3>1. ASSUME o # q.owner PROVE Billed(o, countOwnedSeats(o))'
      BY <1>0, <2>2, <3>1, OnlyTheOwners, SameBills
    <3>2. CASE o = q.owner /\ SyncCall(r, q.owner)
      <4>1. sync'[r].at = "sub" /\ sync'[r].owner = o
        BY <1>0, <3>2 DEF SyncCall, Idle, TypeOK, SeatTypeOK
      <4> QED BY <4>1 DEF Owes, syncing
    <3>3. CASE o = q.owner /\ InsertAdmin(r)
      <4>1. req'[r].pc = "insertSettings" /\ req'[r].owner = o
        BY <1>0, <3>3, GotoMove DEF InsertAdmin, TypeOK, ReqState
      <4> QED BY <4>1 DEF Owes
    <3>4. CASE o = q.owner /\ InsertRow(r) /\ live(q.clan)
      <4>1. Goto(r, "markAccepted")
        BY <3>4 DEF InsertRow
      <4>2. req'[r].pc = "markAccepted" /\ req'[r].owner = o
        BY <1>0, <3>4, <4>1, GotoMove DEF TypeOK, ReqState
      <4> QED BY <4>2 DEF Owes
    <3>5. CASE InsertRow(r) /\ ~live(q.clan)
      <4>1. q.pc = "insertRow" /\ UNCHANGED <<createdBy, members>>
        BY <3>5 DEF InsertRow, at
      <4> QED BY <1>0, <2>2, <4>1, SameBills, SameCounts
    <3>6. CASE /\ ~InsertAdmin(r) /\ ~InsertRow(r) /\ ~DeleteClan(r) /\ ~DeleteRow(r)
               /\ q.pc \notin {"insertSettings", "markAccepted"}
      BY <1>0, <2>2, <3>6, OnlyTheOwners, SameBills
    <3>7. CASE DeleteClan(r) \/ MarkAccepted(r)
      BY <3>1, <3>2, <3>7 DEF DeleteClan, MarkAccepted
    <3>8. CASE DeleteRow(r)
      <4>1. q.owner # None
        BY <1>0, <3>8, ConstantFacts DEF DeleteRow, at, Knows
      <4> QED BY <3>1, <3>2, <3>8, <4>1 DEF DeleteRow
    <3>9. CASE InsertSettings(r)
      <4>1. live(q.clan)
        BY <1>0, <3>9 DEF InsertSettings, at, Knows, live
      <4> QED BY <3>1, <3>2, <3>9, <4>1 DEF InsertSettings
    <3>10. q.pc \in {"insertSettings", "markAccepted"} => InsertSettings(r) \/ MarkAccepted(r)
      BY DEF Handler, RequireAdmin, CheckSeat, CheckTier, CheckCount, InsertClan,
       InsertAdmin, ReadTarget, DeleteClan, ReadCurrent, ReadAdmins,
       UpdateRole, LookupOwner, DeleteRow, InsertInvite, ReadInvitation, ReadExisting,
       InsertRow, Finish, at
    <3> QED BY <3>1, <3>3, <3>4, <3>5, <3>6, <3>7, <3>8, <3>9, <3>10
  <2> QED BY <1>0, <2>3, <2>4
<1> QED BY <1>2, <1>3

LEMMA NextDue ==
  /\ TypeOK /\ TypeOK' /\ ForeignKey /\ OwnerHolds /\ SerialReadsFresh /\ SyncOnSeatPrice
  /\ BillInv /\ [Next]_vars
  => BillsDue'
<1> SUFFICES ASSUME TypeOK, TypeOK', ForeignKey, OwnerHolds, SerialReadsFresh, SyncOnSeatPrice,
                    BillInv, [Next]_vars, ~overlapped', ~drift'
             PROVE  /\ job'.on => \A s \in Request : ~active(s)'
                    /\ \A p \in Proc : Counted(p)'
                    /\ \A o \in Owner : \/ Billed(o, countOwnedSeats(o))'
                                        \/ \E s \in Request : Owes(s, o)'
  BY DEF BillsDue
<1> DEFINE Goal == /\ job'.on => \A s \in Request : ~active(s)'
                   /\ \A p \in Proc : Counted(p)'
                   /\ \A o \in Owner : \/ Billed(o, countOwnedSeats(o))'
                                       \/ \E s \in Request : Owes(s, o)'
<1>0. /\ ~overlapped /\ ~drift /\ PricesTell /\ SyncsInPlace /\ OwnerKnown /\ BillsDue
      /\ job.on => \A s \in Request : ~active(s)
      /\ \A p \in Proc : Counted(p)
      /\ \A o \in Owner : Billed(o, countOwnedSeats(o)) \/ \E s \in Request : Owes(s, o)
      /\ Job \in Proc /\ Job \notin Request /\ Request \subseteq Proc
  BY HistoryGrows, ConstantFacts DEF BillInv, BillsDue
<1>1. ASSUME NEW r \in Request, Handler(r) PROVE Goal
  BY <1>0, <1>1, HandlerDue
<1>2. ASSUME UNCHANGED <<sub, items, createdBy, members, sync>> PROVE \A p \in Proc : Counted(p)'
  BY <1>0, <1>2, SameCounts DEF Counted
<1>3. ASSUME \A s \in Request : ~active(s), UNCHANGED <<sub, items, createdBy, members>>
      PROVE  \A o \in Owner : Billed(o, countOwnedSeats(o))'
  BY <1>0, <1>3, NothingDue, SameBills, SameCounts DEF active
<1>4. ASSUME NEW r \in Request, Arrive(r) PROVE Goal
  <2>1. /\ UNCHANGED <<sub, items, createdBy, members, sync, job>>
        /\ ~job.on
    BY <1>4 DEF Arrive, StartCreate, StartOnClan, StartPatch, StartRemove, StartAccept, Start, rows
  <2>2. \A s \in Request : ~active(s)
    BY <1>4, ArriveFresh
  <2> QED BY <1>2, <1>3, <2>1, <2>2
<1>5. ASSUME NEW r \in Request, Fail(r) PROVE FALSE
  BY <1>5 DEF Fail
<1>6. ASSUME NEW p \in Proc, SyncFails(p) PROVE FALSE
  BY <1>6 DEF SyncFails
<1>7. ASSUME NEW p \in Proc, SyncStep(p) PROVE Goal
  <2>1. UNCHANGED <<req, job, createdBy, members>> /\ \A x \in Proc : x # p => sync'[x] = sync[x]
    BY <1>7, SyncOthers DEF rows
  <2>2. \A x \in Proc : Counted(x)'
    <3>1. \A x \in Proc : x # p => Counted(x)'
      BY <1>0, <2>1, SameCounts DEF Counted
    <3>2. Counted(p)'
      <4>1. sync[p].owner \in User
        BY <1>7, SyncActive DEF syncing, TypeOK, SeatTypeOK
      <4> QED BY <1>0, <1>7, <4>1, SyncBills
    <3> QED BY <3>1, <3>2
  <2>3. ASSUME NEW o \in Owner
        PROVE  Billed(o, countOwnedSeats(o))' \/ \E s \in Request : Owes(s, o)'
    <3>1. CASE Billed(o, countOwnedSeats(o))
      BY <1>0, <1>7, <3>1, SyncBills, ConstantFacts
    <3>2. ASSUME NEW s \in Request, Owes(s, o), s # p \/ ~syncing(s) \/ sync[s].owner # o
          PROVE  Owes(s, o)'
      BY <1>0, <2>1, <3>2 DEF Owes, syncing
    <3>3. ASSUME p \in Request, syncing(p), sync[p].owner = o
          PROVE  Billed(o, countOwnedSeats(o))' \/ Owes(p, o)'
      BY <1>0, <1>7, <3>3, SyncBills, ConstantFacts DEF Owes
    <3> QED BY <1>0, <3>1, <3>2, <3>3
  <2> QED BY <1>0, <2>1, <2>2, <2>3 DEF active
<1>8. CASE JobStart
  <2>1. /\ UNCHANGED <<sub, items, createdBy, members, sync, req>>
        /\ \A s \in Request : ~active(s)
    BY <1>8 DEF JobStart, rows
  <2> QED BY <1>2, <1>3, <2>1 DEF active
<1>9. CASE JobVisit
  <2>1. /\ UNCHANGED <<sub, items, createdBy, members, req>> /\ job'.on = job.on
        /\ job.on /\ \E o \in Owner : SyncCall(Job, o)
    BY <1>0, <1>9 DEF JobVisit, rows, SyncsInPlace, TypeOK
  <2>2. \A p \in Proc : sync'[p] = sync[p] \/ sync'[p].at = "sub"
    BY <1>0, <2>1 DEF SyncCall, Idle, TypeOK, SeatTypeOK
  <2>3. \A p \in Proc : Counted(p)'
    BY <1>0, <2>1, <2>2, SameCounts DEF Counted
  <2> QED BY <1>0, <1>3, <2>1, <2>3 DEF active
<1>10. CASE JobEnd
  <2>1. UNCHANGED <<sub, items, createdBy, members, sync, req>> /\ job.on /\ ~job'.on
    BY <1>10 DEF JobEnd, NoJob, rows
  <2> QED BY <1>0, <1>2, <1>3, <2>1
<1>11. ASSUME NEW i \in Inv, Expire(i) PROVE Goal
  <2>1. UNCHANGED <<sub, items, createdBy, members, sync, req, job>>
    BY <1>11 DEF Expire
  <2> QED BY <1>0, <2>1, SameCounts DEF Counted, Billed, Owes, syncing, active
<1>12. ASSUME NEW o \in Owner \ FreeOwner, PlanChange(o) \/ WebhookArrives(o) PROVE FALSE
  BY <1>12 DEF PlanChange, WebhookArrives
<1>13. CASE UNCHANGED vars
  <2>1. UNCHANGED <<sub, items, createdBy, members, sync, req, job>>
    BY <1>13 DEF vars, rows
  <2> QED BY <1>0, <2>1, SameCounts DEF Counted, Billed, Owes, syncing, active
<1> QED
  BY <1>1, <1>4, <1>5, <1>6, <1>7, <1>8, <1>9, <1>10, <1>11, <1>12, <1>13 DEF Next

LEMMA InitBills == Init => BillInv
<1> SUFFICES ASSUME Init PROVE BillInv
  OBVIOUS
<1>1. PICK plan \in SeedPlans : sub = plan.sub /\ items = plan.items
  BY DEF Init
<1>2. SyncsInPlace /\ OwnerKnown
  BY ConstantFacts DEF Init, SyncsInPlace, OwnerKnown, Knows, syncing, Idle, NoReq, NoJob
<1>3. PricesTell
  BY <1>1, SeedIsBilled DEF PricesTell
<1>4. ASSUME NEW o \in Owner PROVE Billed(o, countOwnedSeats(o))
  <2>1. ASSUME NEW u \in User
        PROVE  (\E c \in Clan : createdBy[c] = o /\ RowsOf(c, u) # {})
               <=> \E m \in Member : /\ SeedMembers[m] # None /\ SeedMembers[m].user = u
                                     /\ SeedClans[SeedMembers[m].clan] = o
    <3>1. \A m \in Member : /\ isRow(m) <=> SeedMembers[m] # None
                            /\ SeedMembers[m] # None => SeedMembers[m].clan \in Clan
                            /\ members[m] = SeedMembers[m]
      BY SeedIsSound, ConstantFacts DEF Init, isRow, MemberRow
    <3> QED BY <3>1 DEF RowsOf, Init
  <2>2. SeatSet(o) = SeedSeats(o)
    BY <2>1 DEF SeatSet, SeedSeats
  <2> QED BY <1>1, <2>2, SeedIsBilled DEF Billed, countOwnedSeats
<1>5. job.on = FALSE /\ \A p \in Proc : Counted(p)
  BY DEF Init, NoJob, Counted, Idle
<1> QED BY <1>2, <1>3, <1>4, <1>5 DEF BillInv, BillsDue

\* Between requests that neither overlapped nor failed every per-seat owner is
\* billed for the people there are: whoever changes the seats syncs them, with the
\* count of then, before the next one comes.
THEOREM BilledWhenQuiet == Spec => []QuiescentBilled
<1>1. Init => BillInv /\ ForeignKey /\ OwnerHolds /\ SyncOnSeatPrice
  BY InitBills, InitKey, InitCap, IdleType DEF Init, SyncOnSeatPrice
<1>2. /\ TypeOK /\ TypeOK' /\ SerialReadsFresh /\ [Next]_vars
      /\ BillInv /\ ForeignKey /\ OwnerHolds /\ SyncOnSeatPrice
      => BillInv' /\ ForeignKey' /\ OwnerHolds' /\ SyncOnSeatPrice'
  BY NextPrices, NextPlaces, NextKnown, NextDue, NextKey, NextOwner, NextSeatPrice DEF BillInv
<1>3. BillInv => QuiescentBilled
  <2> SUFFICES ASSUME BillInv, ~overlapped, ~drift, \A r \in Request : ~active(r)
               PROVE  \A o \in Owner : Billed(o, countOwnedSeats(o))
    BY DEF QuiescentBilled
  <2> QED BY NothingDue DEF BillInv, active
<1> QED BY <1>1, <1>2, <1>3, TypeCorrect, ReadsStayFresh, PTL DEF Spec
=============================================================================
