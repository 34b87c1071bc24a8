------------------------------- MODULE Clans -------------------------------
(***************************************************************************)
(* Clans: their members, roles and invitations, and the seats they cost    *)
(* their owner (backend/src/routes/clans/index.ts, routes/invitations/     *)
(* clans.ts, middleware/require-clan-role.ts and the seat checks of        *)
(* services/seat-billing.service.ts).                                      *)
(*                                                                         *)
(* No handler here runs in a database transaction: each await is a point   *)
(* where the other requests run.  A request slot r holds at req[r] the     *)
(* await it is at and what it has read so far; each action below is what   *)
(* happens between two awaits.  Reads of columns no handler ever writes    *)
(* (clans.created_by, clans.is_personal, profiles.email, the body of an    *)
(* invitation) are folded into the step next to them.                      *)
(*                                                                         *)
(* Rows get fresh UUIDs, so a deleted id is Gone and never used again.     *)
(***************************************************************************)
EXTENDS SeatSync

CONSTANTS
  Owner,        \* users whose clans are in view
  FreeOwner,    \* owners who never subscribe
  Clan, Member, Inv, Request,   \* ids of clans, clan_members rows,
                                \* invitations, and request slots
  Job,          \* the reconcile-seats CronJob
  Personal,     \* Personal[o]: the clan provisioned with o's profile
  SeedClans,    \* clans earlier requests left behind: clan -> owner
  SeedMembers,  \* and their members: row id -> row
  SeedPlans,    \* and their subscriptions, each [sub, items]: any of these
  SeedInvites,  \* and their open invitations
  Caller,       \* users who call the endpoints of a clan's admins
  InviteRole,   \* roles the model invites and promotes with
  Cap,          \* FREE_SEAT_CAP
  Gone,         \* an id whose row was deleted
  MaxRequests,  \* bound: requests ever started
  MaxPlanChanges, \* bound: changes made at Stripe
  Ops           \* what happens in this instance

Role == {"admin", "member", "reader"}

MemberRow == [clan: Clan, user: User, role: Role]

Invitation == [clan: Clan, user: User, role: Role, accepted: BOOLEAN, expired: BOOLEAN]

\* The endpoints, and the clock that expires invitations.
Operation == {"create", "delete", "invite", "accept", "patch", "remove", "expire"}

VARIABLES
  createdBy,   \* the clans table: owner of a live clan, None before, Gone after
  settings,    \* clans that have their clan_settings row
  members,     \* the clan_members table
  invites,     \* the clan_invitations table
  req,         \* the requests being served
  job,         \* whether the reconcile job runs, and the owners it has to visit
  started,     \* requests started so far
  planChanges, \* changes made at Stripe so far
  overlapped,  \* history: two requests have been in flight together
  drift        \* history: a step failed, Stripe changed, or the job overlapped

rows == <<createdBy, settings, members, invites>>
history == <<started, planChanges, overlapped, drift>>
vars == <<sub, items, sync, rows, req, job, history>>

live(c) == createdBy[c] \in User

isRow(m) == members[m] \notin {None, Gone}

\* The ids whose rows satisfy "clan_id = c AND user_id = u".
RowsOf(c, u) == {m \in Member : isRow(m) /\ members[m].clan = c /\ members[m].user = u}

AdminsOf(c) == {m \in Member : isRow(m) /\ members[m].clan = c /\ members[m].role = "admin"}

\* countOwnedSeats counts distinct people over the clans o created.
SeatSet(o) == {u \in User : \E c \in Clan : createdBy[c] = o /\ RowsOf(c, u) # {}}

countOwnedSeats(o) == Cardinality(SeatSet(o))

NoReq == [pc |-> "idle", op |-> "create", user |-> None, clan |-> None,
          row |-> None, role |-> "member", inv |-> None, owner |-> None]

NoJob == [on |-> FALSE, todo |-> {}]

ReqState ==
  [pc: {"idle", "role", "target", "deleteClan", "insertInvite", "invitation",
        "existing", "seat", "tier", "count", "insertClan", "insertAdmin",
        "insertSettings", "insertRow", "markAccepted", "current", "admins",
        "updateRole", "lookup", "deleteRow", "sync"},
   op: Operation, user: User \cup {None}, clan: Clan \cup {None},
   row: Member \cup {None}, role: Role, inv: Inv \cup {None},
   owner: User \cup {None}]

\* The awaits of each endpoint.
Stages(op) ==
  CASE op = "create" -> {"seat", "tier", "count", "insertClan", "insertAdmin",
                         "insertSettings", "sync"}
    [] op = "delete" -> {"role", "target", "deleteClan", "sync"}
    [] op = "invite" -> {"role", "insertInvite"}
    [] op = "patch"  -> {"role", "current", "admins", "updateRole"}
    [] op = "remove" -> {"role", "current", "admins", "lookup", "deleteRow", "sync"}
    [] op = "accept" -> {"invitation", "existing", "seat", "tier", "count",
                         "insertRow", "markAccepted", "sync"}
    [] OTHER         -> {}

\* What a request has read by the time it reaches an await.
Shape(q) ==
  q.pc # "idle" =>
    /\ q.pc \in Stages(q.op)
    /\ q.user \in User
    /\ q.op \in {"patch", "remove"} => q.row \in Member
    /\ q.op = "accept" => q.inv \in Inv
    /\ q.op # "create" /\ q.pc # "invitation" => q.clan \in Clan
    /\ q.pc \in {"insertAdmin", "insertSettings"} => q.clan \in Clan
    /\ q.op \in {"create", "accept"} /\ q.pc \notin {"invitation", "existing"} => q.owner \in User
    /\ q.pc = "deleteClan" => q.owner \in User
    /\ q.op = "create" => q.owner = q.user

TypeOK ==
  /\ SeatTypeOK
  /\ createdBy \in [Clan -> User \cup {None, Gone}]
  /\ settings \subseteq Clan
  /\ members \in [Member -> MemberRow \cup {None, Gone}]
  /\ invites \in [Inv -> Invitation \cup {None, Gone}]
  /\ req \in [Request -> ReqState] /\ \A r \in Request : Shape(req[r])
  /\ job \in [on: BOOLEAN, todo: SUBSET Owner]
  /\ started \in Nat /\ planChanges \in Nat
  /\ overlapped \in BOOLEAN /\ drift \in BOOLEAN

ASSUME ClansConstants ==
  /\ FreeOwner \subseteq Owner /\ Owner \subseteq User
  /\ IsFiniteSet(User) /\ IsFiniteSet(Request) /\ Request # {}
  /\ Proc = Request \cup {Job} /\ Job \notin Request
  /\ None \notin Clan \cup Member \cup Inv
  /\ Gone \notin User \cup {None}
  /\ None \notin MemberRow \cup Invitation /\ Gone \notin MemberRow \cup Invitation
  /\ Personal \in [Owner -> Clan]
  /\ InviteRole \subseteq Role /\ Caller \subseteq User
  /\ Cap \in Nat \ {0} /\ MaxRequests \in Nat /\ MaxPlanChanges \in Nat
  /\ Ops \subseteq Operation

SeedSeats(o) ==
  {u \in User : \E m \in Member :
     /\ SeedMembers[m] # None /\ SeedMembers[m].user = u
     /\ SeedClans[SeedMembers[m].clan] = o}

\* Earlier requests left clans that have an admin and list nobody twice, and
\* owners who are within their plan and billed for their seats.
ASSUME SeedIsSound ==
  /\ SeedClans \in [Clan -> User \cup {None}]
  /\ \A o \in Owner : SeedClans[Personal[o]] = o
  /\ SeedMembers \in [Member -> MemberRow \cup {None}]
  /\ SeedInvites \in [Inv -> Invitation \cup {None}]
  /\ SeedPlans \subseteq [sub: [User -> SubRow], items: [User -> [Item -> StripeItem]]]
  /\ \A m \in Member : SeedMembers[m] # None => SeedClans[SeedMembers[m].clan] # None
  /\ \A m, n \in Member :
       /\ SeedMembers[m] # None /\ SeedMembers[n] # None
       /\ SeedMembers[m].clan = SeedMembers[n].clan
       /\ SeedMembers[m].user = SeedMembers[n].user
       => m = n
  /\ \A c \in Clan : SeedClans[c] # None =>
       \E m \in Member : SeedMembers[m] # None /\ SeedMembers[m].clan = c
                         /\ SeedMembers[m].role = "admin"
  /\ \A o \in FreeOwner :
       /\ \A plan \in SeedPlans : plan.sub[o].tier = "free"
       /\ Cardinality(SeedSeats(o)) <= Cap

\* A price sold now is of a paid plan, the old overage line was never sold so.
ASSUME SeedIsBilled ==
  \A plan \in SeedPlans, o \in Owner :
    /\ plan.sub[o].price \in PerSeatPrice => isPerSeat(plan.sub[o].tier)
    /\ plan.items[o]["extra"].price \notin PerSeatPrice
    /\ BilledBy(plan.sub[o], plan.items[o], Cardinality(SeedSeats(o)))

Init ==
  /\ \E plan \in SeedPlans : sub = plan.sub /\ items = plan.items
  /\ sync = [p \in Proc |-> Idle]
  /\ createdBy = SeedClans
  /\ settings = {c \in Clan : SeedClans[c] # None}
  /\ members = SeedMembers
  /\ invites = SeedInvites
  /\ req = [r \in Request |-> NoReq]
  /\ job = NoJob
  /\ started = 0 /\ planChanges = 0
  /\ overlapped = FALSE /\ drift = FALSE

-----------------------------------------------------------------------------
(* Requests.                                                                *)

active(r) == req[r].pc # "idle"

at(r, pc) == req[r].pc = pc

Goto(r, pc) == req' = [req EXCEPT ![r].pc = pc]

\* The handler answers, with a result or with an AppError.
Return(r) == req' = [req EXCEPT ![r] = NoReq]

\* A call arrives.  The handler has done nothing yet.
Start(r, call) ==
  /\ ~active(r)
  /\ started < MaxRequests
  /\ call.op \in Ops
  /\ req' = [req EXCEPT ![r] = call]
  /\ started' = started + 1
  /\ overlapped' = (overlapped \/ \E s \in Request : active(s))
  /\ drift' = (drift \/ job.on)
  /\ UNCHANGED <<sub, items, sync, rows, job, planChanges>>

\* Bound: a create is let in only while an id is left for its clan.
StartCreate(r) == \E u \in Owner \cap Caller :
  /\ \E c \in Clan : createdBy[c] = None
  /\ \A s \in Request : req[s].op = "create" => req[s].pc \notin {"seat", "tier", "count", "insertClan"}
  /\ Start(r, [NoReq EXCEPT !.pc = "seat", !.op = "create", !.user = u, !.owner = u])

StartOnClan(r) == \E op \in {"delete", "invite"}, u \in Caller, c \in Clan :
  Start(r, [NoReq EXCEPT !.pc = "role", !.op = op, !.user = u, !.clan = c])

\* An id that was never handed out cannot be named.
StartPatch(r) ==
  \E u \in Caller, c \in Clan, m \in {n \in Member : members[n] # None}, role \in InviteRole :
    Start(r, [NoReq EXCEPT !.pc = "role", !.op = "patch", !.user = u, !.clan = c,
                           !.row = m, !.role = role])

StartRemove(r) ==
  \E u \in Caller, c \in Clan, m \in {n \in Member : members[n] # None} :
    Start(r, [NoReq EXCEPT !.pc = "role", !.op = "remove", !.user = u, !.clan = c,
                           !.row = m])

StartAccept(r) == \E u \in User, i \in {j \in Inv : invites[j] # None} :
  Start(r, [NoReq EXCEPT !.pc = "invitation", !.op = "accept", !.user = u, !.inv = i])

\* requireClanRole('admin'): LIMIT 1 of the caller's rows in the clan.
RequireAdmin(r) ==
  /\ at(r, "role")
  /\ LET mine == RowsOf(req[r].clan, req[r].user)
     IN  \/ /\ mine = {} \/ \E m \in mine : members[m].role # "admin"
            /\ Return(r)
         \/ /\ \E m \in mine : members[m].role = "admin"
            /\ Goto(r, CASE req[r].op = "delete" -> "target"
                         [] req[r].op = "invite" -> "insertInvite"
                         [] OTHER                -> "current")
  /\ UNCHANGED <<sub, items, sync, rows, job, history>>

-----------------------------------------------------------------------------
(* assertCanAddSeat, called before a person is added to a clan.             *)

\* Where the caller goes on once the seat is allowed.
Allowed(r) == IF req[r].op = "create" THEN "insertClan" ELSE "insertRow"

\* wouldConsumeNewSeat: somebody already in one of the owner's clans is free.
CheckSeat(r) ==
  /\ at(r, "seat")
  /\ Goto(r, IF req[r].user \in SeatSet(req[r].owner) THEN Allowed(r) ELSE "tier")
  /\ UNCHANGED <<sub, items, sync, rows, job, history>>

\* getSeatCap is null unless the plan is free.
CheckTier(r) ==
  /\ at(r, "tier")
  /\ Goto(r, IF normalizeTier(sub[req[r].owner].tier) = "free" THEN "count" ELSE Allowed(r))
  /\ UNCHANGED <<sub, items, sync, rows, job, history>>

\* Slip: the newcomer is not counted.
CheckCountOffByOne(r) ==
  /\ at(r, "count")
  /\ IF countOwnedSeats(req[r].owner) > Cap THEN Return(r) ELSE Goto(r, Allowed(r))
  /\ UNCHANGED <<sub, items, sync, rows, job, history>>

CheckCount(r) ==
  /\ at(r, "count")
  /\ IF countOwnedSeats(req[r].owner) + 1 > Cap THEN Return(r) ELSE Goto(r, Allowed(r))
  /\ UNCHANGED <<sub, items, sync, rows, job, history>>

-----------------------------------------------------------------------------
(* POST /clans: three inserts, not one transaction.                         *)

FreshMember == CHOOSE m \in Member : members[m] = None

InsertClan(r) ==
  /\ at(r, "insertClan")
  /\ \E c \in Clan :
       /\ createdBy[c] = None
       /\ createdBy' = [createdBy EXCEPT ![c] = req[r].user]
       /\ req' = [req EXCEPT ![r] = [@ EXCEPT !.pc = "insertAdmin", !.clan = c]]
  /\ UNCHANGED <<sub, items, sync, settings, members, invites, job, history>>

\* A clan nobody is in cannot be deleted, so the foreign key holds.
InsertAdmin(r) ==
  /\ at(r, "insertAdmin")
  /\ live(req[r].clan)
  /\ \E m \in Member : members[m] = None
  /\ members' = [members EXCEPT ![FreshMember] =
                   [clan |-> req[r].clan, user |-> req[r].user, role |-> "admin"]]
  /\ Goto(r, "insertSettings")
  /\ UNCHANGED <<sub, items, sync, createdBy, settings, invites, job, history>>

\* The foreign key refuses settings for a clan deleted meanwhile.
InsertSettings(r) ==
  /\ at(r, "insertSettings")
  /\ \/ /\ live(req[r].clan)
        /\ settings' = settings \cup {req[r].clan}
        /\ SyncCall(r, req[r].owner)
        /\ Goto(r, "sync")
     \/ /\ ~live(req[r].clan)
        /\ Return(r)
        /\ UNCHANGED <<settings, sync>>
  /\ UNCHANGED <<sub, items, createdBy, members, invites, job, history>>

-----------------------------------------------------------------------------
(* DELETE /clans/:clanId                                                    *)

\* Slip: is_personal is not looked at.
ReadAnyTarget(r) ==
  /\ at(r, "target")
  /\ LET c == req[r].clan
     IN  IF live(c)
         THEN req' = [req EXCEPT ![r] = [@ EXCEPT !.pc = "deleteClan", !.owner = createdBy[c]]]
         ELSE Return(r)
  /\ UNCHANGED <<sub, items, sync, rows, job, history>>

ReadTarget(r) ==
  /\ at(r, "target")
  /\ LET c == req[r].clan
     IN  IF live(c) /\ \A o \in Owner : c # Personal[o]
         THEN req' = [req EXCEPT ![r] = [@ EXCEPT !.pc = "deleteClan", !.owner = createdBy[c]]]
         ELSE Return(r)
  /\ UNCHANGED <<sub, items, sync, rows, job, history>>

\* ON DELETE CASCADE takes the members, the invitations and the settings.
DeleteClan(r) ==
  /\ at(r, "deleteClan")
  /\ LET c == req[r].clan
     IN  /\ createdBy' = [createdBy EXCEPT ![c] = Gone]
         /\ settings' = settings \ {c}
         /\ members' = [m \in Member |->
              IF isRow(m) /\ members[m].clan = c THEN Gone ELSE members[m]]
         /\ invites' = [i \in Inv |->
              IF invites[i] \notin {None, Gone} /\ invites[i].clan = c
              THEN Gone ELSE invites[i]]
  /\ SyncCall(r, req[r].owner)
  /\ Goto(r, "sync")
  /\ UNCHANGED <<sub, items, job, history>>

-----------------------------------------------------------------------------
(* PATCH and DELETE /clans/:clanId/members/:memberId                        *)

\* Slip: only a demotion is guarded, and an admin leaves unchecked.
ReadCurrentForPatch(r) ==
  /\ at(r, "current")
  /\ LET m    == req[r].row
         drop == req[r].op = "patch" /\ req[r].role # "admin"
         next == IF req[r].op = "patch" THEN "updateRole" ELSE "lookup"
     IN  \/ /\ ~isRow(m)
            /\ Return(r)
         \/ /\ isRow(m)
            /\ req' = [req EXCEPT ![r] = [@ EXCEPT
                 !.pc = IF members[m].role = "admin" /\ drop THEN "admins" ELSE next,
                 !.clan = members[m].clan]]
  /\ UNCHANGED <<sub, items, sync, rows, job, history>>

\* The guard against losing the last admin is needed only for an admin row.
ReadCurrent(r) ==
  /\ at(r, "current")
  /\ LET m    == req[r].row
         drop == req[r].op = "remove" \/ req[r].role # "admin"
         next == IF req[r].op = "patch" THEN "updateRole" ELSE "lookup"
     IN  \/ /\ ~isRow(m)
            /\ Return(r)
         \/ /\ isRow(m)
            /\ req' = [req EXCEPT ![r] = [@ EXCEPT
                 !.pc = IF members[m].role = "admin" /\ drop THEN "admins" ELSE next,
                 !.clan = members[m].clan]]
  /\ UNCHANGED <<sub, items, sync, rows, job, history>>

ReadAdmins(r) ==
  /\ at(r, "admins")
  /\ IF \E m \in Member : AdminsOf(req[r].clan) = {m}
     THEN Return(r)
     ELSE Goto(r, IF req[r].op = "patch" THEN "updateRole" ELSE "lookup")
  /\ UNCHANGED <<sub, items, sync, rows, job, history>>

UpdateRole(r) ==
  /\ at(r, "updateRole")
  /\ members' = [m \in Member |->
       IF m = req[r].row /\ isRow(m) THEN [members[m] EXCEPT !.role = req[r].role]
                                     ELSE members[m]]
  /\ Return(r)
  /\ UNCHANGED <<sub, items, sync, createdBy, settings, invites, job, history>>

\* Slip: the clan is taken to be there still.
LookupOwnerUnchecked(r) ==
  /\ at(r, "lookup")
  /\ req' = [req EXCEPT ![r] = [@ EXCEPT !.pc = "deleteRow",
                                         !.owner = createdBy[req[r].clan]]]
  /\ UNCHANGED <<sub, items, sync, rows, job, history>>

LookupOwner(r) ==
  /\ at(r, "lookup")
  /\ req' = [req EXCEPT ![r] = [@ EXCEPT !.pc = "deleteRow", !.owner =
       IF live(req[r].clan) THEN createdBy[req[r].clan] ELSE None]]
  /\ UNCHANGED <<sub, items, sync, rows, job, history>>

\* Slip: no sync after a removal.
DeleteRowUnbilled(r) ==
  /\ at(r, "deleteRow")
  /\ members' = [m \in Member |->
       IF m = req[r].row /\ isRow(m) THEN Gone ELSE members[m]]
  /\ Return(r)
  /\ UNCHANGED <<sub, items, sync, createdBy, settings, invites, job, history>>

DeleteRow(r) ==
  /\ at(r, "deleteRow")
  /\ members' = [m \in Member |->
       IF m = req[r].row /\ isRow(m) THEN Gone ELSE members[m]]
  /\ \/ /\ req[r].owner # None
        /\ SyncCall(r, req[r].owner)
        /\ Goto(r, "sync")
     \/ /\ req[r].owner = None
        /\ Return(r)
        /\ UNCHANGED sync
  /\ UNCHANGED <<sub, items, createdBy, settings, invites, job, history>>

-----------------------------------------------------------------------------
(* POST /clans/:clanId/invitations and /clan-invitations/:token/accept      *)

FreshInv == CHOOSE i \in Inv : invites[i] = None

InsertInvite(r) ==
  /\ at(r, "insertInvite")
  /\ \/ /\ live(req[r].clan)
        /\ \E i \in Inv : invites[i] = None
        /\ \E u \in User, role \in InviteRole :
             invites' = [invites EXCEPT ![FreshInv] =
                  [clan |-> req[r].clan, user |-> u, role |-> role,
                   accepted |-> FALSE, expired |-> FALSE]]
     \/ /\ ~live(req[r].clan)
        /\ UNCHANGED invites
  /\ Return(r)
  /\ UNCHANGED <<sub, items, sync, createdBy, settings, members, job, history>>

\* Seven days pass.
Expire(i) ==
  /\ "expire" \in Ops
  /\ invites[i] \in Invitation
  /\ invites' = [invites EXCEPT ![i].expired = TRUE]
  /\ UNCHANGED <<sub, items, sync, createdBy, settings, members, req, job, history>>

\* Usable: there, not accepted, not expired and sent to the caller's email.
ReadInvitation(r) ==
  /\ at(r, "invitation")
  /\ LET inv == invites[req[r].inv]
     IN  IF /\ inv \in Invitation
            /\ ~inv.accepted /\ ~inv.expired
            /\ inv.user = req[r].user
         THEN req' = [req EXCEPT ![r] = [@ EXCEPT
                !.pc = "existing", !.clan = inv.clan, !.role = inv.role]]
         ELSE Return(r)
  /\ UNCHANGED <<sub, items, sync, rows, job, history>>

\* Slip: the caller's membership is not read, so accepting is not idempotent.
ReadNoExisting(r) ==
  /\ at(r, "existing")
  /\ LET c == req[r].clan
     IN  IF live(c)
         THEN req' = [req EXCEPT ![r] = [@ EXCEPT !.pc = "seat", !.owner = createdBy[c]]]
         ELSE Return(r)
  /\ UNCHANGED <<sub, items, sync, rows, job, history>>

\* Reads the caller's membership, then the clan's owner, who pays.
ReadExisting(r) ==
  /\ at(r, "existing")
  /\ LET c == req[r].clan
     IN  IF live(c)
         THEN req' = [req EXCEPT ![r] = [@ EXCEPT
                !.pc = IF RowsOf(c, req[r].user) = {} THEN "seat" ELSE "markAccepted",
                !.owner = createdBy[c]]]
         ELSE Return(r)
  /\ UNCHANGED <<sub, items, sync, rows, job, history>>

\* Nothing in the table forbids a second row for the same person.
InsertRow(r) ==
  /\ at(r, "insertRow")
  /\ \/ /\ live(req[r].clan)
        /\ \E m \in Member : members[m] = None
        /\ members' = [members EXCEPT ![FreshMember] =
             [clan |-> req[r].clan, user |-> req[r].user, role |-> req[r].role]]
        /\ Goto(r, "markAccepted")
     \/ /\ ~live(req[r].clan)
        /\ Return(r)
        /\ UNCHANGED members
  /\ UNCHANGED <<sub, items, sync, createdBy, settings, invites, job, history>>

MarkAccepted(r) ==
  /\ at(r, "markAccepted")
  /\ invites' = [i \in Inv |->
       IF i = req[r].inv /\ invites[i] \in Invitation
       THEN [invites[i] EXCEPT !.accepted = TRUE] ELSE invites[i]]
  /\ SyncCall(r, req[r].owner)
  /\ Goto(r, "sync")
  /\ UNCHANGED <<sub, items, createdBy, settings, members, job, history>>

-----------------------------------------------------------------------------
(* The end of a request, and the reconcile job.                             *)

\* syncSeatQuantityToStripe has returned or its error was logged.
Finish(r) ==
  /\ at(r, "sync")
  /\ ~syncing(r)
  /\ Return(r)
  /\ UNCHANGED <<sub, items, sync, rows, job, history>>

\* The database fails an await, or the process dies there: nothing is undone.
Fail(r) ==
  /\ active(r)
  /\ ~at(r, "sync")
  /\ Return(r)
  /\ drift' = TRUE
  /\ UNCHANGED <<sub, items, sync, rows, job, started, planChanges, overlapped>>

\* One await of a sync, run by a request or by the job.
SyncStep(p) ==
  /\ \/ SyncReadSub(p)
     \/ SyncCount(p, countOwnedSeats(sync[p].owner))
     \/ SyncRetrieve(p)
     \/ SyncUpdate(p)
  /\ UNCHANGED <<rows, req, job, history>>

SyncFails(p) ==
  /\ SyncThrow(p)
  /\ drift' = TRUE
  /\ UNCHANGED <<rows, req, job, started, planChanges, overlapped>>

\* reconcileAllSubscriptions selects the subscribed owners, then visits each;
\* a run that selects nobody does nothing.
JobStart ==
  /\ ~job.on
  /\ \E o \in Owner : sub[o].subscribed
  /\ job' = [on |-> TRUE, todo |-> {o \in Owner : sub[o].subscribed}]
  /\ drift' = (drift \/ \E r \in Request : active(r))
  /\ UNCHANGED <<sub, items, sync, rows, req, started, planChanges, overlapped>>

JobVisit ==
  /\ ~syncing(Job)
  /\ \E o \in job.todo :
       /\ SyncCall(Job, o)
       /\ job' = [job EXCEPT !.todo = @ \ {o}]
  /\ UNCHANGED <<sub, items, rows, req, history>>

JobEnd ==
  /\ job.on /\ job.todo = {} /\ ~syncing(Job)
  /\ job' = NoJob
  /\ UNCHANGED <<sub, items, sync, rows, req, history>>

-----------------------------------------------------------------------------
(* What Stripe and its webhook do meanwhile to an owner who may subscribe.  *)

PlanChange(o) ==
  /\ planChanges < MaxPlanChanges
  /\ planChanges' = planChanges + 1
  /\ \/ \E price \in PerSeatPrice, q \in 1..Cardinality(User) : StripeSetsPlan(o, price, q)
     \/ StripeCancels(o)
  /\ drift' = TRUE
  /\ UNCHANGED <<rows, req, job, started, overlapped>>

WebhookArrives(o) ==
  /\ planChanges > 0
  /\ RowFollows(o)
  /\ drift' = TRUE
  /\ UNCHANGED <<rows, req, job, started, planChanges, overlapped>>

-----------------------------------------------------------------------------

Handler(r) ==
  \/ RequireAdmin(r)
  \/ CheckSeat(r) \/ CheckTier(r) \/ CheckCount(r)
  \/ InsertClan(r) \/ InsertAdmin(r) \/ InsertSettings(r)
  \/ ReadTarget(r) \/ DeleteClan(r)
  \/ ReadCurrent(r) \/ ReadAdmins(r) \/ UpdateRole(r) \/ LookupOwner(r) \/ DeleteRow(r)
  \/ InsertInvite(r)
  \/ ReadInvitation(r) \/ ReadExisting(r) \/ InsertRow(r) \/ MarkAccepted(r)
  \/ Finish(r)

Arrive(r) == StartCreate(r) \/ StartOnClan(r) \/ StartPatch(r) \/ StartRemove(r) \/ StartAccept(r)

Next ==
  \/ \E r \in Request : Arrive(r) \/ Handler(r) \/ Fail(r)
  \/ \E p \in Proc : SyncStep(p) \/ SyncFails(p)
  \/ JobStart \/ JobVisit \/ JobEnd
  \/ \E i \in Inv : Expire(i)
  \/ \E o \in Owner \ FreeOwner : PlanChange(o) \/ WebhookArrives(o)

Spec == Init /\ [][Next]_vars

\* Every handler runs to its end; the CronJob runs daily and visits each row;
\* a Stripe call that is tried again and again succeeds some day.
Fairness ==
  /\ \A r \in Request : WF_vars(Handler(r)) /\ WF_vars(SyncStep(r))
  /\ WF_vars(JobStart \/ JobVisit \/ JobEnd)
  /\ \A o \in Owner : \A step \in {"sub", "count", "retrieve", "update"} :
       SF_vars(SyncStep(Job) /\ sync[Job].owner = o /\ sync[Job].at = step)

FairSpec == Spec /\ Fairness

-----------------------------------------------------------------------------
(* Properties.                                                              *)

KeepsAdmin ==
  \A c \in Clan : live(c) /\ live(c)' /\ AdminsOf(c) # {} => AdminsOf(c)' # {}

\* A live clan that has an admin keeps one, as long as no two requests were
\* ever in flight together: the "last admin" guards of the PATCH and DELETE
\* member handlers read and write in separate awaits.
SerialKeepsAdmin == [][~overlapped => KeepsAdmin]_vars

\* Unless requests overlapped, a person has one row in a clan: accepting again
\* after a failure between the insert and accepted_at adds nobody twice.
SerialOneRowPerPerson ==
  ~overlapped => \A m, n \in Member :
    /\ isRow(m) /\ isRow(n)
    /\ members[m].clan = members[n].clan /\ members[m].user = members[n].user
    => m = n

\* What request q has read still holds: the row it changes is there, an admin it
\* drops is not the clan's last, a person it is about to add is not in the clan
\* yet, and the clan it has just created is empty.
Fresh(q) ==
  /\ q.pc \in {"admins", "updateRole", "lookup", "deleteRow"} =>
       isRow(q.row) /\ members[q.row].clan = q.clan
  /\ q.pc \in {"updateRole", "lookup", "deleteRow"} =>
       \/ q.row \notin AdminsOf(q.clan)
       \/ q.op = "patch" /\ q.role = "admin"
       \/ \E n \in AdminsOf(q.clan) : n # q.row
  /\ q.op = "accept" /\ q.pc \in {"seat", "tier", "count", "insertRow"} =>
       RowsOf(q.clan, q.user) = {}
  /\ q.pc = "insertAdmin" => \A u \in User : RowsOf(q.clan, u) = {}

\* Unless requests overlapped, what a handler read still holds when it writes.
SerialReadsFresh ==
  ~overlapped =>
    /\ \A r, s \in Request : active(r) /\ active(s) => r = s
    /\ \A r \in Request : Fresh(req[r])

\* The free plan's seat cap is exact for requests that do not overlap; check
\* and insert being separate, n overlapping requests exceed it by n - 1 at most.
SeatCapHolds ==
  \A o \in FreeOwner :
    countOwnedSeats(o) <= IF overlapped THEN Cap - 1 + Cardinality(Request) ELSE Cap

\* The clan provisioned with a profile is never deleted and, unless requests
\* overlapped, its owner is not left without an admin in it.
PersonalClanAnchored ==
  \A o \in Owner :
    /\ createdBy[Personal[o]] = o
    /\ ~overlapped => AdminsOf(Personal[o]) # {}

\* Between requests that neither overlapped nor failed, and with nothing
\* changed at Stripe, every per-seat owner is billed for the people there are.
QuiescentBilled ==
  /\ ~overlapped /\ ~drift
  /\ \A r \in Request : ~active(r)
  /\ ~job.on
  => \A o \in Owner : Billed(o, countOwnedSeats(o))

\* No sync ever changes the quantity of an item sold at a legacy flat price or
\* of the old overage item: that would bill the bundle once per seat.
FlatPriceUntouched ==
  [][\A o \in Owner, i \in Item :
       items[o][i].price \in OtherPrice /\ items'[o][i].price = items[o][i].price
       => items'[o][i].qty = items[o][i].qty]_vars

\* Whatever overlapped, failed or was overwritten by a stale count, once
\* requests and plan changes cease the reconcile job makes Stripe's quantity
\* right, and it stays right.
SeatsConverge == <>[](\A o \in Owner : Billed(o, countOwnedSeats(o)))

\* What routes/clans/index.ts says of its guard, without the qualification: an
\* admin who is the only one cannot be demoted, "otherwise the clan would be
\* orphaned with no one able to invite or manage it".
LastAdminKept == [][KeepsAdmin]_vars
=============================================================================
