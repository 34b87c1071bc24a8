------------------------ MODULE ProfileProvisioning ------------------------
(***************************************************************************)
(* A signed-up user gets a profile, a personal clan and the admin row in   *)
(* it (backend/src/services/profile-provisioning.service.ts).  Two callers *)
(* race: the sign-up hook of lib/auth.ts and every request with a session  *)
(* but no profile, in middleware/require-auth.ts.                          *)
(*                                                                         *)
(* The three inserts are one transaction.  What it has inserted is seen by *)
(* nobody until it commits, except by the unique index on user_id: another *)
(* insert for that user waits for the transaction to end.                  *)
(***************************************************************************)
EXTENDS Naturals

CONSTANTS
  User,         \* auth_users
  Call,         \* slots of calls in flight
  None,
  MaxIds,       \* bound: profile ids ever generated
  MaxFailures   \* bound: awaits that fail

Id == 1..MaxIds

ASSUME ProvisioningConstants ==
  /\ MaxIds \in Nat /\ MaxFailures \in Nat
  /\ None \notin User /\ None \notin Id

VARIABLES
  registered,  \* users with a row in auth_users
  profile,     \* profile[u]: the id of u's committed profile
  clans,       \* ids of profiles whose personal clan is committed
  admins,      \* ids of profiles that are admin of it
  call,        \* the calls in flight
  nextId,      \* the next profile id
  answered,    \* history: <<u, id>> for every id a call returned for u
  failures

vars == <<registered, profile, clans, admins, call, nextId, answered, failures>>

\* id: the profile inserted by the transaction of this call.
\* refused: history, the unique index refused the insert.
CallState ==
  [pc: {"idle", "resolve", "check", "insert", "clan", "member", "commit", "reread"},
   user: User \cup {None}, id: Id \cup {None}, refused: BOOLEAN]

NoCall == [pc |-> "idle", user |-> None, id |-> None, refused |-> FALSE]

inTx(p) == call[p].pc \in {"clan", "member", "commit"}

TypeOK ==
  /\ registered \subseteq User
  /\ profile \in [User -> Id \cup {None}]
  /\ clans \subseteq Id /\ admins \subseteq Id
  /\ call \in [Call -> CallState]
  /\ \A p \in Call : /\ call[p].pc # "idle" => call[p].user \in registered
                     /\ inTx(p) => call[p].id \in Id
  /\ nextId \in 1..(MaxIds + 1)
  /\ answered \subseteq User \X Id
  /\ failures \in 0..MaxFailures

Init ==
  /\ registered = {}
  /\ profile = [u \in User |-> None]
  /\ clans = {} /\ admins = {}
  /\ call = [p \in Call |-> NoCall]
  /\ nextId = 1
  /\ answered = {}
  /\ failures = 0

-----------------------------------------------------------------------------

at(p, pc) == call[p].pc = pc

Goto(p, pc) == call' = [call EXCEPT ![p].pc = pc]

Begin(p, u, pc) ==
  /\ at(p, "idle")
  /\ call' = [call EXCEPT ![p] = [NoCall EXCEPT !.pc = pc, !.user = u]]

Answer(p, id) ==
  /\ call' = [call EXCEPT ![p] = NoCall]
  /\ answered' = answered \cup {<<call[p].user, id>>}

\* External: Better Auth inserts the user and runs databaseHooks.user.create.
SignUp(p, u) ==
  /\ u \notin registered
  /\ registered' = registered \cup {u}
  /\ Begin(p, u, "check")
  /\ UNCHANGED <<profile, clans, admins, nextId, answered, failures>>

\* requireAuth with a session cookie.
Session(p, u) ==
  /\ u \in registered
  /\ Begin(p, u, "resolve")
  /\ UNCHANGED <<registered, profile, clans, admins, nextId, answered, failures>>

\* Slip: a session without a profile is turned away.
ResolveOnly(p) ==
  /\ at(p, "resolve")
  /\ LET id == profile[call[p].user]
     IN  \/ id # None /\ Answer(p, id)
         \/ id = None /\ call' = [call EXCEPT ![p] = NoCall] /\ UNCHANGED answered
  /\ UNCHANGED <<registered, profile, clans, admins, nextId, failures>>

\* resolveProfileId; without a profile, provisionProfile is called.
Resolve(p) ==
  /\ at(p, "resolve")
  /\ LET id == profile[call[p].user]
     IN  \/ id # None /\ Answer(p, id)
         \/ id = None /\ Goto(p, "check") /\ UNCHANGED answered
  /\ UNCHANGED <<registered, profile, clans, admins, nextId, failures>>

Check(p) ==
  /\ at(p, "check")
  /\ LET id == profile[call[p].user]
     IN  \/ id # None /\ Answer(p, id)
         \/ id = None /\ Goto(p, "insert") /\ UNCHANGED answered
  /\ UNCHANGED <<registered, profile, clans, admins, nextId, failures>>

\* Another transaction has inserted a profile for this user.
Contended(p) == \E q \in Call \ {p} : inTx(q) /\ call[q].user = call[p].user

Inserted(p) ==
  /\ nextId <= MaxIds
  /\ nextId' = nextId + 1
  /\ call' = [call EXCEPT ![p] = [@ EXCEPT !.pc = "clan", !.id = nextId]]

Refused(p) ==
  /\ call' = [call EXCEPT ![p] = [@ EXCEPT !.pc = "reread", !.refused = TRUE]]
  /\ UNCHANGED nextId

\* Slip: user_id has no unique index.
InsertProfileAgain(p) ==
  /\ at(p, "insert")
  /\ Inserted(p)
  /\ UNCHANGED <<registered, profile, clans, admins, answered, failures>>

\* Slip: the insert does not wait for the other transaction to end.
InsertProfileNoWait(p) ==
  /\ at(p, "insert")
  /\ IF profile[call[p].user] # None \/ Contended(p) THEN Refused(p) ELSE Inserted(p)
  /\ UNCHANGED <<registered, profile, clans, admins, answered, failures>>

\* Slip: the profile is inserted with db instead of tx.
InsertProfileOutside(p) ==
  /\ at(p, "insert") /\ ~Contended(p)
  /\ \/ profile[call[p].user] # None /\ Refused(p) /\ UNCHANGED profile
     \/ /\ profile[call[p].user] = None
        /\ Inserted(p)
        /\ profile' = [profile EXCEPT ![call[p].user] = nextId]
  /\ UNCHANGED <<registered, clans, admins, answered, failures>>

InsertProfile(p) ==
  /\ at(p, "insert") /\ ~Contended(p)
  /\ \/ profile[call[p].user] # None /\ Refused(p)
     \/ profile[call[p].user] = None /\ Inserted(p)
  /\ UNCHANGED <<registered, profile, clans, admins, answered, failures>>

InsertClan(p) ==
  /\ at(p, "clan")
  /\ Goto(p, "member")
  /\ UNCHANGED <<registered, profile, clans, admins, nextId, answered, failures>>

InsertMember(p) ==
  /\ at(p, "member")
  /\ Goto(p, "commit")
  /\ UNCHANGED <<registered, profile, clans, admins, nextId, answered, failures>>

Publish(p) ==
  /\ profile' = [profile EXCEPT ![call[p].user] = call[p].id]
  /\ clans' = clans \cup {call[p].id}
  /\ admins' = admins \cup {call[p].id}

Commit(p) ==
  /\ at(p, "commit")
  /\ Publish(p)
  /\ Answer(p, call[p].id)
  /\ UNCHANGED <<registered, nextId, failures>>

\* Slip: what the re-read found is returned unlooked at.
RereadUnchecked(p) ==
  /\ at(p, "reread")
  /\ Answer(p, profile[call[p].user])
  /\ UNCHANGED <<registered, profile, clans, admins, nextId, failures>>

\* The catch: a re-read, then the error is thrown again if nothing is found.
Reread(p) ==
  /\ at(p, "reread")
  /\ LET id == profile[call[p].user]
     IN  \/ id # None /\ Answer(p, id)
         \/ id = None /\ call' = [call EXCEPT ![p] = NoCall] /\ UNCHANGED answered
  /\ UNCHANGED <<registered, profile, clans, admins, nextId, failures>>

\* An await fails.  In the transaction that undoes it and runs the catch, but a
\* COMMIT whose answer is lost has taken effect; elsewhere the call throws.
Fail(p) ==
  /\ ~at(p, "idle")
  /\ failures < MaxFailures
  /\ failures' = failures + 1
  /\ IF inTx(p) \/ at(p, "insert")
     THEN /\ call' = [call EXCEPT ![p] = [@ EXCEPT !.pc = "reread", !.id = None]]
          /\ \/ at(p, "commit") /\ Publish(p)
             \/ UNCHANGED <<profile, clans, admins>>
     ELSE call' = [call EXCEPT ![p] = NoCall] /\ UNCHANGED <<profile, clans, admins>>
  /\ UNCHANGED <<registered, nextId, answered>>

\* The process dies; the database rolls an open transaction back.
Crash(p) ==
  /\ ~at(p, "idle")
  /\ failures < MaxFailures
  /\ failures' = failures + 1
  /\ call' = [call EXCEPT ![p] = NoCall]
  /\ UNCHANGED <<registered, profile, clans, admins, nextId, answered>>

-----------------------------------------------------------------------------

Step(p) ==
  Resolve(p) \/ Check(p) \/ InsertProfile(p) \/ InsertClan(p) \/ InsertMember(p)
  \/ Commit(p) \/ Reread(p)

Next ==
  \/ \E p \in Call, u \in User : SignUp(p, u) \/ Session(p, u)
  \/ \E p \in Call : Step(p) \/ Fail(p) \/ Crash(p)

Spec == Init /\ [][Next]_vars

\* Calls run to their end, and a user comes back whenever a slot is free.
FairSpec ==
  /\ Spec
  /\ \A p \in Call : WF_vars(Step(p))
  /\ \A u \in User : SF_vars(\E p \in Call : Session(p, u))

-----------------------------------------------------------------------------
(* Properties.                                                              *)

\* Every call that returns an id for a user, from the hook or from any request,
\* returns the one id that user's profile has for good.
OneIdentity == \A a \in answered : profile[a[1]] = a[2]

\* Nobody is left with a profile but no personal clan to be admin of, and no
\* such clan is left without its profile.
NobodyStranded ==
  /\ \A u \in User : profile[u] # None => profile[u] \in clans /\ profile[u] \in admins
  /\ \A id \in clans \cup admins : \E u \in User : profile[u] = id

\* The loser of the race is guaranteed to find the winner's row.
LoserFindsWinner ==
  \A p \in Call : at(p, "reread") /\ call[p].refused => profile[call[p].user] # None

\* A user who signed up and keeps coming back gets a profile, even if the hook
\* failed.
EveryoneProvisioned ==
  \A u \in User : (u \in registered) ~> (profile[u] # None)
=============================================================================
