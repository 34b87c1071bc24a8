--------------------------- MODULE AccountsProofs ----------------------------
(***************************************************************************)
(* Proofs about what belongs to one user: the profile and its personal     *)
(* clan, the consent to be tracked, pictures and files, and connections to *)
(* providers.  The modules share no variable; each section has the         *)
(* invariant of one of them, for any number of users, tabs, calls and      *)
(* connections.                                                            *)
(***************************************************************************)
EXTENDS MCAccounts, ScheduleProofs, TLAPS

-----------------------------------------------------------------------------
(***************************************************************************)
(* Profiles, for any number of users and of calls in flight.  An open      *)
(* transaction is alone with its user (TxAlone), and a call whose insert   *)
(* was refused is about to find the row that refused it (RefusedRereads).  *)
(* Names without a prefix, here and in ProfileProvisioning, are of         *)
(* profiles.                                                               *)
(***************************************************************************)

TxStage == {"clan", "member", "commit"}

\* An open transaction is alone with its user, who has no profile yet.
TxAlone ==
  \A p \in Call : inTx(p) =>
    /\ profile[call[p].user] = None
    /\ \A q \in Call : inTx(q) /\ call[q].user = call[p].user => q = p

\* A refused call is about to read again, and will find a row.
RefusedRereads ==
  \A p \in Call : call[p].refused =>
    at(p, "reread") /\ profile[call[p].user] # None

ProfileInv == TypeOK /\ TxAlone /\ RefusedRereads /\ OneIdentity /\ NobodyStranded

LEMMA InitIInv == Init => ProfileInv
BY ProvisioningConstants
   DEF Init, ProfileInv, TypeOK, TxAlone, RefusedRereads, OneIdentity, NobodyStranded,
       Id, CallState, NoCall, inTx, at

-----------------------------------------------------------------------------
(* What the steps of a call do to the invariant.                            *)

\* A call that is in no transaction afterwards, and published nothing.
LEMMA StaysOutside ==
  ASSUME ProfileInv, NEW p \in Call, NEW q \in CallState,
         call' = [call EXCEPT ![p] = q],
         q.pc \notin TxStage, q.pc # "idle" => q.user \in registered',
         q.refused => q.pc = "reread" /\ profile[q.user] # None,
         registered \subseteq registered', registered' \subseteq User,
         UNCHANGED <<profile, clans, admins>>,
         answered' \subseteq User \X Id, \A a \in answered' : profile[a[1]] = a[2],
         nextId' \in 1..(MaxIds + 1), failures' \in 0..MaxFailures
  PROVE  ProfileInv'
<1>1. call' \in [Call -> CallState]
  BY DEF ProfileInv, TypeOK
<1>2. call'[p] = q /\ \A s \in Call : s # p => call'[s] = call[s]
  BY DEF ProfileInv, TypeOK
<1>3. TypeOK'
  BY <1>1, <1>2 DEF ProfileInv, TypeOK, inTx, TxStage
<1>4. TxAlone'
  BY <1>2 DEF ProfileInv, TxAlone, inTx, TxStage
<1>5. RefusedRereads'
  BY <1>2 DEF ProfileInv, RefusedRereads, at
<1>6. OneIdentity' /\ NobodyStranded'
  BY DEF ProfileInv, OneIdentity, NobodyStranded
<1> QED
  BY <1>3, <1>4, <1>5, <1>6 DEF ProfileInv

\* A transaction goes on, or is opened for a user without a profile while no
\* other is open for that user.
LEMMA StaysInside ==
  ASSUME ProfileInv, NEW p \in Call, NEW q \in CallState,
         call' = [call EXCEPT ![p] = q],
         q.pc \in TxStage, q.user \in registered, q.id \in Id, ~q.refused,
         profile[q.user] = None, ~ \E s \in Call \ {p} : inTx(s) /\ call[s].user = q.user,
         UNCHANGED <<registered, profile, clans, admins, answered, failures>>,
         nextId' \in 1..(MaxIds + 1)
  PROVE  ProfileInv'
<1>1. call' \in [Call -> CallState]
  BY DEF ProfileInv, TypeOK
<1>2. call'[p] = q /\ \A s \in Call : s # p => call'[s] = call[s]
  BY DEF ProfileInv, TypeOK
<1>3. TypeOK'
  BY <1>1, <1>2 DEF ProfileInv, TypeOK, inTx, TxStage
<1>4. TxAlone'
  BY <1>2 DEF ProfileInv, TxAlone, inTx, TxStage
<1>5. RefusedRereads'
  BY <1>2 DEF ProfileInv, RefusedRereads, at
<1>6. OneIdentity' /\ NobodyStranded'
  BY DEF ProfileInv, OneIdentity, NobodyStranded
<1> QED
  BY <1>3, <1>4, <1>5, <1>6 DEF ProfileInv

\* A transaction commits: no call has been answered for its user so far.
LEMMA Publishes ==
  ASSUME ProfileInv, NEW p \in Call, inTx(p), NEW q \in CallState,
         call' = [call EXCEPT ![p] = q],
         q.pc \notin TxStage, q.pc # "idle" => q.user \in registered, ~q.refused,
         Publish(p), UNCHANGED registered,
         answered' \subseteq answered \cup {<<call[p].user, call[p].id>>},
         nextId' \in 1..(MaxIds + 1), failures' \in 0..MaxFailures
  PROVE  ProfileInv'
<1> DEFINE u == call[p].user
           i == call[p].id
<1>1. call' \in [Call -> CallState]
  BY DEF ProfileInv, TypeOK
<1>2. call'[p] = q /\ \A s \in Call : s # p => call'[s] = call[s]
  BY DEF ProfileInv, TypeOK
<1>3. u \in User /\ i \in Id /\ i # None
  BY ProvisioningConstants DEF ProfileInv, TypeOK, inTx
<1>4. profile[u] = None
  BY DEF ProfileInv, TxAlone
<1>5. profile'[u] = i /\ \A v \in User : v # u => profile'[v] = profile[v]
  BY <1>3 DEF ProfileInv, TypeOK, Publish
<1>6. TypeOK'
  BY <1>1, <1>2, <1>3 DEF ProfileInv, TypeOK, inTx, TxStage, Publish
<1>7. TxAlone'
  <2> SUFFICES ASSUME NEW s \in Call, inTx(s)'
               PROVE  /\ profile'[call'[s].user] = None
                      /\ \A t \in Call : inTx(t)' /\ call'[t].user = call'[s].user => t = s
    BY DEF TxAlone
  <2>1. s # p /\ call'[s] = call[s] /\ inTx(s)
    BY <1>2 DEF inTx, TxStage
  <2>2. call[s].user # u /\ call[s].user \in User
    BY <2>1 DEF ProfileInv, TxAlone, TypeOK, inTx
  <2>3. profile'[call'[s].user] = None
    BY <2>1, <2>2, <1>5 DEF ProfileInv, TxAlone
  <2>4. ASSUME NEW t \in Call, inTx(t)', call'[t].user = call'[s].user PROVE t = s
    <3>1. t # p /\ call'[t] = call[t] /\ inTx(t)
      BY <2>4, <1>2 DEF inTx, TxStage
    <3> QED
      BY <2>4, <3>1, <2>1 DEF ProfileInv, TxAlone
  <2> QED
    BY <2>3, <2>4
<1>8. RefusedRereads'
  <2> SUFFICES ASSUME NEW s \in Call, call'[s].refused
               PROVE  call'[s].pc = "reread" /\ profile'[call'[s].user] # None
    BY DEF RefusedRereads, at
  <2>1. s # p /\ call'[s] = call[s]
    BY <1>2
  <2>2. call[s].pc = "reread" /\ profile[call[s].user] # None
    BY <2>1 DEF ProfileInv, RefusedRereads, at
  <2>3. call[s].user \in User
    BY <2>2 DEF ProfileInv, TypeOK
  <2> QED
    BY <2>1, <2>2, <2>3, <1>3, <1>5
<1>9. OneIdentity'
  <2> SUFFICES ASSUME NEW a \in answered' PROVE profile'[a[1]] = a[2]
    BY DEF OneIdentity
  <2>1. CASE a = <<u, i>>
    BY <2>1, <1>5
  <2>2. CASE a \in answered
    <3>1. a[1] \in User /\ a[2] \in Id /\ profile[a[1]] = a[2]
      BY <2>2 DEF ProfileInv, TypeOK, OneIdentity
    <3> QED
      BY <3>1, <1>4, <1>5, ProvisioningConstants
  <2> QED
    BY <2>1, <2>2
<1>10. NobodyStranded'
  <2>1. ASSUME NEW v \in User, profile'[v] # None
        PROVE  profile'[v] \in clans' /\ profile'[v] \in admins'
    BY <2>1, <1>5 DEF ProfileInv, NobodyStranded, Publish
  <2>2. ASSUME NEW id \in clans' \cup admins' PROVE \E v \in User : profile'[v] = id
    <3>1. CASE id = i
      BY <3>1, <1>3, <1>5
    <3>2. CASE id \in clans \cup admins
      <4>1. PICK v \in User : profile[v] = id
        BY <3>2 DEF ProfileInv, NobodyStranded
      <4>2. id # None
        BY <3>2, ProvisioningConstants DEF ProfileInv, TypeOK
      <4> QED
        BY <4>1, <4>2, <1>4, <1>5
    <3> QED
      BY <2>2, <3>1, <3>2 DEF Publish
  <2> QED
    BY <2>1, <2>2 DEF NobodyStranded
<1> QED
  BY <1>6, <1>7, <1>8, <1>9, <1>10 DEF ProfileInv

-----------------------------------------------------------------------------
(* One step per action.                                                     *)

LEMMA NoCallFacts ==
  NoCall \in CallState /\ NoCall.pc = "idle" /\ ~NoCall.refused
BY DEF NoCall, CallState

\* What the invariant says of one call and its user's profile.
LEMMA CallFacts ==
  ASSUME ProfileInv, NEW p \in Call, ~at(p, "idle")
  PROVE  /\ call[p] \in CallState /\ call[p].user \in registered /\ call[p].user \in User
         /\ profile[call[p].user] \in Id \cup {None}
         /\ call[p].refused => at(p, "reread")
BY DEF ProfileInv, TypeOK, at, RefusedRereads

\* Answering with the profile that was found.
LEMMA AnswersFound ==
  ASSUME ProfileInv, NEW p \in Call, ~at(p, "idle"),
         profile[call[p].user] # None, Answer(p, profile[call[p].user]),
         UNCHANGED <<registered, profile, clans, admins, nextId, failures>>
  PROVE  ProfileInv'
<1>1. /\ call[p].user \in User
      /\ profile[call[p].user] \in Id
  BY CallFacts
<1>2. answered' \subseteq User \X Id
  BY <1>1 DEF ProfileInv, TypeOK, Answer
<1>3. \A a \in answered' : profile[a[1]] = a[2]
  BY DEF ProfileInv, OneIdentity, Answer
<1>4. /\ call' = [call EXCEPT ![p] = NoCall]
      /\ registered' \subseteq User /\ registered \subseteq registered'
      /\ nextId' \in 1..(MaxIds + 1) /\ failures' \in 0..MaxFailures
  BY DEF Answer, ProfileInv, TypeOK
<1> QED
  BY <1>2, <1>3, <1>4, NoCallFacts, StaysOutside DEF TxStage

\* A call that moves on, or stops, outside a transaction and publishes nothing.
LEMMA MovesOutside ==
  ASSUME ProfileInv, NEW p \in Call, NEW q \in CallState,
         call' = [call EXCEPT ![p] = q],
         q.pc \notin TxStage, q.pc # "idle" => q.user \in registered,
         q.refused => q.pc = "reread" /\ profile[q.user] # None,
         UNCHANGED <<registered, profile, clans, admins, nextId, answered>>,
         failures' \in 0..MaxFailures
  PROVE  ProfileInv'
<1>1. /\ registered' \subseteq User /\ nextId' \in 1..(MaxIds + 1)
      /\ answered' \subseteq User \X Id /\ \A a \in answered' : profile[a[1]] = a[2]
  BY DEF ProfileInv, TypeOK, OneIdentity
<1> QED
  BY <1>1, StaysOutside

LEMMA ReadStep ==
  ASSUME ProfileInv, NEW p \in Call, Resolve(p) \/ Check(p) \/ Reread(p)
  PROVE  ProfileInv'
<1> DEFINE q(pc) == [call[p] EXCEPT !.pc = pc]
<1>1. ~at(p, "idle") /\ UNCHANGED <<registered, profile, clans, admins, nextId, failures>>
  BY DEF Resolve, Check, Reread, at
<1>2. failures' \in 0..MaxFailures
  BY <1>1 DEF ProfileInv, TypeOK
<1>3. CASE profile[call[p].user] # None
  BY <1>1, <1>3, AnswersFound DEF Resolve, Check, Reread
<1>4. CASE profile[call[p].user] = None /\ Resolve(p)
  <2>1. call' = [call EXCEPT ![p] = q("check")] /\ UNCHANGED answered
    BY <1>4 DEF Resolve, Goto
  <2>2. q("check") \in CallState /\ q("check").pc = "check"
        /\ q("check").user \in registered /\ ~q("check").refused
    BY <1>1, <1>4, CallFacts DEF CallState, Resolve, at
  <2> QED
    BY <2>1, <2>2, <1>1, <1>2, MovesOutside DEF TxStage
<1>5. CASE profile[call[p].user] = None /\ Check(p)
  <2>1. call' = [call EXCEPT ![p] = q("insert")] /\ UNCHANGED answered
    BY <1>5 DEF Check, Goto
  <2>2. q("insert") \in CallState /\ q("insert").pc = "insert"
        /\ q("insert").user \in registered /\ ~q("insert").refused
    BY <1>1, <1>5, CallFacts DEF CallState, Check, at
  <2> QED
    BY <2>1, <2>2, <1>1, <1>2, MovesOutside DEF TxStage
<1>6. CASE profile[call[p].user] = None /\ Reread(p)
  <2>1. call' = [call EXCEPT ![p] = NoCall] /\ UNCHANGED answered
    BY <1>6 DEF Reread
  <2> QED
    BY <2>1, <1>1, <1>2, NoCallFacts, MovesOutside DEF TxStage
<1> QED
  BY <1>3, <1>4, <1>5, <1>6

LEMMA InsertStep ==
  ASSUME ProfileInv, NEW p \in Call, InsertProfile(p)
  PROVE  ProfileInv'
<1>1. ~at(p, "idle") /\ ~call[p].refused
  BY CallFacts DEF InsertProfile, at
<1>2. CASE profile[call[p].user] # None /\ Refused(p)
  <2> DEFINE q == [call[p] EXCEPT !.pc = "reread", !.refused = TRUE]
  <2>1. call' = [call EXCEPT ![p] = q] /\ failures' \in 0..MaxFailures
    BY <1>2 DEF Refused, InsertProfile, ProfileInv, TypeOK
  <2>2. q \in CallState /\ q.pc = "reread" /\ q.user = call[p].user /\ q.user \in registered
    BY <1>1, CallFacts DEF CallState
  <2> QED
    BY <1>2, <2>1, <2>2, MovesOutside DEF TxStage, InsertProfile, Refused
<1>3. CASE profile[call[p].user] = None /\ Inserted(p)
  <2> DEFINE q == [call[p] EXCEPT !.pc = "clan", !.id = nextId]
  <2>1. nextId \in Id /\ nextId' \in 1..(MaxIds + 1)
    BY <1>3, ProvisioningConstants DEF Inserted, Id, ProfileInv, TypeOK
  <2>2. call' = [call EXCEPT ![p] = q]
    BY <1>3 DEF Inserted
  <2>3. /\ q \in CallState /\ q.pc = "clan" /\ q.id \in Id /\ ~q.refused
        /\ q.user = call[p].user /\ q.user \in registered
    BY <1>1, <2>1, CallFacts DEF CallState
  <2>4. ~ \E s \in Call \ {p} : inTx(s) /\ call[s].user = q.user
    BY <2>3 DEF InsertProfile, Contended
  <2> QED
    BY <1>3, <2>1, <2>2, <2>3, <2>4, StaysInside DEF TxStage, InsertProfile
<1> QED
  BY <1>2, <1>3 DEF InsertProfile

LEMMA TransactionStep ==
  ASSUME ProfileInv, NEW p \in Call, InsertClan(p) \/ InsertMember(p)
  PROVE  ProfileInv'
<1>1. PICK pc \in {"member", "commit"} : Goto(p, pc) /\ inTx(p)
  BY DEF InsertClan, InsertMember, inTx, at
<1> DEFINE q == [call[p] EXCEPT !.pc = pc]
<1>2. call' = [call EXCEPT ![p] = q]
  BY <1>1 DEF Goto
<1>3. /\ ~at(p, "idle") /\ ~call[p].refused /\ call[p].id \in Id
      /\ call[p] \in CallState /\ call[p].user \in registered
  BY <1>1, CallFacts DEF inTx, at, ProfileInv, TypeOK
<1>4. /\ q \in CallState /\ q.pc \in TxStage /\ q.id \in Id /\ ~q.refused
      /\ q.user = call[p].user /\ q.user \in registered
  BY <1>3 DEF CallState, TxStage
<1>5. profile[q.user] = None /\ ~ \E s \in Call \ {p} : inTx(s) /\ call[s].user = q.user
  BY <1>1, <1>4 DEF ProfileInv, TxAlone
<1>6. nextId' \in 1..(MaxIds + 1)
  BY DEF InsertClan, InsertMember, ProfileInv, TypeOK
<1> QED
  BY <1>2, <1>4, <1>5, <1>6, StaysInside DEF InsertClan, InsertMember

LEMMA CommitStep ==
  ASSUME ProfileInv, NEW p \in Call, Commit(p)
  PROVE  ProfileInv'
<1>1. inTx(p) /\ UNCHANGED <<registered, nextId, failures>> /\ Publish(p)
  BY DEF Commit, inTx, at
<1>2. call' = [call EXCEPT ![p] = NoCall]
      /\ answered' \subseteq answered \cup {<<call[p].user, call[p].id>>}
  BY DEF Commit, Answer
<1>3. nextId' \in 1..(MaxIds + 1) /\ failures' \in 0..MaxFailures
  BY <1>1 DEF ProfileInv, TypeOK
<1> QED
  BY <1>1, <1>2, <1>3, NoCallFacts, Publishes DEF TxStage

LEMMA FailStep ==
  ASSUME ProfileInv, NEW p \in Call, Fail(p) \/ Crash(p)
  PROVE  ProfileInv'
<1> DEFINE q == [call[p] EXCEPT !.pc = "reread", !.id = None]
<1>1. /\ ~at(p, "idle") /\ UNCHANGED <<registered, nextId, answered>>
      /\ failures' \in 0..MaxFailures
  BY ProvisioningConstants DEF Fail, Crash, ProfileInv, TypeOK
<1>2. CASE call' = [call EXCEPT ![p] = NoCall] /\ UNCHANGED <<profile, clans, admins>>
  BY <1>1, <1>2, NoCallFacts, MovesOutside DEF TxStage
<1>3. ASSUME inTx(p) \/ at(p, "insert"), call' = [call EXCEPT ![p] = q]
      PROVE  q \in CallState /\ q.pc = "reread" /\ q.user \in registered /\ ~q.refused
  BY <1>1, <1>3, CallFacts DEF CallState, inTx, at
<1>4. CASE /\ inTx(p) \/ at(p, "insert")
           /\ call' = [call EXCEPT ![p] = q]
           /\ UNCHANGED <<profile, clans, admins>>
  BY <1>1, <1>3, <1>4, MovesOutside DEF TxStage
<1>5. CASE at(p, "commit") /\ call' = [call EXCEPT ![p] = q] /\ Publish(p)
  <2>1. inTx(p)
    BY <1>5 DEF inTx, at
  <2>2. nextId' \in 1..(MaxIds + 1)
    BY <1>1 DEF ProfileInv, TypeOK
  <2> QED
    BY <1>1, <1>3, <1>5, <2>1, <2>2, Publishes DEF TxStage
<1> QED
  BY <1>2, <1>4, <1>5 DEF Fail, Crash

LEMMA ArrivalStep ==
  ASSUME ProfileInv, NEW p \in Call, NEW u \in User, SignUp(p, u) \/ Session(p, u)
  PROVE  ProfileInv'
<1>1. PICK pc \in {"check", "resolve"} : Begin(p, u, pc)
  BY DEF SignUp, Session
<1> DEFINE q == [NoCall EXCEPT !.pc = pc, !.user = u]
<1>2. call' = [call EXCEPT ![p] = q]
  BY <1>1 DEF Begin
<1>3. q \in CallState /\ q.pc = pc /\ q.user = u /\ ~q.refused
  BY DEF NoCall, CallState
<1>4. /\ u \in registered' /\ registered \subseteq registered' /\ registered' \subseteq User
      /\ UNCHANGED <<profile, clans, admins, nextId, answered, failures>>
  BY DEF SignUp, Session, ProfileInv, TypeOK
<1>5. /\ nextId' \in 1..(MaxIds + 1) /\ failures' \in 0..MaxFailures
      /\ answered' \subseteq User \X Id /\ \A a \in answered' : profile[a[1]] = a[2]
  BY <1>4 DEF ProfileInv, TypeOK, OneIdentity
<1> QED
  BY <1>2, <1>3, <1>4, <1>5, StaysOutside DEF TxStage

LEMMA StutterStep == ProfileInv /\ UNCHANGED vars => ProfileInv'
BY DEF ProfileInv, TypeOK, TxAlone, RefusedRereads, OneIdentity, NobodyStranded, vars, inTx, at

\* The invariant is inductive.
LEMMA NextIInv == ProfileInv /\ [Next]_vars => ProfileInv'
<1> SUFFICES ASSUME ProfileInv, [Next]_vars PROVE ProfileInv'
  OBVIOUS
<1>1. ASSUME NEW p \in Call, NEW u \in User, SignUp(p, u) \/ Session(p, u) PROVE ProfileInv'
  BY <1>1, ArrivalStep
<1>2. ASSUME NEW p \in Call, Step(p) PROVE ProfileInv'
  BY <1>2, ReadStep, InsertStep, TransactionStep, CommitStep DEF Step
<1>3. ASSUME NEW p \in Call, Fail(p) \/ Crash(p) PROVE ProfileInv'
  BY <1>3, FailStep
<1> QED
  BY <1>1, <1>2, <1>3, StutterStep DEF Next

LEMMA Inductive == Spec => []ProfileInv
BY InitIInv, NextIInv, PTL DEF Spec

-----------------------------------------------------------------------------
(* Theorems.                                                                *)

\* No call of provisionProfile or requireAuth ever holds anything but what its
\* next await needs.
THEOREM ProfileTypeCorrect == Spec => []TypeOK
BY Inductive, PTL DEF ProfileInv

\* Whoever calls, how often and however calls fail or overlap, all ids ever
\* returned for a user are the id of that user's profile.
THEOREM IdentityIsOne == Spec => []OneIdentity
BY Inductive, PTL DEF ProfileInv

\* A profile comes with its personal clan and the admin row in it, always.
THEOREM NoneStranded == Spec => []NobodyStranded
BY Inductive, PTL DEF ProfileInv

\* The comment in provisionProfile's catch is right: re-reading is guaranteed
\* to find the winner's row.
THEOREM WinnerIsFound == Spec => []LoserFindsWinner
<1>1. ProfileInv => LoserFindsWinner
  BY DEF ProfileInv, RefusedRereads, LoserFindsWinner, at
<1> QED
  BY <1>1, Inductive, PTL

-----------------------------------------------------------------------------
(***************************************************************************)
(* That every tab tracks what the visitor allows, for any number of tabs:  *)
(* the invariant ties what an SDK does to what its effect last saw         *)
(* (EffectsInOrder), what a tab holds to what is stored (TabsAgree), and   *)
(* all of it to what was ever allowed (OnlyAsked).                         *)
(***************************************************************************)

\* The state of an SDK is a function of what its effect last saw.
EffectsInOrder ==
  \A w \in Window, c \in Categories :
    LET r == ran[w][c]
    IN  /\ r = Never => ~mounted[w][c] /\ ~tracking[w][c]
        /\ r # Never => /\ mounted[w][c] <=> r.mounted \/ r.allow
                        /\ tracking[w][c] <=> r.mounted /\ r.allow

\* A tab that nothing is on its way to holds what is stored.
TabsAgree ==
  /\ told \subseteq open
  /\ ~unsaved => \A w \in open \ told : held[w] = item

\* Nothing is stored, held or acted upon that was never allowed.
OnlyAsked == \A c \in Categories :
  /\ item # NoConsent /\ item[c] => c \in asked
  /\ \A w \in Window : /\ allow(w, c) => c \in asked
                       /\ ran[w][c] # Never /\ ran[w][c].allow => c \in asked

ConsentInv == ConsentTypeOK /\ EffectsInOrder /\ TabsAgree /\ OnlyAsked

-----------------------------------------------------------------------------

\* The starting state satisfies the invariant.
LEMMA ConsentStarts == ConsentInit => ConsentInv
<1> SUFFICES ASSUME ConsentInit PROVE ConsentInv
  OBVIOUS
<1> USE ConsentConstants DEF ConsentInit, Nothing, Choices
<1>1. ConsentTypeOK
  <2>1. mounted \in [Window -> Choices] /\ tracking \in [Window -> Choices]
    OBVIOUS
  <2>2. ran \in [Window -> [Categories -> Seen \cup {Never}]]
    <3> DEFINE fresh == [c \in Categories |-> Never]
    <3>1. fresh \in [Categories -> Seen \cup {Never}]
      OBVIOUS
    <3>2. ran = [w \in Window |-> fresh]
      OBVIOUS
    <3> HIDE DEF fresh
    <3> QED
      BY ONLY <3>1, <3>2
  <2>3. item \in Choices \cup {NoConsent} /\ held \in [Window -> Choices \cup {NoConsent}]
    OBVIOUS
  <2>4. loads \in 0..MaxLoads /\ choices \in 0..MaxChoices /\ refused \in 0..MaxUnsaved
    OBVIOUS
  <2>5. /\ gpc \in BOOLEAN /\ unsaved \in BOOLEAN
        /\ open \subseteq Window /\ told \subseteq Window /\ asked \subseteq Categories
    OBVIOUS
  <2> QED
    BY ONLY <2>1, <2>2, <2>3, <2>4, <2>5 DEF ConsentTypeOK
<1>2. EffectsInOrder
  BY DEF EffectsInOrder
<1>3. TabsAgree
  BY DEF TabsAgree
<1>4. OnlyAsked
  BY DEF OnlyAsked, allow
<1> QED
  BY <1>1, <1>2, <1>3, <1>4 DEF ConsentInv

\* A page that loads: it takes over what is stored, or stores a refusal.
LEMMA HydrateKeeps == ASSUME NEW w \in Window, ConsentInv, Hydrate(w) PROVE ConsentInv'
<1> USE ConsentConstants DEF ConsentInv
<1>0. Nothing \in Choices /\ \A c \in Categories : ~Nothing[c]
  BY DEF Nothing, Choices
<1>1. ConsentTypeOK'
  <2>1. held' \in [Window -> Choices \cup {NoConsent}] /\ item' \in Choices \cup {NoConsent}
    BY <1>0 DEF ConsentTypeOK, Hydrate, Write
  <2>2. loads' \in 0..MaxLoads /\ refused' \in 0..MaxUnsaved
    BY DEF ConsentTypeOK, Hydrate, Write
  <2>3. open' \subseteq Window /\ told' \subseteq Window /\ unsaved' \in BOOLEAN
    BY DEF ConsentTypeOK, Hydrate, Write
  <2> QED
    BY <2>1, <2>2, <2>3 DEF ConsentTypeOK, Hydrate
<1>2. EffectsInOrder'
  BY DEF EffectsInOrder, Hydrate
<1>3. TabsAgree'
  BY <1>0 DEF TabsAgree, Hydrate, Write, ConsentTypeOK
<1>4. OnlyAsked'
  BY <1>0 DEF OnlyAsked, Hydrate, Write, allow, ConsentTypeOK
<1> QED
  BY <1>1, <1>2, <1>3, <1>4

\* A choice, stored or not.
LEMMA SetConsentKeeps == ASSUME NEW w \in Window, ConsentInv, SetConsent(w) PROVE ConsentInv'
<1> USE ConsentConstants DEF ConsentInv
<1> PICK d \in Choices : SetConsent(w)!(d)
  BY DEF SetConsent
<1>1. ConsentTypeOK'
  <2>1. held' \in [Window -> Choices \cup {NoConsent}] /\ item' \in Choices \cup {NoConsent}
    BY DEF ConsentTypeOK, Write
  <2>2. choices' \in 0..MaxChoices /\ refused' \in 0..MaxUnsaved
    BY DEF ConsentTypeOK, Write
  <2>3. told' \subseteq Window /\ asked' \subseteq Categories /\ unsaved' \in BOOLEAN
    BY DEF ConsentTypeOK, Write
  <2> QED
    BY <2>1, <2>2, <2>3 DEF ConsentTypeOK
<1>2. EffectsInOrder'
  BY DEF EffectsInOrder
<1>3. TabsAgree'
  BY DEF TabsAgree, Write, ConsentTypeOK
<1>4. OnlyAsked'
  BY DEF OnlyAsked, Write, allow, ConsentTypeOK
<1> QED
  BY <1>1, <1>2, <1>3, <1>4

\* A storage event is handled.
LEMMA OnStorageKeeps == ASSUME NEW w \in Window, ConsentInv, OnStorage(w) PROVE ConsentInv'
<1> USE DEF ConsentInv, OnStorage
<1>1. ConsentTypeOK'
  BY DEF ConsentTypeOK
<1>2. EffectsInOrder'
  BY DEF EffectsInOrder
<1>3. TabsAgree'
  BY DEF TabsAgree, ConsentTypeOK
<1>4. OnlyAsked'
  BY DEF OnlyAsked, allow, ConsentTypeOK
<1> QED
  BY <1>1, <1>2, <1>3, <1>4

\* An effect runs: each of the five things it may have seen last, with what it sees.
LEMMA RunEffectKeeps ==
  ASSUME NEW w \in Window, NEW c \in Categories, ConsentInv, RunEffect(w, c)
  PROVE  ConsentInv'
<1> USE ConsentConstants DEF ConsentInv
<1> DEFINE now == sees(w, c)
<1>0. now \in Seen
  BY DEF sees, allow, Seen, ConsentTypeOK, Choices
<1>1. ConsentTypeOK'
  <2>1. mounted' \in [Window -> Choices] /\ tracking' \in [Window -> Choices]
    BY <1>0 DEF ConsentTypeOK, RunEffect, Effect, Seen, Choices
  <2>2. ran' \in [Window -> [Categories -> Seen \cup {Never}]]
    BY <1>0 DEF ConsentTypeOK, RunEffect, Effect, Seen
  <2> QED
    BY <2>1, <2>2 DEF ConsentTypeOK, RunEffect, Effect, Seen
<1>2. EffectsInOrder'
  <2> SUFFICES ASSUME NEW v \in Window, NEW d \in Categories
               PROVE  /\ ran'[v][d] = Never => ~mounted'[v][d] /\ ~tracking'[v][d]
                      /\ ran'[v][d] # Never => /\ mounted'[v][d] <=> ran'[v][d].mounted \/ ran'[v][d].allow
                                               /\ tracking'[v][d] <=> ran'[v][d].mounted /\ ran'[v][d].allow
    BY DEF EffectsInOrder
  <2>1. CASE v # w \/ d # c
    <3>1. ran'[v][d] = ran[v][d] /\ mounted'[v][d] = mounted[v][d] /\ tracking'[v][d] = tracking[v][d]
      BY <2>1 DEF RunEffect, Effect, ConsentTypeOK, Choices
    <3> QED
      BY <3>1 DEF EffectsInOrder
  <2>2. CASE v = w /\ d = c
    <3>1. /\ ran'[w][c] = now
          /\ mounted'[w][c] = (mounted[w][c] \/ now.allow)
      BY DEF RunEffect, Effect, ConsentTypeOK, Choices
    <3>2. now.mounted = mounted[w][c]
      BY DEF sees
    <3>3. tracking'[w][c] <=> now.mounted /\ now.allow
      <4> DEFINE r == ran[w][c]
                 previous == r # Never /\ r.allow
                 starts == now.mounted /\ ~(r # Never /\ r.mounted)
                 on == tracking[w][c] \/ starts
      <4>1. tracking'[w][c] = IF now.allow /\ ~now.mounted THEN on
                              ELSE IF previous /\ ~now.allow THEN FALSE
                              ELSE IF ~previous /\ r # Never /\ now.allow THEN TRUE
                              ELSE on
        BY DEF RunEffect, Effect, ConsentTypeOK, Choices
      <4>2. r \in Seen \cup {Never} /\ tracking[w][c] \in BOOLEAN /\ mounted[w][c] \in BOOLEAN
        BY DEF ConsentTypeOK, Choices, Seen
      <4>3. /\ r = Never => ~mounted[w][c] /\ ~tracking[w][c]
            /\ r # Never => /\ mounted[w][c] <=> r.mounted \/ r.allow
                            /\ tracking[w][c] <=> r.mounted /\ r.allow
        BY DEF EffectsInOrder
      <4> HIDE DEF now
      <4> QED
        BY <1>0, <3>2, <4>1, <4>2, <4>3 DEF Seen
    <3>4. now # Never
      BY <1>0
    <3> QED
      BY <2>2, <3>1, <3>2, <3>3, <3>4
  <2> QED
    BY <2>1, <2>2
<1>3. TabsAgree'
  BY DEF TabsAgree, RunEffect, Effect
<1>4. OnlyAsked'
  <2>1. \A v \in Window, d \in Categories : ran'[v][d] = IF v = w /\ d = c THEN now ELSE ran[v][d]
    BY DEF RunEffect, Effect, ConsentTypeOK
  <2>2. now.allow = allow(w, c)
    BY DEF sees
  <2>3. item' = item /\ asked' = asked /\ \A v \in Window, d \in Categories : allow(v, d)' = allow(v, d)
    BY DEF RunEffect, Effect, allow
  <2> HIDE DEF now
  <2>4. SUFFICES ASSUME NEW v \in Window, NEW d \in Categories, ran'[v][d] # Never, ran'[v][d].allow
                 PROVE  d \in asked
    BY <2>3 DEF OnlyAsked
  <2> QED
    BY <2>1, <2>2, <2>4 DEF OnlyAsked
<1> QED
  BY <1>1, <1>2, <1>3, <1>4

\* A tab is closed.
LEMMA CloseKeeps == ASSUME NEW w \in Window, ConsentInv, Close(w) PROVE ConsentInv'
<1> USE DEF ConsentInv, Close
<1>0. Nothing \in Choices /\ \A c \in Categories : ~Nothing[c]
  BY DEF Nothing, Choices
<1>1. ConsentTypeOK'
  <2>1. mounted' \in [Window -> Choices] /\ tracking' \in [Window -> Choices]
    BY <1>0 DEF ConsentTypeOK
  <2>2. ran' \in [Window -> [Categories -> Seen \cup {Never}]]
    <3> DEFINE fresh == [c \in Categories |-> Never]
    <3>1. fresh \in [Categories -> Seen \cup {Never}]
      OBVIOUS
    <3>2. ran' = [ran EXCEPT ![w] = fresh]
      OBVIOUS
    <3>3. ran \in [Window -> [Categories -> Seen \cup {Never}]]
      BY DEF ConsentTypeOK
    <3> HIDE DEF fresh
    <3> QED
      BY ONLY <3>1, <3>2, <3>3
  <2> QED
    BY <2>1, <2>2 DEF ConsentTypeOK
<1>2. EffectsInOrder'
  BY <1>0 DEF EffectsInOrder, ConsentTypeOK
<1>3. TabsAgree'
  BY DEF TabsAgree, ConsentTypeOK
<1>4. OnlyAsked'
  BY DEF OnlyAsked, allow, ConsentTypeOK
<1> QED
  BY <1>1, <1>2, <1>3, <1>4

LEMMA ConsentInvKept == ConsentInv /\ [ConsentNext]_consentVars => ConsentInv'
<1> SUFFICES ASSUME ConsentInv, [ConsentNext]_consentVars PROVE ConsentInv'
  OBVIOUS
<1>1. CASE UNCHANGED consentVars
  BY <1>1 DEF consentVars, ConsentInv, ConsentTypeOK, EffectsInOrder, TabsAgree, OnlyAsked, allow
<1>2. CASE ConsentNext
  <2> PICK w \in Window : ConsentNext!(w)
    BY <1>2 DEF ConsentNext
  <2> QED
    BY HydrateKeeps, SetConsentKeeps, OnStorageKeeps, CloseKeeps, RunEffectKeeps
<1> QED
  BY <1>1, <1>2

\* The invariant holds in every reachable state.
THEOREM ConsentInvariant == ConsentSpec => []ConsentInv
BY ConsentStarts, ConsentInvKept, PTL DEF ConsentSpec

\* TracksAsAllowed for any number of tabs and choices: no SDK records what was
\* never allowed, and a tab that has caught up records what was last allowed.
THEOREM TrackingIsAllowed == ConsentSpec => []TracksAsAllowed
<1>1. ConsentInv => TracksAsAllowed
  <2> SUFFICES ASSUME ConsentInv, NEW w \in open, NEW c \in Categories
               PROVE  /\ tracking[w][c] => c \in asked
                      /\ (w \notin told /\ ~Due(w, c) /\ ~unsaved) =>
                           (tracking[w][c] <=> item # NoConsent /\ item[c])
    BY DEF TracksAsAllowed
  <2> USE ConsentConstants DEF ConsentInv
  <2>1. w \in Window
    BY DEF ConsentTypeOK
  <2>2. tracking[w][c] => c \in asked
    BY <2>1 DEF EffectsInOrder, OnlyAsked
  <2>3. ASSUME w \notin told, ~Due(w, c), ~unsaved
        PROVE  tracking[w][c] <=> item # NoConsent /\ item[c]
    <3>1. ran[w][c] = sees(w, c)
      BY <2>3 DEF Due
    <3>2. sees(w, c) \in Seen
      BY <2>1 DEF sees, allow, Seen, ConsentTypeOK, Choices
    <3>3. sees(w, c).allow = allow(w, c) /\ sees(w, c).mounted = mounted[w][c]
      BY DEF sees
    <3>4. tracking[w][c] <=> mounted[w][c] /\ allow(w, c)
      BY <2>1, <3>1, <3>2, <3>3 DEF EffectsInOrder
    <3>5. allow(w, c) => mounted[w][c]
      BY <2>1, <3>1, <3>2, <3>3 DEF EffectsInOrder
    <3>6. held[w] = item
      BY <2>3 DEF TabsAgree
    <3> QED
      BY <3>4, <3>5, <3>6 DEF allow
  <2> QED
    BY <2>2, <2>3
<1> QED
  BY ConsentInvariant, <1>1, PTL

-----------------------------------------------------------------------------
(***************************************************************************)
(* That every picture a profile shows and every path a row holds has its   *)
(* bytes, unless two calls were at the same picture or path (Blobs says    *)
(* when). An upload under way and a row have their path to themselves      *)
(* (UploadsAlone, RowsAlone); a call knows what it is about to delete      *)
(* (BlobCallOK).                                                           *)
(***************************************************************************)

BlobPc == {"idle", "upload", "set", "discard", "put", "finalize", "load", "delete row", "delete blob"}

BlobRow == [pc: BlobPc, picture: Picture \cup {NoPicture}, previous: Picture \cup {NoPicture},
            path: Path \cup {NoFile}, file: File \cup {NoFile}]

\* What a call is about to store, delete or point at.
BlobCallOK(q) ==
  /\ q.pc = "upload" => q.picture \in Picture
  /\ q.pc = "set" /\ q.picture # NoPicture => q.picture \in blobs
  /\ q.pc = "discard" => q.previous = q.picture
  /\ q.pc \in {"put", "finalize", "delete row", "delete blob"} => q.path \in Path
  /\ q.pc \in {"load", "delete row"} => q.file \in File
  /\ q.pc = "delete row" => files[q.file] \in {q.path, UsedFile}
  /\ q.pc = "finalize" /\ q.path \notin shared => q.path \in blobs

\* An upload that is on its way has its path to itself.
UploadsAlone ==
  \A j, k \in BlobCall :
    (j # k /\ blobCalls[j].pc \in {"put", "finalize"} /\ blobCalls[j].path \notin shared)
      => blobCalls[k].path # blobCalls[j].path

\* A row has its path to itself, and only calls that delete the row know the path.
RowsAlone ==
  \A f \in File : listed(f) /\ files[f] \notin shared =>
    /\ files[f] \in blobs
    /\ \A g \in File : files[g] = files[f] => g = f
    /\ \A k \in BlobCall : blobCalls[k].path = files[f] =>
         /\ blobCalls[k].pc \notin {"put", "finalize", "delete blob"}
         /\ blobCalls[k].pc = "delete row" => blobCalls[k].file = f

BlobInv ==
  /\ BlobTypeOK
  /\ \A k \in BlobCall : BlobCallOK(blobCalls[k])
  /\ UploadsAlone
  /\ RowsAlone
  /\ avatar # NoPicture => avatar \in blobs

-----------------------------------------------------------------------------

LEMMA BlobStarts == BlobInit => BlobInv
<1> SUFFICES ASSUME BlobInit PROVE BlobInv
  OBVIOUS
<1> USE BlobConstants DEF BlobInit, AtEase
<1>1. BlobTypeOK
  BY DEF BlobTypeOK
<1>2. \A k \in BlobCall : BlobCallOK(blobCalls[k])
  BY DEF BlobCallOK
<1>3. UploadsAlone /\ RowsAlone
  BY DEF UploadsAlone, RowsAlone, listed
<1> QED
  BY <1>1, <1>2, <1>3 DEF BlobInv

\* What the invariant says of one slot, for the lemmas below.
LEMMA BlobShape ==
  ASSUME BlobInv, NEW k \in BlobCall
  PROVE  /\ blobCalls[k] \in BlobRow /\ BlobCallOK(blobCalls[k])
         /\ AtEase \in BlobRow /\ AtEase.pc = "idle" /\ AtEase.path = NoFile
  BY DEF BlobInv, BlobTypeOK, BlobRow, BlobPc, AtEase

\* A slot is given a call that holds no path, or only one it held before; nothing
\* but pictures comes to storage.
LEMMA HarmlessKeeps ==
  ASSUME BlobInv, NEW k \in BlobCall, NEW q \in BlobRow,
         blobCalls' = [blobCalls EXCEPT ![k] = q], files' = files, shared' = shared,
         avatar' \in Picture \cup {NoPicture}, avatar' # NoPicture => avatar' \in blobs',
         blobs \subseteq blobs', blobs' \subseteq Picture \cup Path,
         blobServed' \in 0..MaxBlobCalls, blobFailed' \in 0..MaxBlobFails,
         q.pc \in {"idle", "upload", "set", "discard", "load"}, q.path \in {NoFile, blobCalls[k].path},
         q.pc = "upload" => q.picture \in Picture,
         q.pc = "set" /\ q.picture # NoPicture => q.picture \in blobs',
         q.pc = "discard" => q.previous = q.picture,
         q.pc = "load" => q.file \in File
  PROVE  BlobInv'
<1>1. \A j \in BlobCall : blobCalls'[j] = IF j = k THEN q ELSE blobCalls[j]
  BY DEF BlobInv, BlobTypeOK
<1>2. BlobTypeOK'
  BY BlobConstants DEF BlobInv, BlobTypeOK, BlobRow, BlobPc
<1>3. \A j \in BlobCall : BlobCallOK(blobCalls[j])'
  <2> SUFFICES ASSUME NEW j \in BlobCall PROVE BlobCallOK(blobCalls[j])'
    OBVIOUS
  <2>1. CASE j = k
    BY <1>1, <2>1 DEF BlobCallOK
  <2>2. CASE j # k
    <3>1. blobCalls'[j] = blobCalls[j] /\ BlobCallOK(blobCalls[j])
      BY <1>1, <2>2 DEF BlobInv
    <3>2. files' = files /\ shared' = shared /\ \A x : x \in blobs => x \in blobs'
      OBVIOUS
    <3> QED
      BY ONLY <3>1, <3>2 DEF BlobCallOK
  <2> QED
    BY <2>1, <2>2
<1>4. UploadsAlone'
  <2> SUFFICES ASSUME NEW i \in BlobCall, NEW j \in BlobCall, i # j, blobCalls'[i].pc \in {"put", "finalize"},
                      blobCalls'[i].path \notin shared
               PROVE  blobCalls'[j].path # blobCalls'[i].path
    BY DEF UploadsAlone
  <2>1. i # k /\ blobCalls[i].path \in Path
    BY <1>1, BlobShape DEF BlobCallOK
  <2> QED
    BY <1>1, <2>1, BlobConstants DEF BlobInv, UploadsAlone
<1>5. RowsAlone'
  <2>1. files' = files /\ shared' = shared /\ \A x : x \in blobs => x \in blobs'
    OBVIOUS
  <2>2. RowsAlone /\ q.pc \notin {"put", "finalize", "delete blob", "delete row"}
    BY DEF BlobInv
  <2> SUFFICES ASSUME NEW f \in File, listed(f)', files'[f] \notin shared'
               PROVE  /\ files'[f] \in blobs'
                      /\ \A g \in File : files'[g] = files'[f] => g = f
                      /\ \A j \in BlobCall : blobCalls'[j].path = files'[f] =>
                           /\ blobCalls'[j].pc \notin {"put", "finalize", "delete blob"}
                           /\ blobCalls'[j].pc = "delete row" => blobCalls'[j].file = f
    BY DEF RowsAlone
  <2>3. listed(f) /\ files[f] \notin shared
    BY <2>1 DEF listed
  <2>4. /\ files[f] \in blobs
        /\ \A g \in File : files[g] = files[f] => g = f
        /\ \A j \in BlobCall : blobCalls[j].path = files[f] =>
             /\ blobCalls[j].pc \notin {"put", "finalize", "delete blob"}
             /\ blobCalls[j].pc = "delete row" => blobCalls[j].file = f
    BY ONLY f \in File, <2>2, <2>3 DEF RowsAlone
  <2>5. files'[f] \in blobs' /\ \A g \in File : files'[g] = files'[f] => g = f
    BY ONLY <2>1, <2>4
  <2>6. ASSUME NEW j \in BlobCall, blobCalls'[j].path = files'[f]
        PROVE  /\ blobCalls'[j].pc \notin {"put", "finalize", "delete blob"}
               /\ blobCalls'[j].pc = "delete row" => blobCalls'[j].file = f
    BY ONLY <1>1, <2>1, <2>2, <2>4, <2>6
  <2> QED
    BY <2>5, <2>6
<1> QED
  BY <1>2, <1>3, <1>4, <1>5 DEF BlobInv

\* The counters stay within their bounds.
LEMMA BlobCounts ==
  ASSUME BlobTypeOK, NEW k
  PROVE  /\ \A q : BlobStart(k, q) => blobServed' \in 0..MaxBlobCalls /\ blobFailed' \in 0..MaxBlobFails
         /\ \A q : BlobGo(k, q) => blobServed' \in 0..MaxBlobCalls /\ blobFailed' \in 0..MaxBlobFails
         /\ BlobFails(k) \/ DropFiles => blobServed' \in 0..MaxBlobCalls /\ blobFailed' \in 0..MaxBlobFails
<1>1. /\ blobServed \in 0..MaxBlobCalls /\ blobFailed \in 0..MaxBlobFails
      /\ MaxBlobCalls \in Nat /\ MaxBlobFails \in Nat
  BY BlobConstants DEF BlobTypeOK
<1>2. ASSUME blobServed < MaxBlobCalls, blobServed' = blobServed + 1 PROVE blobServed' \in 0..MaxBlobCalls
  BY ONLY <1>1, <1>2
<1>3. ASSUME blobFailed < MaxBlobFails, blobFailed' = blobFailed + 1 PROVE blobFailed' \in 0..MaxBlobFails
  BY ONLY <1>1, <1>3
<1> QED
  BY ONLY <1>1, <1>2, <1>3 DEF BlobStart, BlobGo, BlobFails, DropFiles

\* The avatar changes, an attachment's deletion begins or ends, or a step fails.
LEMMA AvatarKeeps ==
  ASSUME BlobInv, NEW k \in BlobCall,
         ChangeAvatar(k) \/ UploadAvatar(k) \/ setAvatarUrl(k) \/ discardPreviousAvatar(k)
           \/ DeleteAttachment(k) \/ BlobFails(k)
  PROVE  BlobInv'
<1> DEFINE old == blobCalls[k]
<1>0. old \in BlobRow /\ BlobCallOK(old) /\ BlobTypeOK /\ (avatar # NoPicture => avatar \in blobs)
  BY BlobShape DEF BlobInv
<1>1. CASE ChangeAvatar(k)
  <2>0. PICK p \in Picture \cup {NoPicture} :
        /\ BlobStart(k, [AtEase EXCEPT !.pc = IF p = NoPicture THEN "set" ELSE "upload", !.picture = p])
        /\ UNCHANGED shared
    BY <1>1 DEF ChangeAvatar
  <2> DEFINE q == [AtEase EXCEPT !.pc = IF p = NoPicture THEN "set" ELSE "upload", !.picture = p]
  <2>1. /\ q \in BlobRow /\ q.pc \in {"set", "upload"} /\ q.path = NoFile
        /\ q.pc = "upload" => q.picture \in Picture
        /\ q.pc = "set" => q.picture = NoPicture
    BY DEF BlobRow, BlobPc, AtEase
  <2> HIDE DEF q
  <2>2. BlobStart(k, q) /\ shared' = shared
    BY <2>0 DEF q
  <2>3. /\ blobCalls' = [blobCalls EXCEPT ![k] = q]
        /\ files' = files /\ blobs' = blobs /\ avatar' = avatar
    BY ONLY <2>2 DEF BlobStart
  <2>4. blobServed' \in 0..MaxBlobCalls /\ blobFailed' \in 0..MaxBlobFails
    BY ONLY <1>0, <2>2, BlobCounts
  <2>5. /\ avatar' \in Picture \cup {NoPicture} /\ (avatar' # NoPicture => avatar' \in blobs')
        /\ blobs \subseteq blobs' /\ blobs' \subseteq Picture \cup Path
    BY ONLY <1>0, <2>3 DEF BlobTypeOK
  <2> QED
    BY ONLY k \in BlobCall, BlobInv, <2>1, <2>2, <2>3, <2>4, <2>5, HarmlessKeeps
<1>2. CASE UploadAvatar(k)
  <2> DEFINE q == [old EXCEPT !.pc = "set"]
  <2>1. q \in BlobRow /\ q.pc = "set" /\ q.path = old.path /\ q.picture = old.picture /\ old.picture \in Picture
    BY <1>0, <1>2 DEF BlobRow, BlobPc, UploadAvatar, BlobCallOK
  <2>2. /\ blobCalls' = [blobCalls EXCEPT ![k] = q] /\ q.picture \in blobs'
        /\ files' = files /\ shared' = shared /\ blobs \subseteq blobs' /\ blobs' \subseteq Picture \cup Path
        /\ avatar' \in Picture \cup {NoPicture} /\ (avatar' # NoPicture => avatar' \in blobs')
        /\ blobServed' \in 0..MaxBlobCalls /\ blobFailed' \in 0..MaxBlobFails
    BY <1>0, <1>2, <2>1 DEF UploadAvatar, BlobGo, BlobTypeOK
  <2> HIDE DEF q
  <2> QED
    BY ONLY k \in BlobCall, BlobInv, <2>1, <2>2, HarmlessKeeps
<1>3. CASE setAvatarUrl(k)
  <2> DEFINE q == [old EXCEPT !.pc = "discard", !.previous = avatar']
  <2>1. /\ old.pc = "set" /\ avatar' = old.picture /\ blobCalls' = [blobCalls EXCEPT ![k] = q]
        /\ UNCHANGED <<blobs, files, shared, blobServed, blobFailed>>
    BY <1>3 DEF setAvatarUrl, BlobGo
  <2>2. q \in BlobRow /\ q.pc = "discard" /\ q.path = old.path /\ q.picture = old.picture /\ q.previous = old.picture
    BY <1>0, <2>1 DEF BlobRow, BlobPc
  <2>3. avatar' \in Picture \cup {NoPicture} /\ (avatar' # NoPicture => avatar' \in blobs')
    BY <1>0, <2>1 DEF BlobRow, BlobCallOK
  <2> HIDE DEF q
  <2> QED
    BY <1>0, <2>1, <2>2, <2>3, HarmlessKeeps DEF BlobTypeOK
<1>4. CASE discardPreviousAvatar(k) \/ BlobFails(k)
  <2>1. /\ blobCalls' = [blobCalls EXCEPT ![k] = AtEase]
        /\ files' = files /\ shared' = shared /\ avatar' = avatar
    BY ONLY <1>4 DEF discardPreviousAvatar, BlobFails, BlobGo
  <2>2. blobs' = blobs
    BY ONLY <1>0, <1>4 DEF discardPreviousAvatar, BlobFails, BlobCallOK
  <2>3. blobServed' \in 0..MaxBlobCalls /\ blobFailed' \in 0..MaxBlobFails
    <3>1. CASE discardPreviousAvatar(k)
      BY ONLY <1>0, <3>1, BlobCounts DEF discardPreviousAvatar
    <3>2. CASE BlobFails(k)
      BY ONLY <1>0, <3>2, BlobCounts
    <3> QED
      BY <1>4, <3>1, <3>2
  <2>4. /\ avatar' \in Picture \cup {NoPicture} /\ (avatar' # NoPicture => avatar' \in blobs')
        /\ blobs \subseteq blobs' /\ blobs' \subseteq Picture \cup Path
    BY ONLY <1>0, <2>1, <2>2 DEF BlobTypeOK
  <2>5. AtEase \in BlobRow /\ AtEase.pc = "idle" /\ AtEase.path = NoFile
    BY BlobShape
  <2> QED
    BY ONLY k \in BlobCall, BlobInv, <2>1, <2>3, <2>4, <2>5, HarmlessKeeps
<1>5. CASE DeleteAttachment(k)
  <2>0. PICK f \in File : BlobStart(k, [AtEase EXCEPT !.pc = "load", !.file = f]) /\ UNCHANGED shared
    BY <1>5 DEF DeleteAttachment
  <2> DEFINE q == [AtEase EXCEPT !.pc = "load", !.file = f]
  <2>1. q \in BlobRow /\ q.pc = "load" /\ q.path = NoFile /\ q.file \in File
    BY DEF BlobRow, BlobPc, AtEase
  <2> HIDE DEF q
  <2>2. BlobStart(k, q) /\ shared' = shared
    BY <2>0 DEF q
  <2>3. /\ blobCalls' = [blobCalls EXCEPT ![k] = q]
        /\ files' = files /\ blobs' = blobs /\ avatar' = avatar
    BY ONLY <2>2 DEF BlobStart
  <2>4. blobServed' \in 0..MaxBlobCalls /\ blobFailed' \in 0..MaxBlobFails
    BY ONLY <1>0, <2>2, BlobCounts
  <2>5. /\ avatar' \in Picture \cup {NoPicture} /\ (avatar' # NoPicture => avatar' \in blobs')
        /\ blobs \subseteq blobs' /\ blobs' \subseteq Picture \cup Path
    BY ONLY <1>0, <2>3 DEF BlobTypeOK
  <2> QED
    BY ONLY k \in BlobCall, BlobInv, <2>1, <2>2, <2>3, <2>4, <2>5, HarmlessKeeps
<1> QED
  BY <1>1, <1>2, <1>3, <1>4, <1>5

\* One slot is replaced.
LEMMA BlobStep ==
  ASSUME BlobInv, NEW k \in BlobCall, NEW q \in BlobRow, blobCalls' = [blobCalls EXCEPT ![k] = q],
         files' \in [File -> Path \cup {NoFile, UsedFile}], shared' \subseteq Path,
         avatar' \in Picture \cup {NoPicture}, blobs' \subseteq Picture \cup Path,
         blobServed' \in 0..MaxBlobCalls, blobFailed' \in 0..MaxBlobFails
  PROVE  /\ BlobTypeOK' /\ blobCalls'[k] = q
         /\ \A j \in BlobCall : j # k => blobCalls'[j] = blobCalls[j]
<1>1. blobCalls \in [BlobCall -> BlobRow]
  BY DEF BlobInv, BlobTypeOK, BlobRow, BlobPc
<1>2. blobCalls' \in [BlobCall -> BlobRow]
  BY <1>1
<1>3. /\ blobCalls'[k] = q /\ \A j \in BlobCall : j # k => blobCalls'[j] = blobCalls[j]
  BY <1>1
<1> QED
  BY <1>2, <1>3 DEF BlobTypeOK, BlobRow, BlobPc

\* The conjuncts of the invariant that one slot is bound by.
LEMMA BlobFacts ==
  ASSUME BlobInv
  PROVE  /\ blobCalls \in [BlobCall -> BlobRow] /\ files \in [File -> Path \cup {NoFile, UsedFile}]
         /\ shared \subseteq Path /\ blobs \subseteq Picture \cup Path
         /\ avatar \in Picture \cup {NoPicture} /\ (avatar # NoPicture => avatar \in blobs)
         /\ \A j \in BlobCall : BlobCallOK(blobCalls[j])
         /\ UploadsAlone /\ RowsAlone /\ BlobTypeOK
         /\ NoFile \notin Path /\ UsedFile \notin Path /\ NoFile # UsedFile
  BY BlobConstants DEF BlobInv, BlobTypeOK, BlobRow, BlobPc

\* A slot that did not move stays in order while nothing it relies on goes.
LEMMA OtherCallKeeps ==
  ASSUME NEW j, BlobCallOK(blobCalls[j]), blobCalls'[j] = blobCalls[j],
         blobCalls[j].pc = "delete row" => files'[blobCalls[j].file] \in {files[blobCalls[j].file], UsedFile},
         \A x : x \notin shared' => x \notin shared,
         blobCalls[j].pc = "set" /\ blobCalls[j].picture # NoPicture => blobCalls[j].picture \in blobs',
         blobCalls[j].pc = "finalize" /\ blobCalls[j].path \notin shared => blobCalls[j].path \in blobs'
  PROVE  BlobCallOK(blobCalls[j])'
<1> DEFINE q == blobCalls[j]
<1>1. BlobCallOK(q) /\ blobCalls'[j] = q
  OBVIOUS
<1>2. q.pc = "delete row" => files'[q.file] \in {q.path, UsedFile}
  BY DEF BlobCallOK
<1> HIDE DEF q
<1>3. /\ q.pc = "set" /\ q.picture # NoPicture => q.picture \in blobs'
      /\ q.pc = "finalize" /\ q.path \notin shared' => q.path \in blobs'
  BY DEF q
<1> QED
  BY ONLY <1>1, <1>2, <1>3 DEF BlobCallOK

\* One slot moves and the rows stay: what the slot holds and what storage holds
\* must still suit them.
LEMMA SameRowsKeep ==
  ASSUME BlobInv, NEW k \in BlobCall, files' = files,
         \A x : x \notin shared' => x \notin shared,
         \A j \in BlobCall : j # k => blobCalls'[j] = blobCalls[j],
         \A f \in File : files[f] \in Path /\ files[f] \notin shared' =>
           /\ files[f] \in blobs => files[f] \in blobs'
           /\ blobCalls'[k].path = files[f] =>
                /\ blobCalls'[k].pc \notin {"put", "finalize", "delete blob"}
                /\ blobCalls'[k].pc = "delete row" => blobCalls'[k].file = f
  PROVE  RowsAlone'
<1> SUFFICES ASSUME NEW f \in File, files'[f] \in Path, files'[f] \notin shared'
             PROVE  /\ files'[f] \in blobs'
                    /\ \A g \in File : files'[g] = files'[f] => g = f
                    /\ \A j \in BlobCall : blobCalls'[j].path = files'[f] =>
                         /\ blobCalls'[j].pc \notin {"put", "finalize", "delete blob"}
                         /\ blobCalls'[j].pc = "delete row" => blobCalls'[j].file = f
  BY DEF RowsAlone, listed
<1>1. files' = files /\ files[f] \in Path /\ files[f] \notin shared' /\ files[f] \notin shared
  OBVIOUS
<1>2. /\ files[f] \in blobs
      /\ \A g \in File : files[g] = files[f] => g = f
      /\ \A j \in BlobCall : blobCalls[j].path = files[f] =>
           /\ blobCalls[j].pc \notin {"put", "finalize", "delete blob"}
           /\ blobCalls[j].pc = "delete row" => blobCalls[j].file = f
  BY <1>1 DEF RowsAlone, listed, BlobInv
<1>3. /\ files[f] \in blobs => files[f] \in blobs'
      /\ blobCalls'[k].path = files[f] =>
           /\ blobCalls'[k].pc \notin {"put", "finalize", "delete blob"}
           /\ blobCalls'[k].pc = "delete row" => blobCalls'[k].file = f
  BY <1>1
<1>4. \A j \in BlobCall : j # k => blobCalls'[j] = blobCalls[j]
  OBVIOUS
<1> QED
  BY ONLY <1>1, <1>2, <1>3, <1>4

\* A path is asked for: no row has it and no other call, or it is shared.
LEMMA AskKeeps ==
  ASSUME BlobInv, NEW k \in BlobCall, AskUploadUrl(k)
  PROVE  BlobInv'
<1>0. PICK p \in Path :
        /\ BlobStart(k, [AtEase EXCEPT !.pc = "put", !.path = p])
        /\ shared' = IF p \in blobs \/ \E j \in BlobCall : blobCalls[j].path = p
                     THEN shared \cup {p} ELSE shared
  BY DEF AskUploadUrl
<1> DEFINE q == [AtEase EXCEPT !.pc = "put", !.path = p]
<1>1. q \in BlobRow /\ q.pc = "put" /\ q.path = p
  BY DEF BlobRow, BlobPc, AtEase
<1> HIDE DEF q
<1>2. BlobStart(k, q)
  BY <1>0 DEF q
<1>3. /\ blobCalls' = [blobCalls EXCEPT ![k] = q]
      /\ files' = files /\ blobs' = blobs /\ avatar' = avatar
  BY ONLY <1>2 DEF BlobStart
<1>4. blobServed' \in 0..MaxBlobCalls /\ blobFailed' \in 0..MaxBlobFails
  BY <1>2, BlobCounts, BlobFacts
<1>5. /\ shared' \subseteq Path
      /\ \A x : x \notin shared' => x \notin shared
      /\ p \notin shared' => p \notin blobs /\ \A j \in BlobCall : blobCalls[j].path # p
  BY ONLY BlobInv, BlobFacts, p \in Path, <1>0
<1>6. /\ BlobTypeOK' /\ blobCalls'[k] = q
      /\ \A j \in BlobCall : j # k => blobCalls'[j] = blobCalls[j]
  BY ONLY BlobInv, k \in BlobCall, <1>1, <1>3, <1>4, <1>5, BlobFacts, BlobStep
<1>7. ASSUME NEW j \in BlobCall PROVE BlobCallOK(blobCalls[j])'
  <2>1. CASE j = k
    BY ONLY p \in Path, <1>1, <1>6, <2>1 DEF BlobCallOK
  <2>2. CASE j # k
    <3>1. BlobCallOK(blobCalls[j]) /\ blobCalls'[j] = blobCalls[j]
      BY <1>6, <2>2, BlobFacts
    <3> QED
      BY ONLY <1>3, <1>5, <3>1, OtherCallKeeps DEF BlobCallOK
  <2> QED
    BY <2>1, <2>2
<1>8. UploadsAlone'
  <2>1. UploadsAlone
    BY BlobFacts
  <2> QED
    BY ONLY k \in BlobCall, <1>1, <1>5, <1>6, <2>1 DEF UploadsAlone
<1>9. RowsAlone'
  <2>1. \A f \in File : files[f] \in Path /\ files[f] \notin shared' => files[f] # p /\ (files[f] \in blobs => files[f] \in blobs')
    <3>1. RowsAlone
      BY BlobFacts
    <3> QED
      BY ONLY <1>3, <1>5, <3>1 DEF RowsAlone, listed
  <2> QED
    BY ONLY BlobInv, k \in BlobCall, <1>1, <1>3, <1>5, <1>6, <2>1, SameRowsKeep, ZenonT(60)
<1> QED
  BY <1>3, <1>6, <1>7, <1>8, <1>9, BlobFacts DEF BlobInv

\* The bytes arrive.
LEMMA PutKeeps ==
  ASSUME BlobInv, NEW k \in BlobCall, PutBlob(k)
  PROVE  BlobInv'
<1> DEFINE old == blobCalls[k]
           q == [old EXCEPT !.pc = "finalize"]
<1>1. old \in BlobRow /\ BlobCallOK(old) /\ old.pc = "put" /\ old.path \in Path
  BY BlobShape DEF BlobCallOK, PutBlob
<1>2. q \in BlobRow /\ q.pc = "finalize" /\ q.path = old.path
  BY <1>1 DEF BlobRow, BlobPc
<1>3. /\ blobCalls' = [blobCalls EXCEPT ![k] = q] /\ blobs' = blobs \cup {old.path}
      /\ files' = files /\ avatar' = avatar /\ shared' = shared
  BY DEF PutBlob, BlobGo
<1>4. blobServed' \in 0..MaxBlobCalls /\ blobFailed' \in 0..MaxBlobFails
  BY BlobCounts, BlobFacts DEF PutBlob
<1> HIDE DEF q
<1>5. \A x : x \in blobs => x \in blobs'
  BY <1>3
<1>6. /\ BlobTypeOK' /\ blobCalls'[k] = q
      /\ \A j \in BlobCall : j # k => blobCalls'[j] = blobCalls[j]
  <2>1. blobs' \subseteq Picture \cup Path
    BY ONLY BlobInv, <1>1, <1>3, BlobFacts
  <2> QED
    BY ONLY BlobInv, k \in BlobCall, <1>2, <1>3, <1>4, <2>1, BlobFacts, BlobStep
<1>7. ASSUME NEW j \in BlobCall PROVE BlobCallOK(blobCalls[j])'
  <2>1. CASE j = k
    <3>1. q.path \in blobs' /\ q.path \in Path /\ blobCalls'[j] = q
      BY <1>1, <1>2, <1>3, <1>6, <2>1
    <3> QED
      BY ONLY <1>2, <3>1 DEF BlobCallOK
  <2>2. CASE j # k
    <3>1. BlobCallOK(blobCalls[j]) /\ blobCalls'[j] = blobCalls[j]
      BY <1>6, <2>2, BlobFacts
    <3>2. files' = files /\ shared' = shared
      BY <1>3
    <3> QED
      BY ONLY <1>5, <3>1, <3>2, OtherCallKeeps DEF BlobCallOK
  <2> QED
    BY <2>1, <2>2
<1>8. UploadsAlone'
  <2>1. UploadsAlone
    BY BlobFacts
  <2> QED
    BY ONLY k \in BlobCall, <1>1, <1>2, <1>3, <1>6, <2>1 DEF UploadsAlone
<1>9. RowsAlone'
  <2>1. \A f \in File : files[f] \in Path /\ files[f] \notin shared => files[f] # old.path
    <3>1. RowsAlone
      BY BlobFacts
    <3> QED
      BY ONLY k \in BlobCall, <1>1, <3>1 DEF RowsAlone, listed
  <2>2. files' = files /\ \A x : x \notin shared' => x \notin shared
    BY <1>3
  <2>3. /\ \A j \in BlobCall : j # k => blobCalls'[j] = blobCalls[j]
        /\ blobCalls'[k].path = old.path
    BY <1>2, <1>6
  <2> QED
    BY ONLY BlobInv, k \in BlobCall, <1>5, <2>1, <2>2, <2>3, SameRowsKeep
<1> QED
  BY <1>3, <1>5, <1>6, <1>7, <1>8, <1>9, BlobFacts DEF BlobInv

\* The row is inserted: its path was this call's alone, or it is shared.
LEMMA FinalizeKeeps ==
  ASSUME BlobInv, NEW k \in BlobCall, Finalize(k)
  PROVE  BlobInv'
<1> DEFINE old == blobCalls[k]
<1>0. PICK f \in File :
        /\ old.pc = "finalize" /\ files[f] = NoFile
        /\ files' = [files EXCEPT ![f] = old.path]
        /\ BlobGo(k, AtEase) /\ avatar' = avatar /\ blobs' = blobs
  BY DEF Finalize
<1>1. BlobCallOK(old) /\ old.path \in Path /\ (old.path \notin shared => old.path \in blobs)
  BY <1>0, BlobShape DEF BlobCallOK
<1>2. AtEase \in BlobRow /\ AtEase.pc = "idle" /\ AtEase.path = NoFile
  BY BlobShape
<1>3. blobCalls' = [blobCalls EXCEPT ![k] = AtEase] /\ shared' = shared
  BY <1>0 DEF BlobGo
<1>4. blobServed' \in 0..MaxBlobCalls /\ blobFailed' \in 0..MaxBlobFails
  BY <1>0, BlobCounts, BlobFacts
<1>5. /\ files' \in [File -> Path \cup {NoFile, UsedFile}] /\ files'[f] = old.path
      /\ \A g \in File : g # f => files'[g] = files[g]
  BY ONLY BlobInv, f \in File, <1>0, <1>1, BlobFacts
<1>6. /\ BlobTypeOK' /\ blobCalls'[k] = AtEase
      /\ \A j \in BlobCall : j # k => blobCalls'[j] = blobCalls[j]
  BY ONLY BlobInv, k \in BlobCall, <1>0, <1>2, <1>3, <1>4, <1>5, BlobFacts, BlobStep
<1>7. ASSUME NEW j \in BlobCall PROVE BlobCallOK(blobCalls[j])'
  <2>1. CASE j = k
    BY ONLY <1>2, <1>6, <2>1 DEF BlobCallOK
  <2>2. CASE j # k
    <3>1. BlobCallOK(blobCalls[j]) /\ blobCalls'[j] = blobCalls[j] /\ NoFile # UsedFile /\ NoFile \notin Path
      BY <1>6, <2>2, BlobFacts
    <3>2. blobCalls[j].pc = "delete row" => files'[blobCalls[j].file] = files[blobCalls[j].file]
      BY ONLY <1>0, <1>5, <3>1 DEF BlobCallOK
    <3>3. blobs' = blobs /\ shared' = shared
      BY <1>0, <1>3
    <3>4. BlobCallOK(blobCalls[j])
      BY <3>1
    <3>5. /\ blobCalls[j].pc = "set" /\ blobCalls[j].picture # NoPicture => blobCalls[j].picture \in blobs
          /\ blobCalls[j].pc = "finalize" /\ blobCalls[j].path \notin shared => blobCalls[j].path \in blobs
      BY ONLY <3>4 DEF BlobCallOK
    <3> QED
      BY ONLY <3>1, <3>2, <3>3, <3>5, OtherCallKeeps
  <2> QED
    BY <2>1, <2>2
<1>8. UploadsAlone'
  <2>1. UploadsAlone
    BY BlobFacts
  <2> QED
    <3>1. \A j \in BlobCall : blobCalls'[j] = blobCalls[j] \/ (blobCalls'[j].pc = "idle" /\ blobCalls'[j].path = NoFile)
      <4>1. blobCalls'[k].pc = "idle" /\ blobCalls'[k].path = NoFile
        BY <1>2, <1>6
      <4>2. \A j \in BlobCall : j # k => blobCalls'[j] = blobCalls[j]
        BY <1>6
      <4> QED
        BY <4>1, <4>2
    <3>2. shared' = shared /\ \A j \in BlobCall : blobCalls[j].pc \in {"put", "finalize"} => blobCalls[j].path # NoFile
      BY <1>3, BlobFacts DEF BlobCallOK
    <3> QED
      BY ONLY <3>1, <3>2, <2>1 DEF UploadsAlone
<1>9. RowsAlone'
  <2>1. RowsAlone /\ UploadsAlone /\ NoFile \notin Path
    BY BlobFacts
  <2>2. ASSUME old.path \notin shared, NEW g \in File, files[g] = old.path PROVE FALSE
    BY ONLY k \in BlobCall, g \in File, <1>0, <1>1, <2>1, <2>2 DEF RowsAlone, listed
  <2>3. ASSUME old.path \notin shared, NEW j \in BlobCall, j # k, blobCalls[j].path = old.path PROVE FALSE
    BY ONLY k \in BlobCall, j \in BlobCall, <1>0, <2>1, <2>3 DEF UploadsAlone
  <2> SUFFICES ASSUME NEW g \in File, listed(g)', files'[g] \notin shared
               PROVE  /\ files'[g] \in blobs
                      /\ \A h \in File : files'[h] = files'[g] => h = g
                      /\ \A j \in BlobCall : blobCalls'[j].path = files'[g] =>
                           /\ blobCalls'[j].pc \notin {"put", "finalize", "delete blob"}
                           /\ blobCalls'[j].pc = "delete row" => blobCalls'[j].file = g
    <3>1. blobs' = blobs /\ shared' = shared
      BY <1>0, <1>3
    <3> QED
      BY <3>1 DEF RowsAlone
  <2>4. CASE g = f
    BY ONLY k \in BlobCall, f \in File, <1>1, <1>2, <1>5, <1>6, <2>1, <2>2, <2>3, <2>4, files'[g] \notin shared
  <2>5. CASE g # f
    <3>1. files'[g] = files[g] /\ listed(g)
      BY <1>5, <2>5 DEF listed
    <3>2. /\ files[g] \in blobs
          /\ \A h \in File : files[h] = files[g] => h = g
          /\ \A j \in BlobCall : blobCalls[j].path = files[g] =>
               /\ blobCalls[j].pc \notin {"put", "finalize", "delete blob"}
               /\ blobCalls[j].pc = "delete row" => blobCalls[j].file = g
      BY <3>1, <2>1 DEF RowsAlone
    <3>3. files[g] # old.path /\ files[g] # NoFile
      BY <1>0, <2>1, <3>1, <3>2 DEF listed
    <3> QED
      BY ONLY g \in File, f \in File, <1>2, <1>5, <1>6, <3>1, <3>2, <3>3
  <2> QED
    BY <2>4, <2>5
<1> QED
  BY <1>0, <1>6, <1>7, <1>8, <1>9, BlobFacts DEF BlobInv

\* The row's path is read, or the row is gone.
LEMMA LoadKeeps ==
  ASSUME BlobInv, NEW k \in BlobCall, LoadAttachment(k)
  PROVE  BlobInv'
<1> DEFINE old == blobCalls[k]
           q == IF listed(old.file) THEN [old EXCEPT !.pc = "delete row", !.path = files[old.file]] ELSE AtEase
<1>1. old \in BlobRow /\ old.pc = "load" /\ old.file \in File
  BY BlobShape DEF BlobCallOK, LoadAttachment
<1>2. /\ q \in BlobRow /\ q.pc \in {"delete row", "idle"}
      /\ q.pc = "delete row" => /\ q.file \in File /\ q.path = files[q.file] /\ q.path \in Path
                                /\ listed(q.file)
      /\ q.pc = "idle" => q.path \notin Path
  BY <1>1, BlobShape, BlobConstants DEF BlobRow, BlobPc, listed
<1>3. blobCalls' = [blobCalls EXCEPT ![k] = q]
  BY DEF LoadAttachment, BlobGo
<1> HIDE DEF q
<1>4. files' = files /\ avatar' = avatar /\ shared' = shared /\ blobs' = blobs
  BY DEF LoadAttachment, BlobGo
<1>5. blobServed' \in 0..MaxBlobCalls /\ blobFailed' \in 0..MaxBlobFails
  BY BlobCounts, BlobFacts DEF LoadAttachment
<1>6. /\ BlobTypeOK' /\ blobCalls'[k] = q
      /\ \A j \in BlobCall : j # k => blobCalls'[j] = blobCalls[j]
  BY ONLY BlobInv, k \in BlobCall, <1>2, <1>3, <1>4, <1>5, BlobFacts, BlobStep
<1>7. ASSUME NEW j \in BlobCall PROVE BlobCallOK(blobCalls[j])'
  <2>1. CASE j = k
    <3>1. blobCalls'[j] = q /\ files' = files
      BY <1>4, <1>6, <2>1
    <3> QED
      BY ONLY <1>2, <3>1 DEF BlobCallOK
  <2>2. CASE j # k
    <3>1. BlobCallOK(blobCalls[j]) /\ blobCalls'[j] = blobCalls[j]
      BY <1>6, <2>2, BlobFacts
    <3>2. /\ blobCalls[j].pc = "set" /\ blobCalls[j].picture # NoPicture => blobCalls[j].picture \in blobs
          /\ blobCalls[j].pc = "finalize" /\ blobCalls[j].path \notin shared => blobCalls[j].path \in blobs
      BY <3>1 DEF BlobCallOK
    <3> QED
      BY ONLY <1>4, <3>1, <3>2, OtherCallKeeps
  <2> QED
    BY <2>1, <2>2
<1>8. UploadsAlone'
  <2>1. UploadsAlone /\ RowsAlone
    BY BlobFacts
  <2>2. ASSUME NEW i \in BlobCall, i # k, blobCalls[i].pc \in {"put", "finalize"}, blobCalls[i].path \notin shared
        PROVE  q.path # blobCalls[i].path
    <3>1. blobCalls[i].path \in Path
      BY <2>2, BlobFacts DEF BlobCallOK
    <3>2. CASE q.pc = "delete row"
      <4>1. q.file \in File /\ q.path = files[q.file] /\ listed(q.file)
        BY <1>2, <3>2
      <4>2. files[q.file] \notin shared => files[q.file] # blobCalls[i].path
        BY ONLY i \in BlobCall, <2>1, <2>2, <4>1 DEF RowsAlone
      <4> QED
        BY ONLY <2>2, <4>1, <4>2
    <3> QED
      BY <1>2, <3>1, <3>2
  <2>3. /\ blobCalls'[k].pc \notin {"put", "finalize"} /\ blobCalls'[k].path = q.path
        /\ \A j \in BlobCall : j # k => blobCalls'[j] = blobCalls[j]
    BY <1>2, <1>6
  <2> QED
    BY ONLY k \in BlobCall, <1>4, <2>1, <2>2, <2>3 DEF UploadsAlone
<1>9. RowsAlone'
  <2>1. RowsAlone
    BY BlobFacts
  <2>2. ASSUME NEW f \in File, files[f] \in Path, files[f] \notin shared, q.path = files[f]
        PROVE  q.pc = "delete row" /\ q.file = f
    <3>1. q.pc = "delete row" /\ q.file \in File /\ files[q.file] = files[f]
      BY ONLY <1>2, <2>2
    <3> QED
      BY ONLY f \in File, <2>1, <2>2, <3>1 DEF RowsAlone, listed
  <2>3. \A j \in BlobCall : j # k => blobCalls'[j] = blobCalls[j]
    BY <1>6
  <2>4. files' = files /\ \A x : x \notin shared' => x \notin shared
    BY <1>4
  <2> QED
    BY ONLY BlobInv, k \in BlobCall, <1>4, <1>6, <2>2, <2>3, <2>4, SameRowsKeep
<1> QED
  BY <1>4, <1>6, <1>7, <1>8, <1>9, BlobFacts DEF BlobInv

\* The blob of a row that is gone: nobody else has its path, or it is shared.
LEMMA DeleteBlobKeeps ==
  ASSUME BlobInv, NEW k \in BlobCall, DeleteBlob(k)
  PROVE  BlobInv'
<1> DEFINE old == blobCalls[k]
<1>1. old.pc = "delete blob" /\ old.path \in Path
  BY BlobShape DEF BlobCallOK, DeleteBlob
<1>2. AtEase \in BlobRow /\ AtEase.pc = "idle" /\ AtEase.path = NoFile /\ NoFile \notin Path
  BY BlobShape, BlobConstants
<1>3. blobCalls' = [blobCalls EXCEPT ![k] = AtEase] /\ blobs' = blobs \ {old.path}
  BY DEF DeleteBlob, BlobGo
<1>4. files' = files /\ avatar' = avatar /\ shared' = shared
  BY DEF DeleteBlob, BlobGo
<1>5. blobServed' \in 0..MaxBlobCalls /\ blobFailed' \in 0..MaxBlobFails
  BY BlobCounts, BlobFacts DEF DeleteBlob
<1>6. /\ BlobTypeOK' /\ blobCalls'[k] = AtEase
      /\ \A j \in BlobCall : j # k => blobCalls'[j] = blobCalls[j]
  <2>1. blobs' \subseteq Picture \cup Path
    BY <1>3, BlobFacts
  <2> QED
    BY ONLY BlobInv, k \in BlobCall, <1>2, <1>3, <1>4, <1>5, <2>1, BlobFacts, BlobStep
<1>7. ASSUME NEW x \in Picture PROVE x # old.path
  BY <1>1, BlobConstants
<1>8. \A x : x \in blobs /\ x # old.path => x \in blobs'
  BY <1>3
<1>9. avatar # NoPicture => avatar \in blobs'
  BY BlobFacts, <1>7, <1>8
<1>10. ASSUME NEW j \in BlobCall PROVE BlobCallOK(blobCalls[j])'
  <2>1. CASE j = k
    BY ONLY <1>2, <1>6, <2>1 DEF BlobCallOK
  <2>2. CASE j # k
    <3>1. BlobCallOK(blobCalls[j]) /\ blobCalls'[j] = blobCalls[j]
      BY <1>6, <2>2, BlobFacts
    <3>2. blobCalls[j].pc = "set" /\ blobCalls[j].picture # NoPicture => blobCalls[j].picture \in blobs'
      <4>1. blobCalls[j].picture \in Picture \cup {NoPicture}
        BY BlobFacts DEF BlobRow
      <4> QED
        BY <1>7, <1>8, <3>1, <4>1 DEF BlobCallOK
    <3>3. blobCalls[j].pc = "finalize" /\ blobCalls[j].path \notin shared => blobCalls[j].path \in blobs'
      <4>1. UploadsAlone
        BY BlobFacts
      <4> QED
        BY ONLY k \in BlobCall, j \in BlobCall, <1>8, <2>2, <3>1, <4>1 DEF BlobCallOK, UploadsAlone
    <3> QED
      BY ONLY <1>4, <3>1, <3>2, <3>3, OtherCallKeeps
  <2> QED
    BY <2>1, <2>2
<1>11. UploadsAlone'
  <2>1. \A j \in BlobCall : blobCalls'[j] = blobCalls[j] \/ (blobCalls'[j].pc = "idle" /\ blobCalls'[j].path = NoFile)
    <3>1. blobCalls'[k].pc = "idle" /\ blobCalls'[k].path = NoFile
      BY <1>2, <1>6
    <3>2. \A j \in BlobCall : j # k => blobCalls'[j] = blobCalls[j]
      BY <1>6
    <3> QED
      BY <3>1, <3>2
  <2>2. shared' = shared /\ \A j \in BlobCall : blobCalls[j].pc \in {"put", "finalize"} => blobCalls[j].path # NoFile
    BY <1>2, <1>4, BlobFacts DEF BlobCallOK
  <2>3. UploadsAlone
    BY BlobFacts
  <2> QED
    BY ONLY <2>1, <2>2, <2>3 DEF UploadsAlone
<1>12. RowsAlone'
  <2>1. RowsAlone
    BY BlobFacts
  <2>2. \A f \in File : files[f] \in Path /\ files[f] \notin shared => files[f] # old.path
    BY ONLY k \in BlobCall, <1>1, <2>1 DEF RowsAlone, listed
  <2>3. \A j \in BlobCall : j # k => blobCalls'[j] = blobCalls[j]
    BY <1>6
  <2>4. /\ files' = files /\ \A x : x \notin shared' => x \notin shared
        /\ blobCalls'[k].path = NoFile /\ NoFile \notin Path
    BY <1>2, <1>4, <1>6
  <2>5. \A f \in File : files[f] \in Path /\ files[f] \notin shared' =>
           /\ files[f] \in blobs => files[f] \in blobs'
           /\ blobCalls'[k].path # files[f]
    BY ONLY <1>4, <1>8, <2>2, <2>4
  <2> QED
    BY ONLY BlobInv, k \in BlobCall, <2>3, <2>4, <2>5, SameRowsKeep
<1> QED
  BY <1>4, <1>6, <1>9, <1>10, <1>11, <1>12 DEF BlobInv

\* Rows go, one or all of them; a call that knew one of them keeps what it knows.
LEMMA GoneRowsKeep ==
  ASSUME BlobInv, NEW k \in BlobCall,
         blobs' = blobs, avatar' = avatar, shared' = shared,
         \A f \in File : files'[f] \in {files[f], UsedFile},
         \A j \in BlobCall : j # k => blobCalls'[j] = blobCalls[j],
         BlobTypeOK', BlobCallOK(blobCalls[k])', blobCalls'[k].path = blobCalls[k].path,
         blobCalls'[k] = blobCalls[k] \/
           /\ blobCalls'[k].pc = "delete blob" /\ blobCalls[k].pc = "delete row" /\ blobCalls[k].file \in File
           /\ files'[blobCalls[k].file] = UsedFile
  PROVE  BlobInv'
<1>1. ASSUME NEW j \in BlobCall PROVE BlobCallOK(blobCalls[j])'
  <2>1. CASE j = k
    BY <2>1
  <2>2. CASE j # k
    <3>1. BlobCallOK(blobCalls[j]) /\ blobCalls'[j] = blobCalls[j]
      BY <2>2, BlobFacts
    <3>2. blobs' = blobs /\ shared' = shared
      OBVIOUS
    <3>3. /\ blobCalls[j].pc = "set" /\ blobCalls[j].picture # NoPicture => blobCalls[j].picture \in blobs
          /\ blobCalls[j].pc = "finalize" /\ blobCalls[j].path \notin shared => blobCalls[j].path \in blobs
          /\ blobCalls[j].pc = "delete row" => blobCalls[j].file \in File
      BY <3>1 DEF BlobCallOK
    <3>4. blobCalls[j].pc = "delete row" => files'[blobCalls[j].file] \in {files[blobCalls[j].file], UsedFile}
      BY <3>3
    <3> QED
      BY ONLY <3>1, <3>2, <3>3, <3>4, OtherCallKeeps
  <2> QED
    BY <2>1, <2>2
<1>2. UploadsAlone'
  <2>1. UploadsAlone
    BY BlobFacts
  <2>2. /\ \A j \in BlobCall : blobCalls'[j].path = blobCalls[j].path
        /\ \A j \in BlobCall : blobCalls'[j].pc \in {"put", "finalize"} => blobCalls[j].pc \in {"put", "finalize"}
    OBVIOUS
  <2>3. shared' = shared
    OBVIOUS
  <2> QED
    BY ONLY <2>1, <2>2, <2>3 DEF UploadsAlone
<1>3. RowsAlone'
  <2> SUFFICES ASSUME NEW f \in File, files'[f] \in Path, files'[f] \notin shared'
               PROVE  /\ files'[f] \in blobs'
                      /\ \A g \in File : files'[g] = files'[f] => g = f
                      /\ \A j \in BlobCall : blobCalls'[j].path = files'[f] =>
                           /\ blobCalls'[j].pc \notin {"put", "finalize", "delete blob"}
                           /\ blobCalls'[j].pc = "delete row" => blobCalls'[j].file = f
    BY DEF RowsAlone, listed
  <2>1. UsedFile \notin Path
    BY BlobConstants
  <2>2. files'[f] = files[f] /\ files[f] \in Path /\ files[f] \notin shared /\ files[f] # UsedFile
    BY <2>1
  <2>3. /\ files[f] \in blobs
        /\ \A g \in File : files[g] = files[f] => g = f
        /\ \A j \in BlobCall : blobCalls[j].path = files[f] =>
             /\ blobCalls[j].pc \notin {"put", "finalize", "delete blob"}
             /\ blobCalls[j].pc = "delete row" => blobCalls[j].file = f
    BY <2>2, BlobFacts DEF RowsAlone, listed
  <2>4. /\ \A g \in File : files'[g] \in {files[g], UsedFile}
        /\ \A j \in BlobCall : j # k => blobCalls'[j] = blobCalls[j]
        /\ blobs' = blobs /\ blobCalls'[k].path = blobCalls[k].path
        /\ blobCalls'[k] = blobCalls[k] \/
             /\ blobCalls'[k].pc = "delete blob" /\ blobCalls[k].pc = "delete row" /\ blobCalls[k].file \in File
             /\ files'[blobCalls[k].file] = UsedFile
    OBVIOUS
  <2>5. files'[f] \in blobs' /\ \A g \in File : files'[g] = files'[f] => g = f
    BY ONLY <2>2, <2>3, <2>4
  <2>6. ASSUME NEW j \in BlobCall, blobCalls'[j].path = files[f]
        PROVE  /\ blobCalls'[j].pc \notin {"put", "finalize", "delete blob"}
               /\ blobCalls'[j].pc = "delete row" => blobCalls'[j].file = f
    BY ONLY k \in BlobCall, <2>2, <2>3, <2>4, <2>6
  <2> QED
    BY ONLY <2>2, <2>5, <2>6
<1> QED
  BY <1>1, <1>2, <1>3, BlobFacts DEF BlobInv

LEMMA DeleteRowKeeps ==
  ASSUME BlobInv, NEW k \in BlobCall, DeleteRow(k)
  PROVE  BlobInv'
<1> DEFINE old == blobCalls[k]
           q == [old EXCEPT !.pc = "delete blob"]
<1>1. old \in BlobRow /\ old.pc = "delete row" /\ old.file \in File /\ old.path \in Path
  BY BlobShape DEF BlobCallOK, DeleteRow
<1>2. q \in BlobRow /\ q.pc = "delete blob" /\ q.path = old.path
  BY <1>1 DEF BlobRow, BlobPc
<1>3. blobCalls' = [blobCalls EXCEPT ![k] = q]
  BY DEF DeleteRow, BlobGo
<1>4. avatar' = avatar /\ shared' = shared /\ blobs' = blobs
  BY DEF DeleteRow, BlobGo
<1>5. blobServed' \in 0..MaxBlobCalls /\ blobFailed' \in 0..MaxBlobFails
  BY BlobCounts, BlobFacts DEF DeleteRow
<1>6. /\ files' \in [File -> Path \cup {NoFile, UsedFile}] /\ files'[old.file] = UsedFile
      /\ \A f \in File : files'[f] \in {files[f], UsedFile}
  BY <1>1, BlobFacts DEF DeleteRow
<1> HIDE DEF q
<1>7. /\ BlobTypeOK' /\ blobCalls'[k] = q
      /\ \A j \in BlobCall : j # k => blobCalls'[j] = blobCalls[j]
  BY ONLY BlobInv, k \in BlobCall, <1>2, <1>3, <1>4, <1>5, <1>6, BlobFacts, BlobStep
<1>8. BlobCallOK(blobCalls[k])'
  <2>1. blobCalls'[k].pc = "delete blob" /\ blobCalls'[k].path \in Path
    BY <1>1, <1>2, <1>7
  <2> QED
    BY ONLY <2>1 DEF BlobCallOK
<1>9. blobCalls'[k].path = blobCalls[k].path /\ blobCalls'[k].pc = "delete blob"
  BY <1>2, <1>7
<1> QED
  BY ONLY BlobInv, k \in BlobCall, <1>1, <1>4, <1>6, <1>7, <1>8, <1>9, GoneRowsKeep

LEMMA DropKeeps ==
  ASSUME BlobInv, DropFiles
  PROVE  BlobInv'
<1>1. /\ avatar' = avatar /\ shared' = shared /\ blobs' = blobs /\ blobCalls' = blobCalls
      /\ files' = [f \in File |-> IF listed(f) THEN UsedFile ELSE files[f]]
  BY DEF DropFiles
<1>2. blobServed' \in 0..MaxBlobCalls /\ blobFailed' \in 0..MaxBlobFails
  BY BlobCounts, BlobFacts
<1>3. /\ files' \in [File -> Path \cup {NoFile, UsedFile}]
      /\ \A f \in File : files'[f] \in {files[f], UsedFile}
  BY <1>1, BlobFacts DEF listed
<1>4. BlobTypeOK'
  <2>1. BlobTypeOK
    BY BlobFacts
  <2> QED
    BY ONLY <1>1, <1>2, <1>3, <2>1 DEF BlobTypeOK
<1>5. CASE BlobCall = {}
  <2>1. UploadsAlone' /\ \A k \in BlobCall : BlobCallOK(blobCalls[k])'
    BY <1>5 DEF UploadsAlone
  <2>2. RowsAlone'
    <3>1. RowsAlone /\ UsedFile \notin Path
      BY BlobFacts
    <3> QED
      BY ONLY <1>1, <1>3, <1>5, <3>1 DEF RowsAlone, listed
  <2> QED
    BY <1>1, <1>4, <2>1, <2>2, BlobFacts DEF BlobInv
<1>6. CASE BlobCall # {}
  <2>1. PICK k \in BlobCall : TRUE
    BY <1>6
  <2>2. BlobCallOK(blobCalls[k])'
    <3>1. BlobCallOK(blobCalls[k]) /\ blobCalls' = blobCalls /\ blobs' = blobs /\ shared' = shared
      BY <1>1, BlobFacts
    <3>2. /\ blobCalls[k].pc = "set" /\ blobCalls[k].picture # NoPicture => blobCalls[k].picture \in blobs
          /\ blobCalls[k].pc = "finalize" /\ blobCalls[k].path \notin shared => blobCalls[k].path \in blobs
          /\ blobCalls[k].pc = "delete row" => blobCalls[k].file \in File
      BY <3>1 DEF BlobCallOK
    <3> QED
      BY ONLY <1>3, <3>1, <3>2, OtherCallKeeps
  <2> QED
    BY ONLY BlobInv, k \in BlobCall, <1>1, <1>3, <1>4, <2>2, GoneRowsKeep
<1> QED
  BY <1>5, <1>6

-----------------------------------------------------------------------------

LEMMA BlobInvKept == BlobInv /\ [BlobNext]_blobVars => BlobInv'
<1> SUFFICES ASSUME BlobInv, [BlobNext]_blobVars PROVE BlobInv'
  OBVIOUS
<1>1. ASSUME NEW k \in BlobCall,
             ChangeAvatar(k) \/ UploadAvatar(k) \/ setAvatarUrl(k) \/ discardPreviousAvatar(k)
               \/ DeleteAttachment(k) \/ BlobFails(k)
      PROVE  BlobInv'
  BY ONLY BlobInv, <1>1, AvatarKeeps
<1>2. ASSUME NEW k \in BlobCall,
             AskUploadUrl(k) \/ PutBlob(k) \/ Finalize(k) \/ LoadAttachment(k) \/ DeleteRow(k) \/ DeleteBlob(k)
      PROVE  BlobInv'
  BY ONLY BlobInv, <1>2, AskKeeps, PutKeeps, FinalizeKeeps, LoadKeeps, DeleteRowKeeps, DeleteBlobKeeps
<1>3. CASE DropFiles
  BY ONLY BlobInv, <1>3, DropKeeps
<1>4. CASE UNCHANGED blobVars
  <2>1. /\ avatar' = avatar /\ files' = files /\ blobs' = blobs /\ blobCalls' = blobCalls
        /\ blobServed' = blobServed /\ blobFailed' = blobFailed /\ shared' = shared
    BY <1>4 DEF blobVars
  <2> QED
    BY <2>1 DEF BlobInv, BlobTypeOK, BlobCallOK, UploadsAlone, RowsAlone, listed
<1> QED
  BY <1>1, <1>2, <1>3, <1>4 DEF BlobNext

\* The inductive invariant of attachments and avatars.
THEOREM BlobInvHolds == BlobSpec => []BlobInv
BY BlobStarts, BlobInvKept, PTL DEF BlobSpec

\* Whatever is shown can be loaded: the avatar, and every attachment whose path
\* no other upload was given.
THEOREM NothingDanglesHolds == BlobSpec => []NothingDangles
<1>1. BlobInv => NothingDangles
  BY DEF BlobInv, RowsAlone, NothingDangles, listed
<1> QED
  BY <1>1, BlobInvHolds, PTL

-----------------------------------------------------------------------------
(***************************************************************************)
(* That the counter of a connection is what failed since a success was     *)
(* last stored, and that the user has the last word on whether it runs,    *)
(* for connections that one call at a time works on.  The invariant says   *)
(* of each connection what the call at it has read and still holds         *)
(* (AtHand), a failure it still owes the counter included (Owing), and     *)
(* that no other is at it (Account).                                       *)
(***************************************************************************)

\* The counter and the status of a connection's row agree with its history.
Tallies(row, s, kept) ==
  /\ row.failures + s.lost = s.failed
  /\ row.status = "error" => row.failures >= FailureLimit
  /\ row.status = "active" /\ row.failures >= FailureLimit => row.failures = kept

\* They do of a connection nobody works on.
Sound(c) == Tallies(links[c], streak[c], wish[c].at)

\* They would if the failure at hand, which is not counted yet, were lost.
Owing(c) == Tallies(links[c], [streak[c] EXCEPT !.lost = @ + 1], wish[c].at)

\* The connection a call has at hand, by where it stands.
AtHand(q, c) ==
  LET active == links[c].status = "active"
  IN  /\ q.pc \in {"toggle", "drop"} => Sound(c) /\ q.seen = links[c]
      /\ q.pc = "update" => Sound(c)
      /\ q.pc \in {"sync", "worked", "reset", "store"} => Sound(c) /\ active
      /\ q.pc \in {"failed", "count", "counted"} => Owing(c) /\ active
      /\ q.pc = "counted" => q.seen = links[c]

\* What holds of a connection that at most one call works on.
Account(c) ==
  /\ \A j, k \in LinkCall : c \in worksOn(linkCalls[j]) /\ c \in worksOn(linkCalls[k]) => j = k
  /\ (\A k \in LinkCall : c \notin worksOn(linkCalls[k])) => Sound(c)
  /\ \A k \in LinkCall :
       /\ c \in linkCalls[k].todo => Sound(c) /\ links[c].status = "active"
       /\ c = linkCalls[k].link => AtHand(linkCalls[k], c)

\* A call knows the connections it works on.
Knows(q) ==
  /\ q.link \notin q.todo
  /\ \A c \in Link : c \in worksOn(q) => links[c] # NoLink
  /\ q.kind = "refresh" /\ q.pc \notin {"find", "update", "insert"} =>
       \A c \in Link : c \in worksOn(q) => q.copy \in LinkTable /\ q.copy[c] \in LinkRow

\* Where a call stands, and what it then has.
Placed(q) ==
  /\ q.link = NoLink <=> q.pc \in {"idle", "next", "find", "insert"}
  /\ q.pc \in {"idle", "find", "update", "insert", "toggle", "drop", "sync"} => q.todo = {}
  /\ q.pc \in {"find", "insert"} => q.kind \in Provider
  /\ q.pc \in {"counted", "toggle"} => q.seen \in LinkRow
  /\ q.pc = "store" => q.kind = "refresh"

Wished == [Link -> [status: {"active", "paused"}, grant: Nat, at: Nat]]

\* The user's last word on one connection.
Stands(c) ==
  there(c) /\ links[c].provider \notin undone =>
    links[c].status \in {wish[c].status, "error"} /\ links[c].grant = wish[c].grant

LinkInv ==
  /\ LinkTypeOK
  /\ \A c \in Link : links[c] = NoLink => streak[c] = NoStreak
  /\ \A k \in LinkCall : Knows(linkCalls[k])
  /\ \A c \in Link : c \notin met /\ there(c) => Account(c)
  /\ UserHasLastWord

\* A failure that is counted, or lost, leaves the tally right; so does a success.
LEMMA TallyFacts ==
  ASSUME NEW row \in LinkRow, NEW s \in Streaks, NEW kept
  PROVE  /\ Tallies(row, s, kept) => Tallies(row, [[s EXCEPT !.failed = @ + 1] EXCEPT !.lost = @ + 1], kept)
         /\ row.failures = 0 /\ row.status # "error" => Tallies(row, NoStreak, kept)
         /\ NoStreak \in Streaks /\ [s EXCEPT !.failed = @ + 1] \in Streaks /\ [s EXCEPT !.lost = @ + 1] \in Streaks
<1>1. FailureLimit \in Nat \ {0} /\ row.failures \in Nat /\ s.failed \in Nat /\ s.lost \in Nat
  BY LinkConstants DEF LinkRow, Streaks
<1>2. /\ NoStreak \in Streaks /\ NoStreak.failed = 0 /\ NoStreak.lost = 0
      /\ [s EXCEPT !.failed = @ + 1] \in Streaks /\ [s EXCEPT !.lost = @ + 1] \in Streaks
  BY ONLY <1>1, s \in Streaks DEF Streaks, NoStreak
<1>3. row.failures = 0 /\ row.status # "error" => Tallies(row, NoStreak, kept)
  BY ONLY <1>1, <1>2 DEF Tallies
<1>4. Tallies(row, s, kept) => Tallies(row, [[s EXCEPT !.failed = @ + 1] EXCEPT !.lost = @ + 1], kept)
  <2>1. PICK v : v = [[s EXCEPT !.failed = @ + 1] EXCEPT !.lost = @ + 1]
    OBVIOUS
  <2>2. v.failed = s.failed + 1 /\ v.lost = s.lost + 1
    BY ONLY <2>1, s \in Streaks DEF Streaks
  <2>3. Tallies(row, s, kept) => Tallies(row, v, kept)
    BY ONLY <1>1, <2>2 DEF Tallies
  <2> QED
    BY <2>1, <2>3
<1> QED
  BY <1>2, <1>3, <1>4

LEMMA NoStreakIs == NoStreak \in Streaks
BY DEF NoStreak, Streaks

LEMMA LinkFacts ==
  ASSUME LinkInv
  PROVE  /\ links \in LinkTable /\ linkCalls \in [LinkCall -> LinkWork] /\ streak \in [Link -> Streaks] /\ wish \in Wished
         /\ linkServed \in 0..MaxLinkCalls /\ linkFailed \in 0..MaxLinkFails /\ granted \in Nat
         /\ \A c : c \in met => c \in Link
         /\ \A p : p \in undone => p \in Provider
         /\ \A k \in LinkCall : Placed(linkCalls[k]) /\ Knows(linkCalls[k]) /\ linkCalls[k] \in LinkWork
         /\ \A c \in Link : links[c] = NoLink => streak[c] = NoStreak
         /\ \A c \in Link : c \notin met /\ there(c) => Account(c)
         /\ \A c \in Link : Stands(c)
         /\ NoLink \notin Link
<1>1. LinkTypeOK /\ UserHasLastWord
  BY DEF LinkInv
<1>2. \A k \in LinkCall : Placed(linkCalls[k]) /\ Knows(linkCalls[k]) /\ linkCalls[k] \in LinkWork
  BY <1>1 DEF LinkInv, LinkTypeOK, Placed
<1>3. \A c \in Link : Stands(c)
  BY <1>1 DEF UserHasLastWord, Stands
<1>4. NoLink \notin Link
  BY LinkConstants
<1>5. /\ links \in LinkTable /\ linkCalls \in [LinkCall -> LinkWork] /\ streak \in [Link -> Streaks] /\ wish \in Wished
      /\ linkServed \in 0..MaxLinkCalls /\ linkFailed \in 0..MaxLinkFails /\ granted \in Nat
      /\ \A c : c \in met => c \in Link
      /\ \A p : p \in undone => p \in Provider
  BY <1>1 DEF LinkTypeOK, Wished
<1> QED
  BY <1>2, <1>3, <1>4, <1>5 DEF LinkInv

\* A call goes a step with the connection it has at hand, d; nobody else's changes.
LEMMA Working ==
  ASSUME LinkInv, NEW k \in LinkCall, NEW x \in LinkWork, linkCalls' = [linkCalls EXCEPT ![k] = x], Placed(x),
         NEW d \in Link, d \in worksOn(linkCalls[k]), linkCalls[k].link \in {d, NoLink},
         x.link \in {d, NoLink}, \A c : c \in x.todo => c \in linkCalls[k].todo /\ c # d,
         \/ x.link = NoLink /\ x.todo = {}
         \/ x.copy = linkCalls[k].copy /\ x.kind = linkCalls[k].kind /\ linkCalls[k].pc \notin {"find", "update", "insert"},
         met' = met, linkServed' = linkServed, linkFailed' \in 0..MaxLinkFails, granted' = granted,
         links' \in LinkTable, streak' \in [Link -> Streaks], wish' \in Wished,
         \A c \in Link : c # d => links'[c] = links[c] /\ streak'[c] = streak[c] /\ wish'[c] = wish[c],
         links'[d] # NoLink, there(d)' => there(d) /\ links'[d].provider = links[d].provider,
         \A p : p \in undone => p \in undone', \A p : p \in undone' => p \in Provider,
         d \notin met /\ there(d)' => IF d = x.link THEN AtHand(x, d)' ELSE Sound(d)',
         Stands(d)'
  PROVE  LinkInv'
<1>0. PICK q : q = linkCalls[k]
  OBVIOUS
<1>1. /\ \A j \in LinkCall : linkCalls'[j] = IF j = k THEN x ELSE linkCalls[j]
      /\ linkCalls' \in [LinkCall -> LinkWork]
      /\ NoLink \notin Link
      /\ \A j \in LinkCall : Placed(linkCalls[j]) /\ Knows(linkCalls[j])
  BY LinkFacts
<1>2. \A c \in Link : c \in worksOn(x) => c \in worksOn(q)
  BY <1>0, <1>1 DEF worksOn
<1>3. LinkTypeOK'
  <2>1. \A j \in LinkCall : Placed(linkCalls'[j])
    BY <1>1
  <2>2. /\ linkServed' \in 0..MaxLinkCalls /\ linkFailed' \in 0..MaxLinkFails /\ granted' \in Nat
        /\ met' \subseteq Link /\ undone' \subseteq Provider
    BY LinkFacts
  <2> QED
    BY ONLY <1>1, <2>1, <2>2, links' \in LinkTable, streak' \in [Link -> Streaks], wish' \in Wished
       DEF LinkTypeOK, Placed, Wished
<1>4. \A c \in Link : links'[c] = NoLink => links[c] = NoLink /\ streak'[c] = streak[c]
  OBVIOUS
<1>5. \A c \in Link : links'[c] = NoLink => streak'[c] = NoStreak
  BY <1>4, LinkFacts
<1>6. ASSUME NEW j \in LinkCall PROVE Knows(linkCalls[j])'
  <2>0. PICK y : y = linkCalls'[j]
    OBVIOUS
  <2>1. CASE j # k
    <3>1. y = linkCalls[j] /\ Knows(y)
      BY <1>1, <2>0, <2>1
    <3>2. \A c \in Link : links[c] # NoLink => links'[c] # NoLink
      BY <1>4
    <3>3. Knows(y)'
      BY ONLY <3>1, <3>2 DEF Knows
    <3> QED
      BY ONLY <2>0, <3>3 DEF Knows
  <2>2. CASE j = k
    <3>1. y = x /\ Knows(q)
      BY <1>0, <1>1, <2>0, <2>2
    <3>2. x.link \notin x.todo
      BY <1>1 DEF LinkWork
    <3>3. \A c \in Link : c \in worksOn(x) => links'[c] # NoLink
      BY <1>2, <1>4, <3>1 DEF Knows
    <3>4. x.kind = "refresh" /\ x.pc \notin {"find", "update", "insert"} =>
            \A c \in Link : c \in worksOn(x) => x.copy \in LinkTable /\ x.copy[c] \in LinkRow
      <4>1. CASE x.link = NoLink /\ x.todo = {}
        BY <1>1, <4>1 DEF worksOn
      <4>2. CASE x.copy = q.copy /\ x.kind = q.kind /\ q.pc \notin {"find", "update", "insert"}
        BY ONLY <1>2, <3>1, <4>2 DEF Knows
      <4> QED
        BY <1>0, <4>1, <4>2
    <3>5. Knows(x)'
      BY ONLY <3>2, <3>3, <3>4 DEF Knows
    <3> QED
      BY ONLY <2>0, <3>1, <3>5 DEF Knows
  <2> QED
    BY <2>1, <2>2
<1>7. ASSUME NEW c \in Link, c \notin met, there(c)' PROVE Account(c)'
  <2>1. there(c) /\ Account(c)
    <3>1. there(c)
      BY <1>7 DEF there
    <3> QED
      BY <1>7, <3>1, LinkFacts
  <2>2. \A i, j \in LinkCall : c \in worksOn(linkCalls'[i]) /\ c \in worksOn(linkCalls'[j]) => i = j
    <3>1. \A j \in LinkCall : c \in worksOn(linkCalls'[j]) => c \in worksOn(linkCalls[j])
      BY <1>0, <1>1, <1>2
    <3> QED
      BY ONLY <2>1, <3>1 DEF Account
  <2>3. CASE c = d
    <3>1. \A j \in LinkCall : j # k => c \notin worksOn(linkCalls[j])
      BY <2>1, <2>3 DEF Account
    <3>2. \A j \in LinkCall : j # k => c \notin linkCalls[j].todo /\ c # linkCalls[j].link
      BY <3>1 DEF worksOn
    <3>3. IF d = x.link THEN AtHand(x, d)' ELSE Sound(d)'
      BY <1>7, <2>3
    <3>4. d \notin x.todo
      OBVIOUS
    <3>5. (\A j \in LinkCall : c \notin worksOn(linkCalls'[j])) => Sound(c)'
      BY <1>1, <2>3, <3>3 DEF worksOn
    <3>6. \A j \in LinkCall : c \notin linkCalls'[j].todo
      BY <1>1, <2>3, <3>2, <3>4
    <3>7. \A j \in LinkCall : c = linkCalls'[j].link => linkCalls'[j] = x /\ AtHand(x, c)'
      <4>1. \A j \in LinkCall : c = linkCalls'[j].link => j = k
        BY <1>1, <3>2
      <4>2. linkCalls'[k] = x
        BY <1>1
      <4> QED
        BY ONLY <2>3, <3>3, <4>1, <4>2
    <3>8. \A j \in LinkCall : c = linkCalls'[j].link => AtHand(linkCalls[j], c)'
      BY ONLY <3>7 DEF AtHand
    <3> QED
      BY ONLY <2>2, <3>5, <3>6, <3>8 DEF Account
  <2>4. CASE c # d
    <3>1. links'[c] = links[c] /\ streak'[c] = streak[c] /\ wish'[c] = wish[c]
      BY <2>4
    <3>2. Sound(c)' <=> Sound(c)
      BY ONLY <3>1 DEF Sound
    <3>3. \A y : AtHand(y, c)' <=> AtHand(y, c)
      BY ONLY <3>1, <3>2 DEF AtHand, Owing
    <3>4. c \in worksOn(q) => c \in q.todo
      BY <1>0, <2>4, <1>1 DEF worksOn
    <3>5. \A j \in LinkCall : c \in linkCalls[j].todo => Sound(c) /\ links[c].status = "active"
      BY <2>1 DEF Account
    <3>6. (\A j \in LinkCall : c \notin worksOn(linkCalls'[j])) => Sound(c)'
      <4>1. CASE c \in worksOn(q)
        BY <1>0, <3>2, <3>4, <3>5, <4>1
      <4>2. CASE c \notin worksOn(q)
        <5>1. (\A j \in LinkCall : c \notin worksOn(linkCalls'[j])) => \A j \in LinkCall : c \notin worksOn(linkCalls[j])
          BY <1>0, <1>1, <4>2
        <5> QED
          BY ONLY <2>1, <3>2, <5>1 DEF Account
      <4> QED
        BY <4>1, <4>2
    <3>7. \A j \in LinkCall : c \in linkCalls'[j].todo => c \in linkCalls[j].todo
      BY <1>0, <1>1
    <3>8. \A j \in LinkCall : c = linkCalls'[j].link => j # k
      BY <1>1, <2>4
    <3>9. ASSUME NEW j \in LinkCall, c = linkCalls'[j].link PROVE AtHand(linkCalls[j], c)'
      <4>1. PICK y : y = linkCalls[j]
        OBVIOUS
      <4>2. linkCalls'[j] = y
        BY <1>1, <3>8, <3>9, <4>1
      <4>3. AtHand(y, c)
        BY <2>1, <3>9, <4>1, <4>2 DEF Account
      <4>4. AtHand(y, c)'
        BY ONLY <3>3, <4>3
      <4> QED
        BY ONLY <4>2, <4>4 DEF AtHand
    <3> QED
      BY ONLY <2>2, <3>1, <3>2, <3>5, <3>6, <3>7, <3>9 DEF Account
  <2> QED
    BY <2>3, <2>4
<1>8. UserHasLastWord'
  <2>1. UserHasLastWord
    BY DEF LinkInv
  <2>2. \A c \in Link : there(c)' => there(c) /\ links'[c].provider = links[c].provider
    BY DEF there
  <2>3. ASSUME NEW c \in Link PROVE Stands(c)'
    <3>1. CASE c = d
      BY <3>1
    <3>2. CASE c # d
      <4>1. links'[c] = links[c] /\ wish'[c] = wish[c] /\ Stands(c)
        BY <3>2, LinkFacts
      <4>2. links[c].provider \in undone => links[c].provider \in undone'
        OBVIOUS
      <4> QED
        BY ONLY <4>1, <4>2 DEF Stands, there
    <3> QED
      BY <3>1, <3>2
  <2>4. \A c, e \in Link : there(c)' /\ there(e)' /\ links'[c].provider \notin undone'
                            /\ links'[e].provider = links'[c].provider => c = e
    <3>1. \A c \in Link : links[c].provider \in undone => links[c].provider \in undone'
      OBVIOUS
    <3> QED
      BY ONLY <2>1, <2>2, <3>1 DEF UserHasLastWord
  <2> QED
    BY ONLY <2>3, <2>4 DEF UserHasLastWord, Stands
<1> QED
  BY <1>3, <1>5, <1>6, <1>7, <1>8 DEF LinkInv

\* Rows that stay leave the user's last word, and what calls know, alone.
LEMMA RowsStay ==
  ASSUME LinkInv, links' = links, wish' = wish, undone' = undone, streak' = streak
  PROVE  /\ UserHasLastWord'
         /\ \A c \in Link : links'[c] = NoLink => streak'[c] = NoStreak
         /\ \A q : Knows(q) => Knows(q)'
         /\ \A c \in Link : Sound(c)' <=> Sound(c)
         /\ \A q : \A c \in Link : AtHand(q, c)' <=> AtHand(q, c)
<1>1. UserHasLastWord'
  BY DEF LinkInv, UserHasLastWord, there
<1>2. \A c \in Link : links'[c] = NoLink => streak'[c] = NoStreak
  BY DEF LinkInv
<1>3. \A q : Knows(q) => Knows(q)'
  BY DEF Knows
<1>4. \A c \in Link : Sound(c)' <=> Sound(c)
  BY DEF Sound
<1>5. \A q : \A c \in Link : AtHand(q, c)' <=> AtHand(q, c)
  BY <1>4 DEF AtHand, Owing
<1> QED
  BY <1>1, <1>2, <1>3, <1>4, <1>5

\* A call arrives, or comes to have a connection at hand: nobody worked on those
\* connections, or they are met.
LEMMA Arriving ==
  ASSUME LinkInv, NEW k \in LinkCall, NEW x \in LinkWork, linkCalls' = [linkCalls EXCEPT ![k] = x], Placed(x),
         worksOn(linkCalls[k]) = {}, x.link \notin x.todo,
         links' = links, wish' = wish, undone' = undone, streak' = streak,
         linkServed' \in 0..MaxLinkCalls, linkFailed' \in 0..MaxLinkFails, granted' \in Nat,
         \A c : c \in met => c \in met', \A c : c \in met' => c \in Link,
         \A c \in worksOn(x) : \A j \in LinkCall : c \in worksOn(linkCalls[j]) => c \in met',
         \A c \in x.todo : there(c) /\ links[c].status = "active",
         x.link \in Link => there(x.link) /\ (Sound(x.link) => AtHand(x, x.link)),
         x.kind = "refresh" /\ x.pc \notin {"find", "update", "insert"} => x.link = NoLink /\ x.copy = links
  PROVE  LinkInv'
<1>1. /\ \A j \in LinkCall : linkCalls'[j] = IF j = k THEN x ELSE linkCalls[j]
      /\ linkCalls' \in [LinkCall -> LinkWork]
      /\ NoLink \notin Link /\ links \in LinkTable
      /\ \A j \in LinkCall : Placed(linkCalls[j]) /\ Knows(linkCalls[j])
  BY LinkFacts
<1>2. LinkTypeOK'
  <2>1. \A j \in LinkCall : Placed(linkCalls'[j])
    BY <1>1
  <2>2. /\ met' \subseteq Link /\ undone' \subseteq Provider
        /\ links' \in LinkTable /\ streak' \in [Link -> Streaks] /\ wish' \in Wished
    BY LinkFacts
  <2> QED
    BY ONLY <1>1, <2>1, <2>2, linkServed' \in 0..MaxLinkCalls, linkFailed' \in 0..MaxLinkFails, granted' \in Nat
       DEF LinkTypeOK, Placed, Wished
<1>3. \A c \in Link : c \in worksOn(x) => there(c)
  BY <1>1 DEF worksOn
<1>4. Knows(x)
  <2>1. \A c \in Link : c \in worksOn(x) => links[c] # NoLink
    BY <1>3 DEF there
  <2>2. x.kind = "refresh" /\ x.pc \notin {"find", "update", "insert"} =>
           \A c \in Link : c \in worksOn(x) => x.copy \in LinkTable /\ x.copy[c] \in LinkRow
    <3>1. \A c \in Link : there(c) => links[c] \in LinkRow
      BY <1>1 DEF there, LinkTable
    <3> QED
      BY <1>1, <1>3, <3>1
  <2> QED
    BY <2>1, <2>2 DEF Knows
<1>5. ASSUME NEW j \in LinkCall PROVE Knows(linkCalls[j])'
  <2>1. PICK y : y = linkCalls'[j]
    OBVIOUS
  <2>2. Knows(y)
    BY <1>1, <1>4, <2>1
  <2>3. Knows(y)'
    BY <2>2, RowsStay
  <2> QED
    BY ONLY <2>1, <2>3 DEF Knows
<1>6. ASSUME NEW c \in Link, c \notin met', there(c)' PROVE Account(c)'
  <2>1. there(c) /\ Account(c)
    <3>1. c \notin met
      BY <1>6
    <3>2. there(c)
      BY <1>6 DEF there
    <3> QED
      BY <3>1, <3>2, LinkFacts
  <2>2. c \in worksOn(x) => \A j \in LinkCall : c \notin worksOn(linkCalls[j])
    BY <1>6
  <2>3. \A j \in LinkCall : c \in worksOn(linkCalls'[j]) => (j = k /\ c \in worksOn(x)) \/ c \in worksOn(linkCalls[j])
    BY <1>1
  <2>4. \A i, j \in LinkCall : c \in worksOn(linkCalls'[i]) /\ c \in worksOn(linkCalls'[j]) => i = j
    BY ONLY <2>1, <2>2, <2>3 DEF Account
  <2>5. (\A j \in LinkCall : c \notin worksOn(linkCalls'[j])) => Sound(c)'
    <3>1. (\A j \in LinkCall : c \notin worksOn(linkCalls'[j])) => \A j \in LinkCall : c \notin worksOn(linkCalls[j])
      BY <1>1
    <3>2. Sound(c)' <=> Sound(c)
      BY RowsStay
    <3> QED
      BY ONLY <2>1, <3>1, <3>2 DEF Account
  <2>6. c \in worksOn(x) => Sound(c)
    BY ONLY <2>1, <2>2 DEF Account
  <2>7. ASSUME NEW j \in LinkCall
        PROVE  /\ c \in linkCalls'[j].todo => (Sound(c) /\ links[c].status = "active")'
               /\ c = linkCalls'[j].link => AtHand(linkCalls[j], c)'
    <3>1. PICK y : y = linkCalls'[j]
      OBVIOUS
    <3>2. /\ c \in y.todo => Sound(c) /\ links[c].status = "active"
          /\ c = y.link => AtHand(y, c)
      <4>1. CASE j = k
        BY <1>1, <2>6, <3>1, <4>1 DEF worksOn
      <4>2. CASE j # k
        <5>1. y = linkCalls[j]
          BY <1>1, <3>1, <4>2
        <5> QED
          BY ONLY <2>1, <5>1, j \in LinkCall DEF Account
      <4> QED
        BY <4>1, <4>2
    <3>3. (c = y.link => AtHand(y, c)') /\ (Sound(c)' <=> Sound(c)) /\ links' = links
      BY <3>2, RowsStay
    <3> QED
      BY ONLY <3>1, <3>2, <3>3 DEF AtHand
  <2> QED
    BY ONLY <2>4, <2>5, <2>7 DEF Account
<1> QED
  BY <1>2, <1>5, <1>6, RowsStay DEF LinkInv

LEMMA StartKeeps ==
  ASSUME LinkInv, NEW k \in LinkCall, NEW x \in LinkWork, LinkStart(k, x), Placed(x), granted' \in Nat,
         x.link \notin x.todo,
         \A c \in x.todo : there(c) /\ links[c].status = "active",
         x.link \in Link => there(x.link) /\ (Sound(x.link) => AtHand(x, x.link)),
         x.kind = "refresh" /\ x.pc \notin {"find", "update", "insert"} => x.link = NoLink /\ x.copy = links
  PROVE  LinkInv'
<1>1. /\ linkCalls[k].pc = "idle" /\ linkServed < MaxLinkCalls /\ linkServed' = linkServed + 1
      /\ linkCalls' = [linkCalls EXCEPT ![k] = x]
      /\ met' = met \cup (worksOn(x) \cap UNION {worksOn(linkCalls[j]) : j \in LinkCall})
      /\ links' = links /\ linkFailed' = linkFailed /\ streak' = streak /\ wish' = wish /\ undone' = undone
  BY DEF LinkStart
<1>2. linkServed' \in 0..MaxLinkCalls
  <2>1. linkServed \in 0..MaxLinkCalls /\ MaxLinkCalls \in Nat
    BY LinkFacts, LinkConstants
  <2>2. linkServed < MaxLinkCalls /\ linkServed' = linkServed + 1
    BY <1>1
  <2> QED
    BY ONLY <2>1, <2>2
<1>3. worksOn(linkCalls[k]) = {}
  <2>1. linkCalls[k].todo = {} /\ linkCalls[k].link = NoLink /\ NoLink \notin Link
    BY <1>1, LinkFacts DEF Placed
  <2> QED
    BY ONLY <2>1 DEF worksOn
<1>4. \A c : c \in worksOn(x) => c \in Link
  BY DEF worksOn, LinkWork
<1>5. /\ \A c : c \in met => c \in met'
      /\ \A c : c \in met' => c \in Link
      /\ \A c \in worksOn(x) : \A j \in LinkCall : c \in worksOn(linkCalls[j]) => c \in met'
  BY <1>1, <1>4, LinkFacts
<1>6. linkFailed' \in 0..MaxLinkFails
  BY <1>1, LinkFacts
<1> QED
  BY <1>1, <1>2, <1>3, <1>5, <1>6, Arriving

LEMMA UnusedIsWork == /\ Unused \in LinkWork /\ Placed(Unused) /\ Unused.pc = "idle" /\ Unused.todo = {}
                      /\ Unused.link = NoLink /\ Unused.kind = "user"
<1>1. NoLink \notin Link
  BY LinkConstants
<1>2. Unused \in LinkWork
  BY DEF Unused, LinkWork, LinkStations
<1> QED
  BY <1>2 DEF Unused, Placed

\* Calls that work through the connections that were active.
LEMMA BatchKeeps ==
  ASSUME LinkInv, NEW k \in LinkCall, Dispatch(k) \/ RefreshJob(k) \/ Webhook(k)
  PROVE  LinkInv'
<1>0. links \in LinkTable /\ granted \in Nat /\ NoLink \notin Link
  BY LinkFacts
<1>1. PICK x \in LinkWork : /\ LinkStart(k, x) /\ granted' = granted
                            /\ x.pc = "next" /\ x.link = NoLink /\ (\A c : c \in x.todo => c \in ActiveLinks)
                            /\ x.kind = "refresh" => x.copy = links
  <2>0. PICK A : A = ActiveLinks /\ A \subseteq Link
    BY DEF ActiveLinks
  <2>1. CASE Dispatch(k)
    <3>1. PICK x : x = [Unused EXCEPT !.pc = "next", !.kind = "event", !.todo = A]
      OBVIOUS
    <3>2. LinkStart(k, x) /\ granted' = granted
      BY <2>0, <2>1, <3>1 DEF Dispatch
    <3>3. x \in LinkWork /\ x.pc = "next" /\ x.link = NoLink /\ x.kind = "event" /\ x.todo = A
      BY ONLY <2>0, <3>1 DEF Unused, LinkWork, LinkStations
    <3> QED
      BY ONLY <2>0, <3>2, <3>3
  <2>2. CASE RefreshJob(k)
    <3>1. PICK S \in SUBSET A :
            /\ LinkStart(k, [Unused EXCEPT !.pc = "next", !.kind = "refresh", !.todo = S, !.copy = links])
            /\ granted' = granted
      BY <2>0, <2>2 DEF RefreshJob
    <3>2. PICK t \in LinkTable : t = links
      BY <1>0
    <3>3. PICK x : x = [Unused EXCEPT !.pc = "next", !.kind = "refresh", !.todo = S, !.copy = t]
      OBVIOUS
    <3>4. LinkStart(k, x) /\ granted' = granted
      BY <3>1, <3>2, <3>3
    <3>5. x \in LinkWork /\ x.pc = "next" /\ x.link = NoLink /\ x.kind = "refresh" /\ x.todo = S /\ x.copy = t
      BY ONLY <2>0, <3>3, S \in SUBSET A, t \in LinkTable DEF Unused, LinkWork, LinkStations
    <3> QED
      BY ONLY <2>0, <3>2, <3>4, <3>5, S \in SUBSET A
  <2>3. CASE Webhook(k)
    <3>1. PICK c \in A : /\ LinkStart(k, [Unused EXCEPT !.pc = "next", !.kind = "inbound", !.todo = {c}])
                         /\ granted' = granted
      BY <2>0, <2>3 DEF Webhook
    <3>2. PICK x : x = [Unused EXCEPT !.pc = "next", !.kind = "inbound", !.todo = {c}]
      OBVIOUS
    <3>3. LinkStart(k, x) /\ granted' = granted
      BY <3>1, <3>2
    <3>4. x \in LinkWork /\ x.pc = "next" /\ x.link = NoLink /\ x.kind = "inbound" /\ x.todo = {c}
      BY ONLY <2>0, <3>2, c \in A DEF Unused, LinkWork, LinkStations
    <3> QED
      BY ONLY <2>0, <3>3, <3>4, c \in A
  <2> QED
    BY <2>1, <2>2, <2>3
<1>2. Placed(x) /\ x.link \notin x.todo /\ x.link \notin Link
  <2>1. x.link \notin x.todo /\ x.link \notin Link
    BY <1>0, <1>1 DEF LinkWork
  <2> QED
    BY ONLY <1>1, <2>1 DEF Placed
<1>3. \A c \in x.todo : there(c) /\ links[c].status = "active"
  BY <1>1 DEF ActiveLinks
<1> QED
  BY <1>0, <1>1, <1>2, <1>3, StartKeeps

LEMMA UserCallKeeps ==
  ASSUME LinkInv, NEW k \in LinkCall, NEW pc \in {"toggle", "drop", "sync"}, UserCall(k, pc)
  PROVE  LinkInv'
<1>0. links \in LinkTable /\ granted \in Nat /\ NoLink \notin Link
  BY LinkFacts
<1>1. PICK c \in Link :
        /\ there(c) /\ (pc = "sync" => links[c].status = "active")
        /\ LinkStart(k, [Unused EXCEPT !.pc = pc, !.link = c, !.seen = links[c]])
        /\ granted' = granted
  BY DEF UserCall
<1>2. PICK row : row = links[c]
  OBVIOUS
<1>3. row \in LinkRow
  BY <1>0, <1>1, <1>2 DEF there, LinkTable
<1>4. PICK x : x = [Unused EXCEPT !.pc = pc, !.link = c, !.seen = row]
  OBVIOUS
<1>5. x \in LinkWork /\ x.pc = pc /\ x.kind = "user" /\ x.todo = {} /\ x.link = c /\ x.seen = row
  BY ONLY <1>3, <1>4, pc \in {"toggle", "drop", "sync"}, c \in Link DEF Unused, LinkWork, LinkStations
<1>6. Placed(x)
  <2>1. x.link # NoLink
    BY <1>0, <1>5
  <2> QED
    BY ONLY <1>3, <1>5, <2>1, pc \in {"toggle", "drop", "sync"} DEF Placed
<1>7. LinkStart(k, x) /\ granted' \in Nat /\ there(x.link)
  BY <1>0, <1>1, <1>2, <1>4, <1>5
<1>8. Sound(x.link) => AtHand(x, x.link)
  BY ONLY <1>1, <1>2, <1>5, pc \in {"toggle", "drop", "sync"} DEF AtHand
<1> QED
  BY <1>5, <1>6, <1>7, <1>8, StartKeeps

LEMMA CallbackKeeps == ASSUME LinkInv, NEW k \in LinkCall, Callback(k) PROVE LinkInv'
<1>0. granted \in Nat /\ NoLink \notin Link
  BY LinkFacts
<1>1. PICK p \in Provider : /\ granted' = granted + 1
                            /\ LinkStart(k, [Unused EXCEPT !.pc = "find", !.kind = p, !.grant = granted + 1])
  BY DEF Callback
<1>2. PICK g \in Nat : g = granted + 1
  BY <1>0
<1>3. PICK x : x = [Unused EXCEPT !.pc = "find", !.kind = p, !.grant = g]
  OBVIOUS
<1>4. x \in LinkWork /\ x.pc = "find" /\ x.kind = p /\ x.todo = {} /\ x.link = NoLink
  BY ONLY <1>3, p \in Provider, g \in Nat DEF Unused, LinkWork, LinkStations
<1>5. Placed(x)
  BY ONLY <1>4, p \in Provider DEF Placed
<1>6. LinkStart(k, x) /\ granted' \in Nat
  BY <1>0, <1>1, <1>2, <1>3
<1> QED
  BY <1>0, <1>4, <1>5, <1>6, StartKeeps

-----------------------------------------------------------------------------
(* A connection is served.                                                  *)

\* On to the next connection, or done.
LEMMA MovedOn ==
  ASSUME NEW q \in LinkWork, NEW x, x = LinkNext(q)
  PROVE  /\ x \in LinkWork /\ Placed(x) /\ x.link = NoLink /\ x.todo = q.todo
         /\ x.todo = {} \/ (x.copy = q.copy /\ x.kind = q.kind)
<1>1. CASE q.todo = {}
  BY <1>1, UnusedIsWork DEF LinkNext
<1>2. CASE q.todo # {}
  <2>1. x = [q EXCEPT !.pc = "next", !.link = NoLink, !.seen = NoLink]
    BY <1>2 DEF LinkNext
  <2>2. /\ x \in LinkWork /\ x.pc = "next" /\ x.link = NoLink /\ x.todo = q.todo /\ x.copy = q.copy /\ x.kind = q.kind
    BY ONLY <2>1, q \in LinkWork DEF LinkWork, LinkStations
  <2>3. Placed(x)
    BY ONLY <2>2 DEF Placed
  <2> QED
    BY <2>2, <2>3
<1> QED
  BY <1>1, <1>2

\* What a call that has a connection at hand knows of it.
LEMMA HasAtHand ==
  ASSUME LinkInv, NEW k \in LinkCall, linkCalls[k].pc \notin {"idle", "next", "find", "insert"}
  PROVE  LET q == linkCalls[k]
         IN  /\ q \in LinkWork /\ Placed(q) /\ q.link \in Link /\ q.link \in worksOn(q) /\ q.link \notin q.todo
             /\ links[q.link] # NoLink
             /\ there(q.link) => links[q.link] \in LinkRow
             /\ streak[q.link] \in Streaks
             /\ q.link \notin met /\ there(q.link) => AtHand(q, q.link)
             /\ Stands(q.link)
<1>0. PICK q : q = linkCalls[k]
  OBVIOUS
<1>1. q \in LinkWork /\ Placed(q) /\ Knows(q) /\ links \in LinkTable /\ streak \in [Link -> Streaks]
  BY <1>0, LinkFacts
<1>2. q.link \in Link /\ q.link # NoLink
  BY <1>0, <1>1 DEF Placed, LinkWork
<1>3. q.link \in worksOn(q) /\ q.link \notin q.todo /\ links[q.link] # NoLink
  BY <1>1, <1>2 DEF worksOn, Knows
<1>4. there(q.link) => links[q.link] \in LinkRow
  BY <1>1, <1>2 DEF there, LinkTable
<1>5. q.link \notin met /\ there(q.link) => AtHand(q, q.link)
  <2>1. q.link \notin met /\ there(q.link) => Account(q.link)
    BY <1>2, LinkFacts
  <2> QED
    BY <1>0, <2>1 DEF Account
<1>6. Stands(q.link) /\ streak[q.link] \in Streaks
  BY <1>1, <1>2, LinkFacts
<1> QED
  BY <1>0, <1>1, <1>2, <1>3, <1>4, <1>5, <1>6

\* A step that writes no row.
LEMMA NoRowWritten ==
  ASSUME LinkInv, NEW k \in LinkCall, NEW x \in LinkWork, linkCalls' = [linkCalls EXCEPT ![k] = x], Placed(x),
         NEW d \in Link, d \in worksOn(linkCalls[k]), linkCalls[k].link \in {d, NoLink},
         x.link \in {d, NoLink}, \A c : c \in x.todo => c \in linkCalls[k].todo /\ c # d,
         \/ x.link = NoLink /\ x.todo = {}
         \/ x.copy = linkCalls[k].copy /\ x.kind = linkCalls[k].kind /\ linkCalls[k].pc \notin {"find", "update", "insert"},
         met' = met, linkServed' = linkServed, linkFailed' \in 0..MaxLinkFails, granted' = granted,
         links' = links, wish' = wish, undone' = undone,
         streak' \in [Link -> Streaks], \A c \in Link : c # d => streak'[c] = streak[c],
         d \notin met /\ there(d) => IF d = x.link THEN AtHand(x, d)' ELSE Sound(d)'
  PROVE  LinkInv'
<1>1. links' \in LinkTable /\ wish' \in Wished
  BY LinkFacts
<1>2. \A c \in Link : c # d => links'[c] = links[c] /\ streak'[c] = streak[c] /\ wish'[c] = wish[c]
  OBVIOUS
<1>3. links'[d] # NoLink
  <2>1. Knows(linkCalls[k])
    BY LinkFacts
  <2> QED
    BY <2>1 DEF Knows
<1>4. (there(d)' => there(d) /\ links'[d].provider = links[d].provider) /\ (there(d)' <=> there(d))
  BY DEF there
<1>5. Stands(d)'
  <2>1. Stands(d)
    BY LinkFacts
  <2>2. links' = links /\ wish' = wish /\ undone' = undone
    OBVIOUS
  <2> QED
    BY ONLY <2>1, <2>2 DEF Stands, there
<1>6. d \notin met /\ there(d)' => IF d = x.link THEN AtHand(x, d)' ELSE Sound(d)'
  BY <1>4
<1>7. (\A p : p \in undone => p \in undone') /\ (\A p : p \in undone' => p \in Provider)
  BY LinkFacts
<1> QED
  BY <1>1, <1>2, <1>3, <1>4, <1>5, <1>6, <1>7, Working

\* A step that writes the row of the connection at hand, and is done with it.
LEMMA RowWritten ==
  ASSUME LinkInv, NEW k \in LinkCall, linkCalls[k].pc \notin {"idle", "next", "find", "insert"},
         NEW x \in LinkWork, linkCalls' = [linkCalls EXCEPT ![k] = x], Placed(x), x.link = NoLink,
         x.todo = linkCalls[k].todo,
         \/ x.todo = {}
         \/ x.copy = linkCalls[k].copy /\ x.kind = linkCalls[k].kind /\ linkCalls[k].pc \notin {"find", "update", "insert"},
         met' = met, linkServed' = linkServed, linkFailed' = linkFailed, granted' = granted,
         NEW d, d = linkCalls[k].link, NEW row, links' = IF there(d) THEN [links EXCEPT ![d] = row] ELSE links,
         there(d) => row \in LinkRow /\ row.provider = links[d].provider,
         streak' \in [Link -> Streaks], wish' \in Wished,
         \A c \in Link : c # d => streak'[c] = streak[c] /\ wish'[c] = wish[c],
         \A p : p \in undone => p \in undone', \A p : p \in undone' => p \in Provider,
         there(d) /\ d \notin met => Tallies(row, streak'[d], wish'[d].at),
         there(d) /\ row.provider \notin undone' => row.status \in {wish'[d].status, "error"} /\ row.grant = wish'[d].grant
  PROVE  LinkInv'
<1>1. d \in Link /\ d \in worksOn(linkCalls[k]) /\ d \notin linkCalls[k].todo /\ links[d] # NoLink
  BY HasAtHand
<1>2. links \in LinkTable /\ NoLink \notin Link /\ NoLink \notin LinkRow /\ UsedLink \notin LinkRow
  BY LinkFacts, LinkConstants
<1>3. links' \in LinkTable
  <2>1. CASE there(d)
    <3>1. links' = [links EXCEPT ![d] = row] /\ row \in LinkRow
      BY <2>1
    <3> QED
      BY ONLY <1>1, <1>2, <3>1 DEF LinkTable
  <2>2. CASE ~there(d)
    BY <1>2, <2>2
  <2> QED
    BY <2>1, <2>2
<1>4. /\ \A c \in Link : c # d => links'[c] = links[c]
      /\ there(d) => links'[d] = row
      /\ ~there(d) => links'[d] = links[d]
  BY <1>1, <1>2 DEF LinkTable
<1>5. (there(d)' => there(d) /\ links'[d] = row) /\ links'[d] # NoLink
  BY <1>1, <1>2, <1>4 DEF there
<1>6. \A c \in Link : c # d => links'[c] = links[c] /\ streak'[c] = streak[c] /\ wish'[c] = wish[c]
  BY <1>4
<1>7. d \notin met /\ there(d)' => Sound(d)'
  <2>1. there(d) /\ d \notin met => Tallies(row, streak'[d], wish'[d].at)
    OBVIOUS
  <2>2. d \notin met /\ there(d)' => Tallies(links'[d], streak'[d], wish'[d].at)
    BY ONLY <1>5, <2>1
  <2> QED
    BY ONLY <2>2 DEF Sound
<1>8. Stands(d)'
  <2>1. there(d) /\ row.provider \notin undone' => row.status \in {wish'[d].status, "error"} /\ row.grant = wish'[d].grant
    OBVIOUS
  <2> QED
    BY ONLY <1>5, <2>1 DEF Stands
<1>9. there(d)' => there(d) /\ links'[d].provider = links[d].provider
  BY <1>5
<1>10. \A c : c \in x.todo => c \in linkCalls[k].todo /\ c # d
  BY <1>1
<1>11. d \notin met /\ there(d)' => IF d = x.link THEN AtHand(x, d)' ELSE Sound(d)'
  BY <1>1, <1>2, <1>7
<1>12. linkFailed' \in 0..MaxLinkFails
  BY LinkFacts
<1> QED
  BY <1>1, <1>3, <1>5, <1>6, <1>8, <1>9, <1>10, <1>11, <1>12, Working

LEMMA ServeKeeps == ASSUME LinkInv, NEW k \in LinkCall, Serve(k) PROVE LinkInv'
<1>0. PICK q : q = linkCalls[k]
  OBVIOUS
<1>1. PICK c \in q.todo, ok \in BOOLEAN :
        LET r == [q EXCEPT !.todo = q.todo \ {c}, !.link = c]
        IN  /\ r.pc = "next"
            /\ LinkGo(k, [r EXCEPT !.pc = CASE r.kind = "refresh" -> (IF ok THEN "store" ELSE "count")
                                            [] OTHER              -> (IF ok THEN "worked" ELSE "failed")])
            /\ streak' = [streak EXCEPT ![c].failed = IF ok THEN @ ELSE @ + 1]
            /\ UNCHANGED <<links, wish, met, undone>>
  BY <1>0 DEF Serve
<1>2. /\ q \in LinkWork /\ c \in Link /\ streak \in [Link -> Streaks] /\ NoLink \notin Link
      /\ Placed(q) /\ links[c] # NoLink
  BY <1>0, LinkFacts DEF LinkWork, Knows, worksOn
<1>3. PICK r : r = [q EXCEPT !.todo = q.todo \ {c}, !.link = c]
  OBVIOUS
<1>4. /\ r \in LinkWork /\ r.pc = q.pc /\ r.kind = q.kind /\ r.copy = q.copy /\ r.link = c /\ r.todo = q.todo \ {c}
  BY ONLY <1>2, <1>3 DEF LinkWork
<1>5. PICK pc : pc = CASE r.kind = "refresh" -> (IF ok THEN "store" ELSE "count")
                       [] OTHER              -> (IF ok THEN "worked" ELSE "failed")
  OBVIOUS
<1>6. PICK x : x = [r EXCEPT !.pc = pc]
  OBVIOUS
<1>7. /\ r.pc = "next" /\ LinkGo(k, x)
      /\ streak' = [streak EXCEPT ![c].failed = IF ok THEN @ ELSE @ + 1]
      /\ links' = links /\ wish' = wish /\ met' = met /\ undone' = undone
  BY <1>1, <1>3, <1>4, <1>5, <1>6
<1>8. /\ pc \in {"store", "count", "worked", "failed"}
      /\ pc = "store" => ok /\ q.kind = "refresh"
      /\ pc = "worked" => ok /\ q.kind # "refresh"
      /\ pc \in {"count", "failed"} => ~ok
  BY <1>4, <1>5
<1>9. /\ x \in LinkWork /\ x.pc = pc /\ x.kind = q.kind /\ x.copy = q.copy /\ x.link = c /\ x.todo = q.todo \ {c}
  BY ONLY <1>4, <1>6, <1>8 DEF LinkWork, LinkStations
<1>10. Placed(x)
  <2>1. x.link # NoLink
    BY <1>2, <1>9
  <2> QED
    BY ONLY <1>8, <1>9, <2>1 DEF Placed
<1>11. linkCalls' = [linkCalls EXCEPT ![k] = x] /\ linkServed' = linkServed /\ linkFailed' \in 0..MaxLinkFails /\ granted' = granted
  BY <1>7, LinkFacts DEF LinkGo, LinkFrame
<1>12. c \in worksOn(q) /\ q.link = NoLink /\ q.pc = "next"
  BY <1>2, <1>4, <1>7 DEF worksOn, Placed
<1>13. /\ streak' \in [Link -> Streaks] /\ \A e \in Link : e # c => streak'[e] = streak[e]
       /\ streak'[c] = IF ok THEN streak[c] ELSE [streak[c] EXCEPT !.failed = @ + 1]
  BY ONLY <1>2, <1>7, c \in Link, ok \in BOOLEAN DEF Streaks
<1>14. c \notin met /\ there(c) => AtHand(x, c)'
  <2> SUFFICES ASSUME c \notin met, there(c) PROVE AtHand(x, c)'
    OBVIOUS
  <2>1. Account(c)
    BY <1>2, LinkFacts
  <2>2. Sound(c) /\ links[c].status = "active"
    BY <1>0, <2>1 DEF Account
  <2>3. links' = links /\ wish' = wish /\ links[c] \in LinkRow /\ streak[c] \in Streaks
    BY <1>2, <1>7, LinkFacts DEF there, LinkTable
  <2>4. ok => Sound(c)'
    BY ONLY <1>13, <2>2, <2>3 DEF Sound
  <2>5. ~ok => Owing(c)'
    <3>1. Tallies(links[c], [[streak[c] EXCEPT !.failed = @ + 1] EXCEPT !.lost = @ + 1], wish[c].at)
      BY <2>2, <2>3, TallyFacts DEF Sound
    <3> QED
      BY ONLY <1>13, <2>3, <3>1 DEF Owing
  <2> QED
    BY ONLY <1>8, <1>9, <2>2, <2>3, <2>4, <2>5 DEF AtHand
<1>15. /\ c \in worksOn(linkCalls[k]) /\ linkCalls[k].link \in {c, NoLink}
       /\ x.link \in {c, NoLink} /\ \A e : e \in x.todo => e \in linkCalls[k].todo /\ e # c
       /\ x.copy = linkCalls[k].copy /\ x.kind = linkCalls[k].kind /\ linkCalls[k].pc \notin {"find", "update", "insert"}
       /\ c \notin met /\ there(c) => IF c = x.link THEN AtHand(x, c)' ELSE Sound(c)'
  BY <1>0, <1>9, <1>12, <1>14
<1>16. c \in Link /\ x \in LinkWork /\ links' = links /\ wish' = wish /\ met' = met /\ undone' = undone
  BY <1>2, <1>7, <1>9
<1> QED
  BY ONLY LinkInv, k \in LinkCall, <1>10, <1>11, <1>13, <1>15, <1>16, NoRowWritten

LEMMA LogKeeps == ASSUME LinkInv, NEW k \in LinkCall, Log(k) PROVE LinkInv'
<1>0. PICK q : q = linkCalls[k]
  OBVIOUS
<1>1. /\ q.pc \in {"worked", "failed"} /\ links' = links /\ streak' = streak /\ wish' = wish /\ met' = met /\ undone' = undone
  BY <1>0 DEF Log
<1>2. PICK x : x = IF ~there(q.link) THEN Unused
                   ELSE IF q.pc = "failed" THEN [q EXCEPT !.pc = "count"]
                   ELSE IF q.kind = "inbound" THEN LinkNext(q) ELSE [q EXCEPT !.pc = "reset"]
  OBVIOUS
<1>3. LinkGo(k, x)
  BY <1>0, <1>2 DEF Log
<1>4. linkCalls' = [linkCalls EXCEPT ![k] = x] /\ linkServed' = linkServed /\ linkFailed' \in 0..MaxLinkFails /\ granted' = granted
  BY <1>3, LinkFacts DEF LinkGo, LinkFrame
<1>5. /\ q \in LinkWork /\ Placed(q) /\ q.link \in Link /\ q.link \in worksOn(q) /\ q.link \notin q.todo
      /\ q.link \notin met /\ there(q.link) => AtHand(q, q.link)
  BY <1>0, <1>1, HasAtHand
<1>6. NoLink \notin Link /\ streak \in [Link -> Streaks]
  BY LinkFacts
<1>7. /\ x \in LinkWork /\ Placed(x) /\ x.link \in {q.link, NoLink} /\ \A c : c \in x.todo => c \in q.todo
      /\ (x.link = NoLink /\ x.todo = {}) \/ (x.copy = q.copy /\ x.kind = q.kind)
      /\ there(q.link) => IF q.pc = "failed" THEN x.pc = "count" /\ x.link = q.link
                          ELSE IF q.kind = "inbound" THEN x.link = NoLink ELSE x.pc = "reset" /\ x.link = q.link
  <2>1. CASE ~there(q.link)
    BY <1>2, <2>1, UnusedIsWork
  <2>2. CASE there(q.link) /\ q.pc # "failed" /\ q.kind = "inbound"
    <3>1. x = LinkNext(q)
      BY <1>2, <2>2
    <3>2. /\ x \in LinkWork /\ Placed(x) /\ x.link = NoLink /\ x.todo = q.todo
          /\ x.todo = {} \/ (x.copy = q.copy /\ x.kind = q.kind)
      BY ONLY <1>5, <3>1, MovedOn
    <3> QED
      BY <2>2, <3>2
  <2>3. CASE there(q.link) /\ ~(q.pc # "failed" /\ q.kind = "inbound")
    <3>1. PICK pc \in {"count", "reset"} : x = [q EXCEPT !.pc = pc] /\ (pc = "count" <=> q.pc = "failed")
      BY <1>2, <2>3
    <3>3. q.link # NoLink
      BY <1>5, <1>6
    <3>4. /\ x \in LinkWork /\ Placed(x) /\ x.pc = pc /\ x.link = q.link /\ x.todo = q.todo /\ x.copy = q.copy /\ x.kind = q.kind
      <4>1. x \in LinkWork /\ x.pc = pc /\ x.link = q.link /\ x.todo = q.todo /\ x.copy = q.copy /\ x.kind = q.kind
        BY ONLY <1>5, <3>1, pc \in {"count", "reset"} DEF LinkWork, LinkStations
      <4> QED
        BY ONLY <3>3, <4>1, pc \in {"count", "reset"} DEF Placed
    <3> QED
      BY ONLY <2>3, <3>1, <3>4, pc \in {"count", "reset"}
  <2> QED
    BY <2>1, <2>2, <2>3
<1>8. q.link \notin met /\ there(q.link) => IF q.link = x.link THEN AtHand(x, q.link)' ELSE Sound(q.link)'
  <2> SUFFICES ASSUME q.link \notin met, there(q.link)
               PROVE  IF q.link = x.link THEN AtHand(x, q.link)' ELSE Sound(q.link)'
    OBVIOUS
  <2>1. links' = links /\ wish' = wish /\ streak' = streak
    BY <1>1
  <2>2. AtHand(q, q.link) /\ q.link # NoLink
    BY <1>5, <1>6
  <2> QED
    BY ONLY <1>1, <1>7, <2>1, <2>2, there(q.link) DEF AtHand, Sound, Owing
<1>9. \A c : c \in x.todo => c \in q.todo /\ c # q.link
  BY <1>5, <1>7
<1>10. streak' \in [Link -> Streaks] /\ \A c \in Link : streak'[c] = streak[c]
  BY <1>1, <1>6
<1>11. PICK d : d = q.link
  OBVIOUS
<1>12. /\ d \in Link /\ d \in worksOn(linkCalls[k]) /\ linkCalls[k].link \in {d, NoLink}
       /\ x.link \in {d, NoLink} /\ \A c : c \in x.todo => c \in linkCalls[k].todo /\ c # d
       /\ \/ x.link = NoLink /\ x.todo = {}
          \/ x.copy = linkCalls[k].copy /\ x.kind = linkCalls[k].kind /\ linkCalls[k].pc \notin {"find", "update", "insert"}
       /\ \A c \in Link : c # d => streak'[c] = streak[c]
  BY <1>0, <1>1, <1>5, <1>7, <1>9, <1>10, <1>11
<1>13. d \notin met /\ there(d) => IF d = x.link THEN AtHand(x, d)' ELSE Sound(d)'
  BY ONLY <1>8, <1>11 DEF AtHand, Sound
<1> QED
  BY ONLY LinkInv, k \in LinkCall, <1>1, <1>4, <1>7, <1>10, <1>12, <1>13, NoRowWritten

LEMMA CountReadKeeps == ASSUME LinkInv, NEW k \in LinkCall, CountRead(k) PROVE LinkInv'
<1>0. PICK q : q = linkCalls[k]
  OBVIOUS
<1>1. /\ q.pc = "count" /\ links' = links /\ streak' = streak /\ wish' = wish /\ met' = met /\ undone' = undone
  BY <1>0 DEF CountRead
<1>2. PICK x : x = IF there(q.link) THEN [q EXCEPT !.pc = "counted", !.seen = links[q.link]] ELSE LinkNext(q)
  OBVIOUS
<1>3. LinkGo(k, x)
  BY <1>0, <1>2 DEF CountRead
<1>4. linkCalls' = [linkCalls EXCEPT ![k] = x] /\ linkServed' = linkServed /\ linkFailed' \in 0..MaxLinkFails /\ granted' = granted
  BY <1>3, LinkFacts DEF LinkGo, LinkFrame
<1>5. /\ q \in LinkWork /\ Placed(q) /\ q.link \in Link /\ q.link \in worksOn(q) /\ q.link \notin q.todo
      /\ q.link \notin met /\ there(q.link) => AtHand(q, q.link)
      /\ there(q.link) => links[q.link] \in LinkRow
  BY <1>0, <1>1, HasAtHand
<1>6. NoLink \notin Link /\ streak \in [Link -> Streaks]
  BY LinkFacts
<1>7. /\ x \in LinkWork /\ Placed(x) /\ x.link \in {q.link, NoLink} /\ x.todo = q.todo
      /\ (x.link = NoLink /\ x.todo = {}) \/ (x.copy = q.copy /\ x.kind = q.kind)
      /\ there(q.link) => x.pc = "counted" /\ x.seen = links[q.link] /\ x.link = q.link
  <2>1. CASE there(q.link)
    <3>1. PICK row \in LinkRow : row = links[q.link]
      BY <1>5, <2>1
    <3>2. x = [q EXCEPT !.pc = "counted", !.seen = row]
      BY <1>2, <2>1, <3>1
    <3>3. q.link # NoLink
      BY <1>5, <1>6
    <3>5. /\ x \in LinkWork /\ Placed(x) /\ x.pc = "counted" /\ x.link = q.link /\ x.todo = q.todo /\ x.copy = q.copy
          /\ x.kind = q.kind /\ x.seen = row
      <4>1. /\ x \in LinkWork /\ x.pc = "counted" /\ x.link = q.link /\ x.todo = q.todo /\ x.copy = q.copy
            /\ x.kind = q.kind /\ x.seen = row
        BY ONLY <1>5, <3>2, row \in LinkRow DEF LinkWork, LinkStations
      <4> QED
        BY ONLY <3>3, <4>1, row \in LinkRow DEF Placed
    <3> QED
      BY ONLY <2>1, <3>1, <3>5
  <2>2. CASE ~there(q.link)
    <3>1. x = LinkNext(q)
      BY <1>2, <2>2
    <3>2. /\ x \in LinkWork /\ Placed(x) /\ x.link = NoLink /\ x.todo = q.todo
          /\ x.todo = {} \/ (x.copy = q.copy /\ x.kind = q.kind)
      BY ONLY <1>5, <3>1, MovedOn
    <3> QED
      BY <2>2, <3>2
  <2> QED
    BY <2>1, <2>2
<1>8. q.link \notin met /\ there(q.link) => IF q.link = x.link THEN AtHand(x, q.link)' ELSE Sound(q.link)'
  <2> SUFFICES ASSUME q.link \notin met, there(q.link)
               PROVE  IF q.link = x.link THEN AtHand(x, q.link)' ELSE Sound(q.link)'
    OBVIOUS
  <2>1. links' = links /\ wish' = wish /\ streak' = streak
    BY <1>1
  <2>2. AtHand(q, q.link)
    BY <1>5
  <2> QED
    BY ONLY <1>1, <1>7, <2>1, <2>2, there(q.link) DEF AtHand, Sound, Owing
<1>9. \A c : c \in x.todo => c \in q.todo /\ c # q.link
  BY <1>5, <1>7
<1>10. streak' \in [Link -> Streaks] /\ \A c \in Link : streak'[c] = streak[c]
  BY <1>1, <1>6
<1>11. PICK d : d = q.link
  OBVIOUS
<1>12. /\ d \in Link /\ d \in worksOn(linkCalls[k]) /\ linkCalls[k].link \in {d, NoLink}
       /\ x.link \in {d, NoLink} /\ \A c : c \in x.todo => c \in linkCalls[k].todo /\ c # d
       /\ \/ x.link = NoLink /\ x.todo = {}
          \/ x.copy = linkCalls[k].copy /\ x.kind = linkCalls[k].kind /\ linkCalls[k].pc \notin {"find", "update", "insert"}
       /\ \A c \in Link : c # d => streak'[c] = streak[c]
  BY <1>0, <1>1, <1>5, <1>7, <1>9, <1>10, <1>11
<1>13. d \notin met /\ there(d) => IF d = x.link THEN AtHand(x, d)' ELSE Sound(d)'
  BY ONLY <1>8, <1>11 DEF AtHand, Sound
<1> QED
  BY ONLY LinkInv, k \in LinkCall, <1>1, <1>4, <1>7, <1>10, <1>12, <1>13, NoRowWritten

LEMMA SyncKeeps == ASSUME LinkInv, NEW k \in LinkCall, Sync(k) PROVE LinkInv'
<1>0. PICK q : q = linkCalls[k]
  OBVIOUS
<1>1. /\ q.pc = "sync" /\ links' = links /\ streak' = streak
      /\ wish' = wish /\ met' = met /\ undone' = undone
  BY <1>0 DEF Sync
<1>2. PICK x : x = IF there(q.link) THEN [q EXCEPT !.pc = "reset"] ELSE Unused
  OBVIOUS
<1>3. LinkGo(k, x)
  BY <1>0, <1>2 DEF Sync
<1>4. linkCalls' = [linkCalls EXCEPT ![k] = x] /\ linkServed' = linkServed /\ linkFailed' \in 0..MaxLinkFails /\ granted' = granted
  BY <1>3, LinkFacts DEF LinkGo, LinkFrame
<1>5. /\ q \in LinkWork /\ Placed(q) /\ q.link \in Link /\ q.link \in worksOn(q)
      /\ q.link \notin met /\ there(q.link) => AtHand(q, q.link)
  BY <1>0, <1>1, HasAtHand
<1>6. NoLink \notin Link /\ streak \in [Link -> Streaks]
  BY LinkFacts
<1>7. /\ x \in LinkWork /\ Placed(x) /\ x.link \in {q.link, NoLink} /\ x.todo = {}
      /\ (x.link = NoLink /\ x.todo = {}) \/ (x.copy = q.copy /\ x.kind = q.kind)
      /\ there(q.link) => x.pc = "reset" /\ x.link = q.link
  <2>1. CASE there(q.link)
    <3>1. x = [q EXCEPT !.pc = "reset"]
      BY <1>2, <2>1
    <3>3. q.link # NoLink /\ q.todo = {}
      BY <1>1, <1>5, <1>6 DEF Placed
    <3>4. /\ x \in LinkWork /\ Placed(x) /\ x.pc = "reset" /\ x.link = q.link /\ x.todo = q.todo /\ x.copy = q.copy
          /\ x.kind = q.kind
      <4>1. x \in LinkWork /\ x.pc = "reset" /\ x.link = q.link /\ x.todo = q.todo /\ x.copy = q.copy /\ x.kind = q.kind
        BY ONLY <1>5, <3>1 DEF LinkWork, LinkStations
      <4> QED
        BY ONLY <3>3, <4>1 DEF Placed
    <3> QED
      BY ONLY <3>3, <3>4
  <2>2. CASE ~there(q.link)
    BY <1>2, <2>2, UnusedIsWork
  <2> QED
    BY <2>1, <2>2
<1>8. q.link \notin met /\ there(q.link) => IF q.link = x.link THEN AtHand(x, q.link)' ELSE Sound(q.link)'
  <2> SUFFICES ASSUME q.link \notin met, there(q.link)
               PROVE  IF q.link = x.link THEN AtHand(x, q.link)' ELSE Sound(q.link)'
    OBVIOUS
  <2>1. links' = links /\ wish' = wish /\ streak' = streak
    BY <1>1
  <2>2. AtHand(q, q.link)
    BY <1>5
  <2> QED
    BY ONLY <1>1, <1>7, <2>1, <2>2, there(q.link) DEF AtHand, Sound
<1>9. \A c : c \in x.todo => c \in q.todo /\ c # q.link
  BY <1>7
<1>10. streak' \in [Link -> Streaks] /\ \A c \in Link : c # q.link => streak'[c] = streak[c]
  BY <1>1, <1>6
<1>11. PICK d : d = q.link
  OBVIOUS
<1>12. /\ d \in Link /\ d \in worksOn(linkCalls[k]) /\ linkCalls[k].link \in {d, NoLink}
       /\ x.link \in {d, NoLink} /\ \A c : c \in x.todo => c \in linkCalls[k].todo /\ c # d
       /\ \/ x.link = NoLink /\ x.todo = {}
          \/ x.copy = linkCalls[k].copy /\ x.kind = linkCalls[k].kind /\ linkCalls[k].pc \notin {"find", "update", "insert"}
       /\ \A c \in Link : c # d => streak'[c] = streak[c]
  BY <1>0, <1>1, <1>5, <1>7, <1>9, <1>10, <1>11
<1>13. d \notin met /\ there(d) => IF d = x.link THEN AtHand(x, d)' ELSE Sound(d)'
  BY ONLY <1>8, <1>11 DEF AtHand, Sound
<1> QED
  BY ONLY LinkInv, k \in LinkCall, <1>1, <1>4, <1>7, <1>10, <1>12, <1>13, NoRowWritten

LEMMA ResetFailuresKeeps == ASSUME LinkInv, NEW k \in LinkCall, ResetFailures(k) PROVE LinkInv'
<1>0. PICK q, c : q = linkCalls[k] /\ c = q.link
  OBVIOUS
<1>1. PICK x : x = LinkNext(q)
  OBVIOUS
<1>2. PICK row : row = [links[c] EXCEPT !.failures = 0]
  OBVIOUS
<1>3. /\ q.pc = "reset" /\ links' = (IF there(c) THEN [links EXCEPT ![c] = row] ELSE links)
      /\ linkCalls' = [linkCalls EXCEPT ![k] = x] /\ linkServed' = linkServed /\ linkFailed' = linkFailed /\ granted' = granted
      /\ streak' = [streak EXCEPT ![c] = NoStreak] /\ wish' = wish /\ met' = met /\ undone' = undone
  BY <1>0, <1>1, <1>2 DEF ResetFailures, SetLink, LinkGo, LinkFrame
<1>4. /\ q \in LinkWork /\ Placed(q) /\ c \in Link
      /\ c \notin met /\ there(c) => AtHand(q, c)
      /\ there(c) => links[c] \in LinkRow
      /\ Stands(c)
  BY <1>0, <1>3, HasAtHand
<1>5. /\ x \in LinkWork /\ Placed(x) /\ x.link = NoLink /\ x.todo = q.todo
      /\ x.todo = {} \/ (x.copy = q.copy /\ x.kind = q.kind)
  BY ONLY <1>1, <1>4, MovedOn
<1>6. there(c) => /\ row \in LinkRow /\ row.provider = links[c].provider /\ row.status = links[c].status
                  /\ row.failures = 0 /\ row.grant = links[c].grant
  BY ONLY <1>2, <1>4 DEF LinkRow
<1>7. streak' \in [Link -> Streaks] /\ wish' \in Wished /\ (\A p : p \in undone' => p \in Provider)
  BY <1>3, <1>4, NoStreakIs, LinkFacts
<1>8. there(c) /\ c \notin met => Tallies(row, streak'[c], wish'[c].at)
  <2>1. there(c) /\ c \notin met => row \in LinkRow /\ row.failures = 0 /\ row.status # "error"
    BY ONLY <1>3, <1>4, <1>6 DEF AtHand
  <2>2. there(c) => Tallies(row, NoStreak, wish[c].at) \/ row.status = "error"
    BY <1>6, <2>1, TallyFacts, NoStreakIs
  <2>3. streak'[c] = NoStreak /\ wish' = wish
    BY <1>3, <1>4, LinkFacts
  <2> QED
    BY ONLY <2>1, <2>2, <2>3
<1>9. there(c) /\ row.provider \notin undone' => row.status \in {wish'[c].status, "error"} /\ row.grant = wish'[c].grant
  BY ONLY <1>3, <1>4, <1>6 DEF Stands
<1>10. /\ linkCalls[k].pc \notin {"idle", "next", "find", "insert"} /\ c = linkCalls[k].link /\ x.todo = linkCalls[k].todo
       /\ x.todo = {} \/ (x.copy = linkCalls[k].copy /\ x.kind = linkCalls[k].kind /\ linkCalls[k].pc \notin {"find", "update", "insert"})
       /\ \A e \in Link : e # c => streak'[e] = streak[e] /\ wish'[e] = wish[e]
       /\ \A p : p \in undone => p \in undone'
  BY ONLY <1>0, <1>3, <1>5
<1>11. there(c) => row \in LinkRow /\ row.provider = links[c].provider
  BY <1>6
<1>12. /\ links' = (IF there(c) THEN [links EXCEPT ![c] = row] ELSE links)
       /\ linkCalls' = [linkCalls EXCEPT ![k] = x] /\ x \in LinkWork /\ Placed(x) /\ x.link = NoLink
       /\ linkServed' = linkServed /\ linkFailed' = linkFailed /\ granted' = granted /\ met' = met
  BY ONLY <1>3, <1>5
<1> QED
  BY ONLY LinkInv, k \in LinkCall, <1>12, <1>7, <1>8, <1>9, <1>10, <1>11, RowWritten, ZenonT(60)

LEMMA StoreTokensKeeps == ASSUME LinkInv, NEW k \in LinkCall, StoreTokens(k) PROVE LinkInv'
<1>0. PICK q, c : q = linkCalls[k] /\ c = q.link
  OBVIOUS
<1>1. PICK x : x = LinkNext(q)
  OBVIOUS
<1>2. PICK row : row = [links[c] EXCEPT !.grant = q.copy[c].grant, !.failures = 0]
  OBVIOUS
<1>3. /\ q.pc = "store" /\ links' = (IF there(c) THEN [links EXCEPT ![c] = row] ELSE links)
      /\ linkCalls' = [linkCalls EXCEPT ![k] = x] /\ linkServed' = linkServed /\ linkFailed' = linkFailed /\ granted' = granted
      /\ streak' = [streak EXCEPT ![c] = NoStreak] /\ wish' = wish /\ met' = met
      /\ undone' = IF there(c) /\ (links[c] \in LinkRow /\ links[c].grant # q.copy[c].grant)
                   THEN undone \cup {links[c].provider} ELSE undone
  BY <1>0, <1>1, <1>2 DEF StoreTokens, SetLink, Undo, LinkGo, LinkFrame
<1>4. /\ q \in LinkWork /\ Placed(q) /\ c \in Link /\ c \in worksOn(q)
      /\ c \notin met /\ there(c) => AtHand(q, c)
      /\ there(c) => links[c] \in LinkRow
      /\ Stands(c) /\ Knows(q)
  BY <1>0, <1>3, HasAtHand, LinkFacts
<1>5. /\ x \in LinkWork /\ Placed(x) /\ x.link = NoLink /\ x.todo = q.todo
      /\ x.todo = {} \/ (x.copy = q.copy /\ x.kind = q.kind)
  BY ONLY <1>1, <1>4, MovedOn
<1>6. PICK g \in Nat : g = q.copy[c].grant
  <2>1. q.copy[c] \in LinkRow
    BY ONLY <1>3, <1>4 DEF Placed, Knows
  <2> QED
    BY <2>1 DEF LinkRow
<1>7. row = [links[c] EXCEPT !.grant = g, !.failures = 0]
  BY ONLY <1>2, <1>6
<1>8. there(c) => /\ row \in LinkRow /\ row.provider = links[c].provider /\ row.status = links[c].status
                  /\ row.failures = 0 /\ row.grant = g
  BY ONLY <1>4, <1>7, g \in Nat DEF LinkRow
<1>9. streak' \in [Link -> Streaks] /\ wish' \in Wished /\ (\A p : p \in undone => p \in undone') /\ (\A p : p \in undone' => p \in Provider)
  <2>1. there(c) => links[c].provider \in Provider
    BY <1>4 DEF LinkRow
  <2> QED
    BY <1>3, <1>4, <2>1, NoStreakIs, LinkFacts
<1>10. there(c) /\ c \notin met => Tallies(row, streak'[c], wish'[c].at)
  <2>1. there(c) /\ c \notin met => row \in LinkRow /\ row.failures = 0 /\ row.status # "error"
    BY ONLY <1>3, <1>4, <1>8 DEF AtHand
  <2>2. there(c) => Tallies(row, NoStreak, wish[c].at) \/ row.status = "error"
    BY <1>8, <2>1, TallyFacts, NoStreakIs
  <2>3. streak'[c] = NoStreak /\ wish' = wish
    BY <1>3, <1>4, LinkFacts
  <2> QED
    BY ONLY <2>1, <2>2, <2>3
<1>11. there(c) /\ row.provider \notin undone' => row.status \in {wish'[c].status, "error"} /\ row.grant = wish'[c].grant
  <2>1. there(c) /\ links[c].provider \notin undone' => links[c].grant = g /\ links[c].provider \notin undone
    BY ONLY <1>3, <1>4, <1>6
  <2> QED
    BY ONLY <1>3, <1>4, <1>8, <2>1 DEF Stands
<1>12. /\ linkCalls[k].pc \notin {"idle", "next", "find", "insert"} /\ c = linkCalls[k].link /\ x.todo = linkCalls[k].todo
       /\ x.todo = {} \/ (x.copy = linkCalls[k].copy /\ x.kind = linkCalls[k].kind /\ linkCalls[k].pc \notin {"find", "update", "insert"})
       /\ \A e \in Link : e # c => streak'[e] = streak[e] /\ wish'[e] = wish[e]
  BY ONLY <1>0, <1>3, <1>5
<1>13. there(c) => row \in LinkRow /\ row.provider = links[c].provider
  BY <1>8
<1>14. /\ links' = (IF there(c) THEN [links EXCEPT ![c] = row] ELSE links)
       /\ linkCalls' = [linkCalls EXCEPT ![k] = x] /\ x \in LinkWork /\ Placed(x) /\ x.link = NoLink
       /\ linkServed' = linkServed /\ linkFailed' = linkFailed /\ granted' = granted /\ met' = met
  BY ONLY <1>3, <1>5
<1> QED
  BY ONLY LinkInv, k \in LinkCall, <1>14, <1>9, <1>10, <1>11, <1>12, <1>13, RowWritten, ZenonT(60)

LEMMA CountKeeps == ASSUME LinkInv, NEW k \in LinkCall, Count(k) PROVE LinkInv'
<1>0. PICK q, c : q = linkCalls[k] /\ c = q.link
  OBVIOUS
<1>1. PICK x : x = LinkNext(q)
  OBVIOUS
<1>2. PICK n, s : n = q.seen.failures + 1 /\ s = IF n >= FailureLimit THEN "error" ELSE q.seen.status
  OBVIOUS
<1>3. PICK row : row = [links[c] EXCEPT !.failures = n, !.status = s]
  OBVIOUS
<1>4. /\ q.pc = "counted" /\ links' = (IF there(c) THEN [links EXCEPT ![c] = row] ELSE links)
      /\ linkCalls' = [linkCalls EXCEPT ![k] = x] /\ linkServed' = linkServed /\ linkFailed' = linkFailed /\ granted' = granted
      /\ streak' = streak /\ wish' = wish /\ met' = met
      /\ undone' = IF there(c) /\ (links[c] \in LinkRow /\ links[c].status # q.seen.status)
                   THEN undone \cup {links[c].provider} ELSE undone
  BY <1>0, <1>1, <1>2, <1>3 DEF Count, Counted, SetLink, Undo, LinkGo, LinkFrame
<1>5. /\ q \in LinkWork /\ Placed(q) /\ c \in Link
      /\ c \notin met /\ there(c) => AtHand(q, c)
      /\ there(c) => links[c] \in LinkRow
      /\ Stands(c)
  BY <1>0, <1>4, HasAtHand
<1>6. /\ x \in LinkWork /\ Placed(x) /\ x.link = NoLink /\ x.todo = q.todo
      /\ x.todo = {} \/ (x.copy = q.copy /\ x.kind = q.kind)
  BY ONLY <1>1, <1>5, MovedOn
<1>7. n \in Nat /\ s \in {"active", "paused", "error"} /\ q.seen \in LinkRow
  <2>1. q.seen \in LinkRow
    BY <1>4, <1>5 DEF Placed
  <2>2. q.seen.failures \in Nat /\ q.seen.status \in {"active", "paused", "error"}
    BY <2>1 DEF LinkRow
  <2> QED
    BY ONLY <1>2, <2>1, <2>2
<1>8. there(c) => /\ row \in LinkRow /\ row.provider = links[c].provider /\ row.status = s
                  /\ row.failures = n /\ row.grant = links[c].grant
  BY ONLY <1>3, <1>5, <1>7 DEF LinkRow
<1>9. streak' \in [Link -> Streaks] /\ wish' \in Wished /\ (\A p : p \in undone => p \in undone') /\ (\A p : p \in undone' => p \in Provider)
  <2>1. there(c) => links[c].provider \in Provider
    BY <1>5 DEF LinkRow
  <2> QED
    BY <1>4, <2>1, LinkFacts
<1>10. there(c) /\ c \notin met => Tallies(row, streak'[c], wish'[c].at)
  <2>1. FailureLimit \in Nat \ {0}
    BY LinkConstants
  <2>2. there(c) /\ c \notin met => q.seen = links[c] /\ links[c].status = "active" /\ Owing(c)
    BY ONLY <1>4, <1>5 DEF AtHand
  <2>3. there(c) /\ c \notin met => n + streak[c].lost = streak[c].failed
    <3>1. streak[c] \in Streaks /\ [streak[c] EXCEPT !.lost = @ + 1].lost = streak[c].lost + 1
          /\ [streak[c] EXCEPT !.lost = @ + 1].failed = streak[c].failed
      BY <1>5, LinkFacts DEF Streaks
    <3>2. streak[c].lost \in Nat /\ q.seen.failures \in Nat
      BY <1>7, <3>1 DEF Streaks, LinkRow
    <3> QED
      BY ONLY <1>2, <2>2, <3>1, <3>2 DEF Owing, Tallies
  <2>4. there(c) /\ c \notin met => s = IF n >= FailureLimit THEN "error" ELSE "active"
    BY ONLY <1>2, <2>2
  <2> QED
    BY ONLY <1>4, <1>7, <1>8, <2>1, <2>3, <2>4 DEF Tallies
<1>11. there(c) /\ row.provider \notin undone' => row.status \in {wish'[c].status, "error"} /\ row.grant = wish'[c].grant
  <2>1. there(c) /\ links[c].provider \notin undone' => links[c].status = q.seen.status /\ links[c].provider \notin undone
    BY ONLY <1>4, <1>5
  <2> QED
    BY ONLY <1>2, <1>4, <1>5, <1>8, <2>1 DEF Stands
<1>12. /\ linkCalls[k].pc \notin {"idle", "next", "find", "insert"} /\ c = linkCalls[k].link /\ x.todo = linkCalls[k].todo
       /\ x.todo = {} \/ (x.copy = linkCalls[k].copy /\ x.kind = linkCalls[k].kind /\ linkCalls[k].pc \notin {"find", "update", "insert"})
       /\ \A e \in Link : e # c => streak'[e] = streak[e] /\ wish'[e] = wish[e]
  BY ONLY <1>0, <1>4, <1>6
<1>13. there(c) => row \in LinkRow /\ row.provider = links[c].provider
  BY <1>8
<1> QED
  BY ONLY LinkInv, k \in LinkCall, <1>4, <1>6, <1>9, <1>10, <1>11, <1>12, <1>13, RowWritten, ZenonT(60)

LEMMA ToggleKeeps == ASSUME LinkInv, NEW k \in LinkCall, Toggle(k) PROVE LinkInv'
<1>0. PICK q, c : q = linkCalls[k] /\ c = q.link
  OBVIOUS
<1>1. PICK s : s = IF q.seen.status = "paused" THEN "active" ELSE "paused"
  OBVIOUS
<1>2. PICK row : row = [links[c] EXCEPT !.status = s]
  OBVIOUS
<1>3. /\ q.pc = "toggle" /\ links' = (IF there(c) THEN [links EXCEPT ![c] = row] ELSE links)
      /\ linkCalls' = [linkCalls EXCEPT ![k] = Unused]
      /\ linkServed' = linkServed /\ linkFailed' = linkFailed /\ granted' = granted
      /\ wish' = [wish EXCEPT ![c].status = s, ![c].at = q.seen.failures]
      /\ streak' = streak /\ met' = met /\ undone' = undone
  BY <1>0, <1>1, <1>2 DEF Toggle, SetLink, LinkGo, LinkFrame
<1>4. /\ q \in LinkWork /\ Placed(q) /\ c \in Link /\ q.seen.failures \in Nat
      /\ c \notin met /\ there(c) => AtHand(q, c)
      /\ there(c) => links[c] \in LinkRow
      /\ Stands(c)
  BY <1>0, <1>3, HasAtHand DEF Placed, LinkRow
<1>5. s \in {"active", "paused"} /\ wish \in Wished
  BY <1>1, LinkFacts
<1>6. there(c) => /\ row \in LinkRow /\ row.provider = links[c].provider /\ row.status = s
                  /\ row.failures = links[c].failures /\ row.grant = links[c].grant
  BY ONLY <1>2, <1>4, <1>5 DEF LinkRow
<1>7. /\ wish' \in Wished /\ (\A e \in Link : e # c => wish'[e] = wish[e])
      /\ wish'[c].status = s /\ wish'[c].at = q.seen.failures /\ wish'[c].grant = wish[c].grant
  <2>1. PICK w : w = wish[c]
    OBVIOUS
  <2>2. w \in [status: {"active", "paused"}, grant: Nat, at: Nat]
    BY ONLY <1>4, <1>5, <2>1 DEF Wished
  <2>3. PICK v : v = [w EXCEPT !.status = s, !.at = q.seen.failures]
    OBVIOUS
  <2>4. v \in [status: {"active", "paused"}, grant: Nat, at: Nat] /\ v.status = s /\ v.at = q.seen.failures /\ v.grant = w.grant
    BY ONLY <1>4, <1>5, <2>2, <2>3
  <2>5. wish' = [wish EXCEPT ![c] = v]
    BY ONLY <1>3, <1>4, <1>5, <2>1, <2>3 DEF Wished
  <2> QED
    BY ONLY <1>4, <1>5, <2>1, <2>4, <2>5 DEF Wished
<1>8. streak' \in [Link -> Streaks] /\ (\A p : p \in undone' => p \in Provider)
  BY <1>3, LinkFacts
<1>9. there(c) /\ c \notin met => Tallies(row, streak'[c], wish'[c].at)
  <2>1. there(c) /\ c \notin met => Sound(c) /\ q.seen = links[c]
    BY ONLY <1>3, <1>4 DEF AtHand
  <2> QED
    BY ONLY <1>3, <1>5, <1>6, <1>7, <2>1 DEF Sound, Tallies
<1>10. there(c) /\ row.provider \notin undone' => row.status \in {wish'[c].status, "error"} /\ row.grant = wish'[c].grant
  BY ONLY <1>3, <1>4, <1>6, <1>7 DEF Stands
<1>11. Unused \in LinkWork /\ Placed(Unused) /\ Unused.link = NoLink /\ Unused.todo = {} /\ q.todo = {}
  BY <1>3, <1>4, UnusedIsWork DEF Placed
<1>12. /\ linkCalls[k].pc \notin {"idle", "next", "find", "insert"} /\ c = linkCalls[k].link /\ Unused.todo = linkCalls[k].todo
       /\ \A e \in Link : e # c => streak'[e] = streak[e] /\ wish'[e] = wish[e]
       /\ \A p : p \in undone => p \in undone'
  BY ONLY <1>0, <1>3, <1>7, <1>11
<1>13. there(c) => row \in LinkRow /\ row.provider = links[c].provider
  BY <1>6
<1>14. PICK x : x = Unused
  OBVIOUS
<1>15. /\ linkCalls' = [linkCalls EXCEPT ![k] = x] /\ x \in LinkWork /\ Placed(x) /\ x.link = NoLink
       /\ x.todo = linkCalls[k].todo
       /\ \/ x.todo = {}
          \/ x.copy = linkCalls[k].copy /\ x.kind = linkCalls[k].kind /\ linkCalls[k].pc \notin {"find", "update", "insert"}
  BY ONLY <1>3, <1>11, <1>12, <1>14
<1>16. /\ links' = (IF there(c) THEN [links EXCEPT ![c] = row] ELSE links)
       /\ met' = met /\ linkServed' = linkServed /\ linkFailed' = linkFailed /\ granted' = granted
  BY <1>3
<1>20. /\ linkCalls[k].pc \notin {"idle", "next", "find", "insert"} /\ x \in LinkWork
       /\ linkCalls' = [linkCalls EXCEPT ![k] = x] /\ Placed(x) /\ x.link = NoLink
       /\ x.todo = linkCalls[k].todo
       /\ \/ x.todo = {}
          \/ x.copy = linkCalls[k].copy /\ x.kind = linkCalls[k].kind /\ linkCalls[k].pc \notin {"find", "update", "insert"}
       /\ met' = met /\ linkServed' = linkServed /\ linkFailed' = linkFailed /\ granted' = granted
       /\ c = linkCalls[k].link /\ links' = (IF there(c) THEN [links EXCEPT ![c] = row] ELSE links)
       /\ there(c) => row \in LinkRow /\ row.provider = links[c].provider
       /\ streak' \in [Link -> Streaks] /\ wish' \in Wished
       /\ \A e \in Link : e # c => streak'[e] = streak[e] /\ wish'[e] = wish[e]
       /\ \A p : p \in undone => p \in undone'
       /\ \A p : p \in undone' => p \in Provider
       /\ there(c) /\ c \notin met => Tallies(row, streak'[c], wish'[c].at)
       /\ there(c) /\ row.provider \notin undone' => row.status \in {wish'[c].status, "error"} /\ row.grant = wish'[c].grant
  BY ONLY <1>7, <1>8, <1>9, <1>10, <1>12, <1>13, <1>15, <1>16
<1> QED
  BY ONLY LinkInv, k \in LinkCall, <1>20, RowWritten, ZenonT(120)

LEMMA UpdateLinkKeeps == ASSUME LinkInv, NEW k \in LinkCall, UpdateLink(k) PROVE LinkInv'
<1>0. PICK q, c : q = linkCalls[k] /\ c = q.link
  OBVIOUS
<1>2. PICK row : row = [links[c] EXCEPT !.status = "active", !.grant = q.grant, !.failures = 0]
  OBVIOUS
<1>3. /\ q.pc = "update" /\ links' = (IF there(c) THEN [links EXCEPT ![c] = row] ELSE links)
      /\ linkCalls' = [linkCalls EXCEPT ![k] = Unused]
      /\ linkServed' = linkServed /\ linkFailed' = linkFailed /\ granted' = granted
      /\ wish' = [wish EXCEPT ![c] = [status |-> "active", grant |-> q.grant, at |-> 0]]
      /\ streak' = [streak EXCEPT ![c] = NoStreak] /\ met' = met
      /\ undone' = IF there(c) /\ (links[c] \in LinkRow /\ links[c].grant > q.grant)
                   THEN undone \cup {links[c].provider} ELSE undone
  BY <1>0, <1>2 DEF UpdateLink, SetLink, Undo, LinkGo, LinkFrame
<1>4. /\ q \in LinkWork /\ Placed(q) /\ c \in Link
      /\ there(c) => links[c] \in LinkRow
  BY <1>0, <1>3, HasAtHand
<1>5. q.grant \in Nat /\ wish \in Wished /\ streak \in [Link -> Streaks]
  BY <1>4, LinkFacts DEF LinkWork
<1>6. there(c) => /\ row \in LinkRow /\ row.provider = links[c].provider /\ row.status = "active"
                  /\ row.failures = 0 /\ row.grant = q.grant
  BY ONLY <1>2, <1>4, <1>5 DEF LinkRow
<1>7. /\ wish' \in Wished /\ (\A e \in Link : e # c => wish'[e] = wish[e])
      /\ wish'[c] = [status |-> "active", grant |-> q.grant, at |-> 0]
  BY ONLY <1>3, <1>4, <1>5 DEF Wished
<1>8. /\ streak' \in [Link -> Streaks] /\ streak'[c] = NoStreak /\ (\A e \in Link : e # c => streak'[e] = streak[e])
  BY ONLY <1>3, <1>4, <1>5, NoStreakIs
<1>9. there(c) /\ c \notin met => Tallies(row, streak'[c], wish'[c].at)
  BY <1>6, <1>8, TallyFacts, NoStreakIs
<1>10. there(c) /\ row.provider \notin undone' => row.status \in {wish'[c].status, "error"} /\ row.grant = wish'[c].grant
  BY ONLY <1>6, <1>7
<1>11. Unused \in LinkWork /\ Placed(Unused) /\ Unused.link = NoLink /\ Unused.todo = {} /\ q.todo = {}
  BY <1>3, <1>4, UnusedIsWork DEF Placed
<1>12. /\ linkCalls[k].pc \notin {"idle", "next", "find", "insert"} /\ c = linkCalls[k].link
       /\ \A e \in Link : e # c => streak'[e] = streak[e] /\ wish'[e] = wish[e]
  BY ONLY <1>0, <1>3, <1>7, <1>8
<1>13. there(c) => row \in LinkRow /\ row.provider = links[c].provider
  BY <1>6
<1>14. PICK x : x = Unused
  OBVIOUS
<1>15. /\ linkCalls' = [linkCalls EXCEPT ![k] = x] /\ x \in LinkWork /\ Placed(x) /\ x.link = NoLink
       /\ x.todo = linkCalls[k].todo
       /\ \/ x.todo = {}
          \/ x.copy = linkCalls[k].copy /\ x.kind = linkCalls[k].kind /\ linkCalls[k].pc \notin {"find", "update", "insert"}
  BY ONLY <1>0, <1>3, <1>11, <1>14
<1>16. /\ links' = (IF there(c) THEN [links EXCEPT ![c] = row] ELSE links)
       /\ met' = met /\ linkServed' = linkServed /\ linkFailed' = linkFailed /\ granted' = granted
  BY <1>3
<1>17. (\A p : p \in undone => p \in undone') /\ (\A p : p \in undone' => p \in Provider)
  <2>1. there(c) => links[c].provider \in Provider
    BY <1>4 DEF LinkRow
  <2> QED
    BY <1>3, <2>1, LinkFacts
<1>18. streak' \in [Link -> Streaks] /\ wish' \in Wished
  BY <1>7, <1>8
<1>20. /\ linkCalls[k].pc \notin {"idle", "next", "find", "insert"} /\ x \in LinkWork
       /\ linkCalls' = [linkCalls EXCEPT ![k] = x] /\ Placed(x) /\ x.link = NoLink
       /\ x.todo = linkCalls[k].todo
       /\ \/ x.todo = {}
          \/ x.copy = linkCalls[k].copy /\ x.kind = linkCalls[k].kind /\ linkCalls[k].pc \notin {"find", "update", "insert"}
       /\ met' = met /\ linkServed' = linkServed /\ linkFailed' = linkFailed /\ granted' = granted
       /\ c = linkCalls[k].link /\ links' = (IF there(c) THEN [links EXCEPT ![c] = row] ELSE links)
       /\ there(c) => row \in LinkRow /\ row.provider = links[c].provider
       /\ streak' \in [Link -> Streaks] /\ wish' \in Wished
       /\ \A e \in Link : e # c => streak'[e] = streak[e] /\ wish'[e] = wish[e]
       /\ \A p : p \in undone => p \in undone'
       /\ \A p : p \in undone' => p \in Provider
       /\ there(c) /\ c \notin met => Tallies(row, streak'[c], wish'[c].at)
       /\ there(c) /\ row.provider \notin undone' => row.status \in {wish'[c].status, "error"} /\ row.grant = wish'[c].grant
  BY ONLY <1>9, <1>10, <1>12, <1>13, <1>15, <1>16, <1>17, <1>18
<1> QED
  BY ONLY LinkInv, k \in LinkCall, <1>20, RowWritten, ZenonT(120)

LEMMA DropLinkKeeps == ASSUME LinkInv, NEW k \in LinkCall, DropLink(k) PROVE LinkInv'
<1>0. PICK q, c : q = linkCalls[k] /\ c = q.link
  OBVIOUS
<1>1. PICK x : x = Unused
  OBVIOUS
<1>2. /\ q.pc = "drop" /\ links' = [links EXCEPT ![c] = UsedLink] /\ linkCalls' = [linkCalls EXCEPT ![k] = x]
      /\ linkServed' = linkServed /\ linkFailed' = linkFailed /\ granted' = granted
      /\ streak' = streak /\ wish' = wish /\ met' = met /\ undone' = undone
  BY <1>0, <1>1 DEF DropLink, LinkGo, LinkFrame
<1>3. c \in Link /\ c \in worksOn(q)
  BY <1>0, <1>2, HasAtHand
<1>4. x \in LinkWork /\ Placed(x) /\ x.link = NoLink /\ x.todo = {}
  BY <1>1, UnusedIsWork
<1>5. links \in LinkTable /\ NoLink # UsedLink
  BY LinkFacts, LinkConstants
<1>6. links' \in LinkTable /\ links'[c] = UsedLink /\ \A e \in Link : e # c => links'[e] = links[e]
  BY ONLY <1>2, <1>3, <1>5 DEF LinkTable
<1>7. ~there(c)' /\ Stands(c)' /\ links'[c] # NoLink
  BY ONLY <1>5, <1>6 DEF there, Stands
<1>8. /\ c \in worksOn(linkCalls[k]) /\ linkCalls[k].link \in {c, NoLink} /\ x.link \in {c, NoLink}
      /\ \A e : e \in x.todo => e \in linkCalls[k].todo /\ e # c
      /\ streak' \in [Link -> Streaks] /\ wish' \in Wished /\ linkFailed' \in 0..MaxLinkFails
      /\ \A e \in Link : e # c => links'[e] = links[e] /\ streak'[e] = streak[e] /\ wish'[e] = wish[e]
      /\ there(c)' => there(c) /\ links'[c].provider = links[c].provider
      /\ \A p : p \in undone => p \in undone'
      /\ \A p : p \in undone' => p \in Provider
      /\ c \notin met /\ there(c)' => IF c = x.link THEN AtHand(x, c)' ELSE Sound(c)'
  BY <1>0, <1>2, <1>3, <1>4, <1>6, <1>7, LinkFacts
<1> QED
  BY ONLY LinkInv, k \in LinkCall, <1>2, <1>3, <1>4, <1>6, <1>7, <1>8, Working

LEMMA FindLinkKeeps == ASSUME LinkInv, NEW k \in LinkCall, FindLink(k) PROVE LinkInv'
<1>0. PICK q : q = linkCalls[k]
  OBVIOUS
<1>1. PICK here : here = {c \in Link : there(c) /\ links[c].provider = q.kind}
  OBVIOUS
<1>2. /\ q.pc = "find"
      /\ IF here = {} THEN LinkGo(k, [q EXCEPT !.pc = "insert"]) /\ met' = met
         ELSE \E c \in here : /\ LinkGo(k, [q EXCEPT !.pc = "update", !.link = c])
                              /\ met' = met \cup {d \in {c} : \E j \in LinkCall : d \in worksOn(linkCalls[j])}
      /\ links' = links /\ streak' = streak /\ wish' = wish /\ undone' = undone
  BY <1>0, <1>1 DEF FindLink
<1>3. /\ q \in LinkWork /\ Placed(q) /\ NoLink \notin Link /\ (\A c : c \in met => c \in Link)
      /\ linkServed \in 0..MaxLinkCalls /\ linkFailed \in 0..MaxLinkFails /\ granted \in Nat
  BY <1>0, LinkFacts
<1>4. q.todo = {} /\ q.link = NoLink /\ q.kind \in Provider /\ worksOn(q) = {}
  BY <1>2, <1>3 DEF Placed, worksOn
<1>5. CASE here = {}
  <2>1. PICK x : x = [q EXCEPT !.pc = "insert"]
    OBVIOUS
  <2>2. x \in LinkWork /\ x.pc = "insert" /\ x.link = NoLink /\ x.todo = {} /\ x.kind \in Provider
    BY ONLY <1>3, <1>4, <2>1 DEF LinkWork, LinkStations
  <2>3. /\ linkCalls' = [linkCalls EXCEPT ![k] = x] /\ met' = met
        /\ linkServed' = linkServed /\ linkFailed' = linkFailed /\ granted' = granted
    BY <1>2, <1>5, <2>1 DEF LinkGo, LinkFrame
  <2>4. Placed(x)
    BY ONLY <2>2 DEF Placed
  <2>5. worksOn(x) = {} /\ worksOn(linkCalls[k]) = {}
    BY <1>0, <1>3, <1>4, <2>2 DEF worksOn
  <2>6. /\ x.link \notin x.todo /\ x.link \notin Link
        /\ linkServed' \in 0..MaxLinkCalls /\ linkFailed' \in 0..MaxLinkFails /\ granted' \in Nat
        /\ links' = links /\ wish' = wish /\ undone' = undone /\ streak' = streak
    BY <1>2, <1>3, <2>2, <2>3
  <2> QED
    BY <1>3, <2>2, <2>3, <2>4, <2>5, <2>6, Arriving
<1>6. CASE here # {}
  <2>1. PICK c \in here : /\ LinkGo(k, [q EXCEPT !.pc = "update", !.link = c])
                          /\ met' = met \cup {d \in {c} : \E j \in LinkCall : d \in worksOn(linkCalls[j])}
    BY <1>2, <1>6
  <2>2. c \in Link /\ there(c)
    BY <1>1
  <2>3. PICK x : x = [q EXCEPT !.pc = "update", !.link = c]
    OBVIOUS
  <2>4. x \in LinkWork /\ x.pc = "update" /\ x.link = c /\ x.todo = {}
    BY ONLY <1>3, <1>4, <2>2, <2>3 DEF LinkWork, LinkStations
  <2>5. /\ linkCalls' = [linkCalls EXCEPT ![k] = x]
        /\ linkServed' = linkServed /\ linkFailed' = linkFailed /\ granted' = granted
    BY <2>1, <2>3 DEF LinkGo, LinkFrame
  <2>6. Placed(x)
    <3>1. x.link # NoLink
      BY <1>3, <2>2, <2>4
    <3> QED
      BY ONLY <2>4, <3>1 DEF Placed
  <2>7. worksOn(x) = {c} /\ worksOn(linkCalls[k]) = {}
    BY <1>0, <1>4, <2>2, <2>4 DEF worksOn
  <2>8. /\ \A e : e \in met => e \in met'
        /\ \A e : e \in met' => e \in Link
        /\ \A e \in worksOn(x) : \A j \in LinkCall : e \in worksOn(linkCalls[j]) => e \in met'
    BY ONLY <1>3, <2>1, <2>2, <2>7
  <2>9. /\ linkServed' \in 0..MaxLinkCalls /\ linkFailed' \in 0..MaxLinkFails /\ granted' \in Nat
        /\ links' = links /\ wish' = wish /\ undone' = undone /\ streak' = streak
    BY <1>2, <1>3, <2>5
  <2>10. Sound(x.link) => AtHand(x, x.link)
    BY ONLY <2>4 DEF AtHand
  <2>11. /\ x.link \notin x.todo /\ there(x.link) /\ (\A e \in x.todo : there(e) /\ links[e].status = "active")
         /\ ~(x.kind = "refresh" /\ x.pc \notin {"find", "update", "insert"})
    BY <2>2, <2>4
  <2> QED
    BY ONLY LinkInv, k \in LinkCall, <2>4, <2>5, <2>6, <2>7, <2>8, <2>9, <2>10, <2>11, Arriving
<1> QED
  BY <1>5, <1>6

LEMMA InsertLinkKeeps == ASSUME LinkInv, NEW k \in LinkCall, InsertLink(k) PROVE LinkInv'
<1>0. PICK q : q = linkCalls[k]
  OBVIOUS
<1>1. PICK free : free = {c \in Link : links[c] = NoLink}
  OBVIOUS
<1>2. PICK c : c = CHOOSE d \in free : TRUE
  OBVIOUS
<1>3. PICK row : row = [provider |-> q.kind, status |-> "active", failures |-> 0, grant |-> q.grant]
  OBVIOUS
<1>4. PICK x : x = Unused
  OBVIOUS
<1>5. /\ q.pc = "insert" /\ free # {} /\ links' = [links EXCEPT ![c] = row]
      /\ wish' = [wish EXCEPT ![c] = [status |-> "active", grant |-> q.grant, at |-> 0]]
      /\ undone' = (IF \E d \in Link : there(d) /\ links[d].provider = q.kind
                    THEN undone \cup {q.kind} ELSE undone)
      /\ linkCalls' = [linkCalls EXCEPT ![k] = x]
      /\ linkServed' = linkServed /\ linkFailed' = linkFailed /\ granted' = granted
      /\ streak' = streak /\ met' = met
  BY <1>0, <1>1, <1>2, <1>3, <1>4 DEF InsertLink, LinkGo, LinkFrame
<1>6. c \in Link /\ links[c] = NoLink
  <2>1. c \in free
    BY ONLY <1>2, <1>5
  <2> QED
    BY <1>1, <2>1
<1>7. /\ q \in LinkWork /\ Placed(q) /\ links \in LinkTable /\ wish \in Wished /\ streak \in [Link -> Streaks]
      /\ linkServed \in 0..MaxLinkCalls /\ linkFailed \in 0..MaxLinkFails /\ granted \in Nat
      /\ linkCalls \in [LinkCall -> LinkWork]
      /\ (\A e : e \in met => e \in Link)
      /\ (\A p : p \in undone => p \in Provider)
      /\ NoLink \notin Link /\ streak[c] = NoStreak
  BY <1>0, <1>6, LinkFacts
<1>8. q.kind \in Provider /\ q.grant \in Nat /\ worksOn(q) = {}
  <2>1. q.kind \in Provider /\ q.todo = {} /\ q.link = NoLink
    BY <1>5, <1>7 DEF Placed
  <2>2. q.grant \in Nat
    BY <1>7 DEF LinkWork
  <2> QED
    BY <1>7, <2>1, <2>2 DEF worksOn
<1>9. /\ row \in LinkRow /\ row.provider = q.kind /\ row.status = "active" /\ row.failures = 0 /\ row.grant = q.grant
  BY ONLY <1>3, <1>8 DEF LinkRow
<1>10. links' \in LinkTable /\ links'[c] = row /\ \A e \in Link : e # c => links'[e] = links[e]
  BY ONLY <1>5, <1>6, <1>7, <1>9 DEF LinkTable
<1>11. /\ wish' \in Wished /\ wish'[c].status = "active" /\ wish'[c].grant = q.grant
       /\ \A e \in Link : e # c => wish'[e] = wish[e]
  BY ONLY <1>5, <1>6, <1>7, <1>8 DEF Wished
<1>12. x \in LinkWork /\ Placed(x) /\ worksOn(x) = {} /\ x.todo = {} /\ x.link \notin Link /\ Knows(x)
  <2>1. x \in LinkWork /\ Placed(x) /\ x.todo = {} /\ x.link = NoLink /\ x.kind = "user"
    BY ONLY <1>4, UnusedIsWork
  <2>2. worksOn(x) = {}
    BY ONLY <1>7, <2>1 DEF worksOn
  <2> QED
    BY ONLY <1>7, <2>1, <2>2 DEF Knows
<1>13. \A j \in LinkCall : linkCalls'[j] = IF j = k THEN x ELSE linkCalls[j]
  BY ONLY <1>5, <1>7
<1>14. LinkTypeOK'
  <2>1. \A j \in LinkCall : Placed(linkCalls'[j])
    BY <1>12, <1>13, LinkFacts
  <2>2. linkCalls' \in [LinkCall -> LinkWork]
    BY ONLY <1>5, <1>7, <1>12
  <2>3. /\ met' \subseteq Link /\ undone' \subseteq Provider /\ streak' \in [Link -> Streaks]
        /\ linkServed' \in 0..MaxLinkCalls /\ linkFailed' \in 0..MaxLinkFails /\ granted' \in Nat
    BY ONLY <1>5, <1>7, <1>8
  <2> QED
    BY ONLY <1>10, <1>11, <2>1, <2>2, <2>3 DEF LinkTypeOK, Placed, Wished
<1>15. NoLink \notin LinkRow
  BY LinkConstants
<1>16. \A e \in Link : links'[e] = NoLink => streak'[e] = NoStreak
  BY <1>5, <1>9, <1>10, <1>15, LinkFacts
<1>17. ASSUME NEW j \in LinkCall PROVE Knows(linkCalls[j])'
  <2>1. PICK y : y = linkCalls'[j]
    OBVIOUS
  <2>2. Knows(y)
    BY <1>12, <1>13, <2>1, LinkFacts
  <2>3. \A e \in Link : links[e] # NoLink => links'[e] # NoLink
    BY ONLY <1>6, <1>10
  <2>4. Knows(y)'
    BY ONLY <2>2, <2>3 DEF Knows
  <2> QED
    BY ONLY <2>1, <2>4 DEF Knows
<1>18. ASSUME NEW e \in Link, e \notin met', there(e)' PROVE Account(e)'
  <2>1. \A j \in LinkCall : worksOn(linkCalls'[j]) = worksOn(linkCalls[j])
    BY ONLY <1>0, <1>8, <1>12, <1>13
  <2>2. CASE e = c
    <3>1. \A j \in LinkCall : c \notin worksOn(linkCalls[j])
      <4>1. \A j \in LinkCall : Knows(linkCalls[j])
        BY LinkFacts
      <4> QED
        BY <1>6, <4>1 DEF Knows
    <3>2. Sound(c)'
      <4>1. links'[c] = row /\ streak'[c] = NoStreak /\ FailureLimit \in Nat \ {0}
        BY <1>5, <1>7, <1>10, LinkConstants
      <4> QED
        BY ONLY <1>9, <4>1, TallyFacts, NoStreakIs DEF Sound
    <3>3. \A j \in LinkCall : c \notin worksOn(linkCalls'[j])
      BY <2>1, <3>1
    <3>4. \A j \in LinkCall : c \notin linkCalls'[j].todo /\ c # linkCalls'[j].link
      BY <1>6, <3>3 DEF worksOn
    <3> QED
      BY ONLY <2>2, <3>2, <3>3, <3>4 DEF Account
  <2>3. CASE e # c
    <3>1. links'[e] = links[e] /\ wish'[e] = wish[e] /\ streak'[e] = streak[e]
      BY <1>5, <1>10, <1>11, <2>3
    <3>2. Account(e)
      <4>1. e \notin met /\ there(e)
        BY <1>5, <1>18, <3>1 DEF there
      <4> QED
        BY <4>1, LinkFacts
    <3>3. \A j \in LinkCall : e \in linkCalls'[j].todo => e \in linkCalls[j].todo
      BY ONLY <1>12, <1>13
    <3>4. \A j \in LinkCall : e = linkCalls'[j].link => linkCalls'[j] = linkCalls[j]
      BY <1>12, <1>13
    <3>5. Sound(e)' <=> Sound(e)
      BY ONLY <3>1 DEF Sound
    <3>6. ASSUME NEW j \in LinkCall, e = linkCalls'[j].link PROVE AtHand(linkCalls[j], e)'
      <4>1. PICK y : y = linkCalls[j]
        OBVIOUS
      <4>2. linkCalls'[j] = y /\ AtHand(y, e)
        BY <3>2, <3>4, <3>6, <4>1 DEF Account
      <4>3. AtHand(y, e)'
        BY ONLY <3>1, <3>5, <4>2 DEF AtHand, Owing
      <4> QED
        BY ONLY <4>2, <4>3 DEF AtHand
    <3> QED
      BY ONLY <2>1, <3>1, <3>2, <3>3, <3>5, <3>6 DEF Account
  <2> QED
    BY <2>2, <2>3
<1>19. UserHasLastWord'
  <2>1. UserHasLastWord
    BY DEF LinkInv
  <2>2. ASSUME NEW e \in Link PROVE Stands(e)'
    <3>1. CASE e = c
      BY ONLY <1>9, <1>10, <1>11, <3>1 DEF Stands
    <3>2. CASE e # c
      <4>1. links'[e] = links[e] /\ wish'[e] = wish[e] /\ Stands(e)
        BY <1>10, <1>11, <3>2, LinkFacts
      <4>2. links[e].provider \in undone => links[e].provider \in undone'
        BY <1>5
      <4> QED
        BY ONLY <4>1, <4>2 DEF Stands, there
    <3> QED
      BY <3>1, <3>2
  <2>3. ASSUME NEW d \in Link, NEW e \in Link, there(d)', there(e)', links'[d].provider \notin undone',
               links'[e].provider = links'[d].provider
        PROVE  d = e
    <3>1. \A f \in Link : f # c /\ there(f)' => links'[f] = links[f] /\ there(f)
      BY ONLY <1>10 DEF there
    <3>2. \A f \in Link : there(f) /\ links[f].provider = q.kind => q.kind \in undone'
      BY <1>5
    <3>3. CASE d # c /\ e # c
      <4>1. there(d) /\ there(e) /\ links[d].provider = links[e].provider /\ links[d].provider \notin undone'
        BY <2>3, <3>1, <3>3
      <4>2. links[d].provider \notin undone
        BY <1>5, <4>1
      <4> QED
        BY ONLY <2>1, <4>1, <4>2, d \in Link, e \in Link DEF UserHasLastWord
    <3>4. CASE d = c /\ e # c
      BY <1>9, <1>10, <2>3, <3>1, <3>2, <3>4
    <3>5. CASE d # c /\ e = c
      BY <1>9, <1>10, <2>3, <3>1, <3>2, <3>5
    <3> QED
      BY <3>3, <3>4, <3>5
  <2> QED
    BY ONLY <2>2, <2>3 DEF UserHasLastWord, Stands
<1> QED
  BY <1>14, <1>16, <1>17, <1>18, <1>19 DEF LinkInv

\* What worked, but was not recorded, is at hand as a failure.
LEMMA CatchKeeps == ASSUME LinkInv, NEW k \in LinkCall, Catch(k) PROVE LinkInv'
<1>0. PICK q, d : q = linkCalls[k] /\ d = q.link
  OBVIOUS
<1>1. PICK pc : pc = IF q.pc = "store" THEN "count" ELSE "failed"
  OBVIOUS
<1>2. PICK x : x = [q EXCEPT !.pc = pc]
  OBVIOUS
<1>3. /\ q.pc \in {"worked", "store", "reset"}
      /\ linkFailed < MaxLinkFails /\ linkFailed' = linkFailed + 1
      /\ linkCalls' = [linkCalls EXCEPT ![k].pc = pc]
      /\ streak' = [streak EXCEPT ![d].failed = @ + 1]
      /\ links' = links /\ linkServed' = linkServed /\ granted' = granted /\ wish' = wish /\ met' = met /\ undone' = undone
  BY <1>0, <1>1 DEF Catch
<1>4. /\ q \in LinkWork /\ Placed(q) /\ d \in Link /\ d \in worksOn(q) /\ d \notin q.todo
      /\ there(d) => links[d] \in LinkRow
      /\ streak[d] \in Streaks
      /\ d \notin met /\ there(d) => AtHand(q, d)
  BY <1>0, <1>3, HasAtHand
<1>5. /\ linkCalls \in [LinkCall -> LinkWork] /\ streak \in [Link -> Streaks]
      /\ linkFailed \in 0..MaxLinkFails /\ MaxLinkFails \in Nat /\ NoLink \notin Link
  BY LinkFacts, LinkConstants
<1>6. linkCalls' = [linkCalls EXCEPT ![k] = x]
  BY ONLY <1>0, <1>2, <1>3, <1>5
<1>7. pc \in {"count", "failed"} /\ linkFailed' \in 0..MaxLinkFails
  BY ONLY <1>1, <1>3, <1>5
<1>8. x \in LinkWork /\ x.pc = pc /\ x.link = d /\ x.todo = q.todo /\ x.copy = q.copy /\ x.kind = q.kind
  BY ONLY <1>0, <1>2, <1>4, <1>7 DEF LinkWork, LinkStations
<1>9. Placed(x)
  <2>1. x.link # NoLink
    BY <1>4, <1>5, <1>8
  <2> QED
    BY ONLY <1>7, <1>8, <2>1 DEF Placed
<1>10. /\ streak'[d] = [streak[d] EXCEPT !.failed = @ + 1]
       /\ streak' \in [Link -> Streaks] /\ \A c \in Link : c # d => streak'[c] = streak[c]
  BY ONLY <1>3, <1>4, <1>5 DEF Streaks
<1>11. d \notin met /\ there(d) => AtHand(x, d)'
  <2> SUFFICES ASSUME d \notin met, there(d) PROVE AtHand(x, d)'
    OBVIOUS
  <2>1. Sound(d) /\ links[d].status = "active"
    BY ONLY <1>3, <1>4, d \notin met, there(d) DEF AtHand
  <2>2. Tallies(links[d], [[streak[d] EXCEPT !.failed = @ + 1] EXCEPT !.lost = @ + 1], wish[d].at)
    BY <1>4, <2>1, TallyFacts DEF Sound
  <2>3. Owing(d)'
    BY ONLY <1>3, <1>10, <2>2 DEF Owing
  <2> QED
    BY ONLY <1>3, <1>7, <1>8, <2>1, <2>3 DEF AtHand
<1>12. /\ d \in worksOn(linkCalls[k]) /\ linkCalls[k].link \in {d, NoLink} /\ x.link \in {d, NoLink}
       /\ \A c : c \in x.todo => c \in linkCalls[k].todo /\ c # d
       /\ x.copy = linkCalls[k].copy /\ x.kind = linkCalls[k].kind /\ linkCalls[k].pc \notin {"find", "update", "insert"}
       /\ d \notin met /\ there(d) => IF d = x.link THEN AtHand(x, d)' ELSE Sound(d)'
  BY <1>0, <1>3, <1>4, <1>8, <1>11
<1>13. /\ d \in Link /\ linkCalls' = [linkCalls EXCEPT ![k] = x] /\ x \in LinkWork /\ Placed(x)
       /\ met' = met /\ linkServed' = linkServed /\ linkFailed' \in 0..MaxLinkFails /\ granted' = granted
       /\ links' = links /\ wish' = wish /\ undone' = undone
       /\ streak' \in [Link -> Streaks] /\ \A c \in Link : c # d => streak'[c] = streak[c]
  BY ONLY <1>3, <1>4, <1>6, <1>7, <1>8, <1>9, <1>10
<1> QED
  BY ONLY LinkInv, k \in LinkCall, <1>12, <1>13, NoRowWritten, ZenonT(60)

\* What a call leaves behind at whatever await it ends.
LEMMA LinkFailsKeeps == ASSUME LinkInv, NEW k \in LinkCall, LinkFails(k) PROVE LinkInv'
<1>0. PICK q, x : q = linkCalls[k] /\ x = Unused
  OBVIOUS
<1>1. /\ q.pc # "idle" /\ linkFailed < MaxLinkFails /\ linkFailed' = linkFailed + 1
      /\ linkCalls' = [linkCalls EXCEPT ![k] = x]
      /\ streak' = IF q.pc \in {"failed", "count", "counted"} THEN [streak EXCEPT ![q.link].lost = @ + 1] ELSE streak
      /\ links' = links /\ linkServed' = linkServed /\ granted' = granted /\ wish' = wish /\ met' = met /\ undone' = undone
  BY <1>0 DEF LinkFails
<1>2. /\ q \in LinkWork /\ Placed(q) /\ linkServed \in 0..MaxLinkCalls /\ linkFailed \in 0..MaxLinkFails /\ granted \in Nat
      /\ MaxLinkFails \in Nat /\ NoLink \notin Link /\ streak \in [Link -> Streaks]
      /\ \A c : c \in met => c \in Link
  BY <1>0, LinkFacts, LinkConstants
<1>3. linkFailed' \in 0..MaxLinkFails
  BY ONLY <1>1, <1>2
<1>4. x \in LinkWork /\ Placed(x) /\ x.todo = {} /\ x.link = NoLink /\ x.kind = "user" /\ worksOn(x) = {}
  <2>1. x \in LinkWork /\ Placed(x) /\ x.todo = {} /\ x.link = NoLink /\ x.kind = "user"
    BY ONLY <1>0, UnusedIsWork
  <2> QED
    BY ONLY <1>2, <2>1 DEF worksOn
<1>5. CASE q.link # NoLink
  <2>1. PICK d : d = q.link
    OBVIOUS
  <2>2. q.pc \notin {"idle", "next", "find", "insert"}
    BY ONLY <1>2, <1>5 DEF Placed
  <2>3. /\ d \in Link /\ d \in worksOn(q) /\ links[d] # NoLink /\ streak[d] \in Streaks
        /\ d \notin met /\ there(d) => AtHand(q, d)
    BY <1>0, <2>1, <2>2, HasAtHand
  <2>4. /\ streak' \in [Link -> Streaks] /\ \A c \in Link : c # d => streak'[c] = streak[c]
        /\ streak'[d] = IF q.pc \in {"failed", "count", "counted"} THEN [streak[d] EXCEPT !.lost = @ + 1] ELSE streak[d]
    BY ONLY <1>1, <1>2, <2>1, <2>3 DEF Streaks
  <2>5. d \notin met /\ there(d) => Sound(d)'
    <3> SUFFICES ASSUME d \notin met, there(d) PROVE Sound(d)'
      OBVIOUS
    <3>1. CASE q.pc \in {"failed", "count", "counted"}
      <4>1. Owing(d)
        BY ONLY <2>3, <3>1, d \notin met, there(d) DEF AtHand
      <4> QED
        BY ONLY <1>1, <2>4, <3>1, <4>1 DEF Owing, Sound
    <3>2. CASE q.pc \notin {"failed", "count", "counted"}
      <4>1. Sound(d)
        <5>1. q.pc \in {"toggle", "drop", "update", "sync", "worked", "reset", "store"}
          BY ONLY <1>2, <2>2, <3>2 DEF LinkWork, LinkStations
        <5> QED
          BY ONLY <2>3, <5>1, d \notin met, there(d) DEF AtHand
      <4> QED
        BY ONLY <1>1, <2>4, <3>2, <4>1 DEF Sound
    <3> QED
      BY <3>1, <3>2
  <2>6. /\ d \in worksOn(linkCalls[k]) /\ linkCalls[k].link \in {d, NoLink} /\ x.link \in {d, NoLink}
        /\ \A c : c \in x.todo => c \in linkCalls[k].todo /\ c # d
        /\ d \notin met /\ there(d) => IF d = x.link THEN AtHand(x, d)' ELSE Sound(d)'
    BY <1>0, <1>2, <1>4, <2>1, <2>3, <2>5
  <2> QED
    BY ONLY LinkInv, k \in LinkCall, <1>1, <1>3, <1>4, <2>3, <2>4, <2>6, NoRowWritten
<1>6. CASE q.link = NoLink /\ q.todo # {}
  <2>1. PICK d : d \in q.todo
    BY <1>6
  <2>2. q.pc = "next" /\ streak' = streak
    <3>1. q.pc = "next"
      BY ONLY <1>1, <1>2, <1>6 DEF Placed, LinkWork, LinkStations
    <3> QED
      BY ONLY <1>1, <3>1
  <2>3. d \in Link /\ d \in worksOn(q)
    BY <1>2, <2>1 DEF LinkWork, worksOn
  <2>4. d \notin met /\ there(d) => Sound(d)'
    <3>1. d \notin met /\ there(d) => Sound(d)
      <4>1. d \notin met /\ there(d) => Account(d)
        BY <2>3, LinkFacts
      <4> QED
        BY ONLY <1>0, <2>1, <4>1, k \in LinkCall DEF Account
    <3> QED
      BY ONLY <1>1, <2>2, <3>1 DEF Sound
  <2>5. /\ d \in worksOn(linkCalls[k]) /\ linkCalls[k].link \in {d, NoLink} /\ x.link \in {d, NoLink}
        /\ \A c : c \in x.todo => c \in linkCalls[k].todo /\ c # d
        /\ d \notin met /\ there(d) => IF d = x.link THEN AtHand(x, d)' ELSE Sound(d)'
        /\ streak' \in [Link -> Streaks] /\ \A c \in Link : c # d => streak'[c] = streak[c]
    BY <1>0, <1>2, <1>4, <1>6, <2>2, <2>3, <2>4
  <2> QED
    BY ONLY LinkInv, k \in LinkCall, <1>1, <1>3, <1>4, <2>3, <2>5, NoRowWritten
<1>7. CASE q.link = NoLink /\ q.todo = {}
  <2>1. worksOn(linkCalls[k]) = {} /\ x.link \notin x.todo /\ x.link \notin Link
    BY <1>0, <1>2, <1>4, <1>7 DEF worksOn
  <2>2. streak' = streak
    BY ONLY <1>1, <1>2, <1>7 DEF Placed
  <2>3. /\ linkServed' \in 0..MaxLinkCalls /\ granted' \in Nat
        /\ \A c : c \in met => c \in met'
        /\ \A c : c \in met' => c \in Link
        /\ \A c \in worksOn(x) : \A j \in LinkCall : c \in worksOn(linkCalls[j]) => c \in met'
        /\ \A c \in x.todo : there(c) /\ links[c].status = "active"
        /\ x.kind # "refresh"
    BY <1>1, <1>2, <1>4
  <2> QED
    BY ONLY LinkInv, k \in LinkCall, <1>1, <1>3, <1>4, <2>1, <2>2, <2>3, Arriving
<1> QED
  BY <1>5, <1>6, <1>7

LEMMA LinkInvInit == LinkInit => LinkInv
<1> SUFFICES ASSUME LinkInit PROVE LinkInv
  OBVIOUS
<1>1. /\ links = SeedLinks /\ linkCalls = [k \in LinkCall |-> Unused]
      /\ linkServed = 0 /\ linkFailed = 0 /\ granted = 0
      /\ streak = [c \in Link |-> NoStreak]
      /\ wish = [c \in Link |-> [status |-> "active", grant |-> 0, at |-> 0]]
      /\ met = {} /\ undone = {}
  BY DEF LinkInit
<1>2. /\ SeedLinks \in [Link -> LinkRow \cup {NoLink}]
      /\ \A c \in Link : SeedLinks[c] # NoLink => /\ SeedLinks[c].status = "active"
                                                  /\ SeedLinks[c].failures = 0 /\ SeedLinks[c].grant = 0
      /\ \A c, d \in Link : SeedLinks[c] # NoLink /\ SeedLinks[c] = SeedLinks[d] => c = d
      /\ FailureLimit \in Nat \ {0} /\ MaxLinkCalls \in Nat /\ MaxLinkFails \in Nat /\ NoLink \notin Link
  BY LinkConstants
<1>3. \A k \in LinkCall : linkCalls[k] = Unused
  BY ONLY <1>1
<1>4. Knows(Unused) /\ worksOn(Unused) = {} /\ Unused.todo = {} /\ Unused.link \notin Link
  <2>1. worksOn(Unused) = {}
    BY ONLY <1>2, UnusedIsWork DEF worksOn
  <2> QED
    BY ONLY <1>2, <2>1, UnusedIsWork DEF Knows
<1>5. LinkTypeOK
  <2>1. links \in LinkTable
    BY ONLY <1>1, <1>2 DEF LinkTable
  <2>2. linkCalls \in [LinkCall -> LinkWork] /\ \A k \in LinkCall : Placed(linkCalls[k])
    BY ONLY <1>1, UnusedIsWork
  <2>3. wish \in Wished /\ streak \in [Link -> Streaks]
    BY ONLY <1>1, NoStreakIs DEF Wished
  <2>4. linkServed \in 0..MaxLinkCalls /\ linkFailed \in 0..MaxLinkFails /\ granted \in Nat
    BY ONLY <1>1, <1>2
  <2>5. met \subseteq Link /\ undone \subseteq Provider
    BY ONLY <1>1
  <2> QED
    BY ONLY <2>1, <2>2, <2>3, <2>4, <2>5 DEF LinkTypeOK, Placed, Wished
<1>6. \A c \in Link : streak[c] = NoStreak /\ wish[c].status = "active" /\ wish[c].grant = 0
  BY ONLY <1>1
<1>7. \A k \in LinkCall : Knows(linkCalls[k])
  BY <1>3, <1>4
<1>8. ASSUME NEW c \in Link, there(c) PROVE Account(c)
  <2>1. links[c].failures = 0 /\ links[c].status = "active"
    BY <1>1, <1>2, <1>8 DEF there
  <2>2. Sound(c)
    BY ONLY <1>2, <1>6, <2>1, c \in Link DEF Sound, Tallies, NoStreak
  <2> QED
    BY <1>3, <1>4, <2>2 DEF Account
<1>9. UserHasLastWord
  <2>1. ASSUME NEW c \in Link, there(c)
        PROVE  links[c].status = "active" /\ links[c].grant = 0 /\ links[c].failures = 0 /\ links[c] \in LinkRow
    BY <1>1, <1>2, <2>1 DEF there
  <2>2. ASSUME NEW c \in Link, NEW d \in Link, there(c), there(d), links[d].provider = links[c].provider
        PROVE  c = d
    <3>1. /\ links[c].status = "active" /\ links[c].grant = 0 /\ links[c].failures = 0 /\ links[c] \in LinkRow
          /\ links[d].status = "active" /\ links[d].grant = 0 /\ links[d].failures = 0 /\ links[d] \in LinkRow
      BY <2>1, <2>2
    <3>2. links[c] = links[d]
      BY ONLY <2>2, <3>1 DEF LinkRow
    <3>3. SeedLinks[c] = SeedLinks[d] /\ SeedLinks[c] # NoLink
      BY <1>1, <2>2, <3>2 DEF there
    <3> QED
      BY <1>2, <3>3
  <2> QED
    BY ONLY <1>6, <2>1, <2>2 DEF UserHasLastWord
<1> QED
  BY <1>5, <1>6, <1>7, <1>8, <1>9 DEF LinkInv

LEMMA LinkInvKept == LinkInv /\ [LinkNextStep]_linkVars => LinkInv'
<1> SUFFICES ASSUME LinkInv, [LinkNextStep]_linkVars PROVE LinkInv'
  OBVIOUS
<1>1. ASSUME NEW k \in LinkCall,
             \/ Dispatch(k) \/ RefreshJob(k) \/ Webhook(k) \/ Callback(k)
             \/ UserCall(k, "toggle") \/ UserCall(k, "drop") \/ UserCall(k, "sync")
             \/ Serve(k) \/ Log(k) \/ ResetFailures(k) \/ StoreTokens(k) \/ CountRead(k) \/ Count(k)
             \/ Toggle(k) \/ DropLink(k) \/ Sync(k) \/ FindLink(k) \/ UpdateLink(k) \/ InsertLink(k)
             \/ Catch(k) \/ LinkFails(k)
      PROVE  LinkInv'
  BY <1>1, BatchKeeps, CallbackKeeps, UserCallKeeps, ServeKeeps, LogKeeps, ResetFailuresKeeps, StoreTokensKeeps,
     CountReadKeeps, CountKeeps, ToggleKeeps, DropLinkKeeps, SyncKeeps, FindLinkKeeps, UpdateLinkKeeps,
     InsertLinkKeeps, CatchKeeps, LinkFailsKeeps
<1>2. CASE UNCHANGED linkVars
  <2>1. /\ links' = links /\ linkCalls' = linkCalls /\ linkServed' = linkServed /\ linkFailed' = linkFailed
        /\ granted' = granted /\ streak' = streak /\ wish' = wish /\ met' = met /\ undone' = undone
    BY <1>2 DEF linkVars
  <2>2. LinkTypeOK'
    BY <2>1 DEF LinkInv, LinkTypeOK
  <2>3. \A k \in LinkCall : Knows(linkCalls[k])'
    BY <2>1 DEF LinkInv, Knows
  <2>4. \A c \in Link : Account(c)' <=> Account(c)
    BY <2>1 DEF Account, Sound, Owing, AtHand
  <2>5. \A c \in Link : there(c)' <=> there(c)
    BY <2>1 DEF there
  <2> QED
    BY <2>1, <2>2, <2>3, <2>4, <2>5, RowsStay DEF LinkInv
<1> QED
  BY <1>1, <1>2 DEF LinkNextStep

\* Whatever calls are served at once, each knows what it has at hand.
THEOREM LinkInvHolds == LinkSpec => []LinkInv
BY LinkInvInit, LinkInvKept, PTL DEF LinkSpec

\* A connection that no two calls worked on at once shows every failure since a
\* success was last stored, those of recording a success among them, but those whose
\* counting failed; it is disabled by FailureLimit of them and by no fewer, and is
\* active with as many only where the user turned it on again.
THEOREM CountsFailuresInARowHolds == LinkSpec => []CountsFailuresInARow
<1>1. LinkInv => CountsFailuresInARow
  <2> SUFFICES ASSUME LinkInv, NEW c \in Link \ met, there(c), \A k \in LinkCall : c \notin worksOn(linkCalls[k])
               PROVE  Sound(c)
    BY DEF CountsFailuresInARow, Sound, Tallies
  <2>1. Account(c)
    BY LinkFacts
  <2> QED
    BY <2>1 DEF Account
<1> QED
  BY <1>1, LinkInvHolds, PTL

\* What the user made of a connection, and the tokens of the last consent, stand:
\* only a counter or a token read before the change and written after it undoes them.
THEOREM UserHasLastWordHolds == LinkSpec => []UserHasLastWord
<1>1. LinkInv => UserHasLastWord
  BY DEF LinkInv
<1> QED
  BY <1>1, LinkInvHolds, PTL

-----------------------------------------------------------------------------
(* All of them together.                                                    *)

AccountsInv == ProfileInv /\ LinkInv /\ BlobInv /\ ConsentInv /\ SchedInv

\* In whatever area a run of MCAccounts is, the rows and the calls of every area
\* have their types: a step of one leaves the others as they are.
THEOREM AccountsTypeCorrect == AccountsSpec => []AccountsTypeOK
<1>1. AccountsInit => AccountsInv
  BY InitIInv, LinkInvInit, BlobStarts, ConsentStarts, SchedStarts DEF AccountsInit, AccountsInv
<1>2. AccountsInv /\ [AccountsNext]_accountVars => AccountsInv'
  <2> SUFFICES ASSUME AccountsInv, [AccountsNext]_accountVars PROVE AccountsInv'
    OBVIOUS
  <2>1. /\ [Next]_vars /\ [LinkNextStep]_linkVars /\ [BlobNext]_blobVars
        /\ [ConsentNext]_consentVars /\ [SchedNext]_schedVars
    BY DEF AccountsNext, accountVars
  <2> QED
    BY ONLY AccountsInv, <2>1, NextIInv, LinkInvKept, BlobInvKept, ConsentInvKept, SchedInvKept DEF AccountsInv
<1>3. AccountsInv => AccountsTypeOK
  <2>1. SchedInv => SchedTypeOK
    BY DEF SchedInv, DatesOK, PatchesKeepOrder, Patches, SchedTypeOK
  <2> QED
    BY <2>1 DEF AccountsInv, AccountsTypeOK, ProfileInv, LinkInv, BlobInv, ConsentInv
<1> QED
  BY <1>1, <1>2, <1>3, PTL DEF AccountsSpec
=============================================================================
