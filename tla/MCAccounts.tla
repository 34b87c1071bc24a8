----------------------------- MODULE MCAccounts -----------------------------
(***************************************************************************)
(* What belongs to one user, on small instances, in one run: the profile,  *)
(* the connections to providers, the avatar and other files, the consent   *)
(* to be tracked, the calendar in the user's time zone.  As in MCBoards,   *)
(* area says which module runs; no variable is shared.                     *)
(***************************************************************************)
EXTENDS ProfileProvisioning, Integrations, Blobs, Consent, Schedule, TLC

CONSTANTS
  u1, u2, p1, p2, p3,      \* users, calls
  n1, n2, g1,              \* connections, a provider
  a1, a2, x1, x2, f1, f2,  \* pictures, paths, files
  w1, w2,                  \* tabs
  v1, v2                   \* viewers

VARIABLE area

accountVars == <<vars, linkVars, blobVars, consentVars, schedVars, area>>

\* One connection, one to come.
MCSeedLinks ==
  [c \in {n1, n2} |->
     IF c = n1 THEN [provider |-> g1, status |-> "active", failures |-> 0, grant |-> 0] ELSE NoLink]

\* New York in spring, Auckland in autumn.
MCZone == (v1 :> [before |-> -5, after |-> -4, change |-> 2])
       @@ (v2 :> [before |-> 13, after |-> 12, change |-> 1])

-----------------------------------------------------------------------------

AccountsInit ==
  /\ area \in {"profiles", "links", "blobs", "consent", "schedule"}
  /\ Init /\ LinkInit /\ BlobInit /\ ConsentInit /\ SchedInit
  /\ area # "consent" => ~gpc
  /\ area # "schedule" => dates = Undated

AccountsNext ==
  /\ UNCHANGED area
  /\ \/ /\ area = "profiles" /\ Next         /\ UNCHANGED <<linkVars, blobVars, consentVars, schedVars>>
     \/ /\ area = "links"    /\ LinkNextStep /\ UNCHANGED <<vars, blobVars, consentVars, schedVars>>
     \/ /\ area = "blobs"    /\ BlobNext     /\ UNCHANGED <<vars, linkVars, consentVars, schedVars>>
     \/ /\ area = "consent"  /\ ConsentNext  /\ UNCHANGED <<vars, linkVars, blobVars, schedVars>>
     \/ /\ area = "schedule" /\ SchedNext    /\ UNCHANGED <<vars, linkVars, blobVars, consentVars>>

\* The fairness is FairSpec's.
AccountsSpec ==
  /\ AccountsInit /\ [][AccountsNext]_accountVars
  /\ \A p \in Call : WF_vars(Step(p))
  /\ \A u \in User : SF_vars(\E p \in Call : Session(p, u))

-----------------------------------------------------------------------------

\* Every variable of the area that runs has its type: the rows of profiles,
\* connections and files, the choices of the visitor, dates, and where each call stands.
AccountsTypeOK ==
  /\ area = "profiles" => TypeOK
  /\ area = "links"    => LinkTypeOK
  /\ area = "blobs"    => BlobTypeOK
  /\ area = "consent"  => ConsentTypeOK
  /\ area = "schedule" => SchedTypeOK
=============================================================================
