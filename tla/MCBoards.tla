------------------------------ MODULE MCBoards ------------------------------
(***************************************************************************)
(* What requests do to a board's rows, who may see them, and what the tabs *)
(* that show the board know of it, on small instances, in one run.  The    *)
(* modules share no variable and no action of one can disturb another, so  *)
(* interleaving them would add states and no behaviour: area says which of *)
(* them runs, and the variables of the others stay as they started.        *)
(***************************************************************************)
EXTENDS MCCardOrder, MCRealtimeHub, BoardSync, BoardAccess, CardDetails, ListOrder, OAuthServer, Notices

CONSTANTS
  k1, o1, o2,         \* a card and orders of the lists, as a tab sees them
  u1, u2, t1, t2,     \* users, clans
  q1, q2, g1, g2, t3  \* authorization requests, agents, a token

VARIABLE area

boardVars == <<vars, syncVars, hubVars, accessVars, detailVars, colVars, oauthVars, noticeVars, area>>

-----------------------------------------------------------------------------
(* Constants.                                                               *)

MCSeedBoard == [at |-> [c \in {k1} |-> l1], order |-> o1]

\* u1 made b1; b2 is to come.
MCSeedBoards == (b1 :> u1) @@ (b2 :> Nobody)
MCSeedTeams == (t1 :> ((u1 :> "reader") @@ (u2 :> "member")))
            @@ (t2 :> ((u1 :> NoRole)   @@ (u2 :> "reader")))

MCAgentOf == (q1 :> g1) @@ (q2 :> g2)

-----------------------------------------------------------------------------

Areas == {"cards", "sync", "hub", "access", "details", "columns", "oauth", "notices"}

BoardsInit ==
  /\ area \in Areas
  /\ Init /\ SyncInit /\ HubInit /\ AccessInit /\ DetailInit /\ ColumnsInit /\ OauthInit
  /\ NoticesInit
  /\ area # "notices" => \A c \in Kata : kata[c].assignee = Unassigned

BoardsNext ==
  /\ UNCHANGED area
  /\ \/ /\ area = "cards" /\ Next
        /\ UNCHANGED <<syncVars, hubVars, accessVars, detailVars, colVars, oauthVars, noticeVars>>
     \/ /\ area = "sync" /\ SyncNext
        /\ UNCHANGED <<vars, hubVars, accessVars, detailVars, colVars, oauthVars, noticeVars>>
     \/ /\ area = "hub" /\ HubNext
        /\ UNCHANGED <<vars, syncVars, accessVars, detailVars, colVars, oauthVars, noticeVars>>
     \/ /\ area = "access" /\ AccessNext
        /\ UNCHANGED <<vars, syncVars, hubVars, detailVars, colVars, oauthVars, noticeVars>>
     \/ /\ area = "details" /\ DetailNext
        /\ UNCHANGED <<vars, syncVars, hubVars, accessVars, colVars, oauthVars, noticeVars>>
     \/ /\ area = "columns" /\ ColumnsNext
        /\ UNCHANGED <<vars, syncVars, hubVars, accessVars, detailVars, oauthVars, noticeVars>>
     \/ /\ area = "oauth" /\ OauthNext
        /\ UNCHANGED <<vars, syncVars, hubVars, accessVars, detailVars, colVars, noticeVars>>
     \/ /\ area = "notices" /\ NoticesNext
        /\ UNCHANGED <<vars, syncVars, hubVars, accessVars, detailVars, colVars, oauthVars>>

BoardsSpec == BoardsInit /\ [][BoardsNext]_boardVars

-----------------------------------------------------------------------------

\* Every variable of the area that runs has its type: the row of a card, of a
\* list, of a token, and where each request stands.
BoardsTypeOK ==
  /\ area = "cards"    => TypeOK
  /\ area = "sync"     => SyncTypeOK
  /\ area = "hub"      => HubTypeOK
  /\ area = "access"   => AccessTypeOK
  /\ area = "details"  => DetailTypeOK
  /\ area = "columns"  => ColumnsTypeOK
  /\ area = "oauth"    => OauthTypeOK
  /\ area = "notices"  => NoticesTypeOK
=============================================================================
