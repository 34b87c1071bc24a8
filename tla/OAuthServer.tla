---------------------------- MODULE OAuthServer ----------------------------
(***************************************************************************)
(* The OAuth server for MCP clients, of one user: consent to an            *)
(* authorization request, the code it is turned into, its exchange for a   *)
(* token pair, rotation of refresh tokens and revocation of a grant        *)
(* (backend/src/services/oauth.service.ts, routes/oauth/index.ts, which    *)
(* mcp-remote/src/oauth.ts calls).                                         *)
(*                                                                         *)
(* Each handler looks a row up and marks it in a later statement, with no  *)
(* transaction; other calls run in between.  A call with the wrong client, *)
(* redirect URI or verifier is refused and changes nothing.                *)
(***************************************************************************)
EXTENDS Integers, FiniteSets

CONSTANTS
  AuthReq, AuthCode, RefreshToken,  \* rows of the three tables
  Agent, AgentOf,                   \* the client of each request
  OauthCall,                        \* slots for calls being served
  NoAuth,
  AccessTtl,                        \* ticks an access token is good for
  LastTick,                         \* bound: ticks that pass
  MaxOauthCalls, MaxOauthFails      \* bounds: calls served, awaits that fail

\* late, in a token and a call, is history: the grant was revoked when the call
\* that minted it had already looked up what it redeems, or while its code waited.
CodeRow == [req: AuthReq, state: {"fresh", "consumed", "lapsed"}, late: BOOLEAN]

TokenRow == [req: AuthReq, state: {"live", "revoked", "lapsed"}, minted: 0..LastTick, late: BOOLEAN]

ASSUME OauthConstants ==
  /\ AgentOf \in [AuthReq -> Agent]
  /\ AccessTtl \in Nat /\ LastTick \in Nat /\ MaxOauthCalls \in Nat /\ MaxOauthFails \in Nat
  /\ NoAuth \notin AuthReq \cup AuthCode \cup RefreshToken \cup CodeRow \cup TokenRow \cup Nat

VARIABLES
  authReqs,   \* "pending", "burned" or "lapsed"
  authCodes,  \* the request and state of a code
  refreshes,  \* the request of a refresh token, its state, and when it was minted
  oauthCalls,
  tick, oauthServed, oauthFailed,
  cut,        \* history: when the grant of a request was last revoked
  troubled    \* history: requests two calls handled at once, or one half-way

oauthVars == <<authReqs, authCodes, refreshes, oauthCalls, tick, oauthServed, oauthFailed, cut, troubled>>

Waiting == [pc |-> "idle", req |-> NoAuth, row |-> NoAuth, late |-> FALSE]

OauthTypeOK ==
  /\ authReqs \in [AuthReq -> {"pending", "burned", "lapsed"}]
  /\ authCodes \in [AuthCode -> CodeRow \cup {NoAuth}]
  /\ refreshes \in [RefreshToken -> TokenRow \cup {NoAuth}]
  /\ oauthCalls \in [OauthCall -> [pc: {"idle", "consent", "code", "burn", "exchange", "consume",
                                        "refresh", "rotate", "mint"},
                                   req: AuthReq \cup {NoAuth},
                                   row: AuthCode \cup RefreshToken \cup {NoAuth}, late: BOOLEAN]]
  /\ tick \in 0..LastTick /\ oauthServed \in 0..MaxOauthCalls /\ oauthFailed \in 0..MaxOauthFails
  /\ cut \in [AuthReq -> 0..LastTick \cup {NoAuth}]
  /\ troubled \subseteq AuthReq

OauthInit ==
  /\ authReqs = [r \in AuthReq |-> "pending"]
  /\ authCodes = [c \in AuthCode |-> NoAuth]
  /\ refreshes = [t \in RefreshToken |-> NoAuth]
  /\ oauthCalls = [k \in OauthCall |-> Waiting]
  /\ tick = 0 /\ oauthServed = 0 /\ oauthFailed = 0
  /\ cut = [r \in AuthReq |-> NoAuth]
  /\ troubled = {}

busy(r) == \E k \in OauthCall : oauthCalls[k].pc # "idle" /\ oauthCalls[k].req = r

-----------------------------------------------------------------------------
(* Calls arrive.                                                            *)

OauthStart(k, pc, r, row) ==
  /\ oauthCalls[k].pc = "idle"
  /\ oauthServed < MaxOauthCalls /\ oauthServed' = oauthServed + 1
  /\ oauthCalls' = [oauthCalls EXCEPT ![k] = [pc |-> pc, req |-> r, row |-> row, late |-> FALSE]]
  /\ troubled' = IF busy(r) THEN troubled \cup {r} ELSE troubled
  /\ UNCHANGED <<authReqs, authCodes, refreshes, tick, oauthFailed, cut>>

\* The user allows, maybe twice.
Consent(k) == \E r \in AuthReq : OauthStart(k, "consent", r, NoAuth)

\* A client presents a code or a refresh token, spent or not.
Exchange(k) == \E c \in AuthCode : authCodes[c] # NoAuth /\ OauthStart(k, "exchange", authCodes[c].req, c)

Refresh(k) == \E t \in RefreshToken : refreshes[t] # NoAuth /\ OauthStart(k, "refresh", refreshes[t].req, t)

-----------------------------------------------------------------------------
(* What they do, statement by statement.                                    *)

OauthGoto(k, pc) == oauthCalls' = [oauthCalls EXCEPT ![k] = IF pc = "idle" THEN Waiting ELSE [@ EXCEPT !.pc = pc]]

OauthFrame == UNCHANGED <<tick, oauthServed, oauthFailed, cut, troubled>>

\* The SELECT and the checks of issueAuthorizationCode: a grant revoked before is
\* given again.
CheckConsent(k) ==
  LET r  == oauthCalls[k].req
      ok == authReqs[r] = "pending"
  IN  /\ oauthCalls[k].pc = "consent"
      /\ OauthGoto(k, IF ok THEN "code" ELSE "idle")
      /\ cut' = IF ok THEN [cut EXCEPT ![r] = NoAuth] ELSE cut
      /\ UNCHANGED <<authReqs, authCodes, refreshes, tick, oauthServed, oauthFailed, troubled>>

\* Those of exchangeAuthorizationCode and refresh.
CheckedRow(k, good) ==
  LET q    == oauthCalls[k]
      row  == IF q.pc = "exchange" THEN authCodes[q.row] ELSE refreshes[q.row]
      next == IF q.pc = "exchange" THEN "consume" ELSE "rotate"
  IN  /\ q.pc \in {"exchange", "refresh"}
      /\ oauthCalls' = [oauthCalls EXCEPT ![k] =
           IF row.state \in good THEN [q EXCEPT !.pc = next, !.late = row.late] ELSE Waiting]
      /\ UNCHANGED <<authReqs, authCodes, refreshes>> /\ OauthFrame

\* Slip: a row that is there is good until it expires.
CheckExpiryOnly(k) == CheckedRow(k, {"fresh", "consumed", "live", "revoked"})

CheckRedeemed(k) == CheckedRow(k, {"fresh", "live"})

\* Which of the ids not given out yet a row gets does not matter.
FreeCodes == {c \in AuthCode : authCodes[c] = NoAuth}

FreeTokens == {t \in RefreshToken : refreshes[t] = NoAuth}

InsertCode(k) == LET c == CHOOSE d \in FreeCodes : TRUE IN
  /\ oauthCalls[k].pc = "code" /\ FreeCodes # {}
  /\ authCodes' = [authCodes EXCEPT ![c] = [req |-> oauthCalls[k].req, state |-> "fresh", late |-> oauthCalls[k].late]]
  /\ OauthGoto(k, "burn")
  /\ UNCHANGED <<authReqs, refreshes>> /\ OauthFrame

Burn(k) ==
  /\ oauthCalls[k].pc = "burn"
  /\ authReqs' = [authReqs EXCEPT ![oauthCalls[k].req] = "burned"]
  /\ OauthGoto(k, "idle")
  /\ UNCHANGED <<authCodes, refreshes>> /\ OauthFrame

Consume(k) ==
  /\ oauthCalls[k].pc = "consume"
  /\ authCodes' = [authCodes EXCEPT ![oauthCalls[k].row].state = "consumed"]
  /\ OauthGoto(k, "mint")
  /\ UNCHANGED <<authReqs, refreshes>> /\ OauthFrame

\* Slip: the old token is left for the client to retry with.
RotateNot(k) ==
  /\ oauthCalls[k].pc = "rotate"
  /\ OauthGoto(k, "mint")
  /\ UNCHANGED <<authReqs, authCodes, refreshes>> /\ OauthFrame

Rotate(k) ==
  /\ oauthCalls[k].pc = "rotate"
  /\ refreshes' = [refreshes EXCEPT ![oauthCalls[k].row].state = "revoked"]
  /\ OauthGoto(k, "mint")
  /\ UNCHANGED <<authReqs, authCodes>> /\ OauthFrame

\* mintTokenPair.
Mint(k) ==
  LET q == oauthCalls[k]
      t == CHOOSE u \in FreeTokens : TRUE
  IN  /\ q.pc = "mint" /\ FreeTokens # {}
      /\ refreshes' = [refreshes EXCEPT ![t] = [req |-> q.req, state |-> "live", minted |-> tick, late |-> q.late]]
      /\ OauthGoto(k, "idle")
      /\ UNCHANGED <<authReqs, authCodes>> /\ OauthFrame

\* An await fails, or the process dies; what was marked stays marked.
OauthFails(k) ==
  /\ oauthCalls[k].pc # "idle"
  /\ oauthFailed < MaxOauthFails /\ oauthFailed' = oauthFailed + 1
  /\ OauthGoto(k, "idle")
  /\ troubled' = troubled \cup {oauthCalls[k].req}
  /\ UNCHANGED <<authReqs, authCodes, refreshes, tick, oauthServed, cut>>

-----------------------------------------------------------------------------
(* Revocation, and time.                                                    *)

\* Every live refresh token of the agent is revoked; a code that waits, and a call
\* past its lookup, go on.
RevokeGrant(a) ==
  LET hit(row) == row # NoAuth /\ AgentOf[row.req] = a
  IN  /\ oauthServed < MaxOauthCalls /\ oauthServed' = oauthServed + 1
      /\ refreshes' = [t \in RefreshToken |->
           IF hit(refreshes[t]) /\ refreshes[t].state = "live" THEN [refreshes[t] EXCEPT !.state = "revoked"]
           ELSE refreshes[t]]
      /\ cut' = [r \in AuthReq |-> IF AgentOf[r] = a THEN tick ELSE cut[r]]
      /\ authCodes' = [c \in AuthCode |->
           IF hit(authCodes[c]) /\ authCodes[c].state = "fresh" THEN [authCodes[c] EXCEPT !.late = TRUE]
           ELSE authCodes[c]]
      /\ oauthCalls' = [k \in OauthCall |->
           IF oauthCalls[k].pc \in {"code", "consume", "rotate", "mint"} /\ AgentOf[oauthCalls[k].req] = a
           THEN [oauthCalls[k] EXCEPT !.late = TRUE] ELSE oauthCalls[k]]
      /\ UNCHANGED <<authReqs, tick, oauthFailed, troubled>>

\* A request, a code or a refresh token comes to its expires_at.
Lapse ==
  /\ \/ \E r \in AuthReq : /\ authReqs[r] = "pending" /\ authReqs' = [authReqs EXCEPT ![r] = "lapsed"]
                           /\ UNCHANGED <<authCodes, refreshes>>
     \/ \E c \in AuthCode : /\ authCodes[c] # NoAuth /\ authCodes[c].state = "fresh"
                            /\ authCodes' = [authCodes EXCEPT ![c].state = "lapsed"]
                            /\ UNCHANGED <<authReqs, refreshes>>
     \/ \E t \in RefreshToken : /\ refreshes[t] # NoAuth /\ refreshes[t].state = "live"
                                /\ refreshes' = [refreshes EXCEPT ![t].state = "lapsed"]
                                /\ UNCHANGED <<authReqs, authCodes>>
  /\ UNCHANGED oauthCalls /\ OauthFrame

Tick ==
  /\ tick < LastTick /\ tick' = tick + 1
  /\ UNCHANGED <<authReqs, authCodes, refreshes, oauthCalls, oauthServed, oauthFailed, cut, troubled>>

OauthNext ==
  \/ \E k \in OauthCall : \/ Consent(k) \/ Exchange(k) \/ Refresh(k) \/ CheckConsent(k) \/ CheckRedeemed(k) \/ InsertCode(k) \/ Burn(k)
                          \/ Consume(k) \/ Rotate(k) \/ Mint(k) \/ OauthFails(k)
  \/ \E a \in Agent : RevokeGrant(a)
  \/ Lapse \/ Tick

OauthSpec == OauthInit /\ [][OauthNext]_oauthVars

-----------------------------------------------------------------------------
(* Properties.                                                              *)

CodesOf(r) == {c \in AuthCode : authCodes[c] # NoAuth /\ authCodes[c].req = r}

TokensOf(r) == {t \in RefreshToken : refreshes[t] # NoAuth /\ refreshes[t].req = r}

LiveOf(r) == {t \in TokensOf(r) : refreshes[t].state = "live"}

\* A consent whose calls came one after the other and did not fail gives one
\* code, and at any time one refresh token is good, however often it was rotated:
\* exactly one while nothing is revoked or lapses.
OneTokenPerConsent ==
  \A r \in AuthReq \ troubled :
    /\ Cardinality(CodesOf(r)) <= 1 /\ Cardinality(LiveOf(r)) <= 1
    /\ (/\ ~busy(r) /\ cut[r] = NoAuth
        /\ \E c \in CodesOf(r) : authCodes[c].state = "consumed"
        /\ \A t \in TokensOf(r) : refreshes[t].state # "lapsed") => LiveOf(r) # {}

\* A token gives access while it is live, or while its access token is good.
GivesAccess(t) == refreshes[t].state = "live" \/ tick <= refreshes[t].minted + AccessTtl

\* After the user revokes a grant the agent's access ends within the lifetime of
\* an access token, unless a code of its consent, or a call that had looked one up,
\* was under way.
RevokedLosesAccess ==
  \A r \in AuthReq : cut[r] # NoAuth =>
    \A t \in TokensOf(r) : GivesAccess(t) /\ ~refreshes[t].late => tick <= cut[r] + AccessTtl
=============================================================================
