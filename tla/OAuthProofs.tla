----------------------------- MODULE OAuthProofs -----------------------------
(***************************************************************************)
(* That a revoked grant loses its access, for any number of requests,      *)
(* agents, calls and tokens.                                               *)
(*                                                                         *)
(* The invariant says of every revoked grant what is left of it: no live   *)
(* token, no code waiting and no call past its lookup but those that were  *)
(* under way when it was revoked.                                          *)
(***************************************************************************)
EXTENDS OAuthServer, FiniteSetTheorems, TLAPS

PastLookup == {"code", "consume", "rotate", "mint"}

\* What a call redeems is a row, of the call's own request.
CallsHaveRows ==
  \A k \in OauthCall :
    LET q == oauthCalls[k]
    IN  /\ q.pc # "idle" => q.req \in AuthReq
        /\ q.pc \in {"exchange", "consume"} =>
             q.row \in AuthCode /\ authCodes[q.row] \in CodeRow /\ authCodes[q.row].req = q.req
        /\ q.pc \in {"refresh", "rotate"} =>
             q.row \in RefreshToken /\ refreshes[q.row] \in TokenRow /\ refreshes[q.row].req = q.req

TokenLeft(r, row) ==
  (row # NoAuth /\ row.req = r) => (row.state = "live" => row.late) /\ (~row.late => row.minted =< cut[r])

CodeLeft(r, row) == (row # NoAuth /\ row.req = r /\ row.state = "fresh") => row.late

CallLeft(r, q) == (q.pc \in PastLookup /\ q.req = r) => q.late

\* What is left of a revoked grant.
OnlyLateLeft ==
  \A r \in AuthReq : cut[r] # NoAuth =>
    /\ \A t \in RefreshToken : TokenLeft(r, refreshes[t])
    /\ \A c \in AuthCode : CodeLeft(r, authCodes[c])
    /\ \A k \in OauthCall : CallLeft(r, oauthCalls[k])

\* Nothing was minted in the future.
MintedByNow == \A t \in RefreshToken : refreshes[t] # NoAuth => refreshes[t].minted =< tick

OauthInv == OauthTypeOK /\ CallsHaveRows /\ OnlyLateLeft /\ MintedByNow

CallRow == [pc: {"idle", "consent", "code", "burn", "exchange", "consume", "refresh", "rotate", "mint"},
            req: AuthReq \cup {NoAuth}, row: AuthCode \cup RefreshToken \cup {NoAuth}, late: BOOLEAN]

-----------------------------------------------------------------------------

LEMMA OauthStarts == OauthInit => OauthInv
<1> USE OauthConstants DEF OauthInit
<1> SUFFICES ASSUME OauthInit PROVE OauthInv
  OBVIOUS
<1>1. OauthTypeOK
  BY DEF OauthTypeOK, Waiting
<1>2. CallsHaveRows /\ OnlyLateLeft /\ MintedByNow
  BY DEF CallsHaveRows, OnlyLateLeft, MintedByNow, Waiting
<1> QED
  BY <1>1, <1>2 DEF OauthInv

\* A slot is given a call that redeems what it should, or nothing.
LEMMA CallsKeep ==
  ASSUME NEW k \in OauthCall, NEW q \in CallRow, OauthInv, oauthCalls' = [oauthCalls EXCEPT ![k] = q],
         UNCHANGED <<authCodes, refreshes>>,
         q.pc # "idle" => q.req \in AuthReq,
         q.pc \in {"exchange", "consume"} =>
           q.row \in AuthCode /\ authCodes[q.row] \in CodeRow /\ authCodes[q.row].req = q.req,
         q.pc \in {"refresh", "rotate"} =>
           q.row \in RefreshToken /\ refreshes[q.row] \in TokenRow /\ refreshes[q.row].req = q.req
  PROVE  CallsHaveRows' /\ oauthCalls' \in [OauthCall -> CallRow]
<1>1. oauthCalls \in [OauthCall -> CallRow]
  BY DEF OauthInv, OauthTypeOK, CallRow
<1> HIDE DEF CallRow
<1>2. oauthCalls' \in [OauthCall -> CallRow] /\ \A j \in OauthCall : oauthCalls'[j] = IF j = k THEN q ELSE oauthCalls[j]
  BY <1>1
<1> QED
  BY <1>2 DEF OauthInv, CallsHaveRows

\* A call arrives.
LEMMA StartKeeps ==
  ASSUME NEW k \in OauthCall, OauthInv, Consent(k) \/ Exchange(k) \/ Refresh(k)
  PROVE  OauthInv'
<1> USE OauthConstants
<1>1. PICK pc \in {"consent", "exchange", "refresh"}, r \in AuthReq, row \in AuthCode \cup RefreshToken \cup {NoAuth} :
        /\ OauthStart(k, pc, r, row)
        /\ pc = "exchange" => row \in AuthCode /\ authCodes[row] \in CodeRow /\ authCodes[row].req = r
        /\ pc = "refresh" => row \in RefreshToken /\ refreshes[row] \in TokenRow /\ refreshes[row].req = r
  <2>1. CASE Consent(k)
    BY <2>1 DEF Consent
  <2>2. CASE Exchange(k)
    <3> PICK c \in AuthCode : authCodes[c] # NoAuth /\ OauthStart(k, "exchange", authCodes[c].req, c)
      BY <2>2 DEF Exchange
    <3>1. authCodes[c] \in CodeRow /\ authCodes[c].req \in AuthReq
      BY DEF OauthInv, OauthTypeOK, CodeRow
    <3> QED
      BY <3>1
  <2>3. CASE Refresh(k)
    <3> PICK t \in RefreshToken : refreshes[t] # NoAuth /\ OauthStart(k, "refresh", refreshes[t].req, t)
      BY <2>3 DEF Refresh
    <3>1. refreshes[t] \in TokenRow /\ refreshes[t].req \in AuthReq
      BY DEF OauthInv, OauthTypeOK, TokenRow
    <3> QED
      BY <3>1
  <2> QED
    BY <2>1, <2>2, <2>3
<1> DEFINE q == [pc |-> pc, req |-> r, row |-> row, late |-> FALSE]
<1>2. /\ oauthCalls' = [oauthCalls EXCEPT ![k] = q]
      /\ UNCHANGED <<authReqs, authCodes, refreshes, tick, oauthFailed, cut>>
      /\ oauthServed' \in 0..MaxOauthCalls /\ troubled' \subseteq AuthReq
  BY <1>1 DEF OauthStart, OauthInv, OauthTypeOK
<1>3. q \in CallRow /\ q.pc = pc /\ q.req = r /\ q.row = row /\ q.pc \notin PastLookup
  BY DEF CallRow, PastLookup
<1> HIDE DEF q
<1>4. CallsHaveRows' /\ oauthCalls' \in [OauthCall -> CallRow]
  BY <1>1, <1>2, <1>3, CallsKeep
<1>5. OauthTypeOK'
  BY <1>2, <1>4 DEF OauthInv, OauthTypeOK, CallRow
<1>6. \A j \in OauthCall : oauthCalls'[j] = IF j = k THEN q ELSE oauthCalls[j]
  BY <1>2 DEF OauthInv, OauthTypeOK
<1>7. OnlyLateLeft' /\ MintedByNow'
  BY <1>2, <1>3, <1>6 DEF OauthInv, OnlyLateLeft, MintedByNow, TokenLeft, CodeLeft, CallLeft
<1> QED
  BY <1>4, <1>5, <1>7 DEF OauthInv

\* What a call of slot k is like, and what changing its pc makes of it.
LEMMA CallShape ==
  ASSUME NEW k \in OauthCall, OauthInv
  PROVE  /\ oauthCalls[k] \in CallRow
         /\ Waiting \in CallRow /\ Waiting.pc = "idle"
         /\ \A pc \in {"consent", "code", "burn", "exchange", "consume", "refresh", "rotate", "mint"} :
              LET q == [oauthCalls[k] EXCEPT !.pc = pc]
              IN  /\ q \in CallRow /\ q.pc = pc /\ q.req = oauthCalls[k].req /\ q.row = oauthCalls[k].row
                  /\ q.late = oauthCalls[k].late
  BY DEF OauthInv, OauthTypeOK, CallRow, Waiting

\* The lookup of a consent: a grant given again has nothing revoked.
LEMMA CheckConsentKeeps ==
  ASSUME NEW k \in OauthCall, OauthInv, CheckConsent(k) PROVE OauthInv'
<1> USE OauthConstants
<1> DEFINE r == oauthCalls[k].req
           ok == authReqs[r] = "pending"
           q == IF ok THEN [oauthCalls[k] EXCEPT !.pc = "code"] ELSE Waiting
<1>0. oauthCalls[k].pc = "consent" /\ r \in AuthReq
  BY DEF CheckConsent, OauthInv, CallsHaveRows
<1>1. /\ oauthCalls' = [oauthCalls EXCEPT ![k] = q]
      /\ cut' = IF ok THEN [cut EXCEPT ![r] = NoAuth] ELSE cut
      /\ UNCHANGED <<authReqs, authCodes, refreshes, tick, oauthServed, oauthFailed, troubled>>
  BY DEF CheckConsent, OauthGoto
<1>2. q \in CallRow /\ q.pc \in {"idle", "code"} /\ (q.pc = "code" => ok /\ q.req = r)
  BY CallShape
<1> HIDE DEF q, ok
<1>3. CallsHaveRows' /\ oauthCalls' \in [OauthCall -> CallRow]
  BY <1>0, <1>1, <1>2, CallsKeep
<1>4. OauthTypeOK'
  BY <1>0, <1>1, <1>3 DEF OauthInv, OauthTypeOK, CallRow
<1>5. \A j \in OauthCall : oauthCalls'[j] = IF j = k THEN q ELSE oauthCalls[j]
  BY <1>1 DEF OauthInv, OauthTypeOK
<1>6. \A s \in AuthReq : cut'[s] = IF ok /\ s = r THEN NoAuth ELSE cut[s]
  BY <1>0, <1>1 DEF OauthInv, OauthTypeOK
<1>7. OnlyLateLeft'
  BY <1>1, <1>2, <1>5, <1>6 DEF OauthInv, OnlyLateLeft, TokenLeft, CodeLeft, CallLeft, PastLookup
<1>8. MintedByNow'
  BY <1>1 DEF OauthInv, MintedByNow
<1> QED
  BY <1>3, <1>4, <1>7, <1>8 DEF OauthInv

\* The lookup of a code or a token: what is left of a revoked grant is late, and so
\* is the call that redeems it.
LEMMA CheckRedeemedKeeps ==
  ASSUME NEW k \in OauthCall, OauthInv, CheckRedeemed(k) PROVE OauthInv'
<1> USE OauthConstants
<1> DEFINE c == oauthCalls[k]
           row == IF c.pc = "exchange" THEN authCodes[c.row] ELSE refreshes[c.row]
           next == IF c.pc = "exchange" THEN "consume" ELSE "rotate"
           q == IF row.state \in {"fresh", "live"} THEN [c EXCEPT !.pc = next, !.late = row.late] ELSE Waiting
<1>1. c.pc \in {"exchange", "refresh"}
  BY DEF CheckRedeemed, CheckedRow
<1>2. oauthCalls' = [oauthCalls EXCEPT ![k] = q] /\ UNCHANGED <<authReqs, authCodes, refreshes>> /\ OauthFrame
  BY DEF CheckRedeemed, CheckedRow
<1>3. /\ c.pc = "exchange" => c.row \in AuthCode /\ row \in CodeRow /\ row.req = c.req
      /\ c.pc = "refresh" => c.row \in RefreshToken /\ row \in TokenRow /\ row.req = c.req
      /\ c.req \in AuthReq
  BY <1>1 DEF OauthInv, CallsHaveRows
<1>4. row.late \in BOOLEAN
  BY <1>1, <1>3 DEF CodeRow, TokenRow
<1>5. c \in CallRow /\ Waiting \in CallRow /\ Waiting.pc = "idle"
  BY CallShape
<1>6. \/ q = Waiting
      \/ /\ row.state \in {"fresh", "live"}
         /\ q \in CallRow /\ q.pc = next /\ q.req = c.req /\ q.row = c.row /\ q.late = row.late
  <2>1. ASSUME row.state \in {"fresh", "live"}
        PROVE  q \in CallRow /\ q.pc = next /\ q.req = c.req /\ q.row = c.row /\ q.late = row.late
    <3> DEFINE n == [c EXCEPT !.pc = next, !.late = row.late]
    <3>1. q = n
      BY <2>1
    <3>2. next \in {"consume", "rotate"}
      OBVIOUS
    <3> HIDE DEF q, next, row, c
    <3> QED
      BY <1>4, <1>5, <3>1, <3>2 DEF CallRow
  <2> QED
    BY <2>1
<1>7. /\ q \in CallRow
      /\ q.pc # "idle" => q.req \in AuthReq
      /\ q.pc \in {"exchange", "consume"} =>
           q.row \in AuthCode /\ authCodes[q.row] \in CodeRow /\ authCodes[q.row].req = q.req
      /\ q.pc \in {"refresh", "rotate"} =>
           q.row \in RefreshToken /\ refreshes[q.row] \in TokenRow /\ refreshes[q.row].req = q.req
  BY <1>1, <1>3, <1>5, <1>6
<1>8. \A r \in AuthReq : cut[r] # NoAuth => CallLeft(r, q)
  <2> SUFFICES ASSUME NEW r \in AuthReq, cut[r] # NoAuth, q # Waiting, c.req = r
               PROVE  row.late
    BY <1>5, <1>6 DEF CallLeft, PastLookup
  <2>1. row.state \in {"fresh", "live"} /\ row # NoAuth /\ row.req = r
    BY <1>1, <1>3, <1>6
  <2>2. CASE c.pc = "exchange"
    BY <1>3, <2>1, <2>2 DEF OauthInv, OnlyLateLeft, CodeLeft, CodeRow
  <2>3. CASE c.pc = "refresh"
    BY <1>3, <2>1, <2>3 DEF OauthInv, OnlyLateLeft, TokenLeft, TokenRow
  <2> QED
    BY <1>1, <2>2, <2>3
<1> HIDE DEF q
<1>9. CallsHaveRows' /\ oauthCalls' \in [OauthCall -> CallRow]
  BY <1>2, <1>7, CallsKeep
<1>10. OauthTypeOK'
  BY <1>2, <1>9 DEF OauthInv, OauthTypeOK, CallRow, OauthFrame
<1>11. \A j \in OauthCall : oauthCalls'[j] = IF j = k THEN q ELSE oauthCalls[j]
  BY <1>2 DEF OauthInv, OauthTypeOK
<1>12. OnlyLateLeft'
  BY <1>2, <1>8, <1>11 DEF OauthInv, OnlyLateLeft, TokenLeft, CodeLeft, CallLeft, OauthFrame
<1>13. MintedByNow'
  BY <1>2 DEF OauthInv, MintedByNow, OauthFrame
<1> QED
  BY <1>9, <1>10, <1>12, <1>13 DEF OauthInv

\* A code is inserted, late if its call is; no call redeems the row it takes.
LEMMA InsertCodeKeeps ==
  ASSUME NEW k \in OauthCall, OauthInv, InsertCode(k) PROVE OauthInv'
<1> USE OauthConstants
<1> DEFINE old == oauthCalls[k]
           q   == [old EXCEPT !.pc = "burn"]
           new == [req |-> old.req, state |-> "fresh", late |-> old.late]
<1>1. PICK c \in FreeCodes : authCodes' = [authCodes EXCEPT ![c] = new]
  BY DEF InsertCode
<1>2. /\ old.pc = "code" /\ old.req \in AuthReq /\ old.late \in BOOLEAN
      /\ c \in AuthCode /\ authCodes[c] = NoAuth
  BY CallShape DEF InsertCode, OauthInv, CallsHaveRows, FreeCodes, CallRow
<1>3. oauthCalls' = [oauthCalls EXCEPT ![k] = q] /\ UNCHANGED <<authReqs, refreshes>> /\ OauthFrame
  BY DEF InsertCode, OauthGoto
<1>4. q \in CallRow /\ q.pc = "burn" /\ q.req = old.req
  BY CallShape
<1>5. new \in CodeRow /\ new.req = old.req /\ new.late = old.late
  BY <1>2 DEF CodeRow
<1>6. \A r \in AuthReq : cut[r] # NoAuth => CodeLeft(r, new)
  BY <1>2, <1>5 DEF OauthInv, OnlyLateLeft, CallLeft, CodeLeft, PastLookup
<1> HIDE DEF q, new
<1>7. \A d \in AuthCode : authCodes'[d] = IF d = c THEN new ELSE authCodes[d]
  BY <1>1, <1>2 DEF OauthInv, OauthTypeOK
<1>8. \A j \in OauthCall : oauthCalls'[j] = IF j = k THEN q ELSE oauthCalls[j]
  BY <1>3 DEF OauthInv, OauthTypeOK
<1>9. OauthTypeOK'
  <2>1. oauthCalls' \in [OauthCall -> CallRow]
    BY <1>3, <1>4 DEF OauthInv, OauthTypeOK, CallRow
  <2> QED
    BY <1>1, <1>3, <1>5, <2>1 DEF OauthInv, OauthTypeOK, OauthFrame, CallRow
<1>10. CallsHaveRows'
  BY <1>2, <1>3, <1>4, <1>7, <1>8 DEF OauthInv, CallsHaveRows
<1>11. OnlyLateLeft'
  BY <1>3, <1>4, <1>6, <1>7, <1>8 DEF OauthInv, OnlyLateLeft, TokenLeft, CodeLeft, CallLeft, OauthFrame, PastLookup
<1>12. MintedByNow'
  BY <1>3 DEF OauthInv, MintedByNow, OauthFrame
<1> QED
  BY <1>9, <1>10, <1>11, <1>12 DEF OauthInv

\* A request is burned, or a call stops where it is.
LEMMA EndKeeps ==
  ASSUME NEW k \in OauthCall, OauthInv, Burn(k) \/ OauthFails(k) PROVE OauthInv'
<1> USE OauthConstants
<1>1. oauthCalls[k].pc # "idle" /\ oauthCalls[k].req \in AuthReq
  BY DEF Burn, OauthFails, OauthInv, CallsHaveRows
<1>2. oauthCalls' = [oauthCalls EXCEPT ![k] = Waiting] /\ UNCHANGED <<authCodes, refreshes, tick, oauthServed, cut>>
  BY DEF Burn, OauthFails, OauthGoto, OauthFrame
<1>3. /\ authReqs' \in [AuthReq -> {"pending", "burned", "lapsed"}]
      /\ oauthFailed' \in 0..MaxOauthFails /\ troubled' \subseteq AuthReq
  BY <1>1 DEF Burn, OauthFails, OauthFrame, OauthInv, OauthTypeOK
<1>4. Waiting \in CallRow /\ Waiting.pc = "idle"
  BY CallShape
<1>5. CallsHaveRows' /\ oauthCalls' \in [OauthCall -> CallRow]
  BY <1>2, <1>4, CallsKeep
<1>6. OauthTypeOK'
  BY <1>2, <1>3, <1>5 DEF OauthInv, OauthTypeOK, CallRow
<1>7. \A j \in OauthCall : oauthCalls'[j] = IF j = k THEN Waiting ELSE oauthCalls[j]
  BY <1>2 DEF OauthInv, OauthTypeOK
<1>8. OnlyLateLeft' /\ MintedByNow'
  BY <1>2, <1>4, <1>7 DEF OauthInv, OnlyLateLeft, MintedByNow, TokenLeft, CodeLeft, CallLeft, PastLookup
<1> QED
  BY <1>5, <1>6, <1>8 DEF OauthInv

\* A code or a token is marked as redeemed.
LEMMA RedeemKeeps ==
  ASSUME NEW k \in OauthCall, OauthInv, Consume(k) \/ Rotate(k) PROVE OauthInv'
<1> USE OauthConstants
<1> DEFINE old == oauthCalls[k]
           q   == [old EXCEPT !.pc = "mint"]
<1>1. old.pc \in {"consume", "rotate"} /\ old.req \in AuthReq
  BY DEF Consume, Rotate, OauthInv, CallsHaveRows
<1>2. oauthCalls' = [oauthCalls EXCEPT ![k] = q] /\ UNCHANGED authReqs /\ OauthFrame
  BY DEF Consume, Rotate, OauthGoto
<1>3. q \in CallRow /\ q.pc = "mint" /\ q.req = old.req /\ q.late = old.late
  BY CallShape
<1>4. \A j \in OauthCall : oauthCalls'[j] = IF j = k THEN q ELSE oauthCalls[j]
  BY <1>2 DEF OauthInv, OauthTypeOK
<1>5. /\ authCodes' \in [AuthCode -> CodeRow \cup {NoAuth}]
      /\ \A c \in AuthCode : \/ authCodes'[c] = authCodes[c]
                             \/ /\ authCodes[c] \in CodeRow /\ authCodes'[c] \in CodeRow
                                /\ authCodes'[c].req = authCodes[c].req /\ authCodes'[c].state = "consumed"
  <2>1. CASE Consume(k)
    <3>1. old.row \in AuthCode /\ authCodes[old.row] \in CodeRow
      BY <2>1 DEF Consume, OauthInv, CallsHaveRows
    <3>2. authCodes' = [authCodes EXCEPT ![old.row] = [authCodes[old.row] EXCEPT !.state = "consumed"]]
      BY <2>1, <3>1 DEF Consume, OauthInv, OauthTypeOK
    <3> DEFINE n == [authCodes[old.row] EXCEPT !.state = "consumed"]
    <3>3. n \in CodeRow /\ n.req = authCodes[old.row].req /\ n.state = "consumed"
      BY <3>1 DEF CodeRow
    <3> HIDE DEF n, old
    <3> QED
      BY <3>1, <3>2, <3>3 DEF OauthInv, OauthTypeOK, n
  <2>2. CASE Rotate(k)
    BY <2>2 DEF Rotate, OauthInv, OauthTypeOK
  <2> QED
    BY <2>1, <2>2
<1>6. /\ refreshes' \in [RefreshToken -> TokenRow \cup {NoAuth}]
      /\ \A t \in RefreshToken : \/ refreshes'[t] = refreshes[t]
                                 \/ /\ refreshes[t] \in TokenRow /\ refreshes'[t] \in TokenRow
                                    /\ refreshes'[t].req = refreshes[t].req /\ refreshes'[t].state = "revoked"
                                    /\ refreshes'[t].late = refreshes[t].late
                                    /\ refreshes'[t].minted = refreshes[t].minted
  <2>1. CASE Rotate(k)
    <3>1. old.row \in RefreshToken /\ refreshes[old.row] \in TokenRow
      BY <2>1 DEF Rotate, OauthInv, CallsHaveRows
    <3>2. refreshes' = [refreshes EXCEPT ![old.row] = [refreshes[old.row] EXCEPT !.state = "revoked"]]
      BY <2>1, <3>1 DEF Rotate, OauthInv, OauthTypeOK
    <3> DEFINE n == [refreshes[old.row] EXCEPT !.state = "revoked"]
    <3>3. /\ n \in TokenRow /\ n.req = refreshes[old.row].req /\ n.state = "revoked"
          /\ n.late = refreshes[old.row].late /\ n.minted = refreshes[old.row].minted
      BY <3>1 DEF TokenRow
    <3> HIDE DEF n, old
    <3> QED
      BY <3>1, <3>2, <3>3 DEF OauthInv, OauthTypeOK, n
  <2>2. CASE Consume(k)
    BY <2>2 DEF Consume, OauthInv, OauthTypeOK
  <2> QED
    BY <2>1, <2>2
<1> HIDE DEF q
<1>7. OauthTypeOK'
  <2>1. oauthCalls' \in [OauthCall -> CallRow]
    BY <1>2, <1>3 DEF OauthInv, OauthTypeOK, CallRow
  <2> QED
    BY <1>2, <1>5, <1>6, <2>1 DEF OauthInv, OauthTypeOK, OauthFrame, CallRow
<1>8. CallsHaveRows'
  BY <1>1, <1>3, <1>4, <1>5, <1>6 DEF OauthInv, CallsHaveRows
<1>9. OnlyLateLeft'
  <2>1. \A r \in AuthReq : cut[r] # NoAuth =>
          /\ \A t \in RefreshToken : TokenLeft(r, refreshes'[t])
          /\ \A c \in AuthCode : CodeLeft(r, authCodes'[c])
    BY <1>5, <1>6 DEF OauthInv, OnlyLateLeft, TokenLeft, CodeLeft
  <2>2. \A r \in AuthReq : cut[r] # NoAuth => \A j \in OauthCall : CallLeft(r, oauthCalls'[j])
    BY <1>1, <1>3, <1>4 DEF OauthInv, OnlyLateLeft, CallLeft, PastLookup
  <2> QED
    BY <1>2, <2>1, <2>2 DEF OnlyLateLeft, OauthFrame, TokenLeft, CodeLeft, CallLeft
<1>10. MintedByNow'
  BY <1>2, <1>6 DEF OauthInv, MintedByNow, OauthFrame
<1> QED
  BY <1>7, <1>8, <1>9, <1>10 DEF OauthInv

\* A token is minted, late if its call is.
LEMMA MintKeeps == ASSUME NEW k \in OauthCall, OauthInv, Mint(k) PROVE OauthInv'
<1> USE OauthConstants
<1> DEFINE old == oauthCalls[k]
           new == [req |-> old.req, state |-> "live", minted |-> tick, late |-> old.late]
<1>1. PICK t \in FreeTokens : refreshes' = [refreshes EXCEPT ![t] = new]
  BY DEF Mint
<1>2. /\ old.pc = "mint" /\ old.req \in AuthReq /\ old.late \in BOOLEAN /\ tick \in 0..LastTick
      /\ t \in RefreshToken /\ refreshes[t] = NoAuth
  BY CallShape DEF Mint, OauthInv, OauthTypeOK, CallsHaveRows, FreeTokens, CallRow
<1>3. oauthCalls' = [oauthCalls EXCEPT ![k] = Waiting] /\ UNCHANGED <<authReqs, authCodes>> /\ OauthFrame
  BY DEF Mint, OauthGoto
<1>4. Waiting \in CallRow /\ Waiting.pc = "idle"
  BY CallShape
<1>5. new \in TokenRow /\ new.req = old.req /\ new.late = old.late /\ new.minted = tick
  BY <1>2 DEF TokenRow
<1>6. \A r \in AuthReq : cut[r] # NoAuth => TokenLeft(r, new)
  BY <1>2, <1>5 DEF OauthInv, OnlyLateLeft, CallLeft, TokenLeft, PastLookup
<1> HIDE DEF new
<1>7. \A u \in RefreshToken : refreshes'[u] = IF u = t THEN new ELSE refreshes[u]
  BY <1>1, <1>2 DEF OauthInv, OauthTypeOK
<1>8. \A j \in OauthCall : oauthCalls'[j] = IF j = k THEN Waiting ELSE oauthCalls[j]
  BY <1>3 DEF OauthInv, OauthTypeOK
<1>9. OauthTypeOK'
  <2>1. oauthCalls' \in [OauthCall -> CallRow]
    BY <1>3, <1>4 DEF OauthInv, OauthTypeOK, CallRow
  <2> QED
    BY <1>1, <1>3, <1>5, <2>1 DEF OauthInv, OauthTypeOK, OauthFrame, CallRow
<1>10. CallsHaveRows'
  BY <1>2, <1>3, <1>4, <1>7, <1>8 DEF OauthInv, CallsHaveRows
<1>11. OnlyLateLeft'
  BY <1>3, <1>4, <1>6, <1>7, <1>8 DEF OauthInv, OnlyLateLeft, TokenLeft, CodeLeft, CallLeft, OauthFrame, PastLookup
<1>12. MintedByNow'
  BY <1>2, <1>3, <1>5, <1>7 DEF OauthInv, MintedByNow, OauthFrame
<1> QED
  BY <1>9, <1>10, <1>11, <1>12 DEF OauthInv

\* A grant is revoked: what is left of it from now on is marked late.
LEMMA RevokeKeeps == ASSUME NEW a \in Agent, OauthInv, RevokeGrant(a) PROVE OauthInv'
<1> USE OauthConstants
<1>1. \A t \in RefreshToken :
        /\ refreshes[t] = NoAuth => refreshes'[t] = NoAuth
        /\ refreshes[t] # NoAuth =>
             /\ refreshes[t] \in TokenRow /\ refreshes'[t] \in TokenRow
             /\ refreshes'[t].req = refreshes[t].req /\ refreshes'[t].late = refreshes[t].late
             /\ refreshes'[t].minted = refreshes[t].minted
             /\ refreshes'[t].state = "live" => refreshes[t].state = "live" /\ AgentOf[refreshes[t].req] # a
  BY DEF RevokeGrant, OauthInv, OauthTypeOK, TokenRow
<1>2. \A c \in AuthCode :
        /\ authCodes[c] = NoAuth => authCodes'[c] = NoAuth
        /\ authCodes[c] # NoAuth =>
             /\ authCodes[c] \in CodeRow /\ authCodes'[c] \in CodeRow
             /\ authCodes'[c].req = authCodes[c].req /\ authCodes'[c].state = authCodes[c].state
             /\ authCodes[c].late => authCodes'[c].late
             /\ authCodes[c].state = "fresh" /\ AgentOf[authCodes[c].req] = a => authCodes'[c].late
  <2> TAKE c \in AuthCode
  <2>1. authCodes[c] \in CodeRow \cup {NoAuth}
    BY DEF OauthInv, OauthTypeOK
  <2>2. authCodes'[c] = IF authCodes[c] # NoAuth /\ AgentOf[authCodes[c].req] = a /\ authCodes[c].state = "fresh"
                        THEN [authCodes[c] EXCEPT !.late = TRUE] ELSE authCodes[c]
    BY DEF RevokeGrant
  <2> QED
    BY <2>1, <2>2 DEF CodeRow
<1>3. \A k \in OauthCall :
        /\ oauthCalls'[k] \in CallRow
        /\ oauthCalls'[k].pc = oauthCalls[k].pc /\ oauthCalls'[k].req = oauthCalls[k].req
        /\ oauthCalls'[k].row = oauthCalls[k].row
        /\ oauthCalls[k].late => oauthCalls'[k].late
        /\ oauthCalls[k].pc \in PastLookup /\ AgentOf[oauthCalls[k].req] = a => oauthCalls'[k].late
  BY ZenonT(60) DEF RevokeGrant, OauthInv, OauthTypeOK, CallRow, PastLookup
<1>4. /\ \A r \in AuthReq : cut'[r] = IF AgentOf[r] = a THEN tick ELSE cut[r]
      /\ cut' \in [AuthReq -> 0..LastTick \cup {NoAuth}]
      /\ tick' = tick /\ tick \in 0..LastTick
  BY DEF RevokeGrant, OauthInv, OauthTypeOK
<1>5. OauthTypeOK'
  <2>1. refreshes' \in [RefreshToken -> TokenRow \cup {NoAuth}]
    BY <1>1 DEF RevokeGrant
  <2>2. authCodes' \in [AuthCode -> CodeRow \cup {NoAuth}]
    BY <1>2 DEF RevokeGrant
  <2>3. oauthCalls' \in [OauthCall -> CallRow]
    BY <1>3 DEF RevokeGrant
  <2>4. oauthServed' \in 0..MaxOauthCalls /\ UNCHANGED <<authReqs, tick, oauthFailed, troubled>>
    BY DEF RevokeGrant, OauthInv, OauthTypeOK
  <2> QED
    BY <1>4, <2>1, <2>2, <2>3, <2>4 DEF OauthInv, OauthTypeOK, CallRow
<1>6. CallsHaveRows'
  BY <1>1, <1>2, <1>3 DEF OauthInv, CallsHaveRows
<1>7. MintedByNow'
  BY <1>1, <1>4 DEF OauthInv, MintedByNow
<1>8. OnlyLateLeft'
  <2> SUFFICES ASSUME NEW r \in AuthReq, cut'[r] # NoAuth
               PROVE  /\ \A t \in RefreshToken : TokenLeft(r, refreshes[t])'
                      /\ \A c \in AuthCode : CodeLeft(r, authCodes'[c])
                      /\ \A k \in OauthCall : CallLeft(r, oauthCalls'[k])
    BY DEF OnlyLateLeft, CodeLeft, CallLeft
  <2>1. CASE AgentOf[r] = a
    <3>1. \A t \in RefreshToken : TokenLeft(r, refreshes[t])'
      BY <1>1, <1>4, <2>1 DEF TokenLeft, OauthInv, MintedByNow
    <3>2. \A c \in AuthCode : CodeLeft(r, authCodes'[c])
      BY <1>2, <2>1 DEF CodeLeft
    <3>3. \A k \in OauthCall : CallLeft(r, oauthCalls'[k])
      BY <1>3, <2>1 DEF CallLeft
    <3> QED
      BY <3>1, <3>2, <3>3
  <2>2. CASE AgentOf[r] # a
    <3>1. cut'[r] = cut[r] /\ cut[r] # NoAuth
      BY <1>4, <2>2
    <3>2. \A t \in RefreshToken : TokenLeft(r, refreshes[t])'
      BY <1>1, <3>1 DEF TokenLeft, OauthInv, OnlyLateLeft
    <3>3. \A c \in AuthCode : CodeLeft(r, authCodes'[c])
      BY <1>2, <3>1 DEF CodeLeft, OauthInv, OnlyLateLeft
    <3>4. \A k \in OauthCall : CallLeft(r, oauthCalls'[k])
      BY <1>3, <3>1 DEF CallLeft, OauthInv, OnlyLateLeft
    <3> QED
      BY <3>2, <3>3, <3>4
  <2> QED
    BY <2>1, <2>2
<1> QED
  BY <1>5, <1>6, <1>7, <1>8 DEF OauthInv

\* A row comes to its expires_at.
LEMMA LapseKeeps == ASSUME OauthInv, Lapse PROVE OauthInv'
<1> USE OauthConstants
<1>1. oauthCalls' = oauthCalls /\ OauthFrame
  BY DEF Lapse
<1>2. authReqs' \in [AuthReq -> {"pending", "burned", "lapsed"}]
  BY DEF Lapse, OauthInv, OauthTypeOK
<1>3. \A c \in AuthCode :
        /\ authCodes'[c] \in CodeRow \cup {NoAuth}
        /\ authCodes'[c] = authCodes[c] \/
             /\ authCodes[c] \in CodeRow /\ authCodes'[c] \in CodeRow
             /\ authCodes'[c].req = authCodes[c].req /\ authCodes'[c].state = "lapsed"
  BY DEF Lapse, OauthInv, OauthTypeOK, CodeRow
<1>4. \A t \in RefreshToken :
        /\ refreshes'[t] \in TokenRow \cup {NoAuth}
        /\ refreshes'[t] = refreshes[t] \/
             /\ refreshes[t] \in TokenRow /\ refreshes'[t] \in TokenRow
             /\ refreshes'[t].req = refreshes[t].req /\ refreshes'[t].state = "lapsed"
             /\ refreshes'[t].late = refreshes[t].late /\ refreshes'[t].minted = refreshes[t].minted
  BY DEF Lapse, OauthInv, OauthTypeOK, TokenRow
<1>5. authCodes' \in [AuthCode -> CodeRow \cup {NoAuth}] /\ refreshes' \in [RefreshToken -> TokenRow \cup {NoAuth}]
  BY <1>3, <1>4 DEF Lapse, OauthInv, OauthTypeOK
<1>6. OauthTypeOK'
  BY <1>1, <1>2, <1>5 DEF OauthInv, OauthTypeOK, OauthFrame
<1>7. CallsHaveRows'
  BY <1>1, <1>3, <1>4 DEF OauthInv, CallsHaveRows
<1>8. OnlyLateLeft'
  BY <1>1, <1>3, <1>4 DEF OauthInv, OnlyLateLeft, TokenLeft, CodeLeft, CallLeft, OauthFrame
<1>9. MintedByNow'
  BY <1>1, <1>4 DEF OauthInv, MintedByNow, OauthFrame
<1> QED
  BY <1>6, <1>7, <1>8, <1>9 DEF OauthInv

LEMMA TickKeeps == ASSUME OauthInv, Tick PROVE OauthInv'
<1> USE OauthConstants DEF OauthInv, Tick
<1>1. OauthTypeOK'
  BY DEF OauthTypeOK
<1>2. MintedByNow'
  BY DEF MintedByNow, OauthTypeOK, TokenRow
<1>3. CallsHaveRows' /\ OnlyLateLeft'
  BY DEF CallsHaveRows, OnlyLateLeft, TokenLeft, CodeLeft, CallLeft
<1> QED
  BY <1>1, <1>2, <1>3

-----------------------------------------------------------------------------

LEMMA OauthInvKept == OauthInv /\ [OauthNext]_oauthVars => OauthInv'
<1> SUFFICES ASSUME OauthInv, [OauthNext]_oauthVars PROVE OauthInv'
  OBVIOUS
<1>1. CASE UNCHANGED oauthVars
  BY <1>1 DEF oauthVars, OauthInv, OauthTypeOK, CallsHaveRows, OnlyLateLeft, MintedByNow,
              TokenLeft, CodeLeft, CallLeft
<1>2. CASE OauthNext
  BY <1>2, StartKeeps, CheckConsentKeeps, CheckRedeemedKeeps, InsertCodeKeeps, EndKeeps, RedeemKeeps,
     MintKeeps, RevokeKeeps, LapseKeeps, TickKeeps DEF OauthNext
<1> QED
  BY <1>1, <1>2

\* The invariant holds in every reachable state.
THEOREM OauthInvariant == OauthSpec => []OauthInv
BY OauthStarts, OauthInvKept, PTL DEF OauthSpec

\* RevokedLosesAccess for any number of agents and calls: a token minted before its
\* grant was revoked is not live, so its access token is what is left.
THEOREM RevokedIsOver == OauthSpec => []RevokedLosesAccess
<1>1. OauthInv => RevokedLosesAccess
  <2> SUFFICES ASSUME OauthInv, NEW r \in AuthReq, cut[r] # NoAuth, NEW t \in TokensOf(r),
                      GivesAccess(t), ~refreshes[t].late
               PROVE  tick =< cut[r] + AccessTtl
    BY DEF RevokedLosesAccess
  <2>1. t \in RefreshToken /\ refreshes[t] # NoAuth /\ refreshes[t].req = r
    BY DEF TokensOf
  <2>2. refreshes[t].state # "live" /\ refreshes[t].minted =< cut[r]
    BY <2>1 DEF OauthInv, OnlyLateLeft, TokenLeft
  <2>3. refreshes[t].minted \in Int /\ cut[r] \in Int /\ tick \in Int
    BY <2>1 DEF OauthInv, OauthTypeOK, TokenRow
  <2> QED
    BY <2>2, <2>3, OauthConstants DEF GivesAccess
<1> QED
  BY OauthInvariant, <1>1, PTL

-----------------------------------------------------------------------------
(***************************************************************************)
(* One consent leaves one token.  Of a request whose calls came one after  *)
(* the other (SerialInv): one call at a time, one code, one live token,    *)
(* and a code or a token is redeemed before the next one is minted.        *)
(***************************************************************************)

CodeOf(c, r) == authCodes[c] # NoAuth /\ authCodes[c].req = r

TokenOf(t, r) == refreshes[t] # NoAuth /\ refreshes[t].req = r

CallOf(k, r) == oauthCalls[k].pc # "idle" /\ oauthCalls[k].req = r

At(k, r, pc) == CallOf(k, r) /\ oauthCalls[k].pc = pc

Fresh(c, r) == CodeOf(c, r) /\ authCodes[c].state = "fresh"

Live(t, r) == TokenOf(t, r) /\ refreshes[t].state = "live"

\* A request whose calls came one after the other: one call, one code, one live
\* token, and a code or a token is redeemed before the next one is minted.
OneCall(r) == \A j, k \in OauthCall : CallOf(j, r) /\ CallOf(k, r) => j = k

OneCode(r) ==
  /\ \A c, d \in AuthCode : CodeOf(c, r) /\ CodeOf(d, r) => c = d
  /\ (\E c \in AuthCode : CodeOf(c, r)) => authReqs[r] # "pending" \/ \E k \in OauthCall : At(k, r, "burn")
  /\ \A k \in OauthCall : At(k, r, "code") => \A c \in AuthCode : ~CodeOf(c, r)

CodeThenToken(r) ==
  /\ \A t \in RefreshToken : TokenOf(t, r) =>
       /\ \E c \in AuthCode : CodeOf(c, r)
       /\ \A c \in AuthCode : ~Fresh(c, r)
       /\ \A k \in OauthCall : ~At(k, r, "consume")
  /\ \A k \in OauthCall : At(k, r, "mint") => \E c \in AuthCode : CodeOf(c, r)

OneLive(r) ==
  /\ \A t, u \in RefreshToken : Live(t, r) /\ Live(u, r) => t = u
  /\ \A k \in OauthCall : At(k, r, "rotate") => \A t \in RefreshToken : Live(t, r) => t = oauthCalls[k].row
  /\ \A k \in OauthCall : At(k, r, "mint") =>
       /\ \A t \in RefreshToken : ~Live(t, r)
       /\ \A c \in AuthCode : ~Fresh(c, r)

\* The agent has what it was given until it is taken.
StillGood(r) ==
  (/\ cut[r] = NoAuth /\ \A k \in OauthCall : ~At(k, r, "mint")
   /\ \E c \in AuthCode : CodeOf(c, r) /\ authCodes[c].state = "consumed"
   /\ \A t \in RefreshToken : TokenOf(t, r) => refreshes[t].state # "lapsed")
    => \E t \in RefreshToken : Live(t, r)

Serial(r) == OneCall(r) /\ OneCode(r) /\ CodeThenToken(r) /\ OneLive(r) /\ StillGood(r)

SerialInv == OauthInv /\ \A r \in AuthReq \ troubled : Serial(r)

-----------------------------------------------------------------------------

LEMMA SerialStarts == OauthInit => \A r \in AuthReq : Serial(r)
<1> SUFFICES ASSUME OauthInit, NEW r \in AuthReq PROVE Serial(r)
  OBVIOUS
<1>1. /\ \A c \in AuthCode : ~CodeOf(c, r)
      /\ \A t \in RefreshToken : ~TokenOf(t, r)
      /\ \A k \in OauthCall : ~CallOf(k, r)
  BY DEF OauthInit, CodeOf, TokenOf, CallOf, Waiting
<1> QED
  BY <1>1 DEF Serial, OneCall, OneCode, CodeThenToken, OneLive, StillGood, At, Fresh, Live

\* Nothing of r moves but what lapses or is revoked.
LEMMA LeftAlone ==
  ASSUME NEW r \in AuthReq, Serial(r),
         \A c \in AuthCode :
           /\ CodeOf(c, r)' <=> CodeOf(c, r)
           /\ CodeOf(c, r) => \/ authCodes'[c].state = authCodes[c].state
                             \/ (authCodes[c].state = "fresh" /\ authCodes'[c].state = "lapsed"),
         \A t \in RefreshToken :
           /\ TokenOf(t, r)' <=> TokenOf(t, r)
           /\ TokenOf(t, r) => \/ refreshes'[t].state = refreshes[t].state
                              \/ refreshes'[t].state = "lapsed"
                              \/ (refreshes'[t].state = "revoked" /\ cut'[r] # NoAuth),
         \A k \in OauthCall :
           /\ CallOf(k, r)' <=> CallOf(k, r)
           /\ CallOf(k, r) => oauthCalls'[k].pc = oauthCalls[k].pc /\ oauthCalls'[k].row = oauthCalls[k].row,
         authReqs'[r] = authReqs[r] \/ authReqs'[r] # "pending",
         cut'[r] = NoAuth => cut[r] = NoAuth
  PROVE  Serial(r)'
<1>1. /\ \A t \in RefreshToken : Live(t, r)' => Live(t, r)
      /\ \A c \in AuthCode : Fresh(c, r)' => Fresh(c, r)
      /\ \A k \in OauthCall : \A pc : At(k, r, pc)' <=> At(k, r, pc)
      /\ \A k \in OauthCall : CallOf(k, r) => oauthCalls'[k].row = oauthCalls[k].row
  BY DEF Live, Fresh, At
<1>2. /\ \A c \in AuthCode : CodeOf(c, r)' <=> CodeOf(c, r)
      /\ \A t \in RefreshToken : TokenOf(t, r)' <=> TokenOf(t, r)
      /\ \A k \in OauthCall : CallOf(k, r)' <=> CallOf(k, r)
      /\ authReqs'[r] = authReqs[r] \/ authReqs'[r] # "pending"
  OBVIOUS
<1>3. OneCall(r)'
  BY ONLY <1>2, Serial(r) DEF Serial, OneCall
<1>4. OneCode(r)'
  BY ONLY <1>1, <1>2, Serial(r) DEF Serial, OneCode
<1>5. CodeThenToken(r)'
  BY ONLY <1>1, <1>2, Serial(r) DEF Serial, CodeThenToken
<1>6. OneLive(r)'
  <2>1. \A k \in OauthCall : At(k, r, "rotate") => oauthCalls'[k].row = oauthCalls[k].row
    BY <1>1 DEF At
  <2> QED
    BY ONLY <1>1, <2>1, Serial(r) DEF Serial, OneLive
<1>7. StillGood(r)'
  <2> SUFFICES ASSUME cut'[r] = NoAuth, \A k \in OauthCall : ~At(k, r, "mint")',
                      \E c \in AuthCode : CodeOf(c, r)' /\ authCodes'[c].state = "consumed",
                      \A t \in RefreshToken : TokenOf(t, r)' => refreshes'[t].state # "lapsed"
               PROVE  \E t \in RefreshToken : Live(t, r)'
    BY DEF StillGood
  <2>1. \A t \in RefreshToken : TokenOf(t, r) => refreshes'[t].state = refreshes[t].state
    BY <1>2
  <2>2. \E c \in AuthCode : CodeOf(c, r) /\ authCodes[c].state = "consumed"
    BY <1>2
  <2>3. \A k \in OauthCall : ~At(k, r, "mint")
    BY <1>1
  <2>4. PICK t \in RefreshToken : Live(t, r)
    <3>1. \A t \in RefreshToken : TokenOf(t, r) => refreshes[t].state # "lapsed"
      BY <1>2, <2>1
    <3>2. StillGood(r) /\ cut[r] = NoAuth
      BY DEF Serial
    <3> QED
      BY ONLY <2>2, <2>3, <3>1, <3>2 DEF StillGood
  <2> QED
    BY <1>2, <2>1, <2>4 DEF Live
<1> QED
  BY <1>3, <1>4, <1>5, <1>6, <1>7 DEF Serial

\* A call of one request does nothing to another request.
LEMMA OtherRequests ==
  ASSUME NEW k \in OauthCall, NEW q, NEW own, NEW r \in AuthReq, r # own, Serial(r),
         \A j \in OauthCall : oauthCalls'[j] = IF j = k THEN q ELSE oauthCalls[j],
         q.pc # "idle" => q.req = own,
         oauthCalls[k].pc # "idle" => oauthCalls[k].req = own,
         \A c \in AuthCode : authCodes'[c] = authCodes[c] \/ (~CodeOf(c, r) /\ ~CodeOf(c, r)'),
         \A t \in RefreshToken : refreshes'[t] = refreshes[t] \/ (~TokenOf(t, r) /\ ~TokenOf(t, r)'),
         authReqs'[r] = authReqs[r], cut'[r] = cut[r]
  PROVE  Serial(r)'
<1>1. \A c \in AuthCode :
        /\ CodeOf(c, r)' <=> CodeOf(c, r)
        /\ CodeOf(c, r) => \/ authCodes'[c].state = authCodes[c].state
                          \/ (authCodes[c].state = "fresh" /\ authCodes'[c].state = "lapsed")
  BY DEF CodeOf
<1>2. \A t \in RefreshToken :
        /\ TokenOf(t, r)' <=> TokenOf(t, r)
        /\ TokenOf(t, r) => \/ refreshes'[t].state = refreshes[t].state
                           \/ refreshes'[t].state = "lapsed"
                           \/ (refreshes'[t].state = "revoked" /\ cut'[r] # NoAuth)
  BY DEF TokenOf
<1>3. \A j \in OauthCall :
        /\ CallOf(j, r)' <=> CallOf(j, r)
        /\ CallOf(j, r) => oauthCalls'[j].pc = oauthCalls[j].pc /\ oauthCalls'[j].row = oauthCalls[j].row
  BY DEF CallOf
<1>4. (authReqs'[r] = authReqs[r] \/ authReqs'[r] # "pending") /\ (cut'[r] = NoAuth => cut[r] = NoAuth)
  OBVIOUS
<1> QED
  BY ONLY r \in AuthReq, Serial(r), <1>1, <1>2, <1>3, <1>4, LeftAlone

\* After a call of a serial request took its step, it is still the only one.
LEMMA OnlyCall ==
  ASSUME NEW k \in OauthCall, NEW q, NEW r \in AuthReq, Serial(r) , CallOf(k, r) \/ ~busy(r),
         \A j \in OauthCall : oauthCalls'[j] = IF j = k THEN q ELSE oauthCalls[j]
  PROVE  \A j \in OauthCall : /\ CallOf(j, r)' => j = k
                             /\ \A pc : At(j, r, pc)' => j = k /\ q.pc = pc
BY DEF Serial, OneCall, CallOf, At, busy

\* The call of a serial request arrives, is refused, or has burned its request.
LEMMA Rests ==
  ASSUME NEW k \in OauthCall, NEW q, NEW r \in AuthReq, Serial(r), CallOf(k, r) \/ ~busy(r),
         \A j \in OauthCall : oauthCalls'[j] = IF j = k THEN q ELSE oauthCalls[j],
         q.pc \notin {"code", "burn", "consume", "rotate", "mint"},
         authCodes' = authCodes, refreshes' = refreshes, cut'[r] = cut[r],
         \/ authReqs'[r] # "pending"
         \/ (authReqs'[r] = authReqs[r] /\ ~At(k, r, "burn")),
         ~At(k, r, "mint")
  PROVE  Serial(r)'
<1>1. /\ \A c \in AuthCode : (CodeOf(c, r)' <=> CodeOf(c, r)) /\ (Fresh(c, r)' <=> Fresh(c, r))
      /\ \A t \in RefreshToken : (TokenOf(t, r)' <=> TokenOf(t, r)) /\ (Live(t, r)' <=> Live(t, r))
  BY DEF CodeOf, Fresh, TokenOf, Live
<1>2. \A j \in OauthCall :
        /\ CallOf(j, r)' => j = k
        /\ \A pc \in {"code", "burn", "consume", "rotate", "mint"} : ~At(j, r, pc)'
  BY OnlyCall
<1>3. \A j \in OauthCall : ~At(j, r, "mint") /\ (At(j, r, "burn") => At(k, r, "burn"))
  BY DEF Serial, OneCall, At, CallOf, busy
<1>4. (\E c \in AuthCode : CodeOf(c, r)) => authReqs'[r] # "pending"
  BY <1>3 DEF Serial, OneCode
<1>5. OneCall(r)' /\ OneCode(r)' /\ CodeThenToken(r)' /\ OneLive(r)'
  BY ONLY Serial(r), <1>1, <1>2, <1>4 DEF Serial, OneCall, OneCode, CodeThenToken, OneLive
<1>6. StillGood(r)'
  <2>1. authCodes' = authCodes /\ refreshes' = refreshes /\ cut'[r] = cut[r]
    OBVIOUS
  <2> QED
    BY ONLY Serial(r), <1>1, <1>3, <2>1 DEF Serial, StillGood
<1> QED
  BY <1>5, <1>6 DEF Serial

LEMMA StartSerial ==
  ASSUME OauthInv, NEW k \in OauthCall, Consent(k) \/ Exchange(k) \/ Refresh(k),
         NEW r \in AuthReq, r \notin troubled', Serial(r)
  PROVE  Serial(r)'
<1>1. PICK pc, own, row : pc \in {"consent", "exchange", "refresh"} /\ OauthStart(k, pc, own, row)
  BY DEF Consent, Exchange, Refresh
<1> DEFINE q == [pc |-> pc, req |-> own, row |-> row, late |-> FALSE]
<1>2. /\ oauthCalls[k].pc = "idle" /\ oauthCalls' = [oauthCalls EXCEPT ![k] = q]
      /\ authReqs' = authReqs /\ authCodes' = authCodes /\ refreshes' = refreshes /\ cut' = cut
      /\ troubled' = IF busy(own) THEN troubled \cup {own} ELSE troubled
  BY <1>1 DEF OauthStart
<1>3. q.pc = pc /\ q.req = own
  OBVIOUS
<1> HIDE DEF q
<1>4. \A j \in OauthCall : oauthCalls'[j] = IF j = k THEN q ELSE oauthCalls[j]
  BY <1>2 DEF OauthInv, OauthTypeOK
<1>5. CASE r = own
  <2>1. ~busy(r) /\ ~At(k, r, "burn") /\ ~At(k, r, "mint") /\ r \in AuthReq
    BY <1>2, <1>5 DEF At
  <2>2. q.pc \notin {"code", "burn", "consume", "rotate", "mint"} /\ authReqs'[r] = authReqs[r] /\ cut'[r] = cut[r]
    BY <1>1, <1>2, <1>3
  <2> QED
    BY ONLY k \in OauthCall, Serial(r), <1>2, <1>4, <2>1, <2>2, Rests
<1>6. CASE r # own
  BY ONLY k \in OauthCall, r \in AuthReq, Serial(r), <1>2, <1>3, <1>4, <1>6, OtherRequests
<1> QED
  BY <1>5, <1>6

\* What a call under way and its step have in common.
LEMMA StepOfCall ==
  ASSUME OauthInv, NEW k \in OauthCall, oauthCalls[k].pc # "idle",
         NEW pc \in {"code", "burn", "mint"},
         OauthGoto(k, pc) \/ OauthGoto(k, "idle") \/ oauthCalls' = [oauthCalls EXCEPT ![k] = Waiting]
  PROVE  \E q \in CallRow :
           /\ \A j \in OauthCall : oauthCalls'[j] = IF j = k THEN q ELSE oauthCalls[j]
           /\ q.pc # "idle" => q.req = oauthCalls[k].req /\ q.row = oauthCalls[k].row
           /\ OauthGoto(k, pc) => q.pc = pc
           /\ ~OauthGoto(k, pc) \/ OauthGoto(k, "idle") => q.pc = "idle"
<1>1. oauthCalls \in [OauthCall -> CallRow]
  BY DEF OauthInv, OauthTypeOK, CallRow
<1>2. CASE OauthGoto(k, pc)
  <2> DEFINE q == [oauthCalls[k] EXCEPT !.pc = pc]
  <2>1. q \in CallRow /\ q.pc = pc /\ q.req = oauthCalls[k].req /\ q.row = oauthCalls[k].row
    <3>1. oauthCalls[k] \in CallRow
      BY CallShape
    <3> QED
      BY ONLY <3>1, pc \in {"code", "burn", "mint"} DEF CallRow
  <2>2. oauthCalls' = [oauthCalls EXCEPT ![k] = q]
    BY <1>2 DEF OauthGoto
  <2> HIDE DEF q
  <2>3. \A j \in OauthCall : oauthCalls'[j] = IF j = k THEN q ELSE oauthCalls[j]
    BY <1>1, <2>2
  <2>4. OauthGoto(k, "idle") => q.pc = "idle"
    <3>1. ASSUME OauthGoto(k, "idle") PROVE oauthCalls'[k] = Waiting
      BY <1>1, <3>1 DEF OauthGoto
    <3>2. Waiting.pc = "idle"
      BY CallShape
    <3> QED
      BY <2>3, <3>1, <3>2
  <2> QED
    BY <1>2, <2>1, <2>3, <2>4
<1>3. CASE ~OauthGoto(k, pc)
  <2>1. oauthCalls' = [oauthCalls EXCEPT ![k] = Waiting]
    BY <1>3 DEF OauthGoto
  <2>2. Waiting \in CallRow /\ Waiting.pc = "idle"
    BY CallShape
  <2>3. \A j \in OauthCall : oauthCalls'[j] = IF j = k THEN Waiting ELSE oauthCalls[j]
    BY <1>1, <2>1
  <2> QED
    BY <1>3, <2>2, <2>3
<1> QED
  BY <1>2, <1>3

LEMMA CheckConsentSerial ==
  ASSUME OauthInv, NEW k \in OauthCall, CheckConsent(k), NEW r \in AuthReq, Serial(r)
  PROVE  Serial(r)'
<1> DEFINE own == oauthCalls[k].req
<1>1. /\ oauthCalls[k].pc = "consent" /\ own \in AuthReq
      /\ authReqs' = authReqs /\ authCodes' = authCodes /\ refreshes' = refreshes
      /\ \/ authReqs[own] = "pending" /\ OauthGoto(k, "code") /\ cut' = [cut EXCEPT ![own] = NoAuth]
         \/ authReqs[own] # "pending" /\ OauthGoto(k, "idle") /\ cut' = cut
  BY DEF CheckConsent, OauthInv, CallsHaveRows
<1>2. PICK q \in CallRow :
        /\ \A j \in OauthCall : oauthCalls'[j] = IF j = k THEN q ELSE oauthCalls[j]
        /\ q.pc # "idle" => q.req = own
        /\ OauthGoto(k, "code") => q.pc = "code"
        /\ ~OauthGoto(k, "code") \/ OauthGoto(k, "idle") => q.pc = "idle"
  BY <1>1, StepOfCall
<1>3. CASE r # own
  <2>1. authReqs'[r] = authReqs[r] /\ cut'[r] = cut[r]
    BY <1>1, <1>3 DEF OauthInv, OauthTypeOK
  <2> QED
    BY ONLY k \in OauthCall, r \in AuthReq, Serial(r), <1>1, <1>2, <1>3, <2>1, OtherRequests
<1>4. CASE r = own
  <2>1. CallOf(k, r) /\ ~At(k, r, "burn") /\ ~At(k, r, "mint")
    BY <1>1, <1>4 DEF CallOf, At
  <2>2. CASE q.pc = "idle"
    <3>1. cut' = cut
      BY <1>1, <1>2, <2>2
    <3>2. q.pc \notin {"code", "burn", "consume", "rotate", "mint"} /\ authReqs'[r] = authReqs[r] /\ cut'[r] = cut[r]
      BY <1>1, <2>2, <3>1
    <3> QED
      BY ONLY k \in OauthCall, r \in AuthReq, Serial(r), <1>1, <1>2, <2>1, <3>2, Rests
  <2>3. CASE q.pc # "idle"
    <3>1. q.pc = "code" /\ authReqs[r] = "pending"
      BY <1>1, <1>2, <1>4, <2>3
    <3>2. \A c \in AuthCode : ~CodeOf(c, r)
      BY ONLY k \in OauthCall, Serial(r), <2>1, <3>1 DEF Serial, OneCall, OneCode, At
    <3>3. \A t \in RefreshToken : ~TokenOf(t, r)
      BY ONLY Serial(r), <3>2 DEF Serial, CodeThenToken
    <3>4. /\ \A c \in AuthCode : ~CodeOf(c, r)'
          /\ \A t \in RefreshToken : ~TokenOf(t, r)'
      BY ONLY <1>1, <3>2, <3>3 DEF CodeOf, TokenOf
    <3>5. \A j \in OauthCall : /\ CallOf(j, r)' => j = k
                              /\ ~At(j, r, "mint")'
      BY <1>2, <2>1, <3>1, OnlyCall
    <3> QED
      BY ONLY <3>4, <3>5 DEF Serial, OneCall, OneCode, CodeThenToken, OneLive, StillGood, Live
  <2> QED
    BY <2>2, <2>3
<1> QED
  BY <1>3, <1>4

LEMMA CheckRedeemedSerial ==
  ASSUME OauthInv, NEW k \in OauthCall, CheckRedeemed(k), NEW r \in AuthReq, Serial(r)
  PROVE  Serial(r)'
<1> DEFINE old == oauthCalls[k]
           row == IF old.pc = "exchange" THEN authCodes[old.row] ELSE refreshes[old.row]
           next == IF old.pc = "exchange" THEN "consume" ELSE "rotate"
           q == IF row.state \in {"fresh", "live"} THEN [old EXCEPT !.pc = next, !.late = row.late] ELSE Waiting
<1>1. /\ old.pc \in {"exchange", "refresh"} /\ old \in CallRow /\ Waiting.pc = "idle"
      /\ oauthCalls' = [oauthCalls EXCEPT ![k] = q]
      /\ authReqs' = authReqs /\ authCodes' = authCodes /\ refreshes' = refreshes /\ cut' = cut
  BY CallShape DEF CheckRedeemed, CheckedRow, OauthFrame
<1>2. /\ old.pc = "exchange" =>
           old.row \in AuthCode /\ authCodes[old.row] \in CodeRow /\ authCodes[old.row].req = old.req
      /\ old.pc = "refresh" =>
           old.row \in RefreshToken /\ refreshes[old.row] \in TokenRow /\ refreshes[old.row].req = old.req
  BY DEF OauthInv, CallsHaveRows
<1>3. /\ q.pc # "idle" => q.req = old.req /\ q.row = old.row /\ q.pc = next /\ row.state \in {"fresh", "live"}
      /\ q.pc \in {"idle", "consume", "rotate"}
  <2>1. CASE row.state \in {"fresh", "live"}
    <3> DEFINE n == [old EXCEPT !.pc = next, !.late = row.late]
    <3>1. q = n /\ old \in CallRow /\ next \in {"consume", "rotate"}
      BY <1>1, <2>1
    <3>2. n.pc = next /\ n.req = old.req /\ n.row = old.row
      <4> HIDE DEF old, next, row
      <4> QED
        BY <3>1 DEF CallRow
    <3> QED
      BY <2>1, <3>1, <3>2
  <2>2. CASE row.state \notin {"fresh", "live"}
    BY <1>1, <2>2
  <2> QED
    BY <2>1, <2>2
<1> HIDE DEF q
<1>4. \A j \in OauthCall : oauthCalls'[j] = IF j = k THEN q ELSE oauthCalls[j]
  BY <1>1 DEF OauthInv, OauthTypeOK
<1>5. authReqs'[r] = authReqs[r] /\ cut'[r] = cut[r]
  BY <1>1
<1>6. CASE r # old.req
  BY ONLY k \in OauthCall, r \in AuthReq, Serial(r), <1>1, <1>3, <1>4, <1>5, <1>6, OtherRequests
<1>7. CASE r = old.req
  <2>1. CallOf(k, r) /\ ~At(k, r, "burn") /\ ~At(k, r, "mint")
    BY <1>1, <1>7 DEF CallOf, At
  <2>2. CASE q.pc = "idle"
    <3>1. q.pc \notin {"code", "burn", "consume", "rotate", "mint"}
      BY <2>2
    <3> QED
      BY ONLY k \in OauthCall, r \in AuthReq, Serial(r), <1>1, <1>4, <1>5, <2>1, <3>1, Rests
  <2>3. CASE q.pc # "idle"
    <3>1. /\ \A c \in AuthCode : (CodeOf(c, r)' <=> CodeOf(c, r)) /\ (Fresh(c, r)' <=> Fresh(c, r))
          /\ \A t \in RefreshToken : (TokenOf(t, r)' <=> TokenOf(t, r)) /\ (Live(t, r)' <=> Live(t, r))
      BY ONLY <1>1 DEF CodeOf, Fresh, TokenOf, Live
    <3>2. \A j \in OauthCall : /\ CallOf(j, r)' => j = k
                              /\ \A pc : At(j, r, pc)' => j = k /\ q.pc = pc
      BY ONLY k \in OauthCall, r \in AuthReq, Serial(r), <1>4, <2>1, OnlyCall
    <3>3. \A j \in OauthCall : /\ ~At(j, r, "burn") /\ ~At(j, r, "mint")
                              /\ ~At(j, r, "burn")' /\ ~At(j, r, "mint")' /\ ~At(j, r, "code")'
      BY <1>3, <2>1, <3>2 DEF Serial, OneCall, At
    <3>4. oauthCalls'[k].row = old.row
      BY <1>3, <1>4, <2>3
    <3>5. StillGood(r)'
      BY ONLY Serial(r), <1>1, <1>5, <3>1, <3>3 DEF Serial, StillGood
    <3>6. OneCode(r)'
      BY ONLY Serial(r), <1>5, <3>1, <3>3 DEF Serial, OneCode
    <3>7. CASE old.pc = "exchange"
      <4>1. Fresh(old.row, r) /\ old.row \in AuthCode
        BY <1>2, <1>3, <1>7, <2>3, <3>7, OauthConstants DEF Fresh, CodeOf, CodeRow
      <4>2. \A t \in RefreshToken : ~TokenOf(t, r)
        BY ONLY Serial(r), <4>1 DEF Serial, CodeThenToken
      <4> QED
        BY ONLY Serial(r), <3>1, <3>2, <3>3, <3>5, <3>6, <4>2 DEF Serial, OneCall, CodeThenToken, OneLive, Live
    <3>8. CASE old.pc # "exchange"
      <4>1. Live(old.row, r) /\ old.row \in RefreshToken
        BY <1>1, <1>2, <1>3, <1>7, <2>3, <3>8, OauthConstants DEF Live, TokenOf, TokenRow
      <4>2. \A j \in OauthCall : ~At(j, r, "consume")'
        BY <1>3, <2>3, <3>2, <3>8
      <4>3. OneLive(r)'
        BY ONLY Serial(r), <3>1, <3>2, <3>3, <3>4, <4>1 DEF Serial, OneLive
      <4> QED
        BY ONLY Serial(r), <3>1, <3>2, <3>3, <3>5, <3>6, <4>2, <4>3 DEF Serial, OneCall, CodeThenToken
    <3> QED
      BY <3>7, <3>8
  <2> QED
    BY <2>2, <2>3
<1> QED
  BY <1>6, <1>7

LEMMA InsertCodeSerial ==
  ASSUME OauthInv, NEW k \in OauthCall, InsertCode(k), NEW r \in AuthReq, Serial(r)
  PROVE  Serial(r)'
<1> DEFINE old == oauthCalls[k]
           new == [req |-> old.req, state |-> "fresh", late |-> old.late]
<1>1. PICK c \in FreeCodes : authCodes' = [authCodes EXCEPT ![c] = new]
  BY DEF InsertCode
<1>2. /\ old.pc = "code" /\ old.req \in AuthReq /\ c \in AuthCode /\ authCodes[c] = NoAuth
      /\ new \in CodeRow /\ new.req = old.req /\ new.state = "fresh"
      /\ OauthGoto(k, "burn") /\ authReqs' = authReqs /\ refreshes' = refreshes /\ cut' = cut
  <2>1. old.late \in BOOLEAN
    BY CallShape DEF CallRow
  <2> QED
    BY <2>1 DEF InsertCode, OauthInv, CallsHaveRows, FreeCodes, OauthFrame, CodeRow
<1> HIDE DEF new
<1>3. PICK q \in CallRow :
        /\ \A j \in OauthCall : oauthCalls'[j] = IF j = k THEN q ELSE oauthCalls[j]
        /\ q.pc = "burn" /\ q.req = old.req
  BY <1>2, StepOfCall
<1>4. /\ authCodes'[c] = new /\ \A d \in AuthCode : d # c => authCodes'[d] = authCodes[d]
      /\ new # NoAuth
  BY <1>1, <1>2, OauthConstants DEF OauthInv, OauthTypeOK
<1>5. CASE r # old.req
  <2>1. \A d \in AuthCode : authCodes'[d] = authCodes[d] \/ (~CodeOf(d, r) /\ ~CodeOf(d, r)')
    BY <1>2, <1>4, <1>5 DEF CodeOf
  <2> QED
    BY ONLY k \in OauthCall, r \in AuthReq, Serial(r), <1>2, <1>3, <1>5, <2>1, OtherRequests
<1>6. CASE r = old.req
  <2>1. CallOf(k, r) /\ At(k, r, "code")
    BY <1>2, <1>6 DEF CallOf, At
  <2>2. \A d \in AuthCode : ~CodeOf(d, r)
    BY ONLY k \in OauthCall, Serial(r), <2>1 DEF Serial, OneCode
  <2>3. \A t \in RefreshToken : ~TokenOf(t, r)
    BY ONLY Serial(r), <2>2 DEF Serial, CodeThenToken
  <2>4. /\ \A d \in AuthCode : CodeOf(d, r)' => d = c
        /\ authCodes'[c].state # "consumed"
        /\ \A t \in RefreshToken : ~TokenOf(t, r)'
    <3>1. \A d \in AuthCode : d # c => ~CodeOf(d, r)'
      BY ONLY <1>4, <2>2 DEF CodeOf
    <3>2. \A t \in RefreshToken : ~TokenOf(t, r)'
      BY ONLY <1>2, <2>3 DEF TokenOf
    <3> QED
      BY <1>2, <1>4, <3>1, <3>2
  <2>5. \A j \in OauthCall : /\ CallOf(j, r)' => j = k
                            /\ ~At(j, r, "mint")' /\ ~At(j, r, "code")'
    BY <1>3, <2>1, OnlyCall
  <2>6. At(k, r, "burn")'
    BY <1>3, <1>6 DEF At, CallOf
  <2> QED
    BY ONLY k \in OauthCall, <2>4, <2>5, <2>6 DEF Serial, OneCall, OneCode, CodeThenToken, OneLive, StillGood, Live
<1> QED
  BY <1>5, <1>6

LEMMA BurnSerial ==
  ASSUME OauthInv, NEW k \in OauthCall, Burn(k), NEW r \in AuthReq, Serial(r)
  PROVE  Serial(r)'
<1> DEFINE own == oauthCalls[k].req
<1>1. /\ oauthCalls[k].pc = "burn" /\ own \in AuthReq /\ OauthGoto(k, "idle")
      /\ authReqs' = [authReqs EXCEPT ![own] = "burned"]
      /\ authCodes' = authCodes /\ refreshes' = refreshes /\ cut' = cut
  BY DEF Burn, OauthInv, CallsHaveRows, OauthFrame
<1>2. PICK q \in CallRow :
        /\ \A j \in OauthCall : oauthCalls'[j] = IF j = k THEN q ELSE oauthCalls[j]
        /\ q.pc = "idle"
  BY <1>1, StepOfCall
<1>3. cut'[r] = cut[r] /\ (r # own => authReqs'[r] = authReqs[r]) /\ (r = own => authReqs'[r] # "pending")
  BY <1>1 DEF OauthInv, OauthTypeOK
<1>4. CASE r # own
  BY ONLY k \in OauthCall, r \in AuthReq, Serial(r), <1>1, <1>2, <1>3, <1>4, OtherRequests
<1>5. CASE r = own
  <2>1. CallOf(k, r) /\ ~At(k, r, "mint") /\ q.pc \notin {"code", "burn", "consume", "rotate", "mint"}
    BY <1>1, <1>2, <1>5 DEF CallOf, At
  <2>2. authReqs'[r] # "pending"
    BY <1>3, <1>5
  <2> QED
    BY ONLY k \in OauthCall, r \in AuthReq, Serial(r), <1>1, <1>2, <1>3, <2>1, <2>2, Rests
<1> QED
  BY <1>4, <1>5

LEMMA RedeemSerial ==
  ASSUME OauthInv, NEW k \in OauthCall, Consume(k) \/ Rotate(k), NEW r \in AuthReq, Serial(r)
  PROVE  Serial(r)'
<1> DEFINE old == oauthCalls[k]
<1>1. /\ old.pc \in {"consume", "rotate"} /\ old.req \in AuthReq /\ OauthGoto(k, "mint")
      /\ authReqs' = authReqs /\ cut' = cut
      /\ old.pc = "consume" => old.row \in AuthCode /\ authCodes[old.row] \in CodeRow /\ authCodes[old.row].req = old.req
      /\ old.pc = "rotate" => /\ old.row \in RefreshToken
                              /\ refreshes[old.row] \in TokenRow /\ refreshes[old.row].req = old.req
  BY DEF Consume, Rotate, OauthInv, CallsHaveRows, OauthFrame
<1>2. PICK q \in CallRow :
        /\ \A j \in OauthCall : oauthCalls'[j] = IF j = k THEN q ELSE oauthCalls[j]
        /\ q.pc = "mint" /\ q.req = old.req
  BY <1>1, StepOfCall
<1>3. /\ \A c \in AuthCode : authCodes'[c] = authCodes[c] \/
           (/\ old.pc = "consume" /\ c = old.row /\ authCodes'[c].req = old.req
            /\ authCodes'[c] # NoAuth /\ authCodes'[c].state = "consumed")
      /\ old.pc = "consume" => authCodes'[old.row].state = "consumed"
      /\ old.pc = "rotate" => authCodes' = authCodes
  <2>1. CASE Consume(k)
    <3>1. old.pc = "consume" /\ authCodes' = [authCodes EXCEPT ![old.row].state = "consumed"]
      BY <2>1 DEF Consume
    <3> DEFINE n == [authCodes[old.row] EXCEPT !.state = "consumed"]
    <3>2. n \in CodeRow /\ n.req = old.req /\ n.state = "consumed"
      BY <1>1, <3>1 DEF CodeRow
    <3>3. n # NoAuth
      BY <3>2, OauthConstants
    <3>4. authCodes' = [authCodes EXCEPT ![old.row] = n] /\ authCodes \in [AuthCode -> CodeRow \cup {NoAuth}]
      BY <1>1, <3>1 DEF OauthInv, OauthTypeOK
    <3> HIDE DEF n, old
    <3>5. \A c \in AuthCode : authCodes'[c] = IF c = old.row THEN n ELSE authCodes[c]
      BY ONLY <3>4
    <3> QED
      BY ONLY <1>1, <3>1, <3>2, <3>3, <3>5
  <2>2. CASE Rotate(k)
    BY <2>2 DEF Rotate
  <2> QED
    BY <2>1, <2>2
<1>4. /\ \A t \in RefreshToken : refreshes'[t] = refreshes[t] \/
           (/\ old.pc = "rotate" /\ t = old.row /\ refreshes'[t].req = old.req
            /\ refreshes'[t] # NoAuth /\ refreshes'[t].state = "revoked")
      /\ old.pc = "rotate" => refreshes'[old.row].state = "revoked"
      /\ old.pc = "consume" => refreshes' = refreshes
  <2>1. CASE Rotate(k)
    <3>1. old.pc = "rotate" /\ refreshes' = [refreshes EXCEPT ![old.row].state = "revoked"]
      BY <2>1 DEF Rotate
    <3> DEFINE n == [refreshes[old.row] EXCEPT !.state = "revoked"]
    <3>2. n \in TokenRow /\ n.req = old.req /\ n.state = "revoked"
      BY <1>1, <3>1 DEF TokenRow
    <3>3. n # NoAuth
      BY <3>2, OauthConstants
    <3>4. refreshes' = [refreshes EXCEPT ![old.row] = n] /\ refreshes \in [RefreshToken -> TokenRow \cup {NoAuth}]
      BY <1>1, <3>1 DEF OauthInv, OauthTypeOK
    <3> HIDE DEF n, old
    <3>5. \A t \in RefreshToken : refreshes'[t] = IF t = old.row THEN n ELSE refreshes[t]
      BY ONLY <3>4
    <3> QED
      BY ONLY <1>1, <3>1, <3>2, <3>3, <3>5
  <2>2. CASE Consume(k)
    BY <2>2 DEF Consume
  <2> QED
    BY <2>1, <2>2
<1>5. \A c \in AuthCode : authCodes[c] = NoAuth \/ authCodes[c] \in CodeRow
  BY DEF OauthInv, OauthTypeOK
<1>6. authCodes[old.row] # NoAuth \/ old.pc # "consume"
  BY <1>1, OauthConstants
<1>7. refreshes[old.row] # NoAuth \/ old.pc # "rotate"
  BY <1>1, OauthConstants
<1>8. CASE r # old.req
  <2>1. \A c \in AuthCode : authCodes'[c] = authCodes[c] \/ (~CodeOf(c, r) /\ ~CodeOf(c, r)')
    BY ONLY <1>1, <1>3, <1>8 DEF CodeOf
  <2>2. \A t \in RefreshToken : refreshes'[t] = refreshes[t] \/ (~TokenOf(t, r) /\ ~TokenOf(t, r)')
    BY ONLY <1>1, <1>4, <1>8 DEF TokenOf
  <2>3. authReqs'[r] = authReqs[r] /\ cut'[r] = cut[r]
    BY <1>1
  <2> QED
    BY ONLY k \in OauthCall, r \in AuthReq, Serial(r), <1>1, <1>2, <1>8, <2>1, <2>2, <2>3, OtherRequests
<1>9. CASE r = old.req
  <2>1. CallOf(k, r)
    BY <1>1, <1>9 DEF CallOf
  <2>2. /\ \A c \in AuthCode : (CodeOf(c, r)' <=> CodeOf(c, r)) /\ (Fresh(c, r)' => Fresh(c, r))
        /\ \A t \in RefreshToken : (TokenOf(t, r)' <=> TokenOf(t, r)) /\ (Live(t, r)' => Live(t, r))
    BY ONLY <1>1, <1>3, <1>4, <1>6, <1>7, <1>9 DEF CodeOf, Fresh, TokenOf, Live
  <2>3. \A j \in OauthCall : /\ CallOf(j, r)' => j = k
                            /\ \A pc : At(j, r, pc)' => j = k /\ q.pc = pc
    BY ONLY k \in OauthCall, r \in AuthReq, Serial(r), <1>2, <2>1, OnlyCall
  <2>4. At(k, r, "mint")' /\ \A j \in OauthCall : ~At(j, r, "burn")
    BY <1>1, <1>2, <1>9, <2>1 DEF At, CallOf, Serial, OneCall
  <2>5. OneCall(r)' /\ OneCode(r)'
    <3>1. \A j \in OauthCall : ~At(j, r, "code")'
      BY <1>2, <2>3
    <3> QED
      BY ONLY Serial(r), <1>1, <2>2, <2>3, <2>4, <3>1 DEF Serial, OneCall, OneCode
  <2>6. StillGood(r)'
    BY ONLY k \in OauthCall, <2>4 DEF StillGood
  <2>7. /\ \E c \in AuthCode : CodeOf(c, r)
        /\ \A c \in AuthCode : ~Fresh(c, r)'
        /\ \A t \in RefreshToken : ~Live(t, r)'
    <3>1. CASE old.pc = "consume"
      <4>1. At(k, r, "consume") /\ CodeOf(old.row, r) /\ old.row \in AuthCode
        BY <1>1, <1>6, <1>9, <2>1, <3>1 DEF At, CodeOf
      <4>2. \A t \in RefreshToken : ~TokenOf(t, r)
        BY ONLY k \in OauthCall, Serial(r), <4>1 DEF Serial, CodeThenToken
      <4>3. ASSUME NEW c \in AuthCode, Fresh(c, r)' PROVE FALSE
        <5>1. CodeOf(c, r)
          BY <2>2, <4>3 DEF Fresh
        <5>2. c = old.row
          BY ONLY c \in AuthCode, Serial(r), <4>1, <5>1 DEF Serial, OneCode
        <5> QED
          BY <1>3, <3>1, <4>3, <5>2 DEF Fresh
      <4> QED
        BY <2>2, <4>1, <4>2, <4>3 DEF Live
    <3>2. CASE old.pc = "rotate"
      <4>1. At(k, r, "rotate") /\ TokenOf(old.row, r) /\ old.row \in RefreshToken
        BY <1>1, <1>7, <1>9, <2>1, <3>2 DEF At, TokenOf
      <4>2. (\E c \in AuthCode : CodeOf(c, r)) /\ \A c \in AuthCode : ~Fresh(c, r)
        BY ONLY Serial(r), <4>1 DEF Serial, CodeThenToken
      <4>3. ASSUME NEW t \in RefreshToken, Live(t, r)' PROVE FALSE
        <5>1. t = old.row
          BY ONLY k \in OauthCall, t \in RefreshToken, Serial(r), <2>2, <4>1, <4>3 DEF Serial, OneLive
        <5> QED
          BY <1>4, <3>2, <4>3, <5>1 DEF Live
      <4> QED
        BY <2>2, <4>2, <4>3
    <3> QED
      BY <1>1, <3>1, <3>2
  <2>8. CodeThenToken(r)' /\ OneLive(r)'
    <3>1. \A j \in OauthCall : ~At(j, r, "consume")' /\ ~At(j, r, "rotate")'
      BY <1>2, <2>3
    <3> QED
      BY ONLY <2>2, <2>7, <3>1 DEF CodeThenToken, OneLive
  <2> QED
    BY <2>5, <2>6, <2>8 DEF Serial
<1> QED
  BY <1>8, <1>9

LEMMA MintSerial ==
  ASSUME OauthInv, NEW k \in OauthCall, Mint(k), NEW r \in AuthReq, Serial(r)
  PROVE  Serial(r)'
<1> DEFINE old == oauthCalls[k]
           new == [req |-> old.req, state |-> "live", minted |-> tick, late |-> old.late]
<1>1. PICK t \in FreeTokens : refreshes' = [refreshes EXCEPT ![t] = new]
  BY DEF Mint
<1>2. /\ old.pc = "mint" /\ old.req \in AuthReq /\ t \in RefreshToken /\ refreshes[t] = NoAuth
      /\ new \in TokenRow /\ new.req = old.req /\ new.state = "live"
      /\ OauthGoto(k, "idle") /\ authReqs' = authReqs /\ authCodes' = authCodes /\ cut' = cut
  <2>1. old.late \in BOOLEAN /\ tick \in 0..LastTick
    BY CallShape DEF CallRow, OauthInv, OauthTypeOK
  <2> QED
    BY <2>1 DEF Mint, OauthInv, CallsHaveRows, FreeTokens, OauthFrame, TokenRow
<1> HIDE DEF new
<1>3. PICK q \in CallRow :
        /\ \A j \in OauthCall : oauthCalls'[j] = IF j = k THEN q ELSE oauthCalls[j]
        /\ q.pc = "idle"
  BY <1>2, StepOfCall
<1>4. /\ refreshes'[t] = new /\ \A u \in RefreshToken : u # t => refreshes'[u] = refreshes[u]
      /\ new # NoAuth
  BY <1>1, <1>2, OauthConstants DEF OauthInv, OauthTypeOK
<1>5. CASE r # old.req
  <2>1. \A u \in RefreshToken : refreshes'[u] = refreshes[u] \/ (~TokenOf(u, r) /\ ~TokenOf(u, r)')
    BY <1>2, <1>4, <1>5 DEF TokenOf
  <2> QED
    BY ONLY k \in OauthCall, r \in AuthReq, Serial(r), <1>2, <1>3, <1>5, <2>1, OtherRequests
<1>6. CASE r = old.req
  <2>1. CallOf(k, r) /\ At(k, r, "mint")
    BY <1>2, <1>6 DEF CallOf, At
  <2>2. /\ \E c \in AuthCode : CodeOf(c, r)
        /\ \A c \in AuthCode : ~Fresh(c, r)
        /\ \A u \in RefreshToken : ~Live(u, r)
    BY ONLY k \in OauthCall, Serial(r), <2>1 DEF Serial, CodeThenToken, OneLive
  <2>3. /\ \A c \in AuthCode : (CodeOf(c, r)' <=> CodeOf(c, r)) /\ ~Fresh(c, r)'
        /\ \A u \in RefreshToken : Live(u, r)' => u = t
        /\ Live(t, r)'
    <3>1. \A c \in AuthCode : (CodeOf(c, r)' <=> CodeOf(c, r)) /\ ~Fresh(c, r)'
      BY ONLY <1>2, <2>2 DEF CodeOf, Fresh
    <3>2. \A u \in RefreshToken : Live(u, r)' => u = t
      BY ONLY <1>4, <2>2 DEF Live, TokenOf
    <3>3. Live(t, r)'
      BY ONLY <1>2, <1>4, <1>6 DEF Live, TokenOf
    <3> QED
      BY <3>1, <3>2, <3>3
  <2>4. \A j \in OauthCall : /\ CallOf(j, r)' => j = k
                            /\ \A pc \in {"burn", "code", "consume", "rotate", "mint"} : ~At(j, r, pc)'
    BY <1>3, <2>1, OnlyCall
  <2>5. \A j \in OauthCall : ~At(j, r, "burn")
    BY <1>2, <2>1 DEF Serial, OneCall, At
  <2>6. OneCall(r)' /\ OneCode(r)'
    BY ONLY Serial(r), <1>2, <2>3, <2>4, <2>5 DEF Serial, OneCall, OneCode
  <2>7. CodeThenToken(r)' /\ OneLive(r)' /\ StillGood(r)'
    BY ONLY <1>2, <2>2, <2>3, <2>4 DEF CodeThenToken, OneLive, StillGood
  <2> QED
    BY <2>6, <2>7 DEF Serial
<1> QED
  BY <1>5, <1>6

\* A call that fails leaves its request troubled.
LEMMA FailSerial ==
  ASSUME OauthInv, NEW k \in OauthCall, OauthFails(k), NEW r \in AuthReq, r \notin troubled', Serial(r)
  PROVE  Serial(r)'
<1> DEFINE own == oauthCalls[k].req
<1>1. /\ oauthCalls[k].pc # "idle" /\ OauthGoto(k, "idle") /\ r # own
      /\ authReqs' = authReqs /\ authCodes' = authCodes /\ refreshes' = refreshes /\ cut' = cut
  BY DEF OauthFails
<1>2. PICK q \in CallRow :
        /\ \A j \in OauthCall : oauthCalls'[j] = IF j = k THEN q ELSE oauthCalls[j]
        /\ q.pc = "idle"
  BY <1>1, StepOfCall
<1> QED
  BY ONLY k \in OauthCall, r \in AuthReq, Serial(r), <1>1, <1>2, OtherRequests

\* Rows are revoked or lapse: what is left is still one call, one code, one token.
LEMMA RevokeSerial ==
  ASSUME OauthInv, NEW a \in Agent, RevokeGrant(a), NEW r \in AuthReq, Serial(r)
  PROVE  Serial(r)'
<1>1. \A c \in AuthCode :
        /\ CodeOf(c, r)' <=> CodeOf(c, r)
        /\ CodeOf(c, r) => \/ authCodes'[c].state = authCodes[c].state
                          \/ (authCodes[c].state = "fresh" /\ authCodes'[c].state = "lapsed")
  <2> TAKE c \in AuthCode
  <2>1. authCodes[c] \in CodeRow \cup {NoAuth}
    BY DEF OauthInv, OauthTypeOK
  <2>2. authCodes'[c] = authCodes[c] \/ (authCodes[c] # NoAuth /\ authCodes'[c] = [authCodes[c] EXCEPT !.late = TRUE])
    BY DEF RevokeGrant
  <2>3. CASE authCodes'[c] = authCodes[c]
    BY <2>3 DEF CodeOf
  <2>4. CASE authCodes[c] # NoAuth /\ authCodes'[c] = [authCodes[c] EXCEPT !.late = TRUE]
    <3>1. authCodes[c] \in CodeRow
      BY <2>1, <2>4
    <3>2. /\ authCodes'[c] \in CodeRow /\ authCodes'[c].req = authCodes[c].req
          /\ authCodes'[c].state = authCodes[c].state
      BY ONLY <2>4, <3>1 DEF CodeRow
    <3>3. authCodes'[c] # NoAuth
      BY <3>2, OauthConstants
    <3> QED
      BY ONLY <2>4, <3>2, <3>3 DEF CodeOf
  <2> QED
    BY <2>2, <2>3, <2>4
<1>2. cut'[r] = IF AgentOf[r] = a THEN tick ELSE cut[r]
  BY DEF RevokeGrant
<1>3. tick # NoAuth
  BY OauthConstants DEF OauthInv, OauthTypeOK
<1>4. \A t \in RefreshToken :
        /\ TokenOf(t, r)' <=> TokenOf(t, r)
        /\ TokenOf(t, r) => \/ refreshes'[t].state = refreshes[t].state
                           \/ refreshes'[t].state = "lapsed"
                           \/ (refreshes'[t].state = "revoked" /\ cut'[r] # NoAuth)
  <2> TAKE t \in RefreshToken
  <2>1. refreshes[t] \in TokenRow \cup {NoAuth}
    BY DEF OauthInv, OauthTypeOK
  <2>2. \/ refreshes'[t] = refreshes[t]
        \/ /\ refreshes[t] # NoAuth /\ AgentOf[refreshes[t].req] = a
           /\ refreshes'[t] = [refreshes[t] EXCEPT !.state = "revoked"]
    BY DEF RevokeGrant
  <2>3. CASE refreshes'[t] = refreshes[t]
    BY <2>3 DEF TokenOf
  <2>4. CASE /\ refreshes[t] # NoAuth /\ AgentOf[refreshes[t].req] = a
             /\ refreshes'[t] = [refreshes[t] EXCEPT !.state = "revoked"]
    <3>1. refreshes[t] \in TokenRow
      BY <2>1, <2>4
    <3>2. /\ refreshes'[t] \in TokenRow /\ refreshes'[t].req = refreshes[t].req
          /\ refreshes'[t].state = "revoked"
      BY ONLY <2>4, <3>1 DEF TokenRow
    <3>3. refreshes'[t] # NoAuth
      BY <3>2, OauthConstants
    <3> QED
      BY ONLY <1>2, <1>3, <2>4, <3>2, <3>3 DEF TokenOf
  <2> QED
    BY <2>2, <2>3, <2>4
<1>5. \A k \in OauthCall :
        /\ CallOf(k, r)' <=> CallOf(k, r)
        /\ CallOf(k, r) => oauthCalls'[k].pc = oauthCalls[k].pc /\ oauthCalls'[k].row = oauthCalls[k].row
  <2> TAKE k \in OauthCall
  <2>1. oauthCalls[k] \in CallRow
    BY CallShape
  <2>2. oauthCalls'[k] = oauthCalls[k] \/ oauthCalls'[k] = [oauthCalls[k] EXCEPT !.late = TRUE]
    BY DEF RevokeGrant
  <2> QED
    BY ONLY <2>1, <2>2 DEF CallRow, CallOf
<1>6. (authReqs'[r] = authReqs[r] \/ authReqs'[r] # "pending") /\ (cut'[r] = NoAuth => cut[r] = NoAuth)
  <2>1. authReqs' = authReqs
    BY DEF RevokeGrant
  <2> QED
    BY <1>2, <1>3, <2>1
<1> QED
  BY ONLY r \in AuthReq, Serial(r), <1>1, <1>4, <1>5, <1>6, LeftAlone

LEMMA LapseSerial ==
  ASSUME OauthInv, Lapse \/ Tick \/ UNCHANGED oauthVars, NEW r \in AuthReq, Serial(r)
  PROVE  Serial(r)'
<1>1. \A c \in AuthCode :
        /\ CodeOf(c, r)' <=> CodeOf(c, r)
        /\ CodeOf(c, r) => \/ authCodes'[c].state = authCodes[c].state
                          \/ (authCodes[c].state = "fresh" /\ authCodes'[c].state = "lapsed")
  <2> TAKE c \in AuthCode
  <2>1. authCodes \in [AuthCode -> CodeRow \cup {NoAuth}]
    BY DEF OauthInv, OauthTypeOK
  <2>2. \/ authCodes'[c] = authCodes[c]
        \/ /\ authCodes[c] # NoAuth /\ authCodes[c].state = "fresh"
           /\ authCodes'[c] = [authCodes[c] EXCEPT !.state = "lapsed"]
    BY <2>1 DEF Lapse, Tick, oauthVars
  <2>3. CASE authCodes'[c] = authCodes[c]
    BY <2>3 DEF CodeOf
  <2>4. CASE /\ authCodes[c] # NoAuth /\ authCodes[c].state = "fresh"
             /\ authCodes'[c] = [authCodes[c] EXCEPT !.state = "lapsed"]
    <3>1. authCodes[c] \in CodeRow
      BY <2>1, <2>4
    <3>2. authCodes'[c] \in CodeRow /\ authCodes'[c].req = authCodes[c].req /\ authCodes'[c].state = "lapsed"
      BY ONLY <2>4, <3>1 DEF CodeRow
    <3>3. authCodes'[c] # NoAuth
      BY <3>2, OauthConstants
    <3> QED
      BY ONLY <2>4, <3>2, <3>3 DEF CodeOf
  <2> QED
    BY <2>2, <2>3, <2>4
<1>2. \A t \in RefreshToken :
        /\ TokenOf(t, r)' <=> TokenOf(t, r)
        /\ TokenOf(t, r) => \/ refreshes'[t].state = refreshes[t].state
                           \/ refreshes'[t].state = "lapsed"
                           \/ (refreshes'[t].state = "revoked" /\ cut'[r] # NoAuth)
  <2> TAKE t \in RefreshToken
  <2>1. refreshes \in [RefreshToken -> TokenRow \cup {NoAuth}]
    BY DEF OauthInv, OauthTypeOK
  <2>2. \/ refreshes'[t] = refreshes[t]
        \/ /\ refreshes[t] # NoAuth
           /\ refreshes'[t] = [refreshes[t] EXCEPT !.state = "lapsed"]
    BY <2>1 DEF Lapse, Tick, oauthVars
  <2>3. CASE refreshes'[t] = refreshes[t]
    BY <2>3 DEF TokenOf
  <2>4. CASE refreshes[t] # NoAuth /\ refreshes'[t] = [refreshes[t] EXCEPT !.state = "lapsed"]
    <3>1. refreshes[t] \in TokenRow
      BY <2>1, <2>4
    <3>2. refreshes'[t] \in TokenRow /\ refreshes'[t].req = refreshes[t].req /\ refreshes'[t].state = "lapsed"
      BY ONLY <2>4, <3>1 DEF TokenRow
    <3>3. refreshes'[t] # NoAuth
      BY <3>2, OauthConstants
    <3> QED
      BY ONLY <2>4, <3>2, <3>3 DEF TokenOf
  <2> QED
    BY <2>2, <2>3, <2>4
<1>3. \A k \in OauthCall :
        /\ CallOf(k, r)' <=> CallOf(k, r)
        /\ CallOf(k, r) => oauthCalls'[k].pc = oauthCalls[k].pc /\ oauthCalls'[k].row = oauthCalls[k].row
  <2>1. oauthCalls' = oauthCalls
    BY DEF Lapse, Tick, oauthVars
  <2> QED
    BY ONLY <2>1 DEF CallOf
<1>4. (authReqs'[r] = authReqs[r] \/ authReqs'[r] # "pending") /\ (cut'[r] = NoAuth => cut[r] = NoAuth)
  BY DEF Lapse, Tick, oauthVars, OauthFrame, OauthInv, OauthTypeOK
<1> QED
  BY ONLY r \in AuthReq, Serial(r), <1>1, <1>2, <1>3, <1>4, LeftAlone

-----------------------------------------------------------------------------

\* A consent whose calls came one after the other has one code, one token at a
\* time, and keeps it.
THEOREM SerialInvariant == OauthSpec => []SerialInv
<1>1. OauthInit => SerialInv
  BY OauthStarts, SerialStarts DEF SerialInv
<1>2. SerialInv /\ [OauthNext]_oauthVars /\ OauthInv' => SerialInv'
  <2> SUFFICES ASSUME SerialInv, [OauthNext]_oauthVars, NEW r \in AuthReq, r \notin troubled'
               PROVE  Serial(r)'
    BY DEF SerialInv
  <2>1. OauthInv /\ (r \notin troubled => Serial(r))
    BY DEF SerialInv
  <2>2. troubled \subseteq troubled'
    BY DEF OauthNext, oauthVars, Consent, Exchange, Refresh, OauthStart, CheckConsent, CheckRedeemed, CheckedRow,
           InsertCode, Burn, Consume, Rotate, Mint, OauthFails, RevokeGrant, Lapse, Tick, OauthFrame
  <2>3. Serial(r)
    BY <2>1, <2>2
  <2>4. CASE Lapse \/ Tick \/ UNCHANGED oauthVars
    BY ONLY r \in AuthReq, <2>1, <2>3, <2>4, LapseSerial
  <2>5. ASSUME NEW a \in Agent, RevokeGrant(a) PROVE Serial(r)'
    BY ONLY r \in AuthReq, <2>1, <2>3, <2>5, RevokeSerial
  <2>6. ASSUME NEW k \in OauthCall, \/ Consent(k) \/ Exchange(k) \/ Refresh(k) \/ OauthFails(k)
        PROVE  Serial(r)'
    BY ONLY r \in AuthReq, r \notin troubled', <2>1, <2>3, <2>6, StartSerial, FailSerial
  <2>7. ASSUME NEW k \in OauthCall,
               \/ CheckConsent(k) \/ CheckRedeemed(k) \/ InsertCode(k) \/ Burn(k)
               \/ Consume(k) \/ Rotate(k) \/ Mint(k)
        PROVE  Serial(r)'
    BY ONLY r \in AuthReq, <2>1, <2>3, <2>7, CheckConsentSerial, CheckRedeemedSerial, InsertCodeSerial,
            BurnSerial, RedeemSerial, MintSerial
  <2> QED
    BY <2>4, <2>5, <2>6, <2>7 DEF OauthNext
<1> QED
  BY <1>1, <1>2, OauthInvariant, PTL DEF OauthSpec

\* At most one member.
LEMMA FewerThanTwo ==
  ASSUME NEW S, \A x, y \in S : x = y
  PROVE  Cardinality(S) <= 1
<1>1. CASE S = {}
  BY <1>1, FS_EmptySet
<1>2. CASE S # {}
  <2>1. PICK x \in S : S = {x}
    BY <1>2
  <2> QED
    BY <2>1, FS_Singleton
<1> QED
  BY <1>1, <1>2

\* One code and one good token per consent, for any number of calls, codes and tokens.
THEOREM OneTokenPerConsentHolds == OauthSpec => []OneTokenPerConsent
<1>1. SerialInv => OneTokenPerConsent
  <2> SUFFICES ASSUME SerialInv, NEW r \in AuthReq \ troubled
               PROVE  /\ Cardinality(CodesOf(r)) <= 1 /\ Cardinality(LiveOf(r)) <= 1
                      /\ (/\ ~busy(r) /\ cut[r] = NoAuth
                          /\ \E c \in CodesOf(r) : authCodes[c].state = "consumed"
                          /\ \A t \in TokensOf(r) : refreshes[t].state # "lapsed") => LiveOf(r) # {}
    BY DEF OneTokenPerConsent
  <2>1. Serial(r)
    BY DEF SerialInv
  <2>2. \A c, d \in CodesOf(r) : c = d
    BY ONLY <2>1 DEF Serial, OneCode, CodesOf, CodeOf
  <2>3. \A t, u \in LiveOf(r) : t = u
    BY ONLY <2>1 DEF Serial, OneLive, LiveOf, TokensOf, TokenOf, Live
  <2>4. (/\ ~busy(r) /\ cut[r] = NoAuth
         /\ \E c \in CodesOf(r) : authCodes[c].state = "consumed"
         /\ \A t \in TokensOf(r) : refreshes[t].state # "lapsed") => LiveOf(r) # {}
    BY ONLY <2>1 DEF Serial, StillGood, busy, At, CallOf, CodesOf, CodeOf, LiveOf, TokensOf, TokenOf, Live
  <2> QED
    BY <2>2, <2>3, <2>4, FewerThanTwo
<1> QED
  BY <1>1, SerialInvariant, PTL
=============================================================================
