---------------------------- MODULE Integrations ----------------------------
(***************************************************************************)
(* One user's connections to providers: connecting, pausing and            *)
(* disconnecting them (backend/src/services/integration.service.ts),       *)
(* delivering events to them (integrations/dispatcher.ts), refreshing      *)
(* their tokens (token-refresh.ts), inbound webhooks                       *)
(* (routes/integrations/webhooks.ts), and the counter that disables a      *)
(* connection that keeps failing (repositories/integration.repo.ts).       *)
(*                                                                         *)
(* Deliveries and refreshes work through connections selected at the       *)
(* start; the counter is read in one statement and written in another.     *)
(***************************************************************************)
EXTENDS Integers

CONSTANTS
  Link, Provider,  \* ids of connections, given out once, and providers
  LinkCall,        \* slots for calls being served
  NoLink, UsedLink,
  SeedLinks,       \* the connections there are
  FailureLimit,    \* 5 in the code
  MaxLinkCalls, MaxLinkFails  \* bounds: calls ever served, awaits that fail

\* grant: which of the user's consents the tokens come from.
LinkRow == [provider: Provider, status: {"active", "paused", "error"}, failures: Nat, grant: Nat]

ASSUME LinkConstants ==
  /\ SeedLinks \in [Link -> LinkRow \cup {NoLink}]
  /\ \A c \in Link : SeedLinks[c] # NoLink => /\ SeedLinks[c].status = "active"
                                              /\ SeedLinks[c].failures = 0 /\ SeedLinks[c].grant = 0
  /\ \A c, d \in Link : SeedLinks[c] # NoLink /\ SeedLinks[c] = SeedLinks[d] => c = d
  /\ FailureLimit \in Nat \ {0} /\ MaxLinkCalls \in Nat /\ MaxLinkFails \in Nat
  /\ NoLink \notin Link /\ NoLink \notin LinkRow /\ UsedLink \notin LinkRow /\ NoLink # UsedLink

VARIABLES
  links,   \* integration_connections
  linkCalls,
  linkServed, linkFailed,
  granted, \* consents given at the provider so far
  streak,  \* history: what failed of a connection since a success was last stored
  wish,    \* history: what the user last made of a connection, and by which consent;
           \* at: the failures it then showed
  met,     \* history: connections two calls worked on at once
  undone   \* history: providers where a copy read earlier was written over a change

linkVars == <<links, linkCalls, linkServed, linkFailed, granted, streak, wish, met, undone>>

\* todo: the connections still to be served, copy: the table they were selected
\* from; link, seen: the one at hand, as it was read.
Unused == [pc |-> "idle", kind |-> "user", todo |-> {}, copy |-> NoLink, link |-> NoLink, seen |-> NoLink, grant |-> 0]

\* failed: calls that threw while they served the connection, be it at the provider or
\* when they recorded that it worked; lost: those of them that were never counted.
Streaks == [failed: Nat, lost: Nat]

NoStreak == [failed |-> 0, lost |-> 0]

there(c) == links[c] \notin {NoLink, UsedLink}

LinkTable == [Link -> LinkRow \cup {NoLink, UsedLink}]

LinkStations == {"idle", "next", "worked", "failed", "reset", "store", "count", "counted",
                 "toggle", "drop", "find", "update", "insert", "sync"}

LinkWork ==
  [pc: LinkStations, kind: {"user", "event", "refresh", "inbound"} \cup Provider, todo: SUBSET Link,
   copy: LinkTable \cup {NoLink}, link: Link \cup {NoLink}, seen: LinkRow \cup {NoLink}, grant: Nat]

LinkTypeOK ==
  /\ links \in LinkTable
  /\ linkCalls \in [LinkCall -> LinkWork]
  /\ \A k \in LinkCall :
       LET q == linkCalls[k]
       IN  /\ q.link = NoLink <=> q.pc \in {"idle", "next", "find", "insert"}
           /\ q.pc \in {"idle", "find", "update", "insert", "toggle", "drop", "sync"} => q.todo = {}
           /\ q.pc \in {"find", "insert"} => q.kind \in Provider
           /\ q.pc \in {"counted", "toggle"} => q.seen \in LinkRow
           /\ q.pc = "store" => q.kind = "refresh"
  /\ linkServed \in 0..MaxLinkCalls /\ linkFailed \in 0..MaxLinkFails
  /\ granted \in Nat /\ streak \in [Link -> Streaks]
  /\ wish \in [Link -> [status: {"active", "paused"}, grant: Nat, at: Nat]]
  /\ met \subseteq Link /\ undone \subseteq Provider

LinkInit ==
  /\ links = SeedLinks
  /\ linkCalls = [k \in LinkCall |-> Unused]
  /\ linkServed = 0 /\ linkFailed = 0 /\ granted = 0
  /\ streak = [c \in Link |-> NoStreak]
  /\ wish = [c \in Link |-> [status |-> "active", grant |-> 0, at |-> 0]]
  /\ met = {} /\ undone = {}

ActiveLinks == {c \in Link : there(c) /\ links[c].status = "active"}

worksOn(q) == q.todo \cup ({q.link} \cap Link)

-----------------------------------------------------------------------------
(* Calls arrive.                                                            *)

LinkStart(k, q) ==
  /\ linkCalls[k].pc = "idle"
  /\ linkServed < MaxLinkCalls /\ linkServed' = linkServed + 1
  /\ linkCalls' = [linkCalls EXCEPT ![k] = q]
  /\ met' = met \cup (worksOn(q) \cap UNION {worksOn(linkCalls[j]) : j \in LinkCall})
  /\ UNCHANGED <<links, linkFailed, streak, wish, undone>>

\* dispatchEvent of a card's change, and the refresh job, which never looks again
\* whether a connection is still active.
Dispatch(k) == /\ ActiveLinks # {}
               /\ LinkStart(k, [Unused EXCEPT !.pc = "next", !.kind = "event", !.todo = ActiveLinks])
               /\ UNCHANGED granted

RefreshJob(k) == \E S \in SUBSET ActiveLinks :  \* those about to expire
  /\ S # {}
  /\ LinkStart(k, [Unused EXCEPT !.pc = "next", !.kind = "refresh", !.todo = S, !.copy = links])
  /\ UNCHANGED granted

\* An inbound webhook is taken for one of the active connections.
Webhook(k) == \E c \in ActiveLinks :
  /\ LinkStart(k, [Unused EXCEPT !.pc = "next", !.kind = "inbound", !.todo = {c}])
  /\ UNCHANGED granted

\* pauseConnection, disconnectProvider and triggerSync read the connection first.
UserCall(k, pc) == \E c \in Link :
  /\ there(c) /\ (pc = "sync" => links[c].status = "active")
  /\ LinkStart(k, [Unused EXCEPT !.pc = pc, !.link = c, !.seen = links[c]])
  /\ UNCHANGED granted

\* The user comes back from the provider's consent; the code is exchanged.
Callback(k) == \E p \in Provider :
  /\ granted < MaxLinkCalls /\ granted' = granted + 1
  /\ LinkStart(k, [Unused EXCEPT !.pc = "find", !.kind = p, !.grant = granted + 1])

-----------------------------------------------------------------------------
(* A connection is served, and its failures are counted.                    *)

LinkFrame == UNCHANGED <<linkServed, linkFailed, granted>>

LinkGo(k, q) == linkCalls' = [linkCalls EXCEPT ![k] = q] /\ LinkFrame

\* This connection is done: on to the next.
LinkNext(q) == IF q.todo = {} THEN Unused ELSE [q EXCEPT !.pc = "next", !.link = NoLink, !.seen = NoLink]

\* What the provider, or the action, comes to.
Serve(k) == \E c \in linkCalls[k].todo, ok \in BOOLEAN :
  LET q == [linkCalls[k] EXCEPT !.todo = @ \ {c}, !.link = c]
  IN  /\ q.pc = "next"
      /\ LinkGo(k, [q EXCEPT !.pc = CASE q.kind = "refresh" -> (IF ok THEN "store" ELSE "count")
                                      [] OTHER              -> (IF ok THEN "worked" ELSE "failed")])
      /\ streak' = [streak EXCEPT ![c].failed = IF ok THEN @ ELSE @ + 1]
      /\ UNCHANGED <<links, wish, met, undone>>

\* logEvent.  Of a connection deleted meanwhile it fails, in the handler of that
\* failure too, and the connections still to be served are not.
Log(k) ==
  LET q == linkCalls[k]
  IN  /\ q.pc \in {"worked", "failed"}
      /\ LinkGo(k, IF ~there(q.link) THEN Unused
                   ELSE IF q.pc = "failed" THEN [q EXCEPT !.pc = "count"]
                   ELSE IF q.kind = "inbound" THEN LinkNext(q) ELSE [q EXCEPT !.pc = "reset"])
      /\ UNCHANGED <<links, streak, wish, met, undone>>

\* An UPDATE by id changes nothing of a connection deleted meanwhile.
SetLink(c, row) == links' = IF there(c) THEN [links EXCEPT ![c] = row] ELSE links

\* Slip: what works is active.
ResetToActive(k) ==
  LET q == linkCalls[k]
  IN  /\ q.pc = "reset"
      /\ SetLink(q.link, [links[q.link] EXCEPT !.failures = 0, !.status = "active"])
      /\ LinkGo(k, LinkNext(q))
      /\ streak' = [streak EXCEPT ![q.link] = NoStreak]
      /\ UNCHANGED <<wish, met, undone>>

ResetFailures(k) ==
  LET q == linkCalls[k]
  IN  /\ q.pc = "reset"
      /\ SetLink(q.link, [links[q.link] EXCEPT !.failures = 0])
      /\ LinkGo(k, LinkNext(q))
      /\ streak' = [streak EXCEPT ![q.link] = NoStreak]
      /\ UNCHANGED <<wish, met, undone>>

Undo(c, stale) == undone' = IF there(c) /\ stale THEN undone \cup {links[c].provider} ELSE undone

\* The refreshed tokens, of the grant whose refresh token was selected.
StoreTokens(k) ==
  LET q == linkCalls[k]
      c == q.link
  IN  /\ q.pc = "store"
      /\ SetLink(c, [links[c] EXCEPT !.grant = q.copy[c].grant, !.failures = 0])
      /\ Undo(c, links[c] \in LinkRow /\ links[c].grant # q.copy[c].grant)
      /\ LinkGo(k, LinkNext(q))
      /\ streak' = [streak EXCEPT ![c] = NoStreak]
      /\ UNCHANGED <<wish, met>>

\* What worked but could not be recorded, or stored, is caught and counted as a failure.
Catch(k) ==
  LET q == linkCalls[k]
  IN  /\ q.pc \in {"worked", "store"} \/ (q.pc = "reset" /\ q.kind = "event")
      /\ linkFailed < MaxLinkFails /\ linkFailed' = linkFailed + 1
      /\ linkCalls' = [linkCalls EXCEPT ![k].pc = IF q.pc = "store" THEN "count" ELSE "failed"]
      /\ streak' = [streak EXCEPT ![q.link].failed = @ + 1]
      /\ UNCHANGED <<links, linkServed, granted, wish, met, undone>>

\* incrementFailures reads ...
CountRead(k) ==
  LET q == linkCalls[k]
  IN  /\ q.pc = "count"
      /\ LinkGo(k, IF there(q.link) THEN [q EXCEPT !.pc = "counted", !.seen = links[q.link]] ELSE LinkNext(q))
      /\ UNCHANGED <<links, streak, wish, met, undone>>

\* ... and writes the status it read, or disables the connection.
Counted(k, disabled(_)) ==
  LET q == linkCalls[k]
      n == q.seen.failures + 1
  IN  /\ q.pc = "counted"
      /\ SetLink(q.link, [links[q.link] EXCEPT !.failures = n, !.status = IF disabled(n) THEN "error" ELSE q.seen.status])
      /\ Undo(q.link, links[q.link] \in LinkRow /\ links[q.link].status # q.seen.status)
      /\ LinkGo(k, LinkNext(q))
      /\ UNCHANGED <<streak, wish, met>>

\* Slip: one failure too late.
CountLate(k) == Counted(k, LAMBDA n : n > FailureLimit)

Count(k) == Counted(k, LAMBDA n : n >= FailureLimit)

-----------------------------------------------------------------------------
(* What the user does.                                                      *)

\* pauseConnection turns paused into active, and all else, errors too, into paused.
Toggle(k) ==
  LET q   == linkCalls[k]
      new == IF q.seen.status = "paused" THEN "active" ELSE "paused"
  IN  /\ q.pc = "toggle"
      /\ SetLink(q.link, [links[q.link] EXCEPT !.status = new])
      /\ wish' = [wish EXCEPT ![q.link].status = new, ![q.link].at = q.seen.failures]
      /\ LinkGo(k, Unused)
      /\ UNCHANGED <<streak, met, undone>>

DropLink(k) ==
  LET q == linkCalls[k]
  IN  /\ q.pc = "drop"
      /\ links' = [links EXCEPT ![q.link] = UsedLink]
      /\ LinkGo(k, Unused)
      /\ UNCHANGED <<streak, wish, met, undone>>

\* triggerSync; its sync state cannot be stored for a connection deleted meanwhile.
Sync(k) ==
  LET q == linkCalls[k]
  IN  /\ q.pc = "sync"
      /\ LinkGo(k, IF there(q.link) THEN [q EXCEPT !.pc = "reset"] ELSE Unused)
      /\ UNCHANGED <<links, streak, wish, met, undone>>

\* handleCallback looks for a connection to the provider, any if there are more.
FindLink(k) ==
  LET q    == linkCalls[k]
      here == {c \in Link : there(c) /\ links[c].provider = q.kind}
  IN  /\ q.pc = "find"
      /\ IF here = {} THEN LinkGo(k, [q EXCEPT !.pc = "insert"]) /\ UNCHANGED met
         ELSE \E c \in here : /\ LinkGo(k, [q EXCEPT !.pc = "update", !.link = c])
                              /\ met' = met \cup {d \in {c} : \E j \in LinkCall : d \in worksOn(linkCalls[j])}
      /\ UNCHANGED <<links, streak, wish, undone>>

UpdateLink(k) ==
  LET q == linkCalls[k]
      c == q.link
  IN  /\ q.pc = "update"
      /\ SetLink(c, [links[c] EXCEPT !.status = "active", !.grant = q.grant, !.failures = 0])
      /\ wish' = [wish EXCEPT ![c] = [status |-> "active", grant |-> q.grant, at |-> 0]]
      /\ streak' = [streak EXCEPT ![c] = NoStreak]
      /\ Undo(c, links[c] \in LinkRow /\ links[c].grant > q.grant)
      /\ LinkGo(k, Unused)
      /\ UNCHANGED met

\* The unique key does not hold a second one back: its clan_id is null.
InsertLink(k) ==
  LET q    == linkCalls[k]
      free == {c \in Link : links[c] = NoLink}
      c    == CHOOSE d \in free : TRUE
  IN  /\ q.pc = "insert" /\ free # {}
      /\ links' = [links EXCEPT ![c] = [provider |-> q.kind, status |-> "active", failures |-> 0, grant |-> q.grant]]
      /\ wish' = [wish EXCEPT ![c] = [status |-> "active", grant |-> q.grant, at |-> 0]]
      /\ undone' = IF \E d \in Link : there(d) /\ links[d].provider = q.kind
                   THEN undone \cup {q.kind} ELSE undone
      /\ LinkGo(k, Unused)
      /\ UNCHANGED <<streak, met>>

\* An await that nothing catches fails, in a catch block too, or the process dies: the
\* call ends, the connections it still had to serve are not, and a failure it
\* had not counted never is.
LinkFails(k) ==
  LET q == linkCalls[k]
  IN  /\ q.pc # "idle"
      /\ linkFailed < MaxLinkFails /\ linkFailed' = linkFailed + 1
      /\ linkCalls' = [linkCalls EXCEPT ![k] = Unused]
      /\ streak' = IF q.pc \in {"failed", "count", "counted"} THEN [streak EXCEPT ![q.link].lost = @ + 1] ELSE streak
      /\ UNCHANGED <<links, linkServed, granted, wish, met, undone>>

LinkNextStep ==
  \E k \in LinkCall :
    \/ Dispatch(k) \/ RefreshJob(k) \/ Webhook(k) \/ Callback(k)
    \/ UserCall(k, "toggle") \/ UserCall(k, "drop") \/ UserCall(k, "sync")
    \/ Serve(k) \/ Log(k) \/ ResetFailures(k) \/ StoreTokens(k) \/ CountRead(k) \/ Count(k)
    \/ Toggle(k) \/ DropLink(k) \/ Sync(k) \/ FindLink(k) \/ UpdateLink(k) \/ InsertLink(k)
    \/ Catch(k) \/ LinkFails(k)

LinkSpec == LinkInit /\ [][LinkNextStep]_linkVars

-----------------------------------------------------------------------------
(* Properties.                                                              *)

\* A connection that no two calls ever worked on at once shows every failure since
\* a success was last stored, but those whose counting failed; FailureLimit of them
\* disable it, no fewer, and it is active with as many only where the user
\* turned it on again.
CountsFailuresInARow ==
  \A c \in Link \ met : there(c) /\ (\A k \in LinkCall : c \notin worksOn(linkCalls[k])) =>
    /\ links[c].failures + streak[c].lost = streak[c].failed
    /\ links[c].status = "error" => links[c].failures >= FailureLimit
    /\ links[c].status = "active" /\ links[c].failures >= FailureLimit => links[c].failures = wish[c].at

\* What the user made of a connection stands, and so do the tokens of the user's
\* last consent, whatever deliveries, refreshes and webhooks are under way, and a
\* provider has one connection: unless a counter or a token read before the change
\* was written after it, or two consents came in at once.
UserHasLastWord ==
  \A c \in Link : there(c) /\ links[c].provider \notin undone =>
    /\ links[c].status \in {wish[c].status, "error"}
    /\ links[c].grant = wish[c].grant
    /\ \A d \in Link : there(d) /\ links[d].provider = links[c].provider => c = d
=============================================================================
