---------------------------- MODULE RealtimeHub ----------------------------
(***************************************************************************)
(* Presence on a board: tickets (services/realtime-ticket.service.ts), the *)
(* socket route (routes/realtime/index.ts), the rosters of the hub         *)
(* (services/realtime-hub.ts) and what useRealtimeBoard shows of them.     *)
(*                                                                         *)
(* A tab opens one socket at a time and one more after each loss, for the  *)
(* board of its ticket.  Messages of a socket arrive in order; its death   *)
(* is noticed by the tab at once and by the server some time later.        *)
(***************************************************************************)
EXTENDS Integers, Sequences

CONSTANTS
  Socket,
  Channel,     \* boards
  ProfileOf,   \* socket -> profiles.id of its user, which the ticket carries
  SessionOf,   \* socket -> auth_users.id of its user, which the tab knows
  NoBoard,
  MaxMessages  \* bound: rosters on their way to one socket

\* db/schema/auth.ts on auth_users.id: "Not a uuid"; profiles.id is one.
ASSUME HubConstants ==
  /\ DOMAIN ProfileOf = Socket /\ DOMAIN SessionOf = Socket
  /\ \A s, t \in Socket : /\ ProfileOf[s] # SessionOf[t]
                          /\ ProfileOf[s] = ProfileOf[t] <=> SessionOf[s] = SessionOf[t]
  /\ NoBoard \notin Channel /\ MaxMessages \in Nat \ {0}

VARIABLES
  ticket,   \* the board each socket's ticket is for, NoBoard for none
  fresh,    \* the ticket is not older than TICKET_TTL_MS
  channel,  \* board -> the sockets that joined and have not left
  line,     \* socket -> is it "new", "open", "dead" or "closed"
  wire,     \* rosters sent to a socket and not yet handled
  others    \* presenceUsers of the socket's tab

hubVars == <<ticket, fresh, channel, line, wire, others>>

Profile == {ProfileOf[s] : s \in Socket}

HubTypeOK ==
  /\ ticket \in [Socket -> Channel \cup {NoBoard}]
  /\ fresh \in [Socket -> BOOLEAN]
  /\ channel \in [Channel -> SUBSET Socket]
  /\ line \in [Socket -> {"new", "open", "dead", "closed"}]
  /\ wire \in [Socket -> Seq(SUBSET Profile)]
  /\ others \in [Socket -> SUBSET Profile]

HubInit ==
  /\ ticket = [s \in Socket |-> NoBoard]
  /\ fresh = [s \in Socket |-> FALSE]
  /\ channel = [b \in Channel |-> {}]
  /\ line = [s \in Socket |-> "new"]
  /\ wire = [s \in Socket |-> <<>>]
  /\ others = [s \in Socket |-> {}]

-----------------------------------------------------------------------------

\* Everyone with a socket on the board, once.
rosterOf(sockets) == {ProfileOf[s] : s \in sockets}

\* broadcastPresence: a socket that is not open is passed over.
broadcastPresence(sockets) ==
  wire' = [s \in Socket |->
             IF s \in sockets /\ line'[s] = "open" THEN Append(wire[s], rosterOf(sockets))
             ELSE wire[s]]

Room(sockets) == \A s \in sockets : Len(wire[s]) < MaxMessages

IssueTicket(s) == \E b \in Channel :
  /\ line[s] = "new" /\ ~fresh[s]
  /\ ticket' = [ticket EXCEPT ![s] = b]
  /\ fresh' = [fresh EXCEPT ![s] = TRUE]
  /\ UNCHANGED <<channel, line, wire, others>>

Expire(s) ==
  /\ fresh[s] /\ line[s] = "new"
  /\ fresh' = [fresh EXCEPT ![s] = FALSE]
  /\ UNCHANGED <<ticket, channel, line, wire, others>>

Join(s) ==
  /\ line[s] = "new" /\ fresh[s] /\ Room(channel[ticket[s]])
  /\ line' = [line EXCEPT ![s] = "open"]
  /\ channel' = [channel EXCEPT ![ticket[s]] = @ \cup {s}]
  /\ broadcastPresence(channel[ticket[s]] \cup {s})
  /\ UNCHANGED <<ticket, fresh, others>>

\* The socket is closed with 1008.
Refuse(s) ==
  /\ line[s] = "new" /\ ticket[s] # NoBoard /\ ~fresh[s]
  /\ line' = [line EXCEPT ![s] = "closed"]
  /\ UNCHANGED <<ticket, fresh, channel, wire, others>>

\* The connection is lost, or the tab leaves: it shows nobody from here on.
Drop(s) ==
  /\ line[s] = "open"
  /\ line' = [line EXCEPT ![s] = "dead"]
  /\ wire' = [wire EXCEPT ![s] = <<>>]
  /\ others' = [others EXCEPT ![s] = {}]
  /\ UNCHANGED <<ticket, fresh, channel>>

\* Slip: only those who stay alone are told.
LeaveQuietly(s) ==
  /\ line[s] = "dead"
  /\ line' = [line EXCEPT ![s] = "closed"]
  /\ channel' = [channel EXCEPT ![ticket[s]] = @ \ {s}]
  /\ UNCHANGED <<ticket, fresh, wire, others>>

\* leave, on close or on error; the last one of a board takes the channel down.
Leave(s) ==
  /\ line[s] = "dead"
  /\ LET left == channel[ticket[s]] \ {s}
     IN  /\ Room(left)
         /\ line' = [line EXCEPT ![s] = "closed"]
         /\ channel' = [channel EXCEPT ![ticket[s]] = @ \ {s}]
         /\ broadcastPresence(left)
  /\ UNCHANGED <<ticket, fresh, others>>

\* onmessage: filter((p) => p.userId !== user.id), with the session's user.
Receive(s) ==
  /\ line[s] = "open" /\ wire[s] # <<>>
  /\ others' = [others EXCEPT ![s] = {p \in Head(wire[s]) : p # SessionOf[s]}]
  /\ wire' = [wire EXCEPT ![s] = Tail(@)]
  /\ UNCHANGED <<ticket, fresh, channel, line>>

HubNext == \E s \in Socket :
  IssueTicket(s) \/ Expire(s) \/ Join(s) \/ Refuse(s) \/ Drop(s) \/ Leave(s) \/ Receive(s)

HubSpec == HubInit /\ [][HubNext]_hubVars

-----------------------------------------------------------------------------
(* Properties.                                                              *)

\* A tab that has handled all it was sent shows everyone who has a socket on
\* its board, whoever came, went, came twice or vanished in between.
RosterIsShown ==
  \A s \in Socket : line[s] = "open" /\ wire[s] = <<>> =>
    others[s] = rosterOf(channel[ticket[s]])

\* What useRealtimeBoard says of presence: "the current user is tracked so
\* others see them, but filtered out of the returned list".
NeverSeesItself == \A s \in Socket : ProfileOf[s] \notin others[s]
=============================================================================
