--------------------------- MODULE StripeWebhook ---------------------------
(***************************************************************************)
(* How the subscriptions table learns what Stripe holds: by the webhook    *)
(* (backend/src/routes/webhooks/stripe.ts), which stores an event before   *)
(* applying it, and by GET /subscription (checkAndSyncFromStripe in        *)
(* services/subscription.service.ts), which asks Stripe and overwrites.    *)
(*                                                                         *)
(* Stripe is external.  It sends an event for every change, delivers it at *)
(* least once and in any order, and delivers it again until it is answered *)
(* with 200.  A delivery slot d and a slot g of GET /subscription are at   *)
(* one await of their handler; what they read is kept in the slot.         *)
(*                                                                         *)
(* A customer has one subscription here, so its id stands for both.        *)
(***************************************************************************)
EXTENDS Naturals, FiniteSets, Sequences

CONSTANTS
  User, Delivery, Get,  \* users, slots of the webhook and of GET /subscription
  SoldPrice,     \* STRIPE_PRICE_IDS
  LegacyPrice,   \* LEGACY_PRICE_IDS
  None,
  MaxCustomers,  \* bound: customers Stripe creates
  MaxEvents,     \* bound: events Stripe sends
  MaxFailures,   \* bound: failed awaits
  MaxGets,       \* bound: calls of GET /subscription
  OldSubscriber  \* a user who subscribed at a legacy price and still does, or None

ASSUME WebhookConstants ==
  /\ SoldPrice \cap LegacyPrice = {}
  /\ None \notin User \cup SoldPrice \cup LegacyPrice
  /\ MaxCustomers \in Nat \ {0} /\ MaxEvents \in Nat /\ MaxFailures \in Nat /\ MaxGets \in Nat
  /\ None \notin 1..MaxCustomers /\ None \notin 1..MaxEvents
  /\ OldSubscriber \in User \cup {None}

VARIABLES
  stripe,    \* stripe[c]: what Stripe holds of customer c
  sent,      \* the events of Stripe, in the order it produced them
  acked,     \* the events answered with 200, by number
  inbox,     \* the stripe_webhook_events table: status of event number e
  row,       \* row[u]: the row of user u in the subscriptions table
  delivery,  \* delivery[d]: the delivery slot d is serving
  get,       \* get[g]: the GET /subscription slot g is serving
  applied,   \* history: how often event e took effect
  ordered,   \* history: ordered[u] until an event or a GET of u came out of turn
  failures, gets

vars == <<stripe, sent, acked, inbox, row, delivery, get, applied, ordered, failures, gets>>

Price == SoldPrice \cup LegacyPrice
Customer == 1..MaxCustomers
Event == 1..MaxEvents

Held == [user: User \cup {None}, status: {"none", "active", "past_due", "canceled"},
         price: Price \cup {None}]

Message == [type: {"completed", "created", "updated", "deleted"}, cust: Customer,
            user: User, status: {"active", "past_due", "canceled"}, price: Price]

SubscriptionRow == [cust: Customer \cup {None}, sub: Customer \cup {None},
                    subscribed: BOOLEAN, tier: {"free", "clan"}, price: Price \cup {None}]

\* NULL is no row.
ASSUME NullIsNoRow == None \notin SubscriptionRow

FreeRow == [cust |-> None, sub |-> None, subscribed |-> FALSE, tier |-> "free", price |-> None]

DeliveryState == [pc: {"idle", "dedup", "store", "apply", "processed", "failed"},
                  event: Event \cup {None}]

IdleDelivery == [pc |-> "idle", event |-> None]

GetState == [pc: {"idle", "customers", "subs", "write"}, user: User \cup {None},
             cust: Customer \cup {None}, active: BOOLEAN, price: Price \cup {None},
             stale: BOOLEAN]

IdleGet == [pc |-> "idle", user |-> None, cust |-> None, active |-> FALSE,
            price |-> None, stale |-> FALSE]

TypeOK ==
  /\ stripe \in [Customer -> Held]
  /\ sent \in Seq(Message) /\ Len(sent) <= MaxEvents
  /\ acked \subseteq 1..Len(sent)
  /\ inbox \in [Event -> {"absent", "received", "processed", "failed"}]
  /\ row \in [User -> SubscriptionRow \cup {None}]
  /\ delivery \in [Delivery -> DeliveryState]
  /\ \A d \in Delivery : delivery[d].pc # "idle" => delivery[d].event \in 1..Len(sent)
  /\ get \in [Get -> GetState]
  /\ \A g \in Get : /\ get[g].pc # "idle" => get[g].user \in User
                    /\ get[g].pc = "subs" => get[g].cust \in Customer
                    /\ get[g].pc = "write" /\ get[g].active => get[g].price \in Price
  /\ applied \in [Event -> Nat]
  /\ ordered \in [User -> BOOLEAN]
  /\ failures \in 0..MaxFailures /\ gets \in 0..MaxGets

\* An old subscriber's row is as GET /subscription left it.
Init ==
  /\ \E p \in LegacyPrice \cup {None} :
       /\ p = None <=> OldSubscriber = None
       /\ stripe = [c \in Customer |->
            IF c = 1 /\ p # None
            THEN [user |-> OldSubscriber, status |-> "active", price |-> p]
            ELSE [user |-> None, status |-> "none", price |-> None]]
       /\ row = [u \in User |->
            IF u = OldSubscriber
            THEN [cust |-> 1, sub |-> 1, subscribed |-> TRUE, tier |-> "clan", price |-> p]
            ELSE None]
  /\ sent = <<>> /\ acked = {}
  /\ inbox = [e \in Event |-> "absent"]
  /\ delivery = [d \in Delivery |-> IdleDelivery]
  /\ get = [g \in Get |-> IdleGet]
  /\ applied = [e \in Event |-> 0]
  /\ ordered = [u \in User |-> TRUE]
  /\ failures = 0 /\ gets = 0

-----------------------------------------------------------------------------
(* config/stripe-prices.ts                                                  *)

isBasePriceId(p) == p \in SoldPrice

\* Current prices and legacy ones name the one paid tier.
tierFromPriceId(p) == IF p \in Price THEN "clan" ELSE "free"

-----------------------------------------------------------------------------
(* Stripe.                                                                  *)

customersOf(u) == {c \in Customer : stripe[c].user = u}

Newest(C) == CHOOSE c \in C : \A b \in C : b <= c

\* A GET in flight for u has read, or may have read, what is now outdated.
Outdate(u) ==
  get' = [g \in Get |-> IF get[g].pc # "idle" /\ get[g].user = u
                        THEN [get[g] EXCEPT !.stale = TRUE] ELSE get[g]]

message(type, c, h) ==
  [type |-> type, cust |-> c, user |-> h.user, status |-> h.status, price |-> h.price]

\* A checkout pays: Checkout is given an email and no customer, so each one
\* creates a customer.  The subscription is active at once.
CheckoutPaid(u, c, p) ==
  /\ Len(sent) + 2 <= MaxEvents
  /\ stripe[c].status = "none" /\ \A b \in Customer : b < c => stripe[b].status # "none"
  /\ p \in SoldPrice
  /\ LET h == [user |-> u, status |-> "active", price |-> p]
     IN  /\ stripe' = [stripe EXCEPT ![c] = h]
         /\ sent' = sent \o <<message("completed", c, h), message("created", c, h)>>
  /\ Outdate(u)
  /\ UNCHANGED <<acked, inbox, row, delivery, applied, ordered, failures, gets>>

\* The customer portal, a payment that fails or succeeds, a cancellation.
SubscriptionChanges(c, status, p) ==
  /\ Len(sent) < MaxEvents
  /\ stripe[c].status \in {"active", "past_due"}
  /\ LET h == [stripe[c] EXCEPT !.status = status, !.price = p]
     IN  /\ h # stripe[c]
         /\ p = stripe[c].price \/ (p \in SoldPrice /\ status = stripe[c].status)
         /\ stripe' = [stripe EXCEPT ![c] = h]
         /\ sent' = Append(sent,
              message(IF status = "canceled" THEN "deleted" ELSE "updated", c, h))
  /\ Outdate(stripe[c].user)
  /\ UNCHANGED <<acked, inbox, row, delivery, applied, ordered, failures, gets>>

\* Stripe delivers an event, again if it was not acknowledged.
Deliver(d, e) ==
  /\ delivery[d].pc = "idle"
  /\ e \in 1..Len(sent)
  /\ delivery' = [delivery EXCEPT ![d] = [pc |-> "dedup", event |-> e]]
  /\ UNCHANGED <<stripe, sent, acked, inbox, row, get, applied, ordered, failures, gets>>

-----------------------------------------------------------------------------
(* POST /api/webhooks/stripe                                                *)

at(d, pc) == delivery[d].pc = pc

Goto(d, pc) == delivery' = [delivery EXCEPT ![d].pc = pc]

Done(d) == delivery' = [delivery EXCEPT ![d] = IdleDelivery]

\* Slip: an event that was stored and not processed is stored again.
DeduplicateProcessed(d) ==
  /\ at(d, "dedup")
  /\ \/ /\ inbox[delivery[d].event] = "processed"
        /\ acked' = acked \cup {delivery[d].event}
        /\ Done(d)
     \/ /\ inbox[delivery[d].event] # "processed"
        /\ Goto(d, "store")
        /\ UNCHANGED acked
  /\ UNCHANGED <<stripe, sent, inbox, row, get, applied, ordered, failures, gets>>

\* Any stored event counts as a duplicate, whatever its status.
Deduplicate(d) ==
  /\ at(d, "dedup")
  /\ \/ /\ inbox[delivery[d].event] # "absent"
        /\ acked' = acked \cup {delivery[d].event}
        /\ Done(d)
     \/ /\ inbox[delivery[d].event] = "absent"
        /\ Goto(d, "store")
        /\ UNCHANGED acked
  /\ UNCHANGED <<stripe, sent, inbox, row, get, applied, ordered, failures, gets>>

\* Slip: no unique index, so two deliveries that both found no row both go on.
StoreTwice(d) ==
  /\ at(d, "store")
  /\ inbox' = [inbox EXCEPT ![delivery[d].event] = "received"]
  /\ Goto(d, "apply")
  /\ UNCHANGED <<stripe, sent, acked, row, get, applied, ordered, failures, gets>>

\* stripe_event_id is unique: the insert of a second delivery throws.
Store(d) ==
  /\ at(d, "store")
  /\ \/ /\ inbox[delivery[d].event] = "absent"
        /\ inbox' = [inbox EXCEPT ![delivery[d].event] = "received"]
        /\ Goto(d, "apply")
     \/ /\ inbox[delivery[d].event] # "absent"
        /\ Done(d)
        /\ UNCHANGED inbox
  /\ UNCHANGED <<stripe, sent, acked, row, get, applied, ordered, failures, gets>>

\* The row of the user after event m.
Upserted(r, m) ==
  IF r = None THEN [FreeRow EXCEPT !.cust = m.cust] ELSE [r EXCEPT !.cust = m.cust]

\* The tier comes off an item at a price sold now, and off no other.
Updated(r, m) ==
  [r EXCEPT !.subscribed = (m.status = "active"), !.sub = m.cust,
            !.tier  = IF isBasePriceId(m.price) THEN tierFromPriceId(m.price) ELSE "free",
            !.price = IF isBasePriceId(m.price) THEN m.price ELSE None]

\* Slip: a cancellation takes the ids away and leaves the flag.
DeletedStillSubscribed(r) ==
  [r EXCEPT !.tier = "free", !.sub = None, !.price = None]

Deleted(r) ==
  [r EXCEPT !.subscribed = FALSE, !.tier = "free", !.sub = None, !.price = None]

Effect(m) ==
  [u \in User |->
     CASE m.type = "completed" /\ u = m.user -> Upserted(row[u], m)
       [] m.type \in {"created", "updated"} /\ row[u] # None /\ row[u].cust = m.cust ->
            Updated(row[u], m)
       [] m.type = "deleted" /\ row[u] # None /\ row[u].cust = m.cust -> Deleted(row[u])
       [] OTHER -> row[u]]

\* One UPDATE or upsert; the profile it needs is there.
Apply(d) ==
  /\ at(d, "apply")
  /\ LET e == delivery[d].event
         u == sent[e].user
     IN  /\ row' = Effect(sent[e])
         /\ applied' = [applied EXCEPT ![e] = @ + 1]
         /\ ordered' = [ordered EXCEPT ![u] =
              @ /\ \A f \in 1..(e - 1) : sent[f].user = u => applied[f] > 0]
         /\ Outdate(u)
  /\ Goto(d, "processed")
  /\ UNCHANGED <<stripe, sent, acked, inbox, failures, gets>>

\* Slip: the error is swallowed.
ApplyThrowsUnseen(d) ==
  /\ at(d, "apply")
  /\ failures < MaxFailures
  /\ failures' = failures + 1
  /\ Goto(d, "processed")
  /\ UNCHANGED <<stripe, sent, acked, inbox, row, get, applied, ordered, gets>>

\* The statement throws: the handler goes on to mark the event and rethrow.
ApplyThrows(d) ==
  /\ at(d, "apply")
  /\ failures < MaxFailures
  /\ failures' = failures + 1
  /\ Goto(d, "failed")
  /\ UNCHANGED <<stripe, sent, acked, inbox, row, get, applied, ordered, gets>>

\* Marked, the event is answered with 200.
MarkProcessed(d) ==
  /\ at(d, "processed")
  /\ inbox' = [inbox EXCEPT ![delivery[d].event] = "processed"]
  /\ acked' = acked \cup {delivery[d].event}
  /\ Done(d)
  /\ UNCHANGED <<stripe, sent, row, get, applied, ordered, failures, gets>>

\* Marked, the event is answered with 500, so Stripe delivers it again.
MarkFailed(d) ==
  /\ at(d, "failed")
  /\ inbox' = [inbox EXCEPT ![delivery[d].event] = "failed"]
  /\ Done(d)
  /\ UNCHANGED <<stripe, sent, acked, row, get, applied, ordered, failures, gets>>

\* The process dies, or a statement outside the try throws; marking the event
\* processed throws inside it.
Crash(d) ==
  /\ ~at(d, "idle")
  /\ failures < MaxFailures
  /\ failures' = failures + 1
  /\ \/ Done(d)
     \/ at(d, "processed") /\ Goto(d, "failed")
  /\ UNCHANGED <<stripe, sent, acked, inbox, row, get, applied, ordered, gets>>

-----------------------------------------------------------------------------
(* GET /api/v1/subscription: checkAndSyncFromStripe                         *)

GetStart(g, u) ==
  /\ get[g].pc = "idle"
  /\ gets < MaxGets
  /\ gets' = gets + 1
  /\ get' = [get EXCEPT ![g] = [IdleGet EXCEPT !.pc = "customers", !.user = u]]
  /\ UNCHANGED <<stripe, sent, acked, inbox, row, delivery, applied, ordered, failures>>

\* Slip: no early return when the email has no customer.
GetCustomersAny(g) ==
  /\ get[g].pc = "customers"
  /\ LET C == customersOf(get[g].user)
     IN  get' = [get EXCEPT ![g] = [@ EXCEPT
           !.pc = "subs", !.cust = IF C = {} THEN None ELSE Newest(C)]]
  /\ UNCHANGED <<stripe, sent, acked, inbox, row, delivery, applied, ordered, failures, gets>>

\* customers.list answers the newest first, and only one is asked for.
GetCustomers(g) ==
  /\ get[g].pc = "customers"
  /\ LET C == customersOf(get[g].user)
     IN  \/ /\ C = {}
            /\ get' = [get EXCEPT ![g].pc = "write"]
         \/ \E c \in C :
              /\ \A b \in C : b <= c
              /\ get' = [get EXCEPT ![g] = [@ EXCEPT !.pc = "subs", !.cust = c]]
  /\ UNCHANGED <<stripe, sent, acked, inbox, row, delivery, applied, ordered, failures, gets>>

\* subscriptions.list is asked for an active one.
GetSubs(g) ==
  /\ get[g].pc = "subs"
  /\ LET held == stripe[get[g].cust]
     IN  get' = [get EXCEPT ![g] = [@ EXCEPT
           !.pc = "write", !.active = (held.status = "active"), !.price = held.price]]
  /\ UNCHANGED <<stripe, sent, acked, inbox, row, delivery, applied, ordered, failures, gets>>

\* Slip: on a conflict only the flag and the tier are set.
SyncedTierOnly(r, q) ==
  LET base == IF r = None THEN FreeRow ELSE r
  IN  IF q.cust = None THEN base
      ELSE [base EXCEPT !.cust = q.cust, !.subscribed = q.active,
                        !.tier = IF q.active THEN tierFromPriceId(q.price) ELSE "free"]

\* The upsert.  The branch without a subscription keeps the old ids and price;
\* the other takes the item's price even if it is no longer sold.
Synced(r, q) ==
  LET base == IF r = None THEN FreeRow ELSE r
  IN  CASE q.cust = None -> base
        [] q.active      -> [cust |-> q.cust, sub |-> q.cust, subscribed |-> TRUE,
                             tier |-> tierFromPriceId(q.price), price |-> q.price]
        [] OTHER         -> [base EXCEPT !.cust = q.cust, !.subscribed = FALSE,
                                         !.tier = "free"]

GetWrite(g) ==
  /\ get[g].pc = "write"
  /\ LET u == get[g].user
     IN  /\ row' = [row EXCEPT ![u] = Synced(@, get[g])]
         /\ ordered' = [ordered EXCEPT ![u] = @ /\ ~get[g].stale]
  /\ get' = [get EXCEPT ![g] = IdleGet]
  /\ UNCHANGED <<stripe, sent, acked, inbox, delivery, applied, failures, gets>>

\* POST /subscription/select-free, and GET while Stripe is not configured.
SelectFree(u) ==
  /\ row[u] = None
  /\ row' = [row EXCEPT ![u] = FreeRow]
  /\ UNCHANGED <<stripe, sent, acked, inbox, delivery, get, applied, ordered, failures, gets>>

-----------------------------------------------------------------------------

Handler(d) == Deduplicate(d) \/ Store(d) \/ Apply(d) \/ MarkProcessed(d) \/ MarkFailed(d)

GetHandler(g) == GetCustomers(g) \/ GetSubs(g) \/ GetWrite(g)

Next ==
  \/ \E u \in User, c \in Customer, p \in Price : CheckoutPaid(u, c, p)
  \/ \E c \in Customer, s \in {"active", "past_due", "canceled"}, p \in Price :
       SubscriptionChanges(c, s, p)
  \/ \E d \in Delivery : Handler(d) \/ ApplyThrows(d) \/ Crash(d)
  \/ \E d \in Delivery, e \in Event : Deliver(d, e)
  \/ \E g \in Get : GetHandler(g) \/ \E u \in User : GetStart(g, u)
  \/ \E u \in User : SelectFree(u)

Spec == Init /\ [][Next]_vars

\* Handlers run to their end, and Stripe delivers an event it has not seen
\* acknowledged again and again, whenever a slot is free.
Fairness ==
  /\ \A d \in Delivery : WF_vars(Handler(d))
  /\ \A e \in Event : SF_vars(\E d \in Delivery : Deliver(d, e))

FairSpec == Spec /\ Fairness

-----------------------------------------------------------------------------
(* Properties.                                                              *)

\* An event takes effect at most once, however often and in however many slots
\* at a time it is delivered: the unique index decides, not the SELECT.
AppliedAtMostOnce == \A e \in Event : applied[e] <= 1

\* An event marked processed has taken effect, and one that was never stored
\* has neither taken effect nor been acknowledged.
InboxTellsTheTruth ==
  \A e \in Event :
    /\ inbox[e] = "processed" => applied[e] = 1
    /\ inbox[e] = "absent" => applied[e] = 0 /\ e \notin acked

\* The row says of its user's newest subscription what Stripe says.
Agrees(u) ==
  LET c == Newest(customersOf(u))
  IN  /\ row[u] # None /\ row[u].cust = c
      /\ row[u].subscribed = (stripe[c].status = "active")
      /\ row[u].subscribed =>
           row[u].sub = c /\ row[u].tier = "clan" /\ row[u].price = stripe[c].price

\* The row of a user on a price sold now is right once all events of that user
\* took effect, if they did in the order Stripe produced them and no GET wrote
\* what it had read before a change.
InOrderAgrees ==
  \A u \in User :
    /\ ordered[u] /\ customersOf(u) # {}
    /\ \A e \in 1..Len(sent) : sent[e].user = u => applied[e] > 0
    /\ stripe[Newest(customersOf(u))].price \in SoldPrice
    => Agrees(u)

\* A GET that nothing overtook leaves the row right, whatever went wrong before.
GetHeals ==
  [][\A g \in Get, u \in User :
       /\ GetWrite(g) /\ get[g].user = u
       /\ ~get[g].stale /\ get[g].cust # None
       => Agrees(u)']_vars

\* Every event ends up acknowledged: no retry goes on for ever.
EventsAcknowledged ==
  \A e \in Event : (e <= Len(sent)) ~> (e \in acked)

\* What has become of an event, as EventInbox sees it.
inHand(e) == \E d \in Delivery : delivery[d].event = e /\ at(d, "apply")

outcomeOf(e) ==
  IF applied[e] > 0 THEN "applied"
  ELSE IF inbox[e] = "absent" THEN "new"
  ELSE IF inHand(e) THEN "claimed" ELSE "lost"

Inbox == INSTANCE EventInbox WITH Event <- Event, outcome <- [e \in Event |-> outcomeOf(e)]

\* The webhook is such an inbox: an event is claimed once, and then takes
\* effect once or is lost.
RefinesInbox == Inbox!InboxFairSpec

\* What webhooks/stripe.ts says of its check: "if we've already processed this
\* event, return early".  An event answered as a duplicate was processed.
DuplicateWasProcessed ==
  [][\A d \in Delivery :
       Deduplicate(d) /\ acked' # acked => inbox[delivery[d].event] = "processed"]_vars

\* What config/stripe-prices.ts says of legacy prices: they are recognised "so
\* the webhook can map such a subscription to a tier instead of silently
\* resolving it to Free".
LegacyKeepsTier ==
  \A u \in User : row[u] # None /\ row[u].subscribed => row[u].tier = "clan"
=============================================================================
