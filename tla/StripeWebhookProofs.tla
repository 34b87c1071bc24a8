------------------------ MODULE StripeWebhookProofs ------------------------
(***************************************************************************)
(* Proofs about StripeWebhook, for any number of users, customers, events, *)
(* deliveries at a time and failures.                                      *)
(***************************************************************************)
EXTENDS StripeWebhook, SequenceTheorems, WellFoundedInduction, TLAPS

\* Stripe knows whose a subscription is and at which price.
HeldOK ==
  \A c \in Customer : stripe[c].status # "none" =>
    stripe[c].user \in User /\ stripe[c].price \in Price

-----------------------------------------------------------------------------
(* Type correctness.                                                        *)

LEMMA IdleFacts ==
  /\ IdleDelivery \in DeliveryState /\ IdleDelivery.pc = "idle"
  /\ IdleGet \in GetState /\ IdleGet.pc = "idle" /\ ~IdleGet.active
BY DEF IdleDelivery, DeliveryState, IdleGet, GetState

LEMMA InitType == Init => TypeOK /\ HeldOK
<1> SUFFICES ASSUME Init PROVE TypeOK /\ HeldOK
  OBVIOUS
<1>1. PICK p \in LegacyPrice \cup {None} :
        /\ p = None <=> OldSubscriber = None
        /\ stripe = [c \in Customer |->
             IF c = 1 /\ p # None
             THEN [user |-> OldSubscriber, status |-> "active", price |-> p]
             ELSE [user |-> None, status |-> "none", price |-> None]]
        /\ row = [u \in User |->
             IF u = OldSubscriber
             THEN [cust |-> 1, sub |-> 1, subscribed |-> TRUE, tier |-> "clan", price |-> p]
             ELSE None]
  BY DEF Init
<1>2. p # None => OldSubscriber \in User /\ p \in Price
  BY <1>1, WebhookConstants DEF Price
<1>3. stripe \in [Customer -> Held] /\ HeldOK
  BY <1>1, <1>2 DEF Held, HeldOK
<1>4. row \in [User -> SubscriptionRow \cup {None}]
  <2> SUFFICES ASSUME NEW u \in User PROVE row[u] \in SubscriptionRow \cup {None}
    BY <1>1
  <2>1. CASE u = OldSubscriber
    <3>1. p \in Price /\ 1 \in Customer
      BY <2>1, <1>1, <1>2, WebhookConstants DEF Customer
    <3> QED
      BY <3>1, <2>1, <1>1 DEF SubscriptionRow
  <2> QED
    BY <2>1, <1>1
<1>5. sent \in Seq(Message) /\ Len(sent) <= MaxEvents /\ acked \subseteq 1..Len(sent)
  BY WebhookConstants DEF Init
<1>6. /\ delivery \in [Delivery -> DeliveryState] /\ \A d \in Delivery : delivery[d].pc = "idle"
      /\ get \in [Get -> GetState] /\ \A g \in Get : get[g].pc = "idle"
  BY IdleFacts DEF Init
<1>7. /\ inbox \in [Event -> {"absent", "received", "processed", "failed"}]
      /\ applied \in [Event -> Nat] /\ ordered \in [User -> BOOLEAN]
      /\ failures \in 0..MaxFailures /\ gets \in 0..MaxGets
  BY WebhookConstants DEF Init
<1> QED
  BY <1>3, <1>4, <1>5, <1>6, <1>7 DEF TypeOK

\* The parts of TypeOK that speak of the slots.
DeliveryOK ==
  /\ delivery \in [Delivery -> DeliveryState]
  /\ \A d \in Delivery : delivery[d].pc # "idle" => delivery[d].event \in 1..Len(sent)

WellFormed(q) ==
  /\ q \in GetState
  /\ q.pc # "idle" => q.user \in User
  /\ q.pc = "subs" => q.cust \in Customer
  /\ q.pc = "write" /\ q.active => q.price \in Price

GetOK == get \in [Get -> GetState] /\ \A g \in Get : WellFormed(get[g])

LEMMA SlotsOK == TypeOK => DeliveryOK /\ GetOK
BY DEF TypeOK, DeliveryOK, GetOK, WellFormed

\* A delivery slot that moves to q, about an event that was sent.
LEMMA DeliveryMoves ==
  ASSUME TypeOK, NEW d \in Delivery, NEW q \in DeliveryState,
         q.pc # "idle" => q.event \in 1..Len(sent),
         delivery' = [delivery EXCEPT ![d] = q], UNCHANGED sent
  PROVE  DeliveryOK'
BY DEF TypeOK, DeliveryOK

\* A delivery under way is about an event that was sent.
LEMMA InProgress ==
  ASSUME TypeOK, NEW d \in Delivery, delivery[d].pc # "idle"
  PROVE  /\ delivery[d].event \in 1..Len(sent)
         /\ delivery[d].event \in Event
         /\ sent[delivery[d].event] \in Message
         /\ delivery[d] \in DeliveryState
<1>1. /\ delivery[d].event \in 1..Len(sent) /\ delivery[d] \in DeliveryState
      /\ sent \in Seq(Message) /\ Len(sent) <= MaxEvents /\ Len(sent) \in Nat
  BY DEF TypeOK
<1>2. delivery[d].event \in Event
  BY <1>1, WebhookConstants DEF Event
<1>3. sent[delivery[d].event] \in Message
  BY <1>1, ElementOfSeq
<1> QED
  BY <1>1, <1>2, <1>3

LEMMA GotoMoves ==
  ASSUME TypeOK, NEW d \in Delivery, delivery[d].pc # "idle",
         NEW pc \in {"dedup", "store", "apply", "processed", "failed"}, Goto(d, pc), UNCHANGED sent
  PROVE  DeliveryOK'
<1> DEFINE q == [delivery[d] EXCEPT !.pc = pc]
<1>1. q \in DeliveryState /\ q.event \in 1..Len(sent)
  BY InProgress DEF DeliveryState
<1>2. delivery' = [delivery EXCEPT ![d] = q]
  BY DEF Goto
<1> QED
  BY <1>1, <1>2, DeliveryMoves

LEMMA DoneMoves ==
  ASSUME TypeOK, NEW d \in Delivery, Done(d), UNCHANGED sent
  PROVE  DeliveryOK'
BY IdleFacts, DeliveryMoves DEF Done

\* Every event is applied to rows that are, and stay, well-formed.
LEMMA EffectType ==
  ASSUME TypeOK, NEW m \in Message
  PROVE  Effect(m) \in [User -> SubscriptionRow \cup {None}]
<1> SUFFICES ASSUME NEW u \in User
             PROVE  Effect(m)[u] \in SubscriptionRow \cup {None}
  BY DEF Effect
<1>1. row[u] \in SubscriptionRow \cup {None} /\ m.cust \in Customer /\ m.price \in Price
  BY DEF TypeOK, Message
<1>2. Upserted(row[u], m) \in SubscriptionRow
  BY <1>1 DEF Upserted, FreeRow, SubscriptionRow
<1>3. row[u] # None => Updated(row[u], m) \in SubscriptionRow
  BY <1>1 DEF Updated, SubscriptionRow, tierFromPriceId
<1>4. row[u] # None => Deleted(row[u]) \in SubscriptionRow
  BY <1>1 DEF Deleted, SubscriptionRow
<1>5. \/ Effect(m)[u] = Upserted(row[u], m)
      \/ row[u] # None /\ Effect(m)[u] = Updated(row[u], m)
      \/ row[u] # None /\ Effect(m)[u] = Deleted(row[u])
      \/ Effect(m)[u] = row[u]
  BY DEF Effect
<1> QED
  BY <1>1, <1>2, <1>3, <1>4, <1>5

LEMMA OutdateMoves ==
  ASSUME TypeOK, NEW u, Outdate(u)
  PROVE  GetOK'
<1> SUFFICES ASSUME NEW g \in Get PROVE get'[g] \in GetState /\ WellFormed(get'[g])
  BY DEF GetOK, Outdate
<1>1. get[g] \in GetState /\ WellFormed(get[g])
  BY SlotsOK DEF GetOK
<1>2. get'[g] = get[g] \/ get'[g] = [get[g] EXCEPT !.stale = TRUE]
  BY DEF Outdate
<1> QED
  BY <1>1, <1>2 DEF WellFormed, GetState

LEMMA GetMoves ==
  ASSUME TypeOK, NEW g \in Get, NEW q, WellFormed(q), get' = [get EXCEPT ![g] = q]
  PROVE  GetOK'
BY SlotsOK DEF GetOK, WellFormed

LEMMA StripeStep ==
  ASSUME TypeOK, HeldOK, NEW c \in Customer, NEW h \in Held, h.user \in User, h.price \in Price,
         h.status # "none", stripe' = [stripe EXCEPT ![c] = h],
         NEW s \in Seq(Message), sent' = sent \o s, Len(sent) + Len(s) <= MaxEvents,
         Outdate(h.user),
         UNCHANGED <<acked, inbox, row, delivery, applied, ordered, failures, gets>>
  PROVE  TypeOK' /\ HeldOK'
<1>1. stripe' \in [Customer -> Held] /\ HeldOK'
  BY DEF TypeOK, HeldOK
<1>2. /\ sent' \in Seq(Message) /\ Len(sent') = Len(sent) + Len(s)
      /\ Len(sent) \in Nat /\ Len(s) \in Nat /\ MaxEvents \in Nat
  BY WebhookConstants, ConcatProperties DEF TypeOK
<1>3. 1..Len(sent) \subseteq 1..Len(sent')
  BY <1>2
<1>4. acked' \subseteq 1..Len(sent') /\ DeliveryOK'
  BY <1>3 DEF TypeOK, DeliveryOK
<1>5. GetOK'
  BY OutdateMoves
<1> QED
  BY <1>1, <1>2, <1>4, <1>5 DEF TypeOK, GetOK, WellFormed, DeliveryOK

LEMMA StripeType ==
  ASSUME TypeOK, HeldOK, NEW c \in Customer, NEW p \in Price, NEW u \in User,
         NEW t \in {"active", "past_due", "canceled"},
         CheckoutPaid(u, c, p) \/ SubscriptionChanges(c, t, p)
  PROVE  TypeOK' /\ HeldOK'
<1>1. CASE CheckoutPaid(u, c, p)
  <2> DEFINE h == [user |-> u, status |-> "active", price |-> p]
             s == <<message("completed", c, h), message("created", c, h)>>
  <2>1. h \in Held /\ h.user = u /\ h.price = p /\ h.status # "none"
    BY DEF Held
  <2>2. /\ message("completed", c, h) \in Message /\ message("created", c, h) \in Message
    BY DEF message, Message
  <2>3. s \in Seq(Message) /\ Len(s) = 2
    BY <2>2
  <2>4. /\ stripe' = [stripe EXCEPT ![c] = h] /\ sent' = sent \o s
        /\ Len(sent) + Len(s) <= MaxEvents
        /\ Outdate(h.user)
        /\ UNCHANGED <<acked, inbox, row, delivery, applied, ordered, failures, gets>>
    BY <1>1, <2>1, <2>3 DEF CheckoutPaid
  <2> HIDE DEF h, s
  <2> QED
    BY <2>1, <2>3, <2>4, StripeStep
<1>2. CASE SubscriptionChanges(c, t, p)
  <2> DEFINE h == [stripe[c] EXCEPT !.status = t, !.price = p]
             m == message(IF t = "canceled" THEN "deleted" ELSE "updated", c, h)
             s == <<m>>
  <2>1. stripe[c] \in Held /\ stripe[c].user \in User
    BY <1>2 DEF TypeOK, HeldOK, SubscriptionChanges
  <2>2. h \in Held /\ h.user = stripe[c].user /\ h.price = p /\ h.status = t
    BY <2>1 DEF Held
  <2>3. m \in Message
    BY <2>1, <2>2 DEF message, Message
  <2>4. s \in Seq(Message) /\ Len(s) = 1
    BY <2>3
  <2>5. /\ stripe' = [stripe EXCEPT ![c] = h] /\ sent' = Append(sent, m)
        /\ Len(sent) < MaxEvents
        /\ Outdate(h.user)
        /\ UNCHANGED <<acked, inbox, row, delivery, applied, ordered, failures, gets>>
    BY <1>2, <2>2 DEF SubscriptionChanges
  <2>6. sent' = sent \o s /\ Len(sent) + Len(s) <= MaxEvents
    <3>1. sent \in Seq(Message) /\ Len(sent) \in Nat /\ MaxEvents \in Nat
      BY WebhookConstants DEF TypeOK
    <3>2. Append(sent, m) = sent \o <<m>>
      BY <3>1, <2>3, AppendIsConcat
    <3> QED
      BY <3>1, <3>2, <2>4, <2>5
  <2> HIDE DEF h, m, s
  <2> QED
    BY <2>1, <2>2, <2>4, <2>5, <2>6, StripeStep
<1> QED
  BY <1>1, <1>2

\* What a step that leaves Stripe alone has to show.
LEMMA ServerStep ==
  ASSUME TypeOK, HeldOK, UNCHANGED <<stripe, sent>>, DeliveryOK', GetOK',
         acked' \subseteq 1..Len(sent),
         inbox' \in [Event -> {"absent", "received", "processed", "failed"}],
         row' \in [User -> SubscriptionRow \cup {None}],
         applied' \in [Event -> Nat], ordered' \in [User -> BOOLEAN],
         failures' \in 0..MaxFailures, gets' \in 0..MaxGets
  PROVE  TypeOK' /\ HeldOK'
<1>1. HeldOK'
  BY DEF HeldOK
<1>2. sent' \in Seq(Message) /\ Len(sent') <= MaxEvents /\ acked' \subseteq 1..Len(sent')
  BY DEF TypeOK
<1>3. stripe' \in [Customer -> Held]
  BY DEF TypeOK
<1> QED
  BY <1>1, <1>2, <1>3 DEF TypeOK, DeliveryOK, GetOK, WellFormed

LEMMA GetsStay ==
  ASSUME TypeOK, UNCHANGED get
  PROVE  GetOK'
BY SlotsOK DEF GetOK, WellFormed

LEMMA DeliveriesStay ==
  ASSUME TypeOK, UNCHANGED <<delivery, sent>>
  PROVE  DeliveryOK'
BY SlotsOK DEF DeliveryOK

LEMMA WebhookType ==
  ASSUME TypeOK, HeldOK, NEW d \in Delivery, NEW e \in Event,
         Deliver(d, e) \/ Handler(d) \/ ApplyThrows(d) \/ Crash(d)
  PROVE  TypeOK' /\ HeldOK'
<1> USE DEF at
<1>1. /\ inbox \in [Event -> {"absent", "received", "processed", "failed"}]
      /\ row \in [User -> SubscriptionRow \cup {None}] /\ acked \subseteq 1..Len(sent)
      /\ applied \in [Event -> Nat] /\ ordered \in [User -> BOOLEAN]
      /\ failures \in 0..MaxFailures /\ gets \in 0..MaxGets /\ MaxFailures \in Nat
  BY WebhookConstants DEF TypeOK
<1>2. CASE Deliver(d, e)
  <2> DEFINE q == [pc |-> "dedup", event |-> e]
  <2>1. q \in DeliveryState /\ q.event \in 1..Len(sent)
    BY <1>2 DEF DeliveryState, Deliver
  <2>2. DeliveryOK' /\ GetOK'
    BY <2>1, <1>2, DeliveryMoves, GetsStay DEF Deliver
  <2> QED
    BY <2>2, <1>1, <1>2, ServerStep DEF Deliver
<1>3. CASE Deduplicate(d)
  <2>1. delivery[d].event \in 1..Len(sent)
    BY <1>3, InProgress DEF Deduplicate
  <2>2. DeliveryOK' /\ GetOK'
    BY <1>3, GotoMoves, DoneMoves, GetsStay DEF Deduplicate
  <2> QED
    BY <2>1, <2>2, <1>1, <1>3, ServerStep DEF Deduplicate
<1>4. CASE Store(d)
  <2>1. delivery[d].event \in Event
    BY <1>4, InProgress DEF Store
  <2>2. DeliveryOK' /\ GetOK'
    BY <1>4, GotoMoves, DoneMoves, GetsStay DEF Store
  <2> QED
    BY <2>1, <2>2, <1>1, <1>4, ServerStep DEF Store
<1>5. CASE Apply(d)
  <2> DEFINE ev == delivery[d].event
  <2>1. ev \in Event /\ sent[ev] \in Message
    BY <1>5, InProgress DEF Apply
  <2>2. DeliveryOK' /\ GetOK'
    BY <1>5, GotoMoves, OutdateMoves DEF Apply
  <2>3. row' \in [User -> SubscriptionRow \cup {None}]
    BY <1>5, <2>1, EffectType DEF Apply
  <2>4. applied' \in [Event -> Nat]
    BY <1>5, <1>1, <2>1 DEF Apply
  <2>5. ordered' \in [User -> BOOLEAN]
    <3> DEFINE b(x) == x /\ \A f \in 1..(ev - 1) :
                         sent[f].user = sent[ev].user => applied[f] > 0
    <3>1. ordered' = [ordered EXCEPT ![sent[ev].user] = b(@)]
      BY <1>5 DEF Apply
    <3>2. b(ordered[sent[ev].user]) \in BOOLEAN
      OBVIOUS
    <3> HIDE DEF b
    <3> QED
      BY <3>1, <3>2, <1>1
  <2> QED
    BY <2>2, <2>3, <2>4, <2>5, <1>1, <1>5, ServerStep DEF Apply
<1>6. CASE MarkProcessed(d)
  <2>1. delivery[d].event \in Event /\ delivery[d].event \in 1..Len(sent)
    BY <1>6, InProgress DEF MarkProcessed
  <2>2. DeliveryOK' /\ GetOK'
    BY <1>6, DoneMoves, GetsStay DEF MarkProcessed
  <2> QED
    BY <2>1, <2>2, <1>1, <1>6, ServerStep DEF MarkProcessed
<1>7. CASE MarkFailed(d)
  <2>1. delivery[d].event \in Event
    BY <1>7, InProgress DEF MarkFailed
  <2>2. DeliveryOK' /\ GetOK'
    BY <1>7, DoneMoves, GetsStay DEF MarkFailed
  <2> QED
    BY <2>1, <2>2, <1>1, <1>7, ServerStep DEF MarkFailed
<1>8. CASE ApplyThrows(d)
  <2>1. DeliveryOK' /\ GetOK'
    BY <1>8, GotoMoves, GetsStay DEF ApplyThrows
  <2>2. failures' \in 0..MaxFailures
    BY <1>8, <1>1 DEF ApplyThrows
  <2> QED
    BY <2>1, <2>2, <1>1, <1>8, ServerStep DEF ApplyThrows
<1>9. CASE Crash(d)
  <2>1. DeliveryOK' /\ GetOK'
    BY <1>9, GotoMoves, DoneMoves, GetsStay DEF Crash
  <2>2. failures' \in 0..MaxFailures
    BY <1>9, <1>1 DEF Crash
  <2> QED
    BY <2>1, <2>2, <1>1, <1>9, ServerStep DEF Crash
<1> QED
  BY <1>2, <1>3, <1>4, <1>5, <1>6, <1>7, <1>8, <1>9 DEF Handler

\* A GET that has asked for no subscription has found no active one.
NothingFound ==
  \A g \in Get :
    get[g].pc = "customers" \/ (get[g].pc = "write" /\ get[g].cust = None) => ~get[g].active

LEMMA GetType ==
  ASSUME TypeOK, HeldOK, NothingFound, NEW g \in Get, NEW u \in User,
         GetHandler(g) \/ GetStart(g, u) \/ SelectFree(u)
  PROVE  TypeOK' /\ HeldOK'
<1>1. /\ inbox \in [Event -> {"absent", "received", "processed", "failed"}]
      /\ row \in [User -> SubscriptionRow \cup {None}] /\ acked \subseteq 1..Len(sent)
      /\ applied \in [Event -> Nat] /\ ordered \in [User -> BOOLEAN]
      /\ failures \in 0..MaxFailures /\ gets \in 0..MaxGets /\ MaxGets \in Nat
      /\ get[g] \in GetState /\ WellFormed(get[g])
  BY WebhookConstants, SlotsOK DEF TypeOK, GetOK
<1>2. CASE GetStart(g, u)
  <2> DEFINE q == [IdleGet EXCEPT !.pc = "customers", !.user = u]
  <2>1. q \in GetState /\ q.pc = "customers" /\ q.user = u
    BY DEF IdleGet, GetState
  <2>2. WellFormed(q)
    BY <2>1 DEF WellFormed
  <2>3. get' = [get EXCEPT ![g] = q]
    BY <1>2 DEF GetStart
  <2> HIDE DEF q
  <2>4. DeliveryOK' /\ GetOK'
    BY <2>2, <2>3, <1>2, GetMoves, DeliveriesStay DEF GetStart
  <2>5. gets' \in 0..MaxGets
    BY <1>1, <1>2 DEF GetStart
  <2> QED
    BY <2>4, <2>5, <1>1, <1>2, ServerStep DEF GetStart
<1>3. CASE GetCustomers(g)
  <2>1. PICK q \in GetState : WellFormed(q) /\ get' = [get EXCEPT ![g] = q]
    <3>1. CASE get' = [get EXCEPT ![g].pc = "write"]
      <4> DEFINE q == [get[g] EXCEPT !.pc = "write"]
      <4>1. ~get[g].active
        BY <1>3 DEF GetCustomers, NothingFound
      <4>2. q \in GetState /\ WellFormed(q)
        BY <4>1, <1>1, <1>3 DEF WellFormed, GetState, GetCustomers
      <4> QED
        BY <3>1, <4>2
    <3>2. CASE \E c \in customersOf(get[g].user) :
                 get' = [get EXCEPT ![g] = [@ EXCEPT !.pc = "subs", !.cust = c]]
      <4>1. PICK c \in customersOf(get[g].user) :
                 get' = [get EXCEPT ![g] = [@ EXCEPT !.pc = "subs", !.cust = c]]
        BY <3>2
      <4> DEFINE q == [get[g] EXCEPT !.pc = "subs", !.cust = c]
      <4>2. c \in Customer
        BY DEF customersOf
      <4>3. q \in GetState /\ WellFormed(q)
        BY <4>2, <1>1, <1>3 DEF WellFormed, GetState, GetCustomers
      <4> QED
        BY <4>1, <4>3
    <3> QED
      BY <3>1, <3>2, <1>3 DEF GetCustomers
  <2>2. DeliveryOK' /\ GetOK'
    BY <2>1, <1>3, GetMoves, DeliveriesStay DEF GetCustomers
  <2> QED
    BY <2>2, <1>1, <1>3, ServerStep DEF GetCustomers
<1>4. CASE GetSubs(g)
  <2> DEFINE held == stripe[get[g].cust]
             q == [get[g] EXCEPT !.pc = "write", !.active = (held.status = "active"),
                                 !.price = held.price]
  <2>1. held \in Held /\ (held.status = "active" => held.price \in Price)
    <3>1. get[g].cust \in Customer
      BY <1>1, <1>4 DEF WellFormed, GetSubs
    <3> QED
      BY <3>1 DEF TypeOK, HeldOK
  <2>2. get' = [get EXCEPT ![g] = q]
    BY <1>4 DEF GetSubs
  <2>3. q \in GetState /\ WellFormed(q)
    <3> HIDE DEF held
    <3>1. (held.status = "active") \in BOOLEAN /\ held.price \in Price \cup {None}
      BY <2>1 DEF Held
    <3> QED
      BY <3>1, <2>1, <1>1, <1>4 DEF WellFormed, GetState, GetSubs
  <2> HIDE DEF q
  <2>4. DeliveryOK' /\ GetOK'
    BY <2>2, <2>3, <1>4, GetMoves, DeliveriesStay DEF GetSubs
  <2> QED
    BY <2>4, <1>1, <1>4, ServerStep DEF GetSubs
<1>5. CASE GetWrite(g)
  <2> DEFINE v == get[g].user
  <2>1. v \in User /\ (get[g].active => get[g].price \in Price)
    BY <1>1, <1>5 DEF WellFormed, GetWrite
  <2>2. Synced(row[v], get[g]) \in SubscriptionRow
    <3>1. (IF row[v] = None THEN FreeRow ELSE row[v]) \in SubscriptionRow
      BY <1>1, <2>1 DEF FreeRow, SubscriptionRow
    <3>2. get[g].cust \in Customer \cup {None}
      BY <1>1 DEF GetState
    <3>3. get[g].active => tierFromPriceId(get[g].price) \in {"free", "clan"}
      BY DEF tierFromPriceId
    <3> QED
      BY <3>1, <3>2, <3>3, <2>1 DEF Synced, SubscriptionRow
  <2>3. row' \in [User -> SubscriptionRow \cup {None}]
    BY <1>1, <1>5, <2>1, <2>2 DEF GetWrite
  <2>4. ordered' \in [User -> BOOLEAN]
    BY <1>1, <1>5, <2>1 DEF GetWrite
  <2>5. WellFormed(IdleGet)
    BY IdleFacts DEF WellFormed
  <2>6. DeliveryOK' /\ GetOK'
    BY <2>5, <1>5, GetMoves, DeliveriesStay DEF GetWrite
  <2> QED
    BY <2>3, <2>4, <2>6, <1>1, <1>5, ServerStep DEF GetWrite
<1>6. CASE SelectFree(u)
  <2>1. row' \in [User -> SubscriptionRow \cup {None}]
    BY <1>1, <1>6 DEF SelectFree, FreeRow, SubscriptionRow
  <2>2. DeliveryOK' /\ GetOK'
    BY <1>6, GetsStay, DeliveriesStay DEF SelectFree
  <2> QED
    BY <2>1, <2>2, <1>1, <1>6, ServerStep DEF SelectFree
<1> QED
  BY <1>2, <1>3, <1>4, <1>5, <1>6 DEF GetHandler

LEMMA NothingFoundStep ==
  ASSUME TypeOK, NothingFound, [Next]_vars
  PROVE  NothingFound'
<1>1. get \in [Get -> GetState]
  BY DEF TypeOK
<1>2. ASSUME NEW u, Outdate(u) PROVE NothingFound'
  BY <1>1, <1>2 DEF Outdate, NothingFound, GetState
<1>3. ASSUME UNCHANGED get PROVE NothingFound'
  BY <1>3 DEF NothingFound
<1>4. ASSUME NEW g \in Get, GetHandler(g) \/ \E u \in User : GetStart(g, u)
      PROVE  NothingFound'
  <2> USE <1>1 DEF NothingFound, GetState
  <2>1. CASE GetCustomers(g)
    BY <2>1, ZenonT(60) DEF GetCustomers
  <2>2. CASE GetSubs(g)
    <3>1. get[g].cust # None
      BY <2>2, WebhookConstants DEF GetSubs, TypeOK, Customer
    <3> QED
      BY <2>2, <3>1 DEF GetSubs
  <2>3. CASE GetWrite(g)
    BY <2>3 DEF GetWrite, IdleGet
  <2>4. CASE \E u \in User : GetStart(g, u)
    BY <2>4 DEF GetStart, IdleGet
  <2> QED
    BY <1>4, <2>1, <2>2, <2>3, <2>4 DEF GetHandler
<1>5. ASSUME NEW d \in Delivery, Handler(d) \/ ApplyThrows(d) \/ Crash(d)
      PROVE  UNCHANGED get \/ \E u : Outdate(u)
  BY <1>5 DEF Handler, Deduplicate, Store, Apply, MarkProcessed, MarkFailed,
              ApplyThrows, Crash
<1> QED
  BY <1>2, <1>3, <1>4, <1>5
     DEF Next, vars, CheckoutPaid, SubscriptionChanges, Deliver, SelectFree

TypeInv == TypeOK /\ HeldOK /\ NothingFound

LEMMA InitTypeInv == Init => TypeInv
<1>1. Init => NothingFound
  BY IdleFacts DEF Init, NothingFound
<1> QED
  BY <1>1, InitType DEF TypeInv

LEMMA TypeStep ==
  ASSUME TypeInv, [Next]_vars
  PROVE  TypeInv'
<1>1. TypeOK /\ HeldOK /\ NothingFound /\ NothingFound'
  BY NothingFoundStep DEF TypeInv
<1>2. CASE UNCHANGED vars
  <2>1. TypeOK'
    BY <1>1, <1>2 DEF vars, TypeOK
  <2>2. HeldOK'
    BY <1>1, <1>2 DEF vars, HeldOK
  <2> QED
    BY <1>1, <2>1, <2>2 DEF TypeInv
<1>3. CASE Next
  <2> USE <1>1 DEF TypeInv
  <2>1. CASE \E u \in User, c \in Customer, p \in Price : CheckoutPaid(u, c, p)
    BY <2>1, StripeType
  <2>2. CASE \E c \in Customer, t \in {"active", "past_due", "canceled"}, p \in Price :
               SubscriptionChanges(c, t, p)
    <3>1. PICK c \in Customer, t \in {"active", "past_due", "canceled"}, p \in Price :
               SubscriptionChanges(c, t, p)
      BY <2>2
    <3>2. stripe[c].user \in User
      BY <3>1 DEF SubscriptionChanges, HeldOK
    <3> QED
      BY <3>1, <3>2, StripeType
  <2>3. CASE \E d \in Delivery : Handler(d) \/ ApplyThrows(d) \/ Crash(d)
    <3>1. PICK d \in Delivery : Handler(d) \/ ApplyThrows(d) \/ Crash(d)
      BY <2>3
    <3>2. delivery[d].pc # "idle"
      BY <3>1 DEF Handler, Deduplicate, Store, Apply, MarkProcessed, MarkFailed,
                  ApplyThrows, Crash, at
    <3> QED
      BY <3>1, <3>2, InProgress, WebhookType
  <2>4. CASE \E d \in Delivery, e \in Event : Deliver(d, e)
    BY <2>4, WebhookType
  <2>5. CASE \E g \in Get : GetHandler(g)
    <3>1. PICK g \in Get : GetHandler(g)
      BY <2>5
    <3>2. get[g].user \in User
      BY <3>1 DEF TypeOK, GetHandler, GetCustomers, GetSubs, GetWrite
    <3> QED
      BY <3>1, <3>2, GetType
  <2>6. CASE \E g \in Get, u \in User : GetStart(g, u)
    BY <2>6, GetType
  <2>7. CASE \E u \in User : SelectFree(u)
    <3>1. PICK u \in User : SelectFree(u)
      BY <2>7
    <3>2. row' \in [User -> SubscriptionRow \cup {None}]
      BY <3>1 DEF SelectFree, TypeOK, FreeRow, SubscriptionRow
    <3>3. DeliveryOK' /\ GetOK'
      BY <3>1, GetsStay, DeliveriesStay DEF SelectFree
    <3> QED
      BY <3>1, <3>2, <3>3, ServerStep DEF SelectFree, TypeOK
  <2> QED
    BY <1>3, <2>1, <2>2, <2>3, <2>4, <2>5, <2>6, <2>7 DEF Next
<1> QED
  BY <1>2, <1>3

\* Every reachable state is well-formed: a delivery under way is about an event
\* Stripe sent, and a GET that found an active subscription knows its price.
THEOREM TypeCorrect == Spec => []TypeOK
<1>1. Init => TypeInv
  BY InitTypeInv
<1>2. TypeInv /\ [Next]_vars => TypeInv'
  BY TypeStep
<1>3. TypeInv => TypeOK
  BY DEF TypeInv
<1> QED
  BY <1>1, <1>2, <1>3, PTL DEF Spec

-----------------------------------------------------------------------------
(* Who holds an event.                                                      *)

\* A delivery holds its event from the insert on.
holds(d, e) ==
  delivery[d].event = e /\ delivery[d].pc \in {"apply", "processed", "failed"}

\* No two deliveries hold one event, what a delivery holds is still marked
\* received, and the delivery knows whether it took effect.
HeldByOne ==
  /\ \A d, f \in Delivery, e \in Event : holds(d, e) /\ holds(f, e) => d = f
  /\ \A d \in Delivery, e \in Event : holds(d, e) =>
       /\ inbox[e] = "received"
       /\ at(d, "apply") => applied[e] = 0
       /\ at(d, "processed") => applied[e] = 1

ClaimInv == AppliedAtMostOnce /\ InboxTellsTheTruth /\ HeldByOne

LEMMA InitClaim == Init => ClaimInv
BY IdleFacts DEF Init, ClaimInv, AppliedAtMostOnce, InboxTellsTheTruth, HeldByOne, holds

\* A delivery that does not hold an event afterwards, and has marked nothing.
LEMMA HoldsNothing ==
  ASSUME TypeOK, ClaimInv, NEW d \in Delivery, NEW q,
         delivery' = [delivery EXCEPT ![d] = q],
         q.pc \notin {"apply", "processed", "failed"},
         UNCHANGED <<inbox, applied>>,
         \A e \in Event : e \in acked' => e \in acked \/ inbox[e] # "absent"
  PROVE  ClaimInv'
<1>1. delivery'[d] = q /\ \A f \in Delivery : f # d => delivery'[f] = delivery[f]
  BY DEF TypeOK
<1>2. \A f \in Delivery, e \in Event :
        holds(f, e)' => f # d /\ holds(f, e) /\ delivery'[f] = delivery[f]
  BY <1>1 DEF holds
<1>3. HeldByOne'
  BY <1>2 DEF ClaimInv, HeldByOne, at
<1> QED
  BY <1>3 DEF ClaimInv, AppliedAtMostOnce, InboxTellsTheTruth

\* A delivery that held an event lets it go, marking it.
LEMMA LetsGo ==
  ASSUME TypeOK, ClaimInv, NEW d \in Delivery, NEW e \in Event, holds(d, e), Done(d),
         NEW mark \in {"processed", "failed"}, mark = "processed" => applied[e] = 1,
         inbox' = [inbox EXCEPT ![e] = mark], UNCHANGED applied,
         acked' \subseteq acked \cup {e}
  PROVE  ClaimInv'
<1>1. delivery'[d].pc = "idle" /\ \A f \in Delivery : f # d => delivery'[f] = delivery[f]
  BY IdleFacts DEF TypeOK, Done
<1>2. inbox'[e] = mark /\ \A b \in Event : b # e => inbox'[b] = inbox[b]
  BY DEF TypeOK
<1>3. \A f \in Delivery, b \in Event :
        holds(f, b)' => f # d /\ b # e /\ holds(f, b) /\ delivery'[f] = delivery[f]
  BY <1>1 DEF ClaimInv, HeldByOne, holds
<1>4. HeldByOne'
  BY <1>2, <1>3 DEF ClaimInv, HeldByOne, at
<1> QED
  BY <1>2, <1>4 DEF ClaimInv, AppliedAtMostOnce, InboxTellsTheTruth

\* A delivery that holds its event goes on holding it.
LEMMA HoldsOn ==
  ASSUME TypeOK, ClaimInv, NEW d \in Delivery, NEW e \in Event, holds(d, e),
         NEW pc \in {"processed", "failed"}, Goto(d, pc), UNCHANGED <<inbox, acked>>,
         \/ pc = "failed" /\ UNCHANGED applied
         \/ pc = "processed" /\ applied[e] = 0 /\ applied' = [applied EXCEPT ![e] = @ + 1]
  PROVE  ClaimInv'
<1>1. /\ delivery'[d].pc = pc /\ delivery'[d].event = delivery[d].event
      /\ \A f \in Delivery : f # d => delivery'[f] = delivery[f]
  BY DEF TypeOK, Goto, DeliveryState
<1>2. \A b \in Event : b # e => applied'[b] = applied[b]
  BY DEF TypeOK
<1>3. applied'[e] \in {0, 1} /\ (pc = "processed" => applied'[e] = 1)
  BY DEF TypeOK, ClaimInv, AppliedAtMostOnce
<1>4. \A f \in Delivery, b \in Event : holds(f, b)' => holds(f, b)
  BY <1>1 DEF holds
<1>5. \A f \in Delivery : f # d => ~holds(f, e)
  BY DEF ClaimInv, HeldByOne
<1>6. inbox[e] = "received"
  BY DEF ClaimInv, HeldByOne
<1>7. HeldByOne'
  <2>1. ASSUME NEW f \in Delivery, NEW b \in Event, holds(f, b)'
        PROVE  /\ inbox'[b] = "received"
               /\ at(f, "apply")' => applied'[b] = 0
               /\ at(f, "processed")' => applied'[b] = 1
    <3>1. CASE f = d
      <4>1. b = e
        BY <3>1, <2>1, <1>1 DEF holds
      <4> QED
        BY <4>1, <3>1, <1>1, <1>3, <1>6 DEF at
    <3>2. CASE f # d
      <4>1. holds(f, b) /\ b # e /\ delivery'[f] = delivery[f]
        BY <3>2, <2>1, <1>1, <1>4, <1>5
      <4> QED
        BY <4>1, <1>2 DEF ClaimInv, HeldByOne, at
    <3> QED
      BY <3>1, <3>2
  <2> QED
    BY <2>1, <1>4 DEF ClaimInv, HeldByOne
<1>8. AppliedAtMostOnce' /\ InboxTellsTheTruth'
  BY <1>2, <1>3, <1>6 DEF ClaimInv, AppliedAtMostOnce, InboxTellsTheTruth
<1> QED
  BY <1>7, <1>8 DEF ClaimInv

\* The insert that goes through is the first.
LEMMA Inserts ==
  ASSUME TypeOK, ClaimInv, NEW d \in Delivery, Store(d), inbox[delivery[d].event] = "absent"
  PROVE  ClaimInv'
<1> DEFINE e == delivery[d].event
<1>1. e \in Event /\ delivery[d] \in DeliveryState
  BY InProgress DEF Store, at
<1>2. /\ inbox' = [inbox EXCEPT ![e] = "received"] /\ Goto(d, "apply")
      /\ UNCHANGED <<acked, applied>>
  BY DEF Store
<1>3. /\ delivery'[d].pc = "apply" /\ delivery'[d].event = e
      /\ \A f \in Delivery : f # d => delivery'[f] = delivery[f]
  BY <1>1, <1>2 DEF TypeOK, Goto, DeliveryState
<1>4. inbox'[e] = "received" /\ \A b \in Event : b # e => inbox'[b] = inbox[b]
  BY <1>1, <1>2 DEF TypeOK
<1>5. applied[e] = 0
  BY <1>1 DEF ClaimInv, InboxTellsTheTruth
<1>6. \A f \in Delivery : ~holds(f, e)
  BY <1>1 DEF ClaimInv, HeldByOne
<1> HIDE DEF e
<1>7. \A f \in Delivery, b \in Event : holds(f, b)' =>
        \/ f = d /\ b = e
        \/ f # d /\ b # e /\ holds(f, b) /\ delivery'[f] = delivery[f]
  BY <1>3, <1>6 DEF holds
<1>8. HeldByOne'
  BY <1>2, <1>3, <1>4, <1>5, <1>7 DEF ClaimInv, HeldByOne, at
<1> QED
  BY <1>1, <1>2, <1>4, <1>5, <1>8 DEF ClaimInv, AppliedAtMostOnce, InboxTellsTheTruth

LEMMA ClaimStep ==
  ASSUME TypeOK, ClaimInv, [Next]_vars
  PROVE  ClaimInv'
<1>1. ASSUME UNCHANGED <<delivery, inbox, applied, acked>>
      PROVE  ClaimInv'
  BY <1>1 DEF ClaimInv, AppliedAtMostOnce, InboxTellsTheTruth, HeldByOne, holds, at
<1>2. ASSUME NEW d \in Delivery, NEW e \in Event, Deliver(d, e)
      PROVE  ClaimInv'
  <2> DEFINE q == [pc |-> "dedup", event |-> e]
  <2>1. delivery' = [delivery EXCEPT ![d] = q] /\ q.pc = "dedup"
    BY <1>2 DEF Deliver
  <2> HIDE DEF q
  <2> QED
    BY <2>1, <1>2, HoldsNothing DEF Deliver
<1>3. ASSUME NEW d \in Delivery, Done(d), UNCHANGED <<inbox, applied>>,
             \A e \in Event : e \in acked' => e \in acked \/ inbox[e] # "absent"
      PROVE  ClaimInv'
  BY <1>3, IdleFacts, HoldsNothing DEF Done
<1>4. ASSUME NEW d \in Delivery, Handler(d) \/ ApplyThrows(d) \/ Crash(d)
      PROVE  ClaimInv'
  <2> DEFINE e == delivery[d].event
  <2>1. e \in Event /\ delivery[d] \in DeliveryState
    <3>1. delivery[d].pc # "idle"
      BY <1>4 DEF Handler, Deduplicate, Store, Apply, MarkProcessed, MarkFailed,
                  ApplyThrows, Crash, at
    <3> QED
      BY <3>1, InProgress
  <2> HIDE DEF e
  <2>2. CASE Deduplicate(d)
    <3>1. CASE Done(d)
      BY <3>1, <2>2, <1>3 DEF Deduplicate, e
    <3>2. CASE Goto(d, "store") /\ UNCHANGED acked
      <4> DEFINE q == [delivery[d] EXCEPT !.pc = "store"]
      <4>1. delivery' = [delivery EXCEPT ![d] = q] /\ q.pc = "store"
        BY <3>2, <2>1 DEF Goto, DeliveryState
      <4> HIDE DEF q
      <4> QED
        BY <4>1, <3>2, <2>2, HoldsNothing DEF Deduplicate
    <3> QED
      BY <3>1, <3>2, <2>2 DEF Deduplicate
  <2>3. CASE Store(d)
    <3>1. CASE inbox[e] = "absent"
      BY <3>1, <2>3, Inserts DEF e
    <3>2. CASE inbox[e] # "absent"
      BY <3>2, <2>3, <1>3 DEF Store, e
    <3> QED
      BY <3>1, <3>2
  <2>4. CASE Apply(d)
    <3>1. holds(d, e) /\ applied[e] = 0
      BY <2>1, <2>4 DEF Apply, holds, at, e, ClaimInv, HeldByOne
    <3>2. /\ Goto(d, "processed") /\ UNCHANGED <<inbox, acked>>
          /\ applied' = [applied EXCEPT ![e] = @ + 1]
      BY <2>4 DEF Apply, e
    <3> QED
      BY <3>1, <3>2, <2>1, HoldsOn
  <2>5. CASE ApplyThrows(d)
    <3>1. holds(d, e)
      BY <2>5 DEF ApplyThrows, holds, at, e
    <3> QED
      BY <3>1, <2>1, <2>5, HoldsOn DEF ApplyThrows
  <2>6. CASE MarkProcessed(d)
    <3>1. holds(d, e) /\ applied[e] = 1
      BY <2>1, <2>6 DEF MarkProcessed, holds, at, e, ClaimInv, HeldByOne
    <3>2. /\ Done(d) /\ inbox' = [inbox EXCEPT ![e] = "processed"] /\ UNCHANGED applied
          /\ acked' \subseteq acked \cup {e}
      BY <2>6 DEF MarkProcessed, e
    <3> QED
      BY <3>1, <3>2, <2>1, LetsGo
  <2>7. CASE MarkFailed(d)
    <3>1. holds(d, e)
      BY <2>7 DEF MarkFailed, holds, at, e
    <3>2. /\ Done(d) /\ inbox' = [inbox EXCEPT ![e] = "failed"] /\ UNCHANGED applied
          /\ acked' \subseteq acked \cup {e}
      BY <2>7 DEF MarkFailed, e
    <3> QED
      BY <3>1, <3>2, <2>1, LetsGo
  <2>8. CASE Crash(d)
    <3>1. CASE Done(d)
      BY <3>1, <2>8, <1>3 DEF Crash
    <3>2. CASE at(d, "processed") /\ Goto(d, "failed")
      <4>1. holds(d, e)
        BY <3>2 DEF holds, at, e
      <4> QED
        BY <4>1, <3>2, <2>1, <2>8, HoldsOn DEF Crash
    <3> QED
      BY <3>1, <3>2, <2>8 DEF Crash
  <2> QED
    BY <1>4, <2>2, <2>3, <2>4, <2>5, <2>6, <2>7, <2>8 DEF Handler
<1>5. ASSUME \/ \E u \in User, c \in Customer, p \in Price : CheckoutPaid(u, c, p)
             \/ \E c \in Customer, t \in {"active", "past_due", "canceled"}, p \in Price :
                  SubscriptionChanges(c, t, p)
             \/ \E g \in Get : GetHandler(g) \/ \E u \in User : GetStart(g, u)
             \/ \E u \in User : SelectFree(u)
             \/ UNCHANGED vars
      PROVE  UNCHANGED <<delivery, inbox, applied, acked>>
  BY <1>5 DEF CheckoutPaid, SubscriptionChanges, GetHandler, GetCustomers, GetSubs,
              GetWrite, GetStart, SelectFree, vars
<1> QED
  BY <1>1, <1>2, <1>4, <1>5 DEF Next

LEMMA Invariants == Spec => [](TypeOK /\ ClaimInv)
<1>1. TypeOK /\ ClaimInv /\ [Next]_vars => ClaimInv'
  BY ClaimStep
<1> QED
  BY <1>1, InitClaim, TypeCorrect, PTL DEF Spec

\* However often, and in however many slots at a time, an event is delivered,
\* its handler's statement takes effect at most once.
THEOREM NoEventTwice == Spec => []AppliedAtMostOnce
<1>1. ClaimInv => AppliedAtMostOnce
  BY DEF ClaimInv
<1> QED
  BY <1>1, Invariants, PTL

\* What the inbox table says of an event is so: one marked processed took
\* effect, one not in it neither took effect nor was acknowledged.
THEOREM InboxIsTrue == Spec => []InboxTellsTheTruth
<1>1. ClaimInv => InboxTellsTheTruth
  BY DEF ClaimInv
<1> QED
  BY <1>1, Invariants, PTL

-----------------------------------------------------------------------------
(* The webhook is an EventInbox.                                            *)

Steady == \A b \in Event : outcomeOf(b)' = outcomeOf(b)

LEMMA SteadyStutters == Steady => UNCHANGED [e \in Event |-> outcomeOf(e)]
BY DEF Steady

\* One event moves on, the others stay.
LEMMA OneMoves ==
  ASSUME NEW e \in Event, \A b \in Event : b # e => outcomeOf(b)' = outcomeOf(b),
         \/ outcomeOf(e) = "new" /\ outcomeOf(e)' = "claimed"
         \/ outcomeOf(e) = "claimed" /\ outcomeOf(e)' \in {"applied", "lost"}
  PROVE  Inbox!InboxNext
<1> DEFINE before == [b \in Event |-> outcomeOf(b)]
           after  == [b \in Event |-> outcomeOf(b)']
<1>1. after = [before EXCEPT ![e] = outcomeOf(e)'] /\ before[e] = outcomeOf(e)
  OBVIOUS
<1>2. Inbox!Claim(e) \/ Inbox!Take(e) \/ Inbox!Lose(e)
  BY <1>1 DEF Inbox!Claim, Inbox!Take, Inbox!Lose, Inbox!Become
<1> QED
  BY <1>2 DEF Inbox!InboxNext

\* Moving slot d puts in hand and takes out of hand only its own event.
LEMMA HandOfOthers ==
  ASSUME TypeOK, NEW d \in Delivery, NEW q, delivery' = [delivery EXCEPT ![d] = q],
         NEW b \in Event,
         ~(delivery[d].event = b /\ delivery[d].pc = "apply"),
         ~(q.event = b /\ q.pc = "apply")
  PROVE  inHand(b)' <=> inHand(b)
<1>1. delivery'[d] = q /\ \A f \in Delivery : f # d => delivery'[f] = delivery[f]
  BY DEF TypeOK
<1> QED
  BY <1>1 DEF inHand, at

LEMMA SameOutcome ==
  ASSUME NEW b \in Event, applied'[b] = applied[b],
         applied[b] > 0 \/ (inbox'[b] = "absent" <=> inbox[b] = "absent"),
         applied[b] > 0 \/ (inHand(b)' <=> inHand(b))
  PROVE  outcomeOf(b)' = outcomeOf(b)
BY DEF outcomeOf

\* A delivery that is not about to apply its event, and after the step is not
\* either, moves no event on.
LEMMA MovesAside ==
  ASSUME TypeOK, NEW d \in Delivery, NEW q, delivery' = [delivery EXCEPT ![d] = q],
         delivery[d].pc # "apply", q.pc # "apply", UNCHANGED applied,
         \A b \in Event : inbox'[b] = "absent" <=> inbox[b] = "absent"
  PROVE  Steady
BY HandOfOthers, SameOutcome DEF Steady

\* What a delivery about to apply its event is taken for.
LEMMA InHandOf ==
  ASSUME TypeOK, ClaimInv, NEW d \in Delivery, delivery[d].pc = "apply"
  PROVE  /\ delivery[d].event \in Event
         /\ outcomeOf(delivery[d].event) = "claimed"
         /\ inbox[delivery[d].event] = "received" /\ applied[delivery[d].event] = 0
         /\ \A f \in Delivery : f # d => ~(delivery[f].event = delivery[d].event
                                           /\ delivery[f].pc = "apply")
<1>1. delivery[d].event \in Event
  BY InProgress
<1>2. inbox[delivery[d].event] = "received" /\ applied[delivery[d].event] = 0
  BY <1>1 DEF ClaimInv, HeldByOne, holds, at
<1>3. \A f \in Delivery : f # d => ~(delivery[f].event = delivery[d].event
                                     /\ delivery[f].pc = "apply")
  BY <1>1 DEF ClaimInv, HeldByOne, holds
<1>4. inHand(delivery[d].event)
  BY DEF inHand, at
<1> QED
  BY <1>1, <1>2, <1>3, <1>4 DEF outcomeOf

\* A delivery gives up the event it was about to apply.
LEMMA GivesUp ==
  ASSUME TypeOK, ClaimInv, NEW d \in Delivery, NEW q, delivery' = [delivery EXCEPT ![d] = q],
         delivery[d].pc = "apply", q.pc # "apply", UNCHANGED <<inbox, applied>>
  PROVE  Inbox!InboxNext
<1> PICK e \in Event : e = delivery[d].event
  BY InHandOf
<1>1. delivery'[d] = q /\ \A f \in Delivery : f # d => delivery'[f] = delivery[f]
  BY DEF TypeOK
<1>2. /\ outcomeOf(e) = "claimed" /\ inbox[e] = "received" /\ applied[e] = 0
      /\ \A f \in Delivery : f # d => ~(delivery[f].event = e /\ delivery[f].pc = "apply")
  BY InHandOf
<1>3. ~inHand(e)'
  BY <1>1, <1>2 DEF inHand, at
<1>4. outcomeOf(e)' = "lost"
  BY <1>2, <1>3 DEF outcomeOf
<1>5. \A b \in Event : b # e => outcomeOf(b)' = outcomeOf(b)
  BY HandOfOthers, SameOutcome
<1> QED
  BY <1>2, <1>4, <1>5, OneMoves

LEMMA InboxStep ==
  ASSUME TypeOK, ClaimInv, [Next]_vars
  PROVE  Steady \/ Inbox!InboxNext
<1>1. ASSUME UNCHANGED <<delivery, inbox, applied>> PROVE Steady
  BY <1>1, SameOutcome DEF Steady, inHand, at
<1>2. ASSUME NEW d \in Delivery, NEW e \in Event, Deliver(d, e) PROVE Steady
  <2> DEFINE q == [pc |-> "dedup", event |-> e]
  <2>1. delivery' = [delivery EXCEPT ![d] = q] /\ q.pc = "dedup"
    BY <1>2 DEF Deliver
  <2> HIDE DEF q
  <2> QED
    BY <2>1, <1>2, MovesAside DEF Deliver
<1>3. ASSUME NEW d \in Delivery, Handler(d) \/ ApplyThrows(d) \/ Crash(d)
      PROVE  Steady \/ Inbox!InboxNext
  <2> DEFINE to(pc) == [delivery[d] EXCEPT !.pc = pc]
  <2>1. PICK e \in Event :
          /\ e = delivery[d].event /\ delivery[d] \in DeliveryState
          /\ \A pc : to(pc).pc = pc /\ to(pc).event = e
    <3>1. delivery[d].pc # "idle"
      BY <1>3 DEF Handler, Deduplicate, Store, Apply, MarkProcessed, MarkFailed,
                  ApplyThrows, Crash, at
    <3>2. delivery[d].event \in Event /\ delivery[d] \in DeliveryState
      BY <3>1, InProgress
    <3> QED
      BY <3>2 DEF DeliveryState
  <2>2. \A pc : Goto(d, pc) => delivery' = [delivery EXCEPT ![d] = to(pc)]
    BY DEF Goto
  <2>3. Done(d) => delivery' = [delivery EXCEPT ![d] = IdleDelivery]
    BY DEF Done
  <2> HIDE DEF to
  <2>4. CASE Deduplicate(d)
    BY <2>4, <2>1, <2>2, <2>3, IdleFacts, MovesAside DEF Deduplicate, at
  <2>5. CASE Store(d)
    <3>1. CASE inbox[e] # "absent"
      BY <2>1, <3>1, <2>5, <2>3, IdleFacts, MovesAside DEF Store, at
    <3>2. CASE inbox[e] = "absent"
      <4>1. /\ inbox' = [inbox EXCEPT ![e] = "received"] /\ UNCHANGED applied
            /\ delivery' = [delivery EXCEPT ![d] = to("apply")] /\ delivery[d].pc # "apply"
        BY <2>1, <3>2, <2>5, <2>2 DEF Store, at
      <4>2. to("apply").event = e /\ to("apply").pc = "apply"
        BY <2>1
      <4>3. inbox'[e] = "received" /\ \A b \in Event : b # e => inbox'[b] = inbox[b]
        BY <4>1, <2>1 DEF TypeOK
      <4>4. applied[e] = 0
        BY <2>1, <3>2 DEF ClaimInv, InboxTellsTheTruth
      <4>5. inHand(e)'
        BY <4>1, <4>2 DEF inHand, at, TypeOK
      <4>6. outcomeOf(e) = "new" /\ outcomeOf(e)' = "claimed"
        BY <3>2, <4>1, <4>3, <4>4, <4>5 DEF outcomeOf
      <4>7. \A b \in Event : b # e => outcomeOf(b)' = outcomeOf(b)
        BY <4>1, <4>2, <4>3, HandOfOthers, SameOutcome
      <4> QED
        BY <4>6, <4>7, <2>1, OneMoves
    <3> QED
      BY <3>1, <3>2
  <2>6. CASE Apply(d)
    <3>1. outcomeOf(e) = "claimed" /\ applied[e] = 0
      BY <2>1, <2>6, InHandOf DEF Apply, at
    <3>2. /\ applied' = [applied EXCEPT ![e] = @ + 1] /\ UNCHANGED inbox
          /\ delivery' = [delivery EXCEPT ![d] = to("processed")]
      BY <2>1, <2>6, <2>2 DEF Apply
    <3>3. applied'[e] = 1 /\ \A b \in Event : b # e => applied'[b] = applied[b]
      BY <3>1, <3>2, <2>1 DEF TypeOK
    <3>4. outcomeOf(e)' = "applied"
      BY <3>3 DEF outcomeOf
    <3>5. \A b \in Event : b # e => outcomeOf(b)' = outcomeOf(b)
      <4>1. to("processed").pc = "processed"
        BY <2>1
      <4>2. \A b \in Event : b # e => (inHand(b)' <=> inHand(b))
        BY <4>1, <3>2, <2>1, HandOfOthers
      <4> QED
        BY <4>2, <3>2, <3>3, SameOutcome
    <3> QED
      BY <3>1, <3>4, <3>5, <2>1, OneMoves
  <2>7. CASE ApplyThrows(d)
    BY <2>7, <2>1, <2>2, GivesUp DEF ApplyThrows, at
  <2>8. CASE MarkProcessed(d) \/ MarkFailed(d)
    <3>1. /\ delivery' = [delivery EXCEPT ![d] = IdleDelivery] /\ UNCHANGED applied
          /\ delivery[d].pc # "apply"
          /\ \E m \in {"processed", "failed"} : inbox' = [inbox EXCEPT ![e] = m]
      BY <2>1, <2>8, <2>3 DEF MarkProcessed, MarkFailed, at
    <3>2. inbox[e] = "received"
      BY <2>1, <2>8 DEF MarkProcessed, MarkFailed, ClaimInv, HeldByOne, holds, at
    <3>3. \A b \in Event : inbox'[b] = "absent" <=> inbox[b] = "absent"
      BY <3>1, <3>2, <2>1 DEF TypeOK
    <3> QED
      BY <3>1, <3>3, IdleFacts, MovesAside
  <2>9. CASE Crash(d)
    <3>1. CASE at(d, "apply")
      BY <3>1, <2>9, <2>3, IdleFacts, GivesUp DEF Crash, at
    <3>2. CASE ~at(d, "apply")
      BY <3>2, <2>1, <2>9, <2>2, <2>3, IdleFacts, MovesAside DEF Crash, at
    <3> QED
      BY <3>1, <3>2
  <2> QED
    BY <1>3, <2>4, <2>5, <2>6, <2>7, <2>8, <2>9 DEF Handler
<1>4. ASSUME \/ \E u \in User, c \in Customer, p \in Price : CheckoutPaid(u, c, p)
             \/ \E c \in Customer, t \in {"active", "past_due", "canceled"}, p \in Price :
                  SubscriptionChanges(c, t, p)
             \/ \E g \in Get : GetHandler(g) \/ \E u \in User : GetStart(g, u)
             \/ \E u \in User : SelectFree(u)
             \/ UNCHANGED vars
      PROVE  UNCHANGED <<delivery, inbox, applied>>
  BY <1>4 DEF CheckoutPaid, SubscriptionChanges, GetHandler, GetCustomers, GetSubs,
              GetWrite, GetStart, SelectFree, vars
<1> QED
  BY <1>1, <1>2, <1>3, <1>4 DEF Next

\* The webhook handler is an inbox: whatever is delivered, repeated, refused or
\* cut off, each event is claimed once, and then applied once or lost.
THEOREM ImplementsInbox == Spec => Inbox!InboxSpec
<1>1. Init => Inbox!InboxInit
  BY DEF Init, Inbox!InboxInit, outcomeOf
<1>2. TypeOK /\ ClaimInv /\ [Next]_vars => [Inbox!InboxNext]_([e \in Event |-> outcomeOf(e)])
  BY InboxStep, SteadyStutters
<1> QED
  BY <1>1, <1>2, Invariants, PTL DEF Spec, Inbox!InboxSpec

-----------------------------------------------------------------------------
(* What a GET that nothing overtook has read.                               *)

newestOf(c, u) == c \in customersOf(u) /\ \A b \in customersOf(u) : b <= c

\* What a GET q in progress knows of Stripe, unless it has been overtaken.
Known(q) ==
  /\ q.pc = "customers" => q.cust = None
  /\ ~q.stale /\ q.pc = "subs" => newestOf(q.cust, q.user)
  /\ ~q.stale /\ q.pc = "write" /\ q.cust # None =>
       /\ newestOf(q.cust, q.user)
       /\ q.active = (stripe[q.cust].status = "active")
       /\ q.active => q.price = stripe[q.cust].price

\* Customers without a subscription are nobody's.
Unowned == \A c \in Customer : stripe[c].status = "none" => stripe[c].user = None

ReadsHold == Unowned /\ \A g \in Get : Known(get[g])

LEMMA InitReads == Init => ReadsHold
<1> SUFFICES ASSUME Init PROVE ReadsHold
  OBVIOUS
<1>1. Unowned
  BY DEF Init, Unowned
<1>2. \A g \in Get : get[g].pc = "idle"
  BY IdleFacts DEF Init
<1> QED
  BY <1>1, <1>2 DEF ReadsHold, Known

\* Stripe changes what it holds of a customer of u: what was read for u is
\* outdated, and nothing changes for anyone else.
LEMMA StripeMovesReads ==
  ASSUME TypeOK, ReadsHold, NEW u \in User, NEW c \in Customer, NEW h,
         h.user = u, h.status # "none", stripe[c].user \in {u, None},
         stripe' = [stripe EXCEPT ![c] = h], Outdate(u)
  PROVE  ReadsHold'
<1>1. stripe'[c] = h /\ \A b \in Customer : b # c => stripe'[b] = stripe[b]
  BY DEF TypeOK
<1>2. Unowned'
  BY <1>1 DEF ReadsHold, Unowned
<1>3. ASSUME NEW v \in User, v # u
      PROVE  /\ customersOf(v)' = customersOf(v)
             /\ \A b \in customersOf(v) : stripe'[b] = stripe[b]
  BY <1>1, <1>3, WebhookConstants DEF customersOf
<1>4. ASSUME NEW g \in Get
      PROVE  Known(get[g])'
  <2>1. PICK q \in GetState : q = get[g]
    BY DEF TypeOK
  <2>2. PICK r : r = get'[g]
    OBVIOUS
  <2>3. r = q \/ r = [q EXCEPT !.stale = TRUE]
    BY <2>1, <2>2 DEF Outdate
  <2>4. r.stale \/ r.pc = "idle" \/ (r = q /\ q.user # u /\ q.user \in User)
    BY <2>1, <2>2, <2>3 DEF Outdate, TypeOK, GetState
  <2>5. Known(q)
    BY <2>1 DEF ReadsHold
  <2>6. Known(r)'
    <3>1. CASE r.stale \/ r.pc = "idle"
      BY <3>1, <2>3, <2>5 DEF Known, GetState
    <3>2. CASE r = q /\ q.user # u /\ q.user \in User
      BY <3>2, <2>5, <1>3 DEF Known, newestOf
    <3> QED
      BY <3>1, <3>2, <2>4
  <2> QED
    BY <2>2, <2>6
<1> QED
  BY <1>2, <1>4 DEF ReadsHold

\* A step of the server, in which one GET at most moves and others may be
\* outdated.
LEMMA ServerMovesReads ==
  ASSUME TypeOK, ReadsHold, UNCHANGED stripe,
         \A g \in Get : \/ get'[g] = get[g]
                        \/ get'[g] = [get[g] EXCEPT !.stale = TRUE]
                        \/ Known(get'[g])
  PROVE  ReadsHold'
<1>1. ASSUME NEW q, Known(q) PROVE Known(q)'
  BY <1>1 DEF Known, newestOf, customersOf
<1>2. ASSUME NEW g \in Get PROVE Known(get[g])'
  <2>1. PICK r : r = get'[g]
    OBVIOUS
  <2>2. PICK q \in GetState : q = get[g]
    BY DEF TypeOK
  <2>3. Known(q)
    BY <2>2 DEF ReadsHold
  <2>4. Known(r)
    BY <2>1, <2>2, <2>3 DEF Known, GetState
  <2>5. Known(r)'
    BY <2>4, <1>1
  <2> QED
    BY <2>1, <2>5
<1>3. Unowned'
  BY DEF ReadsHold, Unowned
<1> QED
  BY <1>2, <1>3 DEF ReadsHold

LEMMA GetMovesReads ==
  ASSUME TypeOK, ReadsHold, NothingFound, NEW g \in Get,
         GetHandler(g) \/ \E u \in User : GetStart(g, u)
  PROVE  ReadsHold'
<1>1. get[g] \in GetState /\ Known(get[g])
  BY DEF TypeOK, ReadsHold
<1>2. ASSUME NEW q, Known(q), get' = [get EXCEPT ![g] = q], UNCHANGED stripe
      PROVE  ReadsHold'
  <2>1. get'[g] = q /\ \A f \in Get : f # g => get'[f] = get[f]
    BY <1>2 DEF TypeOK
  <2> QED
    BY <2>1, <1>2, ServerMovesReads
<1>3. CASE \E u \in User : GetStart(g, u)
  <2>1. PICK u \in User : GetStart(g, u)
    BY <1>3
  <2>2. Known([IdleGet EXCEPT !.pc = "customers", !.user = u])
    BY DEF Known, IdleGet
  <2> QED
    BY <2>1, <2>2, <1>2 DEF GetStart
<1>4. CASE GetCustomers(g)
  <2>1. CASE get' = [get EXCEPT ![g].pc = "write"]
    <3>1. Known([get[g] EXCEPT !.pc = "write"])
      BY <1>1, <1>4 DEF Known, GetState, GetCustomers
    <3> QED
      BY <3>1, <2>1, <1>4, <1>2 DEF GetCustomers
  <2>2. CASE \E c \in customersOf(get[g].user) :
               /\ newestOf(c, get[g].user)
               /\ get' = [get EXCEPT ![g] = [@ EXCEPT !.pc = "subs", !.cust = c]]
    <3>1. PICK c \in customersOf(get[g].user) :
               /\ newestOf(c, get[g].user)
               /\ get' = [get EXCEPT ![g] = [@ EXCEPT !.pc = "subs", !.cust = c]]
      BY <2>2
    <3>2. Known([get[g] EXCEPT !.pc = "subs", !.cust = c])
      BY <3>1, <1>1 DEF Known, GetState
    <3> QED
      BY <3>1, <3>2, <1>4, <1>2 DEF GetCustomers
  <2> QED
    BY <2>1, <2>2, <1>4 DEF GetCustomers, newestOf
<1>5. CASE GetSubs(g)
  <2> DEFINE held == stripe[get[g].cust]
             q == [get[g] EXCEPT !.pc = "write", !.active = (held.status = "active"),
                                 !.price = held.price]
  <2>1. get' = [get EXCEPT ![g] = q]
    BY <1>5 DEF GetSubs
  <2>2. /\ q.pc = "write" /\ q.cust = get[g].cust /\ q.user = get[g].user
        /\ q.stale = get[g].stale /\ q.price = held.price
        /\ q.active = (held.status = "active")
    BY <1>1 DEF GetState
  <2> HIDE DEF q
  <2>3. Known(q)
    BY <2>2, <1>1, <1>5 DEF Known, GetSubs
  <2> QED
    BY <2>1, <2>3, <1>5, <1>2 DEF GetSubs
<1>6. CASE GetWrite(g)
  <2>1. Known(IdleGet)
    BY IdleFacts DEF Known
  <2> QED
    BY <2>1, <1>6, <1>2 DEF GetWrite
<1> QED
  BY <1>3, <1>4, <1>5, <1>6 DEF GetHandler

LEMMA ReadsStep ==
  ASSUME TypeInv, ReadsHold, [Next]_vars
  PROVE  ReadsHold'
<1> USE DEF TypeInv
<1>1. CASE \E u \in User, c \in Customer, p \in Price : CheckoutPaid(u, c, p)
  <2>1. PICK u \in User, c \in Customer, p \in Price : CheckoutPaid(u, c, p)
    BY <1>1
  <2> DEFINE h == [user |-> u, status |-> "active", price |-> p]
  <2>2. stripe[c].user = None
    BY <2>1 DEF CheckoutPaid, ReadsHold, Unowned
  <2> QED
    BY <2>1, <2>2, StripeMovesReads DEF CheckoutPaid
<1>2. CASE \E c \in Customer, t \in {"active", "past_due", "canceled"}, p \in Price :
             SubscriptionChanges(c, t, p)
  <2>1. PICK c \in Customer, t \in {"active", "past_due", "canceled"}, p \in Price :
             SubscriptionChanges(c, t, p)
    BY <1>2
  <2> DEFINE h == [stripe[c] EXCEPT !.status = t, !.price = p]
  <2>2. stripe[c] \in Held /\ stripe[c].user \in User
    BY <2>1 DEF TypeOK, HeldOK, SubscriptionChanges
  <2>3. h.user = stripe[c].user /\ h.status = t
    BY <2>2 DEF Held
  <2>4. stripe' = [stripe EXCEPT ![c] = h] /\ Outdate(stripe[c].user)
    BY <2>1 DEF SubscriptionChanges
  <2> HIDE DEF h
  <2> QED
    BY <2>2, <2>3, <2>4, StripeMovesReads
<1>3. CASE \E d \in Delivery : Handler(d) \/ ApplyThrows(d) \/ Crash(d)
  <2>1. UNCHANGED stripe /\ (UNCHANGED get \/ \E u : Outdate(u))
    BY <1>3 DEF Handler, Deduplicate, Store, Apply, MarkProcessed, MarkFailed,
                ApplyThrows, Crash
  <2> QED
    BY <2>1, ServerMovesReads DEF Outdate
<1>4. CASE \E g \in Get : GetHandler(g) \/ \E u \in User : GetStart(g, u)
  BY <1>4, GetMovesReads
<1>5. CASE \/ \E d \in Delivery, e \in Event : Deliver(d, e)
           \/ \E u \in User : SelectFree(u)
           \/ UNCHANGED vars
  <2>1. UNCHANGED <<stripe, get>>
    BY <1>5 DEF Deliver, SelectFree, vars
  <2> QED
    BY <2>1, ServerMovesReads
<1> QED
  BY <1>1, <1>2, <1>3, <1>4, <1>5 DEF Next

\* The write of a GET that nothing overtook leaves what Stripe holds.
LEMMA WriteAgrees ==
  ASSUME TypeInv, ReadsHold, NEW g \in Get, NEW u \in User, GetWrite(g), get[g].user = u,
         ~get[g].stale, get[g].cust # None
  PROVE  Agrees(u)'
<1>1. PICK c : c = get[g].cust
  OBVIOUS
<1>2. newestOf(c, u)
  BY <1>1 DEF ReadsHold, Known, GetWrite
<1>3. /\ get[g].active = (stripe[c].status = "active")
      /\ get[g].active => get[g].price = stripe[c].price
  BY <1>1 DEF ReadsHold, Known, GetWrite
<1>4. UNCHANGED stripe /\ customersOf(u)' = customersOf(u)
  BY DEF GetWrite, customersOf
<1>5. Newest(customersOf(u)) = c
  <2>1. \A b \in customersOf(u) : b \in Nat
    BY WebhookConstants DEF customersOf, Customer
  <2> QED
    BY <2>1, <1>2 DEF Newest, newestOf
<1>6. c \in Customer /\ c # None
  BY <1>1, <1>2 DEF newestOf, customersOf
<1>7. get[g].active => get[g].price \in Price
  BY DEF TypeInv, TypeOK, GetWrite
<1>8. row'[u] = Synced(row[u], get[g]) /\ row[u] \in SubscriptionRow \cup {None}
  BY DEF TypeInv, TypeOK, GetWrite
<1>9. /\ row'[u] # None /\ row'[u].cust = c /\ row'[u].subscribed = get[g].active
      /\ get[g].active =>
           row'[u].sub = c /\ row'[u].tier = "clan" /\ row'[u].price = get[g].price
  <2>1. (IF row[u] = None THEN FreeRow ELSE row[u]) \in SubscriptionRow
    BY <1>8, IdleFacts DEF FreeRow, SubscriptionRow
  <2>2. get[g] \in GetState
    BY DEF TypeInv, TypeOK
  <2>3. CASE get[g].active
    <3>1. row'[u] = [cust |-> c, sub |-> c, subscribed |-> TRUE,
                     tier |-> "clan", price |-> get[g].price]
      BY <1>1, <1>6, <1>7, <1>8, <2>3 DEF Synced, tierFromPriceId
    <3>2. row'[u] \in SubscriptionRow
      BY <3>1, <1>6, <1>7, <2>3 DEF SubscriptionRow
    <3>3. get[g].active = TRUE
      BY <2>2, <2>3 DEF GetState
    <3>4. row'[u] # None
      BY <3>2, NullIsNoRow
    <3>5. /\ row'[u].cust = c /\ row'[u].subscribed = TRUE /\ row'[u].sub = c
          /\ row'[u].tier = "clan" /\ row'[u].price = get[g].price
      BY <3>1
    <3> QED
      BY <3>3, <3>4, <3>5
  <2>4. CASE ~get[g].active
    <3> DEFINE base == IF row[u] = None THEN FreeRow ELSE row[u]
    <3>1. row'[u] = [base EXCEPT !.cust = c, !.subscribed = FALSE, !.tier = "free"]
      BY <1>1, <1>6, <1>8, <2>4 DEF Synced
    <3> HIDE DEF base
    <3>2. row'[u] \in SubscriptionRow /\ row'[u].cust = c /\ row'[u].subscribed = FALSE
      BY <3>1, <2>1, <1>6 DEF SubscriptionRow, base
    <3> QED
      BY <3>2, <2>2, <2>4, NullIsNoRow DEF GetState
  <2> QED
    BY <2>3, <2>4
<1>10. Newest(customersOf(u))' = c
  BY <1>4, <1>5 DEF Newest
<1> QED
  BY <1>3, <1>4, <1>9, <1>10 DEF Agrees

\* A call of GET /subscription that no change and no event of its user overtook
\* leaves the row as Stripe has it, whatever the webhook lost before.
THEOREM SyncHeals == Spec => GetHeals
<1>1. Init => TypeInv /\ ReadsHold
  BY InitReads, InitTypeInv
<1>2. TypeInv /\ ReadsHold /\ [Next]_vars => TypeInv' /\ ReadsHold'
  BY TypeStep, ReadsStep
<1>3. TypeInv /\ ReadsHold =>
        [\A g \in Get, u \in User :
           /\ GetWrite(g) /\ get[g].user = u
           /\ ~get[g].stale /\ get[g].cust # None
           => Agrees(u)']_vars
  BY WriteAgrees
<1> QED
  BY <1>1, <1>2, <1>3, PTL DEF Spec, GetHeals

-----------------------------------------------------------------------------
(* What the rows say once all events took effect in order.                  *)

\* What Stripe sent last of a customer is what it holds, and a checkout's first
\* event is never the last.
Told ==
  \A e \in 1..Len(sent) :
    /\ sent[e].user = stripe[sent[e].cust].user
    /\ stripe[sent[e].cust].status # "none"
    /\ (\A f \in 1..Len(sent) : f > e => sent[f].cust # sent[e].cust) =>
         /\ sent[e].status = stripe[sent[e].cust].status
         /\ sent[e].price = stripe[sent[e].cust].price
         /\ sent[e].type # "completed"
         /\ sent[e].type = "deleted" => sent[e].status = "canceled"

\* Customers come one after the other, each but an old subscriber with a
\* checkout, whose first event comes before all of later customers.
CustomersInTurn ==
  /\ \A b, c \in Customer : b < c /\ stripe[c].status # "none" => stripe[b].status # "none"
  /\ \A c \in Customer : stripe[c].status # "none" /\ c > 1 =>
       \E e \in 1..Len(sent) : sent[e].type = "completed" /\ sent[e].cust = c
  /\ \A e, f \in 1..Len(sent) : sent[e].type = "completed" /\ sent[f].cust > sent[e].cust => f > e

AppliedWasSent == \A e \in Event : applied[e] > 0 => e <= Len(sent)

InTurn(u) ==
  \A e, f \in 1..Len(sent) :
    e < f /\ sent[e].user = u /\ sent[f].user = u /\ applied[f] > 0 => applied[e] > 0

\* The events of c's checkout, and all events of c, took effect.
Begun(c) == \A e \in 1..Len(sent) : sent[e].cust = c /\ sent[e].type = "completed" => applied[e] > 0

Over(c) == \A e \in 1..Len(sent) : sent[e].cust = c => applied[e] > 0

Shows(r, c) ==
  /\ r.subscribed = (stripe[c].status = "active")
  /\ r.subscribed => /\ r.sub = c
                     /\ stripe[c].price \in SoldPrice => r.tier = "clan" /\ r.price = stripe[c].price

Follows(u) ==
  \A c \in Customer : newestOf(c, u) =>
    /\ Begun(c) => row[u] # None /\ row[u].cust = c
    /\ Over(c) => Shows(row[u], c)

OrderInv == Told /\ CustomersInTurn /\ AppliedWasSent /\ \A u \in User : ordered[u] => InTurn(u) /\ Follows(u)

LEMMA OverIsBegun == ASSUME NEW c, Over(c) PROVE Begun(c)
BY DEF Over, Begun

LEMMA SentFacts ==
  ASSUME TypeOK, NEW e \in 1..Len(sent)
  PROVE  /\ e \in Event /\ e \in Nat /\ sent[e] \in Message
         /\ sent[e].cust \in Customer /\ sent[e].cust \in Nat \ {0} /\ sent[e].user \in User
<1>1. sent \in Seq(Message) /\ Len(sent) \in Nat /\ Len(sent) =< MaxEvents /\ MaxEvents \in Nat
  BY WebhookConstants DEF TypeOK
<1>2. e \in Event /\ e \in Nat /\ sent[e] \in Message
  BY <1>1, ElementOfSeq DEF Event
<1> QED
  BY <1>2, WebhookConstants DEF Message, Customer

LEMMA InitOrder == Init => OrderInv
<1> SUFFICES ASSUME Init PROVE OrderInv
  OBVIOUS
<1>1. sent = <<>> /\ 1..Len(sent) = {}
  BY DEF Init
<1>2. Customer \subseteq Nat \ {0} /\ 1 \in Customer
  BY WebhookConstants DEF Customer
<1>3. PICK p \in LegacyPrice \cup {None} :
       /\ p = None <=> OldSubscriber = None
       /\ stripe = [c \in Customer |->
            IF c = 1 /\ p # None
            THEN [user |-> OldSubscriber, status |-> "active", price |-> p]
            ELSE [user |-> None, status |-> "none", price |-> None]]
       /\ row = [u \in User |->
            IF u = OldSubscriber
            THEN [cust |-> 1, sub |-> 1, subscribed |-> TRUE, tier |-> "clan", price |-> p]
            ELSE None]
  BY DEF Init
<1>4. CustomersInTurn
  BY <1>1, <1>2, <1>3 DEF CustomersInTurn
<1>5. AppliedWasSent
  BY DEF Init, AppliedWasSent
<1>6. ASSUME NEW u \in User, NEW c \in Customer, newestOf(c, u)
      PROVE  row[u] # None /\ row[u].cust = c /\ Shows(row[u], c)
  <2>1. u # None /\ stripe[c].user = u
    BY <1>6, WebhookConstants DEF newestOf, customersOf
  <2>2. c = 1 /\ p # None /\ u = OldSubscriber
    BY <1>3, <2>1
  <2>3. stripe[c] = [user |-> u, status |-> "active", price |-> p]
    BY <1>3, <2>2
  <2>4. row[u] = [cust |-> 1, sub |-> 1, subscribed |-> TRUE, tier |-> "clan", price |-> p]
    BY <1>3, <2>2
  <2>5. row[u] \in SubscriptionRow
    BY ONLY <1>2, <1>3, <2>2, <2>4 DEF SubscriptionRow, Price
  <2>6. row[u] # None
    BY <2>5, NullIsNoRow
  <2>7. /\ stripe[c].status = "active" /\ stripe[c].price = p
        /\ row[u].cust = 1 /\ row[u].sub = 1 /\ row[u].subscribed = TRUE /\ row[u].tier = "clan" /\ row[u].price = p
    BY ONLY <2>3, <2>4
  <2> QED
    BY ONLY <2>2, <2>6, <2>7 DEF Shows
<1>7. \A u \in User : InTurn(u) /\ Follows(u)
  BY <1>1, <1>6 DEF InTurn, Follows
<1>8. Told
  BY <1>1 DEF Told
<1> QED
  BY <1>4, <1>5, <1>7, <1>8 DEF OrderInv

\* Stripe changes what it holds of customer c and sends the events s of it.
LEMMA StripeMovesOrder ==
  ASSUME TypeInv, ReadsHold, OrderInv, NEW c \in Customer, NEW h, h.user \in User, h.status # "none",
         stripe' = [stripe EXCEPT ![c] = h], UNCHANGED <<row, applied, ordered>>, TypeOK',
         NEW s \in Seq(Message), s # <<>>, sent' = sent \o s,
         \A i \in 1..Len(s) : s[i].cust = c /\ s[i].user = h.user,
         s[Len(s)].status = h.status, s[Len(s)].price = h.price, s[Len(s)].type # "completed",
         s[Len(s)].type = "deleted" => h.status = "canceled",
         stripe[c].user \in {h.user, None}, \A b \in Customer : b < c => stripe[b].status # "none",
         stripe[c].status = "none" => s[1].type = "completed",
         stripe[c].status # "none" => \A i \in 1..Len(s) : s[i].type # "completed"
  PROVE  OrderInv'
<1> DEFINE n == Len(sent)
           k == Len(sent')
<1>1. TypeOK /\ HeldOK /\ Told /\ CustomersInTurn /\ AppliedWasSent /\ Unowned
  BY DEF TypeInv, OrderInv, ReadsHold
<1>2. stripe'[c] = h /\ \A b \in Customer : b # c => stripe'[b] = stripe[b]
  BY <1>1 DEF TypeOK
<1>3. /\ n \in Nat /\ Len(s) \in Nat /\ Len(s) > 0 /\ k = n + Len(s) /\ k \in 1..k /\ k > n
      /\ \A e \in 1..n : e \in 1..k /\ sent'[e] = sent[e]
      /\ \A e \in 1..k : e \in 1..n \/ (e > n /\ e - n \in 1..Len(s) /\ sent'[e] = s[e - n])
  <2>1. sent \in Seq(Message) /\ n \in Nat /\ Len(s) \in Nat /\ Len(s) > 0
    BY <1>1, EmptySeq DEF TypeOK
  <2>2. k = n + Len(s) /\ \A e \in 1..k : sent'[e] = IF e <= n THEN sent[e] ELSE s[e - n]
    BY <2>1, ConcatProperties
  <2> HIDE DEF n, k
  <2> QED
    BY ONLY <2>1, <2>2
<1>4. sent'[k] = s[Len(s)] /\ sent'[n + 1] = s[1] /\ n + 1 \in 1..k
  <2> HIDE DEF n, k
  <2>1. k \notin 1..n /\ n + 1 \notin 1..n /\ k - n = Len(s) /\ (n + 1) - n = 1 /\ n + 1 \in 1..k
    BY ONLY <1>3
  <2> QED
    BY ONLY <1>3, <2>1
<1>5. \A e \in 1..k : e \in 1..n \/ (e > n /\ sent'[e].cust = c /\ sent'[e].user = h.user /\ ~(applied[e] > 0))
  <2>1. ASSUME NEW e \in 1..k, e \notin 1..n PROVE e > n /\ sent'[e].cust = c /\ sent'[e].user = h.user
    BY <1>3, <2>1
  <2>2. ASSUME NEW e \in 1..k, e \notin 1..n PROVE ~(applied[e] > 0)
    <3>1. e \in Event /\ e > n /\ n \in Nat /\ e \in Nat
      <4>1. k <= MaxEvents /\ MaxEvents \in Nat
        BY WebhookConstants DEF TypeOK
      <4> HIDE DEF n, k
      <4> QED
        BY ONLY <1>3, <2>2, <4>1, e \in 1..k DEF Event
    <3> QED
      BY <1>1, <3>1 DEF AppliedWasSent
  <2> QED
    BY <2>1, <2>2
<1>6. k \notin 1..n /\ n + 1 \notin 1..n /\ \A e \in 1..k : e # k => k > e
  <2> HIDE DEF n, k
  <2> QED
    BY ONLY <1>3
<1>7. sent'[k].cust = c /\ sent'[k].user = h.user /\ ~(applied[k] > 0) /\ sent'[n + 1].cust = c /\ ~(applied[n + 1] > 0)
  BY ONLY <1>3, <1>4, <1>5, <1>6
<1>8. \A e \in 1..n : /\ e \in Nat /\ sent[e].cust \in Customer /\ sent[e].cust \in Nat \ {0} /\ sent[e].user \in User
                      /\ sent[e].user = stripe[sent[e].cust].user /\ stripe[sent[e].cust].status # "none"
  BY <1>1, SentFacts DEF Told
<1>9. None \notin User /\ Customer \subseteq Nat \ {0}
  BY WebhookConstants DEF Customer
<1> HIDE DEF n, k
<1>10. Told'
  <2> SUFFICES ASSUME NEW e \in 1..k
               PROVE  /\ sent'[e].user = stripe'[sent'[e].cust].user
                      /\ stripe'[sent'[e].cust].status # "none"
                      /\ (\A f \in 1..k : f > e => sent'[f].cust # sent'[e].cust) =>
                           /\ sent'[e].status = stripe'[sent'[e].cust].status
                           /\ sent'[e].price = stripe'[sent'[e].cust].price
                           /\ sent'[e].type # "completed"
                           /\ sent'[e].type = "deleted" => sent'[e].status = "canceled"
    BY DEF Told, k
  <2>1. CASE e = k
    BY <1>2, <1>4, <1>7, <2>1
  <2>2. CASE e # k /\ e \notin 1..n
    <3>1. k > e /\ sent'[k].cust = c /\ sent'[e].cust = c /\ sent'[e].user = h.user
      BY <1>5, <1>6, <1>7, <2>2
    <3> QED
      BY <1>2, <1>3, <3>1
  <2>3. CASE e \in 1..n /\ sent[e].cust = c
    <3>1. k > e /\ sent'[k].cust = c /\ sent'[e] = sent[e]
      BY <1>3, <1>6, <1>7, <2>3
    <3>2. sent[e].user = h.user
      BY <1>8, <1>9, <2>3
    <3> QED
      BY <1>2, <1>3, <2>3, <3>1, <3>2, ZenonT(60)
  <2>4. CASE e \in 1..n /\ sent[e].cust # c
    <3>1. sent'[e] = sent[e] /\ stripe'[sent[e].cust] = stripe[sent[e].cust]
      BY <1>2, <1>3, <1>8, <2>4
    <3>2. (\A f \in 1..k : f > e => sent'[f].cust # sent[e].cust) => \A f \in 1..n : f > e => sent[f].cust # sent[e].cust
      BY <1>3
    <3>3. /\ sent[e].user = stripe[sent[e].cust].user
          /\ stripe[sent[e].cust].status # "none"
          /\ (\A f \in 1..n : f > e => sent[f].cust # sent[e].cust) =>
               /\ sent[e].status = stripe[sent[e].cust].status
               /\ sent[e].price = stripe[sent[e].cust].price
               /\ sent[e].type # "completed"
               /\ sent[e].type = "deleted" => sent[e].status = "canceled"
      BY <1>1, <2>4 DEF Told, n
    <3> QED
      BY ONLY <3>1, <3>2, <3>3
  <2> QED
    BY <2>1, <2>2, <2>3, <2>4
<1>11. CustomersInTurn'
  <2>1. \A b, d \in Customer : b < d /\ stripe'[d].status # "none" => stripe'[b].status # "none"
    BY <1>1, <1>2 DEF CustomersInTurn
  <2>2. ASSUME NEW d \in Customer, stripe'[d].status # "none", d > 1
        PROVE  \E e \in 1..k : sent'[e].type = "completed" /\ sent'[e].cust = d
    <3>1. CASE d = c /\ stripe[c].status = "none"
      BY <1>4, <1>7, <3>1
    <3>2. CASE d # c \/ stripe[c].status # "none"
      <4>1. stripe[d].status # "none"
        BY <1>2, <2>2, <3>2
      <4>2. PICK e \in 1..n : sent[e].type = "completed" /\ sent[e].cust = d
        BY <1>1, <2>2, <4>1 DEF CustomersInTurn, n
      <4> QED
        BY <1>3, <4>2
    <3> QED
      BY <3>1, <3>2
  <2>3. ASSUME NEW e \in 1..k, NEW f \in 1..k, sent'[e].type = "completed", sent'[f].cust > sent'[e].cust
        PROVE  f > e
    <3>1. CASE e \in 1..n /\ f \in 1..n
      BY <1>1, <1>3, <2>3, <3>1 DEF CustomersInTurn, n
    <3>2. CASE e \in 1..n /\ f \notin 1..n
      BY <1>3, <1>5, <3>2
    <3>3. CASE e \notin 1..n
      <4>1. sent'[e].cust = c /\ stripe[c].status = "none"
        BY <1>3, <1>5, <2>3, <3>3, ZenonT(60)
      <4>2. sent'[f].cust > c
        BY ONLY <2>3, <4>1
      <4>3. f \in 1..n
        <5>1. c \in Nat
          BY <1>9
        <5> QED
          BY ONLY <1>5, <4>2, <5>1, f \in 1..k
      <4>4. stripe[sent[f].cust].status # "none" /\ sent[f].cust \in Customer /\ c < sent[f].cust
        BY <1>3, <1>8, <1>9, <4>2, <4>3
      <4> QED
        BY <1>1, <4>1, <4>4 DEF CustomersInTurn
    <3> QED
      BY <3>1, <3>2, <3>3
  <2> QED
    BY <2>1, <2>2, <2>3 DEF CustomersInTurn, k
<1>12. AppliedWasSent'
  BY <1>1, <1>3 DEF AppliedWasSent, n, k, Event
<1>13. ASSUME NEW u \in User, ordered'[u] PROVE InTurn(u)'
  <2>1. InTurn(u)
    BY <1>13 DEF OrderInv
  <2>2. ASSUME NEW e \in 1..k, NEW f \in 1..k, e < f, sent'[e].user = u, sent'[f].user = u, applied[f] > 0
        PROVE  applied[e] > 0
    <3>1. f \in 1..n /\ e \in 1..n
      BY <1>3, <1>5, <2>2
    <3> QED
      BY <1>3, <2>1, <2>2, <3>1 DEF InTurn, n
  <2> QED
    BY <2>2 DEF InTurn, k
<1>14. ASSUME NEW u \in User, ordered'[u], NEW b \in Customer, newestOf(b, u)'
       PROVE  (Begun(b)' => row'[u] # None /\ row'[u].cust = b) /\ (Over(b) => Shows(row[u], b))'
  <2>1. Follows(u)
    BY <1>14 DEF OrderInv
  <2>2. ASSUME b # c \/ stripe[c].status # "none" PROVE newestOf(b, u)
    <3>1. stripe'[b].user = u /\ \A d \in Customer : stripe'[d].user = u => d <= b
      BY <1>14 DEF newestOf, customersOf
    <3>2. stripe[b].user = u
      BY <1>1, <1>2, <1>9, <2>2, <3>1 DEF HeldOK
    <3>3. \A d \in Customer : stripe[d].user = u => stripe'[d].user = u
      BY <1>2, <1>9
    <3> QED
      BY ONLY <3>1, <3>2, <3>3, b \in Customer DEF newestOf, customersOf
  <2>3. ASSUME Begun(b)' PROVE row'[u] # None /\ row'[u].cust = b
    <3>1. \A e \in 1..k : sent'[e].cust = b /\ sent'[e].type = "completed" => applied[e] > 0
      BY <2>3 DEF Begun, k
    <3>2. b # c \/ stripe[c].status # "none"
      BY <1>4, <1>7, <3>1
    <3>3. Begun(b)
      BY <1>3, <3>1 DEF Begun, n
    <3> QED
      BY <2>1, <2>2, <3>2, <3>3 DEF Follows
  <2>4. ASSUME Over(b)' PROVE Shows(row[u], b)'
    <3>1. \A e \in 1..k : sent'[e].cust = b => applied[e] > 0
      BY <2>4 DEF Over, k
    <3>2. b # c
      BY <1>3, <1>7, <3>1
    <3>3. Over(b)
      BY <1>3, <3>1 DEF Over, n
    <3>4. Shows(row[u], b) /\ row'[u] = row[u] /\ stripe'[b] = stripe[b]
      BY <1>2, <2>1, <2>2, <3>2, <3>3 DEF Follows
    <3> QED
      BY ONLY <3>4 DEF Shows
  <2> QED
    BY <2>3, <2>4
<1>15. \A u \in User : ordered'[u] => Follows(u)'
  BY <1>14 DEF Follows
<1> QED
  BY <1>10, <1>11, <1>12, <1>13, <1>15 DEF OrderInv

\* An event takes effect.
LEMMA ApplyMovesOrder ==
  ASSUME TypeInv, ClaimInv, ReadsHold, OrderInv, NEW d \in Delivery, Apply(d)
  PROVE  OrderInv'
<1>1. PICK e : e = delivery[d].event
  OBVIOUS
<1>2. PICK m : m = sent[e]
  OBVIOUS
<1>3. PICK v : v = m.user
  OBVIOUS
<1>4. TypeOK /\ Told /\ CustomersInTurn /\ AppliedWasSent
  BY DEF TypeInv, OrderInv
<1>5. e \in 1..Len(sent) /\ delivery[d] \in DeliveryState
  BY <1>4, <1>1, InProgress DEF Apply, at
<1>6. /\ \A f \in 1..Len(sent) : /\ f \in Event /\ f \in Nat /\ sent[f] \in Message
                                 /\ sent[f].cust \in Customer /\ sent[f].cust \in Nat \ {0} /\ sent[f].user \in User
      /\ \A f \in 1..Len(sent) : sent[f].user = stripe[sent[f].cust].user /\ stripe[sent[f].cust].status # "none"
  BY <1>4, SentFacts DEF Told
<1>7. applied[e] = 0
  BY <1>5, <1>6, <1>1 DEF Apply, holds, at, ClaimInv, HeldByOne
<1>8. /\ stripe' = stripe /\ sent' = sent
      /\ row' = Effect(m)
      /\ applied' = [applied EXCEPT ![e] = @ + 1]
      /\ ordered' = [ordered EXCEPT ![v] = @ /\ \A f \in 1..(e - 1) : sent[f].user = v => applied[f] > 0]
  BY <1>1, <1>2, <1>3 DEF Apply
<1>9. applied'[e] > 0 /\ \A f \in Event : f # e => applied'[f] = applied[f]
  BY <1>4, <1>5, <1>6, <1>7, <1>8 DEF TypeOK
<1>10. v \in User /\ m.cust \in Customer /\ m.user = v /\ sent[e] = m /\ stripe[m.cust].user = v
  BY <1>5, <1>6, <1>2, <1>3
<1>11. Told' /\ CustomersInTurn'
  BY <1>4, <1>8 DEF Told, CustomersInTurn
<1>12. AppliedWasSent'
  <2>1. e <= Len(sent)
    BY <1>5, <1>4 DEF TypeOK
  <2> QED
    BY <1>4, <1>8, <1>9, <2>1 DEF AppliedWasSent
\* Another user's events and row are left alone.
<1>13. ASSUME NEW u \in User, u # v, ordered'[u] PROVE InTurn(u)' /\ Follows(u)'
  <2>1. InTurn(u) /\ Follows(u)
    BY <1>4, <1>8, <1>13 DEF OrderInv, TypeOK
  <2>2. \A f \in 1..Len(sent) : sent[f].user = u => applied'[f] = applied[f]
    BY <1>6, <1>9, <1>10, <1>13
  <2>3. InTurn(u)'
    BY <1>8, <2>1, <2>2 DEF InTurn
  <2>4. ASSUME NEW c \in Customer, newestOf(c, u)'
        PROVE  (Begun(c)' => row'[u] # None /\ row'[u].cust = c) /\ (Over(c) => Shows(row[u], c))'
    <3>1. newestOf(c, u) /\ stripe[c].user = u
      BY <1>8, <2>4 DEF newestOf, customersOf
    <3>2. \A f \in 1..Len(sent) : sent[f].cust = c => applied'[f] = applied[f]
      BY <1>6, <2>2, <3>1
    <3>3. Begun(c)' => Begun(c)
      BY <1>8, <3>2 DEF Begun
    <3>4. Over(c)' => Over(c)
      BY <1>8, <3>2 DEF Over
    <3>5. Begun(c) => row[u] # None /\ row[u].cust = c
      BY <2>1, <3>1 DEF Follows
    <3>6. Over(c) => Shows(row[u], c)
      BY <2>1, <3>1 DEF Follows
    <3>7. Begun(c) => row'[u] = row[u]
      <4>1. m.cust # c
        BY <1>10, <1>13, <3>1
      <4>2. row[u].cust = c => Effect(m)[u] = row[u]
        BY <1>10, <1>13, <4>1 DEF Effect
      <4> QED
        BY <1>8, <3>5, <4>2
    <3>8. Over(c)' => row'[u] = row[u] /\ Shows(row[u], c)
      BY <3>4, <3>6, <3>7, OverIsBegun
    <3>9. Over(c)' => Shows(row[u], c)'
      BY <1>8, <3>8 DEF Shows
    <3> QED
      BY <3>3, <3>5, <3>7, <3>9
  <2> QED
    BY <2>3, <2>4 DEF Follows
<1>14. ASSUME ordered'[v] PROVE InTurn(v)' /\ Follows(v)'
  <2>1. ordered[v] /\ \A f \in 1..(e - 1) : sent[f].user = v => applied[f] > 0
    BY <1>4, <1>8, <1>10, <1>14 DEF TypeOK
  <2>2. InTurn(v) /\ Follows(v)
    BY <1>10, <2>1 DEF OrderInv
  <2>3. \A f \in 1..Len(sent) : sent[f].user = v /\ f < e => applied[f] > 0
    <3>1. \A f \in 1..Len(sent) : f < e => f \in 1..(e - 1)
      BY <1>5, <1>6
    <3> QED
      BY <2>1, <3>1
  <2>4. \A f \in 1..Len(sent) : sent[f].user = v /\ f > e => ~(applied[f] > 0)
    <3>1. ~(applied[e] > 0)
      BY <1>7
    <3> QED
      BY <1>5, <1>10, <2>2, <3>1 DEF InTurn
  <2>5. \A f \in 1..Len(sent) : sent[f].user = v /\ f # e /\ applied'[f] > 0 => f < e /\ applied[f] > 0
    BY <1>5, <1>6, <1>9, <2>4
  <2>6. InTurn(v)'
    <3>1. ASSUME NEW f \in 1..Len(sent), NEW g \in 1..Len(sent), f < g, sent[f].user = v, sent[g].user = v, applied'[g] > 0
          PROVE  applied'[f] > 0
      <4>1. f < e
        BY <1>5, <1>6, <2>5, <3>1
      <4>2. applied[f] > 0 /\ f # e
        BY <1>5, <1>6, <2>3, <3>1, <4>1
      <4> QED
        BY <1>6, <1>9, <4>2
    <3> QED
      BY <1>8, <3>1 DEF InTurn
  <2>7. ASSUME NEW c \in Customer, newestOf(c, v)'
        PROVE  (Begun(c)' => row'[v] # None /\ row'[v].cust = c) /\ (Over(c) => Shows(row[v], c))'
    <3>1. newestOf(c, v) /\ stripe[c].user = v /\ m.cust <= c
      BY <1>8, <1>10, <2>7 DEF newestOf, customersOf
    <3>2. \A f \in 1..Len(sent) : sent[f].cust = c => sent[f].user = v
      BY <1>6, <3>1
    <3>3. (Begun(c) => row[v] # None /\ row[v].cust = c) /\ (Over(c) => Shows(row[v], c))
      BY <2>2, <3>1 DEF Follows
    <3>4. row[v] \in SubscriptionRow \cup {None}
      BY <1>4, <1>10 DEF TypeOK
    <3>5. row'[v] = Effect(m)[v]
      BY <1>8
    <3>6. m \in Message
      BY <1>5, <1>6, <1>2
    \* The checkout of an older customer is not the last to take effect.
    <3>7. ASSUME m.type = "completed", Begun(c)' PROVE m.cust = c
      <4>1. SUFFICES ASSUME m.cust < c PROVE FALSE
        BY <1>5, <1>6, <1>10, <3>1, WebhookConstants DEF Customer
      <4>2. c > 1 /\ stripe[c].status # "none"
        <5>1. m.cust \in Nat \ {0} /\ c \in Nat
          BY <1>5, <1>6, <1>10, WebhookConstants DEF Customer
        <5>2. v # None
          BY <1>10, WebhookConstants
        <5> QED
          BY <3>1, <4>1, <5>1, <5>2 DEF ReadsHold, Unowned
      <4>3. PICK f \in 1..Len(sent) : sent[f].type = "completed" /\ sent[f].cust = c
        BY <1>4, <4>2 DEF CustomersInTurn
      <4>4. f > e
        BY <1>4, <1>5, <1>10, <3>7, <4>1, <4>3 DEF CustomersInTurn
      <4>5. applied'[f] > 0
        BY <1>8, <3>7, <4>3 DEF Begun
      <4> QED
        BY <1>5, <1>6, <2>5, <3>2, <4>3, <4>4, <4>5
    <3>8. ASSUME m.type # "completed", Begun(c)' PROVE Begun(c)
      <4>1. \A f \in 1..Len(sent) : sent[f].cust = c /\ sent[f].type = "completed" => f # e /\ applied'[f] > 0
        BY <1>8, <1>10, <3>8 DEF Begun
      <4> QED
        BY <1>6, <1>9, <4>1 DEF Begun
    <3>9. ASSUME Begun(c)' PROVE row'[v] # None /\ row'[v].cust = c
      <4>1. CASE m.type = "completed"
        <5>1. row'[v] = Upserted(row[v], m) /\ m.cust = c
          BY <1>10, <3>5, <3>7, <3>9, <4>1 DEF Effect
        <5>2. Upserted(row[v], m) \in SubscriptionRow /\ Upserted(row[v], m).cust = m.cust
          BY <1>10, <3>4 DEF Upserted, FreeRow, SubscriptionRow
        <5> QED
          BY <5>1, <5>2, NullIsNoRow
      <4>2. CASE m.type # "completed"
        <5>1. row[v] # None /\ row[v].cust = c /\ row[v] \in SubscriptionRow
          BY <3>3, <3>4, <3>8, <3>9, <4>2
        <5>2. \/ row'[v] = Updated(row[v], m) /\ m.cust = c
              \/ row'[v] = Deleted(row[v])
              \/ row'[v] = row[v]
          BY <1>10, <3>5, <4>2, <5>1 DEF Effect
        <5>3. /\ Updated(row[v], m) \in SubscriptionRow /\ Updated(row[v], m).cust = row[v].cust
              /\ Deleted(row[v]) \in SubscriptionRow /\ Deleted(row[v]).cust = row[v].cust
          BY <1>10, <3>6, <5>1 DEF Updated, Deleted, SubscriptionRow, tierFromPriceId, Message, Price, isBasePriceId
        <5> QED
          BY <5>1, <5>2, <5>3, NullIsNoRow
      <4> QED
        BY <4>1, <4>2
    <3>10. ASSUME Over(c)', m.cust # c PROVE Shows(row[v], c)'
      <4>1. \A f \in 1..Len(sent) : sent[f].cust = c => f # e /\ applied'[f] > 0
        BY <1>8, <1>10, <3>10 DEF Over
      <4>2. Over(c)
        BY <1>6, <1>9, <4>1 DEF Over
      <4>3. Shows(row[v], c) /\ row[v] # None /\ row[v].cust = c
        BY <3>3, <4>2, OverIsBegun
      <4>4. Begun(c)'
        BY <3>10 DEF Over, Begun
      <4>5. m.type # "completed"
        BY <3>7, <3>10, <4>4
      <4>6. row'[v] = row[v]
        BY <1>10, <3>5, <3>10, <4>3, <4>5 DEF Effect
      <4> QED
        BY <1>8, <4>3, <4>6 DEF Shows
    <3>11. ASSUME Over(c)', m.cust = c PROVE Shows(row[v], c)'
      <4>1. \A f \in 1..Len(sent) : f > e => sent[f].cust # m.cust
        <5>1. ASSUME NEW f \in 1..Len(sent), f > e, sent[f].cust = c PROVE FALSE
          <6>1. applied'[f] > 0
            BY <1>8, <3>11, <5>1 DEF Over
          <6> QED
            BY <1>5, <1>6, <2>5, <3>2, <5>1, <6>1
        <5> QED
          BY <3>11, <5>1
      <4>2. /\ m.status = stripe[c].status /\ m.price = stripe[c].price /\ m.type # "completed"
            /\ m.type = "deleted" => m.status = "canceled"
        BY <1>4, <1>5, <1>10, <3>11, <4>1 DEF Told
      <4>3. Begun(c)'
        BY <3>11 DEF Over, Begun
      <4>4. row[v] # None /\ row[v].cust = c /\ row[v] \in SubscriptionRow
        BY <3>3, <3>4, <3>8, <4>2, <4>3
      <4>5. CASE m.type = "deleted"
        <5>1. row'[v] = Deleted(row[v])
          BY <1>10, <3>5, <3>11, <4>4, <4>5 DEF Effect
        <5>2. row'[v].subscribed = FALSE
          BY ONLY <4>4, <5>1 DEF Deleted, SubscriptionRow
        <5>3. stripe'[c].status = "canceled"
          BY <1>8, <4>2, <4>5
        <5> QED
          BY ONLY <5>2, <5>3 DEF Shows
      <4>6. CASE m.type # "deleted"
        <5>1. row'[v] = Updated(row[v], m)
          BY <1>10, <3>5, <3>6, <3>11, <4>2, <4>4, <4>6 DEF Effect, Message
        <5>2. /\ row'[v].subscribed = (m.status = "active") /\ row'[v].sub = c
              /\ m.price \in SoldPrice => row'[v].tier = "clan" /\ row'[v].price = m.price
          BY <3>11, <4>4, <5>1 DEF Updated, SubscriptionRow, isBasePriceId, tierFromPriceId, Price
        <5>3. stripe'[c] = stripe[c]
          BY <1>8
        <5> QED
          BY ONLY <4>2, <5>2, <5>3 DEF Shows
      <4> QED
        BY <4>5, <4>6
    <3> QED
      BY <3>9, <3>10, <3>11
  <2> QED
    BY <2>6, <2>7 DEF Follows
<1> QED
  BY <1>11, <1>12, <1>13, <1>14 DEF OrderInv

\* A set of naturals has a least element.
LEMMA Least ==
  ASSUME NEW I \in SUBSET Nat, I # {}
  PROVE  \E i \in I : \A j \in I : i <= j
<1> DEFINE Below == {ss \in Nat \X Nat : ss[1] < ss[2]}
<1>0. IsWellFoundedOn(Below, Nat)
  BY NatLessThanWellFounded DEF OpToRel
<1>1. PICK i \in I : \A j \in I : <<j, i>> \notin Below
  <2> HIDE DEF Below
  <2>1. I \subseteq Nat /\ I # {}
    OBVIOUS
  <2> QED
    BY ONLY <1>0, <2>1, WFMin
<1>2. ASSUME NEW j \in I PROVE i <= j
  <2>1. \A m, n \in Nat : <<m, n>> \in Below <=> m < n
    OBVIOUS
  <2> HIDE DEF Below
  <2>2. i \in Nat /\ j \in Nat /\ <<j, i>> \notin Below
    BY <1>1
  <2> QED
    BY ONLY <2>1, <2>2
<1> QED
  BY <1>2

\* A set of numbers up to n has a greatest.
LEMMA BoundedHasNewest ==
  ASSUME NEW n \in Nat, NEW S \in SUBSET (1..n), S # {}
  PROVE  \E d \in S : \A b \in S : b <= d
<1>1. PICK T : T = {n - d : d \in S}
  OBVIOUS
<1>2. \A d \in S : d \in 1..n /\ n - d \in Nat
  OBVIOUS
<1>3. T \in SUBSET Nat /\ T # {}
  BY ONLY <1>1, <1>2, S # {}
<1>4. PICK t \in T : \A x \in T : t <= x
  BY ONLY <1>3, Least
<1>5. PICK d \in S : t = n - d
  BY <1>1, <1>4
<1>6. \A b \in S : n - d <= n - b
  BY <1>1, <1>4, <1>5
<1> QED
  BY <1>2, <1>5, <1>6

\* A row that was not there is made, or the row stays.
LEMMA RowAppears ==
  ASSUME OrderInv, NEW u \in User, ordered[u], UNCHANGED <<stripe, sent, applied>>,
         row[u] = None \/ row'[u] = row[u]
  PROVE  InTurn(u)' /\ Follows(u)'
<1>1. InTurn(u) /\ Follows(u)
  BY DEF OrderInv
<1>2. InTurn(u)'
  BY <1>1 DEF InTurn
<1>3. ASSUME NEW c \in Customer, newestOf(c, u)'
      PROVE  (Begun(c) => row[u] # None /\ row[u].cust = c)' /\ (Over(c) => Shows(row[u], c))'
  <2>1. newestOf(c, u) /\ (Begun(c)' => Begun(c)) /\ (Over(c)' => Over(c))
    BY <1>3 DEF newestOf, customersOf, Begun, Over
  <2>2. (Begun(c) => row[u] # None /\ row[u].cust = c) /\ (Over(c) => Shows(row[u], c))
    BY <1>1, <2>1 DEF Follows
  <2>3. Begun(c)' => row'[u] = row[u] /\ row[u] # None /\ row[u].cust = c
    BY <2>1, <2>2
  <2>4. Over(c)' => row'[u] = row[u] /\ Shows(row[u], c)
    BY <2>1, <2>2, OverIsBegun
  <2>5. Over(c)' => Shows(row[u], c)'
    BY <2>4 DEF Shows
  <2> QED
    BY <2>3, <2>5
<1> QED
  BY <1>2, <1>3 DEF Follows

\* The write of a GET.
LEMMA GetWriteMovesOrder ==
  ASSUME TypeInv, ReadsHold, OrderInv, NEW g \in Get, GetWrite(g)
  PROVE  OrderInv'
<1>1. PICK v : v = get[g].user
  OBVIOUS
<1>2. /\ UNCHANGED <<stripe, sent, applied>>
      /\ row' = [row EXCEPT ![v] = Synced(@, get[g])]
      /\ ordered' = [ordered EXCEPT ![v] = @ /\ ~get[g].stale]
  BY <1>1 DEF GetWrite
<1>3. Told' /\ CustomersInTurn' /\ AppliedWasSent'
  BY <1>2 DEF OrderInv, Told, CustomersInTurn, AppliedWasSent
<1>4. row \in [User -> SubscriptionRow \cup {None}] /\ ordered \in [User -> BOOLEAN]
  BY DEF TypeInv, TypeOK
<1>5. ASSUME NEW u \in User, ordered'[u], u # v \/ get[g].cust = None PROVE InTurn(u)' /\ Follows(u)'
  <2>1. ordered[u]
    BY <1>2, <1>4, <1>5
  <2>2. row[u] = None \/ row'[u] = row[u]
    <3>1. get[g].cust = None => Synced(row[v], get[g]) = IF row[v] = None THEN FreeRow ELSE row[v]
      <4>1. get[g].cust = None => ~get[g].active
        BY DEF TypeInv, NothingFound, GetWrite
      <4> QED
        BY <4>1 DEF Synced
    <3>2. v \in User
      BY <1>1 DEF TypeInv, TypeOK, GetWrite
    <3> QED
      BY <1>2, <1>4, <1>5, <3>1, <3>2
  <2> QED
    BY <1>2, <2>1, <2>2, RowAppears
<1>6. ASSUME NEW u \in User, ordered'[u], u = v, get[g].cust # None PROVE InTurn(u)' /\ Follows(u)'
  <2>1. ordered[u] /\ ~get[g].stale
    BY <1>2, <1>4, <1>6
  <2>2. Agrees(u)'
    BY <1>1, <1>6, <2>1, WriteAgrees
  <2>3. InTurn(u)'
    BY <1>2, <2>1 DEF OrderInv, InTurn
  <2>4. ASSUME NEW c \in Customer, newestOf(c, u)'
        PROVE  (Begun(c) => row[u] # None /\ row[u].cust = c)' /\ (Over(c) => Shows(row[u], c))'
    <3>1. Newest(customersOf(u))' = c
      <4>1. \A b \in customersOf(u)' : b \in Nat
        BY WebhookConstants DEF customersOf, Customer
      <4> QED
        BY <2>4, <4>1 DEF Newest, newestOf
    <3> QED
      BY <2>2, <3>1 DEF Agrees, Shows
  <2> QED
    BY <2>3, <2>4 DEF Follows
<1> QED
  BY <1>3, <1>5, <1>6 DEF OrderInv

LEMMA OrderStep ==
  ASSUME TypeInv, TypeInv', ClaimInv, ReadsHold, OrderInv, [Next]_vars
  PROVE  OrderInv'
<1> USE DEF TypeInv
<1>1. ASSUME UNCHANGED <<stripe, sent, row, applied, ordered>> PROVE OrderInv'
  BY <1>1 DEF OrderInv, Told, CustomersInTurn, AppliedWasSent, InTurn, Follows, newestOf, customersOf, Begun, Over, Shows
<1>2. CASE \E u \in User, c \in Customer, p \in Price : CheckoutPaid(u, c, p)
  <2>1. PICK u \in User, c \in Customer, p \in Price : CheckoutPaid(u, c, p)
    BY <1>2
  <2> DEFINE held == [user |-> u, status |-> "active", price |-> p]
  <2>2. PICK h : h = held
    OBVIOUS
  <2>3. PICK s : s = <<message("completed", c, h), message("created", c, h)>>
    OBVIOUS
  <2>4. message("completed", c, h) \in Message /\ message("created", c, h) \in Message
    BY <2>2 DEF message, Message
  <2>5. /\ s \in Seq(Message) /\ s # <<>> /\ Len(s) = 2
        /\ s[1] = message("completed", c, h) /\ s[2] = message("created", c, h)
    BY <2>3, <2>4
  <2>6. /\ \A i \in 1..Len(s) : s[i].cust = c /\ s[i].user = h.user
        /\ s[Len(s)].status = h.status /\ s[Len(s)].price = h.price /\ s[Len(s)].type = "created"
        /\ s[1].type = "completed"
    BY ONLY <2>5 DEF message
  <2>7. /\ stripe' = [stripe EXCEPT ![c] = h] /\ sent' = sent \o s
        /\ UNCHANGED <<row, applied, ordered>>
        /\ stripe[c].status = "none" /\ \A b \in Customer : b < c => stripe[b].status # "none"
    BY <2>1, <2>2, <2>3 DEF CheckoutPaid
  <2>8. stripe[c].user = None
    BY <2>7 DEF ReadsHold, Unowned
  <2>9. h.user \in User /\ h.status # "none"
    BY <2>2
  <2> HIDE DEF held
  <2> QED
    BY <2>5, <2>6, <2>7, <2>8, <2>9, StripeMovesOrder
<1>3. CASE \E c \in Customer, t \in {"active", "past_due", "canceled"}, p \in Price :
             SubscriptionChanges(c, t, p)
  <2>1. PICK c \in Customer, t \in {"active", "past_due", "canceled"}, p \in Price :
             SubscriptionChanges(c, t, p)
    BY <1>3
  <2>2. PICK h : h = [stripe[c] EXCEPT !.status = t, !.price = p]
    OBVIOUS
  <2>3. stripe[c] \in Held /\ stripe[c].user \in User
    BY <2>1 DEF TypeOK, HeldOK, SubscriptionChanges
  <2>4. h.user = stripe[c].user /\ h.status = t /\ h.price = p
    BY <2>2, <2>3 DEF Held
  <2>5. PICK m : m = message(IF t = "canceled" THEN "deleted" ELSE "updated", c, h)
    OBVIOUS
  <2>6. /\ m.cust = c /\ m.user = h.user /\ m.status = h.status /\ m.price = h.price
        /\ m.type \in {"deleted", "updated"} /\ (m.type = "deleted" => t = "canceled")
    BY ONLY <2>5 DEF message
  <2>7. m \in Message
    BY <2>3, <2>4, <2>5 DEF message, Message
  <2>8. <<m>> \in Seq(Message) /\ <<m>> # <<>> /\ Len(<<m>>) = 1 /\ <<m>>[1] = m
    BY <2>7
  <2>9. /\ stripe' = [stripe EXCEPT ![c] = h] /\ sent' = Append(sent, m)
        /\ UNCHANGED <<row, applied, ordered>>
        /\ stripe[c].status \in {"active", "past_due"}
    BY <2>1, <2>2, <2>5 DEF SubscriptionChanges
  <2>10. sent' = sent \o <<m>>
    BY <2>7, <2>9, AppendIsConcat DEF TypeOK
  <2>11. \A b \in Customer : b < c => stripe[b].status # "none"
    BY <2>9 DEF OrderInv, CustomersInTurn
  <2>12. PICK s : s = <<m>>
    OBVIOUS
  <2>13. /\ s \in Seq(Message) /\ s # <<>> /\ sent' = sent \o s
         /\ \A i \in 1..Len(s) : s[i].cust = c /\ s[i].user = h.user /\ s[i].type # "completed"
         /\ s[Len(s)].status = h.status /\ s[Len(s)].price = h.price /\ s[Len(s)].type # "completed"
         /\ s[Len(s)].type = "deleted" => h.status = "canceled"
    BY ONLY <2>4, <2>6, <2>8, <2>10, <2>12
  <2>14. h.user \in User /\ h.status # "none" /\ stripe[c].user \in {h.user, None} /\ stripe[c].status # "none"
    BY <2>3, <2>4, <2>9
  <2> QED
    BY <2>9, <2>11, <2>13, <2>14, StripeMovesOrder
<1>4. CASE \E d \in Delivery : Handler(d) \/ ApplyThrows(d) \/ Crash(d)
  <2>1. PICK d \in Delivery : Handler(d) \/ ApplyThrows(d) \/ Crash(d)
    BY <1>4
  <2>2. Apply(d) \/ UNCHANGED <<stripe, sent, row, applied, ordered>>
    BY <2>1 DEF Handler, Deduplicate, Store, MarkProcessed, MarkFailed, ApplyThrows, Crash
  <2> QED
    BY <1>1, <2>2, ApplyMovesOrder
<1>5. CASE \E g \in Get : GetHandler(g)
  <2>1. PICK g \in Get : GetHandler(g)
    BY <1>5
  <2>2. GetWrite(g) \/ UNCHANGED <<stripe, sent, row, applied, ordered>>
    BY <2>1 DEF GetHandler, GetCustomers, GetSubs
  <2> QED
    BY <1>1, <2>2, GetWriteMovesOrder
<1>6. CASE \E u \in User : SelectFree(u)
  <2>1. PICK v \in User : SelectFree(v)
    BY <1>6
  <2>2. /\ row[v] = None /\ row' = [row EXCEPT ![v] = FreeRow]
        /\ UNCHANGED <<stripe, sent, applied, ordered>>
    BY <2>1 DEF SelectFree
  <2>3. Told' /\ CustomersInTurn' /\ AppliedWasSent'
    BY <2>2 DEF OrderInv, Told, CustomersInTurn, AppliedWasSent
  <2>4. ASSUME NEW u \in User, ordered'[u] PROVE InTurn(u)' /\ Follows(u)'
    <3>1. row[u] = None \/ row'[u] = row[u]
      BY <2>2 DEF TypeOK
    <3> QED
      BY <2>2, <2>4, <3>1, RowAppears
  <2> QED
    BY <2>3, <2>4 DEF OrderInv
<1>7. CASE \/ \E d \in Delivery, e \in Event : Deliver(d, e)
           \/ \E g \in Get, u \in User : GetStart(g, u)
           \/ UNCHANGED vars
  BY <1>1, <1>7 DEF Deliver, GetStart, vars
<1> QED
  BY <1>2, <1>3, <1>4, <1>5, <1>6, <1>7 DEF Next

\* Once all events of a user took effect in the order Stripe produced them, and no
\* GET wrote what was outdated, the row of a user at a price sold now says what Stripe says.
THEOREM InOrderAgreesHolds == Spec => []InOrderAgrees
<1>1. Init => TypeInv /\ ClaimInv /\ ReadsHold /\ OrderInv
  BY InitTypeInv, InitClaim, InitReads, InitOrder
<1>2. TypeInv /\ ClaimInv /\ ReadsHold /\ OrderInv /\ [Next]_vars => TypeInv' /\ ClaimInv' /\ ReadsHold' /\ OrderInv'
  <2> SUFFICES ASSUME TypeInv, ClaimInv, ReadsHold, OrderInv, [Next]_vars
               PROVE  TypeInv' /\ ClaimInv' /\ ReadsHold' /\ OrderInv'
    OBVIOUS
  <2>1. TypeInv' /\ ReadsHold'
    BY TypeStep, ReadsStep
  <2>2. ClaimInv'
    BY ClaimStep DEF TypeInv
  <2> QED
    BY <2>1, <2>2, OrderStep
<1>3. TypeInv /\ OrderInv => InOrderAgrees
  <2> SUFFICES ASSUME TypeInv, OrderInv, NEW u \in User, ordered[u], customersOf(u) # {},
                      \A e \in 1..Len(sent) : sent[e].user = u => applied[e] > 0,
                      stripe[Newest(customersOf(u))].price \in SoldPrice
               PROVE  Agrees(u)
    BY DEF InOrderAgrees
  <2>1. PICK c : c = Newest(customersOf(u))
    OBVIOUS
  <2>2. newestOf(c, u)
    <3>1. customersOf(u) \subseteq 1..MaxCustomers /\ MaxCustomers \in Nat
      BY WebhookConstants DEF customersOf, Customer
    <3>2. \E d \in customersOf(u) : \A b \in customersOf(u) : b <= d
      BY <3>1, BoundedHasNewest
    <3> QED
      BY <2>1, <3>2 DEF Newest, newestOf
  <2>3. c \in Customer /\ stripe[c].user = u
    BY <2>2 DEF newestOf, customersOf
  <2>4. \A e \in 1..Len(sent) : sent[e].cust = c => applied[e] > 0
    BY <2>3 DEF OrderInv, Told
  <2>5. Over(c) /\ Begun(c)
    BY <2>4 DEF Over, Begun
  <2>6. row[u] # None /\ row[u].cust = c /\ Shows(row[u], c)
    BY <2>2, <2>3, <2>5 DEF OrderInv, Follows
  <2> QED
    BY <2>1, <2>6 DEF Agrees, Shows
<1> QED
  BY <1>1, <1>2, <1>3, PTL DEF Spec
=============================================================================
