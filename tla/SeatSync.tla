------------------------------ MODULE SeatSync ------------------------------
(***************************************************************************)
(* Seat billing: how the quantity on a customer's Stripe subscription is   *)
(* made to follow the number of people in the clans that customer owns     *)
(* (backend/src/services/seat-billing.service.ts).                         *)
(*                                                                         *)
(* syncSeatQuantityToStripe awaits four times: the subscription row, the   *)
(* seat count, the Stripe subscription and the Stripe update.  Each await  *)
(* lets every other request run, so each is a step of its own here, taken  *)
(* by a process p: a request that changed a clan, or the reconcile job.    *)
(* What one step read and a later one uses is kept in sync[p].             *)
(*                                                                         *)
(* Stripe is external: items[o] is the subscription of owner o as Stripe   *)
(* holds it, changed by the steps below and by Stripe itself.              *)
(***************************************************************************)
EXTENDS Naturals, FiniteSets

CONSTANTS
  User,          \* profiles that pay for or sit in clans
  Proc,          \* whoever runs a sync: request slots and the reconcile job
  PerSeatPrice,  \* prices sold now (STRIPE_PRICE_IDS)
  OtherPrice,    \* legacy flat prices and the old overage price
  None           \* SQL NULL, an id not there

ASSUME SeatSyncConstants ==
  /\ PerSeatPrice \cap OtherPrice = {}
  /\ None \notin User \cup PerSeatPrice \cup OtherPrice

VARIABLES
  sub,     \* sub[o]: the row of owner o in the subscriptions table
  items,   \* items[o]: the items of o's subscription at Stripe
  sync     \* sync[p]: progress of the sync process p is running

Price == PerSeatPrice \cup OtherPrice

\* An item keeps its id while its price and quantity change.  "base" is the
\* plan, "extra" a seat-overage line left from the flat model.
Item == {"base", "extra"}

Tier == {"free", "clan", "pro"}

SubRow == [tier: Tier, subscribed: BOOLEAN, hasSub: BOOLEAN,
           price: Price \cup {None}]

FreeRow == [tier |-> "free", subscribed |-> FALSE, hasSub |-> FALSE, price |-> None]

StripeItem == [price: Price \cup {None}, qty: Nat]

SyncState == [at: {"idle", "sub", "count", "retrieve", "update"},
              owner: User \cup {None}, price: Price \cup {None},
              qty: Nat, item: Item \cup {None}]

Idle == [at |-> "idle", owner |-> None, price |-> None, qty |-> 0, item |-> None]

SeatTypeOK ==
  /\ sub \in [User -> SubRow]
  /\ items \in [User -> [Item -> StripeItem]]
  /\ sync \in [Proc -> SyncState]
  /\ \A p \in Proc : /\ sync[p].at # "idle" => sync[p].owner \in User
                     /\ sync[p].at = "update" => sync[p].item \in Item

-----------------------------------------------------------------------------
(* The pure rules of shared/src/pricing.ts and config/stripe-prices.ts.     *)

\* Names no longer sold were all paid, so they read as clan.
normalizeTier(t) == IF t = "free" THEN "free" ELSE "clan"

isPerSeat(t) == normalizeTier(t) = "clan"

isPerSeatPriceId(p) == p \in PerSeatPrice

\* The seats charged: at least the plan's minimum of one.
billableSeats(n) == IF n = 0 THEN 1 ELSE n

\* Slip: the plan is asked about, the price is not.
SyncableAtAnyPrice(row) ==
  /\ row.subscribed
  /\ row.hasSub
  /\ row.price # None
  /\ isPerSeat(row.tier)

\* Every early return of syncSeatQuantityToStripe, as a condition on the row.
Syncable(row) ==
  /\ row.subscribed
  /\ row.hasSub
  /\ row.price # None
  /\ isPerSeat(row.tier)
  /\ isPerSeatPriceId(row.price)

\* The row's own price is matched first, then any price sold now.
baseItem(its, price) ==
  LET own == {i \in Item : its[i].price = price}
  IN  IF own # {} THEN own ELSE {i \in Item : its[i].price \in PerSeatPrice}

-----------------------------------------------------------------------------
(* The steps of one sync.                                                   *)

syncing(p) == sync[p].at # "idle"

\* Calling syncSeatQuantityToStripe for owner o.
SyncCall(p, o) ==
  sync' = [sync EXCEPT ![p] = [Idle EXCEPT !.at = "sub", !.owner = o]]

SyncReadSub(p) ==
  /\ sync[p].at = "sub"
  /\ LET row == sub[sync[p].owner]
     IN  sync' = [sync EXCEPT ![p] =
           IF Syncable(row) THEN [@ EXCEPT !.at = "count", !.price = row.price]
                            ELSE Idle]
  /\ UNCHANGED <<sub, items>>

\* countOwnedSeats answers n; the quantity to bill is fixed here.
SyncCount(p, n) ==
  /\ sync[p].at = "count"
  /\ sync' = [sync EXCEPT ![p] = [@ EXCEPT !.at = "retrieve", !.qty = billableSeats(n)]]
  /\ UNCHANGED <<sub, items>>

\* Slip: the quantity is raised and never lowered.
SyncRetrieveGrowth(p) ==
  /\ sync[p].at = "retrieve"
  /\ LET its  == items[sync[p].owner]
         base == baseItem(its, sync[p].price)
     IN  \/ /\ base = {}
            /\ sync' = [sync EXCEPT ![p] = Idle]
         \/ \E i \in base :
              sync' = [sync EXCEPT ![p] =
                IF its[i].qty >= @.qty THEN Idle
                                       ELSE [@ EXCEPT !.at = "update", !.item = i]]
  /\ UNCHANGED <<sub, items>>

SyncRetrieve(p) ==
  /\ sync[p].at = "retrieve"
  /\ LET its  == items[sync[p].owner]
         base == baseItem(its, sync[p].price)
     IN  \/ /\ base = {}
            /\ sync' = [sync EXCEPT ![p] = Idle]
         \/ \E i \in base :
              sync' = [sync EXCEPT ![p] =
                IF its[i].qty = @.qty THEN Idle
                                      ELSE [@ EXCEPT !.at = "update", !.item = i]]
  /\ UNCHANGED <<sub, items>>

\* Stripe applies the update to the item, whatever price it carries by now.
SyncUpdate(p) ==
  /\ sync[p].at = "update"
  /\ LET o == sync[p].owner
         i == sync[p].item
     IN  /\ items[o][i].price # None
         /\ items' = [items EXCEPT ![o][i].qty = sync[p].qty]
  /\ sync' = [sync EXCEPT ![p] = Idle]
  /\ UNCHANGED sub

\* Stripe or the database fails the awaited call: the callers catch and log.
SyncThrow(p) ==
  /\ syncing(p)
  /\ sync' = [sync EXCEPT ![p] = Idle]
  /\ UNCHANGED <<sub, items>>

-----------------------------------------------------------------------------
(* What happens outside the clan handlers.                                  *)

\* External: the customer checks out or changes plan, leaving one base item
\* at a price sold now.  The quantity was fixed when the checkout was made.
StripeSetsPlan(o, price, q) ==
  /\ price \in PerSeatPrice
  /\ items' = [items EXCEPT ![o]["base"] = [price |-> price, qty |-> q]]
  /\ UNCHANGED <<sub, sync>>

\* External: the subscription is cancelled and its items with it.
StripeCancels(o) ==
  /\ items[o]["base"].price # None
  /\ items' = [items EXCEPT ![o] = [i \in Item |-> [price |-> None, qty |-> 0]]]
  /\ UNCHANGED <<sub, sync>>

\* The webhook brings the subscriptions row up to what Stripe holds.
RowFollows(o) ==
  LET base == items[o]["base"].price
  IN  /\ sub' = [sub EXCEPT ![o] =
            CASE base = None           -> FreeRow
              [] base \in PerSeatPrice -> [tier |-> "clan", subscribed |-> TRUE,
                                           hasSub |-> TRUE, price |-> base]
              [] OTHER                 -> [tier |-> "free", subscribed |-> TRUE,
                                           hasSub |-> TRUE, price |-> None]]
      /\ UNCHANGED <<items, sync>>

\* An owner on a price sold now is billed at Stripe for n seats, at least one.
BilledBy(row, its, n) ==
  /\ row.subscribed /\ row.hasSub
  /\ row.price \in PerSeatPrice
  /\ its["base"].price \in PerSeatPrice
  => its["base"].qty = IF n = 0 THEN 1 ELSE n

Billed(o, n) == BilledBy(sub[o], items[o], n)
=============================================================================
