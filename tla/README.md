# A formal model of KanNinja

KanNinja is a kanban application: a Fastify API (`backend/`) over PostgreSQL
(Drizzle), a React client (`frontend/`), shared rules (`shared/`), billing at
Stripe, sign-in by Better Auth, a websocket channel, integrations and an OAuth
server for MCP clients. These TLA+ modules model the parts of it where several
actors change the same rows, where what one await has read is used after
another, and where dates or indices are computed that have to agree between
places. Each definition was written from the code; `PROJECT.json` says which
lines. Paths below are those of the repository.

## The system

The API runs as a single pod, but every `await` lets other requests run, and
Stripe, the database, the reconcile CronJob and the clients act on their own.
Hardly any handler opens a transaction. So **a step of these models is what
happens between two awaits**, and a handler's local variables are part of the
state. Where two awaits can be told apart by nobody (a read of a column that is
never written, next to another read) they are one step; the modules say where.

| Component | State | Operations | Interacts with | What makes it right |
|---|---|---|---|---|
| Clans (`routes/clans`, `middleware/require-clan-role`) | `clans`, `clan_members`, `clan_settings` | create, delete, change a role, remove a member | seat billing after each change; cascades | an admin is left, the personal clan stays |
| Clan invitations (`routes/invitations/clans`) | `clan_invitations` | invite, expire, accept | inserts members | accepting is idempotent |
| Seat billing (`services/seat-billing.service`) | none of its own | cap check, sync to Stripe, nightly reconcile | reads clans and `subscriptions`, writes Stripe | billed seats are the people there are; flat prices are left alone |
| Stripe webhook (`routes/webhooks/stripe`) | `stripe_webhook_events`, `subscriptions` | one handler, four event types | Stripe's deliveries | an event takes effect once; the row agrees with Stripe |
| Subscription service (`services/subscription.service`) | `subscriptions` | GET with sync, select-free, checkout, portal | Stripe; races with the webhook | a GET heals the row |
| Card order (`utils/order-index`, `repositories/card.repo`, `hooks/use-kanban-drag`) | `cards.list_id`, `cards.order_index` | create, bulk create, duplicate, move, drop, delete | integrations' `move_card` | indices are distinct and mean the place the user chose |
| List order (`repositories/list.repo`, `services/list.service`) | `lists.order_index` | append, apply a template, reorder, delete | order indices | lists stand as they were made |
| Client cache (`hooks/use-boards`, `use-cards`, `use-lists`, the drag hooks) | react-query's copy of a board | fetch, optimistic move, drag, rollback, invalidate | realtime events | a tab at rest shows the server's board |
| Realtime (`services/realtime-hub`, tickets, `hooks/use-realtime-board`) | rooms and tickets in memory | join, leave, presence, broadcast | every announced write | the roster is who is there |
| Board access (`repositories/board.repo`, `routes/boards`, `middleware/require-board-*`) | `boards`, `board_clans` | resolve a role, list, grant, revoke | clans and their members | nobody gets in or is kept out wrongly while things change |
| Calendar and timeline (`lib/calendar-dates`, `lib/timeline-dates`, `components/views`, `routes/cards/scheduled`) | `cards.start_date`, `due_date`, cached ranges | fetch, drag, resize, schedule, pick | time zones, daylight saving | both views show a card on the same days, and no span turns around |
| Card details (`routes/cards/time-entries`, `custom-fields`, `checklist`, `labels`) | rows of a card | start and stop a timer, set a value, add, assign, remove | cascades | one timer, one value, positions distinct |
| Comments and notifications (`services/card.service`, `comment.service`, `notification.service`) | `notification_queue` | update, comment, bulk update, delete | card rows | everybody concerned is told once |
| Attachments and avatars (`routes/cards/attachments`, `routes/users/avatar`, `config/azure-storage`) | rows, and files in Azure | upload, finalize, replace, remove | signed URLs | nothing shown is missing |
| Provisioning (`services/profile-provisioning.service`) | `profiles`, personal clan | the sign-up hook, the fallback in `requireAuth` | Better Auth | one profile per user, never without its clan |
| Integrations (`integrations/dispatcher`, `token-refresh`, `services/integration.service`) | `integration_connections` | dispatch, refresh, count failures, pause, connect | other services | pauses after so many failures in a row; the user's choice stands |
| OAuth server (`services/oauth.service`, `routes/oauth`) | codes, refresh tokens | consent, exchange, refresh, revoke | MCP clients | one token per consent; revoked is over |
| Cookie consent (`providers/ConsentProvider`, `components/legal`) | local storage, each tab's state, the two SDKs | choose, hear of a choice, run effects | tabs | no tracking without consent |

What is hard here: overlap of requests at awaits (everywhere), check-then-act
without a constraint (last admin, seat cap, double accept, timers, codes),
events delivered twice, late or never (webhook, realtime), a stale read written
last (seat sync, failure counter, tokens), old copies put back (drags,
rollbacks), partial failure of `Promise.all` (respace, reorder), keys that run
out of room (order indices), times that stand for days (calendar, timeline), a
commit whose answer is lost (provisioning). There are tests of the pure
functions and of a few services with a mocked database; none of these
interleavings has a test. `PROJECT.json` lists the hazards at their lines with
the properties that watch them.

## The modules

| Module | Models | Checked through |
|---|---|---|
| `SeatSync` | `syncSeatQuantityToStripe`, await by await, and Stripe's items | used by `Clans` |
| `Clans` | the clan and invitation handlers, the cap, the reconcile job, composed with `SeatSync` | `MCClans` |
| `EventInbox` | abstract: an inbox for events delivered at least once | as a PROPERTY of `StripeWebhook` |
| `StripeWebhook` | the webhook handler, `checkAndSyncFromStripe`, and Stripe; implements `EventInbox` | `MCStripeWebhook` |
| `OrderIndex` | the fractional index functions, as operators | used by `CardOrder`, `ListOrder` |
| `CardOrder` | who computes a card's index, when it is written, and the respace | `MCCardOrder`, `MCBoards` |
| `ListOrder` | the same for lists, and the UPDATEs of a reorder | `MCBoards` |
| `BoardSync` | the copies of a board in tabs, drags, and the events that invalidate them | `MCBoards` |
| `RealtimeHub` | sockets, tickets, rooms, presence messages | `MCRealtimeHub`, `MCBoards` |
| `BoardAccess` | resolving, granting and revoking access to boards, read by read | `MCBoards` |
| `Schedule` | a card's dates in the calendars and timelines of viewers in their zones | `MCAccounts` |
| `CardDetails` | timers, custom fields, checklist items, labels | `MCBoards` |
| `Notices` | who is told of what in the background of a request | `MCBoards` |
| `OAuthServer` | codes and tokens of agents | `MCBoards` |
| `ProfileProvisioning` | the sign-up hook, `requireAuth`, the transaction | `MCAccounts` |
| `Integrations` | connections to other services and whoever works on them | `MCAccounts` |
| `Blobs` | avatars and attachments: rows here, files there | `MCAccounts`, `BlobsAvatar.cfg` |
| `Consent` | the consent provider in several tabs, and the trackers' effects | `MCAccounts` |
| `ClansProofs` | theorems of `Clans` and `SeatSync` | |
| `StripeWebhookProofs` | theorems of `StripeWebhook` | |
| `OrderProofs` | theorems of `OrderIndex`, `CardOrder` and `ListOrder` | |
| `BoardProofs` | theorems of `RealtimeHub`, `CardDetails`, `BoardSync`, `Notices`, and of `MCBoards` as a whole | |
| `BoardAccessProofs`, `ScheduleProofs`, `OAuthProofs` | theorems of the module each is named after | |
| `AccountsProofs` | theorems of `ProfileProvisioning`, `Consent`, `Blobs`, `Integrations`, and of `MCAccounts` as a whole | |

**SeatSync and Clans.** `members`, `invites`, `createdBy` and `settings` are the
tables (`Gone` is a deleted id: UUIDs are not reused). `req[r].pc` is the await
a request is at, the other fields are what it has read. `sync[p]` is a running
seat sync, of a request or of the job. Each action is named after the await:
`ReadAdmins` is the SELECT of the last-admin guard, `UpdateRole` the UPDATE.
`Fail` stops a request at any await and undoes nothing. `PlanChange` and
`WebhookArrives` are Stripe and the webhook as seat billing sees them. Two
simplifications: a subscription has a base item and at most one overage item,
and a clan's `PATCH` and settings, which nothing else reads, are left out.

**StripeWebhook.** Stripe holds one subscription per customer and makes a
customer per checkout, as `createCheckoutSession` passes an email and no
customer. `sent` is every event it produced, `acked` those answered with 200.
Any sent event may be delivered at any time in any slot, so duplication and
reordering need no actions of their own; an unacknowledged one is delivered
again by the fairness. `Apply` is one UPDATE or upsert. `Crash` may hit any
await. The signature check and the event's payload are left out: Stripe's
events are taken as authentic.

**OrderIndex, CardOrder, ListOrder.** An index is a sequence of letter
positions, and -1 is any character below `'a'` (integrations send `'a0'`).
`StartDrop` is `handleDragEnd` with a view of the list that was right when it
was taken; the time until `Move` is the time it is stale. A respace is a set of
UPDATEs that land in any order, some of which may fail; so is a reorder of
lists, of which at most `MaxAtOnce` run in the model. A template's lists are
appended in a transaction, which is why one `InsertColumn` may add several; its
indices, like those of a bulk create, are `keyAfter`. A request muddles more
than its own lists when the card it writes was moved meanwhile (`Strayed`): a
respace updates by the ids it read, wherever those cards are by then.

**BoardSync.** A board is reduced to the list each card is in and the order of
the lists. Every event has the same effect on a tab (it invalidates the board),
so `event[c]` only says whether any are on their way. `drag[c].back` is the copy
a drag started from, `change[m]` a mutation with the copy it would roll back to.
`Announce` and `WriteUntold` separate the four card routes that broadcast from
all other writes: lists, the integrations' actions, composite routes. Nothing is
fetched when a socket opens again. React Query itself (an answer arrives, a
fetch fails) is external.

**RealtimeHub.** `wire[s]` is what was sent to a socket and not yet handled.
A socket's identity comes from its ticket, which names a profile; the tab knows
its session. The two ids are different sets (`ProfileOf`, `SessionOf`).

**BoardAccess.** A request first reads the board's owner, then the user's clans
joined with the grants; lists and members are read alike. `Rule` is the access
rule of the comment in `db/schema/board-clans.ts`, stated on its own and not
through the code's helpers; each request records the lowest and highest rank
it gave while the request ran.

**Schedule.** Time is in hours, and a zone has two offsets and the day its clock
changes. `dateKey` is `dueDateKey`: a stored date stands for its day in UTC;
`localDay` is what `startOfDay` makes of it. Viewers fetch ranges, keep what they
fetched, and send patches computed from it, which land later or fail.

**CardDetails, Notices, Integrations, OAuthServer, Blobs.** Each has rows and
slots for calls that are at an await. In `Notices` a request stores its change
and answers, and what it tells whom runs after it, as
`fireNotifications(...).catch(() => {})` does. In `Integrations` a call works through
the connections it selected (`todo`), which may be deleted under it; logging
to a connection that is gone throws, also in the catch block, and ends the
loop. Any other await of the try block may fail too: what the provider took but
could not be logged, reset or stored is caught, counted as a failure, and the loop
goes on (`Catch`). An await of the catch block has nothing around it but the
caller's `.catch(() => {})`, or the server's answer 500: it ends the call, and the failure is never counted
(`LinkFails`). `streak` keeps both numbers, what failed and what of it was
lost. A statement that fails has written nothing. In `Blobs` a file's bytes never pass through the API: the client puts them
to a signed URL and finalizes afterwards, or does not.

**Consent.** One tab writes local storage, the others hear of it by storage
events; React runs the effects of `GoogleAnalyticsScript` and `ClarityScript`
some time after the state changed, each with the choice it saw last.

**ProfileProvisioning.** A transaction's rows are invisible until `Commit`,
except that `InsertProfile` waits while another transaction holds an entry for
the same `user_id` in the unique index. `Fail` on `COMMIT` may have committed.

**MCBoards and MCAccounts.** The modules of a board share no variable here,
and no action of one can disturb a property of another, so interleaving them
would multiply states and add no behaviour. The variable `area` is chosen at the
start and says which of them runs; one run checks all of them, and a property
of one is checked in every state of its area. Where modules do interact in the
code, the interaction is in the module: `Clans` contains `SeatSync`,
`BoardAccess` has the changes of clans, `CardDetails`, `Notices` and `Blobs` the
deletion of cards, `BoardSync` the writes that are announced and those that are not.

## What the runs check

Properties are explained where they are defined, at the end of each module.

| Run | Instance | Shows |
|---|---|---|
| `clans_roles` | 1 owner on the free plan, 2 admins, 2 invited people, 2 clans, 2 requests in flight of any kind | `SerialKeepsAdmin`, `SerialOneRowPerPerson` without overlap; `SeatCapHolds` with the exact excess of overlap; `PersonalClanAnchored` |
| `clans_seats` | 1 paying owner (per-seat or flat), creating, deleting, accepting, removing, 1 change at Stripe, the job | `QuiescentBilled`, `FlatPriceUntouched`, `SeatsConverge` |
| `clans_last_admin` | as `clans_roles`, role changes and removals | **violated**: the guard's comment, when two requests overlap |
| `webhook_safety` | 1 user, 2 customers, 4 events, 2 deliveries at a time, 1 failure, 1 GET | `AppliedAtMostOnce`, `InboxTellsTheTruth`, `InOrderAgrees`, `GetHeals` |
| `webhook_inbox` | 1 customer, 3 events, fair | `EventsAcknowledged`, and the refinement of `EventInbox` with its fairness |
| `webhook_duplicate` | as above | **violated**: a "duplicate" need not have been processed |
| `webhook_legacy` | a subscriber at a legacy price | **violated**: an update strips the tier |
| `card_drop` | one drop | **violated**: "between" need not be between |
| `boards` | eight areas (cards to notices), see below | one property or more of each |
| `accounts` | five areas (schedule to consent), see below | the same for a user's own things, and the dates of a card as a user's time zone shows them |
| `presence` | 3 sockets, 2 users, 2 boards | **violated**: a user is shown himself |
| `avatar` | one user, two pictures | **violated**: a replaced avatar is never deleted |

| Area | Instance | Properties |
|---|---|---|
| cards | 5 cards, 2 lists, one with no room above its head, 2 requests, 1 failure | `IndicesDistinct`, `LandsAtItsEnd`, `RespaceKeepsOrder`, `RoomyDropLands` |
| sync | a tab and other clients, 1 card, 2 lists in 2 orders, 2 changes, 1 loss | `RestingTabShowsBoard` |
| hub | 3 sockets of 2 users, 2 boards, 2 messages on each wire | `RosterIsShown` |
| access | 2 users, 2 clans, 2 boards (one to come), 2 requests, 1 change of membership | `AnswersWereTrue` |
| details | 3 rows, 2 users, 4 calls, 2 at a time, 1 failure | `AloneNothingDoubles` |
| columns | 3 lists, 4 calls, 2 at a time, 1 failure | `ColumnsAsMade` |
| oauth | 2 consents to 2 agents, 2 codes, 3 tokens, 4 calls, 2 at a time, 1 failure, 3 ticks | `OneTokenPerConsent`, `RevokedLosesAccess` |
| notices | 1 card, its board's owner and another user, 2 requests, 1 failure | `ToldOncePerTurn` |
| schedule | a card, viewers in New York (spring) and Auckland (autumn), grids of 2 days at 2 places, 2 patches | `FetchCoversGrid`, `BarMatchesCalendar`, `NeverTurned` |
| profiles | 2 users, 3 calls at a time, 1 failure, fair | `OneIdentity`, `NobodyStranded`, `LoserFindsWinner`, `EveryoneProvisioned` |
| links | a connection and one to come, a limit of 2 failures (5 in the code), 4 calls, 2 at a time, 2 failing awaits besides providers' | `CountsFailuresInARow`, `UserHasLastWord` |
| blobs | 2 pictures, 2 attachments on 2 paths, 5 calls, 2 at a time, 1 failure | `NothingDangles` |
| consent | 2 tabs loaded 3 times in all, 2 choices, 1 that could not be stored | `TracksAsAllowed` |

**Bounds.** Two requests in flight are enough for each race here: every guard
that can be undercut is undercut by one other request. A bound on requests ever
started leaves room for one that follows an overlap or a failure, which is what
the properties "without overlap" need. Two deliveries at a time give the
duplicate race, four events two checkouts or a checkout with two changes. Five
cards and a bulk of two fill the list that has to be respaced. Three calls at a
time give a winner, a loser and a latecomer. A failure bound of 1 puts one
failure at every await in turn. A grid of two days has cells at both edges, and
the two zones lie on both sides of UTC, one gaining and one losing an hour. Three
tokens are a first, its successor and the next one. In `boards` the two request
slots are declared symmetric (`Alike`); no liveness property is checked there.

**History variables.** `overlapped`, `drift`, `ordered`, `muddled`, `missed`,
`crossed`, `tangled`, `troubled`, `met`, `undone`, `overtaken`, `tidy` say when
an exact promise applies: when requests did not overlap on the same thing, when
nothing was lost that the code does not repair. They are not a way out: the
properties fail under each mutant listed in `PROJECT.json`, and what happens
outside the promise is either bounded (`SeatCapHolds`), eventually repaired
(`SeatsConverge`, `GetHeals`) or described below.

**Fairness.** `WF` on handlers: Node runs a resolved continuation eventually,
and an await ends. `SF` on the job's sync of each owner: Stripe is sometimes
down, but a call that is tried every night succeeds some night; the CronJob is
the only retry there is. `SF` on `Deliver`: Stripe retries an unacknowledged
event. `SF` on `Session`: a user comes back. Nothing is assumed of a user's or
of Stripe's first move. The other modules state safety only: what a tab, an
agent or a viewer does next is its own choice.

**Deadlock** is checked where the system always has a next step
(`clans_seats`); elsewhere a run ends when its bounds are used up.

## Findings

1. *Last admin.* Two overlapping demotions or removals pass the count and leave
   a clan without an admin (`routes/clans/index.ts:186-189`, 204-221, 239-256).
2. *Duplicates.* The webhook answers any stored event as processed, so Stripe's
   retry of a failed one, which the 500 asks for, is dropped
   (`routes/webhooks/stripe.ts:37-46`, 156-162).
3. *Legacy prices.* `config/stripe-prices.ts:27-31` promises that the webhook
   maps them to a tier; the webhook only looks for prices sold now (116-118).
4. *Between.* `generateIndexBetween('a', 'an')` is `'an'`
   (`utils/order-index.ts:42-64`, and the same on the client).
5. *Presence.* The roster is filtered by the session's user id and consists of
   profile ids, so each user sees himself (`hooks/use-realtime-board.ts:23-25`, 105).
6. *Avatars.* `UPDATE ... RETURNING` answers the new avatar where the previous
   one is meant, so replaced files are never deleted (`routes/users/avatar.ts:110`,
   126-150).

Known and not reported as findings, because nothing promises otherwise:

* Clans: overlapping accepts can add a person twice; overlapping requests
  exceed the free cap by at most one per further request; a clan whose creation
  failed between its inserts stays without an admin.
* Order: overlapping inserts at one end of a list tie, for cards and lists.
* Realtime: only four card routes announce their writes; a tab that missed an
  event, or put an old copy back after a drag dropped nowhere or a refused
  reorder, stays outdated until its next fetch.
* Dates: the date pickers allow a start after the due date, for which
  `timeline-dates.ts:60`'s "always ≥ 1" does not hold; clearing a due date sends
  `undefined`, which changes nothing; a drag over a change of the clock moves the
  time of day; east of UTC+12 a card dropped on a day is shown the day before.
* Integrations: a counter or token read before a disconnect, pause or resume
  may be written after it; a deleted connection ends the dispatch to the rest;
  a delivery that worked but could not be recorded counts as a failure, and may be
  the one that disables the connection.
* OAuth: a refresh that fails between revoking and minting leaves a client with
  no token; a code that was not yet exchanged survives the revocation of its grant.
* Card details: a value whose row is deleted between the lookup and the UPDATE
  is lost with a success; deleting a card leaves the files of its attachments.
* Notifications: failures are dropped; creating, duplicating or bulk-updating
  cards tells nobody; a card deleted while it is updated may still be told of.

## What is proved

For every value of the constants that satisfies the named assumptions: users,
clans, cards, lists, rows, requests and bounds of any number, an alphabet of any
size. What the assumptions say is that ids differ from the markers used for
none or gone, that a row is not NULL, that prices sold and not sold are different,
that avatars and attachments have different paths (they are in different
containers), that cards and lists are finitely many, that the seed is a state
an earlier run could have left (with every owner billed for the seats he has, at a
price whose plan is paid: `SeedIsBilled`), and that zones lie between UTC-12 and UTC+14.

Each safety property needs an invariant that is inductive; what it adds is
where the understanding is.

* `ClansProofs`: type correctness, including what each await may
  rely on (`Shape`), is inductive as it stands. The invariant behind the serial
  properties is `SerialReadsFresh` (`ReadsStayFresh`): while nothing has
  overlapped there is one request, and what it has read still holds, so its
  write does what its guard allowed. `SeatCapHolds` needs more: a request that
  passed the cap's check carries a seat that is not inserted yet, so the proof counts
  seats plus requests past the check, which needs finite cardinalities.
  `FlatPriceUntouched` rests on the sync's item being at a price sold per seat
  unless Stripe changed it since. `QuiescentBilled` follows from `BillInv`: an
  owner whose seats are not billed is owed a sync by the request that changed them
  (`BillsDue`), a request alone knows whose seats it changes (`OwnerKnown`),
  and the quantity a sync has at hand is of the people there are (`Counted`).
* `StripeWebhookProofs`: type correctness; `AppliedAtMostOnce` and
  `InboxTellsTheTruth`, from the invariant that a claimed event is in the hands
  of exactly one delivery, which knows whether it took effect (`HeldByOne`);
  that the handler implements the safety part of `EventInbox`
  (`ImplementsInbox`); `GetHeals`, from `ReadsHold`: unless it has been
  overtaken, a GET knows what Stripe holds of its user's newest customer; and
  `InOrderAgrees`, from `OrderInv`: customers come one after the other
  (`CustomersInTurn`), what was sent last of one is what Stripe holds (`Told`), the
  events of a user in order took effect up to one and not beyond (`InTurn`), and
  the row is the newest customer's from its checkout on and shows it once
  all its events took effect (`Follows`).
* `OrderProofs`, in three layers. *Indices*: the order is that of their
  letters (`\prec` is a strict total order), `generateIndexBefore` is below,
  `keyAfter` ascends, `generateNIndices` ascends for every n, and an index made
  in a gap with a free letter is between its neighbours (`GapIsBetween`); that is
  `RoomyDropLands`. *Cards*: `CardsInv` says, of lists nobody muddled, what a
  request's reads are still worth. Its parts are `KeptApart` (two requests under
  way have a list in common only if it is muddled), `Ready` (the index a request holds is
  above, below or apart from every card's), `Spacing` (in the middle of a
  respace each card has its old or its new index, and the new ones ascend),
  and `IndicesDistinct` itself. `RespaceKeepsOrder` and `LandsAtItsEnd`
  follow. *Lists*: `ColumnsInv` ties the rows to the order asked for in
  `ColumnsAsMade` with the UPDATEs of a reorder still under way.
* `BoardProofs`: `RosterIsShown` from `HubInv` (what is on a wire ends in the
  channel's roster of now); `AloneNothingDoubles` from `DetailInv` (a lookup still holds
  when its write runs, or both calls know they met); `RestingTabShowsBoard` from
  `SyncInv` (every copy of the board a tab holds, would put back or was answered is
  the server's, unless an event, an answer or a write is still to come);
  `ToldOncePerTurn` from `NoticesInv` (messages queued plus those owed by requests
  under way are the turns there were); and the types of `MCBoards` as a whole
  (`BoardsTypeCorrect`), from the invariants of its eight areas, those of
  `OrderProofs`, `BoardAccessProofs` and `OAuthProofs` among them.
* `BoardAccessProofs`: `AnswersWereTrue`. In the invariant the rank the rule
  gives a request's user now lies between the lowest and highest recorded
  (`Within`), a board that is gone has no grants (`NoStrayRows`), and a request that
  went on to the clans' rows is of a user who did not create the board, or had no
  access meanwhile (`Apart`): a board's creator never changes, so the second read can
  be judged on its own.
* `ScheduleProofs`: `FetchCoversGrid`, `BarMatchesCalendar` and `NeverTurned`, for
  all grids, zones and dates. The first two are lemmas of arithmetic about
  `dateKey`; the third needs that a patch on its way keeps the order of the two dates it
  was made from (`PatchesKeepOrder`) and that dates are labels while nothing
  untidy happened (`TidyLabelled`), as only of labels local days and days in UTC
  compare alike.
* `OAuthProofs`: `RevokedLosesAccess`: a call past its lookup has a row
  (`CallsHaveRows`), and after a revocation only tokens of such a call or of an
  unexchanged code are left (`OnlyLateLeft`). `OneTokenPerConsent`, from
  `Serial`: a consent whose calls did not overlap has one call, code and live token
  at a time, and redeems or revokes before it mints.
* `AccountsProofs`: all four safety properties of `ProfileProvisioning`, from one
  invariant whose added parts are `TxAlone` (an open transaction is alone with
  its user, who has no profile yet) and `RefusedRereads`; `TracksAsAllowed`: what
  an SDK does is a function of what its effect last saw (`EffectsInOrder`), a tab
  with nothing on its way to it holds what is stored (`TabsAgree`), and nothing is
  stored, held or acted upon that was never allowed (`OnlyAsked`);
  `NothingDangles`: a row and an upload under way have their path to themselves
  (`BlobInv`); `CountsFailuresInARow` and `UserHasLastWord`: what a call has at hand of a
  connection still holds while it is the only one there (`LinkInv`), where a
  failure is owed to the counter (`Owing`) until it is counted or lost; and the types of
  `MCAccounts` as a whole, as a step in one area leaves the others as they are.

*A model corrected by a proof.* `IndicesDistinct` was not inductive with the
history variable first written: with three lists a card can be moved on twice while the
respace of its first list is still sending UPDATEs, one of which then lands in
a list that no overlapping request named. TLC found the behaviour once it was
given three lists. `Strayed` in `Respace` and `Move` now muddles the list such a write
lands in.

Every invariant and every action property of the runs has its theorem. Only
model-checked: what is temporal (`SeatsConverge`, `EventsAcknowledged`,
`EveryoneProvisioned`, the fairness part of `RefinesInbox`), as liveness under
fairness is beyond the prover, and the violations under Findings, which TLC shows by
a behaviour.

## Not modelled

* Read-only queries (search, analytics, "my work", activity): one statement each;
  who may see a board is in `BoardAccess`.
* API keys, the audit log, transcription, e-mail: single statements or a call to another
  service, nothing read in one await and written in another.
* The adapters of the integration providers: they format messages for other
  services and keep no state; what the dispatcher does with their outcome is in `Integrations`.
* The two MCP servers: they translate tool calls to requests.
* Migrations, seeds, deployment, the demo video.
* Pages, marketing, legal texts, settings forms and the components that render boards:
  most of the repository's lines. They hold no state that outlives a component
  except what is in `BoardSync`, `Schedule` and `Consent`. A model of
  them would restate markup, which is why the modelled share of all lines stays
  small although the modules cover most of what changes data.
* Within modelled components: text, colours and titles of cards, lists and
  boards, filters, a clan's settings, client registration and PKCE, signatures.

## The plan

Done: clans with billing, webhook, card order, provisioning; then the client cache,
realtime, access, list order, schedule, card details, notifications,
integrations, OAuth, files and consent; a theorem for every safety property of the
runs. What is left is to widen the parts PROJECT.json calls partly modelled: the
other calls of a board's cache, imports and templates of whole boards, and settings
of clans and integrations, each with its properties and theorems.
