# Formal models of ruuma

ruuma takes pre-orders for a group of restaurants: a customer books a pickup
slot, pays by bank transfer, uploads a proof, finance verifies it, the kitchen
cooks and the counter hands over.  This directory holds TLA+ models of the
server (Go over PostgreSQL), TLC configurations that check them on small
instances, and proofs checked by TLAPS.  Rule numbers (BR-…) are those of
`docs/02-business-rules.md`.

Contents: 1 Inventory, 2 Modules, 3 Properties, 4 Runs, 5 Proofs, 6 Plan,
7 Not modelled, 8 Where the documents and the code differ.

## 1. Inventory

| Component | State it keeps | Operations | What makes it correct |
|---|---|---|---|
| Order state machine (`domain/order`) | none, a table | `CanTransition`, `IsUnpaid`, `VisibleToKitchen`, `CustomerCancellable` | used as the only authority on status changes (BR-2.4.2/3) |
| Order transactions (`postgres/orders.go`, `ordersvc`, `opssvc`) | `orders`, `order_events`, `promotion_redemptions` | `Create`, `Transition` (advance, cancel, bulk cancel) | capacity released once, history faithful, caps kept |
| Payments (`domain/payment`, `postgres/payments.go`, `paymentsvc`) | `payments`, `payment_events` | `AttachProof`, `Verify`, `Reject`, `Refund` | payment and order agree; paid once; mismatches on record |
| Slots (`postgres/slots.go`, `worker.go`) | `slots` counters and limits | `Materialise`, `Reserve`, `Release`, `SetCapacity`, `SetLocked` | no oversell on either axis, no leak, no window cut twice |
| Promotions (`postgres/promotions.go`, `domain/pricing`) | `promotions.used_count`, redemptions | `ByCode`, `EvaluatePromotion`, count in `Create`/`Transition` | total and per-customer caps; never more off than the lines cost |
| Catalogue and daily stock (`domain/catalog`, `postgres/catalog.go`, `catalogsvc`) | items, categories, options, overrides, 86s, `item_daily_stock` | `Resolve`, `ValidateOptions`, the administrator's saves, 86 and lift | what is out of stock is not sold; never more sold than there is |
| Idempotency keys (`support.go`, `http/idempotency.go`) | `idempotency_keys` | `Begin`, `Complete`, `Abandon`, `Sweep` | a request executes once, a replay returns its response |
| Notification queue (`support.go`, `notifysvc`, `worker.go`) | `notifications` | `Queue`, `Due`, `MarkSent`, `MarkFailed`, `MarkSkipped` | bounded retries, each message ends sent or failed for good |
| Sign-in (`authsvc`, `identity.go`, `domain/identity`) | `customers`, `customer_identities`, `otp_codes`, `verification_tokens` | `Register`, `VerifyEmail`, `Login`, `RequestOTP`, `VerifyOTP`, `OAuthCallback`, `UpdateProfile` | guesses and tries bounded, a code used once, nothing verified or linked unproved |
| Sessions and staff (`authsvc`, `identity.go`, `middleware.go`, `adminsvc`) | `refresh_tokens`, `users`, `staff_store_assignments` | `StaffLogin`, `Refresh`, `Logout`, `authenticate`, create, update, deactivate staff | a token is traded once, a logout ends all, nobody acts beyond what was granted |
| Access control (`security/permissions.go`, `router.go`) | none, tables | `Can`, `CanAccessStore`, `StoreScope`, the permission of each route | the matrix of BR-2.7.6 to 2.7.9 |
| Stores and calendar (`stores.go`, `adminsvc`, `domain/schedule`) | store row, modes, hours, overrides, blackouts | replace, add, remove, save; `EffectiveBlocks`, `Generate`, `Bookable` | precedence; the last edit stands; closures count the orders they touch |
| Pricing and money (`domain/pricing`, `domain/money`) | none | `Compute`, `ApplyRate`, `Add`, `Sub`, `Mul` | totals never negative, rounding half up, overflow refused, what is priced is stored |
| Parameters (`params.go`) | two tables, an in-memory cache | `Reload`, `raw`, set, delete, `Invalidate` | store over group over fallback, staleness bounded |
| Rate limiter (`platform/ratelimit`) | token buckets | `Allow`, `Sweep` | never more than the burst plus the refill |
| HTTP handlers | none | parsing, the middleware chain | the order of a handler's calls; parsing is not modelled |
| Storage, mail, messaging, wiring, migrations, seeds, tools, web client | none of their own, or external | — | not modelled, see section 7 |

How they interact: an HTTP handler (behind the limiter, the authentication and
the idempotency middleware) calls a service; the service reads, decides with the
pure domain packages, and calls a repository, which opens **one** PostgreSQL
transaction.  Everything shared lives in the database, except the limiter's
buckets and the cache of parameters, which are memory of one process; two
requests meet only there.  The worker, another process, materialises slots, sends
notifications and sweeps codes, links and keys on tickers.  After its transaction
a service queues a notification and writes the audit log; a failure there does
not undo the transaction.

What is hard: the transactions run at READ COMMITTED (no isolation level is
set), most reads take no lock, and only the slot row is read `FOR UPDATE`.  So a
decision may rest on a row that another transaction has changed since, and the
code relies on the conditions inside its UPDATEs, on CHECKs and on unique
indexes.  Outside ordering most services run no transaction around their
statements at all: a sign-in, a refresh or an administrator's edit is a sequence
of statements that others interleave with and that can end after any of them.
The models are built to show which promises the conditions and constraints
carry, and which they do not.

## 2. Modules

| Module | Stands for |
|---|---|
| `OrderStatus` | `domain/order/order.go`: states, transitions, predicates |
| `PaymentRules` | `domain/payment/payment.go`: when a payment may be verified, rejected, refunded |
| `Ordering`, `OrderingSafety` | the transactions over orders, payments, slots, stock and promotions, for any number of concurrent sessions; their properties |
| `SlotLedger` | abstract: a slot is a set of bookings inside two limits |
| `Idempotency` | the Idempotency-Key middleware, its table and the worker's sweep |
| `OnceOnly` | abstract: of the requests of a key one is executed, the others get its response |
| `Notifications` | queueing a message after a commit, and dispatch by the worker |
| `SignIn` | how a customer comes to be signed in: registration, links, passwords and the lock, one-time codes, providers, and the profile page that writes the same row |
| `Access` | roles, permissions, scopes, and what each route asks (pure) |
| `Sessions` | access and refresh tokens, the middleware's two SELECTs, and administrators who change accounts and stores meanwhile; uses `Access` |
| `Schedule` | `domain/schedule/schedule.go` (pure) |
| `Calendar` | a store's calendar while it is edited, slots are cut from it and checkouts book them; uses `Schedule` |
| `Money`, `Pricing` | `domain/money`, `domain/pricing` and the CHECKs of table `orders` (pure); the width of an integer is the constant `Half` |
| `Catalogue` | `domain/catalog`: availability, effective price, option groups (pure) |
| `Parameters` | resolution and freshness of `params.go` (pure) |
| `RateLimit` | the token bucket (pure) |
| `Quotes` | what a checkout reads on its way to an order while all that is edited and the process restarts; composes the five above with `Access` |
| `MCOrdering`, `MCIdempotency`, `MCNotifications`, `MCSignIn`, `MCSessions`, `MCCalendar`, `MCQuotes` | the instances TLC checks |
| `OrderingProofs`, `BookkeepingProofs`, `IdempotencyProofs`, `NotificationsProofs`, `SignInProofs`, `SessionsProofs`, `CalendarProofs`, `QuotesProofs` | the theorems |

Seven state machines, which overlap where one hands over to the next: a checkout
is seen by `Quotes` up to its totals, by `Calendar` from the slot it reads to the
order it makes, and by `Ordering` from the quote to the end of the order.
`Sessions` begins where `SignIn` ends (a customer who exists, and signs in), and
its `Act` stands for any operation of the other modules.  `Succeed`, `Refuse` and
`FailLate` of `Idempotency` stand for an `Ordering` transaction and what follows
it, and `Owe` of `Notifications` for the commit a message follows.  They are not
composed further: they share no table but `slots`, of which `Calendar` has the
schedule and `Ordering` the counters and limits.

### From code to model

**Ordering.**

- **A session is a database connection serving one request.**  `session[s]`
  holds what its request has read and will rely on; `at` is where it stands.
- **One step for each committed read the code later relies on, one step for the
  writes.**  At READ COMMITTED a transaction's writes are invisible until it
  commits, each UPDATE evaluates its WHERE on the current row under its lock,
  and a Go condition is evaluated on what was read earlier.  `Create` therefore
  is `Quote` (the service's judgement before the transaction), `CountUnpaid`
  (the count that takes no lock) and `Create` (everything guarded in SQL).
  `Transition` is a read (`StaffRead`, or `CheckCancel` and `CustomerRead` for a
  customer) and a write (`WriteMove`, or `WriteCancel` when the row read says
  the capacity is still held).  A finance decision is `LoadPayment`, `LoadOrder`
  (two statements, which may see different commits) and the write.
- **Abort.**  A transaction may roll back anywhere: a refusal, a database
  error, a deadlock victim, a lost connection, a crash of the process.  Nothing
  of it remains.
- **Rows.**  An order row with status `"NONE"` has not been inserted.  The
  redemption row is part of the order's record, there is one per order.
  `released` is `capacity_released_at IS NOT NULL`.
- **The cart** (slot, units, quantities, promotion, customer) is a constant of
  the order: it is immutable once placed (BR-2.4.8), and every choice of carts is
  a choice of the constant.
- **Amounts** are reduced to how the declared amount compares with the amount
  due.  A mismatch is recorded exactly when the comparison, made on the row
  read, finds one; a finance user who does not accept it is an `Abort`.
- **Unique index.**  `CodeFree` is `idx_orders_open_unique_code`, and guards
  every write that leaves an order among the open ones, also `AttachProof` and
  `Reject`.

**Idempotency and Notifications.**

- **Keys.**  A row of `idempotency_keys` is named by the request that inserted it
  (its `id` and `request_hash`) and holds the request whose response it stores.
  Begin's SELECT and INSERT are two steps; the handler's commit is one; Complete
  or Abandon is one, and may fail (`Unrecorded`, `Unabandoned`) since it runs
  under the request's context, which ends when the client hangs up.  `Lose` is a
  crash or a panic at any point: the middleware defers nothing.  `Age` is the
  passing of 48 hours, which a running request does not live through (the server's
  write timeout is 30 seconds).
- **Messages** are numbered in the order they are queued, so that the order of
  numbers is that of `created_at`.  A worker's batch is the set it fetched, dealt
  with in that order; `outcome` is the provider's answer until Mark writes it.
  Back-off is the flag `waiting`, for a `next_attempt_at` in the future.

**SignIn and Sessions.**

- **A request is a slot that is used again**: `at[q].step` names the statement it
  is about to run, the other fields what it has read.  Every SELECT, INSERT and
  UPDATE is a step of its own; `Drop` ends a request after any of them.
- **A row that is not there** has `there = FALSE` (customers), `NoCode`, `NoLink`,
  `NoToken` or `NoAccount`.  UNIQUE on email and phone guards `Insert`,
  `MarkPhone` and `SaveProfile`.
- **Secrets** are not values: presenting the right code, link or token is a
  choice, allowed only for what was sent or issued.  `sent` says that the mail or
  the message reached its reader.
- **Time**: a code, a link, a lock and a token may run out at any moment
  (`Expire`, `Unlock`); `Sweep` removes the rows that have.  Access tokens never
  run out, which only admits more.
- **History**: `guesses`, `tries`, `uses` count what the tables only remember in
  part, `lost` what was never recorded, `proven` who has shown to hold an address;
  in `Sessions` `era` and `late` trace a token back to its sign-in and `seen` keeps
  what the subject of a running request has been and had.  No guard reads them.
- **Access** lists every route behind a permission with the way its service
  narrows it: to a store of the caller, to the rows of those stores, to the
  caller's own rows, or not at all.

**Calendar and Quotes.**

- **An administrator's request** is made once, and is one step, or two where
  statements can be told apart: the DELETE and the INSERTs of a replaced pattern
  (under READ COMMITTED the DELETE takes the rows it saw, the INSERTs meet the
  unique index), the read and the save of a store's row, a blackout and the count
  of the orders it touches, a parameter's write and the invalidation.
- **A generator** (the worker's pass, or a customer who browses a date) loads a
  schedule once and inserts the slots one by one, so that it may be as late as it
  likes.
- **A date and a time** are numbers: `DayLength` ticks a day, `WeekLength`
  weekdays.  An instant has a date and a time of day in a zone only, and the zone is
  a column of the store's row that a whole-row save writes: slots are cut in the
  zone of the row that was read.  `zone` says how many ticks it is ahead of
  `Jakarta`; a zone has no summer time.
- **The cache of parameters** is reloaded by three steps (group rows, store rows,
  swap), by whichever checkout finds it stale; a failed SELECT leaves the stale
  one, as the code does.
- **The limiter** counts parts of a token, `Window` to one, so that no division
  is left; `allowed` is the history of what it let in.
- **Restart** of the API loses buckets, cache and whatever was in flight.

Next to some definitions stands a second one whose comment starts with
"Mutant:".  It is that definition with a plausible bug; `PROJECT.json` says which
property it breaks when it takes the definition's place, so that every property
is known to be able to fail.  Nothing else uses it.

## 3. Properties

Of orders, with any number of sessions:

- `NeverOversold`: slot, stock and promotion counters stay within their limits.
- `NoCapacityLeak`: cancelled orders are stamped released, and a slot counts no
  more places than orders hold.  `UsesAreHeld` says so for kitchen units,
  portions and promotion uses.
- `OpenCodesUnique`: open orders of a store have different kode unik.
- `PaidBeforeKitchen`: no order passes payment without a verification in its
  history.
- `StableKnowledge`: what a transaction reads and relies on when it writes, and
  nobody can make untrue.  It is the invariant the others rest on; it is proved and
  has no run of its own.

With one request at a time: `CapacityConserved`, `SlotsAreALedger` (refinement),
`HistoryFaithful`, `PaidOnce`, `PaymentMatchesOrder`, `MismatchOnRecord`,
`UnpaidWithinCap`, `PromoConserved`, `PromoCustomerCap`.

Concurrency breaks most of this second group, and four of them are promises the
documents make without the premise: configurations of section 4 show with two
sessions how `PaidOnce`, `MismatchOnRecord`, `UnpaidWithinCap` and `PromoCustomerCap`
are lost.  `CancelledIsTerminal`, `CustomerCancelsEarly` and `SlotsWithinLimits` are
promises too, which a single request keeps by its own guard: they are checked only
with two sessions, where all three are broken.

Of a key: `OneRunner` (one request of it runs, and the row is its own),
`KeyIsKept` (an executed request's row is there until swept), `AtMostOnce`,
`StoredIsFinal` (Complete's UPDATE names the key and not the row, and still
overwrites nothing), `ImplementsOnceOnly` (refinement) and, for liveness,
`KeysAreFreed`.  `AtMostOnce` leaves out the endpoints in `LateKeys`: Reject,
Refund and Advance return the error of an audit entry written after their commit,
the middleware frees the key, and the retry is judged by the state machine alone.
The same would be true of any endpoint whose COMMIT is not acknowledged.

`FailedFreesItsKey`, which the middleware's comment promises, is not kept.

Of a message: `AttemptsBounded`, `DeliveriesAccounted`, `SettledIsFinal` and, for
liveness, `EverySettles`.  With one worker the first says at most five attempts; the
second says how often a customer can get the same message.  `FailureIsAudited` is
promised and not kept.

Of a sign-in:

- `GuessesBounded`, `TriesBounded`: the limits of BR-2.7.5 and of the lock hold up
  to the requests that were let through at once, since the attempt is recorded
  by a statement after the comparison, and up to those that never recorded it.
- `UsesBounded`: a code signs in the requests that had read it, and none after.
- `VerifiedIsProven`, `LinkedOnVerified`: no interleaving, wherever it is cut off,
  marks verified what nobody proved, or links a provider account on an unproved
  address (BR-2.7.2 to 2.7.4); not even the profile page, which writes back a whole
  row that may be long out of date.

Of a session: `RotationBounded` (a token is traded by those that read it first),
`LogoutEnds` (what survives a logout was stored by a request it overtook),
`ActsWithinGrants` (whatever an administrator changes meanwhile, a request does
only what its account could at some moment since it was authenticated).

Of a calendar: `ClosuresAreCounted` (no order slips in between a closure and its
count, but those of checkouts that had read the schedule), `WindowsSoldOnce` (slots
of a date do not overlap while its hours, the slot length and the store's time zone
are left alone), `LastEditStands` (an edit, of the time zone too, is undone only by one
it overlapped).  `OneRowPerWindow`, no overlap on any date whatever is edited, is promised by
BR-2.3.4 and not kept.

Of a quote: `NoDishAfter86`, `RatesWereInForce` (the bound on staleness, with
reloads that race each other and the invalidation), `BurstBounded`.

## 4. Runs

| Run | Instance | Shows |
|---|---|---|
| `one_at_a_time` | 1 session, 3 orders; history of 8 events for `o1`, 2 for the others | the sequential group, and the refinement of `SlotLedger` |
| `one_order_races` | 2 sessions, 1 order, 7 events | type, leaks, payment before kitchen, under every race on one order |
| `two_order_races` | 2 sessions, 2 orders, 3 events each | limits and kode unik under races for the last place, portion, use and code |
| `double_cancel` | 2 sessions, 3 orders | **violated** `SlotsWithinLimits`: two cancellations release one order's place twice and the slot is oversold |
| `retries` | one key with three requests, one of them with another body; one key that can fail late | the properties of a key |
| `two_workers` | 2 messages, 2 workers, batches of 1, 3 attempts, 1 loss | the properties of a message |
| `two_requests` | 2 requests, 2 customers, 1 address, 1 phone, 2 provider accounts, 1 code, 1 link | the properties of a sign-in |
| `staff_changes` | 2 requests, 2 staff, 1 customer, 1 store, 4 routes, 4 tokens, 2 changes, 1 logout each | the properties of a session |
| `replay` | the same, 2 tokens | **violated** `ReplayKillsChain`: the revocation is rolled back with the transaction that reports the replay |
| `calendar_edits` | 2 administrators, 2 generators, 2 checkouts, 2 dates of 4 ticks, 2 time zones | the properties of a calendar |
| `menu_edits` | 2 administrators, 2 checkouts, 3 instants, a restart at any time | the properties of a quote |
| `tax_inclusive` | the same, with `pricing.tax_inclusive` set | **violated** `PricedIsStorable`: a priced cart is refused by the CHECK of table `orders` |

A violated run checks a promise that a comment or a document of the repository makes,
quoted in `PROJECT.json` with its place.  The other promises found broken have a
configuration each, to be run by hand (`tlc -config X.cfg M`); all of them are
violated, within a minute:

| Configuration, module | Property | The promise | What happens |
|---|---|---|---|
| `Ordering_stale_advance`, `MCOrdering` | `CancelledIsTerminal` | docs/02:284 | a proof or an advance that read earlier overwrites CANCELLED |
| `Ordering_late_cancel`, `MCOrdering` | `CustomerCancelsEarly` | `order.go:126-127` | the kitchen takes the order up between the customer's `CustomerCancellable` check (`ordersvc.go:384`) and `Transition`'s own read |
| `Ordering_double_verify`, `MCOrdering` | `PaidOnce` | docs/02:396-397 | two verifications in flight append two PAID events |
| `Ordering_silent_mismatch`, `MCOrdering` | `MismatchOnRecord` | docs/02:376-379 | a verification that judged one proof commits after a second proof of another amount |
| `Ordering_unpaid_cap`, `MCOrdering` | `UnpaidWithinCap` | docs/02:252-253 | two checkouts both count before either commits |
| `Ordering_racing_redemptions`, `MCOrdering` | `PromoCustomerCap` | docs/02:340-343 | no constraint backs the per-customer cap |
| `Ordering_cancelled_refund`, `MCOrdering` | `VerifiedIsRefundable` | docs/06:30-33 | cancel, then refund, the runbook's order, cannot be done |
| `Idempotency_failed_request`, `MCIdempotency` | `FailedFreesItsKey` | `idempotency.go:17-18` | Abandon fails, its error is dropped and the retry is refused |
| `Notifications_untold`, `MCNotifications` | `FailureIsAudited` | `paymentsvc.go:203-205` | the audit entry fails with what it reports |
| `Calendar_recut_windows`, `MCCalendar` | `OneRowPerWindow` | docs/02:216-219 | after an edit of the time zone (or of hours or slot length) new slots overlap the old ones |
| `Calendar_merged_hours`, `MCCalendar` | `HoursOfOneRequest` | `stores.go:258-259` | two replacements of the hours at once leave a mixture of both |
| `Quotes_manager_price`, `MCQuotes` | `PricesByAuthority` | `adminsvc.go:439-440` | an availability edit by a store manager writes NULL over the price an owner set |

`NoOrderAfterClosure` and `DeliveryIsRefused` of `Calendar` state BR-2.1.7 and
BR-2.1.3, which the code does not keep either (section 8).

**Bounds of ordering.**  One slot, one counted dish, one promotion (at
most once per customer where the cap is on), two kode unik values; the first run
counts no dish, none of its properties being about stock; `o1`,
`o2` and `o3` are of one customer (the one whose caps could be passed) and of 1, 2
and 3 kitchen units, the first two with the promotion.  `MaxEvents[o]` bounds the
history of an order; 8 covers the longest path without a repetition (created to
completed) and reject, pay again, verify and refund; 7 in the two-session run
covers a rejection followed by a second proof and a decision, with a competing
write at each step; 3 is enough to create, cancel and be re-opened, which is all
the counters and codes depend on.  Two sessions are enough for each conflict: a
lost update needs a stale reader and a writer.

**Bounds of keys and messages.**  Three requests on a key are enough for a holder,
a racer between SELECT and INSERT and a late replay; keys do not influence each
other but through the sweep, for which there are two.  Two messages and a batch of
one make one message wait for another that keeps failing; three attempts give a
message two back-offs; one loss is a crash or a failed UPDATE at any point, and
`MaxLosses` is only there to bound the counters.

**Bounds of sign-in and sessions.**  Two requests are a stale reader and a writer;
two rows compete for one address and one phone, which is where UNIQUE, linking and
the profile page meet; of the two provider accounts one is vouched for.  One
attempt and a lock after two failures put every request at the limit; a customer
of a second phone or a second code would only repeat this (the theorems of
`SignInProofs` are for any number).  Four tokens are a sign-in and three
generations; `MCBudget` keeps runs short: many tokens of one subject and no change
of staff, or two tokens and some.

**Bounds of calendar and quotes.**  A day of four ticks is cut into two slots, or
four of the other length; the second day lies beyond the advance window.  One
replacement pattern moves the opening, the other closes the day; the overrides
re-open or close it.  The one other time zone is a tick ahead, half a slot of the
seeded length, so that what is cut in it straddles what was there.  Each
administrator makes one request: every pair of edits is run, and each in the gaps of
the other.  In `menu_edits` a cache lives one tick, a reload lasts at most one, and
a clock of three instants lets it run out twice; one text is not a number and falls
back; `MCBudget` trades customers against edits. `MCQuotes` also evaluates `Add`,
`Sub` and `Mul` on every pair of six-bit amounts against their definition without a
width.

Requests, sessions, customers, generators and checkouts are interchangeable, and
`SYMMETRY` is used in runs that check invariants only.  Deadlock is not checked
where ending is legitimate: all requests made, all messages settled, all tokens and
codes used.

**Fairness.**  Each request on a key goes on (`Serve`), time passes (`Age`,
`Elapse`), and the worker's ticker loop goes on (`Sweep`, `Dispatch`), all weak: the
worker runs its tickers for as long as it lives, and systemd restarts it
(`Restart=always`, docs/14).  `Unmarked` and `Crash` are never obliged and happen
finitely often: a worker that dies in every round settles nothing, in the code as
in the model.  Elsewhere no fairness is assumed and no liveness claimed: nothing in
the code obliges a customer to pay or to sign in, finance to decide or the
kitchen to cook, and there is no automatic cancellation (BR-2.3.11).

Six hazards of `PROJECT.json` have no property of a run.  Advance's error after its
commit (`opssvc.go:156`) meets the guards of `Ordering` at the retry, and the two
modules are not composed.  A skipped `order_ready` (`opssvc.go:144`) and a message that
a crash swallows (`ordersvc.go:368`) break no promise the code makes.  The window of a
customer's cancellation (`ordersvc.go:384`), the refund of a cancelled order
(`payments.go:323`) and the failure to audit a failure (`paymentsvc.go:224`) break one,
and have a configuration above.  Where a hazard names a property of the sequential
group, the run covers it with one request at a time only, and its note says which
configuration has the race.

## 5. Proofs

Every theorem is for all values of the constants that the named assumptions of its
module allow: types, values that are not other values, finiteness, and two facts of
the code (the cache lives at least one tick, `params.go:31`; the seeded hours of a
weekday and a mode do not overlap, since `seedStores` writes one row of them).  Each
inductive invariant was first checked by TLC on an instance of section 4.

`OrderingProofs` (any sessions, finitely many orders, any carts, limits and caps):

| Theorem | States |
|---|---|
| `TypeCorrect` | `Spec => []TypeOK`; the counters in particular never go below zero |
| `LimitsHold` | `Spec => []NeverOversold` |
| `PlacesNeverLeak` | `Spec => []NoCapacityLeak` |
| `KodeUnikUnique` | `Spec => []OpenCodesUnique` |
| `KitchenSeesPaidOnly` | `Spec => []PaidBeforeKitchen` |
| `KnowledgeIsStable` | `Spec => []StableKnowledge` |

The inductive invariant is the conjunction of the six.  `StableKnowledge` is what
makes it inductive: `PaidBeforeKitchen` survives a stale write only because the
session that will make it already saw a paid order, and histories only grow;
`NoCapacityLeak` survives the double release only because whoever skips the
release saw the stamp, which is never taken back, and because a checkout's
identifier belongs to one session.  The proof goes by conjunct: `StepTyped`,
`StepKnowledge`, `StepPaid`, `StepCodes`, `StepReleased`, `StepPlaces`,
`StepWithin`, each with a case for every action that disturbs it, over two lemmas
about what commits do to orders and histories (`CommitEffect`, `HistoryGrows`).
The places argument counts: an insertion adds one member to the holders, a
cancellation removes at most one.

`BookkeepingProofs` goes on from there, from the limits to what exactly the counters
count.  One theorem is for any sessions:

| Theorem | States |
|---|---|
| `CountersAreBacked` | `Spec => []UsesAreHeld` |

The others are of the form `Spec /\ []OneAtATime => ...`, where `OneAtATime` says
that no two sessions have a request under way at the same moment:

| Theorem | Concludes |
|---|---|
| `CapacityIsExact` | `[]CapacityConserved` |
| `HoldersFit` | `[]SlotsWithinLimits`, which `double_cancel` breaks |
| `PromoIsExact` | `[]PromoConserved` |
| `CustomerCapHolds` | `[]PromoCustomerCap` |
| `UnpaidCapHolds` | `[]UnpaidWithinCap` |
| `HistoryReconstructs` | `[]HistoryFaithful` |
| `PaidOnceOnly` | `[]PaidOnce` |
| `PaymentFitsOrder` | `[]PaymentMatchesOrder` |
| `MismatchIsRecorded` | `[]MismatchOnRecord` |
| `SlotsImplementLedger` | `SlotsAreALedger` |

The premise is not a convenience: without it these are the properties that races
break (sections 3 and 4).  It is about the load and not about the number of
connections, so the theorems say what a quiet evening of any shop may rely on; with
one session it always holds (`OneConnection`), which is the run `one_at_a_time`.

The invariant `TurnInv` adds to the properties themselves what a request under way
has read (`UpToDate`: it is what the tables still show, since nobody wrote in
between), the shape of a history (`Stories`: a chain of legal transitions with at
most one PAID, none while the order is unpaid), the pairs of payment and order states
(`PaymentsFit`) and that an order which has released nothing holds its redemption
(`Redeemed`).  `Blank` (orders never placed have no row and slots never cut no
counters) holds with any sessions.  Sums over finite sets of orders are handled as
`MapThenSumSet` computes them: there is one function that satisfies its recursion,
by an induction over cardinalities that uses the well-foundedness of `Nat`
(`NatSetInduction`, stated of a set and not of an operator); `SumAny` says that it
may take elements out in any order, which the exact counters need.  The refinement maps
each step: `Create` to `Book`, `WriteCancel` of an unreleased order to `Leave`,
`SetCapacity` and `Materialise` to `Resize`, all else to a stutter.

`IdempotencyProofs`, for any requests, keys and bodies:

| Theorem | States |
|---|---|
| `OneRunnerAlways` | `Spec => []OneRunner` |
| `KeysAreKept` | `Spec => []KeyIsKept` |
| `ExecutedOnce` | `Spec => []AtMostOnce` |
| `StoredStays` | `Spec => StoredIsFinal` |
| `Refinement` | `Spec => ImplementsOnceOnly` |

The inductive invariant adds two facts: what the place of a request says of its
effect and answer (`Progress`), and that a stored response belongs to a request
that took effect with the row's body (`StoredTookEffect`).  Whoever is about to
take effect runs, so it holds the row and nobody else's effect is remembered
(`RunnerAlone`): this gives `AtMostOnce` and the `Execute` step of `OnceOnly`, and
`StoredIsFinal`: whoever completes or abandons a key finds no response there.
`Replay` and `Complete` map to `Reply`, `Sweep` to `Expire`, everything else to a
stutter.

`NotificationsProofs`, for any messages, any finite set of workers and any limits:

| Theorem | States |
|---|---|
| `Typed` | `Spec => []TypeOK` |
| `AttemptsAreBounded` | `Spec => []AttemptsBounded` |
| `DeliveriesAreAccounted` | `Spec => []DeliveriesAccounted` |
| `SettledStays` | `Spec => SettledIsFinal` |

The arguments count workers: one that marks a message leaves `InHand` as the
attempt is added, one that sends joins `Unwritten` as the delivery is added.  Both
invariants are inductive with `TypeOK`.

`SignInProofs`, for any number of requests, customers, addresses, phones, provider
accounts, codes and links:

| Theorem | States |
|---|---|
| `CodesAreShared` | `Spec => []UsesBounded` |
| `GuessesAreCounted` | `Spec => []GuessesBounded` |
| `TriesAreCounted` | `Spec => []TriesBounded` |
| `VerifiedWasProven` | `Spec => []VerifiedIsProven` |
| `LinksWereVerified` | `Spec => []LinkedOnVerified` |

They rest on `Typed`: rows are rows, and what a request refers to is there (a
customer is never deleted, a swept code stays expired).  The three counts add to the
table's counter the requests that are about to record (`UsesCounted`,
`GuessesCounted`, `TriesCounted`); `EnterOrLeave` counts the one request that a step
moves, and `MostCountNothing` sets aside the steps that move none.  The other two
need to know what each request was shown before it got where it is (`Claims`): the
address of a row never changes, what is proven stays so, and a profile page holds a
row that was verified when it was read.

`SessionsProofs`, for any staff, customers, stores, routes, requests and tokens:

| Theorem | States |
|---|---|
| `LogoutEndsSessions` | `Spec => []LogoutEnds` |
| `TradesAreBounded` | `Spec => []RotationBounded` |
| `GrantsAreKept` | `Spec => []ActsWithinGrants` |

The first carries, for each request that will store a token, that its era is the
present one or that a logout overtook it; the second counts the children of a token
and the requests that are yet to add one; the third that `seen` holds what a request
has read and what stands now, over lemmas about the matrix of `Access` (only
administrators reach routes without a scope, only their own rows are reached by
customers).

`CalendarProofs`, for any calendar, inputs and number of requests and checkouts:

| Theorem | States |
|---|---|
| `EditsStand` | `Spec => []LastEditStands` |
| `ClosuresCountOrders` | `Spec => []ClosuresAreCounted` |
| `WindowsStandApart` | `Spec => []WindowsSoldOnce` |

The first two invariants say what a request between its two steps has seen, and that
an order uncounted by a closure was missed by its checkout or re-opened.  The third,
`InvWindows`, says of a date that was never rescheduled that its hours, slot length and
time zone are the seeded ones (`Unedited`; a new zone reschedules every date) and that every slot there, and every slot a generator has yet to
insert, is on the grid those cut (`Planned`): `GeneratedIsPlanned` shows it of
`Generate`, and `GridApart` that two different windows of one grid share no minute, by
the arithmetic of lengths within a row and by `SeedAssumption` between rows.
`Materialise` inserts no row whose key is there, so equal windows are one slot.

`QuotesProofs`, for any menu, texts, rates, edits and number of checkouts:

| Theorem | States |
|---|---|
| `OutOfStockIsNotSold` | `Spec => []NoDishAfter86` |
| `RatesAreRecent` | `Spec => []RatesWereInForce` |
| `BurstIsBounded` | `Spec => []BurstBounded`: the tokens of a bucket and what it let in since any instant never exceed a burst and the refill |
| `SweepForgetsNothing` | a bucket that `Sweep` drops would have been full |

`InvRates` follows a text from the table to the price.  `InForce(k, t, at)` is what a
reader may claim: the store has `t` for `k` now, or had it until some instant not
before `at`.  A write keeps every such claim, since what it replaces is remembered as
in force until now (`WriteRemembers`), and a reload's two SELECTs make it as of its
start, even when they straddle a write, as no row of `store_parameters` is ever
deleted: `DeleteStoreParameter` (`adminsvc.go:546`) would, and no route leads to it.  The
swapped cache is no older than `ReloadTime` when it is swapped and is used for `TTL`,
and a swap that an invalidation or a newer reload overtook still carries a table of
that age.  That is the bound of `RatesWereInForce`, for any number of reloads at once.

About the operators of `Money` and `Pricing`, for any width: `AddIsExact`, `SubIsExact`
(the comparisons made after wrapping find every overflow, and nothing else),
`DiscountWithinLines`, `ExclusiveIsStorable` and `InclusiveIsRefused`: what is priced
without inclusive tax always passes the table's CHECKs, and with it and a tax above
zero never.

**Only model-checked.**  `KeysAreFreed` and `EverySettles` are liveness under fairness,
which the prover does not do; every other property of a passing run has its theorem.
`Subtotal` and the sums of a promotion are folds over sequences, whose values for every
input are an induction over data; the theorems of pricing take them as any amount.
`Mul` is compared with its definition on six-bit amounts only.  And that races break
the sequential group is shown by counterexamples, not proved.

## 6. Plan

1. Done: all seven state machines with their runs, and the theorems above.
2. Done: a theorem for every safety property, action property and refinement of a
   passing run.  To prove next: how far each race can go (of the sequential group,
   what still holds with n requests at once: the unpaid cap plus n - 1, say), and
   lemmas about `Access` and `Bookable` for their own sake.
3. To model next: bank accounts (one primary, `stores.go`), the promotion form,
   photos, and `Idempotency` around a concrete `Ordering` transaction.

## 7. Not modelled

- In `Ordering` permissions, store scopes and self-verification are left out: gates
  on one request, without state.  The model admits every caller the gates could
  admit, so its safety properties do not depend on them; `Sessions` has them.
- The cancellation window and lead times in `Ordering` (clock conditions that only
  refuse; `Calendar` has them for a checkout).
- Order codes, names, order lines, audit entries, `payment_events`.
- Retries of `insertWithCodes`: the model takes any free code, or aborts.
- `SlotRepo.SetCapacity` and `SetLocked` are modelled although no handler calls
  them yet: limits may change under a booking, and the properties hold all the same.
- `DeleteStoreParameter` (`adminsvc.go:546`), which no route leads to.  With it
  `RatesWereInForce` and `RatesAreRecent` would need another form: a reload whose two
  SELECTs straddle the deletion can give a store a rate of the group that was
  replaced before it ever was the store's.
- Summer time.  A zone is a constant distance from another; at a change of the clock a
  day of the code has an hour more or less, and `Date.Time` may stand for two instants.
- Event switches and templates of messages (a disabled event is no message), and
  `MarkSkipped`, which nothing calls.
- Bank accounts, photos, the option editor, promotion forms, the public menu's
  sorting, reports: reads, or single statements on rows nothing else writes.
- The rows of `customer_identities` for a password or a phone, which nothing reads;
  the strength of passwords, hashing and signatures.
- HTTP parsing, CSV and error formats; storage, mail and messaging providers (their
  outcome is a choice of the modules); migrations, seeds, start-up, tools and the web
  client.  What seeds leave behind are initial states.

## 8. Where the documents and the code differ

Besides the runs and configurations of section 4.

Orders and payments: the unpaid cap counts `AWAITING_VERIFICATION` orders too, while
BR-2.3.15 names `PENDING_PAYMENT`.  A kode unik is free for reuse from PAID on, while
BR-2.6.2 says at a terminal state.  A refund leaves the order's redemption held,
while BR-2.5.12 says it is released.  An unrecorded response makes the next replay a
409 until the sweep, while the comment at `http/idempotency.go:60-62` says the
replay executes again.  docs/04 section 9 asks for a key on `payment-proof`, whose
route has no `idempotent`, and on `slots/generate`, which has no route.  BR-2.10.3
lists a reminder before the slot, which no code queues.

Sign-in and sessions: `ConsumeOTP`'s comment says a code can never be presented
twice, and two requests that both read it both sign in.  Two callbacks of one
provider account at once leave a customer that no identity refers to.  A saved
profile writes back the failure counter, the lock and the verification flags of the
moment it was read.  BR-2.7.12 revokes the old tokens at any privilege change, and
docs/12:47 adds a denylist of access tokens at logout; the code has neither.  `Refresh` does not ask
`is_active`.  The flag of group scope counts for every role.  The middleware's two
SELECTs can combine an old role with new stores.  Reading one's own profile asks for
no permission.

Calendar: the fulfilment type of an order is never compared with its slot's mode
(BR-2.1.3, `DeliveryIsRefused`).  A checkout that has read the schedule orders after
its date was closed (BR-2.1.7, `NoOrderAfterClosure`).  Overlapping blocks of hours
are not refused, and `Bookable` does not ask whether a slot lies within the blocks in
force.  Two replacements of the modes at once merge as those of the hours do; a saved
store row undoes a deactivation or a new time zone it overlapped, and a saved item the photo.

Quotes: an invalidation between a reload's SELECTs and its swap is lost, while a
parameter is said to be visible at once; the cache's life bounds it.  Item and
override are two statements, so a price may be of neither moment.  The worker sweeps
its own limiter, in which no request is counted, and never the API's; rates are read
at start-up only.  A cart with one dish on two lines is refused by `ResolveForSlot`.
`ApplyRate` and the sums of a promotion do not look for overflow.

Set-up: the seed skips a store that was half seeded, migrations take no lock, and
`create-owner` counts before it inserts.
