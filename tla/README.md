# A verification project for justbarme

justbarme runs a bar: staff sell rounds, keep tabs, take payments, receive and
count stock, and do most of it on phones that lose their connection. The
program is a Go modular monolith over PostgreSQL (`internal/`, `migrations/`)
with a React PWA that queues work offline (`web/src/`). This directory holds
TLA+ modules translated from that code, TLC configurations that check them on
small instances, and proofs that TLAPS checks for every instance.

## Inventory

| Component | State it keeps | Operations that change it | What makes it correct |
|---|---|---|---|
| Bills, rounds, payments, write-offs (`internal/sales`) | `bills` (status, stored balance), `sales`, `sale_items`, `payments`, `bill_write_offs` | CreateSale, OpenBill, AddSaleRound, RemoveBillItem, CloseBill, RecordPayment, ReversePayment, WriteOffBill, VoidBill, ReverseSale | the stored balance is what the rows add up to; nobody pays or takes off more than is there; the status says whether money is owed; nothing is given back twice |
| Stock (`internal/inventory`, `internal/sales/lot_allocation.go`) | receipts, lots, movements, balances, allocations, counts, adjustment requests, reviews | ReceiveStock, ReverseStockReceipt, SubmitStockCount, RequestAdjustment, Approve/Reject, ResolveReview, and the stock half of every round | balances are the sum of movements; what allocations draw is what lots lack; every kobo a lot cost is allocated once; a correction reaches what was counted |
| Offline queues (`web/src/lib`) | IndexedDB tables of pending sales, counts, adjustment requests, expenses | queue, flush | what the screen called recorded is posted exactly once, in order, eventually |
| Expenses (`internal/expenses`) | categories, `expenses` | RecordExpense, ReverseExpense, categories | one row per key; what the summary and the report tell agrees |
| Catalogue (`internal/catalogue`) | categories, products, variants, price intervals, templates | creating, updating, SetVariantPrice, templates | one price at every moment; pages and copies that are whole |
| Accounts (`internal/identity`, `internal/invitations`, `internal/verification`) | users, memberships, invitations, pending codes | Create, Revoke, Accept (new or existing user), Start, Confirm | accepted means member, closed stays closed; an identifier belongs to one account and has been proven; wrong codes are counted |
| Signup and OAuth (`internal/signup`, `internal/oauth`) | pending sign-ups, users, links, the key cache | Start, Resend, Verify, Google sign-in | the password is the one given with the code; one account per identifier; keys follow Google's |
| Sessions, devices, leases (`internal/httpapi`, `internal/identity`, `web/src/lib/session.tsx`) | sessions, anti-forgery tokens, devices; cookie, lease and token in the browser | login, logout, rotation, enrolment, revocation | a request acts for the person its tab shows, with the capabilities of a member |
| Platform administration (`internal/platformadmin`) | staff, sessions, audit log, business status | login, rotation, suspension, invitation, revocation | whatever is done is in the log, and the log tells what is |
| Tenant isolation (`internal/store`) | the settings of pooled connections | every scoped transaction | rows of one business are seen and changed by its own transactions only, its memberships also by those of their user |
| Bill share links (`internal/sales/share_links.go`) | `bill_share_links` | make, revoke, expire, view | a page shows one moment; a dead link stays dead |
| Tabs page (`web/src/pages/Tabs.tsx`) | the bill it shows, the tap it is busy with | tap, reload | what it took without an error is recorded |
| Rate limiter (`internal/auth/ratelimit.go`) | counts per key in memory | Allow | the limit holds; a refused caller is let in again |
| Business settings, activity, reports, metrics, e-mail and WhatsApp, start-up | little or none | mostly read-only or pure I/O | see "Not modelled" |

How they interact. Every statement runs in one PostgreSQL transaction at READ
COMMITTED (`internal/store/tx.go`), rolled back on any error; a handler may be a
chain of several. A handler that changes an existing bill takes the bill's row
lock first; ReverseSale, ReverseExpense, ReverseStockReceipt and
SubmitStockCount take none and rely on what they read. Sales write the inventory
tables directly. A device posts its queue oldest first and stops at the first
failure; the server's idempotency keys, UNIQUE per business, make retries safe.
The middleware looks the session, the business and the anti-forgery token up
before the handler's own transaction begins.

The hard behaviours: unlocked reads acted on later; corrections of corrections
(a payment refunded, its sale reversed, an item taken off); stored projections
used as guards; cost split by integer division over lots that are drawn from and
given back out of order; retries of calls with and without keys; handlers of
several transactions that may stop between two of them; tabs that share a
cookie and not a token; connections used again for another business; locks taken
in the order of a cart. `PROJECT.json` lists them under "hazards", each at its
line with the properties that cover it.

## Modules

| Module | Models |
|---|---|
| `Tabs` | The money side of `internal/sales`. One action per service call; ReverseSale, which takes no lock, is a read and a write with anything in between, and may roll back. |
| `BillAccount` | The abstract promise of a bill: an account with a status and an amount owed, opened, charged, credited, reopened, closed, voided. |
| `TabsRefinement` | The refinement mapping from `Tabs` to `BillAccount`. |
| `Stock` | The stock ledger of one tracked variant: receipts and lots, the stock half of a round with its FIFO allocation and floor-split cost, reversals, counts, adjustment requests, reviews. |
| `LockOrder` | The row locks that rounds, receipts, payments and reversals take over several variants and bills, in whatever order the carts have them, PostgreSQL's queues and its breaking of circles, and the device that posts again. |
| `Delivery`, `Outbox` | What the offline queue promises (each sale delivered once, in order, in the end), and the queue with its overlapping flushes, lost answers, closed tabs and the server that looks keys up. |
| `TabScreen` | The tabs page, which posts at once: taps, reloads that overtake each other, answers that get lost, taps that are repeated. |
| `SharedBill` | A bill's public page, its balance and its lines, read in several statements, and the one link to it. |
| `Expenses` | Categories, expenses posted under keys, reversals, the summary and the report over ranges of days. |
| `Catalogue` | Categories, products, variants, dated prices on clocks that differ, templates that are copied, and pages that save whole rows. |
| `Accounts` | Accounts, memberships, invitations, verification of a further identifier, transaction by transaction. |
| `SignUp` | Sign-up by code and by Google, transaction by transaction. |
| `GoogleKeys` | The cache of Google's signing keys that sign-ins refill at the same time. |
| `Capabilities`, `Access` | What each role may do; sessions, anti-forgery tokens, devices, leases, the middleware chain and the tabs of a browser. |
| `Platform` | Platform staff, their sessions, the audit log and what they do to businesses. |
| `Tenancy` | Transactions scoped to a user and a business over pooled connections, and the row-level policies. |
| `Limiter` | The fixed-window rate limiter and its sweep. |
| `Sums` | SUM over a set of rows, which `Stock`, `Expenses`, `SharedBill`, `Limiter` and `TabScreen` are written with. |
| `Goods` | What a bar buys, sells and spends: `Stock`, `Catalogue` and `Expenses`, and what is promised of each. |
| `People` | Everybody who has to do with a bar: `Tenancy`, `Accounts`, `SignUp`, `Access` and `Platform` side by side, and what is promised of each. |
| `Floor` | Several devices at the bills: `SharedBill`, `LockOrder` and `TabScreen`, and what is promised of each. |
| `Progress` | What a phone waits for: `Outbox` and `Limiter`, and what is promised of each. |
| `MCTabs`, `MCGoods`, `MCPeople`, `MCFloor`, `MCProgress` | The small instances that TLC checks, of `Tabs`, `Goods`, `People`, `Floor`, and `Progress` with `GoogleKeys` and a second instance of `LockOrder`. Each extends its module, so that the properties it checks are the very ones the proofs are about. |
| `SumTheorems` | Lemmas about finite sums and the images of finite sets. |
| `TabsProofs`, `GoodsProofs`, `AccountsProofs`, `AccessProofs`, `PeopleProofs`, `FloorProofs`, `ProgressProofs` | Theorems and proofs. |

### Tabs

`bill`, `sale` and `payment` are the tables, functions from row identifiers to a
row or `None`. `salesTotal`, `paid`, `writtenOff` and `onBill` are what the four
SUM queries of `store/queries/tabs.sql` return. The code keeps no such totals;
here they are variables so that a handler's arithmetic stays linear. That they
may stand for the queries is a fact about the model only, which no run counts as
a property of the program: the lemma `TotalsMayStandForSums` of `TabsProofs`
shows that in every reachable state they are the sums of the model's rows.
`reversing` holds what an uncommitted ReverseSale has read. `kind` in a bill's
row is a history field: the handler that created it.

A round's identifier is its idempotency key, so a second call with the key is
`ReplaySale`: it changes nothing. A cart carries its quantities and the kobo its
lines add up to, at whatever price the client sent; the server records a
mismatch for review and posts the sale as submitted, which is why a removal's
price is an input too.

What is abstracted: sellers, tables, times, methods, descriptions and the
reviews a price mismatch raises. The stock half of a round is in `Stock`.

Each doc or comment that the code does not keep is stated at the end of the
module and refuted by a run of its own.

### The other modules

Each is laid out alike: the tables as variables, one action per statement or
transaction, named as in the code; then the properties. A request is a function
value `request[q]` that says where in its handler it is and what it has read by
then, so everything it goes on with after another transaction may be stale. A
refused call, and a call replayed under a key that has been posted, changes
nothing and is left out unless a property is about it.

- **Stock.** A sale locks the balance row and the lots it draws from, so it is
  one action; ReverseSale and ReverseStockReceipt check without a lock and write
  later. Service items never reach the module. `movements` is the ledger as a
  count and a sum; `belief` is what a device believed when it counted.
- **LockOrder** keeps the rows a transaction still has to lock, in the order of
  the code, and who waits for whom, and nothing of what is written. What
  PostgreSQL does is an assumption about it: waiters get a row first come first
  served, and of a circle it fails one, no matter which. A variant's lots are one
  row, since one statement locks them oldest first.
- **SharedBill** reads the bill's row and its rounds in two statements. Of the row
  it keeps the balance; the status, which the page shows beside it, is a column of
  the same row and is left out, as is the branding. Payments are a total.
  Because the balance is read first, a page may ask for more than its lines come
  to, when a drink is taken off in between: `PageAddsUp` states that it never does
  and is refuted in `reading`.
- **Outbox** numbers the sales in the order in which they were recorded. The code
  flushes them in the order of `createdAt`, the device's clock, so this assumes
  that nobody sets that clock back between two sales. `flush[f]` is the
  rest of the snapshot a flush iterates over; `Lose`, `Close` and `Vanish` are
  the broken connection, the closed tab and the request nobody waits for any
  more, which may still be carried out. The queues of expenses, counts and
  adjustment requests are copies of this code over other tables.
- **TabScreen** has no idempotency key in it because the page keeps none over
  taps: the key of a round is drawn anew, a payment has none. Its bill is a
  reduced form of the one in `Tabs`: every drink costs one, and of the balance it
  keeps how often rounds, removals and payments were recorded, which is what the
  page's guards read.
- **Accounts**, **SignUp**: a message leaves, or fails to, with the row it
  carries the token of; before it arrives nobody can use the row. `proven` and
  the counts of wrong codes are history.
- **Access**: `Tried` says which capabilities' routes a tab calls; the routes are
  told apart by their capability and by whether they change anything. `cached` is
  `db.authMeta`: a tab that cannot load shows whom its browser remembers, without
  a token. A logout clears tab and cache once its request has ended, however.
- **Platform**: a transaction that writes an audit entry takes two steps, for
  `created_at DEFAULT now()` is the moment it began and others see it once it has
  committed. `clock` is `now()`, which two such transactions never share; `at` in
  an entry is its `created_at`, and `till`, which no column holds, tells when it
  committed. The log is a set: it has no order but that of `at`.
- **Tenancy** has one tenant-owned table for all of them, which have the same
  policy, and the memberships, which have a second one (migration 000004:30). That
  one is for all commands and has no WITH CHECK, so its USING admits writes too: a
  transaction may write its own user's memberships of any business. `rows` counts
  the writes of each business's rows and of each membership, one row to a
  transaction; that more could be written only repeats the check. A setting that was never
  set on a connection is NULL and one that has been set once is the empty string
  for good; the policies' `NULLIF` is there for that.
- **Catalogue**: `Skew` is how far the clocks of two API processes differ, since
  a price interval begins at the process's `time.Now()`.

Cryptography, wording, formatting, sorting for display, paging and parsing are
abstracted everywhere. Integers are unbounded: kobo are `bigint` and `int64`, and
no amount comes near the limit.

## Runs

| Run | Shows |
|---|---|
| `tabs` (`MCTabs`, `Tabs.cfg`) | All invariants and action properties of `Tabs`, and that it implements `BillAccount`: two bills, three rounds, three payments, one variant, prices and amounts of one and two kobo, one concurrent ReverseSale. |
| `tabs_sale_reversed_twice` | Two concurrent requests reverse one sale (`service.go:447` says at most once). |
| `tabs_payment_refunded_twice` | ReversePayment and then ReverseSale refund one payment twice (`tabs.go:475`). |
| `tabs_not_projected` | The bill of a walk-in sale, and that of a reversal, does not show its rows in its balance (migration 000020). |
| `tabs_nameless_debt` | A debt without a customer, by reversing a payment (`ARCHITECTURE.md:474`). |
| `tabs_void_with_items` | A bill is voided with items on it, after removals at another price (`tabs.go:592`). |
| `tabs_shared_sale_reversed` | A sale is reversed although a second round has joined its bill (`errors.go:14`). |
| `tabs_walkin_underpaid` | A walk-in sale paid with less than its total (migration 000019). |
| `goods` (`MCGoods`, `Goods.cfg`) | Stock, catalogue and expenses keep their ledgers. |
| `people` (`MCPeople`, `People.cfg`) | Accounts, sign-up, sessions, platform staff and tenants: nobody acts as another, does what they may not, or sees what is not theirs. |
| `floor` (`MCFloor`, `Floor.cfg`) | A bill with several devices at it: its public page and link, the locks of its rounds, the page that taps them. |
| `progress` (`MCProgress`, `Progress.cfg`) | What must happen in the end, under fairness: the outbox implements `Delivery` and empties, sales win their locks while all go in one order of variants, keys are followed, callers are let in again. |

**Scenes.** The components of one of the last four runs share no table. Their
state spaces would multiply if they moved side by side, and no interleaving of
theirs tells anything, so a run chooses one instance at the start (`scene`) and
the other components stand still: its state space is the sum of theirs. A
component appears in several scenes where one instance large enough for
everything would be too large: in `goods`, `people` and `floor` it is one
instance whose steps a scene bounds (`Bounded(scene)` in the MC module: who is
under way, which table stays empty). The properties of `goods`, `people`, `floor`
and the safety properties of `progress` speak of every state, whatever the scene;
the table names the scenes in which a property has something to say. The liveness
properties of `progress` name the scenes they speak of.

| Scene | Instance | Properties |
|---|---|---|
| `costs` | Stock: two lots of two units and one for 5 kobo, a synthetic lot, three items of one bill or several, one receipt undo, one reversal at a time | AllocationsAddUp, CostsAddUp, BalanceIsLedger, DrawnOldestFirst |
| `twice` | Stock: one lot of two units, four items, two reversals at a time, so that one sale is reversed twice and its lot holds more than it received | AllocationsAddUp, CostsAddUp, BalanceIsLedger, DrawnOldestFirst |
| `counts` | Stock: one lot, two items, a count, its correction and another adjustment | AllocationsAddUp, BalanceIsLedger, CorrectionReachesCount |
| `pricing`, `browsing`, `editing` | Catalogue: three price changes at once on clocks one apart; two requests, of which one reads the page while a product appears and its price changes over three moments; one page of two products that saves | PricesHold |
| `onboarding` | Catalogue: two lists of templates seeded while a bar copies them by two requests and edits | CopiesAreWhole |
| `spending`, `totals` | Expenses: two queued expenses posted twice at once over two days; one request that records and reverses up to five rows over three days | ExpensesAddUp |
| `verifying`, `inviting`, `linking` | Accounts: two requests and one phone on the way to two people, without invitations, until a wrong code in a second verification, none cut off; one invitation and two requests, one of which may stop, without verifications; an invitation joined to an account by a code, one request at a time | IdentifiersProven, CodesHold, AcceptedIsMember, OverStaysOver |
| `byCode`, `byGoogle` | SignUp: two passwords, two codes and two requests, one of which may stop, for a phone; the same for an e-mail that Google vouches for | CodesHold, OverStaysOver |
| `sessions`, `tabs`, `routes` | Access: two tabs of a browser and two requests, two tokens, no answer lost; one request at a time with three tokens or lost answers, enrolment and leases in one business, no session expiring; one tab that tries every capability in its own business and in another, no session expiring | ActsAsItsUser, DoneByThoseWhoMay, OverStaysOver |
| `platform` | Platform: a superadmin and a support member, two sessions, two requests, two transactions that write entries, one after the other or at once | AuditTellsAll, DoneByThoseWhoMay, OverStaysOver |
| `tenants` | Tenancy: two connections, two users, two businesses, three memberships; each transaction reads or writes once, and one row in all is written | SeesItsOwn, ChangesItsOwn |
| `reading`, `linking` (floor) | SharedBill: one page, balance and lines, over three rounds of two variants at two prices and two moments and payments; three links, three moments and two requests, on an empty bill | PageIsOneMoment, DeadStaysDead |
| `locking` | LockOrder: three transactions of every kind over carts of two variants in both orders, so that circles of two and of three do form | CirclesAreOutOfOrder |
| `tapping`, `turning` | TabScreen: two rounds on one phone, a removal and a payment on another, each phone tapped twice; one phone that turns away from the bill and back | TapsAddUp, ShowsWhatItDid |
| `posting` | Outbox: two sales, two flushes, two requests on their way | InOrder, NothingLost, Delivers, Drains |
| `selling` | LockOrder: two transactions that begin again without end, over carts of two variants in both orders; the property speaks of the behaviours that keep to one of them | NobodyStarves |
| `rotating` | GoogleKeys: two keys, two sign-ins, one rotation | KeysFollowed |
| `calling` | Limiter: two callers, a limit of two, a window of two, a sweep above one key | TwiceTheLimitAtMost, NobodyStarves |

Bounds. Two bills are enough for a bill and the bill of its reversal, and for a
step to disturb a second bill. Three rounds are two at different prices and a
removal, or a sale, its reversal and a further round; three payments are a
payment, its refund and a payment after that, or a refund attempted twice. Two
amounts tell full payment from part payment and the price of one day from that
of the next. Two requests are what a race needs; a third only where the second
reacts to the first (price changes, circles of three). Three items over two lots
are a draw across both, its reversal and a draw of what came back. Two flushes
and two requests are a flush whose snapshot is older than what the other has
posted. Every bound is the size of a set in the configuration or a constant whose
comment calls it a bound. Deadlock is not checked: identifiers run out, and a bar may
stop trading. The symmetry sets permute identifiers that no handler compares; the
run with temporal properties of the liveness kind has none.

**Fairness.** Only `progress` assumes any; every property of the other runs is a
safety property.

- Outbox: a flush starts as long as the queue is not empty (the app is mounted,
  comes online or completes a sale again and again, `Sell.tsx:63`), a running
  flush goes on with its loop, the server serves or refuses what it has
  received; and, strongly, a flush that posts again and again gets a post out,
  gets its answer back and is served without an error some time. Without the
  strong part a connection that always breaks in the same place is a behaviour,
  and nothing drains. Nothing says that one particular attempt succeeds.
- LockOrder: statements run, the database breaks circles after its
  `deadlock_timeout`, and the device posts again what failed. Which transaction
  of a circle is failed is left open, and nothing bounds how many others begin. A
  sale may therefore be the one that is failed each time, for ever, when carts
  come in both orders (`SalesArePosted` is refuted); `NobodyStarves` promises it
  an end only in behaviours in which all transactions go in one order of variants.
- GoogleKeys: sign-ins with every key, and fetches of Google's key set, succeed
  again and again; the server goes on with what it has begun.
- Limiter: time goes by.

Each property of a passing run has a mutant: an operator in the module, just
before the definition it replaces, with the slip a programmer could make there
(`PROJECT.json`, "mutants"; the comment calls it a slip). The specification uses
none of them.

## Claims the code does not keep

Statements of comments and documents that were translated and turned out not to
hold. The seven `tabs_*` runs show theirs. The others are stated in the
components' modules, and at the end of `MCGoods`, `MCPeople`, `MCFloor` and
`MCProgress`; with
its name added to the configuration TLC refutes each, in the instance of the
run or the larger one named here.

| Claim | Formula | What happens instead |
|---|---|---|
| "the sum of every allocation ever drawn from this lot exactly equals its total_cost_kobo" (`lot_allocation.go:48`) | `Stock!LotCostExact`, with a fourth item | A unit given back and drawn again is charged from another point of the floors: draws of 2 and 3 kobo, a return of the 2, a draw of 3. `CostNearShare` is what holds. |
| An undo must not "drive a lot negative" (`inventory/service.go:591`) | `LotsNeverNegative` | A sale draws between the unlocked check and the write. |
| `remaining_quantity` is "rebuildable in principle from sale_item_lot_allocations" (`PHASE_FIFO_COSTING.md:21`) | `RemainingIsRebuildable` | A receipt's undo empties its lot without an allocation. |
| ReverseSale "exactly negates" a sale (`sales/service.go:442`) | `ReversedSaleCostsNothing` | A pending allocation that is resolved after the reversal has a cost that the reversal does not. |
| "you can never remove more than is currently net-present on the bill" (`tabs.go:273`) | `StockReturnedOnce` | ReverseSale checks without a lock that its bill has no other sale; a removal that commits before it writes puts the same stock back a second time. |
| A pending allocation comes with a `negative_inventory` review (`PHASE_FIFO_COSTING.md:73`) | `PendingIsReviewed` | Balance and lots differ after adjustments: the lots are empty and the balance is not. |
| A count that meets its expectation means that "nothing else touched this variant" (`inventory/service.go:173`) | `FreshCountMeansUntouched` | A sale and a receipt that cancel out leave the balance as it was. |
| A second reversal of an expense is ErrAlreadyReversed (`expenses/service_test.go:209`) | `ExpenseReversedOnce` | Two requests look before either inserts, and the total falls twice. |
| Callers "supply the category's current values for any field they are not changing" (`catalogue/service.go:271`) | `ChangesAsMeant`, with two requests in `editing` | A page saves the other fields as they were when it was read. |
| "at least one superadmin (the actor) always remains" (`platformadmin/service.go:459`) | `Platform!SuperadminRemains`, with two superadmins | Two revoke each other at once. |
| Revocation "takes effect immediately, not merely at the next login" (`platformadmin/service.go:458`) | `RevokedHasNoSession` | A login that has been checked creates its session after the revocation. |
| ListAuditLog returns "the most recent platform audit entries, newest first" (`platformadmin/service.go:307`), so that the newest about a business says what its status is | `NewestTellsStatus` | The list is sorted by `created_at`, when a transaction began (migration 000015:13): of a suspension and a reactivation that overlap, the one that began first may commit last. |
| The second policy on memberships is for "handlers resolving 'which businesses am I a member of'" (migration 000004:28) | `MembershipsInTheirBusiness` | It admits writes as well: a transaction without a business, or of another one, may write its user's memberships. |
| "The previous CSRF token stops working immediately" (`platformadmin/service.go:188`) | `OldTokenHasNoEffect` | A request that has been authorised is carried out. |
| "receiving the invite already proved channel ownership" (`PHASE_INVITATIONS_WHATSAPP.md:78`) | `Accounts!EmailsProven`, with a third e-mail in `inviting` | An invitation with phone and e-mail is sent to the phone, and the account gets both. |
| A 3-attempt lockout (`PHASE_INVITATIONS_WHATSAPP.md:117`), and five for sign-up (`signup/service.go:45`) | `LockedOutAfterThree`, `LockedOutAfterFive` | Requests that read the attempts before either raises them compare one code each. |
| The account that accepts an invitation has its identifier (`invitations/service.go:220`) | `AcceptedByItsHolder` | The handler takes any invitation's token with the confirmation of any identifier. |
| "Create opens an invitation and delivers it" (`invitations/service.go:64`) | `OpenIsDelivered` | The row stays when sending fails. |
| A read "lazily transitions a pending but past-expiry row to 'expired'" (`invitations/service.go:167`) | `ExpiredOnRead` | Nothing is written, and the pending row goes on blocking a new invitation. |
| "Revoke on logout" (`API_CONTRACT.md:220`) | `LogoutRevokes` | A logout whose token has been replaced by another tab is refused, the failure is swallowed, and session and cookie go on. |
| A revoked device cannot sync (`IMPLEMENTATION_PLAN.md:398`) | `RevokedDeviceCannotSync` | No handler looks at a device or a lease, so its sales are taken. |
| Expired devices are stopped "until reauthorized" (`ARCHITECTURE.md:910`) | `Access!Reauthorised` under `FairSpec` | Enrolling is the only source of a lease, the browser keeps its key, and a key is enrolled once: every later request is a conflict. |
| "a sale already posted successfully is removed from the queue, never re-sent" (`salesSync.ts:13`) | `Outbox!NeverResent` | It is sent again when its answer was lost, or by a flush with an older snapshot. |
| The next flush "picks up where this one left off" (`salesSync.ts:12`) | `Outbox!PickedUp` under `FairSpec`, with one refused sale | Every flush begins with the refused sale and stops there. |
| "the most recently posted round" gives a line its price (`bill_share_link_handlers.go:188`) | `ShowsLastPosted` | Rounds are ordered by the devices' clocks. |
| "deterministic lock ordering" (`ARCHITECTURE.md:213`) | `NoCircle` | Two carts with two variants in opposite orders wait for each other; the database fails one. |
| The same, for the sale that is failed | `MCProgress!SalesArePosted` | It may be failed each time it is posted, for ever. |
| "always 'what's actually on the tab right now'" (`Tabs.tsx:424`) | `AlwaysShowsWhatItDid` | The page turns away and back; the load of its effect is not cancelled by a handler that reloads the bill meanwhile, and its older answer is shown last. |
| "A retry must not create a duplicate sale, payment" (`ARCHITECTURE.md:55`, `tabs.go:206`) | `RecordedOnce` | The tabs page keeps no key from tap to tap, and payments have none. |

## Proofs

`TabsProofs` proves, for every value of the constants allowed by the assumptions
in `Tabs`:

- `InductiveInvariant`: `Spec => []IInv`. `IInv` adds to the invariants what
  makes them inductive. `BillInv` says per bill what its status implies: an open
  bill is a tab without write-offs (this is why CloseBill may leave them out of
  its balance), a void bill's three totals are zero, and a bill's balance is
  `Owed` unless it is still as CreateSale posted it (`AsPosted`). `AsPosted`
  keeps enough of a walk-in bill, whose balance nothing computes, to show that
  its first refund reopens it with exactly what is then owed. `PaymentInv` says
  that a payment that is no refund is positive and on a bill that is not a
  reversal's. `ReadInv` says that what an uncommitted ReverseSale has read is
  still there.
- `TypeCorrect`, `BalanceIsProjection`, `BalanceNeverNegative`,
  `StatusFollowsBalance`, `VoidIsEmpty`, `RemovalsAreCapped`, `RefundsAreUnique`:
  the invariants the run checks.
- `VoidedOnlyWhileOpen` and `ReopenedOnlyByRefund`: the action properties. Every
  call but ReversePayment refuses a settled bill or leaves it (`OnlyRefundsReopen`).
- Of the model and not of the program, the lemma `TotalsMayStandForSums`, from
  the type of the tables and `SumTheorems`: every insert adds one row to one
  bill's sum.
- `Refinement`: `Spec => ImplementsAccount`, step by step from the invariant; and
  `AccountSound`, that the abstract account is sound, so that every bill is.

The proofs go by action: one lemma per handler, over lemmas about the shared
parts (what an insert or a recomputation does to each table). The assumptions
used are those named in `Tabs`: carts hold natural quantities and totals,
amounts and quantities are positive, prices natural, and `None` is no row.

`SumTheorems` proves what the others need of sums over finite sets of rows: one
row more adds its value, equal columns have equal sums, sums of sums and
differences, bounds, and rows under other names (`SumMoved`). The prover cannot
use the library's induction theorem over finite sets, which takes an operator as
a parameter, so the module states induction over a set of sets (`SetInduction`)
and proves it from the smallest set outside of it, which there is because
inclusion is well-founded on the subsets of a finite set. With it one function
meets the recursion of the community modules' fold, and its values are the sums.

`GoodsProofs` proves of `Stock`, for any number of lots, items, undos, counts,
adjustments and concurrent reversals, and any quantities and costs
(`StockInvariant`):

- `NoUnitIsLost` (`AllocationsAddUp`), `ChargesAreShares` (`CostsAddUp`),
  `BalanceIsRebuildable` (`BalanceIsLedger`): the ledgers. They hold together or
  not at all: what a draw may take follows from what lots have left, and what it
  is charged from how much of the lot is accounted for. `DrawnFromLots` says that
  nothing is drawn or charged from a lot that does not exist, and `ReadsStand`
  that the sale or receipt an unfinished reversal has read is still there.
- About costs, the proof found what the small instance had not: an item is
  charged within a kobo of its share only as long as no sale is reversed twice.
  Two reversals of one sale leave more in a lot than it received; its
  consumption is then negative, Go's division truncates towards zero from the
  other side, and a draw across zero is charged up to two kobo beside its share.
  `CostNearShare` states both bounds, the scene `twice` reaches the second, and
  `GivenBackOnce` is the strengthening that shows consumption never negative
  otherwise: what items that no reversal names have drawn from a lot is at most
  what all items together have.
- `OldestLotsDrawnFirst` (`DrawnOldestFirst`): a lot that is drawn from has all
  older lots drawn empty (`OlderDrawnEmpty`), and what is left over when the
  newest has been reached is pending (`LeftOverWhenEmpty`).
- `CorrectionsReachCounts` (`CorrectionReachesCount`): `BeliefsStand` says that a
  belief stays true as long as nothing is posted, `CorrectionsStand` what a
  correction keeps of its count.

Assumed, as named in `Stock`: lots are numbered in FIFO order, rows of different
tables are different, quantities and costs are integers, and `None` is no row.
`FiniteRows` is not assumed but part of the invariant: a table has finitely many
rows at every moment, whatever the set its keys come from.

It proves of `Catalogue`, for any requests, names, prices and lists of templates:

- `PricesAlwaysHold` (`PricesHold`). `PricesInv` says of each variant that all
  its prices but the current one are closed, after they began and no later than
  the current one began (`History`), and that one price holds at every moment
  from some moment on (`Throughout`). The step that closes a price and opens the
  next keeps both only because what it closes is still current and
  began before its own clock reading (`Holds`): this is what the CHECK of the table, the row lock (`LocksInv`: a row is closed by one request at a time) and
  the unique index are for. A page has a price for each variant it shows because
  it has read variants before prices and every variant there is has a price.
- `CopiesStayWhole` (`CopiesAreWhole`). What a copy appends to the four tables is
  computed from what the request has read, in an order that CHOOSE picks: `Copied`
  says that the order lists every element once (`Ordered`), and `Copy` what each
  appended row is.

Assumed, as named in `Catalogue`: the names are finitely many and NULL is none,
prices are integers, a list of templates names products, categories and
variants, and the clocks' skew is less than the last moment.

And of `Expenses`, for any device queues and requests:

- `ExpensesAlwaysAddUp` (`ExpensesAddUp`). `ExpensesInv` says that a row is what a
  device queued under the row's key, or takes back what an earlier row says under
  a key of its own, and that keys are unique; `AnswersInv` that an answer names a
  row with the key it was asked for. The report and the summary agree because
  rows summed category by category are the rows summed (`SumByGroup`). That the
  total is the total of what stands is shown from the last row back: which rows
  stand is defined by recursion over later rows, so the proof first shows that
  some function satisfies the recursion (`SomeRight`), and then that the rows from
  any row on add up to those of them that stand (`StandingRowsAddUp`).

Assumed, as named in `Expenses`: keys of devices are no ids, what is queued is
typed, the names of categories are finitely many, and `None` is no id.

`ProgressProofs` proves of `Outbox`, for any number of sales, flushes and requests:

- `OutboxTypeCorrect`, `OutboxInvariant`: `Spec => []IInv`. `InOrder`, that the
  server's rows are the sales `1..n` in order, is not inductive: it rests on
  nothing being posted before everything older is. `FlushInv` says so of a
  snapshot: of whatever is older than a sale in it, each is in it too, posted, or
  what the flush waits for. `RequestInv` says it of a request: everything older
  than its sale is posted, whoever waits for it, so that a request carried out
  late does no harm. `Kept` says that what is no longer queued has been posted,
  which needs `RequestInv` for the answers that take a sale off the queue.
- `PostedInOrder`, `RecordedIsKept`: `InOrder` and `NothingLost` always hold.
- `OutboxImplementsDelivery`: every step of `Outbox` is a step or a stutter of
  `Delivery`, so that the server gets every sale once and in order.

and of `Limiter`, for any limit, window, threshold, callers and times:

- `LimitHolds` (`TwiceTheLimitAtMost`): no stretch of time as long as a window
  lets more than twice the limit through. `CallerInv` says what a caller's row
  tells of its calls: since the row's window began no more were let in than its
  count and the limit, and in a window's length before that the limit at most; of
  a caller without a row, the limit at most in the window's length before now.
  Any stretch as long as a window is covered by two of these. The sweep takes only
  rows whose window is over, which is why a caller without one may be forgotten.

Assumed: `LimitsAssumption` (limit, window and threshold are natural, the window
positive), and that `None` is no row of the limiter (`UnseenAssumption`).

`AccountsProofs` proves, for any number of users, businesses, invitations,
verifications and requests (`AccountsInvariant`). None of the properties is
inductive, because a request acts on what it read several transactions ago.
`ContextOK` says what a request has established by the step it is at: the
invitation it read exists, the account it acts for exists, the membership it is
about to mark accepted is there, the identifier it is about to attach has been
proven. `Grows` says that no step of another request takes any of it back, since
rows stay. From these:

- `AcceptedAreMembers`: `AcceptedIsMember`.
- `IdentifiersUniqueAndProven`: `IdentifiersUnique` and `PhonesProven`.
  Uniqueness rests on the tables' UNIQUE constraints and not on Start's lookup,
  which may be minutes old.
- `WrongCodesAreCounted` (`WrongCodesCounted`): a wrong code is compared in one
  transaction and counted in the next, and the row may be replaced, expire or be
  deleted in between. `CountingInv` adds that the requests that still have to
  count are finitely many, since the bound is a cardinality over them: each wrong
  code adds one to that set, and counting moves it to the row.
- `ClosedStays`: the action property `ClosedIsFinal`.

Assumed: phones are no e-mails, the accounts that signed up before share no
identifier, and `None` is no row.

`AccessProofs` proves, for any users, roles, businesses, browsers, tabs, sessions
and requests (`AccessInvariant`):

- `ChangesAreTheirOwn` (`ActsAsItsUser`, `ReplacedTokenRefused`). Tabs share the
  cookie, so what a tab shows and whose session its request is authenticated by
  may differ; what protects the change is the anti-forgery token. `Mine` is the
  heart of the invariant: if the token a tab or a request holds is a session's,
  that session is one of the person the tab showed. It is kept because tokens are
  issued anew and never again (`Later`), so that a token that has been replaced
  belongs to nobody for good.
- `DoneWithinRoles` (`DoneByThoseWhoMay`, `LeaseWithinEnrolment`), from what the
  middleware has established by the step a request is at (`ContextOK`).
- `EndedSessionsStayEnded`: the action property `EndedForGood`.

Assumed: a role for every member, a browser for every tab, the capabilities tried
are some of those there are, and `None` is no row, role or name.

`PeopleProofs` proves what `People` promises. It takes `Accounts` and `Access`
with their theorems, by instantiating the modules those are in, and has the
proofs of the three smaller parts itself:

- Tenancy, for any number of requests, connections, businesses and users
  (`TenancyInvariant`): `StatementsSeeTheirOwn` (`SeesItsOwn`) and
  `RowsChangeByTheirOwn` (`ChangesItsOwn`). The invariant says that no two
  transactions are on one connection (`OneEach`) and what a transaction has set
  on its connection by the step it is at, so that nothing an earlier one left
  counts (`Scoped`). Memberships change by a transaction of their business or of
  their user, since either policy lets a write through (`AccessToMembership`).
- Signing up, for any number of identifiers, passwords, codes and requests
  (`SignUpInvariant`): an account has the password that was given with the code
  that arrived, although a sign-up started again replaces the row while an older
  code is still on its way. `GivenWith` says that a row, and a request about to
  create an account, have the password their own code was generated with.
  `WrongSignUpCodesAreCounted` is the argument of `Accounts` about other tables,
  and `AccountsStayAsTheyAre` the action property `VerifiedOnce`.
- Platform administration, for any staff, businesses, sessions and requests
  (`PlatformInvariant`): `LogTellsAll`, that the audit log tells the state, names
  only superadmins for writes and has an entry for everything shown, and
  `RevokedStayOut`, that revoking an account ends the sessions it had when that
  began, for good. Entries are not in the order of the changes, so what is proved
  of the log is what it can tell: the status of a business is that of an entry
  such that every other about it began before that one was committed (`Last`).
  Where no two changes overlap, this is the newest. The witness is whatever was
  committed last: `InTime` says that nothing in the log began later than now.
  `Sound` carries the session a request was authorised by, what a transaction
  under way may do, and the entry of a read, to the step that uses them.
- All of them together, one theorem for each property of the run:
  `IdentifiersAreProven`, `AcceptedAreMembers`, `CodesAlwaysHold`,
  `ChangesAreTheirOwn`, `OnlyThoseWhoMay`, `AuditAlwaysTells` and
  `NothingComesBack` (`OverStaysOver`). The hypothesis of each is that the parts
  it speaks of follow their own specifications, which any interleaving of them
  does: no part writes another's state.

Assumed: `NamesAssumption` (roles differ, and what stands for NULL and the empty
setting is no user or business), `MembersAssumption` and `DoorsAssumption` (the
assumptions named above), `JoiningAssumption` (Google vouches for e-mails, bounds
are natural, `None` is no row), and `OfficeAssumption` (superadmins are staff, no
account is a business, `None` is no row).

`FloorProofs` proves of `SharedBill`, for any number of requests, rounds, links and moments
and any prices (`SharedBillInvariant`):

- `DeadForGood` (`DeadStaysDead`), from the types of the link's row and of what a
  request is about to make of it (`LinkInv`).
- `PagesAreWhole` (`PageIsOneMoment`): what a page has read stays a permutation
  of the bill's first so many rounds while further rounds are posted (`PageInv`),
  and a page lists quantities and totals that no permutation changes
  (`SumMoved`). The price beside them it does change (`ShowsLastPosted`). The
  balance it shows was owed at that moment or an earlier one while it read
  (`MoneyInv`): later rounds leave the first so many as they are, and payments
  only grow.

Of `LockOrder`, for any transactions, bills and carts of any variants, in any order:

- `CirclesGoAgainstTheOrder` (`CirclesAreOutOfOrder`): whatever ranking of the
  variants one takes, a circle has a transaction in it that goes against it. So
  what makes circles is the order of the carts and nothing else, and ordering the
  items of every cart would end them. Given a ranking, `Level` puts bills first
  and then, variant by variant, its balance before its lots. Every operation locks
  a bill only first and a variant's lots only after its balance (`InShape`), so a
  transaction that follows the ranking wants a row above all it holds
  (`WantsHigher`). `LocksInv` says that a transaction holds the first so many rows
  of its list and waits at most once in the queue. If all of a circle followed the
  ranking, take the waiter whose row has the highest level and, among those, the
  one that came first: whoever it waits for waits for a row of at least that level
  that it does not hold, or came before it.

Of `TabScreen`, for any intents, devices, taps and turns:

- `TapsAddUpAlways` (`TapsAddUp`): what a page took without an error is recorded,
  and removals and payments stay within what was recorded, although a tap
  repeated after a lost answer may be served twice. `PostsInv` ties every post on
  its way to one tap.
- `IdlePageShowsWhatItDid` (`ShowsWhatItDid`). A page reloads at the end of a
  handler and when it turns to the bill, and answers come in any order.
  `ReloadsInv` says that a handler's reload sees whatever was done on its device;
  `EffectsInv` that a page that has turned to the bill once has no other load on
  its way once it shows something.

Assumed: the variants are finitely many and carts are sequences of them
(`CartsAssumption`); rounds, removals and payments are finitely many and different,
each on one device (`IntentsAssumption`); the opening balance is natural
(`OpeningAssumption`); and `None` is neither an answer (`UnservedAssumption`) nor
an intent.

Only model-checked:

- Liveness: `Drains`, `NobodyStarves` (of sales that all go in one order of
  variants, and of refused callers), `KeysFollowed` and the fairness in
  `Delivers`, whose safety part is proved. Liveness under fairness and ENABLED
  are beyond the prover.
- `GoogleKeys`, whose one property is liveness.
- What is refuted or checked of a component by a larger instance named under
  "Claims".

## Not modelled

- Business settings and storage: single-row updates; a logo is stored and then
  its key recorded.
- Activity feed and flags: read-only SQL, and a flag opened and resolved by
  single-row statements.
- Reports and metrics, apart from the expense figures: read-only aggregation.
- E-mail and WhatsApp: rendering, SMTP and HTTP with a bounded retry of each
  call by itself. What a failed message leaves behind is in `Accounts` and
  `SignUp`.
- Hashing, token generation, signatures, HTTP parsing and encoding: calls into
  libraries, taken as values that differ.
- The other pages of the web interface: they read, and post single forms.
- Start-up, configuration and commands: wiring that runs once, apart from
  `seed-catalogue`, which is in `Catalogue`.

What could be added: larger instances of the scenes, and the branding and the
status on a shared page.
