# Sazono backend: specifications and proofs

TLA+ specifications of the backend of a restaurant platform (NestJS, Prisma,
PostgreSQL): tables and their sessions, the bill of a session, orders and the
kitchen, the payments that settle them, and the back office that configures it all.
TLC checks the specifications on small instances; TLAPS proves the main results for
every instance. Paths below are relative to the repository; `floor/...` stands for
`src/modules/floor/...`.

## The system

The backend is one process (possibly several instances of it) around one
PostgreSQL database. There are no actors and no queues: concurrency is HTTP
requests, a job that `setInterval` starts, and notifications of payment
providers. Every handler has the same shape: it reads rows, checks them, awaits
something (more reads, a payment gateway) and runs one transaction. Prisma uses
PostgreSQL's READ COMMITTED, and no handler asks for a row lock with its reads, so
a transaction sees the rows as they are at each statement, and nothing keeps a row
that was read from changing before it is written. That gap is what most of this
project is about.

| Component | State | Operations | Interacts with | What makes it correct |
|---|---|---|---|---|
| floor: sessions | `Table.status`, `TableSession.status` | open, close, abandon | creates and closes the bill; QR orders also create sessions | one active session for a table, the table agrees with it, an ended one stays ended, none is closed with debt |
| floor: tables, zones, assignments | `Table`, `TableZone` and its staff, the session's assignee | create, rename, delete, move, replace the staff, assign | reads roles and the branch's settings | a zone's staff is the list last sent, a deleted zone leaves nothing behind |
| billing: the bill | `Bill` amounts and status, `BillItem`, `Payment` | charge an order, apply a payment, void an order | called by orders, payments and the webhook inside their transactions; moves the session between OPEN and PAYMENT_COMPLETED | total = items + tips, what was paid = the recorded payments, never overpaid, the status follows the balance |
| orders | `Order.status`, its items | create by QR or waiter, cancel, deliver, deliver those READY for long | charges the bill, routes to the stations | a QR order is charged and cooked once per payment, never unpaid |
| kitchen | `StationTicket.status`, items | start, finish, cancel a ticket | recomputes the order's status | items follow their ticket, the order follows its tickets |
| payments: attempts | `PaymentAttempt`, `Payment` | pay an order or a part of the bill, online or at the terminal | gateways, orders, billing | resolved once, succeeds with exactly one Payment and only if captured, or recorded as made without a gateway |
| payments: redirect | the same, with a token | start, return, abort; the reconciliation job | Webpay, the guest's browser | as above when the browser returns twice or never; every attempt is resolved in the end; the guest is told the truth |
| payments: Mercado Pago webhook | `PaymentWebhookEvent` | a notification | resolves the attempts of embedded payments | one worker per notification; a notification fails nothing that was paid and keeps the books |
| payments: split bills | `BillSplit`, participants | create, pay a part by card or by redirect | applies payments to the bill | a part is paid in full, and by one card's request at most; the split follows its parts; the parts owe what the bill does, but for what notifications credited to the bill alone |
| payments: merchant accounts | `RestaurantPaymentAccount`, `PaymentOAuthState` | connect (OAuth), renew, pause, resume, prefer, disconnect | chooses the gateway | a code is exchanged once, a usable account has credentials |
| restaurants, branches, staff | `Restaurant`, `Branch`, `StaffUser`, roles, identities at the provider | bootstrap, create, hire, update | the authentication service | an active administrator remains, an identity is used or removed, the plan's quota |
| sign-in | PIN columns, tokens that are never stored | password, PIN, refresh | staff profiles | a token keeps naming its profile, a PIN locks in time |
| menus | menus, categories, items, pictures | edit a DRAFT, publish, upload | the storage service, the branch's settings | guests are served a published menu with something on it, a picture that is shown is stored |
| modifiers | groups, options, limits, an item's groups | edit, attach, check an order's selection | orders | an item can always be ordered; an item's groups are the list last sent |
| notifications, analytics, leads, common | | push messages, sums, a form, guards | | no state above depends on them |

Hard behaviours, in the order of what they can cost: a gateway call that is
neither rolled back nor repeated; two transactions that rewrite one bill; a
notification that comes before the answer it is about; results of two attempts on
one order arriving in the wrong order; a session that ends while a payment is under
way; a browser that returns twice; two stations finishing at once; two
administrators changing the same thing, or one of them failing half-way between two
systems. `PROJECT.json` lists each hazard at its line with the properties that
watch it.

## Modules

| Module | Models | |
|---|---|---|
| `BillLedger` | the amounts of a `Bill` and the three ways they are rewritten | operators, no state |
| `PaymentAttempt` | the abstract promise about every payment attempt | abstract specification |
| `TableService` | a table: sessions, bill, orders, embedded and offline payments | implements `PaymentAttempt`, uses `BillLedger` |
| `RedirectPayment` | payments through Webpay, with the browser, the gateway and the job | implements `PaymentAttempt`, uses `BillLedger` |
| `MercadoPagoWebhook` | embedded payments, their provider and its notifications | implements `PaymentAttempt`, uses `BillLedger` |
| `BillSplit` | a split bill, its parts paid through both channels | uses `BillLedger` |
| `Kitchen` | an order in production | independent |
| `PaymentAccounts` | the merchant accounts of a restaurant | part of `BackOffice` |
| `StaffAdministration` | restaurants, branches, people | part of `BackOffice` |
| `SignIn` | passwords, PINs and tokens | extends `StaffAdministration`; part of `BackOffice` |
| `MenuCatalogue` | menus, publication, pictures | part of `BackOffice` |
| `OrderableItems` | modifiers and the check of a selection | part of `BackOffice`, uses `ReplacedList` |
| `FloorPlan` | tables, zones, their staff, assignments | part of `BackOffice`, uses `ReplacedList` |
| `ReplacedList` | a list replaced by a delete and an insert | operators, no state |
| `BackOffice` | the composition of the six parts | implements each of them |
| `MC...` | symmetry and instances for TLC | |
| `TableServiceTypes`, `TableServiceProofs` | the proofs about `TableService` | TLAPS |
| `KitchenProofs` | the proofs about `Kitchen` | TLAPS |
| `BackOfficeProofs` | the proofs about the six parts of `BackOffice` and about `BackOffice` | TLAPS |
| `BillLedgerTheorems` | what a rewrite of a bill returns, for every bill and amount, and what becomes of a sum over a finite set | TLAPS, used by the four proofs about payments |
| `RedirectPaymentProofs` | the proofs about `RedirectPayment` | TLAPS |
| `MercadoPagoWebhookProofs` | the proofs about `MercadoPagoWebhook` | TLAPS |
| `BillSplitProofs` | the proofs about `BillSplit` | TLAPS |

### How state and actions correspond to the code

A request is a record with the step it is about to take and what it has read so
far. Where the reads, the statements of a transaction and its commit matter one by
one they are steps (`XRead`, `XTxRead`, `XCommit` in `TableService`); a
transaction whose only reads are of rows it has locked is a single step. The
updates that have a status in their WHERE (`finalize-payment`, `fail-payment`, the
claim of an order, the session updates of the ledger, the consumption of an OAuth
state) are evaluated on the current row at commit, which is what PostgreSQL does at
READ COMMITTED; the ones that have none overwrite it, as in the code. Row locks that
make one transaction wait for another are guards (`OrderLocked`, `AttemptLocked`,
`PartLocked`, `BillLocked`, `MenuLocked`). `Drop`, `Crash...` and `...Dies` end a
request at any step with nothing written since its last commit: the process died,
the handler refused, or the database aborted the transaction.

- `BillLedger`. Each rewrite takes the bill as it was read (`seen`) and the row it
  is written to (`row`). `computeBillTotals` returns a tax of zero (prices include
  it), so the tax is left out. Amounts are integers; the code uses `Decimal`
  sums and differences only, no rounding.
- `TableService`. `open-table-session`, `close-table-session`,
  `abandon-table-session`, `create-qr-order`, `create-waiter-order`,
  `cancel-order`, `pay-qr-order`, `pay-qr-bill`, `pay-bill` with
  `settle-bill-payment`, `charge-payment`, `finalize-payment`, `fail-payment`.
  The gateway (`GatewayAnswers`) approves, rejects, or takes the money and is not
  heard; it is called between transactions. `captured` is what really happened
  to the customer's money, which the program only learns of. A payment is also approved
  without a gateway (`offline`, `recordOffline`): a waiter's always, and a guest's when
  the restaurant has no gateway connected or the request has no card token, unless
  `QrGatewayRequired` (the environment's `PAYMENTS_QR_GATEWAY_REQUIRED`, false by
  default; docs/24:71-75 and 192-195 say that such an approval moved no money). Which of
  the two holds of a guest's payment is left open. The kitchen's
  progress is not in this module (an order stays ROUTED), cancelling in production reads
  the bill and its items as one step, and a new order has one price. Roles, branches
  and the menu are left out. DRAFT, CONFIRMED and VOID are never written by the code.
- `RedirectPayment`. `start-redirect-payment`, `confirm-redirect-payment`,
  `reconcile-transbank-payments` with its scheduler, and the Webpay adapter. The
  gateway's transaction goes open, authorized, captured (by `commit`), or is
  declined, aborted or expires. A commit may fail before or after it took
  effect, and fails when it is repeated; the adapter reads every failure as a
  rejection. The waiter's charge and the cancellation of an unpaid order are
  single steps here, since `TableService` has their overlaps. Left out: the return
  with neither token (it changes no state), a missing adapter or account (the attempt
  fails, as for a rejection), and the age an attempt must have before the job looks at
  it (it may look at any time).
- `MercadoPagoWebhook`. `handle-mercado-pago-webhook` beside the embedded handlers
  of `pay-qr-order` and `pay-qr-bill`. The provider's payment of an attempt goes
  pending, approved, rejected, cancelled, refunded on its own; it sends a
  notification about it at any time and again until it is answered. A row of
  `PaymentWebhookEvent` is looked up, stored (the unique key refuses the second),
  correlated, applied and marked. An attempt is created with the provider name of
  the offline recorder and nothing rewrites it, so the search by (provider,
  reference) never finds one, and every notification is correlated by asking Mercado
  Pago. The signature is a guard on what is delivered and is left out, as is
  what is written for audit only.
- `BillSplit`. `create-bill-split`, `pay-bill-split-participant`, the part of
  `start-redirect-payment` and `confirm-redirect-payment` that concerns a
  participant, and what `handle-mercado-pago-webhook` does to the attempt of one:
  such an attempt has a `billId`, so a notification that finds it PENDING finalizes it
  and credits the bill (`NoticeRead`, `NoticeCommit`), or fails it (`NoticeFails`), and
  touches neither participant nor split; the request then finds it resolved and rolls
  back. Any notification may come while an attempt is PENDING: which ones do is in
  `MercadoPagoWebhook`. Both channels update the same rows in opposite orders, so the locks
  are explicit and `DeadlockVictim` is PostgreSQL's choice. The claim of a participant
  and the guarded update of the attempt after it are one step, since the second one
  undoes the first.
- `Kitchen`. `route-order-to-stations`, `update-station-ticket-status`,
  `deliver-order`, the automatic delivery in `list-branch-ready-summary`, and the
  part of `cancel-order` that concerns tickets. The status of a ticket's item and
  of the order's item are one, since every ticket's items belong to it alone and both
  are written together except on delivery, which the kitchen does not read.
  Cancellation is allowed for any order in production, prepaid or not, which only
  adds behaviours.
- `PaymentAccounts`. Starting and completing a connection, the resolver that renews
  tokens, the repository's updates, Transbank's commerce code. A token is a
  Boolean (there is one), and whether it is about to expire.
- `StaffAdministration`. `bootstrap-restaurant`, `update-restaurant`,
  `create-branch`, `create-staff-user`, `update-staff-user`. The authentication
  service is a second store: an identity is created before the profile and removed when the
  profile's transaction fails. The foreign key from a profile to its identity
  (`staff_users_auth_user_id_fkey`, `ON DELETE RESTRICT`) is part of the model: it refuses a
  profile whose identity is gone, and the removal of an identity that has a profile.
- `SignIn`. `auth.service`: which profile an identity gets, what is signed, what a
  renewal answers, the PIN and its lock. `StaffMoves` stands for what
  `StaffAdministration` commits, one row at a time.
- `MenuCatalogue`. Menus, categories, items, `publish-menu`, pictures, and what
  guests are shown. Publishing is four steps, because archiving the others scans,
  waits and looks again.
- `OrderableItems`. Modifier groups and options, an item's groups, and the check of
  `orderable-menu-item-resolver` (`Resolves`) on sequences of options.
- `FloorPlan`. Tables, zones, `set-zone-staff`, `assign-table-session`; foreign keys
  (cascade, set null, refusal) are part of the actions that meet them.

The parts of `BackOffice` keep rows of their own and never lock each other's, so a
behaviour of the whole is an interleaving of behaviours of the parts, and a property
of one part holds of the whole if it holds of the part. `BackOffice` therefore has one
part in `focus` in each behaviour. What a part reads of another one changes
under it by an action that allows at least what the other one does (`StaffMoves`,
`RoleMoves`, `SessionMoves`). `BackOfficeImplementsParts` proves the direction that
carries results from five of the parts to the whole; the staff, which moves in two focuses,
is proved about the whole directly. Within a part a focus
selects the operations that meet (publishing or pictures, limits or lists, zones or
assignments); every operation is in one.

### Ghosts

Some variables only record history, for the properties. They are there because the
code does not prevent an overlap, and they are the narrowest condition under which a
property holds: everything else that may overlap is covered.

| Ghost | Set when |
|---|---|
| `overwritten` | a bill is rewritten from a read that is no longer the row: the code loses an update |
| `lateClose` | a session is closed or abandoned that was no longer active |
| `overlapped` | two requests wrote to an order in production without seeing each other |
| `orphaned`, `resolver` | a notification's worker died after storing it; who resolved an attempt |
| `unapplied` | a notification finalized the attempt of a part: its `Payment` names no participant |
| `raced` | a split was created from a stale bill, or next to another one being created |
| `abandoned` | the request that created an identity died before it used or removed it |
| `adminRaced`, `quotaRaced` | two requests updated one restaurant's staff, created branches of one restaurant; or its quota was lowered |
| `pinRaced`, `misses` | two PIN attempts on one profile overlapped; wrong PINs in a row |
| `menuRaced`, `imageRaced` | a menu was edited and published at once; two requests changed one picture |
| `groupRaced`, `listRaced`, `zoneRaced` | two updates of one group, two replacements of one list overlapped |
| `sentGroups`, `sentStaff`, `exchanges` | what was sent last; how often a code was exchanged |

## What TLC checks

| Run | Bounds | Shows |
|---|---|---|
| `BillOfSession` | 1 session, 2 orders, 2 attempts, 2 requests, tips 0 and 1, parts 1 and 2 | `QrOrderChargedPerPayment`, `ProductionNeedsApproval`, `LedgerIdentity`, `StatusFollowsBalance`, and that `TableService` implements `PaymentAttempt` |
| `SessionsOfTable` | 3 sessions, 2 orders, 1 attempt, 2 requests, a gateway is required | `OneActiveSession`, `TableTracksSession`, `InactiveStaysInactive`, and `ProductionNeedsApproval`: nothing is produced for a QR guest that no gateway captured |
| `RedirectPayment` | 1 order, 2 attempts, 2 browser requests, 1 job, 1 other charge, 1 crash | `RoutingIsPaid`, `RoutedIsNotPayable`, `RedirectLedgerIdentity`, `ApprovalIsRecorded`, and the refinement of `PaymentAttempt` |
| `RedirectLiveness` | the same with 1 browser request | `ReferenceResolved`, under fairness |
| `MercadoPagoWebhook` | 1 order and a bill of 3, 2 attempts, 2 notifications handled at once | `OneWorkerPerEvent`, `HookFailsNothingPaid`, `ProductionNeedsHandler`, `HookLedgerIdentity`, and the refinement of `PaymentAttempt` |
| `BillSplit` | 2 splits of 2 parts, 3 attempts, 2 creators, a bill of 3, 1 other charge or payment; the third attempt only where one split has the bill to itself (`ThirdAttemptAlone`) | `SplitFollowsParts`, `OneActiveSplit`, `EmbeddedPaysPartOnce`, `PartPaidInFull`, `PartsCoverRemaining` |
| `Kitchen` | 2 orders, 2 stations, 2 requests | `ItemsFollowTicket`, `OrderFollowsTickets` |
| `BackOffice` | two of everything that may overlap or be mistaken for another | `ExchangedOnce`, `KeepsActiveAdmin`, `NoStrayIdentity`, `BranchesWithinQuota`, `TokensNameTheirProfile`, `PinLockout`, `GuestsCanOrder`, `ImageIsStored`, `SelectionPossible`, `ListsAreWhole` |
| `CloseWithDebt` | 1 session, 1 order | violated: a table is closed with money owed |
| `OrderPaidTwice` | 1 order, 3 attempts | violated: a paid order is set back to PAYMENT_FAILED and paid again |
| `ReturnTwice` | 1 order, 2 attempts | violated: a paid guest who returns again is told REJECTED |
| `OrderStuck` | 1 order, 2 stations | violated: all tickets READY, the order not, for ever |

The runs of `RedirectPayment`, `MercadoPagoWebhook` and `BackOffice` also check a type
invariant; those of `TableService`, `BillSplit` and `Kitchen` are proved and no run repeats them.

Why the bounds are enough. Every action reads and writes one session, one order
and one attempt, so two of each give a bystander and a rival; a conflict is
between two transactions, so two requests in progress give all of them, while any
number may follow each other. `OrderPaidTwice` needs three attempts: the winner, the
late loser and the one that profits. Three sessions let a late close of the first
hit the table while the second is active and a third is opened. Price 2 with parts
1 and 2 and tips 0 and 1 gives exact, partial and excessive payments. In
`RedirectPayment`, two browser requests stand for a double return and two requests
on different attempts; the job adds a third worker; one crash can strike anyone
at any step. In `MercadoPagoWebhook`, two notifications handled at once are two
about one attempt, one about each, or one delivered twice. In `BillSplit`, two creators
overlap, and the two payments that finish a split, or start each of two splits, meet; two
attempts meet on one part of 1 or 2, or on both parts, through either channel or resolved by
a notification, and the third profits from what they left. The state constraint
`ThirdAttemptAlone` keeps the third attempt apart from other creations and uses of the bill,
which meet the first two; the proofs have no such bound. The kitchen's two stations give
every mix of ticket statuses the status of an order tells apart. In `BackOffice`,
`MaxSelect = 1` gives limits without, at and below a maximum, required or not;
`MaxPin = 2` a count and a lock; `MaxQuota = 2` a plan below, at and above the
branches there are; `MaxPriority`, `MaxTokens`, `MaxRoles`, `MaxFields` and
`MaxStaff` only cap what would repeat (one more preference, payload, assignment,
changed column or profile). Ids are interchangeable and symmetric,
except the attempts of `RedirectPayment`, which the job takes oldest first, and the
identities of `BackOffice`, one of which is a platform administrator's; the
liveness run uses no symmetry.

Where deadlock is not checked, the ids run out, and a table, an attempt, a notification
or a kitchen with nothing left to do rests.

Fairness (`RedirectLiveness` only). Each step of a request or of a run of the job is
weakly fair: Node goes on with a handler whose await has ended, and every
await here has an end, an error counting as one. Starting a run of the job is weakly
fair: the scheduler's interval fires for as long as the process lives. Nothing is
assumed of the guest, who may never pay or return, of the gateway's page, or of new
requests; crashes are bounded by `MaxCrashes`, since a process that always crashes
never does anything. The property excludes an attempt whose payment does not fit
the bill any more: its transaction rolls back on every run and it stays PENDING.
No other part promises that anything happens in the end: nothing in the code repeats
a notification that was stored, a charge whose handler died, or an administrator's request.

## What is proved

Every safety property that a passing run checks is a theorem, for every value of the
constants; a run shows on a small instance that the formula is the one meant, before
it is proved.

`TableServiceProofs` states nine theorems about `TableService`, for any sets of
sessions, orders, attempts and requests, any price and tips and part payments,
under the assumptions the module declares (amounts are natural numbers, the
price and the parts positive, the `No...` values are not ids):

| Theorem | |
|---|---|
| `TypeCorrect` | `Spec => []TypeOK` |
| `OneActive` | `Spec => []OneActiveSession` |
| `Charged` | `Spec => []QrOrderChargedPerPayment` |
| `Production` | `Spec => []ProductionNeedsApproval` |
| `InactiveForever` | `Spec => InactiveStaysInactive` |
| `TableTracks` | `Spec => []TableTracksSession` |
| `ImplementsPromise` | `Spec => AttemptPromise`, the refinement of `PaymentAttempt` |
| `LedgerAddsUp` | `Spec => []LedgerIdentity` |
| `StatusFollows` | `Spec => []StatusFollowsBalance` |

The argument is one inductive invariant, `Inv` of `TableServiceProofs`. The
properties are not inductive by themselves: whether a commit keeps them depends
on what the request remembers. So `Inv` says of every request in progress what its step implies
(`RequestInv`): a request that holds an attempt holds a PENDING one of its order
or bill, that no other request works on (`OwnAttempts`); one that was told "approved"
has an attempt that was captured, or recorded without a gateway where that is allowed; one that voids an order holds a waiter's order. `AttemptInv` ties an attempt's status to its number of payments,
`OrderInv` an order's tickets and bill items to the payments recorded for it.
`OneActiveSession` is inductive on its own thanks to the partial unique index.
`TableServiceTypes` proves the type invariant of each action, `TableServiceProofs`
that each action keeps `Inv`, one lemma per action. The refinement maps an attempt to
its status and number of payments: opening, the gateway's capture, the offline record, a commit and a
rejection are the promise's steps, everything else a stutter.

The books need more. `LedgerIdentity` compares a bill with the sum of all the payments
recorded on its session, and a transaction writes what it computed from rows read
statements before. `Books` adds to `Inv` what makes that right. `SessionBooks`: unless
an update was lost, the bill balances, its status tells the balance, and a session
that is PAYMENT_COMPLETED owes nothing. `RequestBooks`: a request in a payment pays on the
session its attempt and order are of, and a void that is about to be written computed
the subtotal of the row it read. `OneVoid`: the lock of the order lets one transaction void
its items, so nothing is subtracted twice. A step is then one of three: it leaves the books alone
(`BooksKept`), rewrites one bill from the row as it is, or rewrites it from another
row, which sets `overwritten`.

`KitchenProofs` proves three theorems about `Kitchen`, for any orders, stations and
requests: `KitchenTypes` (`TypeOK`), `ItemsFollow` (`ItemsFollowTicket`) and
`OrderFollows` (`OrderFollowsTickets`). The first two follow from `ItemInv`, which adds
that a request only works on orders that were routed and moves a ticket to a
status the code moves tickets to. The third needs `Knows`: a request nobody has
overtaken still knows its orders, that is, its ticket may still be moved, and the
status its transaction has computed is what the tickets give. Statuses are compared
through the set of the tickets' statuses (`Shows`), which is what
`order-status-from-tickets` computes with. A request that was overtaken knows
nothing, and puts its order in `overlapped`.

`RedirectPaymentProofs` proves, for any orders, attempts, browser requests, runs of the
job and crashes: `RedirectTypes` (`TypeOK`), `RoutedIsPaid` (`RoutingIsPaid`),
`RoutedStaysPaid` (`RoutedIsNotPayable`), `ToldIsRecorded` (`ApprovalIsRecorded`) and
`RedirectKeepsPromise`, the refinement of `PaymentAttempt`. Its `Inv` adds `AttemptInv`
(an attempt that SUCCEEDED was captured and has one payment), `WorkerInv` (a worker past
the gateway's approval holds a captured attempt; one in its transaction holds a PENDING one;
one that found its order payable has an order to route), `OneFinalizer` (the row lock lets one
transaction at a time resolve an attempt) and `OneStarter` (one request asks the gateway
for an attempt's transaction, so that nothing captured is opened again). A step
may let attempts wait, open one, or resolve one (`Moves`); `Abides` is what a
bystander may rely on through any of these, and is why a request and a job that work on
one attempt at once do not disturb each other's invariant.

`MercadoPagoWebhookProofs` proves, for any attempts, notifications and workers:
`WebhookTypes` (`TypeOK`), `NotificationHasOneWorker` (`OneWorkerPerEvent`),
`NothingPaidIsFailed` (`HookFailsNothingPaid`), `ProductionIsPaidByHandler`
(`ProductionNeedsHandler`) and `NotificationsKeepPromise`, the refinement of
`PaymentAttempt`. None is inductive: what a worker does to an attempt depends on what it was told
several steps before. Its `Inv` adds `WorkInv` (a stored notification has exactly
one worker unless its worker died), `AttemptInv` (what a handler's step says of the money and
of the attempt's status; one recorded payment exactly when it SUCCEEDED),
`ResolvingInv` (a worker about to finalize holds a captured attempt, one about to fail
it was told that nothing stays with the restaurant, and one in its transaction has the
attempt PENDING and no handler in its own) and `OneFinalizer` (two workers are
never in that transaction for one attempt). The last two are what makes the
guarded updates exclude each other.

`BillSplitProofs` proves, for any splits, parts, attempts, creators and amounts:
`SplitTypes` (`TypeOK`), `SplitsClose` (`SplitFollowsParts`), `PartsArePaidInFull`
(`PartPaidInFull`), `CardPaysPartOnce` (`EmbeddedPaysPartOnce`) and `OneActive`
(`OneActiveSplit`). Its `Inv` adds `PartInv` (a part has paid nothing or all of its share, and exactly when a payment that names
it is recorded), `AttemptInv` (what a request that awaits may rely on: its attempt is
worth its part's share, and once it holds the claim the attempt is PENDING and no
notification is resolving it; before that a notification may resolve it, which sends
it to `unapplied`) and `OneClaim` (two card payments never hold the
claim of one part), from which one recorded card payment that names each part follows. For
`OneActive` it is joined by `OneUnpaid`: while no two creations overlapped, one split
at most has a part left to pay, and none once a creator has found no active one.

The bills of the three other payment modules are proved likewise, each with a `Books` of
its own above that module's `Inv`: `RedirectAddsUp` (`RedirectLedgerIdentity`), `HookAddsUp`
(`HookLedgerIdentity`, three sums at once: prices, tips and amounts) and `PartsCover`
(`PartsCoverRemaining`). `PartsCoverRemaining` is far from inductive: it says nothing
of a part that was paid twice, and the payment that would break it comes later. `SplitCovers` therefore
counts every recorded payment of a part, also one whose update of the part was lost, and
apart from them what notifications credited to the bill (`Credited`): the
bill has what the shares minus both add up to, and there is no
second split: a split that is done leaves nothing on the bill, and a bill that owes
nothing is not split again.

The four modules about payments share `BillLedgerTheorems`: a rewrite returns a bill, a
charge keeps what was paid, a payment adds its amount to it; and the sum of a function
over a finite set is an integer, is that of any other function equal to it on the set,
and changes by the difference when one value changes, or by one value when one element comes
or goes. The library defines such a sum by a recursive function over subsets, and its
induction theorems are out of reach here (below). `SmallestSubset` replaces them: if the
lemma failed for some subset of the finite set, it would fail for a smallest one, which is
empty or has one element more than a subset for which it holds. Each lemma
about sums is such an argument.

### The back office

`BackOfficeProofs` proves each part from its own specification.
`BackOfficeImplementsParts` shows that a behaviour of `BackOffice` is one of the accounts, the
sign-in, the menus, the modifiers and the floor, so their theorems hold of it.

- Merchant accounts: types; `ExchangedOnce`, from `ExchangeInv` (a code was
  exchanged only if its state was consumed, by one request that has left the
  exchange or is in it); and `CredentialsWhileUsable`, that an account payments may use,
  or would use once resumed, has credentials.
- Modifiers: types; `SelectionPossible`, from `LimitsInv` (an update under way
  about a group that is not raced finds the limits it compared, since two on one group
  always race) and two lemmas: ordered limits leave a number that fits, and an option
  named that many times counts that many times; `ItemGroupsAsSent`, from
  `ItemListInv` (a replacement under way saw the latest rows, or its item is raced).
- The floor: types, and `ZoneStaffAsSent` from `ZoneListInv`, the same for zones,
  which may be deleted and recreated under the requests.
- Menus: `MenuServesGuests`, `PictureIsStored`, then about the whole `MenusServeGuests`
  (`GuestsCanOrder`) and `PicturesStayStored` (`ImageIsStored`). `MenusInv` says of a publication
  past its check that nobody edits the menu any more and that it still has what was
  checked (`Settled`), or the edit is in `menuRaced`; and of a picture that one request works
  on it, that a stored object waits for its row and an object goes after its row (`PictureInv`).
- Sign-in: `TokensAreOfOneProfile`, `PinLocks`, then `TokensStayOfOneProfile` (`TokensNameTheirProfile`) and
  `PinsStayLocked` (`PinLockout`). They are proved of `AnySignIn`, the sign-in alone with nothing
  assumed of the rows of the staff, which may change in any way at any step. `PinInv`: the
  counter, and the count that the one attempt under way has read, are never behind the wrong
  PINs in a row.
- Staff: `StaffIsSound` about `StaffSpec`; about the whole `RestaurantsKeepAnAdmin`
  (`KeepsActiveAdmin`), `NoIdentityIsStray` (`NoStrayIdentity`) and `PlansBoundBranches`
  (`BranchesWithinQuota`). The first and the last are not inductive, since each decision is
  taken before the transaction that acts on it. `AdminsInv`: where one update is under way at a time, what it
  makes of its target is an administrator, or another one is there; and whoever was allowed to
  create a branch is still active, or another administrator is. `IdentitiesKept`: a step
  of a request gives the identity it created a profile, removes it, keeps owning it or, when the
  request dies, abandons it; the foreign key is why a removal takes an identity from nobody.
  `QuotaInv`: whoever was told that the plan
  grants another branch finds it so. `StaffReqInv` and `PlacesInv` say that all this happens
  in restaurants that exist. Under the sign-in, `StaffMoves` changes the same rows: nobody
  administrates then (`StaffRests`), and it keeps `StaffInv` as well.
- `BackOfficeTypes` (`AdminTypeOK`) joins the types of the six parts.

### What is only model-checked

`ReferenceResolved`, the liveness of redirect payments: fairness and ENABLED are out of the
prover's reach. The four violations are counterexamples of small instances, and need no
proof. Induction over data is out of reach as well, which is why sums are treated as above,
and no module uses a RECURSIVE operator.

## What the runs found

Four statements of the repository's documentation are not what the code does
(`PROJECT.json`, "findings"): a table can be closed with debt, an order can be paid
for twice, a guest who returns twice from Webpay is told of a rejection, and an order
can stay PARTIALLY_READY with every ticket READY. Each is the smallest run of the
module with the property that quotes the document, and nothing else changed.

Other consequences the models show; the ghosts and guards above keep them visible:

- Table: a lost update on the bill (`overwritten`), a second close that frees an
  occupied table (`lateClose`), a paid order that ends CANCELLED because its
  cancellation had been checked before, money captured and never recorded after a
  crash or a gateway error, a redirect order routed twice by two approvals.
- Webhook: a notification that comes before the handler has its answer finalizes the
  attempt, and the handler then fails: the bill is credited and the order stays unpaid
  and unrouted (docs/21 describes this path for a handler that crashed). The tip is
  applied as a payment of the bill. A notification whose worker died after storing
  it is lost: its redelivery is a DUPLICATE.
- Split: two active splits when two creators overlap (docs/12:82 has one per bill). A
  notification that comes before the card's request is done credits the bill with the
  payment of a part, tip included, and leaves the part owing: the bill may be PAID with a
  part unpaid, and the guest, who was told of a failure, may pay the part with another
  card. docs/24:178-186 and the code's warning leave that to a person. A
  late rejection marks a part FAILED that was paid, and the split stays PARTIALLY_PAID
  with nothing left to pay. A part can be paid by card and by redirect. The two
  channels lock in opposite orders; when the card payment is the victim, its money
  was taken and its attempt stays PENDING. PARTIALLY_PAID is unreachable for a part.
- Accounts: a renewal or an exchange under way reconnects an account that was
  disconnected or paused meanwhile; of two renewals, the one that fails may mark the
  other's fresh tokens ERROR; a renewal that fails makes the resolver throw, so that
  Transbank is not offered either; two preferences at once give equal priorities.
- Staff: two administrators who demote each other at once leave none; when two
  requests hire one person, the one that created the identity may fail after the other used it:
  the foreign key refuses the removal, and the caller is told of that instead of the first
  failure; a crash, or a failure outside of the `try`, after the identity was created
  leaves it without a profile (`abandoned`: a bootstrap with its e-mail is refused); two
  creations at once exceed the quota.
- Sign-in: attempts that overlap lose counts, and a right PIN among them lifts a lock;
  a profile disabled during a PIN sign-in is still signed.
- Menus: two menus may stay PUBLISHED when their publications overlap (the default one is
  among them); a menu read as DRAFT may be published again after it was archived; two
  publications may deadlock; an item of a published menu cannot be made unavailable,
  and a menu with unavailable items only can be published.
- Modifiers: the check of a selection ignores `selectionType` (docs/10:45,
  docs/17:22) and counts an option named twice as two; a group that requires a selection
  and allows none makes its items impossible to order, and no check refuses it; two
  partial updates at once may leave min above max; lists replaced at once keep the rows
  of both requests.
- Floor: an assignment is written whatever the session, the setting and the roles have
  become since they were read.

## Not modelled, and why

- Translations, positions, preparation stations and prices of the menu; names,
  addresses and most settings of restaurants and branches: columns that are written as
  they were sent and that no operation above decides on.
- Reading endpoints, analytics and leads: they change no state others read. Push
  messages: no state depends on them, and their failure is swallowed.
- Access guards (the models take a request as authorised, except the administrator's
  branches), tokens' signatures and expiry, encryption of credentials, the provider's
  signature of a notification, password reset and logout: libraries and
  services, or checks without state.
- DTOs, controllers, configuration and the database client: shapes and wiring.
- The choice of a gateway among connected accounts by priority: a sort that no property
  tells apart; what it depends on, which accounts are usable, is in `PaymentAccounts`.
