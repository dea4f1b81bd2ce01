# Pro Dessert: a verification project

TLA+ models, TLC runs and TLAPS proofs for the "Pro Dessert" shop: the handling
of orders at its core, and around it carts and checkout, accounts, the catalogue
and its import, the contents of the site, payments' documents, mails and the
connection with 1C. The shop is a NestJS API and worker (`apps/api`), a storefront and an
admin panel (Next.js), a PostgreSQL database, BullMQ on Redis, and 1C, the ERP
that owns prices, stock and the facts about orders. Paths below are relative to
the repository; `api/` stands for `apps/api/src/`.

## 1. The system

### Parts, state and operations

| Part | State | Operations |
|---|---|---|
| Order life cycle, `api/orders` | `orders.status`, `orders.version` | one table of moves by source; every service goes through `OrderTransitionService` |
| Reservations, `api/reservations` | `stock_reservations`, `stock_balances`, `orders.reservation_expires_at` | ask 1C for stock, confirm (1C), ask for an extension, extend (1C), expire |
| Expiry worker, `api/reservations`, `api/queue` | delayed jobs in Redis, candidates of a sweep | expiry job per order, periodic sweep |
| Payments, `api/payments` | `payments`, their version, idempotency records, documents | publish bank details, send proof, confirm, reject, confirm (1C) |
| Admin operations, `api/admin` | none of its own | order pages, transition, cancel, replay of jobs and outbox rows |
| Site content, `api/admin`, `api/content` | products' content, promotions, banners, pages, synonyms | edit under a version, switch on and off by schedule |
| 1C inbox, `api/one-c/inbox` | `sync_jobs`, `sync_errors`, cursor | accept a signed message, claim and apply it, retry, dead letters |
| 1C export, `api/one-c` | `orders.one_c_id`, `sync_jobs` | deliver outbox rows to 1C; a feed of orders that 1C reads page by page |
| 1C transport, `api/one-c/adapters`, `security` | nonces in Redis | sign and repeat calls, let each signed request in once |
| Outbox, `api/outbox` | `outbox_events` with lease and attempts | write with the transaction, relay, process, retry, dead letters |
| Order e-mails, `api/notifications` | `email_logs` | send, repeat, suppress |
| Checkout and cart, `api/checkout`, `api/cart`, `api/account-orders` | `carts`, `cart_items`, a new order | edit, merge at login, check out idempotently, repeat an order |
| Catalog import, `api/catalog/import` | catalog rows, `stock_balances` | take over a snapshot of 1C |
| Accounts, `api/account`, `api/auth` | users, sessions, one-time tokens | register, log in, verify, reset, change e-mail |
| Documents, `api/files` | object storage, `payment_documents` | store a proof, make an invoice |
| Catalogue, `api/catalog` | none of its own | list, filter, count, suggest |
| Demo data, `apps/api/prisma/seed.ts` | demo orders | make and complete them, also after a run that was stopped |
| Storefront, admin panel | what a page has read | send it back later with a command |
| Health, audit, roles | an append-only log | not modelled, see section 8 |

### How they interact

The API and the worker share the database and little else. A service method
that changes an order runs in one SERIALIZABLE transaction that starts with
`SELECT ... FOR UPDATE` on the order row and is retried on a serialization
failure; what it has to tell others it writes to the outbox in the same
transaction. The worker relays outbox rows to BullMQ, delivers them to 1C and to
the mail server, and queues the expiry job of an order. 1C answers with messages
that the inbox stores and the worker applies by calling the same services. The
admin panel shows an order with its versions and sends them back with each
command (`expectedVersion`, `expectedOrderVersion`, `expectedPaymentVersion`).

### What is hard

- Five actors write one order: managers, the customer, 1C, the expiry job and
  the sweeper. Transactions are atomic, but decisions are not: a page is loaded
  long before its command is sent, a sweep acts on candidates and a time that it
  read before, a delayed job was queued for an earlier deadline.
- Facts are stored several times: the deadline on the order and on every line,
  the state of the payment in two rows with two versions, the held units in
  reservations and in two columns of the balances.
- Messages of 1C are late, repeated or out of order, jobs are lost, workers
  crash between two steps.
- Idempotency keys are built from versions, which must therefore move.

- Browsers are slow actors too: a tab keeps a cart, a profile or a row of content
  that another tab changes, a request that timed out may still be on its way,
  answers overtake each other.
- Several steps that belong together are separate statements: a document is a
  row, an object and a scan; a password is checked and then written; a page of
  products and the counts beside it are read one after the other.

`PROJECT.json` lists every such hazard with its line and the properties aimed
at it; the ones no property covers say why.

## 2. Modules

| Module | What it is |
|---|---|
| `OrderStateMachine` | the table of moves of `api/orders/order-state-machine.ts`; constants only |
| `StockAllocation` | abstract specification: what reservations promise about stock |
| `OneCOrder` | abstract specification: what the site promises 1C of an order; `OrderFulfilment` and `OneCInbox` both implement it |
| `OrderFulfilment` | the core: orders, reservations, payments, stock, pages, expiry |
| `OrderFulfilmentProperties` | its properties and the refinement mappings to `StockAllocation` and `OneCOrder` |
| `OrderFulfilmentProofs` | the theorems about it and their proofs |
| `OneCStream` | abstract specification: what the inbox promises about the versions 1C gives to an order |
| `OneCInbox` | the inbox for 1C's messages: storing, claiming, applying, recording, requeuing |
| `OneCInboxProperties` | its properties and the refinement mappings to `OneCStream` and `OneCOrder` |
| `OneCInboxProofs` | the theorems about it and their proofs |
| `EventDelivery` | abstract specification: what the outbox promises about an event and its consumers |
| `Outbox` | relays, leases, the queue, workers, consumers, the journal of commands, replay |
| `OutboxProperties` | its properties and the refinement mapping to `EventDelivery` |
| `OutboxProofs` | the theorems about it and their proofs |
| `Baskets` | abstract specification: what the shop promises of carts and purchases |
| `Shop` | carts of guests and customers, the merge at login, checkout under its key, repeated orders, the tab that does it all |
| `ShopProperties`, `ShopProofs` | its properties with the refinement mapping to `Baskets`; the theorems |
| `Accounts` | accounts, sessions, links sent by e-mail, the account page, guest orders that are linked |
| `CatalogImport` | a batch of 1C replaces projections and stock while orders hold some of it |
| `SiteContent` | a row of content, its version and its schedule, the pages that edit it |
| `CatalogSearch` | a visitor's query, the page of products and the counts beside it |
| `ProofOfPayment` | the key of a proof, its document and its transaction; the invoice |
| `OneCTransport` | a call with its retries, the guard with its nonces, the store of idempotency keys |
| `OrderMails` | one letter, its row and the workers that send it |
| `OrderFeed` | 1C's walk through the pages of orders |
| `SearchBox` | the text, its timer and the answers under way |
| `DemoOrders` | the seeding tool and one demo order |
| `AccountsProperties` ... `SearchBoxProperties` | the properties of seven of these ten; mails, feed and demo data have theirs at their end |
| `AccountsProofs` | the theorems about accounts |
| `CatalogueProofs` | the theorems about the import, the content and the search |
| `EdgesProofs` | the theorems about proofs of payment, mails, feed, search box, demo data and transport |
| `SumTheorems` | lemmas on sums over finite sets, for `ShopProofs`, `CatalogueProofs` and `EdgesProofs` |
| `MCOneOrder`, `MCSharedStock`, `MCOneCInbox`, `MCOutbox`, `MCShop` | instances for TLC |
| `MCSite` | accounts, import, content and search in one instance, one story at a time |
| `MCEdges` | transport, mails, feed, search box, proofs, invoices and demo data, likewise |

The components meet in the database, and each model has of the others what its
own code sees of them: `OrderFulfilment` has the keys of the outbox and the
messages of 1C and what an import does to balances, `OneCInbox` the columns of
the order that a message is compared with, `Outbox` the kind of an event and the
version of the facts that a command is built from, `Shop` the rows of the catalogue that a cart is validated against,
`CatalogImport` the reservations that take from a balance, `ProofOfPayment` the
version of the payment and whether proofs are still accepted. `OrderFulfilment`
begins where `Shop` ends, with an order that checkout has just made.

The order itself is in two of these models: whole in `OrderFulfilment`, and as
the columns a message is compared with in `OneCInbox`. That the two do not drift
apart is checked and proved: both implement `OneCOrder`, with the table of moves
of the code as the common part. It says in which state an order takes a fact of
1C (exported, behind the fact's version, not yet reserved or still reserved), and what
managers, customers and the expiry may do to it in between.

### OrderFulfilment and the code

| Variable | Code |
|---|---|
| `status`, `version`, `exported`, `oneCVersion`, `deadline` | `orders.status`, `version`, `one_c_id` is set, `one_c_version`, `reservation_expires_at` |
| `reservation`, `heldUntil` | `stock_reservations.status`, `expires_at`, which all lines of an order share |
| `payment`, `paymentVersion` | `payments.status`, `payments.version`, "NONE" without a row |
| `available`, `reserved` | the columns of `stock_balances` for the pickup warehouse |
| `screen` | the order page a manager has loaded: the versions it will send, what it shows |
| `sweep` | the local variables `now` and `due` of `ReservationSweeperService.sweep` |
| `outbox` | idempotency keys of the `outbox_events` written so far |
| `clock` | what `new Date()` returns |

Each service method is one action, because it is one transaction that locks
the order. A call answered with an error, and one recognised as a duplicate,
writes nothing and is a stuttering step. Nothing that a method writes is left to
another action: the status change, the version, the balances, the copies of the
deadline and the outbox rows of a method are conjuncts of one action.

| Actor | Actions | Code |
|---|---|---|
| manager | `OpenOrder` | the admin panel reads an order |
| | `RequestStockConfirmation`, `RequestExtension` | `ReservationService.requestStockConfirmation`, `ReservationExtensionService.request` |
| | `PublishDetails`, `ConfirmPayment`, `RejectPayment` | the methods of `PaymentService` |
| | `AdminTransition`, `Cancel` | `AdminOperationsService.transition`, `cancel` |
| customer | `SubmitProof` | `PaymentService.submitProof`, its second transaction |
| 1C | `RecordOrderExport` | the answer to the exported order, `OneCCommandService.recordOrderExport` |
| | `ConfirmFromOneC`, `ApplyExtensionFromOneC`, `ConfirmPaymentFromOneC`, `AcknowledgePaymentFromOneC` | `confirmFromOneC`, `applyFromOneC` and the two branches of `PaymentService.confirmFromOneC` |
| worker | `ExpiryJob`, `SweepSelect`, `SweepExpire` | `ReservationExpiryProcessor`, `ReservationSweeperService` |
| import | `Import` | `CatalogImportService.upsertProduct`, its write to `stock_balances` |

The versions and deadlines of 1C's messages are arbitrary: any version up to the
bound, any deadline, at any time. That covers delay, repetition and reordering.
What a message repeats of the order (lines, prices, warehouse) is left out: it
never changes after checkout, and a message that contradicts it is refused
without a write. One consequence of the code shows in the model: `release` has
no caller, so no action releases stock but an expiry.

Abstractions to keep in mind: all orders exist from the start and are picked up
from one warehouse; quantities are integers; an import brings any of the
balances in `Batches` at any time (the versions that it checks first are in
`CatalogImport`), and a confirmation that names another version of a balance than
the imported one is refused like any other contradiction; the outbox holds keys, not payloads
(`KeySaysAll` tells where that makes a difference).

### OneCInbox and the code

| Variable | Code |
|---|---|
| `job`, `attempts` | `sync_jobs.status`, `sync_jobs.attempts` of each message; "NONE": no row |
| `rejection` | `sync_errors.code`, the newest one of a REJECTED job |
| `cursor` | `integration_cursors.current_version` of the order's stream |
| `task` | what each worker has in hand: local variables of `OneCInboxProcessor.process` and the service it is about to call |
| `order` | the columns of `orders` and `stock_reservations` that the applier and the services compare a message with |
| `requeuing` | requests of `AdminOperationsService.retrySyncJob` between their read and their update |
| `faults`, `replays` | counters of the bounds |

| Actor | Actions | Code |
|---|---|---|
| 1C's request | `AcceptFirstCopy`, `RejectFirstCopy`, `ReconsiderRejected`, `ConflictingCopy` | the branches of `PrismaOneCInboxRepository.accept` that write |
| worker | `Claim` | the first transaction of `process`, with `hasEarlierPending` and the stale claims |
| | `Choose` | `ReservationOneCStatusApplier.apply` up to the call of a service |
| | `Apply`, `AnswerDuplicate`, `Refuse` | `confirmFromOneC`, `applyFromOneC` and `PaymentService.confirmFromOneC` |
| | `Record` | the update to APPLIED, or `recordFailure` with `retryDecision` |
| | `Crash`, `Falter` | the process dies or cannot record; a transient error before or after the commit |
| operator | `RetryJobRead`, `RetryJobWrite` | `retrySyncJob`, which does not lock the row it has checked |
| the rest | `RecordOrderExport`, `OthersMove`, `Expire` | the answer to the export, the table of moves, the expiry |

Where `OrderFulfilment` has the services in full and lets 1C's messages come in
any order, `OneCInbox` has the way a message takes and only as much of the order
as the services compare it with. Checks against other state (the clock, the
stock, the payment row) appear as `Refuse`, which is possible at any time. The
model is therefore wider than the code: what holds in it holds for every outcome
of those checks. That it is no wider than `OneCOrder` allows is
`ImplementsOrder`. The applier's reads of the order and of its reservations are
one step, the warehouse configuration is constant, a message that contradicts
the order's lines, or reports a status that the site does not take from 1C, is
of kind OTHER. `RECEIVED` exists in the code's lists and in the column's
default, but no code assigns it to a message of the inbox.

### Outbox and the code

| Variable | Code |
|---|---|
| `kind`, `row` | `outbox_events.event_type`; `status`, `attempts`, `available_at` has passed (`due`), `processing_owner` |
| `jobs` | the BullMQ queue of `QueueService` |
| `relay` | local variables of `OutboxRelayService.relayBatch`: the row claimed, and whether putting its job failed |
| `task` | what each worker slot has in hand: the row as `OutboxProcessorService.process` read it, the next call, the command it built, the error it caught |
| `taken` | which consumers have had their effect: 1C with its journal row, the expiry timer, the mail |
| `accepted` | the command that 1C stored under the idempotency key |
| `journal` | the outbound row of `sync_jobs` |
| `exported` | `orders.one_c_id` is set |
| `facts` | version of `stock_balances.source_version`, `orders.one_c_version` and the reservations |
| `replay` | what came of an administrator's last replay |
| `faults` | counter of the bound |

| Actor | Actions | Code |
|---|---|---|
| relay | `ExpireLeases`, `Claim`, `Enqueue`, `EnqueueFails`, `GiveBack` | the statements of `relayBatch` in their order |
| worker | `Start` | `process` up to the call of the handler |
| | `BuildExport`, `BuildCommand`, `Dispatch`, `Record` | the calls of `OneCCommandService.handle` |
| | `SetTimer`, `SendMail` | `scheduleReservationExpiry`, `OrderNotificationService.handle` |
| | `Publish`, `Falter`, `RecordFailure` | the end of `process`: published, or an error caught, classified and recorded |
| faults | `CrashRelay`, `CrashWorker`, `LoseJobs` | a process dies; the queue loses its newest writes |
| administrator | `RetryOutboxEvent` | `AdminOperationsService.retryOutboxEvent` |
| the rest | `BecomeDue`, `FactsMove` | time; imports and messages of 1C |

A statement on the row, a call of 1C, a transaction of the journal and a message
to the queue are steps of their own, because the code awaits each of them and
holds no lock over two. Every call may fail before or after its effect. A worker
does not look at the lease, so a row whose lease expired is delivered twice at
once; a lease may expire whenever a relay begins a batch, as no clock relates it
to the speed of a worker. `Update` has the database trigger of migration
20260718000440. 1C is modelled by its answer to a repeated key, as the mock
adapter keeps it. A mail is one step here; `OrderMails` has its log.
Job ids of BullMQ contain the lease and never repeat, so the queue is a sequence.
The errors that say that an event itself is malformed, or of a kind without a
consumer, are part of `Falter`: the code writes no such event.

### Shop and the code

| Variable | Code |
|---|---|
| `offer` | product and variant rows with their price, stock and limits |
| `carts`, `clock` | `carts` with `cart_items`; `updated_at`, which is the revision a page sends back |
| `session`, `cookie` | the browser's session and the cookie of its guest cart |
| `tab` | what the cart and checkout pages of a tab show and wait for |
| `attempt` | requests to `POST /orders` on their way or being handled |
| `orders`, `repeats` | orders with their idempotency keys; idempotency records of repeated orders |
| `asked` | counts what was put into carts, for `NothingFromNothing`; no code |

| Actor | Actions | Code |
|---|---|---|
| customer | `AddItem`, `UpdateItem`, `RemoveItem`, `ClearCart`, `LookAtCart` | `CartService` |
| | `Login`, `MergeCarts` | `CartService.merge` at login |
| | `RepeatOrder` | `RepeatOrderService.execute` |
| tab | `Submit`, `Resubmit`, `SubmitRefused`, `TimeOut` | `CheckoutForm` |
| API | `OpenCheckout`, `ReplayOrder`, `RefuseOrder`, `CreateOrder` | the steps of `OrdersService.create`: validation, then the transaction |
| the rest | `ChangeOffer` | imports, editors and other orders |

A form is one of a few contents that a customer may fill in; a form in `Dated`
has a pickup time that will have passed by the time a late request arrives, which
the API refuses (`Lapses`). `updated_at` ticks with every use of a cart: two
writes in one millisecond are left out.

### The components of MCSite and MCEdges

| Module | Variable | Code |
|---|---|---|
| `Accounts` | `account`, `session`, `link`, `guest` | `users`, `sessions`, the three tables of tokens, `orders.customer_id` |
| | `request` | what a request read before its transaction: the session's user, a checked password, the profile its page shows |
| `CatalogImport` | `fact`, `filed`, `balance`, `held` | projections with `one_c_source_version`, `product_categories`, `stock_balances`, `stock_reservations` |
| `SiteContent` | `kind`, `row`, `shown`, `today` | one row of any editable table, the last answer each page has of it |
| `CatalogSearch` | `goods`, `visit` | the catalogue as the query reads it; the query in the URL, the page and the counts of `CatalogService.products` |
| `ProofOfPayment` | `payment`, `key`, `document`, `attempt`, `submitted` | `payments` and the deadline of the order, `idempotency_records`, `payment_documents` with their objects, requests in hand, audit rows |
| `OneCTransport` | `call`, `sent`, `check`, `nonce`, `entered`, `taken`, `clock` | calls of `RestOneCAdapter`, requests on the wire, the two halves of `OneCSignatureGuard`, Redis, the key store of `MockOneCAdapter` |
| `OrderMails` | `event`, `wanted`, `letter`, `mailer`, `copies` | the outbox row, the checks before sending, the row of `email_logs`, workers, letters the server took |
| `OrderFeed` | `moment`, `row`, `walk` | outbox rows `order.created`, and the cursor of a client |
| `SearchBox` | `text`, `list`, `shown`, `active`, `busy`, `timer`, `flying` | the state of `SearchAutocomplete` |
| `DemoOrders` | `status`, `hold`, `paymentStatus`, `history`, `step`, `seen` | one demo order and where `seed()` is |

Every action bears the name of its handler or says in a comment what it stands
for; `PROJECT.json` has the lines. Transactions are one step, statements outside
of transactions are steps of their own, and a process may stop between two of
them (`Leaves`, `Die`, `Stop`, `GiveUp`, `Return`).

## 3. Properties

| Property | Question it answers |
|---|---|
| `StockConserved` | from one import to the next, is every unit of every variant accounted for in both columns? |
| `HoldMatchesStatus` | does a payable or paid order hold its stock until the deadline it shows? |
| `PaymentMatchesStatus` | can the order row and the payment row contradict each other? |
| `OutboxKeysStayBehind` | can an event be lost, or a transaction be aborted, by a used key? |
| `StaffDecideOnWhatTheySaw` | can a command act on something else than the page showed? |
| `DeadlineDecides` | is an order ever paid after its deadline, or expired before it? |
| `ImplementsOrder` | refinement: can a fact of 1C, early, late or repeated, reach an order in a state it does not fit, or anyone move the order away under a later one? |
| `ImplementsAllocation` | refinement: all lines or none, one hold per order, given back in full and once, never after the sale |
| `OnlyImportsBlockExpiry` | can an order that the sweep selects by one copy of the deadline be refused by another, and stand in front of others for ever, without an import to blame? |
| `OverdueIsSettled` | liveness: does an overdue order always stop being payable, unless balances that an import brought block it or one in front of it? |
| `CancelledHoldsNoStock` | what the architecture document says of cancellation; does not hold |

Of the inbox:

| Property | Question it answers |
|---|---|
| `AppliedIsTaken` | can a message be marked APPLIED that never had its effect? |
| `VerdictStands` | can a late worker undo APPLIED or revive a dead letter? |
| `ImplementsStream` | refinement: no hole among the accepted versions; the order takes them over in their order, each at most once, none before those accepted below it |
| `ImplementsOrder` | refinement: the same promise about the order as above, when what a worker chose to call was read before the call |
| `AcceptedIsSettled` | liveness: is every accepted message applied, unless it stands at or behind a dead letter? |
| `StaleClaimRecovers` | what a comment says of stale claims; does not hold |
| `AppliedIsNotRequeued` | what an error message says of requeuing; does not hold |

Of the outbox:

| Property | Question it answers |
|---|---|
| `AttemptsAreLimited` | is the number of failed deliveries limited, although each counts from what it once read? |
| `JournalIsTrue` | does the journal say what 1C stored, when deliveries build different commands? |
| `ImplementsDelivery` | refinement: published only when all consumers took the event, in their order; settled once and for good |
| `EveryEventIsSettled` | liveness: does every event end as published or as a dead letter, whatever is lost? |
| `RedeliveryIsNoConflict` | what the architecture document says of redelivery; does not hold |
| `ReplayIsQueued` | what the integration document says of replay; does not hold |

Each module has a type invariant too; theorems prove them, so no run checks
them. Four more properties are stated by a theorem only: `VersionNamesState`
(`orders.version` is a sufficient lock; `StaffDecideOnWhatTheySaw` is what it is
for), `OneCFactsMoveForward` (`ImplementsOrder` says more), `SettledStays` of the
outbox (`ImplementsDelivery`, and that attempts never fall) and
`HousekeepingIsInvisible` of the site's content.

Of carts and checkout:

| Property | Question it answers |
|---|---|
| `BuysWhatWasShown` | can an order contain anything, or cost anything, that its customer did not see when sending it (crossed-out prices aside that have been withdrawn)? |
| `RevisionIsOrderedOnce` | can retries, two keys or a lost answer order one state of a cart twice? |
| `NothingFromNothing` | can a merge, a repetition or a retry multiply goods? |
| `ReviewSettles` | can the answer to a checkout be a changed cart for ever? |
| `ImplementsBaskets` | refinement: orders and merges move whole carts, a merged cart stays empty, everything else touches one cart |

Of the site:

| Property | Question it answers |
|---|---|
| `OwnersProvedTheirAddress` | can an account get another person's guest orders while its address changes between two statements? |
| `PasswordReplacedKnowingly` | can a change of password overwrite a reset that came after the check? |
| `EditsAreInformed` | can the requests of two tabs undo each other's profile? |
| `BalancesFit` | can an import among reservations promise more than there is, or drive a balance below zero? |
| `VersionsSettleTheCatalog` | can a repeated or late batch take anything back? |
| `EditorsSawWhatTheyReplace` | can a row be overwritten that no page had been answered with as it is now? |
| `CountsComeTrue` | does choosing an option bring as many products as the number beside it says? |
| `PagesCoverTheResult` | does walking through the pages show every product once? |

Of the edges:

| Property | Question it answers |
|---|---|
| `OnlySlowGuardsReadmit` | can a signed request enter twice, with clocks that differ and a nonce that expires, unless the guard itself is slow? |
| `AnswersAreTrue` | can a retry be told a conflict, or a replay, because of its own earlier attempt? |
| `CopiesAreLimited` | how often may crashes and overlapping workers send one letter? |
| `WalksAreComplete` | can a walk through the feed miss an order that was there when it began? |
| `BoxAnswersTheText` | can the suggestions for an older text stay in the box; can one kind of hit crowd out another? |
| `ProofIsSubmittedOnce` | can retries, a lock that ran out or two keys submit a proof twice, or answer with another's result? |
| `DocumentsCanBeOpened` | can an upload that fails or dies take away the document of another attempt; can an invoice promise more time than there is? |
| `SeedingHeals` | does a run of the seeding tool repair what stopped runs left? |

## 4. Runs

| Run | Instance | Bounds | Shows |
|---|---|---|---|
| `one_order` | one order, two lines, one manager | time 0..2, 1C versions 1..3, payment versions 1..4 | the consistency of the rows, the action properties and the refinement of `OneCOrder` |
| `shared_stock` | three orders for two variants, stock for two of them, an import, one manager, sweeps of two | time 0..1, 1C 1..2, payment 1..2; one story at a time: two orders at the desk, one with a proof and imports, three that are overdue with imports | stock, its refinement, and liveness of the sweep |
| `cancel` | the same without imports and proofs | the same | the first finding of section 7 |
| `inbox` | four messages, two workers | one fault, one request to requeue, two attempts | safety, both refinements and liveness of the inbox |
| `inbox_stale` | three messages, one worker | one fault | the second finding |
| `inbox_requeue` | three messages, one worker | one fault, one request to requeue | the third finding |
| `outbox` | one event of four kinds, one relay, two workers | three attempts, one job waiting, one change of facts, one fault | safety, refinement and liveness of the outbox |
| `outbox_replay`, `outbox_redelivery` | one request for an extension, two workers | two attempts, two jobs, one change of facts, no fault | the fourth and the fifth finding |
| `shop` | one variant, one customer with a guest's cart, one tab with two requests on their way, two keys | two pieces asked for, three changes of carts, three offers (two prices, one of them with an old price, two stocks, taken off sale), two forms, one of which lapses | all of `Shop` |
| `site` | accounts: two users, two addresses, two passwords, two requests, three links, one session, versions 1..2; tabs: the profile of one customer, versions 1..3; import: two SKUs, two batches, two holds, a seeded database; content: two pages, three edits, two days; search: three products in five states of them, two filters at a time, pages of two | see instance | the properties of the site |
| `edges` | transport: one call, two contents, two nonces, two handlers, a second of two units, and either both nonces and time 0..2 or one nonce and time 0..4; mails: two workers, two attempts; feed: three orders, two moments, pages of one; box: five texts, twelve entries; proofs: two keys, a file, one document, two requests, three versions of the payment; demo: every target | see instance | the properties of the edges |

Why the bounds are enough. Orders interact through the stock and the sweep
only, so a few of them show every interaction; their quantities are chosen so that the
second order could take one of its lines and not the other, and the third competes
with it for that one. Three overdue orders are one more than a sweep takes, and
the import that brings fewer reserved units than are held blocks the first, the
second, both or neither, depending on who holds what; the third, of which it says
nothing, waits behind them. Time needs
a deadline that passes, one that is extended beyond it, and one that never
passes (`MaxTime + 1`). Three 1C versions allow a newer, an older and a repeated
message; four payment versions allow publication, a proof, a rejection and
another proof, or two proofs and a confirmation. In
`shared_stock` each behaviour is one of three stories that leave out different
actors, because all of them at once, with three orders, are too many states; the
sweep, the expiry job and time run in each, so fairness loses nothing. Proofs
matter to stock and sweep only in that an order under verification is swept too,
which one story has. One manager is enough for a stale page: the page stays loaded while
the manager's own commands, the customer, 1C and the worker change the order
(`StaffAreInformed` is proved for any number). The theorems of section 6 do not
depend on any bound.

The four messages of the inbox are a confirmation, an extension, a payment and a
rival that bears the version of the extension, so that every call of a service,
a gap, a stale version and a conflict happen. Two workers are enough for a
take-over, one fault for a crash at any point, and two attempts for a retry and a
last attempt. A take-over from a worker that is only slow counts as a fault; taking over from a dead one does not. There is one
stream: jobs of different orders share nothing but the worker's attention.

Events of the outbox share nothing but the queue, so one event in two deliveries
shows the races; two events of one order (its creation and a request) with two
attempts were checked once for safety, which needs several million states. The
four kinds differ in what the code tells apart: an export with its mail, a
command that is rebuilt and needs the export, a timer with its mail, and a mail
alone that is due later. Three attempts let deliveries that read 0 and 1 fail in
either order and leave one more. One fault and freely expiring leases already
put two deliveries of one row, one of them forgotten by everyone, side by side.

In `shop`, one variant is enough because lines of a cart do not depend on each
other and a cart moves as a whole; two requests on their way are an order and its
repetition, or two tabs. In `site` and `edges`, each behaviour is a story about
one component while the others rest in an initial state, because they share no
state: the instance has the sum of their states, not the product. Proofs and
invoices are two stories of `ProofOfPayment`, as they are rows of one table that
no statement relates. Names serve in several components, so that one symmetry
(of requests or handlers, of addresses, of passwords or keys) serves them all;
no run with symmetry checks liveness. The account story has one user who can
prove an address while another claims it, and three links, since a link of each
kind can then be on its way; the story of the tabs has one customer and three
versions of a profile, so that both tabs can save, the second of them what the
first has overtaken; in the story of the window one request comes as often and as
late as it likes, and a guard may take a second, or longer than a nonce is kept;
pages of two (the code's 24) show a full page, a last page and the end.

The outbox stops when its events are settled, a shop when everything has been
asked for, and the stories of `site` and `edges` when their links, edits or
documents are used up, so these runs disable the deadlock check; that the outbox
never stops earlier is `EveryEventIsSettled`. The other runs keep the
check. In `OrderFulfilment` managers can always open a page, so it
asks for nothing more than that; whether orders get stuck is the question of
`OverdueIsSettled`. Because the clock stops at `MaxTime`, an order that stands in
front of others in the sweep cannot be extended and fall due again for ever; the
code sets no limit to that, 1C does.

### Mutants

The operators named `Slip_...` describe plausible mistakes: one copy of the
deadline is written and the other forgotten, a version is not increased, a check
is left out or only one line is checked, half of the stock is returned, the
sweep selects orders it cannot expire, forgets those under verification, or stops
at the first that is refused; a
dead letter does not hold up its stream, a verdict is recorded whatever became
of the job, a duplicate is recognised by the status of the order alone, stale
claims are not taken over, statuses are those of the data-model document; a
retry is granted at the maximum or for ever, rows waiting for a retry are never claimed, a key decides
without a look at the command, an event is published after its first consumer; an edit
leaves the revision of a cart alone, a merge forgets a line, a nonce is kept for
the window only, an attempt is counted after its letter, a cursor has no id, a
filter counts itself. Each stands next to the definition it could replace. For every property there is one
under which TLC finds the property violated, so that a property which passes is
known to be able to fail.

## 5. Fairness

`FairSweeps` assumes that a sweep which can select something eventually does, and
that a sweep once started handles its candidates (`WF` on `SweepSelect` and on
`SweepExpire`). `WorkerRuntimeService.onModuleInit` sets an interval that calls
`runSweep`, the sweep awaits each expiry and catches its errors, so this is what
a running worker does. Nothing is assumed of managers, customers, 1C or the
expiry job: the job may be lost, and the property holds without it. Time is not
fair either; an overdue order is one whose deadline has come. Imports are neither fair nor
limited: they may block an expiry at any time, and undo that again.

In `OneCInbox`, `FairSpec` assumes of each worker that it takes a step whenever
it continuously can (`WF` on `Work(w)`): it polls on an interval
(`WorkerRuntimeService.onModuleInit`, `runInbox`) and carries on with what it
claimed. A worker may crash at any point, but only finitely often, which the
bound on faults says; nothing is assumed of 1C, the operator or anyone who
moves the order.

In `Outbox`, `FairSpec` assumes strong fairness of `Claim` and `ExpireLeases`
for each event and weak fairness of the rest of relays and workers. The relay
polls on an interval for ever, takes back all old leases first and claims rows in
the order in which they fell due; other deliveries may switch these steps off and
on again (hence strong), but a row that is due again and again is in some later
batch. BullMQ hands out jobs in order, every call of a worker has a timeout.
Crashes, lost jobs and failed calls of the queue are finitely many, by the bound;
failing consumers are not: the attempts limit them. Nothing is assumed of the
administrator. `EventDelivery` is a safety specification; that an event is settled
in the end is the property `EveryEventIsSettled` of `FairSpec`.

`Shop` and the components of `site` and `edges` state no fairness: customers,
editors, browsers and operators may stop at any time, and their properties are
about what was done.

## 6. Theorems

`OrderFulfilmentProofs` proves, for all sets of orders, variants and managers,
every stock, every import and every bound, from the four assumptions on the
constants
(`OrdersAssumption`: order ids are positive numbers and finitely many;
`StockAssumption`: quantities are natural and every order has a line;
`BatchesAssumption`: an import brings natural numbers for variants there are;
`BoundsAssumption`):

| Theorem | Statement |
|---|---|
| `TypeCorrect` | `Spec => []TypeOK` |
| `HoldSafe`, `PaymentSafe` | `Spec => []HoldMatchesStatus`, `Spec => []PaymentMatchesStatus` |
| `StockSafe` | `Spec => StockConserved` |
| `KeysSafe` | `Spec => []OutboxKeysStayBehind` |
| `VersionIsALock` | `Spec => VersionNamesState` |
| `OneCNeverGoesBack` | `Spec => OneCFactsMoveForward` |
| `StaffAreInformed` | `Spec => StaffDecideOnWhatTheySaw` |
| `DeadlineSafe` | `Spec => DeadlineDecides` |
| `SweepNeverStalls` | `Spec => OnlyImportsBlockExpiry` |
| `FulfilmentImplementsAllocation` | `Spec => ImplementsAllocation` |
| `FulfilmentImplementsOrder` | `Spec => ImplementsOrder` |

The argument. `TypeOK` is inductive alone: the only decrements are of `available`,
guarded by `EnoughStock`, and of `reserved`, guarded in `CanExpire`. `Coupling`
(`HoldMatchesStatus` and `PaymentMatchesStatus`) is inductive relative to it, and
needs both halves: that a paid order has a live hold follows from the check of
the reservation when it is paid, and that the check of the payment row is enough
follows from what an order without a reservation looks like. The rest builds on
these two:

- stock: `HeldUnits` counts units as pairs of an order and a number, so that the
  sums of the account are cardinalities, and the union that a confirmation adds
  and an expiry removes is a bijective image of `1..Qty[o][v]` (`NextAccounts`);
  the only invariant it needs is that these sets are finite (`HeldAreFinite`);
- versions: `StepOf` collects what one step does to one order; from it follow
  `VersionNamesState` and `OneCFactsMoveForward`, that keys stay behind
  (`KeyLimit` grows with the versions) and that a page is either of an older
  version or true (`PagesHonest`), which is what makes a command informed;
- time: a sweep's time is in the past (`SweepInPast`), so an expiry at that time
  hits an order that is overdue now; and what `Due` selects passes the checks of
  `expire`, because `HoldMatchesStatus` makes the copies of the deadline equal, as long
  as the balances cover what is held (`DueCanExpire`), and a step that accounts
  for its units keeps them covered (`AccountedCovers`), so that only an import
  ends that;
- refinement of `StockAllocation`: an order's stock is held, sold or released as a
  function of its reservation and its status, and each action maps to an abstract
  one or to a stutter; an import is the abstract `Restock`;
- refinement of `OneCOrder`: `KnownTo1C` adds that an order which never was
  reserved has taken nothing from 1C, although a version may come with any of
  1C's messages, and that an order which was is exported. A confirmation, an
  extension and a payment by 1C are then `Take` with `Reserve`, `Prolong` or
  `Pay`; that every other step is `SiteMoves`, `Expire` or a stutter needs
  `HoldMatchesStatus`, because a status that can only be reached with reserved
  goods is what says that they are still reserved.

`OneCInboxProofs` proves, for every set of messages, every number of workers and
every bound, from `MessagesAssumption` (versions and deadlines are positive) and
`LimitsAssumption` (the bounds are natural):

| Theorem | Statement |
|---|---|
| `InboxTypeCorrect` | `Spec => []TypeOK` |
| `AppliedSafe` | `Spec => []AppliedIsTaken` |
| `VerdictsAreFinal` | `Spec => VerdictStands` |
| `InboxImplementsStream` | `Spec => ImplementsStream` |
| `InboxImplementsOrder` | `Spec => ImplementsOrder` |

The argument. `AppliedIsTaken` is not inductive: a job is marked by a worker that
applied it earlier, and the mark may come after a take-over. `SuccessIsTaken`
says of such a worker that the order has its message's version already, and the
order's version only grows (`OrderStep`). For the refinement, `CursorIsLast`
makes what is accepted later come later in the stream; hence `HoldersAreNext`,
that the order has taken everything before a claimed message, true when the
claim is made because nothing pending is before it and what is APPLIED is taken,
stays true while the worker holds it, even when an operator's request puts an
applied predecessor back into the queue (`RequestsAreAccepted` says that such a
request touches only jobs of the stream). `ImplementsStream` then follows step by
step: storing is `Accept`, a service's commit is `Take`, all else stutters.

`InboxImplementsOrder` needs two more invariants. `OrderShape` is what the columns
of the order have in common with those of `OrderFulfilment`: an order waiting for
stock has taken nothing, one that may be paid or was paid has ACTIVE reservations.
`CallsAreKnown` says that a worker only calls a service for an order that is
exported; it was read before the call, and stays true because nobody takes the
1C id from an order. Everything else the worker read may be stale by then,
which is why the services compare again: the lemma `ApplyMovesOrder` shows that
what they compare is enough for `Reserve`, `Prolong` and `Pay`.

`OutboxProofs` proves, for all sets of events, relays and workers and every
bound, from `EventsAssumption` (the kinds written are kinds the code writes) and
`LimitsAssumption` (at least one attempt and room for a job):

| Theorem | Statement |
|---|---|
| `OutboxTypeCorrect` | `Spec => []TypeOK` |
| `AttemptsSafe` | `Spec => []AttemptsAreLimited` |
| `JournalSafe` | `Spec => []JournalIsTrue` |
| `SettledIsFinal` | `Spec => SettledStays` |
| `OutboxImplementsDelivery` | `Spec => ImplementsDelivery` |

The argument. The invariant `IInv` (lemmas `InitInv`, `NextInv`) says of each
delivery (`TaskInv`) that it read a row with attempts left, that the consumers
before its next step have taken the event (`Reached`), and that a command about
to be recorded is what 1C stored. `Reached` is what makes publishing sound: it
only mentions `taken`, which grows, so no other delivery can spoil it, and the
order of the consumers is the order in which `ToTimer` and `ToMail` extend it.
That a recorded command is 1C's stays true because 1C never replaces what it
stored (`EffectsGrow`). Attempts stay below the maximum as long as a row can be
delivered, because a retry is only granted below it, and the trigger keeps a
delivery that read fewer attempts from setting them back (`Moves`); the same
lemma gives `SettledStays`. The refinement then goes step by step: `Record`,
`SetTimer` and `SendMail` are `Take` or a stutter when the consumer has the event
already, `Publish` is `Deliver`, `RecordFailure` may be `Bury`, all else stutters.

`ShopProofs` proves, for all sets of variants, guests, tabs, attempts and keys,
every set of offers and every bound, from `NamesAssumption` (the names
for "none" and for the customer's cart are not values), `GuestsAssumption` (a
database holds finitely many carts) and `DataAssumption` (there is a form, offers
and quantities are what the catalogue can contain):

| Theorem | Statement |
|---|---|
| `ShopTypeCorrect` | `Spec => []TypeOK` |
| `CheckoutSafe` | `Spec => []BuysWhatWasShown` |
| `OrderedOnce` | `Spec => []RevisionIsOrderedOnce` |
| `ReviewTerminates` | `Spec => []ReviewSettles` |
| `NothingAppears` | `Spec => []NothingFromNothing` |
| `ShopImplementsBaskets` | `Spec => ImplementsBaskets` |

The argument. A cart's time names one state of one cart: each use of a cart takes
the time of its step and one step uses at most one cart (`Evolves`), so two open
carts share no time but 0 (`CartsInv`). Hence what a tab displays, or a request
carries, agrees with every cart that still has its time (`Agrees`, kept by every
step that evolves the carts): they are the same but for old prices that the cart
no longer has, because a validation displays a withdrawn old price once more while
it takes it from the row. This is why comparing times in
`createInTransaction` is enough for `BuysWhatWasShown`. An order's cart has
a later time from then on (`OrdersInv`), so no second order has it, under any
key. `ReviewSettles` holds because carts stay clean (a line without pieces holds
nothing), and what `Review` leaves of a line passes `Review` unchanged. For the
refinement, an abstract basket is the number of pieces per variant; an order and
a merge take all of a cart, edits, validations and repetitions change one basket,
and everything that only concerns tabs or requests stutters.

`NothingAppears` counts: `GoodsInv` adds that there are finitely many orders. A
step that changes one cart changes the sum over all carts by what that cart
gained (`OneCartChanges`), and an edit, a validation or a repetition gains no more
than `asked` grows (`OneCartGrows`); a merge changes two carts by opposite
amounts, and an order adds to the sum over the orders what its cart loses
(`OneOrderMore`).

`SumTheorems` is what these sums rest on, and those of the import. The library
computes a sum element by element in an order that `CHOOSE` picks, and its
induction theorems are out of the prover's reach here. The lemmas are therefore
proved by the smallest counterexample: if the sums were wrong for some subset,
there would be one of least size, and taking an element out of it gives a smaller
one. They say that the sums exist (`TalliesExist`), do not depend on the order
(`SumOfOneAndRest`), and change by what one element changes (`SumOfOneChanged`).

`AccountsProofs` proves, for all sets of users, addresses, passwords, requests,
links and sessions, from the four assumptions of `Accounts` (names for "none" are
not values, there is a profile, users and links are numbers):

| Theorem | Statement |
|---|---|
| `AccountsTypeCorrect` | `AccountsSpec => []AccountsTypeOK` |
| `OwnersProved` | `AccountsSpec => []OwnersProvedTheirAddress` |
| `PasswordsReplacedKnowingly` | `AccountsSpec => PasswordReplacedKnowingly` |
| `EditsInformed` | `AccountsSpec => EditsAreInformed` |

The argument. `AccountsInv` says where an address in a request or a link comes
from: a link that verifies went to the address of its account, or the account is
verified already (`LinkOK`), although it may have been asked for before the
address moved; what a login is about to link was proved (`RequestOK`). A page
knows no version that does not exist yet, and a version names one profile and
address; the check of the version is then enough for `EditsAreInformed`. A reset
leaves the version alone, so `PasswordReplacedKnowingly` rests on the comparison
of the password itself.

`CatalogueProofs` has three components. It assumes of the constants that batches
are what the adapter sends, that a filled catalogue is finite and that page sizes
are positive (the assumptions named in the three modules):

| Theorem | Statement |
|---|---|
| `CatalogTypeCorrect` | `CatalogSpec => []CatalogTypeOK` |
| `BalancesSafe` | `CatalogSpec => []BalancesFit` |
| `VersionsSettle` | `CatalogSpec => VersionsSettleTheCatalog` |
| `ContentTypeCorrect` | `ContentSpec => []ContentTypeOK` |
| `EditorsSee` | `ContentSpec => EditorsSawWhatTheyReplace` |
| `HousekeepingUnseen` | `ContentSpec => HousekeepingIsInvisible` |
| `SearchTypeCorrect` | `SearchSpec => []SearchTypeOK` |
| `PagesCover` | `SearchSpec => []PagesCoverTheResult` |
| `CountsTrue` | `SearchSpec => []CountsComeTrue` |

The argument. Import: `CatalogInv` says that nothing of a product is known before
the product is (`KnownAsAWhole`), so that the first batch is news for all parts of
it, and that only finitely many holds have been made (`HoldsMade`, a consequence
of the steps and no assumption), so that the sum of the active ones moves by one
hold at a time (`ReservedMoves`). Content: a page that has read a row knows no
later version than there is, and of the current version it knows the row
(`ViewOK`); preferences are never deleted, without which their version would
start again. Search: in an ordered finite set every rank is taken once (`Ranks`),
so pages are intervals of ranks with the expected sizes (`PagesOfRanks`,
`PageCounts`). While the catalogue rests, the pages walked are the products of
lower ranks (`WalkOK`). A count is of the products that every *other* filter lets
through (`Scope`), so an option that is added joins a set of the same scope
(`WideningAdds`); options of which a product has one at most are disjoint
(`OptionsExclude`), for them the numbers add up.

`EdgesProofs` has six components, each with the assumptions its module names
(bounds are numbers, names for "none" are not values; `MailersAssumption`: workers
are finitely many; `TransportTimesAssumption`: a second is longer than nothing;
`BoxAssumption`: an answer has room for one hit of each of the
five kinds; the code's limit is seven):

| Theorem | Statement |
|---|---|
| `RequestsSafe`, `AnswersSafe` | `TransportSpec => OnlySlowGuardsReadmit`, `[]AnswersAreTrue` |
| `ProofSubmittedOnce`, `DocumentsSafe` | `ProofSpec => []ProofIsSubmittedOnce`, `[]DocumentsCanBeOpened` |
| `CopiesLimited` | `MailSpec => []CopiesAreLimited` |
| `WalksComplete` | `FeedSpec => []WalksAreComplete` |
| `BoxSafe` | `BoxSpec => []BoxAnswersTheText` |
| `SeedingIsSafe` | `DemoSpec => []SeedingHeals` |
| `TransportTypeCorrect` ... `DemoTypeCorrect` | the type invariant of each |

The arguments.

- Transport: a request was in its window when its handler read the clock
  (`CheckInv`), however long ago that is, and a nonce with which a request entered
  outlives the last moment at which the window accepts it by a second
  (`RequestInv`; rounding up to whole seconds only adds to that,
  `SecondsAreEnough`). A handler that finds the claim over has therefore spent
  that second since it read its clock. Two handlers hold one request only as an
  original and its copies (`FirstIsAlone`); an original that is refused as a
  replay was so slow that its own claim would have been over, and no copy of it
  is let in later (`AnswerInv`).
- Proofs: each stage of a request says what the record of its key, its document
  and the version of the payment look like (`AttemptOK`). No two requests work on
  one upload (`OwnersDiffer`), which is why a clean-up takes away nothing that
  another request relies on. An accepted proof completed its key at an
  earlier version of the payment (`SubmissionOK`), hence one proof for each key and
  each version (`OneProofEach`), whoever took a record over.
- Mails: `copies` plus the workers about to send are at most the attempts counted,
  and the workers about to count read the row while an attempt was left; both are
  cardinalities of sets of workers.
- Feed: a row that was there when the walk began was given or comes after the
  cursor (`Covered`); a page is the `Limit` least rows, so what it leaves out comes
  after its last one.
- Search box: a request is under way for the text in the box only, because a new
  text gives up the old request. What an answer holds is a fold over the hits of
  the kinds in turn, the first of each kind, then the second, with duplicates left
  out up to the limit. The lemmas on it come from one about functions that are
  defined by recursion over an index (`RecursionExists`, the rule being a function
  and not an operator) and one about smallest counterexamples (`IndexInduction`):
  the joined rows have the elements of the rows (`FlattenSeqJoins`), the best hits
  stand in front of all others (`FirstComesFirst`), at most five of them, and what
  stands among the first `AnswerLimit` is taken or is in the answer already
  (`WhatComesFirstIsTaken`). So the best hit of every kind is in the answer
  (`BestHitsAreListed`). With fewer than five places it would be false, hence the
  assumption.
- Demo data: `RunOK` says what a run has done by the time it is at a statement, or
  found done by an earlier run; `RowsOK` what the rows may say whatever was
  stopped and whatever expired.

The invariants `TransportInv`, `ProofInv`, `MailInv`, `FeedInv`, `BoxInv`,
`DemoInv`, `AccountsInv`, `CatalogInv`, `ContentInv` and `SearchInv` were checked
by TLC on the instances of `edges` and `site` before they were proved.

Only model-checked: `OverdueIsSettled`, `AcceptedIsSettled` and
`EveryEventIsSettled`, because liveness under fairness is out of the prover's
reach. Every invariant and every action property or refinement that a passing run
checks is also stated by a theorem. The properties of the runs that show findings
are false and have no theorem.

## 7. Findings

`docs/architecture.md:94` says that cancellation and expiry release the
reservation atomically and that the sweeper keeps a missed job from leaving an
eternal reservation. `AdminOperationsService.cancel`
(`api/admin/admin-operations.service.ts:318`) changes the status and nothing
else. The reservation rows stay ACTIVE and the units stay reserved;
`ReservationService.release` has no caller, `expire` refuses a cancelled order
and the sweeper does not select it. The run `cancel` shows it: 1C answers the
export, confirms the stock, a manager opens the order and cancels it.
`StockConserved` holds all the same: the units are accounted for, they are only
never free again.

`api/one-c/inbox/one-c-inbox.processor.ts:51` says that a stale PROCESSING claim
is recoverable. If the worker dies after the service's commit and before it
records APPLIED, the worker that reclaims the message finds ACTIVE reservations
with the message's own deadline, and the applier
(`api/one-c/inbox/one-c-status-applier.ts:119`) refuses it for good with
`ONE_C_RESERVATION_EXTENSION_INVALID`. The job is a dead letter, all later
messages of the order wait behind it, and requeuing ends in the same refusal,
until the reservation ends. Both services have a branch for duplicates, which
the applier does not let such a message reach. The run `inbox_stale` shows apply,
crash, reclaim, dead letter. The same happens when only the answer to the commit
is lost.

`AdminOperationsService.retrySyncJob` (`api/admin/admin-operations.service.ts:690`)
refuses a job that is neither dead nor waiting for a retry: it cannot safely be
repeated by hand (line 699). It reads the row without a lock and updates it by
id, so a worker may apply the job in between; the run `inbox_requeue` ends with
an APPLIED job back in the queue. `AppliedIsTaken` and `ImplementsStream` hold in
spite of both findings: nothing is applied twice or out of order.

`AdminOperationsService.retryOutboxEvent` (`api/admin/admin-operations.service.ts:751`)
sets a row in DLQ to PENDING, and only such a row. The trigger of migration
20260718000440 raises for every update of a row in DLQ. The transaction is rolled
back with its audit record, so the replay that `docs/one-c-integration.md:363`
and `docs/deployment.md:45` describe never takes place; the run `outbox_replay`
shows one. `SettledStays` holds for the same reason.

`docs/architecture.md:115` calls delivery at-least-once and consumers idempotent.
The consumer for 1C is not, for two kinds of events: a redelivered command is
built anew (`api/one-c/one-c-command.service.ts:203` and `324`) under the old
idempotency key. When an import has changed the stock versions, or a message of
1C the order's 1C version and its reservations (1C's own reply to a request for
an extension does), 1C or the journal refuses it for good. The event ends as a dead letter
although all its consumers took it. The run `outbox_redelivery` shows dispatch,
record, a lost answer, a change of facts, and the conflict of the redelivery.
Nothing worse follows: `JournalIsTrue` holds.

## 8. What is not modelled, and the plan

Components without a module: the audit log, roles, health and configuration
(append-only or constant), shared packages and infrastructure. Constraints and
triggers of the database are modelled where they refuse a write.

What the modelled components leave out, and what was seen while modelling that
no property states, because no document of the repository says otherwise:

- Order pages: notes, lists and reports. Lists sorted by status or total have no
  second key, so their pages may overlap. What becomes of an order whose request
  to 1C ended as a dead letter: a composition of `OrderFulfilment` with `Outbox`
  would tell; each alone shows that neither asking again nor a replay helps.
- `Outbox`: an answer of 1C that is no receipt is a permanent failure although 1C
  has the command. `OneCTransport` has this step (`Garbled`); in `Outbox` a
  permanent failure comes before the effect of a dispatch.
- `Shop`: when the catalogue withdraws an old price, the validation that takes it
  from the row still displays it, with its discount, under the new revision
  (`cart.service.ts:387` and `:395`); an order sent from that page has the same
  prices and quantities, but not the old price and the discount that were shown.
  `BuysWhatWasShown` allows this and no other difference, and the run reaches it.
  Carts do not expire; `CheckoutForm.submit` returns early when the cart
  is gone and leaves its button off (`checkout-form.tsx:235`); the alternatives
  that a repetition offers.
- `OneCInbox`: `AcceptedIsSettled` counts what waits behind a dead letter as
  settled. It says nothing of how messages become dead letters that need not be: a
  report of a payment that a manager already acted on
  (`payment.service.ts:564`), or one that overtakes the answer to the export
  (`one-c-status-applier.ts:59`); `PROJECT.json` lists both as hazards without a
  property.
- `SiteContent`: `EditorsSawWhatTheyReplace` asks that some page had been answered
  with the row that is replaced, not that the editor at it looked.
- `Accounts`: the lock after failed logins, rate limits, favourites.
- `CatalogImport`: an import of version 2 may set `reserved` below what local
  orders hold, as `docs/data-ownership.md:23` intends; their return is then
  refused (`reservation.service.ts:468`) and they stay ACTIVE. In `OrderFulfilment`
  such an order stays overdue and selected by every sweep, until an import, 1C or
  a manager changes that; `SweepLimit` of them (100) keep all later orders out.
  `OverdueIsSettled` makes exactly this exception, `OnlyImportsBlockExpiry` says
  that it has no other cause. On a seeded
  database the first batch of the mock always conflicts. Running `seed.ts` again
  overwrites balances as well; the model has it as the initial state only.
- `SiteContent`: what the fields of an editor's page show. `CatalogWorkspace`
  keeps drafts of images and relations over its own save, shows the former
  product while the next one loads, and leaves typed text in uncontrolled
  fields; what is saved may therefore be an edit of something older than the
  answer the version comes from. Commercial fields and targets of promotions.
- `CatalogSearch`: the number beside "sale" counts any reduced variant and the
  filter looks at the cheapest, so it is an upper bound; of several cheapest rows
  the database takes one (`LIMIT 1`, `catalog.service.ts:271`), which the model
  leaves open but takes to be the same one in every statement; a page beyond the last
  one reports a total of 0; two rows of an attribute with one value and two
  labels would be counted apart. Recommendations, the page of a product, the tree
  of categories.
- `SearchBox`: old suggestions stay while the timer runs; transliteration and the
  matching of texts are constants.
- `ProofOfPayment`: a crash between the row of a document and its end leaves a
  PENDING row, after which the same file cannot be sent, or an invoice made, for
  this payment. So does every failed upload of a proof, because the update to
  FAILED sets `scan_status` FAILED without a time of the scan
  (`payment-document.service.ts:189`), which the constraint
  `payment_documents_scan_lifecycle` refuses. An invoice keeps the deadline it was
  rendered with, also after an extension. A commit whose answer is lost is left
  out.
- `OneCTransport`: the store of idempotency keys is the mock's; real 1C is
  external. The guard works out the end of its claim from the time it read before
  it awaited the key and Redis (`one-c-signature.guard.ts:85`, `:123`), and the
  nonce outlives the window by one second (`one-c.module.ts:50`), while a command
  of Redis may take three (`redis.service.ts:17`). A copy that arrives at the end of
  the window and whose guard takes a second or longer may be let in although the
  original was; the run reaches this, and `OnlySlowGuardsReadmit` says that
  nothing else does it. The commands behind the guard are idempotent
  (`AnswersAreTrue`). Pulling from 1C has no caller.
- `OrderMails`: once the transport has failed, the constraint
  `email_logs_lifecycle` refuses the next SENDING while `next_retry_at` is set
  (`order-notification.service.ts:109`), and the letter is never sent. A crash in
  SENDING sends it twice. What a letter says and templates.
- `OrderFeed`: a client that keeps its last cursor misses an order whose
  transaction commits later with an earlier `created_at`; the property is about
  a walk from the top. Dead letters are hidden for ever.
- `DemoOrders`: a partial history is never completed; a demo order that is
  half-made when its deadline passes makes later runs fail at a trigger; the
  holds are not counted in `stock_balances.reserved`.

What is left: the composition of the requests of `OrderFulfilment` with `Outbox`,
with which one could state what becomes of a request whose delivery is dead; an
abstract payment that `OrderFulfilment` and `ProofOfPayment` both implement, as
`OneCOrder` is for the order; carts that expire.
