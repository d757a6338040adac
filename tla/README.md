# Vendorya backend: specifications

A TLA+ development of the Vendorya backend (`src/`): a multi-tenant retail
service written with Django and PostgreSQL. The specifications say what the
code does when several requests, jobs and crashes meet; TLC checks them on
small instances, and TLAPS proves the most important results for every value of
the constants.

## The system

A request is one HTTP call served by one worker thread. There is no global
transaction (`ATOMIC_REQUESTS` is not set): each statement commits by itself
unless the code opens `transaction.atomic()`. PostgreSQL runs at READ COMMITTED,
so a request sees what others committed between its own statements. A row is
usually read into an object, changed in memory and saved with *all* its
columns. The few pessimistic locks are `select_for_update` on
`InvoiceSequence`, `StockLevel`, `StockBatch` and `StorageStock`. Management
commands (the billing cycle, the service notifier, purges) are processes of
their own that touch the same tables.

So the hard behaviours are these: two requests interleaving between a read and
a save; a check made before a lock or without one; a crash between two commits
of one request; row locks taken in opposite orders; a job run twice or killed
half-way; and long sequences of legal calls (create posted, edit, void, restore,
switch a setting) that no test walks through.

| Component | State | Operations | Meets the others through | Correct when |
| --- | --- | --- | --- | --- |
| Sales (`finance/`) | `SalesInvoice`, its lines and payments, `InvoiceSequence` | create, checkout, void, pay, PATCH, delete, restore | `StockLevel` rows, batches, quotas | numbers unique and gapless; stock of an invoice moves once, whole, and back at most as much; what is paid is the sum of the payments; no oversell when forbidden |
| Refunds | `RefundInvoice`, `RefundItem` | create, PATCH, delete, restore | stock, the lines of the invoice refunded, store credit | no step takes them above what is on the sale's lines; numbers unique |
| Purchases | `PurchaseInvoice`, its lines and staged lines, `PurchaseSequence`, `SupplierPayment` | create, PATCH, receive, delete, restore, pay | stock, batches | received once, and the goods of the lines; what is owed is the cost of the lines |
| Work shifts | `WorkShift` | open, close | sums payments of its window | one open shift per cashier |
| Expenses, suppliers | rows of their own | editing | purchases | |
| Stock (`inventory/`) | `StockLevel`, `StockBatch`, `SaleBatchConsumption` | sale, void, purchase, refund, adjustment, transfer | everything that sells or buys | batches add up to totals; earliest expiry first; transfers conserve |
| Storage | `StorageLocation`, `StorageStock`, movements | move, retrieve, write off, trash | `StockLevel`, adjustments | goods conserved; oldest layer first; operations look atomic |
| Catalogue | categories, products, variants, attributes | editing, moving, purging, merging, import and export | stock, sales lines, the index | the tree has no cycle and bounded depth |
| Search | documents in an external index | signals on save and delete, reindex | catalogue | a product has the document its row calls for |
| Billing (`billing/`) | `Subscription`, `BillingInvoice`, `BillingSettings` | issue, mark paid, void, PATCH; the nightly cycle | `Store.is_active`, notifications | numbers unique; announced once to a store; a payment stands; suspension only beyond grace; cycle idempotent |
| Quotas and other limits | counts of rows | count, then insert | creation of rows everywhere | over a limit only by what raced |
| Services | `Service` | create, edit, done, cancel, archive, return, bell; ETA notifier | creates sales invoices, notifications | billed once; announced once |
| Notifications | `Notification` | send, read, purge | everyone | at most once where promised |
| Flags (profiles, presets, main branch) | a boolean that one row of a place may carry | set, move, delete | | one carrier |
| V-Pilot (`admin_ai/`) | profiles, conversations, knowledge base, model catalogue | chat, upload, refresh | external model; tools over the other tables | a turn that acted is recorded; it stays in its store |
| Users and sessions | accounts, refresh tokens | login, rotate, logout, force-logout, 2FA | every request | a revoked session ends |
| Tenancy, public API | thread-local request and store, keys | scoping of queries | every query | a tenant's request sees one store; sudo others only where it asks |
| Isolation audit | none of its own; fabricates stores and rolls back | run over fabricated or live stores | the scoping it audits | a door that forgot to filter is reported |
| Reports, media, admin pages, project files | none of their own | reads, image conversion, row edits | | |

`PROJECT.json` lists every component with its sources and status, every hazard
with the line where it bites, and for each definition the source lines it
models.

## Modules

| Module | Models | Uses |
| --- | --- | --- |
| `Sales` | the life of a sales invoice and the stock it moves, under concurrent requests | |
| `Layers` | consumption of ordered cost layers, as functions | |
| `Shelves` | what storage promises, every operation at once (the abstract specification) | `Layers` |
| `Storage` | `storage_service.py` and adjustments, lock by lock | `Layers`, instance of `Shelves` |
| `StockBatches` | dated batches against the cached total | `Layers` |
| `Billing` | platform invoices, subscriptions and the billing cycle | |
| `Workers` | the slots that serve requests, for the modules below | |
| `StockLevels` | the stock of a branch as documents see it | `Workers` |
| `Refunds` | returns, and the sales they are capped by | `StockLevels` |
| `Purchasing` | purchases, their lines, staging and receiving | `StockLevels` |
| `Services` | service orders and their notifier | `Workers` |
| `BackOffice` | the composition of the three: same workers, same stock | `Refunds`, `Purchasing`, `Services` |
| `Limits` | every check that counts and then inserts | `Workers` |
| `Flags` | every flag that one row may carry | `Workers` |
| `Sessions` | login, refresh tokens, kill switches, second factor | `Workers` |
| `Tenancy` | the tenant of a request and the scope of its queries | `Workers` |
| `Tools` | what each of the assistant's tools finds and writes | |
| `Assistant` | a streamed turn of a conversation, knowledge chunks, the model catalogue | `Tenancy`, `Tools` |
| `Audit` | the isolation audit, itself a request of the platform | `Tenancy` |
| `Categories` | the category tree and every way to write it | `Workers` |
| `SearchIndex` | products, their documents, and what fails between | `Workers` |
| `Platform` | one behaviour plays one of the seven components above | all of those |
| `Sums` | lemmas on sums over finite sets and on layers | `Layers`, `FiniteSetTheorems`, `TLAPS` |
| `SalesProofs`, `StorageProofs`, `StockBatchesProofs`, `BillingProofs`, `BackOfficeProofs` | the theorems | the module they name, `Sums` or `TLAPS` |
| `TenancyProofs`, `PlatformProofs` | the theorems about `Assistant` and `Audit`, and about the rest of `Platform` and the whole | `Assistant`, `Audit`, `Platform`, `Sums` |
| `MCSales`, `MCStorage`, `MCStockBatches`, `MCBilling`, `MCBackOffice`, `MCPlatform` | values of the constants for TLC | |

Definitions keep the source's names where they can. Those headed "Mutant" are
variants of a definition with a plausible bug: replacing the definition by its
variant makes TLC find the property named in `PROJECT.json` violated, which is how
each property is known to depend on the code. No specification uses them.

### Sales

`row`, `items`, `seq`, `stock` and `payments` are the committed tables. Each
worker slot `r` has a program counter `pc[r]`, the request `job[r]`, the
in-memory invoice `copy[r]` and its uncommitted work (`seen`, `moved`, `fresh`).

* `BeginCreate`, `BeginCheckout`, `BeginVoid`, `BeginPay`, `BeginPatch`,
  `BeginDestroy`, `BeginRestore`: the handler reads the invoice and passes its
  early returns.
* `CheckLine`, `Shortage`: the loop of `checkout` that locks each stock row and
  compares, one line a step.
* `InsertPayment`, `SumPayments`: `Payment.save`, in autocommit, of any of `Amounts`:
  nothing in the model or the serializer asks that an amount be positive.
* `Number`: `SalesInvoice.save` takes the `InvoiceSequence` row.
* `ReadOld`, `MoveOut`, `MoveBack`, `LineGone`, `Release`: the `pre_save`
  receiver `handle_sale_stock`, which reads the committed row again, compares it
  with the copy and moves the stock, one line a step. `Release` is the end of its
  own atomic block when no outer one is open (void).
* `Update`, `Commit`: the UPDATE of all columns, outside or inside a transaction.
* `Fail` (any exception, refusal or crash) and `BreakDeadlock` (PostgreSQL
  cancels one of a cycle of waits).

`issued`, `ledger`, `sold`, `returned`, `reopened`, `late` and `astray` are history
variables: what the others become never depends on them. A request is `late` when another
changed a payment or a paid amount since it read the invoice, and an invoice `astray` when
a late request saved it, or a payer failed between its two statements.

### Storage, Shelves, Layers

A request to draw reads the list of layers (`Find`), waits for all of their row
locks (`LockLayers`), locks the level row (`LockLevel`) and commits (`Commit`).
The layer locks are one step: the query orders them by `moved_in_at`, so two
draws never wait for each other, and a wait for several locks has no effect
others see. The refinement mapping is the identity on the tables
(`onHand <- level`, `shelf <- layers`): every step but `Commit` is a stutter of
`Shelves`. `Shelves!Retrieve` takes from *some* of the layers, because a query
may miss a layer committed after it ran.

### StockBatches

Everything that locks the `StockLevel` row before it reads is one step, enabled
when the row is free. The void view and the transfer do not, and take several:
`BeginVoid`, `ReadOld`, `Move`, `WriteVoid`; `TransferOut`, `TransferIn`. Lots
are numbered in the order in which they are drawn, the undated lot last. `strayed`
records the branches where something moved the total and the batches apart
(a transfer, a sale voided twice, never deducted or edited after it was posted,
or anything done while tracking was off); `InStep` is about the others.

### Billing

Requests of the platform administrator and runs of `run_billing_cycle`, one
SQL statement a step. A PATCH may send a status, a due date and another store, all of
which the serializer leaves writable; announcements are counted per invoice and store, as
the receiver looks for them. A run walks `Trials`, `Mark`, `Owing`, `Unflagged`,
`Mark`, `PastDue`, and for each store found `Spare` or `Condemn` and `Suspend`.
`anchors`, `patched`, `overtaken`, `quiet` and `settled` are history variables.
Overwritten rows are within the model: a second number for an invoice issued
twice, a stale `Void` of a paid invoice, a subscription edit undone by `Mark`.
`overtaken` marks the requests whose invoice another request has saved or
announced since they read it. The properties that speak of races name them by it:
only an overtaken request announces again (`AnnouncedAgainByRacers`) or takes
PAID back (`PaidStaysPaid`).

### Workers

In the modules from here on a request is a record in the slot of its worker. Its
field `at` names the statement it is about to run; its other fields are what it
was sent and the rows it read. `Begin`, `Proceed`, `Answer` and `Crash` are all
that happens to a slot, and a request may crash between any two statements
wherever no transaction is open.

### BackOffice: Refunds, Purchasing, Services

* `Refunds`: a creation is `BeginRefund` (the cap per variant, read without a
  lock), `LockRefunds` (`select_for_update` on the refunds the query found),
  `TakeNumber`, and `CommitRefund` with the lines and the stock. PATCH, DELETE and the
  trash of the platform are `ReadRefund` or `RestoreRefund`, and `SaveRefund`. `EditSale`
  is the PATCH that replaces the lines (`sold`) of the posted sale, refunded or not.
  `loose` records the invoices that had overlapping requests, a refund moved to
  them, or a refund given back by the trash.
* `Purchasing`: every save begins with `CompareOld`, the `pre_save` receiver that
  reads the committed row. Receiving then commits the stock (`AddGoods`) before the
  row (`SavePurchase`); PATCH commits everything at once (`ReplaceLines`,
  `KeepLines`) or is rolled back (`RefuseLines`). `jostled` records the purchases
  with overlapping requests, a death between stock and row, or a status set by hand.
  `brought` is what entered the stock, and `late` the purchases whose staged lines became
  lines by, or after, the request that received them: a PATCH that sends RECEIVED and the
  first supplier adds the goods of the old lines and then takes in the staged ones.
* `Services`: each view reads a row and saves it; `Bill` creates and posts the
  sales invoice of a service that is done. The status is writable by POST and PATCH, and a
  DONE that is sent bills nothing (`byhand`). The notifier lists what is due, tells,
  and flags, row by row (`ListDue`, `TellService`, `FlagService`). `undone` and
  `unsteady` record what excuses a second bill or a second bell.

### Platform

Seven components that share the workers and nothing else, so that a step of one
can neither enable nor disturb a step of another. A behaviour plays one of them
(`scene`), and the state spaces add up and do not multiply.

* `Limits`: `CountUsage`, and a later `Insert`. Resources are the quotas of a plan,
  open shifts, favourites, profiles and customer credit; the constants say which
  are monthly, may come back, or have uncounted ways in. `crowd` and `extra` count
  what may have raced and what came in uncounted.
* `Flags`: active profile, default preset and main branch, each kept by one
  statement that clears and one that saves. `muddled` records the places touched
  by overlapping requests or by a save that asks nothing.
* `Sessions`: `PassPassword` issues the refresh token *before* the suspended store,
  the address and the second factor are looked at, as the code does; `Refresh`,
  `BlacklistOld`, `IssueNext` are a rotation; `ListTokens`, `BlacklistListed` a kill
  switch. A token remembers the login it descends from (`root`). `kicked` and
  `raced` are history variables.
* `Tenancy`: `Arrive` notes the request in the thread, `ByToken`, `ByKey` or
  `ByNobody` its store, `Query` is scoped by `CurrentStore`, and `Respond` forgets.
  A query is the set of stores whose rows it may return. `QueryAcross` is a view of sudo
  that asks `all_objects`, for one store or all, whatever store sudo acts in.
* `Assistant`: a turn stores its question (`OpenTurn`), streams hop after hop after
  the middleware forgot its request (`EndStream`, `AskForTools`, `CallTool`,
  `FinishCall`), and stores the answer with the calls (`StoreTurn`); `CutOff` is a
  client that leaves. Its tools are bound to a store as `Tools` says of each: to the
  acting one, to one that is named, to that of the row they are sent the id of
  (`update_branch` finds any store's branch, for the request that would restrict the
  manager is forgotten by then), or to none (`list_stores`, `list_subscriptions`, the
  activity log). Tools that filter by the acting store themselves read no other, whatever
  their managers would let through; checks that a name is free on the platform are not
  counted as reads of its rows.
* `Audit`: doors that filter, raise or forget; `AuditFabricated` asks each as the
  owner of an empty store, in the thread, and so the scope, of the request itself.
* `Categories`: `CheckCategory` is `Category.clean`, `SaveCategory` the write;
  `MoveContentsUp` and the purge update rows without it. `overtaken` records a write
  between another request's check and its save; a removal that moves the contents up
  counts from the moment it read the parent, since it saves the children under it.
  `Up[n][c]` is a function of the number of steps and then of the category, so that a
  climb can be reasoned about step by step.
* `SearchIndex`: a signal sends the document built from the instance that was saved,
  inside the transaction (`SaveInside`, `CommitProducts`) or after the save
  (`SaveAlone`, `TellIndex`); `CallIndex` may fail and be swallowed. `PurgeProducts`,
  `RenameValue`, `MoveVariant` and `RenameKey` change what is indexed and send nothing.
  A rebuild drops the collection, creates it, and imports batch by batch what one query
  found, some documents of which may be refused (`BuildBatch`, `ImportBatch`). `strayed`
  records the products whose document is known to be wrong, and why is in the
  actions that add to it.

## Runs

| Run | Shows | Bounds |
| --- | --- | --- |
| `sales` | type, safety, action and liveness properties of `Sales` | 2 workers, 3 requests, 2 invoices (one starts as a draft), payments of 1 and -1, 2 variants in opposite cart orders, one replacement of the lines |
| `sales_void` | finding: voiding an invoice that was posted at creation adds stock | same, negative stock allowed |
| `sales_split` | finding: two lines of one variant oversell | one cart `<<v1, v1>>`, one unit on hand |
| `storage` | conservation, first-in first-out, refinement of `Shelves`, termination | 2 workers, 4 operations, 2 branches (one oversold at the start), quantities 1 and 2 |
| `batches` | totals and batches in step, lots accounted, earliest expiry first, termination | 2 workers, 4 operations, 2 branches, a dated and an undated lot, 1 sale |
| `batches_sum` | finding: a transfer moves totals and no batches | same, no sale |
| `transfer_lost` | finding: a transfer overwrites the destination's total | same as `batches` |
| `billing` | numbering, announcements, payments that stand, idempotence, cancellation, grace | 2 workers, 2 runs at once, 3 requests and runs in all, 3 days, 2 stores, 2 invoices that begin at the first; 945 000 distinct states |
| `billing_grace` | finding: an old trial date uses up the grace period | 1 worker, 1 run, 1 invoice |
| `backoffice` | refund numbers and caps, purchases received once and owed for their lines, services billed and announced once | 2 workers, 3 requests, 3 refunds of 1 unit of 1 invoice of 1 or 2 units (an old deleted refund or none), 1 purchase, 1 service, 1 hour; 342 000 distinct states |
| `platform` | limits, flags, sessions, tenants, transcripts, audits, the category tree, the index | 2 workers, 3 requests in one of seven scenes; 3 refresh tokens, 2 stores (one suspended), 3 categories and a depth of 2, 1 product, 2 words, 2 hops; 674 000 distinct states |
| `index_added` | finding: an edit that adds an attribute indexes the product without it | same |

Why the bounds are enough: each race here is between two actors, and the third
request (or the fourth operation) sets the scene or observes the damage, such as
a void after a lost update. Two invoices are needed for a clash of numbers, two variants for
opposite lock orders, two lots for an order of expiry, three layers for an order
of age with one in the middle. Three refunds let a third see what two that raced
left behind; three tokens are a login, its rotation, and the token of a rotation
in flight when the kill switch runs; three categories close a cycle by two moves
and exceed a depth of two. With one product a variant can only be deleted; that one is
given to another product is in the theorem. Days run from a date to the first day after a
grace period of one day. Every mutant is caught within them.

`CHECK_DEADLOCK FALSE` is set everywhere because the bound on the number of
requests lets each system stop. That nobody hangs is stated by
`EveryRequestEnds` instead.

The `billing` run uses symmetry over workers, invoices and runs, `backoffice` over
workers and refunds, `platform` over workers: each is interchangeable in its
constants, and none of the three checks liveness.

`TypeOK` of `StockBatches`, `BackOffice` and `Platform` is stated in the modules
and holds in these instances, but is not among the properties of the runs. That of
`StockBatches` is a theorem (`StockBatchesProofs!Typing`); the proofs about the other two
contain the typing they need.

## Fairness

`FairSpec` asks for weak fairness of the steps of a request in progress
(`Step(r)`): a worker thread that can run does, PostgreSQL grants a row lock once
it is free, and its deadlock detector cancels one of a cycle of waits. No
fairness is assumed of starting requests, failing, trashing a location or
switching a setting. Weak fairness is enough because a request that waits for a
lock is blocked by one that, in turn, ends; the lock may be taken by others in
between only as often as the bounded number of requests allows. `Billing` has no
locks and states no liveness: nothing obliges anybody to run the cycle, whose
scheduler is off by default. The modules over `Workers` state none either: their
requests end by answering or by a crash, and but for the locks that a refund's
row and the purchase sequence give (held by one transaction that waits for nobody),
no step of theirs waits.

## Proofs

`SalesProofs`, for any sets of invoices, variants, carts and workers and any
bounds:

* `Typing`: `TypeOK` is inductive as it stands; its last conjunct keeps a
  request's loop within its list of lines.
* `StockSafety` (`NoLostStockWrite`): the invariant `StockInv` adds that a request
  which has moved a row holds its lock and that what it saw is still in the row.
  Without the first part a second writer could commit, without the second the
  commit would write an old value.
* `NumberSafety`, `NumberGapless`: `NumberInv` adds that at most the holder of the
  sequence lock has a fresh number, which is `seq + 1`, and that every number in
  a row or a copy is either issued to that invoice or fresh.
* `PaidSafety` (`PaidIsTheSum`): what a request that is not late knows of what is paid is
  what the row says, or, once it has summed, what the payments add up to (`PaidKnown`).
  So its full save changes nothing, or puts the row right. Amounts may have any sign.
* `DeductionSafety` (`DeductedOnce`): `SoldInv` says that an invoice's row has
  been taken off DRAFT once it was deducted (or reopened), and that a request
  which will deduct it on commit holds the sequence lock and saw DRAFT. So the
  lock taken for the *number* is what keeps racing checkouts from deducting twice.

* `CheckoutsAreCovered` (`NoOversell`): what a request checked line by line it also
  holds the locks of, so each row still has what was checked when it commits. The
  theorem is about carts whose lines name distinct variants; `sales_split` shows why.
* `CartsMoveWhole` (`WholeCarts`): as the loop over a cart goes on, what it has moved
  is the sum of the lines it has passed (`MovedUpTo`), and a commit comes only when it
  has passed them all.

`Sums` proves what the properties about quantities rest on. The community module's
`SumFunction` is a fold with a recursive function inside. Its value cannot be had from
the library's induction theorems, which take an operator, so `FiniteInductionOnSet`
and `NatInductionOnSet` state induction over a *set*: a set of subsets that has the empty
one, and every member with one more element, has the whole. From them follow that a sum
of numbers is a number, that a sum changes by what one summand changes
(`SumChanged`), that sums add (`SumOfSums`) and grow with their summands
(`SumMonotonic`), and what drawing from layers takes and leaves (`UpToGrows`,
`LeftBounds`, `ParkedLeft`, `ParkedChanged`).

`StorageProofs`: `LockInv` says, request by request, which locks are held at each
point and that what was read under them is still there. From it follow
`Refinement` (`Storage` implements `Shelves`) and `ParkSafety`. `Typing` says in
addition that no layer is ever negative: what a draw takes from one is at most what was
read under its lock. `Conservation` adds, at each commit, what the level gains to
what the layers lose; `OldestLeaveFirst` is the order in which `Layers` empties them.

`StockBatchesProofs`: `TypeOK`, `InStep` and `LotsAccounted` are inductive together, with
the fact that a void works on a saved invoice (`JobsTyped`). What a sale draws from a lot
it also puts on its record, which is what keeps the lots accounted for, and a void gives
back the record; that no lot is charged with more than entered it follows from the
accounts. `ExpiringFirst` follows from the way a sale draws.

`BillingProofs` proves six properties of `Billing` from one invariant, `IInv`. Its
parts: what a request that was not overtaken still knows of its invoice
(`FreshUnlessOvertaken`, for `OnlyRacersAnnounceAgain` and `PaymentsStand`); that a
run's lists hold no cancelled store that sudo has not edited since
(`ListsUncancelled`, for `CancelledAreLeft`); that every date in use is one the
grace period could have run from (`DatesAnchored`, for `GraceIsGranted`); and how far
an undisturbed run has cleaned up behind itself at each of its steps (`RunsCleanUp`,
`StaysClean`, for `RunsRepeatNothing`). `NumbersStayUnique` is inductive with the types.
`Typing` is proved beside it: it is where the largest of finitely many numbers must exist
(`LargestNumber`), for the next one to be a number at all.

`BackOfficeProofs` proves six properties of the composition. `BackInv` has one part
per component, `RefundsInv`, `PurchasesInv`, `ServicesInv`. Each looks only at the
requests of its own component, and `Foreign` is all that it knows of a step of
another's, so that three proofs become one without looking into each other.

* `RefundNumbersClashOnlyWhenBlind`: a request that locked something excludes the
  others from numbering (`OneHolds`), and the number it took is above every row's,
  but for rows that were inserted blind. That the code's maximum exists is proved by
  a minimal counterexample over finite subsets (`HighestExists`).
* `RefundsStayWithinSale`: while an invoice is not loose it has at most one request, so
  what that request counted is still what the rows add up to when its refund is
  inserted, and the lines are those it was capped by: an edit of the sale in between would
  have been an overlap. It is a property of steps: an edit may shrink the lines below
  what was refunded, and then no step refunds more.
* `GoodsAreReceivedOnce` and `LinesAreOwed`: while a purchase is not jostled it has at
  most one request, and `Stage` says at each statement what that request's copy still
  has in common with the row, and whether the goods have been added yet, and which.
* `ServicesAreBilledOnce` and `ServicesAreToldOnce`: the same of a service, and of a
  notifier that runs alone: what it is about to tell is not flagged, and what it told
  it flags before anything else.

`TenancyProofs`: a thread knows nothing while it is idle or streams, and the store its
request acts for while it serves (`ServingOK`); what a turn has seen beyond the acting
store is what its calls asked for. From it follow `StoresKept`, with the
assistant's turns that outlive their request, and `AuditIsHonest`. `EveryCallTold`
(`TurnsRecorded`) follows the calls of a conversation from the turn that makes them to
the transcript, or to the count of what was lost.

`PlatformProofs` has a section for each of the other components, and one for the whole:

* `FlagsKept`: while a place is not muddled at most one request touches it
  (`OneTouches`), so what its first statement found or cleared still holds when its
  second sets the flag (`ReadyToSet`).
* `KickedOut` (`LoggedOutStays`): a live token of a kicked login can only come from a
  token that the pending kill switch did not list (`UnlistedRaced`) or from a rotation
  in flight (`RotationRaced`), and both make the login raced.
* `LimitsHold` (`OvershootIsRaced`): the property is inductive with the types; each
  step changes what is in use, pending, crowded or extra by amounts that keep the
  inequality.
* `TreeStaysSound` (`TreeSound`): climbing is first treated for any tree (`Climbs`). That
  no category is above itself becomes `Reaches`, every climb ends at the top, and
  that a climb is no longer than there are categories follows by counting
  (`NoLoop`, `ClimbTime`). Moving a category under one that is not below it, or lifting the
  children of a deleted one, keeps both that and the depth (`ReparentedReaches`,
  `ReparentedShallow`, `Lifted`). `CategoriesInv` says what a request that nobody
  overtook still knows of the tree it checked (`ReadyToSave`).
* `DocumentsAgree` (`IndexAgrees`): a request that is apart is the only one at its
  products, so that what it has yet to say fits the rows it leaves (`OnTrack`);
  while a rebuild goes on, each product is among those yet to be built, in the batch,
  refused, or indexed as its row is;
  where two meet the product has strayed (`MeetingsNoted`); and what no
  request has touched the index for still agrees (`Trusted`).
* `PlatformSound`: the eight properties of the run `platform`, of `Platform`'s own
  specification. The component that plays keeps its invariant, the others keep what
  they began with, and a request of one is at no statement of another (`WhoPlays`).

Assumptions are those of the modules: types and finiteness of the constants, that
`Nobody` is not a worker, that `NoInvoice` and `NoEta` are not values, and the like.
TLC evaluates them in every run.

## Only model-checked

* Liveness (`EveryRequestEnds` of `Sales`, `Storage` and `StockBatches`): fairness and
  ENABLED are beyond the prover. It is the only property of a passing run that no theorem
  states.
* The six findings: a counterexample is TLC's to find.

## What the specifications show of the code

The six runs that expect a violation are disagreements between the code and what its
comments say; `PROJECT.json` quotes both. Beside them, these behaviours were met while
modelling. A property of the passing runs says how far each goes: it holds unless
something happens, and that something is the behaviour here.

* *Refunds.* The cap is checked without a lock: overlapping refunds exceed it. A deleted
  refund frees its quantity, and the trash gives it back unasked, which exceeds the cap
  with requests one after the other. PATCH of `original_invoice` checks nothing. PATCH of
  the sale may leave fewer units on its lines than were refunded. The first refunds of a store find no
  row to lock and take the same number.
* *Purchases.* An insert as RECEIVED never adds stock. Setting RECEIVED back to DRAFT lets
  the goods be received again; so does a death between the stock and the row. PATCH with
  an empty list of lines keeps the old total. A PATCH that receives a purchase and gives it
  its first supplier takes staged lines in after the goods were added: no stock has them.
* *Sales.* PATCH totals an invoice from the lines that were prefetched before it replaced
  them. A payment may be negative; of two at the same time the later save may carry the
  older sum, too small or too large, until the next payment. An invoice posted at creation is
  committed before the credit policy can refuse it.
* *Services.* RETURNED and ARCHIVED services can be done, and billed, again. A service
  created or edited as DONE has no invoice. The update
  notification names a column that does not exist, and fails after the row was saved. The
  notifier's "fires at most once" is broken by two overlapping runs and by a death before
  the flag.
* *Limits and flags.* Two openings of a shift, two favourites, two quota checks at the limit
  all pass together; the assistant's tools create rows without asking a quota. Two
  activations leave two active profiles, or none; presets are the same, and moving one
  carries its flag along; a plain save of a branch asks nothing about the main one.
* *Sessions.* A rotation in flight survives force-logout, against its docstring, and access
  tokens live on for their day. A login issues its refresh token before the suspended store,
  the address or the second factor can refuse it. Disabling a second factor by the first of
  the platform's two buttons leaves the backup codes. Renewing a password ends no session.
* *Tenancy and audit.* With no store in the thread every tenant's rows are visible, by design
  of the managers; the assistant's tools run that way, and `update_branch` writes a branch of
  any store whatever store sudo acts in. An audit run while sudo acts in a store is scoped to it, so that a door
  that forgot to filter passes.
* *Assistant.* A turn that is cut off leaves its question and no trace of its tool calls.
  `update_branch` saves the branch and then its address, in two commits; a chunk whose
  embedding failed is never found.
* *Catalogue and search.* Two moves that are each sound close a cycle together, after which
  walks up the tree never end. A rolled-back creation leaves a document of no product; an
  UPDATE of many rows (purge, renaming a value), a variant deleted or given to another
  product, and a new key of an attribute leave stale documents.
* *Trash.* The list of deleted purchases fails on an attribute they lack, and a restore is
  committed before its label is computed.
* *Billing.* A PATCH that moves an issued invoice to another store announces it there. Void writes a stale copy over a recorded payment. The lock on the last number is
  released before the number is saved; the unique constraint stops the second.

## Not modelled, and why

* Money: prices, taxes, discounts, cost averages, balances. They are computed
  from one row's lines, or summed on read. The exceptions are what a purchase owes and what
  a sale was paid. `Customer.store_credit` is left out with the restocking fee that goes into
  it: the customer page may write back a stale one.
* The expired-stock policy of checkout: it only refuses, which is `Fail`.
* Suspended carts, expenses, names and roles of users, the order of favourites, plans and
  prices: rows that are edited by themselves. So is a user's inbox, which is read and purged
  there; but the announcement of an invoice looks for the one it made before
  (`billing/signals.py:33`), and would be repeated after a purge.
* The Django admin site, and `wipe_catalog`, which empties the catalogue by SQL.
* Reports, statistics, the navigation index, serialisation, the read-only endpoints of the
  public API: reads.
* Import, export and media: conversions, and I/O in background threads.
* The external services: the model the assistant talks to answers, calls tools with any
  arguments, or fails; the index obeys or fails.
* Tables of different modules are not joined: `Sales`, `StockBatches` and the back office
  each have the stock rows as they see them, and `Platform` plays its components one at a
  time because they share no state.

## Plan

1. Done: the modules and theorems above.
2. Done: every safety invariant and action property of the passing runs is a theorem, and
   `PlatformSound` puts the components of `Platform` together.
3. Next: a second abstract specification, of the dated batches as one operation at a time,
   and the refinement by `StockBatches` for the branches that never strayed.
