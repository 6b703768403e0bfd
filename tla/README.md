# Storelio: models, model checks and proofs

Storelio is an e-commerce backend in Django, a fork of Saleor 2.11: influencers'
stores sell the products of many brands.  It runs as several web workers and
Celery workers over one PostgreSQL database (READ COMMITTED, no
`ATOMIC_REQUESTS`: outside an explicit `transaction.atomic` every statement is a
transaction of its own), and talks to payment gateways and to the brands' own
shops over HTTP.  What can go wrong in such a program is what two workers do to
the same rows, and what happens when a remote call or a worker fails between two
of its steps.  This directory models that.

## Inventory

| component | state it keeps | operations | hard behaviour |
|---|---|---|---|
| payment (`payment/`) | `Payment`, `Transaction` rows | process, authorize, capture, refund, void, confirm; `gateway_postprocess`; `create_payment` | the gateway is called with the row locked; answers get lost; `is_active` is read before the lock |
| checkout (`checkout/`, `graphql/checkout/`) | `Checkout` and its lines, active payments | create a payment, complete | the client and the Cashfree webhook complete at the same time; the transaction commits on errors |
| discount (`discount/`) | `Voucher.used`, `VoucherCustomer` | count a use, release it | the last use is raced for; failures must release |
| warehouse (`warehouse/`) | `Stock.quantity`, `Allocation` | allocate, deallocate, increase, decrease | sums read before locks; locks on several rows |
| order (`order/`, `graphql/order/`) | `Order`, `OrderLine`, `Fulfillment` | fulfil, cancel a fulfilment, cancel, mark as paid | staff, brands and tasks act on the same order |
| order engine (`order/order_complete.py`, `order/tasks.py`) | none | place the order with the brands, queue the fulfilment | fire and forget, after the commit |
| payment gateways (`payment/gateways/`) | none; the money is at the service | the plugins' calls | declines, required actions, lost answers |
| Adyen (`payment/gateways/adyen/`) | transactions by `pspReference` | notifications, the return from 3D Secure | notifications that are late, repeated, overtaken; locks taken in two orders |
| refunds of lines (`graphql/order/mutations/orders.py`, `external_services/cashgram`, `order/tasks.py`) | `OrderLineCashgram`, the status of a `Fulfillment`, a line's metadata | refund a line, ask Cashfree, mark late lines | staff, brands, Unicommerce and two jobs save rows whole as they read them |
| catalogue resync (`external_services/`, `warehouse/models.py`) | `Product` (published, `metadata["instock"]`), `ProductVariant`, `Stock` | resync from the brand's shop, publish, allocate, ship | snapshots of different age; `Stock.save` saves the product too |
| staff and groups (`graphql/account/`) | users, groups, permissions | create, update, delete, deactivate | rules are checked on what was read and the write comes later |
| everything else | records edited by one request, reports, remote clients | | see `PROJECT.json`, each with its reason |

How they interact.  `checkoutPaymentCreate` cancels the checkout's active
payments, inserts a new one and asks Cashfree for a link.  The customer pays
there.  `checkoutComplete` - sent by the customer's client and by the webhook -
locks the checkout, checks its payments and its stock, counts the voucher, asks
Cashfree whether the payment is paid (`gateway.process_payment`, with the
payment locked), creates the order, allocates stock, hands the payments over and
deletes the checkout.  After the commit the order is placed with the brands and a
task creates its fulfilments, which take the stock.  Staff capture, refund and
void payments, fulfil and cancel, and set stock quantities at any time.
Afterwards the status of each line is written by staff (`updateFulfillment`), by
the brands' shops (`updateFulfillment` again, on their behalf) and by
Unicommerce; a line that is to be cancelled or returned is refunded with a
Cashgram, a link where the customer collects the money, and two daily jobs ask
Cashfree about the refunds and mark late lines.  Every night, and again for
brands that failed, a Celery task reads a brand's shop and brings stocks and
publication in step with it.

What makes them correct: a checkout becomes at most one order, with a payment
that was paid; money moved is money booked, once; a payment's status says what
was captured; a voucher is used as often as it may be and its count is that of
its orders; stock is promised to one order only and comes back once.

## Modules

`PaymentRecord` - the rows of `payment/models.py` and `gateway_postprocess` as
operators: what a payment permits and what a transaction does to it.  Amounts
are integers of the smallest unit.  `Consistent` is the relation between
`charge_status` and `captured_amount`.

`PaymentGateway` (extends it) - one payment, any number of workers, and a gateway
of one of two kinds: one that moves the money in the call, or Cashfree, which only
asks whether the customer has paid (`CashfreeResponses`, `CustomerPays`) and says
so however often it is asked.  A request is a record with a phase: `Request` (the caller's object and
`require_active_payment`), `BeginOperation`/`RejectOperation` (the row is locked,
re-read and validated), `GatewayAnswers` (external: success, decline, required
action, or an error whose operation was carried out), `Commit` (the transaction
row and `gateway_postprocess`), `Crash` (rollback after the answer).
`SavePayment` is the end of `create_payment`: the whole row as it was inserted,
after the call to Cashfree for a link; `saving` counts the calls that have yet to
do it.  `collected` is the gateway's own ledger and `unrecorded` a history variable for
what it moved that nobody booked.

`OrderPlacement` - the abstract specification: a checkout is open, becomes an
order once, with a capture in the books, and is dispatched at most once.

`CheckoutCompletion` (extends `PaymentRecord`) - `checkoutPaymentCreate` and
`checkoutComplete`.  One action is what happens between two waits: a statement
that may block on a row lock, a call to Cashfree, a commit.  A call of
`checkoutComplete` is one transaction: what it wrote is in its request record
(`counted`, `capture`, `created`) until `Commit`, the rows it locked are in
`holds`.  What a payment is for is the client's choice (`Totals`); the active
payments together must cover the price (`is_fully_paid`).  `ImplementsPlacement` states that it implements `OrderPlacement`.

`OrderStock` - stocks, allocations, fulfilments and the status of orders:
`checkoutComplete` from the allocation on and `draftOrderComplete`,
`orderFulfill`, `orderFulfillmentCancel`, `updateFulfillment` and
`orderCancel`.  An action is a statement that reads rows without locking them,
one that waits for rows, or a commit.  `db` is what is committed, `txn` what each
transaction has written over it, `request` what a worker has read and has still
to do; `want` is the queue of rows its statement is about to lock and `holds` the
rows it has (`Lock` moves one at a time, in the statement's order).  Three things
of the code matter here and are kept: the snapshot that `allocate_stock` sums is
older than the locks of the same query (`SumAllocations`, `AllocateStock`); an
exception in a line of a fulfilment is swallowed and undoes that line alone, to
the savepoint of `decrease_stock` (`LineFails`); a checkout allocates its lines in
one transaction, a draft each line in its own, after the order was saved
(`DraftOrderComplete` checks the stock, `SaveDraft` saves).  An error that reaches
the transaction of a fulfilment ends the call (`CallFails`).  Staff give a new
fulfilment the status they choose (`Given`).  `DeadlockDetected` is the error
PostgreSQL raises in a call that waits in a circle.

`AdyenNotifications` (extends `PaymentRecord`) - one payment whose gateway
answers twice, in the call (`plugin.py`) and in notifications (`webhooks.py`).
`config` says who captures what was authorized: staff, Adyen, or the plugin in the
call (`auto_capture`).  `references` is what Adyen did, one record per `pspReference`, and `notices` what
it has announced; a notification is delivered until it is accepted, possibly
again, and within `Reordering` before an older one.  `Handle` chooses among the
handlers as `EVENT_MAP` does; `CANCEL_OR_REFUND` and `REFUND_WITH_DATA` go to
handlers that are modelled and are not events of their own.  A call is one action
per lock it waits for: `CompleteLocksCheckout` and `CompletePays`,
`WebhookLocksPayment` and `WebhookFinishes`, `ReturnLocksPayment` and
`ReturnFinishes`, `StaffCalls`; `DeadlockDetected` ends one of a circle.

`BrandResync` - a product in step with its brand's shop.  `feed` is the shop (one
that shows nothing, `empty`, is skipped by `StartResync`), `db` the rows, `call` what a worker has read; a save of a stock reads the
product row (`SaveStocks`) and writes it whole (`Commit`), as `pdpPublishProduct`
does.  `shown` is history: nothing has outdated `metadata["instock"]` yet, which
allocations, changes of tracking and overlapping saves do.

`StaffPermissions` - staff, groups and the eight mutations on them.  `Check` is
what a mutation reads and verifies, `Save` what it writes, later; the rules
(`get_not_manageable_permissions` and the operators around it) are those of
`graphql/account/utils.py`.

`OrderLineRefunds` - the lines of one brand once the task of the order has made
their fulfilments; those of which it failed to (`Unfulfilled`) staff fulfil later
(`Fulfill`), or never, and until then they end the daily job (`Blocked`).  One action
is a statement that saves a row, with the reads before it; `call` is what a
worker has read, `poll` and `daily` what the two jobs have.  What cancelling does
to stocks is in `OrderStock`.

`PaymentGatewayProofs`, `CheckoutCompletionProofs`, `OrderStockProofs`,
`AdyenNotificationsProofs`, `BrandResyncProofs`, `StaffPermissionsProofs`,
`OrderLineRefundsProofs` - the theorems about the modules they are named for.
`FunctionSums` - the lemmas about sums that they use.

The `MC` modules give the constants values.

## Runs

| run | question | bounds |
|---|---|---|
| `payment_operations` | do the books, the status and the validation hold under all operations? | 2 workers, total 2, amounts 0 to 3 (nothing, part, all, too much), requests start while there are fewer than 3 transactions, 1 crash, 1 late save of `create_payment` |
| `payment_staff` | can staff capture too much or touch a closed payment; does every operation end? | the same, the operations of staff and the customer's cancellation, fair |
| `checkout_race` | is `OrderPlacement` implemented; has each order a paid payment of its own; does every call end? | 3 workers, 2 checkouts of which one has the voucher, 2 payments, 4 calls, 1 crash, stock 0 or 1, fair |
| `checkout_voucher` | the voucher's limit and its customers; paid payments of several totals | 2 workers, 3 checkouts of 2 customers, limit 2, price 2, payments of 1 or 2 |
| `stock_fulfill` | do stocks, allocations and fulfilments agree when orders are placed one at a time? | 2 workers of whom one places orders, orders of 2 and 1 items, 2 stocks in 2 warehouses, 5 calls, 4 fulfilments |
| `stock_ends` | does every call end, in a circle of row locks too? | 2 workers, a draft of two lines with stocks of their own, 3 calls, fair |
| `adyen_notifications` | one order; are captures and refunds booked as Adyen carried them out, whoever captures; is a repeated notification idle; is each accepted? | 2 workers, total 2, 3 configurations, 3 references, 2 completions, 1 redelivery (none where Saleor captures), 1 crash, no overtaking, fair |
| `brand_resync` | do stocks settle on the shop's; is a delisted product hidden; is `instock` right? | 2 workers, 2 variants, 2 changes of the shop, 1 order, 1 publication, 1 crash, fair |
| `staff_permissions` | does a mutation keep every permission manageable and give nobody more than its requestor has; do superusers stay? | 2 workers, any 2 of 964 mutations, 3 arrangements of 4 users in 2 groups |
| `staff_leaving` | *violation*, see below | 1 worker, 1 mutation of groups from each of 1024 arrangements |
| `order_line_refunds` | is shipping refunded once, only what was to be cancelled, and does the record settle? | 2 workers, 2 lines, 2 updates, 1 lost answer or dead worker, fair |
| `order_line_late` | is a late line marked? | 2 lines of which one has no fulfilment at first, both jobs, 2 updates, 1 loss, fair |

These configurations are kept to be run by hand
(`tlc -workers 2 -config X.cfg M`):

| configuration | module | what TLC reports |
|---|---|---|
| `PaymentVoid.cfg` | `MCPaymentGateway` | `VoidOnlyPreAuthorized` violated |
| `PaymentStaff.cfg` with `InactiveForGood` | `MCPaymentGateway` | `InactiveForGood` violated |
| `CheckoutVoucher.cfg` with `PriceIsCaptured` | `MCCheckoutCompletion` | `PriceIsCaptured` violated |
| `CheckoutRecapture.cfg` | `MCCheckoutCompletion` | `CapturedOnce` violated |
| `CheckoutLost.cfg` | `MCCheckoutCompletion` | `CaptureStaysBooked` violated |
| `CheckoutUses.cfg` | `MCCheckoutCompletion` | `UsesAreOrders` violated |
| `CheckoutInactive.cfg` | `MCCheckoutCompletion` | `CapturedWhileActive` violated |
| `StockOverAllocated.cfg` | `MCOrderStock` | `NoOverAllocation` violated, with two placers |
| `StockReturned.cfg` | `MCOrderStock` | `ReturnedWereShipped` violated |
| `StockOverFulfilled.cfg` | `MCOrderStock` | `FulfilledWithinOrdered` violated |
| `StockEmpty.cfg` | `MCOrderStock` | `NoEmptyFulfillment` violated |
| `StockRevived.cfg` | `MCOrderStock` | `CanceledForGood` violated |
| `StockDraft.cfg` | `MCOrderStock` | `PlacedHasStock` violated |
| `StockPartial.cfg` | `MCOrderStock` | `FulfilledWhenAllShipped` violated |
| `AdyenUnconfirmed.cfg` | `MCAdyenNotifications` | `ConfirmedBeforeOrder` violated |
| `AdyenOvertaken.cfg` | `MCAdyenNotifications` | `RefundsSettleInAnyOrder` violated |
| `AdyenAsked.cfg` | `MCAdyenNotifications` | `RefundsWithinCaptured` violated |
| `ResyncInstock.cfg` | `MCBrandResync` | `InstockFollows` violated |
| `BrandResync.cfg` with `EmptiedIsHidden` | `MCBrandResync` | `EmptiedIsHidden` violated |
| `ResyncDistinct.cfg` | `MCBrandResync` | `CanBeOrderedIsInstock` violated |
| `StaffRace.cfg` | `MCStaffPermissions` | `AlwaysManageable` violated |
| `StaffDemoted.cfg` | `MCStaffPermissions` | `StaffCanManage` violated |
| `RefundsClosed.cfg` | `MCOrderLineRefunds` | `CollectedIsClosed` violated |
| `RefundsShipping.cfg` | `MCOrderLineRefunds` | `ShippingIsRefunded` violated |
| `RefundsRecorded.cfg` | `MCOrderLineRefunds` | `CollectedIsRecorded` violated |
| `OrderLineLate.cfg` with `LateWhateverOthers` | `MCOrderLineRefunds` | `LateWhateverOthers` violated |
| `OrderLineLate.cfg` with `LateInProcessIsMarked` and `StaffStatuses = {"in process"}` | `MCOrderLineRefunds` | `LateInProcessIsMarked` violated |

("With" a property: that property in the place of the ones the configuration
names.)

Why the bounds are enough.  Every race in this code is between two requests over
one row; a third worker adds the one who waits while the row changes hands.
Two transactions are needed for a partial capture and the rest, three for a
refund after both.  Two stocks are the least over which one line can be split;
an order of 2 and one of 1 over stocks of 2 and 1 makes lines that share a stock,
exhaust it, or are left without.  Two payments per checkout are one that is replaced and its
replacement.  Six calls are two creations and four completions; in
`checkout_race` four calls are a creation and completions by all three workers,
two of them on one checkout.  Three references are the payment and two of a
capture, a refund and a cancellation, enough for a refund of what was captured
later; one redelivery may repeat any notification.  Where Saleor captures, every
payment has a capture of its own and so the most notifications; there the run
redelivers none, and `RedeliveryChangesNothing` is proved for any number.  Two variants are the least
over which a sum can go wrong; two changes of the shop make an old snapshot, a
new one and the shop's return to the first.  Two lines are the least of which one
is the last to be refunded, or of which one has no fulfilment and stops the daily
job for the other.  Mutations of staff that overlap are checked from three
arrangements that differ in who manages what (for every arrangement see Proofs),
those of groups alone from all 1024 of two users in two groups
(`staff_leaving`).  One crash is
enough for each step at which a worker can die, since a crash leaves no state
but what was committed.

Updates by staff and brands, fulfilments among them, are bounded by `MaxUpdates`,
refunds are not.

Deadlock is checked in the payment, checkout and `brand_resync` runs, where `Done` is the step of
a system whose bounds allow no further call (a resync can always start).  The stock runs do not check it:
their system stops when `MaxCalls` calls have been made, and `CallsEnd` of
`stock_ends` is the stronger statement that no call is left waiting.  Nor do
those of Adyen, of staff and of lines, which stop when their bounds are used up
and every notification is handled or every refund settled; their liveness
properties say what must have happened by then.

### Fairness

The liveness runs assume weak fairness of a worker's own steps (it is scheduled,
and a gateway call returns or times out) and strong fairness of the steps that
wait for a row lock: PostgreSQL queues the waiters of a row, so one that waits
while the row is freed again and again is served.  `OrderStock` needs only weak
fairness, of each worker's steps and of `DeadlockDetected` (PostgreSQL looks for
a circle after `deadlock_timeout`): its calls are bounded.  Nothing is assumed of the
customer, of staff, or of the callers: no request need ever be made.

`AdyenNotifications` assumes that Adyen answers every request and delivers a
notification until it is accepted, and that workers go on; weak fairness is
enough, since the calls that could block one are bounded.  `BrandResync` assumes
that the resync is started again and again (celery beat, `settings.py:748`) and
that a task goes on or, if its worker dies, is delivered again
(`CELERY_ACKS_LATE`, `settings.py:650`).  `OrderLineRefunds` assumes that both
jobs are started every day (`settings.py:792`) and that workers go on until they
die.  Of the brand and the customer at Cashfree nothing is assumed: what they do
for good is the hypothesis of `StocksSettle`, `DelistedIsHidden` and
`RefundsSettle`.

## What the code does otherwise

The violation run:

- `staff_leaving`: `graphql/account/utils.py:309` lets users leave a group with
  `manage_staff` whenever it has more members than leave, whether those who stay
  are active or not; the comment at line 301 says that after it each permission
  has at least one staff member who can manage it.

And by hand, where the runs above check what does hold:

- `PaymentVoid`: `gateway.void` looks for a successful authorization and never
  at `can_void`; a payment captured in full is closed with its money collected.
- `InactiveForGood`: `create_payment` saves the whole row after its call to Cashfree
  (`payment/utils.py:181`); a payment that was cancelled meanwhile is active again.
  `InactiveIsFinal` holds from the moment those calls have ended.
- `PriceIsCaptured`: the amount of a payment is the client's
  (`graphql/payment/mutations.py:217`); two active payments that together cover the
  price pass `is_fully_paid` (`checkout/utils.py:891`), and only the last of them is
  captured.
- `CheckoutRecapture`: when the stock is gone after the capture, the refund is
  asked of Cashfree, whose plugin refunds nothing; the capture is committed on an
  active payment and the retry books it a second time.
- `CheckoutLost`: two payment creations with the same data share a row; the
  later `save()` of the whole row, after its call to Cashfree, takes back a
  capture booked in between.
- `StockOverAllocated`: the query of `allocate_stock` that sums the allocations
  locks the stocks in a subquery; it waits for the locks with the snapshot it
  began with, and misses what the previous holder allocated.
- `StockReturned`: a cancelled fulfilment is left `CANCELLATION_INITIATED`, which
  `can_edit` lets cancel again; its items return to the stock twice.
- `CheckoutUses`: the voucher's use is counted before a customer who has used it
  is turned away, and before taxes and a missing payment can fail; none of
  these releases it, and the transaction commits on errors.
- `CheckoutInactive`: a payment that is cancelled between the completion's
  read and its lock is captured.
- `StockOverFulfilled`: `clean_lines` and `fulfill_order_line` work on the lines as
  loaded before any lock; two fulfilments of the same line both pass.
- `StockEmpty`: `InsufficientStock` of a line is logged and the fulfilment is
  committed without it, empty if it was the only one; the test
  `order/tests/test_fulfullments_actions.py:301` expects the exception and
  line 314 no fulfilment.
- `StockRevived`: `update_order_status` recomputes the status from the lines: an
  order cancelled while it is being fulfilled is fulfilled again.
- `StockDraft`: a draft is saved as unfulfilled before its lines are allocated,
  and stays so when a line fails; `graphql/order/tests/test_order.py:1326` is the case of one caller,
  where the check before it answers.
- `StockPartial`: two fulfilments of the two lines each see the other line
  unfulfilled, and the order stays partially fulfilled.
- `AdyenUnconfirmed`: `complete_checkout.py:766` sets `action_required` to `None`
  just before it is asked for, so the order is created before the 3D Secure
  confirmation that `graphql/checkout/mutations.py:996` promises ("Set to true if
  payment needs to be confirmed before checkout is complete") and
  `test_checkout_complete.py:480` expects.  `checkoutPaymentCreate` gives every
  payment to Cashfree (`graphql/payment/mutations.py:205`), which never asks for
  an action.
- `AdyenOvertaken`: when the notification of a refund's failure comes before
  the one of its success, the refund stays booked.
- `AdyenAsked`: a refund is validated against what is captured, not against the
  refunds under way; two staff members can ask Adyen for the same money twice.
- `ResyncInstock`: allocating, a change of tracking and a save of the variant do
  not refresh `instock`, and the resync saves a stock only when its quantity
  differs.
- `EmptiedIsHidden`: a brand whose feed is empty is skipped
  (`shopify_impl.py:1543`), before `unpublish_product_whose_mapping_not_exist`; what
  it had published stays published.
- `ResyncDistinct`: `Sum(quantity, distinct=True)` (`warehouse/models.py:108`) adds
  equal quantities of two variants once, and the product is shown as out of stock.
- `StaffRace`: two managers delete or demote each other; each was checked before
  the other's write.
- `StaffDemoted`: a staff member who has bought something is demoted and not
  deleted (`account/utils.py:70`), stays in the groups, and counts as a manager
  in the next check (`graphql/account/utils.py:119`).
- `RefundsClosed`: the refund job closes the status as it read it before it asked
  Cashfree, or another writer changes it afterwards; a collected line is neither
  cancelled nor returned.
- `RefundsShipping`: two refunds of the last two lines each see the other
  unrecorded, and the shipping is refunded with neither.
- `RefundsRecorded`: the answer to the creation of a Cashgram is lost; it has no
  row, the job never asks, and a second one is refused.
- `LateWhateverOthers`: `order/utils.py:644` means to skip a line without a fulfilment
  (`else: continue`), but asks whether the related manager is true, which it always
  is; `first()` is `None` and the job ends for all lines.  `LateIsMarked` asks that no
  line of the job is left without one.
- `LateInProcessIsMarked`: the job filters for `inprocess` (`order/tasks.py:152`), a
  status that is spelled `in process`.

Other facts the models keep and that a reader may trip over: an expired or failed
Cashgram can never be replaced (its row exists and its id is the line's); the
rank of statuses misspells `return initated`; a payment whose order failed before
it was booked stays collected; a payment that is sent to Adyen again forgets the
first authorization; a capture that Adyen refuses later stays booked when it was
agreed in the call; a full refund that fails later finds its payment inactive and
is dropped; `staffUpdate` and `userBulkSetActive` ask no one whether permissions
stay manageable.

## Proofs

`PaymentGatewayProofs` proves, for any set of workers, operations, amounts and
bounds, every safety property of `payment_operations` and `payment_staff`.  The
assumption is `PaymentAssumption` of `PaymentGateway`: amounts and bounds are
naturals and no worker is the value that stands for "nobody".  `BooksMatchGateway`
says two things: where a call moves the money, the gateway holds what is booked,
plus what its lost, rolled back and unbooked answers moved; where it only asks,
nothing is captured that the customer has not paid.  That a second
`process_payment` books the same payment twice is no part of it
(`CheckoutRecapture`).

None of the properties is inductive.  The invariant adds to them
- who holds the lock is the one request that is calling or has been answered, and
  nobody else is (so that a validated condition stays true: no other step can
  write the row);
- what that request validated still holds (`StillPermitted`) and its amount is
  resolved;
- the answer it has is one the gateway may give for its operation and amount
  (`GatewayResponses`), so that what is booked is what was moved, or, from Cashfree,
  was paid.
`Invariance` proves it: initially, and for each action of `Next` one step, where
`Commit` uses what `gateway_postprocess` does to a consistent payment
(`CommitEffect`, `MoneyStep`).  The theorems follow from it.

`CheckoutCompletionProofs` proves, for any workers, checkouts, customers, voucher
and bounds, `TypeOK`, `PaidForOrder`, `VoucherCounted` and `OneOrderPerCustomer`, and
that `CheckoutCompletion` implements `OrderPlacement`.  The assumption is
`CheckoutAssumption`: the price, the limits and the bounds are naturals and no
checkout is the value that stands for "none".  What the code does holds together
by its locks, and so does the invariant:
- between its first lock and its commit a call has its checkout's row locked, so
  the checkout stays open and nobody else makes an order of it (`LocksCheckout`,
  `LocksExclusive`);
- a call that counts a use has the voucher's row locked until it commits, and has
  seen the limit and the customer under the lock (`LocksVoucher`);
- a call that goes on to the order has a capture of a payment of its checkout that
  the customer paid (`CapturesPaid`);
- a payment belongs to an open checkout or to an order, never to both, so a
  `payment.save()` that comes late cannot reach an order's payment
  (`PaymentsOwned`, `SavesOwn`);
- an order that waits to be handed on has one call that does it (`HandsOn`,
  `HandedOnce`), and a checkout is open or has its one order (`OpenOrOrdered`).
`WorkersStayOK` reduces a step to what it changes for the worker that takes it and
to what it leaves alone for the others (`LeavesAlone`); `CommitInv` is the step that
needs all of the above.  Of the refinement, a commit is `PlaceOrder` or `Book`,
inserting and saving a payment are `Book` or `Unbook` of an open checkout, handing
on is `Dispatch`, and everything else stutters.

`OrderStockProofs` proves, for any finite sets of workers, orders, lines and
stocks and any quantities, every safety property of `stock_fulfill`.  The
assumption is `StockAssumption`: the sets are finite, each order has a line,
quantities are naturals and stocks are numbered (they are locked in the order of
their primary keys).  `TypesOK` holds of all operations.  The other four are
theorems about what that run checks, placing, fulfilling and cancelling orders
(`Ours`): drafts and the cancellation of fulfilments break them (`StockDraft`,
`StockReturned`, `StockRevived`).  All have any number of placers.  `NoOverAllocationOK`
says how two of them can promise an item twice (`StockOverAllocated`): only by the
sums of `allocate_stock`, which may be older than the locks.  As long as they are not
(`FreshSums`, an assumption about the behaviour that the code does not ensure), no
more is allocated of a stock than there is.  The invariant is in three parts, each on top of the one before.
- `Typing`: rows, writes and copies have their types, and what a call goes on
  with is within what it has read.
- `Discipline`: locks exclude each other; a call has the lock of every row it
  has written, or that is read under a lock, or has it in the queue it waits in
  (`WritesLocked`, `Covered`); an order is placed under its own lock, so nobody
  else touches its allocations before its commit; any other call only lowers
  allocations that are there; the savepoint of a line, to which its failure goes
  back, is itself a state of this kind (`Savepoint`); a call that cancels has
  freed every allocation of the order (`Freed`).
- `Accounts`: what each call has taken from the stocks it has written down in its
  fulfilment or has still to (`Account`), line by line and stock by stock, so
  that its commit changes both sides of the balance alike (`Balanced`).
`Keeps` is the step that all actions share: what one worker does to the rows and
to itself, and that the others' part of the invariant survives it, which is
where the locks are used.

`FunctionSums` proves what a sum over a finite set does when a summand changes,
comes or goes, when its index set is split or renamed, and what it is bounded by.
The sums of the models are the library's folds, which are recursive functions
over a choice of elements; the lemmas show by induction over the subsets of a
finite set (`SubsetInduction`, of sets of subsets, where the library's theorem
takes an operator) that a function with that recursion exists and that it does
not depend on the choice.

`AdyenNotificationsProofs` proves, for any workers, amounts and bounds and whoever
captures, `TypeOK`, `OneOrder`, `RefundsSettle` and `RedeliveryIsIdle`, the first two
in any order of delivery.  `CapturesSettle` stays with TLC: it leaves out what the
code misses, and its conditions look far back in what Adyen did.  The
assumption is `AdyenAssumption`: the total and the bounds are naturals.  A call
leads from one world (its rows, what Adyen did and announced) to another, and the
handlers are functions of worlds, so the argument has two halves.  The first is
about single calls: everything `plugin.py` and the handlers do leaves order and
checkout alone (`Near`), except `complete_checkout` and what calls it, which may
also turn the checkout into an order (`After`; `HandleLeads`: never when there is
an order already).  The second is about their interleaving: the checkout is there
exactly as long as there is no order (`OpenOrOrdered`), and of the calls of
checkoutComplete, which do not look for it again, at most one has its row
locked, while it is there (`OneCompletes`); a notification and the customer's
return complete it only when nobody has (`CheckoutIsFree`).

`RefundsSettle` and `RedeliveryIsIdle` speak of the notifications that were
accepted, of which the rows keep nothing but transactions.  The invariant
(`Agreed`) says what these must show:
- what Adyen did and what it announced agree (`Fit`): a call that is decided was
  answered, one that failed was failed once and after its answer, and a
  transaction with a call's token says what became of that call;
- what the handlers look for is there when they were told (`Books`): a
  successful refund is booked exactly when it was told, over its amount, and the
  last of what `handle_failed_refund` looks for is that refund; a failed or
  reversed one adds up to nothing, and has left the transaction that makes its
  handler return (`RefundOK`); a capture's failure, a cancellation and a successful
  capture that were told have left theirs (`FailureOK`, `CancelOK`,
  `ToldCaptureOK`).

A payment that was closed is found by no notification but a cancellation, so
`Books` is claimed while the payment is active, and of refunds as long as no
notification has overtaken another; the property has both conditions.
Where Saleor captures, a capture told before there is an order is booked as one to
confirm, and told again after it as a capture; that happens only to one whose
answer was lost (`CaptureLost`, which `RedeliveryIsIdle` leaves out), and
`CapturesAnswered` says so of all others.
Calls that accept no notification only add transactions of other kinds or tokens
(`Kept`, `AddsBooks`); `HandleKept` is the step of each handler, with a lemma per
notification, and `MovedAgreed` the step of Adyen.  `RefundsSettle` is what
`Books` says when every notification of a call was accepted; `RedeliveryIsIdle` is
that each handler, told again, finds what it looks for (`AgainIdle`).  What a
transaction adds is a fold; that one transaction more adds its amount
(`BookedAppend`) rests on `FunctionSums`.

`BrandResyncProofs` proves, for any workers and variants and whatever the shop
shows, `TypeOK` and `InstockRight`, from `ResyncAssumption` (what the shop may show).
A commit leaves the flag right because its save computed it from the stocks as
the others will see them (`Merged`), under the locks of the rows it writes; what
else it read is as it was unless another write has marked
the copy (`clean`).  So the invariant says of a save whose copy is clean that it
carries the right flag (`Saves`), of one that publishes that it carries the flag
that is there (`Publishes`); `OthersOK` is the step every action shares, what a
write does to the copies of the other calls.  Nothing in it depends on how the sum counts
(`SameStocks`: the same stocks give the same flag).  `ShownCanBeOrdered` is about
the count: the query adds each distinct quantity once and all allocations, and
so never more than the stocks have; what it counts in stock therefore has a
variant with more than is allocated of it (`InStockMeans`, by `FunctionSums`).

`StaffPermissionsProofs` proves, for any users, groups, permissions, workers and
requests, from `StaffAssumption` (superusers are active staff at the start and
what is deleted is nobody's), the four properties of `staff_permissions`.  The
types are inductive with `ForeignKeys`.  `SuperusersStay` is not: a save takes
users away that were checked in an earlier state, so the invariant adds
`CheckedBeforeSaving`, what each call's checks established on the state it saw,
in the parts that other saves cannot change.  `KeepsManageable` and `WithinScope`
are properties of one step whose checks see the state they are saved in; they
need the invariant's types and one lemma per rule, that an empty
`NotManageable...` means somebody remains: an active user who is in the groups, as
the code counts them, which may be a former member of staff (`StaffDemoted`).

`OrderLineRefundsProofs` proves, for any finite set of lines and any workers,
statuses and bounds, `TypeOK`, `ShippingRefundedOnce` and `RefundedWasInitiated`.
The last two need each other's neighbours: a Cashgram that covers the shipping
was asked for when all other lines had a row (`ShippingIsLast`), a row means that
Cashfree has the line's Cashgram (`CashgramExists`), and Cashfree refuses a
second one, so no other refund can cover the shipping (`OneShipping`); the
refund job writes only rows that exist (`JobHasRows`), and a refund begins only
for a status that has been recorded as initiated (`InitiatedKnown`).  Each step is
reduced to what it does to rows, Cashgrams, statuses and calls (`Effects`), and
`EffectsSuffice` proves the invariant from that.  Lines without a fulfilment are lines
like the others here: what `Fulfill` writes is a status.

Only model-checked: all liveness (`RequestsEnd`, `CallsEnd`, `NoticesAccepted`,
`StocksSettle`, `DelistedIsHidden`, `RefundsSettle` of lines, `LateIsMarked`; out of
the prover's reach), and of the safety properties `CapturesSettle` and
`LeavingKeepsManageable`, which the code breaks.  `NoOverAllocation` is a theorem
under `FreshSums` only.

## Not modelled

`PROJECT.json` lists every component with its reason.  Most of the repository is
not a protocol: of its 144,000 lines the greater part are GraphQL types and
resolvers, CSV exports and uploads, analytics, serializers, clients of remote
services and forms that write one row; none of it has an interleaving or a
failure that another part could observe, and a model of it would restate it.
The models cover the parts in which several actors write the same rows.

Left out although it has state of its own:

- Gift cards.  `add_promo_code_to_checkout` passes the result of the failed voucher
  lookup (`False`) as the gift card's code (`checkout/utils.py:633`), so no
  checkout ever has one, and `is_fully_paid` leaves them out; the code that spends
  them is unreachable.
- The first import of a product (`external_services/integrations/base.py`): the
  mapping is looked up outside the transaction that creates it, so two imports
  at once can create a product twice.  Nothing else depends on its order.
- Orders created from a brand's webhook, and listings on the brand's own shop:
  they are made once per call and no call looks at an earlier one.
- Menus, collections, wishlists, pages, reels: trees and lists edited by one
  request each.

Around `PaymentGateway`: that Cashfree's capture is booked as often as it is asked for
shows in the model and in `CheckoutRecapture`; no run forbids it.  Within the other modelled components: prices, taxes, discounts and shipping (a checkout
has a price), e-mails and messages, a voucher that expires in the middle of a
completion (it fails like one that is used up), the Shopify variant of a checkout
that skips the payment, and manual order creation by staff.  Around
`OrderStock`: products without tracked inventory, the count kept in product rows,
a stock that a cancellation has to create, digital lines, staff who set a
quantity below what is allocated, and a worker's crash (for the rows it is a call
that fails).  Around `AdyenNotifications`: signatures and payloads, a pending answer
on the customer's return, and one that asks for a further action; a capture by
Saleor that raises.  `CapturesSettle` is not claimed of what its comment names: a
capture whose answer was lost or that Adyen refuses, a failure that
`gateway_postprocess` does not subtract (`FailureMissed`), a payment sent twice.  Around `BrandResync`: variants of price 0, images and
texts, a product of the brand that raises each time and so ends its resync before
anything is unpublished, the webhooks of products (commented out); a query and the read of the
product after it are one instant.  Around `StaffPermissions`: permissions given
to a user directly, tokens of apps, a crash between the save of a user and of its
groups.  Around `OrderLineRefunds`: the brand's tracking urls and the revenue in
the metadata of a refunded order.

## Plan

Done: payments with their proofs, completion over `OrderPlacement` with its proofs,
stocks and fulfilments, Adyen, the resync, staff and refunds of lines, each with
its proofs.  Left:

1. `BrandResync` with more than one product, so that a failure in one shows in
   the next, and its theorems for all of them.

New questions join an existing run where its bounds serve them, so that all runs
together stay short enough to be made on every change.
