-------------------------- MODULE CheckoutCompletion --------------------------
(***************************************************************************)
(* checkoutPaymentCreate and checkoutComplete: from a customer's cart to a *)
(* paid order.  checkoutComplete is called by the customer's client and by *)
(* the Cashfree webhook, often at the same time for the same checkout.     *)
(*                                                                         *)
(* Every step between two waits is one action.  A call of checkoutComplete *)
(* is one database transaction, READ COMMITTED: what it writes is kept in  *)
(* its request record and applied by Commit; a row it locked or wrote is   *)
(* in its holds until then.  An exception commits too                      *)
(* (transaction_with_commit_on_errors), only a crash or a DatabaseError    *)
(* rolls back.                                                             *)
(*                                                                         *)
(* Each checkout has one line, of one item of the same variant, kept in    *)
(* one warehouse.  What a payment is for is the client's choice.  Gift     *)
(* cards are not modelled, nor checkouts of a Shopify shop, which are      *)
(* completed without any payment.                                          *)
(***************************************************************************)
EXTENDS PaymentRecord, FiniteSets, Functions

CONSTANTS
    Requests,           \* the web workers
    Checkouts,
    Customer,           \* Checkouts -> the e-mail address of its customer
    VoucherCheckouts,   \* the checkouts that carry the voucher's code
    UsageLimit,         \* voucher.usage_limit
    OncePerCustomer,    \* voucher.apply_once_per_customer
    Price,              \* what each checkout costs, cash on delivery apart
    Totals,             \* what a client may say a payment is for
    Quantities,         \* what staff may set the variant's stock.quantity to
    MaxCalls,           \* bound: mutations called
    MaxPayments,        \* bound: payments inserted
    MaxCrashes          \* bound: workers that die

None == 0               \* no payment, no checkout, no order

ASSUME CheckoutAssumption ==
    /\ VoucherCheckouts \subseteq Checkouts
    /\ UsageLimit \in Nat
    /\ OncePerCustomer \in BOOLEAN
    /\ Price \in Nat
    /\ Totals \subseteq Nat
    /\ Quantities \subseteq Nat
    /\ MaxCalls \in Nat
    /\ MaxPayments \in Nat
    /\ MaxCrashes \in Nat
    /\ None \notin Checkouts

VARIABLES
    open,               \* the checkouts whose row exists
    payments,           \* the payment rows, by pk
    orders,             \* number of orders with each checkout's token
    quantity,           \* the stock's quantity
    allocated,          \* Sum of the stock's allocations.quantity_allocated
    used,               \* voucher.used
    voucherCustomers,   \* the VoucherCustomer rows of the voucher
    request,            \* what each worker is doing
    holds,              \* the rows each worker has locked
    paid,               \* external: payments that Cashfree reports PAID
    dispatched,         \* external: calls that hand an order to the brands
    calls,              \* history: mutations called
    crashes             \* history: workers that died

store == << open, payments, orders, quantity, allocated, used, voucherCustomers >>
outside == << paid, dispatched >>
vars == << store, request, holds, outside, calls, crashes >>

PaymentOfCheckout ==
    [ row      : PaymentRow,
      saved    : BOOLEAN,       \* Cashfree's link is its token, the customer can pay
      tried    : BOOLEAN,       \* it has a capture transaction, successful or not
      checkout : Checkouts \cup { None },
      order    : Checkouts \cup { None } ]

Phases ==
    { "idle",
      "called", "lines", "voucher", "payment", "order", "allocate",
      "failed", "finished", "placed",       \* checkoutComplete
      "cancelling", "inserting", "saving" } \* checkoutPaymentCreate

RequestRow ==
    [ phase    : Phases,
      checkout : Checkouts \cup { None },
      payment  : Nat,           \* the pk of the payment it works on
      total    : Nat,           \* what the payment it creates is for
      counted  : { 0, 1 },      \* what it has added to voucher.used
      capture  : { "none", "failed", "done" },  \* the transaction it has written
      snapshot : Nat,           \* the allocations its SELECT saw
      created  : BOOLEAN ]      \* it has inserted the order

Idle ==
    [ phase |-> "idle", checkout |-> None, payment |-> None, total |-> 0, counted |-> 0,
      capture |-> "none", snapshot |-> 0, created |-> FALSE ]

CheckoutLock(c) == << "checkout", c >>
PaymentLock(p)  == << "payment", p >>
VoucherLock     == << "voucher", None >>
StockLock       == << "stock", None >>

Locks ==
    { CheckoutLock(c) : c \in Checkouts } \cup { PaymentLock(p) : p \in 1 .. MaxPayments }
        \cup { VoucherLock, StockLock }

TypeOK ==
    /\ open \subseteq Checkouts
    /\ payments \in Seq(PaymentOfCheckout)
    /\ orders \in [ Checkouts -> Nat ]
    /\ quantity \in Nat
    /\ allocated \in Nat
    /\ used \in Nat
    /\ voucherCustomers \subseteq { Customer[c] : c \in Checkouts }
    /\ request \in [ Requests -> RequestRow ]
    /\ holds \in [ Requests -> SUBSET Locks ]
    /\ paid \subseteq 1 .. MaxPayments
    /\ dispatched \in [ Checkouts -> Nat ]
    /\ calls \in Nat
    /\ crashes \in Nat

Init ==
    /\ open = Checkouts
    /\ payments = << >>
    /\ orders = [ c \in Checkouts |-> 0 ]
    /\ quantity \in Quantities
    /\ allocated = 0
    /\ used = 0
    /\ voucherCustomers = {}
    /\ request = [ r \in Requests |-> Idle ]
    /\ holds = [ r \in Requests |-> {} ]
    /\ paid = {}
    /\ dispatched = [ c \in Checkouts |-> 0 ]
    /\ calls = 0
    /\ crashes = 0

-----------------------------------------------------------------------------
(* What the code reads.                                                    *)

\* No other transaction has the row locked.
Free(r, row) == \A q \in Requests \ { r } : row \notin holds[q]

PaymentsOf(c) == { p \in DOMAIN payments : payments[p].checkout = c }

Active(c) == { p \in PaymentsOf(c) : payments[p].row.is_active }

get_last_active_payment(c) ==
    IF Active(c) = {} THEN None
    ELSE CHOOSE p \in Active(c) : \A q \in Active(c) : q <= p

\* The active payments together cover the price, though only the last of them
\* will be processed; a checkout that costs nothing needs none.
is_fully_paid(c) ==
    SumFunctionOnSet([ p \in DOMAIN payments |-> payments[p].row.total ], Active(c)) >= Price

\* Cashfree has the money for it, or there is nothing to pay.
PaidAtCashfree(p) == payments[p].row.total = 0 \/ p \in paid

\* check_stock_quantity, on what is committed.
in_stock == quantity - allocated >= 1

\* A transaction's step: its record changes and it locks rows.
Step(r, row, locks) ==
    /\ \A l \in locks : Free(r, l)
    /\ request' = [ request EXCEPT ![r] = row ]
    /\ holds' = [ holds EXCEPT ![r] = @ \cup locks ]
    /\ UNCHANGED << store, outside, calls, crashes >>

\* Mutant: a use is given back without looking whether there is a voucher.
ReleasedAlways(row) == [ row EXCEPT !.counted = @ - 1 ]

\* release_voucher_usage: the use is given back, and with it the customer's
\* VoucherCustomer row.
Released(row) == [ row EXCEPT !.counted = 0 ]

\* payment_refund_or_void, when the order's data cannot be had: a payment that
\* can be refunded is locked for it.  Cashfree refunds nothing: the
\* PaymentError of the refund escapes instead.
RefundLocks(r) ==
    LET p == request[r].payment
    IN  IF p # None /\ can_refund(payments[p].row) THEN { PaymentLock(p) } ELSE {}

-----------------------------------------------------------------------------
(* checkoutComplete.                                                       *)

\* The client, or the webhook once it has found the checkout, calls.
CheckoutComplete(r, c) ==
    /\ request[r].phase = "idle"
    /\ calls < MaxCalls
    /\ calls' = calls + 1
    /\ request' = [ request EXCEPT ![r] = [ Idle EXCEPT !.phase = "called", !.checkout = c ] ]
    /\ UNCHANGED << store, holds, outside, crashes >>

\* Mutant: the checkout is read without select_for_update.
LockCheckoutUnlocked(r) ==
    LET c == request[r].checkout
    IN  /\ request[r].phase = "called"
        /\ c \in open
        /\ Step(r, [ request[r] EXCEPT
                       !.phase = IF is_fully_paid(c) THEN "lines" ELSE "failed",
                       !.payment = get_last_active_payment(c) ], {})

\* perform_mutation selects the checkout for update, then prefetches its
\* payments: is_active is looked at here, on the object in memory.  Without
\* enough active payments clean_checkout_payment raises.
LockCheckout(r) ==
    LET c == request[r].checkout
    IN  /\ request[r].phase = "called"
        /\ c \in open
        /\ Step(r, [ request[r] EXCEPT
                       !.phase = IF is_fully_paid(c) THEN "lines" ELSE "failed",
                       !.payment = get_last_active_payment(c) ],
                { CheckoutLock(c) })

\* The checkout is gone: the order made from it is returned.
FindOrder(r) ==
    /\ request[r].phase = "called"
    /\ request[r].checkout \notin open
    /\ Step(r, Idle, {})

\* _get_order_data: each line's stock is checked, nothing is locked.
CheckLines(r) ==
    /\ request[r].phase = "lines"
    /\ \/ /\ in_stock
          /\ Step(r, [ request[r] EXCEPT
                         !.phase = IF request[r].checkout \in VoucherCheckouts THEN "voucher"
                                   ELSE "payment" ], {})
       \/ ~in_stock /\ Step(r, [ request[r] EXCEPT !.phase = "failed" ], RefundLocks(r))

\* Who has used the voucher before may not again.
UsedBefore(r) == OncePerCustomer /\ Customer[request[r].checkout] \in voucherCustomers

\* Mutant: the limit is not looked at again under the lock.
TakeVoucherUnlimited(r) ==
    /\ request[r].phase = "voucher"
    /\ \/ /\ ~UsedBefore(r)
          /\ Step(r, [ request[r] EXCEPT !.counted = 1, !.phase = "payment" ], { VoucherLock })
       \/ /\ UsedBefore(r)
          /\ Step(r, [ request[r] EXCEPT !.counted = 1, !.phase = "failed" ],
                  { VoucherLock } \cup RefundLocks(r))

\* Mutant: nobody looks whether the customer has used the voucher.
TakeVoucherAgain(r) ==
    /\ request[r].phase = "voucher"
    /\ used < UsageLimit
    /\ Step(r, [ request[r] EXCEPT !.counted = 1, !.phase = "payment" ], { VoucherLock })

\* _get_voucher_data_for_order: the voucher is selected for update and its
\* limit looked at again; the use is counted, and only then a customer who
\* has used it before is turned away (the count stays).
TakeVoucher(r) ==
    /\ request[r].phase = "voucher"
    /\ used < UsageLimit
    /\ \/ /\ ~UsedBefore(r)
          /\ Step(r, [ request[r] EXCEPT !.counted = 1, !.phase = "payment" ], { VoucherLock })
       \/ /\ UsedBefore(r)
          /\ Step(r, [ request[r] EXCEPT !.counted = 1, !.phase = "failed" ],
                  { VoucherLock } \cup RefundLocks(r))

\* The voucher has been used as often as it may be: NotApplicable.
VoucherGone(r) ==
    /\ request[r].phase = "voucher"
    /\ used >= UsageLimit
    /\ Step(r, [ request[r] EXCEPT !.phase = "failed" ], RefundLocks(r))

\* After the voucher was counted: preprocess_order_creation may raise TaxError,
\* and a free checkout without a payment fails in _process_payment.  Neither
\* releases the voucher.
FailBeforePayment(r) ==
    /\ request[r].phase = "payment"
    /\ Step(r, [ request[r] EXCEPT !.phase = "failed" ], RefundLocks(r))

\* The successful answer of the Cashfree plugin: the customer has paid.
Captured(total) ==
    [ kind |-> "capture", token |-> 0, is_success |-> TRUE, action_required |-> FALSE,
      amount |-> total, already_processed |-> FALSE ]

\* Mutant: the gateway's answer is not looked at.
ProcessPaymentUnpaid(r) ==
    LET p == request[r].payment
    IN  /\ request[r].phase = "payment"
        /\ p # None
        /\ Step(r, [ request[r] EXCEPT !.capture = "done", !.phase = "order" ],
                { PaymentLock(p) })

\* _process_payment: the payment is locked and read again (its is_active is
\* not), Cashfree is asked whether the customer has paid, nothing is asked
\* for a payment of 0.  Any other answer, or none, releases the voucher.
ProcessPayment(r) ==
    LET p == request[r].payment
    IN  /\ request[r].phase = "payment"
        /\ p # None
        /\ \/ /\ PaidAtCashfree(p)
              /\ Step(r, [ request[r] EXCEPT !.capture = "done", !.phase = "order" ],
                      { PaymentLock(p) })
           \/ /\ payments[p].row.total > 0
              /\ Step(r, [ Released(request[r]) EXCEPT !.capture = "failed", !.phase = "failed" ],
                      { PaymentLock(p) })

\* _create_order, up to the SELECT in allocate_stock that sums the stock's
\* allocations.  That statement sees what had been committed when it began,
\* and only then waits for the stock's row.
CreateOrder(r) ==
    /\ request[r].phase = "order"
    /\ Step(r, IF orders[request[r].checkout] > 0
               THEN [ request[r] EXCEPT !.phase = "finished" ]
               ELSE [ request[r] EXCEPT !.phase = "allocate", !.snapshot = allocated ],
            {})

\* allocate_stock, with the stock locked.  On success the order takes over
\* all the checkout's payments; otherwise the savepoint is rolled back, the
\* voucher is released and the refund of the locked payment fails, so the
\* capture stays on the payment.
Allocate(r) ==
    /\ request[r].phase = "allocate"
    /\ \/ /\ quantity - request[r].snapshot >= 1
          /\ Step(r, [ request[r] EXCEPT !.phase = "finished", !.created = TRUE ],
                  { StockLock } \cup { PaymentLock(p) : p \in PaymentsOf(request[r].checkout) })
       \/ /\ quantity - request[r].snapshot < 1
          /\ Free(r, StockLock)
          /\ Step(r, [ Released(request[r]) EXCEPT !.phase = "failed" ], {})

\* The payments as a transaction leaves them.  The capture is booked on the
\* row it has locked; _create_order points every payment of the checkout to
\* the order, and deleting the checkout clears their checkout.
PaymentsAfter(q) ==
    [ p \in DOMAIN payments |->
        [ payments[p] EXCEPT
            !.row      = IF q.capture = "done" /\ p = q.payment
                         THEN gateway_postprocess(@, Captured(@.total)) ELSE @,
            !.tried    = @ \/ (q.capture # "none" /\ p = q.payment),
            !.order    = IF q.created /\ p \in PaymentsOf(q.checkout) THEN q.checkout ELSE @,
            !.checkout = IF q.phase = "finished" /\ @ = q.checkout THEN None ELSE @ ] ]

\* Mutant: an exception leaves the transaction open, and its rows locked.
CommitOnSuccess(r) ==
    LET q == request[r]
    IN  /\ q.phase \in { "failed", "finished" }
        /\ payments' = PaymentsAfter(q)
        /\ open' = IF q.phase = "finished" THEN open \ { q.checkout } ELSE open
        /\ orders' = IF q.created THEN [ orders EXCEPT ![q.checkout] = @ + 1 ] ELSE orders
        /\ allocated' = IF q.created THEN allocated + 1 ELSE allocated
        /\ used' = used + q.counted
        /\ voucherCustomers' = IF q.counted = 1 /\ OncePerCustomer
                               THEN voucherCustomers \cup { Customer[q.checkout] }
                               ELSE voucherCustomers
        /\ holds' = IF q.phase = "finished" THEN [ holds EXCEPT ![r] = {} ] ELSE holds
        /\ request' = [ request EXCEPT ![r] =
                          IF q.phase = "finished"
                          THEN [ Idle EXCEPT !.phase = "placed", !.checkout = q.checkout ]
                          ELSE Idle ]
        /\ UNCHANGED << quantity, outside, calls, crashes >>

\* The transaction commits, after an exception too.
Commit(r) ==
    LET q == request[r]
    IN  /\ q.phase \in { "failed", "finished" }
        /\ payments' = PaymentsAfter(q)
        /\ open' = IF q.phase = "finished" THEN open \ { q.checkout } ELSE open
        /\ orders' = IF q.created THEN [ orders EXCEPT ![q.checkout] = @ + 1 ] ELSE orders
        /\ allocated' = IF q.created THEN allocated + 1 ELSE allocated
        /\ used' = used + q.counted
        /\ voucherCustomers' = IF q.counted = 1 /\ OncePerCustomer
                               THEN voucherCustomers \cup { Customer[q.checkout] }
                               ELSE voucherCustomers
        /\ holds' = [ holds EXCEPT ![r] = {} ]
        /\ request' = [ request EXCEPT ![r] =
                          IF q.phase = "finished"
                          THEN [ Idle EXCEPT !.phase = "placed", !.checkout = q.checkout ]
                          ELSE Idle ]
        /\ UNCHANGED << quantity, outside, calls, crashes >>

\* After the transaction: the fulfillment task is queued and the order engine
\* places the order with the brands.
PlaceWithBrands(r) ==
    /\ request[r].phase = "placed"
    /\ dispatched' = [ dispatched EXCEPT ![request[r].checkout] = @ + 1 ]
    /\ request' = [ request EXCEPT ![r] = Idle ]
    /\ UNCHANGED << store, holds, paid, calls, crashes >>

-----------------------------------------------------------------------------
(* checkoutPaymentCreate: every statement is a transaction of its own.      *)

\* The calls that have yet to insert their payment.
Creating == { r \in Requests : request[r].phase \in { "cancelling", "inserting" } }

\* The checkout is read without a lock, the lines' stock checked; the total
\* is the client's (its check is commented out).
CheckoutPaymentCreate(r, c, total) ==
    /\ request[r].phase = "idle"
    /\ calls < MaxCalls
    /\ c \in open
    /\ in_stock
    /\ Len(payments) + Cardinality(Creating) < MaxPayments
    /\ calls' = calls + 1
    /\ request' = [ request EXCEPT ![r] = [ Idle EXCEPT !.phase = "cancelling", !.checkout = c,
                                                      !.total = total ] ]
    /\ UNCHANGED << store, holds, outside, crashes >>

\* cancel_active_payments: one UPDATE, which waits for locked rows.
CancelActivePayments(r) ==
    LET cancelled == Active(request[r].checkout)
    IN  /\ request[r].phase = "cancelling"
        /\ \A p \in cancelled : Free(r, PaymentLock(p))
        /\ payments' = [ p \in DOMAIN payments |->
                           IF p \in cancelled THEN [ payments[p] EXCEPT !.row.is_active = FALSE ]
                                              ELSE payments[p] ]
        /\ request' = [ request EXCEPT ![r].phase = "inserting" ]
        /\ UNCHANGED << open, orders, quantity, allocated, used, voucherCustomers, holds, outside,
                        calls, crashes >>

\* create_payment, get_or_create: a call with the same data that comes at the
\* same time has inserted the row, and has not saved its token yet.  A payment
\* that has been tried is returned as it is.
GetPayment(r) ==
    /\ request[r].phase = "inserting"
    /\ \E p \in Active(request[r].checkout) :
          /\ ~payments[p].saved
          /\ payments[p].row.total = request[r].total
          /\ Step(r, IF payments[p].tried THEN Idle
                     ELSE [ request[r] EXCEPT !.phase = "saving", !.payment = p ], {})

\* Otherwise it inserts the row.  Its foreign key needs the checkout's row:
\* the INSERT waits for whoever has it locked and fails when it is gone.
InsertPayment(r) ==
    LET c == request[r].checkout
        p == Len(payments) + 1
    IN  /\ request[r].phase = "inserting"
        /\ Free(r, CheckoutLock(c))
        /\ payments' = IF c \in open
                       THEN Append(payments,
                                [ row |-> CashfreePayment(request[r].total), saved |-> FALSE,
                                  tried |-> FALSE, checkout |-> c, order |-> None ])
                       ELSE payments
        /\ request' = [ request EXCEPT ![r] =
                          IF c \in open THEN [ @ EXCEPT !.phase = "saving", !.payment = p ]
                                        ELSE Idle ]
        /\ UNCHANGED << open, orders, quantity, allocated, used, voucherCustomers, holds, outside,
                        calls, crashes >>

\* Cashfree has answered with the payment link, and payment.save() writes the
\* whole row as it was inserted, is_active included; its foreign key is
\* refused when the checkout is gone.
SavePayment(r) ==
    LET c == request[r].checkout
        p == request[r].payment
    IN  /\ request[r].phase = "saving"
        /\ Free(r, PaymentLock(p))
        /\ payments' = IF c \in open
                       THEN [ payments EXCEPT ![p] =
                                [ @ EXCEPT !.row = CashfreePayment(payments[p].row.total),
                                           !.saved = TRUE, !.checkout = c, !.order = None ] ]
                       ELSE payments
        /\ request' = [ request EXCEPT ![r] = Idle ]
        /\ UNCHANGED << open, orders, quantity, allocated, used, voucherCustomers, holds, outside,
                        calls, crashes >>

\* Cashfree answers with no link: a KeyError, the row stays as inserted.
NoPaymentLink(r) ==
    /\ request[r].phase = "saving"
    /\ payments[request[r].payment].row.total > 0
    /\ Step(r, Idle, {})

-----------------------------------------------------------------------------
(* The world around.                                                       *)

\* External: the customer pays what the link asks for; there is none to pay 0.
Pay(p) ==
    /\ p \in DOMAIN payments
    /\ payments[p].saved
    /\ payments[p].row.total > 0
    /\ p \notin paid
    /\ paid' = paid \cup { p }
    /\ UNCHANGED << store, request, holds, dispatched, calls, crashes >>

\* productVariantStocksUpdate: staff set the quantity, and do not look at what
\* is allocated.
SetQuantity(n) ==
    /\ quantity # n
    /\ \A r \in Requests : StockLock \notin holds[r]
    /\ quantity' = n
    /\ UNCHANGED << open, payments, orders, allocated, used, voucherCustomers, request, holds,
                    outside, calls, crashes >>

\* The worker dies or the database refuses: its transaction is rolled back,
\* and after the commit the order is not handed on.
Crash(r) ==
    /\ request[r].phase # "idle"
    /\ crashes < MaxCrashes
    /\ crashes' = crashes + 1
    /\ request' = [ request EXCEPT ![r] = Idle ]
    /\ holds' = [ holds EXCEPT ![r] = {} ]
    /\ UNCHANGED << store, outside, calls >>

\* No call is under way; the bound may allow no further one.
Done ==
    /\ \A r \in Requests : request[r].phase = "idle"
    /\ UNCHANGED vars

Next ==
    \/ \E r \in Requests :
          \/ \E c \in Checkouts : \/ CheckoutComplete(r, c)
                                 \/ \E total \in Totals : CheckoutPaymentCreate(r, c, total)
          \/ LockCheckout(r)
          \/ FindOrder(r)
          \/ CheckLines(r)
          \/ TakeVoucher(r)
          \/ VoucherGone(r)
          \/ FailBeforePayment(r)
          \/ ProcessPayment(r)
          \/ CreateOrder(r)
          \/ Allocate(r)
          \/ Commit(r)
          \/ PlaceWithBrands(r)
          \/ CancelActivePayments(r)
          \/ GetPayment(r)
          \/ InsertPayment(r)
          \/ SavePayment(r)
          \/ NoPaymentLink(r)
          \/ Crash(r)
    \/ \E p \in 1 .. MaxPayments : Pay(p)
    \/ \E n \in Quantities : SetQuantity(n)
    \/ Done

\* What a worker does next when it is not idle.
Proceed(r) ==
    \/ LockCheckout(r) \/ FindOrder(r) \/ CheckLines(r) \/ TakeVoucher(r) \/ VoucherGone(r)
    \/ ProcessPayment(r) \/ FailBeforePayment(r) \/ CreateOrder(r) \/ Allocate(r) \/ Commit(r)
    \/ PlaceWithBrands(r) \/ CancelActivePayments(r) \/ GetPayment(r) \/ InsertPayment(r)
    \/ SavePayment(r)

\* A worker that is served runs on, a call to Cashfree ends, and the waiters
\* of a row lock are queued: nobody waits for ever for a lock that is freed
\* again and again.
Fairness == \A r \in Requests : SF_vars(Proceed(r))

Spec == Init /\ [][Next]_vars

FairSpec == Spec /\ Fairness

-----------------------------------------------------------------------------
(* Properties.                                                             *)

Charged(c) ==
    { p \in DOMAIN payments : /\ c \in { payments[p].checkout, payments[p].order }
                              /\ payments[p].row.charge_status = "fully-charged" }

\* checkoutComplete, called by clients and webhooks at the same time and
\* again, keeps what OrderPlacement promises: one order per checkout, its
\* capture in the books, the checkout gone with it, and the brands told once.
Placement == INSTANCE OrderPlacement WITH
    Checkouts  <- Checkouts,
    open       <- open,
    booked     <- { c \in Checkouts : Charged(c) # {} },
    orders     <- orders,
    dispatched <- dispatched

ImplementsPlacement == Placement!Spec

\* An order has a payment of its own that was captured for all it is for and
\* that the customer has paid at the gateway: not a payment of another
\* checkout, nor one that was replaced and never paid.
PaidForOrder ==
    \A c \in Checkouts :
        orders[c] > 0 => \E p \in Charged(c) : payments[p].order = c /\ PaidAtCashfree(p)

\* "Check if provided payment methods cover the checkout's total amount."
\* (checkout/utils.py:891): an order's captured payments cover its price.
PriceIsCaptured ==
    \A c \in Checkouts :
        orders[c] > 0 =>
            SumFunctionOnSet([ p \in DOMAIN payments |-> payments[p].row.captured_amount ],
                             Charged(c)) >= Price

VoucherOrders == { c \in VoucherCheckouts : orders[c] > 0 }

\* The voucher is never used more often than its limit, and every order that
\* has it is counted, whatever completions fail and release it meanwhile.
VoucherCounted == used <= UsageLimit /\ Cardinality(VoucherOrders) <= used

\* A voucher that applies once per customer gives its discount to one order
\* of each customer, in two browser windows too.
OneOrderPerCustomer ==
    OncePerCustomer =>
        \A c, d \in VoucherOrders : Customer[c] = Customer[d] => c = d

\* Every call ends: nobody waits for ever for a checkout, a voucher, a
\* payment or a stock row.
RequestsEnd ==
    \A r \in Requests : request[r].phase # "idle" ~> request[r].phase = "idle"

\* "capture can only be made once, even it is a partial capture"
\* (payment/models.py:115).
CapturedOnce ==
    \A p \in DOMAIN payments : payments[p].row.captured_amount <= payments[p].row.total

\* "Lock payment to protect from asynchronous modification."
\* (payment/gateway.py:60): what one request has booked on the locked row no
\* other request takes back.
CaptureStaysBooked ==
    [][ \A p \in DOMAIN payments :
          payments'[p].row.captured_amount >= payments[p].row.captured_amount ]_vars

\* "ensure the voucher usage count was not incremented" by a checkout that was
\* not completed (graphql/checkout/tests/test_checkout_complete.py:401).
UsesAreOrders ==
    (\A r \in Requests : request[r].phase = "idle") => used = Cardinality(VoucherOrders)

\* "This payment is no longer active." (payment/gateway.py:53): process_payment
\* captures only payments that are active.
CapturedWhileActive ==
    [][ \A r \in Requests :
          request'[r].capture = "done" /\ request[r].capture = "none" =>
              payments[request[r].payment].row.is_active ]_vars
=============================================================================
