-------------------------- MODULE AdyenNotifications --------------------------
(***************************************************************************)
(* payment/gateways/adyen: one payment of one checkout whose gateway       *)
(* answers twice, first in the call (plugin.py) and later, when the money  *)
(* has moved or has not, in notifications (webhooks.py).  Adyen delivers a *)
(* notification until it is accepted, possibly again afterwards, and two   *)
(* of them in any order.                                                   *)
(*                                                                         *)
(* checkoutComplete locks the checkout and then the payment; a             *)
(* notification that may have to complete the checkout, and the customer   *)
(* who returns from 3D Secure, lock the payment and then the checkout.     *)
(* The other calls need the payment alone.  A call is therefore one action *)
(* per lock it waits for; the last does the work and commits.              *)
(***************************************************************************)
EXTENDS PaymentRecord, FiniteSetsExt

CONSTANTS
    Workers,          \* the web workers
    Total,            \* payment.total
    Configs,          \* the ways in which the plugin may be configured
    StaffOperations,  \* a subset of { "capture", "refund", "void" }
    Reordering,       \* bound: a notification may overtake another
    MaxPayments,      \* bound: times the payment is sent to Adyen
    MaxReferences,    \* bound: calls to Adyen that get a reference
    MaxCompletions,   \* bound: calls of checkoutComplete
    MaxRedeliveries,  \* bound, by configuration: notifications delivered again
    MaxCrashes        \* bound: workers that die after Adyen's answer

ASSUME AdyenAssumption ==
    /\ Total \in Nat \ { 0 }
    /\ Configs \subseteq [ adyen_auto_capture : BOOLEAN, auto_capture : BOOLEAN ]
    /\ Reordering \in BOOLEAN
    /\ StaffOperations \subseteq { "capture", "refund", "void" }
    /\ MaxPayments \in Nat /\ MaxReferences \in Nat /\ MaxCompletions \in Nat
    /\ MaxRedeliveries \in [ Configs -> Nat ] /\ MaxCrashes \in Nat

VARIABLES
    config,        \* the plugin's: who captures what was authorized, if not staff
    db,            \* the payment, its transactions, its checkout and order
    references,    \* external: what Adyen did, one record per pspReference
    notices,       \* external: the notifications Adyen has sent, in order
    handled,       \* the notifications that were accepted once
    call,          \* what each worker is doing
    completions,   \* history: calls of checkoutComplete
    redeliveries,  \* history: notifications delivered again
    overtaken,     \* history: a notification was handled before an older one
    unanswered     \* history: references whose answer was lost in a crash

vars == << config, db, references, notices, handled, call, completions, redeliveries,
           overtaken, unanswered >>

Event ==
    { "AUTHORISATION", "CAPTURE", "CAPTURE_FAILED", "PENDING", "CANCELLATION",
      "REFUND", "REFUND_FAILED", "REFUNDED_REVERSED" }

Reference ==
    [ op    : { "payment", "capture", "refund", "cancel" },
      amount : Nat,
      state : { "action", "received", "done", "refused", "failed" } ]

Notice ==
    [ event : Event, token : Nat, amount : Nat, success : BOOLEAN ]

TypeOK ==
    /\ config \in Configs
    /\ db.payment \in PaymentRow
    /\ db.transactions \in Seq(TransactionRow)
    /\ db.checkout \in BOOLEAN /\ db.orders \in Nat /\ db.canceled \in BOOLEAN
    /\ references \in Seq(Reference)
    /\ notices \in Seq(Notice)
    /\ handled \subseteq DOMAIN notices
    /\ call \in [ Workers -> [ task : { "idle", "complete", "webhook", "return" },
                               notice : Nat, seen : PaymentRow ] ]
    /\ completions \in Nat /\ redeliveries \in Nat
    /\ overtaken \in BOOLEAN
    /\ unanswered \subseteq DOMAIN references

Idle == [ task |-> "idle", notice |-> 0, seen |-> NewPayment(Total) ]

Init ==
    /\ config \in Configs
    /\ db = [ payment |-> NewPayment(Total), transactions |-> << >>,
              checkout |-> TRUE, orders |-> 0, canceled |-> FALSE ]
    /\ references = << >>
    /\ notices = << >>
    /\ handled = {}
    /\ call = [ w \in Workers |-> Idle ]
    /\ completions = 0
    /\ redeliveries = 0
    /\ overtaken = FALSE
    /\ unanswered = {}

-----------------------------------------------------------------------------
(* What a call reads and writes: a world w is the rows of the call's        *)
(* transaction, what Adyen has done and what it has announced.             *)

PaymentsSent == Cardinality({ t \in DOMAIN references : references[t].op = "payment" })

\* A client or staff may start a call that Adyen will be asked for.
MayCall == Len(references) < MaxReferences

World == [ db |-> db, refs |-> references, notices |-> notices ]

HasOrder(w) == w.db.orders > 0

\* The transactions of some kinds that are done: no action is required.
Done(w, kinds) ==
    { i \in DOMAIN w.db.transactions :
        LET t == w.db.transactions[i]
        IN  t.kind \in kinds /\ t.is_success /\ ~t.action_required }

WithToken(w, kinds, token) ==
    { i \in DOMAIN w.db.transactions :
        w.db.transactions[i].kind \in kinds /\ w.db.transactions[i].token = token }

Txn(kind, token, is_success, amount) ==
    [ kind |-> kind, token |-> token, is_success |-> is_success,
      action_required |-> FALSE, amount |-> amount, already_processed |-> FALSE ]

\* create_transaction alone, and followed by gateway_postprocess.
Insert(w, t) == [ w EXCEPT !.db.transactions = Append(@, t) ]

Book(w, t) ==
    [ w EXCEPT !.db.transactions = Append(@, MarkProcessed(t)),
               !.db.payment = gateway_postprocess(@, t) ]

\* Adyen takes a request and gives it a reference, the next token.
Refer(w, op, amount, state) ==
    [ w EXCEPT !.refs = Append(@, [ op |-> op, amount |-> amount, state |-> state ]) ]

NextToken(w) == Len(w.refs) + 1

Announce(w, event, token, success) ==
    [ w EXCEPT !.notices =
        Append(@, [ event |-> event, token |-> token,
                    amount |-> w.refs[token].amount, success |-> success ]) ]

\* Mutant: a kind that is none of TransactionKind.
AuthorizedKindUnknown == IF config.adyen_auto_capture THEN "capture" ELSE "authorize"

\* The kind under which an authorization is booked, and a confirmed payment.
AuthorizedKind == IF config.adyen_auto_capture THEN "capture" ELSE "auth"

ConfirmedKind ==
    IF config.adyen_auto_capture \/ config.auto_capture THEN "capture" ELSE "auth"

-----------------------------------------------------------------------------
(* plugin.py, behind the operations of payment/gateway.py.  Each returns    *)
(* the worlds it may lead to.                                              *)

\* refund_payment asks for the money; nothing is booked but the request.
refund(w, amount) ==
    LET p == w.db.payment
    IN  IF amount > 0 /\ amount <= p.captured_amount /\ can_refund(p)
           /\ Succeeded(w.db.transactions, "capture")
        THEN { Book(Refer(w, "refund", amount, "received"),
                    Txn("refund_ongoing", NextToken(w), TRUE, amount)) }
        ELSE { w }

void(w) ==
    IF Succeeded(w.db.transactions, "auth")
    THEN { Book(Refer(w, "cancel", Total, "received"),
                Txn("void", NextToken(w), TRUE, Total)) }
    ELSE { w }

capture(w, amount) ==
    LET p == w.db.payment
    IN  IF amount > 0 /\ can_capture(p) /\ amount <= get_charge_amount(p)
           /\ Succeeded(w.db.transactions, "auth")
        THEN { Book(Refer(w, "capture", amount, "received"),
                    Txn("capture", NextToken(w), TRUE, amount)) }
        ELSE { w }

\* p is the object the caller has in memory, not the row that is locked.
payment_refund_or_void(w, p) ==
    IF can_refund(p) THEN refund(w, w.db.payment.captured_amount)
    ELSE IF can_void(p, w.db.transactions) THEN void(w)
    ELSE { w }

\* What Adyen makes of a payment: it is authorized or refused at once, or
\* waits for the customer (action) or the bank (received).
Decided(w, token, state) ==
    LET decided == [ w EXCEPT !.refs[token].state = state ]
    IN  CASE state = "done"     -> Announce(decided, "AUTHORISATION", token, TRUE)
          [] state = "refused"  -> Announce(decided, "AUTHORISATION", token, FALSE)
          [] state = "received" -> Announce(decided, "PENDING", token, TRUE)
          [] OTHER              -> decided

\* A PaymentError of the plugin becomes a failed transaction.
Failed(w, kind) == [ w |-> Book(w, Txn(kind, 0, FALSE, Total)), ok |-> FALSE ]

\* Saleor captures what Adyen has just authorized, and books it under token;
\* or Adyen does not take the request.
call_capture(w, token, failed) ==
    { [ w  |-> Book(Refer(w, "capture", Total, "received"), Txn("capture", token, TRUE, Total)),
        ok |-> TRUE ],
      Failed(w, failed) }

\* The answer as a transaction, and whether it counts as a success.
Answered(w, token, state, kind, failed) ==
    CASE state = "received" -> { [ w |-> Book(w, Txn("pending", token, TRUE, Total)), ok |-> TRUE ] }
      [] state = "action"   ->
            { [ w  |-> Book(w, [ Txn(kind, 0, TRUE, Total) EXCEPT !.action_required = TRUE ]),
                ok |-> TRUE ] }
      [] state = "refused"  -> { [ w |-> Book(w, Txn(kind, token, FALSE, Total)), ok |-> FALSE ] }
      [] state = "done" /\ ~config.auto_capture ->
            { [ w |-> Book(w, Txn(kind, token, TRUE, Total)), ok |-> TRUE ] }
      [] state = "done" /\ config.auto_capture -> call_capture(w, NextToken(w), failed)

\* Without the customer's payment data there is nothing to send.
process_payment(w, has_data) ==
    IF has_data
    THEN LET token == NextToken(w)
         IN  UNION { Answered(Decided(Refer(w, "payment", Total, "action"), token, state),
                              token, state, AuthorizedKind, "capture") :
                       state \in { "action", "received", "done", "refused" } }
    ELSE { Failed(w, "capture") }

\* The payments that wait for the customer, whom payments_details answers.
AwaitingCustomer(w) ==
    { token \in DOMAIN w.refs :
        w.refs[token].op = "payment" /\ w.refs[token].state = "action" }

\* confirm_payment: a notification, or the customer's return, has left an
\* ACTION_TO_CONFIRM; if not, the customer's data finish the action.
confirm(w, has_data) ==
    LET told   == { i \in Done(w, { "action_to_confirm" }) : w.db.transactions[i].token # 0 }
        token  == w.db.transactions[Max(told)].token
        before == { i \in Done(w, { ConfirmedKind }) : w.db.transactions[i].amount = Total }
    IN  CASE told # {} /\ before # {} -> { [ w |-> w, ok |-> TRUE ] }
          [] told # {} /\ before = {} /\ ~config.auto_capture ->
                { [ w |-> Book(w, Txn(ConfirmedKind, token, TRUE, Total)), ok |-> TRUE ] }
          [] told # {} /\ before = {} /\ config.auto_capture -> call_capture(w, token, "confirm")
          [] told = {} /\ has_data /\ AwaitingCustomer(w) # {} ->
                UNION { Answered(Decided(w, t, state), t, state, ConfirmedKind, "confirm") :
                          t \in { Max(AwaitingCustomer(w)) },
                          state \in { "action", "received", "done", "refused" } }
          [] OTHER -> { Failed(w, "confirm") }

-----------------------------------------------------------------------------
(* complete_checkout, with the payment as it was when it was loaded.        *)

PlaceOrder(w) ==
    [ w EXCEPT !.db.orders = @ + 1, !.db.checkout = FALSE ]

\* The stock may be gone before the payment is processed, and after (unless
\* the references are used up: what fails asks Adyen for another).  What the
\* transaction says of action_required is not looked at.
StockMayBeGone(w) == Len(w.refs) < MaxReferences

complete_checkout(w, seen, has_data) ==
    IF ~seen.is_active
    THEN { w }
    ELSE LET charged  == IF seen.to_confirm THEN confirm(w, has_data)
                                            ELSE process_payment(w, has_data)
             paid     == { c.w : c \in { c \in charged : c.ok } }
             unpaid   == { c.w : c \in { c \in charged : ~c.ok } }
             no_stock == UNION { payment_refund_or_void(v, v.db.payment) :
                                   v \in { v \in paid : StockMayBeGone(v) } }
         IN  (IF StockMayBeGone(w) THEN payment_refund_or_void(w, seen) ELSE {})
             \cup unpaid \cup no_stock \cup { PlaceOrder(v) : v \in paid }

\* create_order of webhooks.py: a failure gives the money back (again).
create_order(w) ==
    UNION { IF HasOrder(v) THEN { v } ELSE payment_refund_or_void(v, w.db.payment) :
              v \in complete_checkout(w, w.db.payment, FALSE) }

-----------------------------------------------------------------------------
(* webhooks.py: what each notification n does to a world.                   *)

Told(n, kind) == Txn(kind, n.token, n.success, n.amount)

\* get_transaction(...) and its is_success.
Known(w, n, kind) ==
    LET found == WithToken(w, { kind }, n.token)
    IN  found # {} /\ w.db.transactions[Max(found)].is_success

handle_not_created_order(w, n, kind) ==
    LET told == Insert(w, Told(n, "action_to_confirm"))
    IN  IF w.db.payment.charge_status \notin
                { "not-charged", "pending", "partially-charged", "fully-charged" } THEN { w }
        ELSE IF Done(w, { kind }) # {} THEN create_order(w)
        ELSE IF n.success THEN create_order(told)
        ELSE { told }

handle_authorization(w, n) ==
    LET before == Done(w, { "auth", "capture" }) \cap WithToken(w, { "auth", "capture" }, n.token)
    IN  IF ~HasOrder(w) THEN handle_not_created_order(w, n, AuthorizedKind)
        ELSE IF before = {} THEN { Book(w, Told(n, AuthorizedKind)) }
        ELSE { w }

\* Mutant: a capture is booked whatever was captured before.
handle_capture_again(w, n) ==
    IF ~HasOrder(w) THEN handle_not_created_order(w, n, "capture")
                    ELSE { Book(w, Told(n, "capture")) }

handle_capture(w, n) ==
    IF ~HasOrder(w) THEN handle_not_created_order(w, n, "capture")
    ELSE IF Done(w, { "capture" }) = {} THEN { Book(w, Told(n, "capture")) }
    ELSE { Insert(w, Told(n, "capture")) }

handle_cancellation(w, n) ==
    IF Known(w, n, "cancel") THEN { w }
    ELSE { [ Book(w, Told(n, "cancel"))
             EXCEPT !.db.canceled = @ \/ (HasOrder(w) /\ n.success) ] }

\* handle_failed_capture, handle_pending and handle_refund have this shape.
Once(w, n, kind) == IF Known(w, n, kind) THEN { w } ELSE { Book(w, Told(n, kind)) }

\* Mutant: every notification of a refund is booked.
handle_refund_again(w, n) == { Book(w, Told(n, "refund")) }

handle_refund(w, n) == Once(w, n, "refund")

\* Mutant: a reversal is booked every time.
handle_reversed_refund_again(w, n) == { Book(w, Told(n, "refund_reversed")) }

handle_reversed_refund(w, n) ==
    IF WithToken(w, { "refund_reversed" }, n.token) # {} THEN { w }
    ELSE { Book(w, Told(n, "refund_reversed")) }

\* A refund that was only asked for has taken nothing: a transaction of the
\* last kind over nothing.  One that was booked is charged again.
handle_failed_refund(w, n) ==
    LET charges == Done(w, { "auth", "capture" })
        asked   == WithToken(w, { "refund_ongoing", "refund", "refund_failed" }, n.token)
        kind    == w.db.transactions[Max(asked)].kind
        last    == IF charges = {} THEN "capture" ELSE w.db.transactions[Max(charges)].kind
        failed  == Insert(w, Told(n, "refund_failed"))
    IN  CASE asked = {} -> { w }
          [] asked # {} /\ kind = "refund_failed"  -> { w }
          [] asked # {} /\ kind = "refund_ongoing" ->
                { Book(failed, [ Told(n, last) EXCEPT !.amount = 0 ]) }
          [] asked # {} /\ kind = "refund" -> { Book(failed, Told(n, "capture")) }

\* EVENT_MAP, for a payment that get_payment has found.
Handle(w, n) ==
    CASE n.event = "AUTHORISATION"     -> handle_authorization(w, n)
      [] n.event = "CAPTURE"           -> handle_capture(w, n)
      [] n.event = "CAPTURE_FAILED"    -> Once(w, n, "capture_failed")
      [] n.event = "PENDING"           -> Once(w, n, "pending")
      [] n.event = "CANCELLATION"      -> handle_cancellation(w, n)
      [] n.event = "REFUND"            -> handle_refund(w, n)
      [] n.event = "REFUND_FAILED"     -> handle_failed_refund(w, n)
      [] n.event = "REFUNDED_REVERSED" -> handle_reversed_refund(w, n)

\* get_payment: a notification finds an active payment, a cancellation any.
Finds(w, n) == w.db.payment.is_active \/ n.event = "CANCELLATION"

-----------------------------------------------------------------------------
(* Locks.  A call between its two steps holds the first of its locks.       *)

Holding(task) == { w \in Workers : call[w].task = task }

\* Mutant: get_checkout without select_for_update().
CheckoutNotLocked == TRUE

CheckoutIsFree == Holding("complete") = {}

PaymentIsFree == Holding("webhook") \cup Holding("return") = {}

Becomes(w) ==
    /\ db' = w.db
    /\ references' = w.refs
    /\ notices' = w.notices

Ends(c) == call' = [ call EXCEPT ![c] = Idle ]

History == << config, handled, completions, redeliveries, overtaken, unanswered >>

\* A notification is accepted.
Accept(i) ==
    /\ handled' = handled \cup { i }
    /\ overtaken' = (overtaken \/ (i \notin handled /\ \E j \in handled : j > i))
    /\ UNCHANGED << config, completions, redeliveries, unanswered >>

-----------------------------------------------------------------------------
(* The calls.                                                              *)

\* checkoutComplete of the customer's client.
CompleteLocksCheckout(c) ==
    /\ call[c].task = "idle"
    /\ CheckoutIsFree
    /\ db.checkout
    /\ db.payment.is_active
    /\ MayCall
    /\ db.payment.to_confirm \/ PaymentsSent < MaxPayments
    /\ completions < MaxCompletions
    /\ completions' = completions + 1
    /\ call' = [ call EXCEPT ![c] = [ Idle EXCEPT !.task = "complete", !.seen = db.payment ] ]
    /\ UNCHANGED << config, db, references, notices, handled, redeliveries, overtaken,
                    unanswered >>

CompletePays(c) ==
    /\ call[c].task = "complete"
    /\ PaymentIsFree
    /\ \E w \in complete_checkout(World, call[c].seen, TRUE) : Becomes(w)
    /\ Ends(c)
    /\ UNCHANGED History

\* The staff's mutations, each under the lock of the payment alone.
StaffCalls(w, amount) ==
    (IF "capture" \in StaffOperations THEN capture(w, amount) ELSE {})
    \cup (IF "refund" \in StaffOperations THEN refund(w, amount) ELSE {})
    \cup (IF "void" \in StaffOperations THEN void(w) ELSE {})

Staff(c) ==
    /\ call[c].task = "idle"
    /\ PaymentIsFree
    /\ db.orders > 0
    /\ db.payment.is_active
    /\ MayCall
    /\ \E amount \in 1 .. Total : \E w \in StaffCalls(World, amount) : w # World /\ Becomes(w)
    /\ UNCHANGED << call, History >>

\* A worker dies after Adyen has acted: the rows are rolled back.
Crash(c) ==
    /\ Cardinality(unanswered) < MaxCrashes
    /\ PaymentIsFree
    /\ \E w \in CASE call[c].task = "complete" -> complete_checkout(World, call[c].seen, TRUE)
                  [] call[c].task = "idle" /\ db.orders > 0 /\ db.payment.is_active /\ MayCall ->
                        UNION { StaffCalls(World, amount) : amount \in 1 .. Total }
                  [] OTHER -> {} :
          /\ Len(w.refs) > Len(references)
          /\ references' = w.refs /\ notices' = w.notices
          /\ unanswered' = unanswered \cup (Len(references) + 1 .. Len(w.refs))
    /\ Ends(c)
    /\ UNCHANGED << config, db, handled, completions, redeliveries, overtaken >>

\* Which notification is delivered now: the oldest that was not accepted, or
\* any other, or again one that was.
Delivered(i) ==
    /\ i \in DOMAIN notices
    /\ IF i \in handled
       THEN redeliveries < MaxRedeliveries[config]
       ELSE Reordering \/ \A j \in DOMAIN notices : j < i => j \in handled

\* handle_webhook: get_payment, and get_checkout where the handler asks for
\* it and the payment has one.
NeedsCheckout(n) == n.event \in { "AUTHORISATION", "CAPTURE" } /\ db.checkout

WebhookLocksPayment(c, i) ==
    /\ call[c].task = "idle"
    /\ Delivered(i)
    /\ PaymentIsFree
    /\ Finds(World, notices[i])
    /\ NeedsCheckout(notices[i])
    /\ call' = [ call EXCEPT ![c] = [ Idle EXCEPT !.task = "webhook", !.notice = i ] ]
    /\ redeliveries' = redeliveries + (IF i \in handled THEN 1 ELSE 0)
    /\ UNCHANGED << config, db, references, notices, handled, completions, overtaken,
                    unanswered >>

\* Mutant: create_order lets the ValidationError through.
WebhookFinishesOrRaises(c) ==
    /\ call[c].task = "webhook"
    /\ CheckoutIsFree
    /\ \E w \in Handle(World, notices[call[c].notice]) :
          IF HasOrder(w) THEN Becomes(w) /\ Accept(call[c].notice)
                         ELSE UNCHANGED << db, references, notices, History >>
    /\ Ends(c)

WebhookFinishes(c) ==
    /\ call[c].task = "webhook"
    /\ CheckoutIsFree
    /\ \E w \in Handle(World, notices[call[c].notice]) : Becomes(w)
    /\ Ends(c)
    /\ Accept(call[c].notice)

\* The handlers that need the payment alone, and a notification that is
\* dropped because its payment is not active.
Webhook(c, i) ==
    /\ call[c].task = "idle"
    /\ Delivered(i)
    /\ PaymentIsFree
    /\ Finds(World, notices[i]) => ~NeedsCheckout(notices[i])
    /\ \E w \in (IF Finds(World, notices[i]) THEN Handle(World, notices[i]) ELSE { World }) :
          Becomes(w)
    /\ handled' = handled \cup { i }
    /\ overtaken' = (overtaken \/ (i \notin handled /\ \E j \in handled : j > i))
    /\ redeliveries' = redeliveries + (IF i \in handled THEN 1 ELSE 0)
    /\ UNCHANGED << config, call, completions, unanswered >>

\* handle_additional_actions: the customer returns from 3D Secure, and Adyen
\* is asked before the checkout is locked.  (An answer that is still pending
\* is left out; one that asks for a further action leaves a row that no code
\* reads, and is left out too.)
ReturnLocksPayment(c) ==
    /\ call[c].task = "idle"
    /\ PaymentIsFree
    /\ db.checkout
    /\ db.payment.is_active
    /\ AwaitingCustomer(World) # {}
    /\ \E state \in { "done", "refused" } :
          LET token == Max(AwaitingCustomer(World))
              w     == Decided(World, token, state)
          IN  /\ references' = w.refs
              /\ notices' = w.notices
              /\ call' = [ call EXCEPT ![c] =
                             [ Idle EXCEPT !.task = "return", !.notice = token ] ]
    /\ UNCHANGED << db, History >>

\* handle_api_response.
ReturnFinishes(c) ==
    LET token == call[c].notice
        ok    == references[token].state = "done"
        told  == Insert(World, Txn("action_to_confirm", token, ok, Total))
    IN  /\ call[c].task = "return"
        /\ CheckoutIsFree
        /\ \E w \in (IF ok /\ ~HasOrder(World) THEN create_order(told) ELSE { told }) : Becomes(w)
        /\ Ends(c)
        /\ UNCHANGED History

\* PostgreSQL aborts a call that waits in a circle.  The client gets an
\* error, Adyen no answer: it delivers again.
DeadlockDetected(c) ==
    /\ call[c].task # "idle"
    /\ ~CheckoutIsFree
    /\ ~PaymentIsFree
    /\ Ends(c)
    /\ UNCHANGED << db, references, notices, History >>

-----------------------------------------------------------------------------
(* Adyen.  External.                                                       *)

Moved(r) ==
    IF r.state # "done" THEN 0
    ELSE CASE r.op = "payment" /\ config.adyen_auto_capture -> r.amount
           [] r.op = "capture"                           -> r.amount
           [] r.op = "refund"                            -> -r.amount
           [] OTHER                                      -> 0

Collected == MapThenSumSet(LAMBDA token : Moved(references[token]), DOMAIN references)

Cancelled ==
    \E token \in DOMAIN references :
        references[token].op = "cancel" /\ references[token].state = "done"

\* What Adyen agrees to: to capture what it authorized and has not cancelled,
\* to give back what it holds, to cancel what it has not captured.
Agrees(r) ==
    CASE r.op = "refund"  -> Collected >= r.amount
      [] r.op = "capture" -> Collected + r.amount <= Total /\ ~Cancelled
      [] r.op = "cancel"  -> Collected = 0
      [] OTHER            -> TRUE

EventOf(op) ==
    CASE op = "payment" -> "AUTHORISATION" [] op = "capture" -> "CAPTURE"
      [] op = "refund"  -> "REFUND"        [] op = "cancel"  -> "CANCELLATION"

\* A request is carried out or refused.
AdyenSettles(token) ==
    LET r == references[token]
    IN  /\ r.state = "received" \/ (r.op = "payment" /\ r.state = "action")
        /\ \E state \in { "done", "refused" } :
              /\ state = "done" => Agrees(r)
              /\ references' = [ references EXCEPT ![token].state = state ]
              /\ notices' = Append(notices,
                    [ event |-> EventOf(r.op), token |-> token, amount |-> r.amount,
                      success |-> state = "done" ])
        /\ UNCHANGED << db, call, History >>

\* The bank fails it later.
AdyenFails(token) ==
    LET r == references[token]
    IN  /\ r.state = "done"
        /\ Moved(r) # 0
        /\ Collected >= Moved(r)
        /\ references' = [ references EXCEPT ![token].state = "failed" ]
        /\ \E event \in (IF r.op = "refund" THEN { "REFUND_FAILED", "REFUNDED_REVERSED" }
                                            ELSE { "CAPTURE_FAILED" }) :
              notices' = Append(notices, [ event |-> event, token |-> token,
                                           amount |-> r.amount, success |-> TRUE ])
        /\ UNCHANGED << db, call, History >>

Next ==
    \/ \E c \in Workers :
          \/ CompleteLocksCheckout(c) \/ CompletePays(c)
          \/ Staff(c) \/ Crash(c)
          \/ \E i \in DOMAIN notices : WebhookLocksPayment(c, i) \/ Webhook(c, i)
          \/ WebhookFinishes(c)
          \/ ReturnLocksPayment(c) \/ ReturnFinishes(c)
          \/ DeadlockDetected(c)
    \/ \E token \in DOMAIN references : AdyenSettles(token) \/ AdyenFails(token)

Spec == Init /\ [][Next]_vars

\* Adyen answers every request and delivers until it is accepted; a worker
\* goes on, PostgreSQL serves the waiters of a row and breaks a circle.  (The
\* calls are bounded, so none waits for others for ever.)
Fairness ==
    /\ \A c \in Workers :
          WF_vars(CompletePays(c) \/ WebhookFinishes(c) \/ ReturnFinishes(c) \/ DeadlockDetected(c))
    /\ WF_vars(\E c \in Workers, i \in DOMAIN notices \ handled :
                  WebhookLocksPayment(c, i) \/ Webhook(c, i))
    /\ WF_vars(\E token \in DOMAIN references : AdyenSettles(token))

FairSpec == Spec /\ Fairness

-----------------------------------------------------------------------------
(* Properties.                                                             *)

\* The checkout becomes one order, although the client completes it, the
\* customer's return does, and so does every notification that finds the
\* payment without an order.
OneOrder == db.orders <= 1

\* What a transaction of a refund has added to captured_amount.
Added(t) ==
    IF ~t.already_processed THEN 0
    ELSE CASE t.kind \in { "capture", "refund_reversed" } -> t.amount
           [] t.kind = "refund"                           -> -t.amount
           [] OTHER                                       -> 0

\* What the transactions with a token have added, of the transactions ts.
BookedIn(ts, token) ==
    LET of == { i \in DOMAIN ts : ts[i].token = token }
    IN  SumFunctionOnSet([ i \in of |-> Added(ts[i]) ], of)

Booked(token) == BookedIn(db.transactions, token)

\* Adyen has said all it has to say about a request.
Concluded(token) ==
    /\ references[token].state \notin { "action", "received" }
    /\ \A i \in DOMAIN notices : notices[i].token = token => i \in handled

\* It has, in the order it happened, and no call is under way.
Settled(token) ==
    /\ Concluded(token)
    /\ \A c \in Workers : call[c].task = "idle"
    /\ ~overtaken

\* However often notifications are repeated, and even when the answer to the
\* refund itself was lost: on a payment that is still active a refund is
\* booked as Adyen carried it out, failed or reversed it.
RefundsSettle ==
    \A token \in DOMAIN references :
        references[token].op = "refund" /\ Settled(token) /\ db.payment.is_active =>
            Booked(token) = Moved(references[token])

\* What was accepted came in the order in which it was sent, and nothing older
\* is still to come.
InOrder == ~overtaken /\ \A i \in handled, j \in DOMAIN notices : j < i => j \in handled

\* The failure of a capture was told before a capture was booked, or after a
\* refund was: gateway_postprocess looks at the payment's status alone.
FailureMissed ==
    LET ts         == db.transactions
        Before(i, kinds) == { j \in 1 .. i - 1 : ts[j].kind \in kinds /\ ts[j].already_processed }
    IN  \E i \in DOMAIN ts :
          /\ ts[i].kind = "capture_failed"
          /\ \/ Before(i, { "capture" }) = {}
             \/ Before(i, { "refund_ongoing", "refund" }) # {}

\* When Adyen has said all it has to say, in the order in which it happened, an
\* order's payment that is still active has captured what Adyen has collected,
\* whoever captures: staff, Adyen or Saleor, in the call that authorizes the
\* payment or when the customer has confirmed it.  What the code misses is left
\* out: the capture whose answer was lost, the one that Adyen took and then
\* refused, the failure of one that the payment's status hides, and the first
\* attempt of a payment that was sent again.
CapturesSettle ==
    /\ db.orders > 0 /\ PaymentsSent = 1 /\ db.payment.is_active
    /\ InOrder /\ ~FailureMissed
    /\ \A token \in DOMAIN references :
         /\ Concluded(token)
         /\ references[token].op = "capture" =>
              token \notin unanswered /\ references[token].state # "refused"
    => db.payment.captured_amount = Collected

\* A capture that Saleor asked for and of which no answer came: told before
\* there is an order it is an ACTION_TO_CONFIRM, told again after, a capture.
CaptureLost(token) ==
    references[token].op = "capture" /\ config.auto_capture /\ token \in unanswered

\* A notification of a capture, a refund or a cancellation that comes again
\* leaves the payment and its order as they are.
RedeliveryIsIdle ==
    [][ \A c \in Workers, i \in handled :
          /\ Webhook(c, i)
          /\ references[notices[i].token].op # "payment"
          /\ ~CaptureLost(notices[i].token)
          /\ ~overtaken
          => db'.payment = db.payment /\ db'.canceled = db.canceled ]_vars

\* "Set to true if payment needs to be confirmed before checkout is complete"
\* (graphql/checkout/mutations.py:996); and test_checkout_complete.py:480
\* expects no order yet.
ConfirmedBeforeOrder == ~(db.orders > 0 /\ db.payment.to_confirm)

\* To be run by hand: refunds whose failure is told before their success, and
\* refunds that are asked for again while the first is on its way.
RefundsSettleInAnyOrder ==
    \A token \in DOMAIN references :
        /\ references[token].op = "refund" /\ Concluded(token) /\ db.payment.is_active
        => Booked(token) = Moved(references[token])

RefundsWithinCaptured ==
    MapThenSumSet(LAMBDA i : IF db.transactions[i].kind = "refund_ongoing"
                             THEN db.transactions[i].amount ELSE 0,
                  DOMAIN db.transactions) <= Total

\* Every notification is accepted in the end, although its call may be the one
\* that a circle of locks costs: again and again a time comes when none of
\* those that Adyen has sent is still to be accepted.
NoticesAccepted == []<>(DOMAIN notices \subseteq handled)
=============================================================================
