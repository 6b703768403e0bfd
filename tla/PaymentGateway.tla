---------------------------- MODULE PaymentGateway ----------------------------
(***************************************************************************)
(* payment/gateway.py: the operations on one payment row, each called by a *)
(* web request, with a gateway that answers in the call: one that moves    *)
(* the money in it (dummy, Stripe, Razorpay, Braintree), or Cashfree,      *)
(* which only asks whether the customer has paid.                          *)
(*                                                                         *)
(* Every operation is wrapped the same way:                                *)
(*   require_active_payment  looks at is_active on the object its caller   *)
(*                           loaded, before any lock (Request);            *)
(*   with_locked_payment     opens a transaction and re-reads the row with *)
(*                           SELECT FOR UPDATE, then the body validates    *)
(*                           (BeginOperation, RejectOperation);            *)
(*   the gateway is called with the lock held (GatewayAnswers);            *)
(*   a Transaction is inserted, payment_postprocess applies it and the     *)
(*   database transaction commits (Commit).                                *)
(* A worker that dies, or a database error, between the gateway's answer   *)
(* and the commit rolls the books back but not the gateway (Crash).        *)
(*                                                                         *)
(* create_payment is no such operation: it inserts the row, asks Cashfree  *)
(* for an order, and saves every column as it inserted them (SavePayment). *)
(***************************************************************************)
EXTENDS PaymentRecord

CONSTANTS
    Requests,          \* the web workers
    Operations,        \* the operations they call, a subset of AllOperations
    Total,             \* payment.total
    Amounts,           \* the amounts a caller may ask to capture or refund
    MaxTransactions,   \* bound: no request starts once the payment has that many
    MaxCrashes,        \* bound: workers that die
    MaxSaves           \* bound: calls of create_payment that share the row

AllOperations ==
    { "process", "authorize", "capture", "refund", "void", "confirm", "cancel" }

NoAmount  == -1   \* amount = None
NoRequest == 0    \* nobody holds the row lock

ASSUME PaymentAssumption ==
    /\ Operations \subseteq AllOperations
    /\ Total \in Nat
    /\ Amounts \subseteq Nat
    /\ MaxTransactions \in Nat
    /\ MaxCrashes \in Nat
    /\ MaxSaves \in Nat
    /\ NoRequest \notin Requests

VARIABLES
    payment,        \* the payment_payment row
    transactions,   \* its payment_transaction rows, in pk order
    lock,           \* the request that holds the row lock
    request,        \* what each worker is doing
    saving,         \* calls of create_payment that have not saved the row yet
    collected,      \* external: money the gateway holds for this payment
    unrecorded,     \* history: money moved by answers that were not booked
    crashes         \* history: workers that died

vars == << payment, transactions, lock, request, saving, collected, unrecorded, crashes >>

Response ==
    [ kind : TransactionKind, is_success : BOOLEAN, action_required : BOOLEAN,
      moved : Int ]

NoResponse ==
    [ kind |-> "auth", is_success |-> FALSE, action_required |-> FALSE, moved |-> 0 ]

RequestRow ==
    [ phase    : { "idle", "checked", "calling", "answered" },
      op       : AllOperations,
      amount   : Nat \cup { NoAmount },
      response : Response ]

Idle ==
    [ phase |-> "idle", op |-> "void", amount |-> NoAmount, response |-> NoResponse ]

TypeOK ==
    /\ payment \in PaymentRow
    /\ transactions \in Seq(TransactionRow)
    /\ lock \in Requests \cup { NoRequest }
    /\ request \in [ Requests -> RequestRow ]
    /\ saving \in Nat
    /\ collected \in Int
    /\ unrecorded \in Int
    /\ crashes \in Nat

Init ==
    /\ payment \in { NewPayment(Total), CashfreePayment(Total), ManualPayment(Total) }
    /\ saving \in IF payment.gateway = "cashfree" THEN 0..MaxSaves ELSE { 0 }
    /\ transactions = << >>
    /\ lock = NoRequest
    /\ request = [ r \in Requests |-> Idle ]
    /\ collected = payment.captured_amount
    /\ unrecorded = 0
    /\ crashes = 0

-----------------------------------------------------------------------------
(* What the body of an operation checks on the row it has locked.          *)

\* Mutant: a missing amount is passed on as it is.
ResolvedAmountMissing(op, amount) == amount

\* payment_information.amount, and for capture and refund what "the whole of
\* it" means when the caller gives no amount.
ResolvedAmount(op, amount) ==
    CASE amount # NoAmount -> amount
      [] amount = NoAmount /\ op = "capture" -> get_charge_amount(payment)
      [] amount = NoAmount /\ op = "refund"  -> payment.captured_amount
      [] OTHER -> payment.total

\* Mutant: the charge status and what is already captured are not looked at.
clean_capture_again(amount) ==
    /\ amount > 0
    /\ amount <= payment.total

clean_capture(amount) ==
    /\ amount > 0
    /\ can_capture(payment)
    /\ amount <= payment.total
    /\ amount <= get_charge_amount(payment)

_validate_refund_amount(amount) ==
    /\ amount > 0
    /\ amount <= payment.captured_amount

\* The checks of each body, _get_past_transaction_token included.
Permitted(op, amount) ==
    CASE op = "authorize" -> can_authorize(payment)
      [] op = "capture"   -> clean_capture(amount) /\ Succeeded(transactions, "auth")
      [] op = "refund"    -> /\ _validate_refund_amount(amount)
                             /\ can_refund(payment)
                             /\ Succeeded(transactions, "capture")
      [] op = "void"      -> Succeeded(transactions, "auth")
      [] OTHER            -> TRUE       \* process_payment and confirm check nothing

-----------------------------------------------------------------------------
(* What the gateway plugins answer.                                        *)

\* The kinds of a successful answer: process_payment authorizes (Stripe) or
\* captures (dummy, Razorpay, Cashfree), confirm answers CAPTURE (dummy) or
\* CONFIRM (Stripe).
SuccessKinds(op) ==
    CASE op = "process"   -> { "auth", "capture" }
      [] op = "authorize" -> { "auth" }
      [] op = "capture"   -> { "capture" }
      [] op = "refund"    -> { "refund" }
      [] op = "void"      -> { "void" }
      [] op = "confirm"   -> { "capture", "confirm" }

\* The kind of the transaction inserted when there is no usable answer.
DefaultKind(op) ==
    CASE op \in { "process", "capture" } -> "capture"
      [] op = "authorize" -> "auth"
      [] OTHER -> op

\* What the gateway may have moved when it carried out an operation of this
\* kind.  Stripe's void refunds the charge, and its confirm may charge.
Moves(kind, amount) ==
    CASE kind = "capture" -> { amount }
      [] kind = "refund"  -> { -amount }
      [] kind = "void"    -> { 0, -collected }
      [] kind = "confirm" -> { 0, amount }
      [] OTHER            -> { 0 }

Answer(kind, is_success, action_required, moved) ==
    [ kind |-> kind, is_success |-> is_success,
      action_required |-> action_required, moved |-> moved ]

Carried(op, amount) ==
    UNION { { Answer(kind, TRUE, FALSE, moved) : moved \in Moves(kind, amount) }
            : kind \in SuccessKinds(op) }

\* 3D Secure and the like: accepted, but the customer has something to do.
NeedsAction(op) ==
    IF op \in { "process", "confirm" }
    THEN { Answer(kind, TRUE, TRUE, 0) : kind \in SuccessKinds(op) }
    ELSE {}

Declined(op) == { Answer(DefaultKind(op), FALSE, FALSE, 0) }

\* _fetch_gateway_response turns an error of the plugin into a failed
\* transaction, whether or not the gateway had carried the operation out.
AnswerLost(op, amount) ==
    { Answer(DefaultKind(op), FALSE, FALSE, a.moved) : a \in Carried(op, amount) }

\* Cashfree: process_payment and capture look the order up and answer CAPTURE
\* once the customer has paid it (or there is nothing to pay), however often
\* they are asked; nothing is moved.  A refund is always refused, and the
\* plugin has no other operation.
CashfreeResponses(op, amount) ==
    Declined(op) \cup
    IF op \in { "process", "capture" } /\ (amount = 0 \/ collected > 0)
    THEN { Answer("capture", TRUE, FALSE, 0) }
    ELSE {}

GatewayResponses(op, amount) ==
    IF payment.gateway = "cashfree"
    THEN CashfreeResponses(op, amount)
    ELSE Carried(op, amount) \cup NeedsAction(op) \cup Declined(op) \cup AnswerLost(op, amount)

\* Answers that gateway_postprocess books, and what it books of them.
Books(response) ==
    /\ response.is_success
    /\ ~response.action_required
    /\ response.kind \in { "capture", "refund" }

\* What moved in an answer that is not booked.
Missed(response) == IF Books(response) THEN 0 ELSE response.moved

-----------------------------------------------------------------------------
(* The steps of a request.                                                 *)

\* A caller loads the payment, without a lock, and passes the decorator
\* require_active_payment.  There is no plugin behind a manual payment: only
\* the staff's operations, which validate first, are tried on one.
Request(r, op, amount) ==
    /\ request[r].phase = "idle"
    /\ op \in Operations \ { "cancel" }
    /\ amount \in IF op \in { "capture", "refund" } THEN Amounts \cup { NoAmount }
                                                    ELSE { NoAmount }
    /\ payment.is_active
    /\ payment.gateway = "manual" => op \in { "capture", "refund", "void" }
    /\ Len(transactions) < MaxTransactions
    /\ request' = [ request EXCEPT ![r] =
                       [ Idle EXCEPT !.phase = "checked", !.op = op, !.amount = amount ] ]
    /\ UNCHANGED << payment, transactions, lock, saving, collected, unrecorded, crashes >>

\* Mutant: get() without select_for_update().
BeginOperationUnlocked(r) ==
    LET op     == request[r].op
        amount == ResolvedAmount(op, request[r].amount)
    IN  /\ request[r].phase = "checked"
        /\ Permitted(op, amount)
        /\ request' = [ request EXCEPT ![r].phase = "calling", ![r].amount = amount ]
        /\ UNCHANGED << payment, transactions, lock, saving, collected, unrecorded, crashes >>

\* with_locked_payment and the validation that follows it.
BeginOperation(r) ==
    LET op     == request[r].op
        amount == ResolvedAmount(op, request[r].amount)
    IN  /\ request[r].phase = "checked"
        /\ lock = NoRequest
        /\ Permitted(op, amount)
        /\ lock' = r
        /\ request' = [ request EXCEPT ![r].phase = "calling", ![r].amount = amount ]
        /\ UNCHANGED << payment, transactions, saving, collected, unrecorded, crashes >>

\* The validation raises PaymentError: the transaction ends, nothing is saved.
RejectOperation(r) ==
    LET op == request[r].op
    IN  /\ request[r].phase = "checked"
        /\ lock = NoRequest
        /\ ~Permitted(op, ResolvedAmount(op, request[r].amount))
        /\ request' = [ request EXCEPT ![r] = Idle ]
        /\ UNCHANGED << payment, transactions, lock, saving, collected, unrecorded, crashes >>

\* The plugin's call returns, or fails.  External.
GatewayAnswers(r) ==
    /\ request[r].phase = "calling"
    /\ \E response \in GatewayResponses(request[r].op, request[r].amount) :
          /\ request' = [ request EXCEPT ![r].phase = "answered", ![r].response = response ]
          /\ collected' = collected + response.moved
    /\ UNCHANGED << payment, transactions, lock, saving, unrecorded, crashes >>

\* create_transaction: the row inserted for an answer.
create_transaction(response, amount) ==
    [ kind |-> response.kind, token |-> 0, is_success |-> response.is_success,
      action_required |-> response.action_required, amount |-> amount,
      already_processed |-> FALSE ]

\* payment_postprocess runs inside the lock, and capture is decorated with
\* it a second time.
Postprocessed(op, p, t) ==
    IF op = "capture"
    THEN gateway_postprocess(gateway_postprocess(p, t), MarkProcessed(t))
    ELSE gateway_postprocess(p, t)

\* Mutant: the transaction is left open after an answer.
CommitLocked(r) ==
    LET response == request[r].response
        txn      == create_transaction(response, request[r].amount)
    IN  /\ request[r].phase = "answered"
        /\ payment' = Postprocessed(request[r].op, payment, txn)
        /\ transactions' = Append(transactions, MarkProcessed(txn))
        /\ unrecorded' = unrecorded + Missed(response)
        /\ request' = [ request EXCEPT ![r] = Idle ]
        /\ UNCHANGED << lock, saving, collected, crashes >>

Commit(r) ==
    LET response == request[r].response
        txn      == create_transaction(response, request[r].amount)
    IN  /\ request[r].phase = "answered"
        /\ payment' = Postprocessed(request[r].op, payment, txn)
        /\ transactions' = Append(transactions, MarkProcessed(txn))
        /\ unrecorded' = unrecorded + Missed(response)
        /\ lock' = NoRequest
        /\ request' = [ request EXCEPT ![r] = Idle ]
        /\ UNCHANGED << saving, collected, crashes >>

\* The worker dies, or the database refuses the commit.
Crash(r) ==
    /\ request[r].phase \in { "calling", "answered" }
    /\ crashes < MaxCrashes
    /\ crashes' = crashes + 1
    /\ unrecorded' = unrecorded + request[r].response.moved
    /\ lock' = NoRequest
    /\ request' = [ request EXCEPT ![r] = Idle ]
    /\ UNCHANGED << payment, transactions, saving, collected >>

\* cancel_active_payments: the customer opens another payment for the same
\* checkout.  One UPDATE, which waits for the row lock.
CancelActivePayments ==
    /\ "cancel" \in Operations
    /\ payment.gateway # "manual"
    /\ lock = NoRequest
    /\ payment.is_active
    /\ payment' = [ payment EXCEPT !.is_active = FALSE ]
    /\ UNCHANGED << transactions, lock, request, saving, collected, unrecorded, crashes >>

\* create_payment's payment.save(), after Cashfree has given it an order: all
\* columns as they were inserted, whatever has happened to the row since.
SavePayment ==
    /\ saving > 0
    /\ lock = NoRequest
    /\ payment' = CashfreePayment(Total)
    /\ saving' = saving - 1
    /\ UNCHANGED << transactions, lock, request, collected, unrecorded, crashes >>

\* Or Cashfree gives it none and the call ends.
DropPayment ==
    /\ saving > 0
    /\ saving' = saving - 1
    /\ UNCHANGED << payment, transactions, lock, request, collected, unrecorded, crashes >>

\* The customer pays the order at Cashfree.  External.
CustomerPays ==
    /\ payment.gateway = "cashfree"
    /\ collected = 0
    /\ collected' = payment.total
    /\ UNCHANGED << payment, transactions, lock, request, saving, unrecorded, crashes >>

\* Every request has been answered and no further one is allowed.
Done ==
    /\ \A r \in Requests : request[r].phase = "idle"
    /\ UNCHANGED vars

Next ==
    \/ \E r \in Requests :
          \/ \E op \in AllOperations, amount \in Amounts \cup { NoAmount } :
                Request(r, op, amount)
          \/ BeginOperation(r)
          \/ RejectOperation(r)
          \/ GatewayAnswers(r)
          \/ Commit(r)
          \/ Crash(r)
    \/ CancelActivePayments
    \/ SavePayment
    \/ DropPayment
    \/ CustomerPays
    \/ Done

\* A worker runs to the end of its request, a gateway call times out at the
\* latest, and PostgreSQL queues the waiters of a row lock: a request that
\* waits gets the lock after finitely many others.
Fairness ==
    \A r \in Requests :
        /\ SF_vars(BeginOperation(r) \/ RejectOperation(r))
        /\ WF_vars(GatewayAnswers(r))
        /\ WF_vars(Commit(r))

Spec == Init /\ [][Next]_vars

FairSpec == Spec /\ Fairness

-----------------------------------------------------------------------------
(* Properties.                                                             *)

\* What an operation validated before it called the gateway is still true
\* when the answer is booked, whoever else was at work in between.
StillPermitted ==
    \A r \in Requests :
        request[r].phase \in { "calling", "answered" } =>
            Permitted(request[r].op, request[r].amount)

\* charge_status says what captured_amount says, whichever requests raced
\* for the row.
StatusMatchesMoney == Consistent(payment)

\* The books agree with the gateway.  Where a call moves the money, the gateway
\* holds captured_amount, plus what answers moved that were lost, rolled back
\* or of a kind that is not booked, plus what the request in flight has moved:
\* whatever is booked was moved, once, and whatever was moved and booked stays.
\* Cashfree's books only promise that nothing is captured which the customer
\* has not paid: the same money may be booked again by a second
\* process_payment (CheckoutCompletion), and be forgotten by SavePayment.
BooksMatchGateway ==
    IF payment.gateway = "cashfree"
    THEN payment.captured_amount > 0 => collected = payment.total
    ELSE collected = payment.captured_amount + unrecorded
                   + IF lock = NoRequest THEN 0 ELSE request[lock].response.moved

\* Staff cannot capture more than the order's payment, even in two requests
\* that both saw it uncharged.  (process_payment and confirm check nothing;
\* see CheckoutCompletion for what may repeat them.)
CapturedWithinTotal ==
    Operations \cap { "process", "confirm" } = {} =>
        payment.captured_amount <= payment.total

\* A payment that was voided, given back in full or cancelled is never
\* active again and never given back (again), although requests that had
\* loaded it before are still waiting for its lock; and the staff's
\* operations leave its money alone altogether.  This holds from the moment
\* the create_payment calls that know the row have ended: their save makes a
\* cancelled payment active again (InactiveForGood).
InactiveIsFinal ==
    [][ ~payment.is_active /\ saving = 0 =>
          /\ ~payment'.is_active
          /\ payment'.captured_amount >= payment.captured_amount
          /\ Operations \cap { "process", "confirm" } = {} =>
                payment'.captured_amount = payment.captured_amount ]_vars

\* The same without the condition, which SavePayment breaks.
InactiveForGood == [][ ~payment.is_active => ~payment'.is_active ]_vars

\* Every operation that is started is answered and frees the row.
RequestsEnd ==
    \A r \in Requests : request[r].phase # "idle" ~> request[r].phase = "idle"

\* "Only pre-authorized payments can be voided"
\* (graphql/order/mutations/orders.py:112): the void operation reaches a
\* payment that can_void allows.
VoidOnlyPreAuthorized ==
    [][ \A r \in Requests :
          /\ request[r].op = "void"
          /\ request[r].phase = "checked"
          /\ request'[r].phase = "calling"
          => can_void(payment, transactions) ]_vars
=============================================================================
