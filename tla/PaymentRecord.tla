---------------------------- MODULE PaymentRecord ----------------------------
(***************************************************************************)
(* The rows of payment/models.py and the pure part of payment/utils.py:    *)
(* what a payment permits, and what one transaction does to it.  Modules   *)
(* that drive payments extend this one.                                    *)
(*                                                                         *)
(* Only the columns that steer the code are kept.  Amounts are integers of *)
(* the currency's smallest unit, a token (the gateway's reference for a    *)
(* transaction) is a natural number and 0 is the empty token.              *)
(***************************************************************************)
EXTENDS Integers, Sequences

ChargeStatus ==
    { "not-charged", "pending", "partially-charged", "fully-charged",
      "partially-refunded", "fully-refunded", "refused", "cancelled" }

TransactionKind ==
    { "auth", "capture", "capture_failed", "action_to_confirm", "void",
      "pending", "refund", "refund_ongoing", "refund_failed",
      "refund_reversed", "confirm", "cancel" }

\* "manual" is CustomPaymentChoices.MANUAL, "cashfree" the plugin that only asks
\* what the customer has paid, "plugin" any other gateway plugin.
Gateway == { "manual", "cashfree", "plugin" }

PaymentRow ==
    [ gateway         : Gateway,
      is_active       : BOOLEAN,
      to_confirm      : BOOLEAN,
      charge_status   : ChargeStatus,
      total           : Nat,
      captured_amount : Int ]

TransactionRow ==
    [ kind              : TransactionKind,
      token             : Nat,
      is_success        : BOOLEAN,
      action_required   : BOOLEAN,
      amount            : Nat,
      already_processed : BOOLEAN ]

\* create_payment: the row as it is inserted.
NewPayment(total) ==
    [ gateway |-> "plugin", is_active |-> TRUE, to_confirm |-> FALSE,
      charge_status |-> "not-charged", total |-> total, captured_amount |-> 0 ]

\* What checkoutPaymentCreate inserts, which names no other gateway.
CashfreePayment(total) == [ NewPayment(total) EXCEPT !.gateway = "cashfree" ]

\* mark_order_as_paid: a manual payment is inserted and charged in one go,
\* and never has a transaction.
ManualPayment(total) ==
    [ NewPayment(total) EXCEPT !.gateway = "manual",
                               !.charge_status = "fully-charged",
                               !.captured_amount = total ]

-----------------------------------------------------------------------------
(* What a payment permits: the predicates of models.Payment.               *)

get_charge_amount(p) == p.total - p.captured_amount

not_charged(p) == p.charge_status = "not-charged"

Succeeded(txns, kind) ==
    \E i \in DOMAIN txns : txns[i].kind = kind /\ txns[i].is_success

is_authorized(txns) ==
    \E i \in DOMAIN txns : /\ txns[i].kind = "auth"
                           /\ txns[i].is_success
                           /\ ~txns[i].action_required

can_authorize(p) == p.is_active /\ not_charged(p)

can_capture(p) == p.is_active /\ not_charged(p)

can_void(p, txns) == p.is_active /\ not_charged(p) /\ is_authorized(txns)

\* Mutant: a closed payment can be given back.
can_refund_closed(p) ==
    /\ p.charge_status \in { "partially-charged", "fully-charged", "partially-refunded" }
    /\ p.gateway # "manual"

can_refund(p) ==
    /\ p.is_active
    /\ p.charge_status \in { "partially-charged", "fully-charged", "partially-refunded" }
    /\ p.gateway # "manual"

-----------------------------------------------------------------------------
(* gateway_postprocess: the effect of one transaction on its payment.      *)

\* Mutant: the status is chosen before the amount is added.
ChargeLate(p, amount) ==
    [ p EXCEPT !.captured_amount = @ + amount,
               !.charge_status = IF get_charge_amount(p) <= 0
                                 THEN "fully-charged"
                                 ELSE "partially-charged" ]

\* CAPTURE and REFUND_REVERSED.  The code also assigns is_active = True, but
\* only on the object in memory: the column is not among changed_fields.
Charge(p, amount) ==
    LET captured == p.captured_amount + amount
    IN  [ p EXCEPT !.captured_amount = captured,
                   !.charge_status = IF p.total - captured <= 0
                                     THEN "fully-charged"
                                     ELSE "partially-charged" ]

Refund(p, amount) ==
    LET captured == p.captured_amount - amount
    IN  [ p EXCEPT !.captured_amount = captured,
                   !.is_active = @ /\ captured > 0,
                   !.charge_status = IF captured <= 0
                                     THEN "fully-refunded"
                                     ELSE "partially-refunded" ]

FailCapture(p, amount) ==
    LET captured == p.captured_amount - amount
    IN  IF p.charge_status \in { "partially-charged", "fully-charged" }
        THEN [ p EXCEPT !.captured_amount = captured,
                        !.charge_status = IF captured <= 0
                                          THEN "not-charged"
                                          ELSE "partially-charged" ]
        ELSE p

Effect(p, t) ==
    CASE t.kind \in { "capture", "refund_reversed" } -> Charge(p, t.amount)
      [] t.kind = "void"           -> [ p EXCEPT !.is_active = FALSE ]
      [] t.kind = "refund"         -> Refund(p, t.amount)
      [] t.kind = "pending"        -> [ p EXCEPT !.charge_status = "pending" ]
      [] t.kind = "cancel"         -> [ p EXCEPT !.charge_status = "cancelled" ]
      [] t.kind = "capture_failed" -> FailCapture(p, t.amount)
      [] OTHER                     -> p

\* Mutant: already_processed is not looked at.
ProcessableAgain(t) == t.is_success /\ ~t.action_required

\* A transaction has its effect once: it must have succeeded, need nothing
\* more from the customer, and not have been processed before.
Processable(t) == t.is_success /\ ~t.action_required /\ ~t.already_processed

gateway_postprocess(p, t) ==
    CASE Processable(t)                       -> Effect([p EXCEPT !.to_confirm = FALSE], t)
      [] t.is_success /\ t.action_required    -> [ p EXCEPT !.to_confirm = TRUE ]
      [] OTHER                                -> p

\* The same call, as it marks the transaction.
MarkProcessed(t) == [ t EXCEPT !.already_processed = @ \/ Processable(t) ]

-----------------------------------------------------------------------------
(* What charge_status says of captured_amount: nothing captured, part of    *)
(* the total, the total or more, part given back, all given back; and a     *)
(* payment given back in full is closed.  Modules that drive payments       *)
(* assert it of theirs.                                                     *)
Consistent(p) ==
    LET captured == p.captured_amount
    IN  CASE p.charge_status = "not-charged"        -> captured = 0
          [] p.charge_status = "partially-charged"  -> captured > 0 /\ captured < p.total
          [] p.charge_status = "fully-charged"      -> captured >= p.total
          [] p.charge_status = "partially-refunded" -> captured > 0
          [] p.charge_status = "fully-refunded"     -> captured = 0 /\ ~p.is_active
          [] OTHER -> FALSE
=============================================================================
