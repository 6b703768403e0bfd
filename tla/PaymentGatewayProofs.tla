------------------------ MODULE PaymentGatewayProofs ------------------------
(***************************************************************************)
(* Proofs about PaymentGateway, for every set of workers, every choice of  *)
(* operations and every payment total.                                     *)
(*                                                                         *)
(* The properties are not inductive on their own: what a commit books was  *)
(* decided two steps earlier.  IInv adds who holds the row lock, that what *)
(* was validated under it still holds, and the shape of an answer that     *)
(* waits to be booked.                                                     *)
(***************************************************************************)
EXTENDS PaymentGateway, TLAPS

\* The lock is held by the request that talks to the gateway, if any.
LockHolder ==
    \A r \in Requests :
        lock = r <=> request[r].phase \in { "calling", "answered" }

\* What gateway_postprocess adds to captured_amount.
Booked(response, amount) ==
    CASE Books(response) /\ response.kind = "capture" -> amount
      [] Books(response) /\ response.kind = "refund"  -> -amount
      [] OTHER -> 0

\* What is known of one request.
RequestOK(q) ==
    /\ q.op # "cancel"
    /\ q.phase = "checked" /\ q.op \notin { "capture", "refund" } => q.amount = NoAmount
    /\ q.phase # "answered" => q.response.moved = 0
    /\ q.phase \in { "calling", "answered" } => q.amount \in Nat
    /\ q.phase = "answered" =>
         /\ q.response.is_success /\ ~q.response.action_required =>
              q.response.kind \in SuccessKinds(q.op)
         /\ q.response.action_required =>
              /\ q.op \in { "process", "confirm" }
              /\ q.response.moved = 0

\* process_payment and confirm always ask for the whole of the payment.
WholeAmount(q) ==
    /\ q.phase \in { "calling", "answered" }
    /\ q.op \in { "process", "confirm" }
    => q.amount = payment.total

\* An answer that will be booked has moved what it books; Cashfree's was
\* given because the customer has paid.
MovedOK(q) ==
    q.phase = "answered" /\ Books(q.response) =>
        IF payment.gateway = "cashfree"
        THEN q.response.kind = "capture" /\ (q.amount > 0 => collected = payment.total)
        ELSE q.response.moved = Booked(q.response, q.amount)

\* The customer pays the whole, and only Cashfree's row is saved late.
CashfreeOK ==
    /\ payment.gateway = "cashfree" => collected \in { 0, payment.total }
    /\ saving > 0 => payment.gateway = "cashfree"

IInv ==
    /\ TypeOK
    /\ LockHolder
    /\ StillPermitted
    /\ \A r \in Requests : RequestOK(request[r]) /\ WholeAmount(request[r]) /\ MovedOK(request[r])
    /\ payment.total = Total
    /\ CashfreeOK
    /\ StatusMatchesMoney
    /\ BooksMatchGateway

-----------------------------------------------------------------------------
(* Lemmas about the operators of PaymentRecord and the gateway's answers.   *)

\* What Charge and Refund do to the status, given what callers validate.
LEMMA ChargeConsistent ==
    ASSUME NEW p \in PaymentRow, Consistent(p),
           NEW amount \in Nat,
           amount = p.total \/ (not_charged(p) /\ amount > 0)
    PROVE  /\ Charge(p, amount) \in PaymentRow
           /\ Charge(p, amount).total = p.total
           /\ Charge(p, amount).gateway = p.gateway
           /\ Charge(p, amount).is_active = p.is_active
           /\ Charge(p, amount).captured_amount = p.captured_amount + amount
           /\ Consistent(Charge(p, amount))
<1> DEFINE q == Charge(p, amount)
<1>1. p.captured_amount \in Int /\ p.total \in Nat
  BY DEF PaymentRow
<1>2. /\ q.total = p.total
      /\ q.gateway = p.gateway
      /\ q.is_active = p.is_active
      /\ q.captured_amount = p.captured_amount + amount
      /\ q.charge_status = IF p.total - (p.captured_amount + amount) <= 0
                           THEN "fully-charged" ELSE "partially-charged"
  BY DEF PaymentRow, Charge
<1>3. q \in PaymentRow
  <2>1. p.captured_amount + amount \in Int
    BY <1>1
  <2>2. (IF p.total - (p.captured_amount + amount) <= 0
         THEN "fully-charged" ELSE "partially-charged") \in ChargeStatus
    BY DEF ChargeStatus
  <2> QED BY <2>1, <2>2, Zenon DEF PaymentRow, Charge
<1>4. p.captured_amount >= 0 /\ (not_charged(p) => p.captured_amount = 0)
  BY <1>1 DEF Consistent, not_charged
<1>5. Consistent(q)
  BY <1>1, <1>2, <1>4 DEF Consistent
<1> QED BY <1>2, <1>3, <1>5

LEMMA RefundConsistent ==
    ASSUME NEW p \in PaymentRow, Consistent(p),
           NEW amount \in Nat, amount > 0, amount <= p.captured_amount
    PROVE  /\ Refund(p, amount) \in PaymentRow
           /\ Refund(p, amount).total = p.total
           /\ Refund(p, amount).gateway = p.gateway
           /\ Refund(p, amount).captured_amount = p.captured_amount - amount
           /\ Refund(p, amount).is_active => p.is_active
           /\ Consistent(Refund(p, amount))
<1> DEFINE q == Refund(p, amount)
<1>1. p.captured_amount \in Int /\ p.total \in Nat /\ p.captured_amount - amount \in Int
  BY DEF PaymentRow
<1>2. /\ q.total = p.total
      /\ q.gateway = p.gateway
      /\ q.captured_amount = p.captured_amount - amount
      /\ q.is_active = (p.is_active /\ p.captured_amount - amount > 0)
      /\ q.charge_status = IF p.captured_amount - amount <= 0
                           THEN "fully-refunded" ELSE "partially-refunded"
  BY Zenon DEF PaymentRow, Refund
<1>3. q \in PaymentRow
  <2>1. (p.is_active /\ p.captured_amount - amount > 0) \in BOOLEAN
    OBVIOUS
  <2>2. (IF p.captured_amount - amount <= 0
         THEN "fully-refunded" ELSE "partially-refunded") \in ChargeStatus
    BY DEF ChargeStatus
  <2> QED BY <1>1, <2>1, <2>2, Zenon DEF PaymentRow, Refund
<1>4. p.captured_amount - amount <= 0 => ~ (p.captured_amount - amount > 0)
  BY <1>1
<1>5. p.captured_amount - amount <= 0 => ~q.is_active
  BY <1>2, <1>4, Zenon
<1> HIDE DEF q
<1>6. Consistent(q)
  BY <1>1, <1>2, <1>5 DEF Consistent
<1>7. q.is_active => p.is_active
  BY <1>2, Zenon
<1> QED BY <1>2, <1>3, <1>6, <1>7 DEF q

\* Every answer the gateway may give has the shape RequestOK asks for.
LEMMA ResponseShape ==
    ASSUME collected \in Int, CashfreeOK,
           NEW op \in AllOperations \ { "cancel" }, NEW amount \in Nat,
           NEW a \in GatewayResponses(op, amount)
    PROVE  /\ a \in Response
           /\ a.is_success /\ ~a.action_required => a.kind \in SuccessKinds(op)
           /\ a.action_required => op \in { "process", "confirm" } /\ a.moved = 0
           /\ Books(a) =>
                IF payment.gateway = "cashfree"
                THEN a.kind = "capture" /\ (amount > 0 => collected = payment.total)
                ELSE a.moved = Booked(a, amount)
           /\ payment.gateway = "cashfree" => a.moved = 0
<1>1. \A kind \in SuccessKinds(op) : kind \in TransactionKind
  BY DEF SuccessKinds, TransactionKind, AllOperations
<1>2. DefaultKind(op) \in TransactionKind
  BY DEF DefaultKind, TransactionKind, AllOperations
<1>3. \A kind : Moves(kind, amount) \subseteq Int
  BY DEF Moves
<1>4. CASE payment.gateway # "cashfree" /\ a \in Carried(op, amount)
  <2>1. PICK kind \in SuccessKinds(op) :
           \E moved \in Moves(kind, amount) : a = Answer(kind, TRUE, FALSE, moved)
    BY <1>4, Zenon DEF Carried
  <2>0. PICK moved \in Moves(kind, amount) : a = Answer(kind, TRUE, FALSE, moved)
    BY <2>1
  <2>2. moved \in Int /\ kind \in TransactionKind
    BY <1>1, <1>3
  <2>3. (kind = "capture" => moved = amount) /\ (kind = "refund" => moved = -amount)
    BY DEF Moves
  <2>4. /\ a \in Response
        /\ a.kind = kind
        /\ a.action_required = FALSE
        /\ a.moved = moved
    BY <2>0, <2>2, Zenon DEF Answer, Response
  <2>5. Books(a) => a.moved = Booked(a, amount)
    BY <2>3, <2>4 DEF Books, Booked
  <2> QED BY <1>4, <2>2, <2>4, <2>5
<1>5. CASE payment.gateway # "cashfree" /\ a \in NeedsAction(op)
  <2>1. op \in { "process", "confirm" }
    BY <1>5 DEF NeedsAction
  <2>2. PICK kind \in SuccessKinds(op) : a = Answer(kind, TRUE, TRUE, 0)
    BY <1>5, <2>1, Zenon DEF NeedsAction
  <2>3. /\ a \in Response
        /\ a.action_required = TRUE
        /\ a.moved = 0
    BY <1>1, <2>2, 0 \in Int, Zenon DEF Answer, Response
  <2> QED BY <1>5, <2>1, <2>3 DEF Books
<1>6. CASE a \in Declined(op)
  <2>1. a = Answer(DefaultKind(op), FALSE, FALSE, 0)
    BY <1>6 DEF Declined
  <2>2. a \in Response /\ a.is_success = FALSE /\ a.action_required = FALSE /\ a.moved = 0
    BY <1>2, <2>1, 0 \in Int, Zenon DEF Answer, Response
  <2> QED BY <2>2 DEF Books
<1>7. CASE payment.gateway # "cashfree" /\ a \in AnswerLost(op, amount)
  <2>1. PICK c \in Carried(op, amount) : a = Answer(DefaultKind(op), FALSE, FALSE, c.moved)
    BY <1>7, Zenon DEF AnswerLost
  <2>2. PICK kind \in SuccessKinds(op) :
           \E moved \in Moves(kind, amount) : c = Answer(kind, TRUE, FALSE, moved)
    BY <2>1, Zenon DEF Carried
  <2>3. c.moved \in Int
    BY <1>3, <2>2 DEF Answer
  <2>4. a \in Response /\ a.is_success = FALSE /\ a.action_required = FALSE
    BY <1>2, <2>1, <2>3, Zenon DEF Answer, Response
  <2> QED BY <1>7, <2>4 DEF Books
<1>8. CASE /\ payment.gateway = "cashfree"
           /\ op \in { "process", "capture" }
           /\ amount = 0 \/ collected > 0
           /\ a = Answer("capture", TRUE, FALSE, 0)
  <2>1. /\ a \in Response
        /\ a.kind = "capture"
        /\ a.action_required = FALSE
        /\ a.moved = 0
    BY <1>8, 0 \in Int, Zenon DEF Answer, Response, TransactionKind
  <2>2. "capture" \in SuccessKinds(op)
    BY <1>8 DEF SuccessKinds
  <2>3. amount > 0 => collected = payment.total
    BY <1>8 DEF CashfreeOK
  <2> QED BY <1>8, <2>1, <2>2, <2>3
<1> QED BY <1>4, <1>5, <1>6, <1>7, <1>8 DEF GatewayResponses, CashfreeResponses

\* capture's second postprocess finds the transaction processed already.
LEMMA PostprocessedOnce ==
    ASSUME NEW op, NEW p, NEW a \in Response, NEW amount \in Nat,
           a.action_required => op # "capture"
    PROVE  Postprocessed(op, p, create_transaction(a, amount))
             = gateway_postprocess(p, create_transaction(a, amount))
BY DEF Postprocessed, gateway_postprocess, Processable, MarkProcessed,
       create_transaction, Response

LEMMA TransactionType ==
    ASSUME NEW a \in Response, NEW amount \in Nat
    PROVE  MarkProcessed(create_transaction(a, amount)) \in TransactionRow
BY DEF MarkProcessed, Processable, create_transaction, Response, TransactionRow

\* What one answer does to the row, and that the row stays consistent.
LEMMA CommitEffect ==
    ASSUME IInv, NEW r \in Requests, request[r].phase = "answered",
           NEW t, t = create_transaction(request[r].response, request[r].amount),
           NEW q, q = Postprocessed(request[r].op, payment, t)
    PROVE  /\ q \in PaymentRow
           /\ q.total = payment.total
           /\ q.gateway = payment.gateway
           /\ q.captured_amount = payment.captured_amount
                                   + Booked(request[r].response, request[r].amount)
           /\ q.is_active => payment.is_active
           /\ Consistent(q)
<1> DEFINE op == request[r].op
           amount == request[r].amount
           a == request[r].response
           p == [ payment EXCEPT !.to_confirm = FALSE ]
<1>1. /\ payment \in PaymentRow
      /\ Consistent(payment)
      /\ op \in AllOperations
      /\ amount \in Nat
      /\ a \in Response
      /\ RequestOK(request[r])
      /\ WholeAmount(request[r])
      /\ Permitted(op, amount)
  BY DEF IInv, TypeOK, RequestRow, StatusMatchesMoney, RequestOK, StillPermitted
<1>2. q = gateway_postprocess(payment, t)
  <2>1. a.action_required => op # "capture"
    BY <1>1 DEF RequestOK
  <2> QED BY <1>1, <2>1, PostprocessedOnce
<1>3. /\ t.kind = a.kind
      /\ t.amount = amount
      /\ t.is_success = a.is_success
      /\ t.action_required = a.action_required
      /\ t.already_processed = FALSE
  BY Zenon DEF create_transaction
<1>4. /\ p \in PaymentRow
      /\ p.total = payment.total
      /\ p.gateway = payment.gateway
      /\ p.captured_amount = payment.captured_amount
      /\ p.charge_status = payment.charge_status
      /\ p.is_active = payment.is_active
  BY <1>1, Zenon DEF PaymentRow
<1>5. Consistent(p)
  BY <1>1, <1>4, Zenon DEF Consistent
<1> HIDE DEF p, a, op, amount
<1>6. CASE a.is_success /\ ~a.action_required
  <2>1. q = Effect(p, t)
    BY <1>2, <1>3, <1>6 DEF gateway_postprocess, Processable, p
  <2>2. a.kind \in SuccessKinds(op)
    BY <1>1, <1>6 DEF RequestOK, a, op
  <2>3. CASE a.kind = "capture"
    <3>1. q = Charge(p, amount)
      BY <1>3, <2>1, <2>3 DEF Effect
    <3>0. op \in { "process", "confirm", "capture" }
      BY <1>1, <2>2, <2>3 DEF SuccessKinds, AllOperations, RequestOK, op
    <3>2. amount = p.total \/ (not_charged(p) /\ amount > 0)
      <4>1. CASE op = "capture"
        BY <1>1, <1>4, <4>1 DEF Permitted, clean_capture, can_capture, not_charged
      <4>2. CASE op \in { "process", "confirm" }
        BY <1>1, <1>4, <4>2 DEF WholeAmount, op, amount
      <4> QED BY <3>0, <4>1, <4>2
    <3>3. Booked(a, amount) = amount
      BY <1>6, <2>3 DEF Booked, Books
    <3> QED BY <1>1, <1>4, <1>5, <3>1, <3>2, <3>3, ChargeConsistent DEF a, amount
  <2>4. CASE a.kind = "refund"
    <3>1. q = Refund(p, amount)
      BY <1>3, <2>1, <2>4 DEF Effect
    <3>0. op = "refund"
      BY <1>1, <2>2, <2>4 DEF SuccessKinds, AllOperations, RequestOK, op
    <3>2. amount > 0 /\ amount <= p.captured_amount
      BY <1>1, <1>4, <3>0 DEF Permitted, _validate_refund_amount
    <3>3. Booked(a, amount) = -amount
      BY <1>6, <2>4 DEF Booked, Books
    <3>4. p.captured_amount - amount = p.captured_amount + -amount
      BY <1>1, <1>4 DEF PaymentRow
    <3> QED BY <1>1, <1>4, <1>5, <3>1, <3>2, <3>3, <3>4, RefundConsistent DEF a, amount
  <2>5. CASE a.kind = "void"
    <3>1. q = [ p EXCEPT !.is_active = FALSE ]
      BY <1>3, <2>1, <2>5 DEF Effect
    <3>2. /\ q \in PaymentRow
          /\ q.total = p.total
          /\ q.gateway = p.gateway
          /\ q.captured_amount = p.captured_amount
          /\ q.charge_status = p.charge_status
          /\ q.is_active = FALSE
      BY <1>4, <3>1, Zenon DEF PaymentRow
    <3>3. Consistent(q)
      BY <1>5, <3>2, Zenon DEF Consistent
    <3>4. Booked(a, amount) = 0 /\ p.captured_amount \in Int
      BY <1>4, <2>5 DEF Booked, PaymentRow
    <3> QED BY <1>4, <3>2, <3>3, <3>4 DEF a, amount
  <2>6. CASE a.kind \in { "auth", "confirm" }
    <3>1. q = p
      BY <1>3, <2>1, <2>6 DEF Effect
    <3>2. Booked(a, amount) = 0 /\ p.captured_amount \in Int
      BY <1>4, <2>6 DEF Booked, PaymentRow
    <3> QED BY <1>4, <1>5, <3>1, <3>2 DEF a, amount
  <2> QED
    <3>1. a.kind \in { "auth", "capture", "refund", "void", "confirm" }
      BY <1>1, <2>2 DEF SuccessKinds, AllOperations, RequestOK, op
    <3> QED BY <2>3, <2>4, <2>5, <2>6, <3>1
<1>7. CASE ~(a.is_success /\ ~a.action_required)
  <2>1. q \in { payment, [ payment EXCEPT !.to_confirm = TRUE ] }
    BY <1>2, <1>3, <1>7 DEF gateway_postprocess, Processable
  <2>2. /\ q \in PaymentRow
        /\ q.total = payment.total
        /\ q.gateway = payment.gateway
        /\ q.captured_amount = payment.captured_amount
        /\ q.charge_status = payment.charge_status
        /\ q.is_active = payment.is_active
    BY <1>1, <2>1, Zenon DEF PaymentRow
  <2>3. Consistent(q)
    BY <1>1, <2>2, Zenon DEF Consistent
  <2>4. Booked(a, amount) = 0 /\ payment.captured_amount \in Int
    BY <1>1, <1>7 DEF Booked, Books, PaymentRow
  <2> QED BY <2>2, <2>3, <2>4 DEF a, amount
<1> QED BY <1>6, <1>7

-----------------------------------------------------------------------------
(* IInv is inductive: it holds initially and every action keeps it.         *)

LEMMA IdleType == Idle \in RequestRow
<1>1. NoResponse \in Response
  BY 0 \in Int, Zenon DEF NoResponse, Response, TransactionKind
<1>2. "void" \in AllOperations /\ "idle" \in { "idle", "checked", "calling", "answered" }
  BY DEF AllOperations
<1> QED BY <1>1, <1>2, Zenon DEF Idle, RequestRow

\* A request that is idle, or has just been checked, satisfies its part.
LEMMA IdleOK == RequestOK(Idle) /\ Idle.phase = "idle"
BY DEF RequestOK, Idle, NoResponse, NoAmount

LEMMA InitInv == Init => IInv
<1> SUFFICES ASSUME Init PROVE IInv
  OBVIOUS
<1> USE DEF Init
<1>1. /\ NewPayment(Total) \in PaymentRow
      /\ CashfreePayment(Total) \in PaymentRow
      /\ ManualPayment(Total) \in PaymentRow
  <2>1. Total \in Nat /\ Total \in Int /\ 0 \in Int
    BY PaymentAssumption
  <2>2. { "plugin", "cashfree", "manual" } \subseteq Gateway /\ { "not-charged", "fully-charged" } \subseteq ChargeStatus
    BY DEF Gateway, ChargeStatus
  <2>3. NewPayment(Total) \in PaymentRow
    BY <2>1, <2>2, Zenon DEF NewPayment, PaymentRow
  <2>4. CashfreePayment(Total) \in PaymentRow
    BY <2>2, <2>3, Zenon DEF CashfreePayment, NewPayment, PaymentRow
  <2> QED BY <2>1, <2>2, <2>3, <2>4, Zenon DEF ManualPayment, NewPayment, PaymentRow
<1>2. payment \in PaymentRow
  BY <1>1
<1>3. /\ payment.total = Total
      /\ \/ payment.captured_amount = 0 /\ payment.charge_status = "not-charged"
         \/ /\ payment.captured_amount = Total /\ payment.charge_status = "fully-charged"
            /\ payment.gateway = "manual"
  <2>1. CASE payment = NewPayment(Total)
    BY <2>1, Zenon DEF NewPayment
  <2>2. CASE payment = ManualPayment(Total)
    BY <2>2, Zenon DEF NewPayment, ManualPayment
  <2>3. CASE payment = CashfreePayment(Total)
    BY <2>3, Zenon DEF NewPayment, CashfreePayment
  <2> QED BY <2>1, <2>2, <2>3
<1>4. TypeOK
  <2>1. transactions \in Seq(TransactionRow)
    OBVIOUS
  <2>2. request \in [ Requests -> RequestRow ]
    BY IdleType
  <2>3. collected \in Int /\ unrecorded \in Int /\ crashes \in Nat /\ saving \in Nat
    BY <1>3, PaymentAssumption
  <2> QED BY <1>2, <2>1, <2>2, <2>3 DEF TypeOK
<1>5. \A r \in Requests : request[r] = Idle
  OBVIOUS
<1>6. LockHolder /\ StillPermitted
  BY <1>5, IdleOK, PaymentAssumption DEF LockHolder, StillPermitted
<1>7. \A r \in Requests : RequestOK(request[r]) /\ WholeAmount(request[r]) /\ MovedOK(request[r])
  BY <1>5, IdleOK DEF WholeAmount, MovedOK
<1>8. StatusMatchesMoney
  BY <1>3, PaymentAssumption DEF StatusMatchesMoney, Consistent
<1>9. BooksMatchGateway
  BY <1>3, PaymentAssumption DEF BooksMatchGateway
<1>10. CashfreeOK
  BY <1>3 DEF CashfreeOK
<1> QED BY <1>3, <1>4, <1>6, <1>7, <1>8, <1>9, <1>10 DEF IInv

\* Permitted reads the payment's two tables and nothing else.
LEMMA PermittedUnchanged ==
    ASSUME payment' = payment, transactions' = transactions,
           NEW q \in Requests, request'[q] = request[q], StillPermitted
    PROVE  request'[q].phase \in { "calling", "answered" } =>
               Permitted(request[q].op, request[q].amount)'
BY DEF StillPermitted, Permitted, can_authorize, can_capture, can_refund, not_charged,
       clean_capture, get_charge_amount, _validate_refund_amount, Succeeded

\* What the steps that start, drop or reject a request have in common: they
\* change one worker's record and leave the payment alone.
LEMMA RequestKept ==
    ASSUME IInv, NEW r \in Requests, NEW row \in RequestRow,
           request' = [ request EXCEPT ![r] = row ],
           row.phase \in { "idle", "checked" }, RequestOK(row),
           lock' = IF lock = r THEN NoRequest ELSE lock,
           UNCHANGED << payment, transactions, saving, collected >>,
           unrecorded' = unrecorded + request[r].response.moved,
           crashes' \in Nat
    PROVE  IInv'
<1>1. TypeOK
  BY DEF IInv
<1>2. /\ request'[r] = row
      /\ \A q \in Requests : q # r => request'[q] = request[q]
  BY <1>1 DEF TypeOK
<1>3. request[r].response.moved \in Int /\ NoRequest \notin Requests
  BY <1>1, PaymentAssumption, Zenon DEF TypeOK, RequestRow, Response
<1>4. TypeOK'
  BY <1>1, <1>3 DEF TypeOK
<1>5. LockHolder /\ StillPermitted /\ BooksMatchGateway
  BY DEF IInv
<1>6. LockHolder'
  BY <1>2, <1>3, <1>5 DEF LockHolder
<1>7. StillPermitted'
  BY <1>2, <1>5, PermittedUnchanged DEF StillPermitted
<1>8. (\A q \in Requests : RequestOK(request[q]) /\ WholeAmount(request[q]) /\ MovedOK(request[q]))'
  BY <1>2 DEF IInv, WholeAmount, MovedOK
<1>9. BooksMatchGateway'
  <2>0. CASE payment.gateway = "cashfree"
    BY <1>5, <2>0 DEF BooksMatchGateway
  <2> SUFFICES ASSUME payment.gateway # "cashfree" PROVE BooksMatchGateway'
    BY <2>0
  <2>1. CASE lock = r
    BY <1>1, <1>3, <1>5, <2>1 DEF BooksMatchGateway, TypeOK, PaymentRow
  <2>2. CASE lock # r
    <3>1. request[r].response.moved = 0
      BY <1>5, <2>2 DEF LockHolder, IInv, RequestOK
    <3>2. lock # NoRequest => request'[lock] = request[lock]
      BY <1>1, <1>2, <2>2 DEF TypeOK
    <3> QED BY <1>1, <1>5, <2>2, <3>1, <3>2 DEF BooksMatchGateway, TypeOK
  <2> QED BY <2>1, <2>2
<1>10. payment'.total = Total /\ StatusMatchesMoney' /\ CashfreeOK'
  BY DEF IInv, StatusMatchesMoney, Consistent, CashfreeOK
<1> QED BY <1>4, <1>6, <1>7, <1>8, <1>9, <1>10 DEF IInv

LEMMA RequestInv ==
    ASSUME IInv, NEW r \in Requests, NEW op \in AllOperations,
           NEW amount \in Amounts \cup { NoAmount }, Request(r, op, amount)
    PROVE  IInv'
<1> DEFINE row == [ Idle EXCEPT !.phase = "checked", !.op = op, !.amount = amount ]
<1>1. amount \in Nat \cup { NoAmount }
  BY PaymentAssumption
<1>2. row \in RequestRow
  BY <1>1, IdleType, Zenon DEF RequestRow
<1>3. /\ row.phase = "checked"
      /\ row.op = op
      /\ row.amount = amount
      /\ row.response = NoResponse
  BY Zenon DEF Idle
<1>4. RequestOK(row)
  BY <1>3 DEF RequestOK, Request, NoResponse
<1>5. /\ request[r].phase = "idle"
      /\ lock # r
      /\ request[r].response.moved = 0
      /\ unrecorded \in Int /\ crashes \in Nat
  BY DEF Request, IInv, LockHolder, RequestOK, TypeOK
<1>6. /\ lock' = IF lock = r THEN NoRequest ELSE lock
      /\ unrecorded' = unrecorded + request[r].response.moved
      /\ crashes' \in Nat
      /\ UNCHANGED << payment, transactions, saving, collected >>
      /\ request' = [ request EXCEPT ![r] = row ]
  BY <1>5 DEF Request
<1> HIDE DEF row
<1> QED BY <1>2, <1>3, <1>4, <1>6, RequestKept

LEMMA RejectInv ==
    ASSUME IInv, NEW r \in Requests, RejectOperation(r)
    PROVE  IInv'
<1>1. /\ request[r].phase = "checked"
      /\ lock # r
      /\ request[r].response.moved = 0
      /\ unrecorded \in Int /\ crashes \in Nat
  BY DEF RejectOperation, IInv, LockHolder, RequestOK, TypeOK
<1>2. /\ lock' = IF lock = r THEN NoRequest ELSE lock
      /\ unrecorded' = unrecorded + request[r].response.moved
      /\ crashes' \in Nat
      /\ UNCHANGED << payment, transactions, saving, collected >>
      /\ request' = [ request EXCEPT ![r] = Idle ]
  BY <1>1 DEF RejectOperation
<1> QED BY <1>2, IdleType, IdleOK, RequestKept

LEMMA CrashInv ==
    ASSUME IInv, NEW r \in Requests, Crash(r)
    PROVE  IInv'
<1>1. lock = r /\ crashes + 1 \in Nat
  BY DEF Crash, IInv, LockHolder, TypeOK
<1>2. /\ lock' = IF lock = r THEN NoRequest ELSE lock
      /\ unrecorded' = unrecorded + request[r].response.moved
      /\ crashes' \in Nat
      /\ UNCHANGED << payment, transactions, saving, collected >>
      /\ request' = [ request EXCEPT ![r] = Idle ]
  BY <1>1 DEF Crash
<1> QED BY <1>2, IdleType, IdleOK, RequestKept

\* What the lock is taken for has a positive or whole amount.
LEMMA BeginAmount ==
    ASSUME payment \in PaymentRow, payment.total = Total,
           NEW op \in AllOperations, NEW amount \in Nat \cup { NoAmount },
           Permitted(op, ResolvedAmount(op, amount)),
           op \notin { "capture", "refund" } => amount = NoAmount
    PROVE  /\ ResolvedAmount(op, amount) \in Nat
           /\ op \in { "process", "confirm" } => ResolvedAmount(op, amount) = payment.total
<1>1. payment.total \in Nat /\ payment.captured_amount \in Int
  BY DEF PaymentRow
<1>2. CASE amount # NoAmount
  BY <1>2 DEF ResolvedAmount
<1>3. CASE amount = NoAmount /\ op = "capture"
  BY <1>1, <1>3 DEF ResolvedAmount, Permitted, clean_capture, get_charge_amount
<1>4. CASE amount = NoAmount /\ op = "refund"
  BY <1>1, <1>4 DEF ResolvedAmount, Permitted, _validate_refund_amount
<1>5. CASE amount = NoAmount /\ op \notin { "capture", "refund" }
  BY <1>1, <1>5 DEF ResolvedAmount
<1> QED BY <1>2, <1>3, <1>4, <1>5

LEMMA BeginInv ==
    ASSUME IInv, NEW r \in Requests, BeginOperation(r)
    PROVE  IInv'
<1>0. PICK op, amount, row :
         /\ op = request[r].op
         /\ amount = ResolvedAmount(op, request[r].amount)
         /\ row = [ request[r] EXCEPT !.phase = "calling", !.amount = amount ]
  OBVIOUS
<1>1. /\ TypeOK
      /\ request[r] \in RequestRow
      /\ RequestOK(request[r])
      /\ request[r].phase = "checked"
      /\ op \in AllOperations
      /\ Permitted(op, amount)
  BY <1>0 DEF IInv, TypeOK, RequestRow, BeginOperation
<1>2. amount \in Nat /\ (op \in { "process", "confirm" } => amount = payment.total)
  BY <1>0, <1>1, BeginAmount DEF IInv, TypeOK, RequestRow, RequestOK
<1>3. row \in RequestRow
  BY <1>0, <1>1, <1>2, Zenon DEF RequestRow
<1>4. /\ row.phase = "calling"
      /\ row.op = op
      /\ row.amount = amount
      /\ row.response = request[r].response
  BY <1>0, <1>1, Zenon DEF RequestRow
<1>5. /\ request' = [ request EXCEPT ![r] = row ]
      /\ lock = NoRequest /\ lock' = r
      /\ UNCHANGED << payment, transactions, saving, collected, unrecorded, crashes >>
  <2>1. [ request EXCEPT ![r].phase = "calling", ![r].amount = amount ]
          = [ request EXCEPT ![r] = row ]
    BY <1>0, <1>1, Zenon DEF TypeOK
  <2> QED BY <1>0, <2>1 DEF BeginOperation
<1>6. /\ request'[r] = row
      /\ \A q \in Requests : q # r => request'[q] = request[q]
  BY <1>1, <1>5 DEF TypeOK
<1>7. TypeOK'
  BY <1>1, <1>3, <1>5 DEF TypeOK
<1>8. LockHolder'
  BY <1>4, <1>5, <1>6, PaymentAssumption DEF IInv, LockHolder
<1>9. StillPermitted'
  <2>1. Permitted(op, amount)'
    BY <1>1, <1>5 DEF Permitted, can_authorize, can_capture, can_refund, not_charged,
       clean_capture, get_charge_amount, _validate_refund_amount, Succeeded
  <2> QED BY <1>4, <1>5, <1>6, <2>1, PermittedUnchanged DEF IInv, StillPermitted
<1>10. (\A q \in Requests : RequestOK(request[q]) /\ WholeAmount(request[q]) /\ MovedOK(request[q]))'
  <2>1. RequestOK(row) /\ WholeAmount(row)' /\ MovedOK(row)'
    BY <1>0, <1>1, <1>2, <1>4, <1>5 DEF RequestOK, WholeAmount, MovedOK
  <2> QED BY <1>5, <1>6, <2>1 DEF IInv, WholeAmount, MovedOK
<1>11. BooksMatchGateway'
  <2>1. request'[r].response.moved = 0
    BY <1>1, <1>4, <1>6 DEF RequestOK
  <2> QED BY <1>5, <2>1, PaymentAssumption DEF IInv, BooksMatchGateway
<1>12. payment'.total = Total /\ StatusMatchesMoney' /\ CashfreeOK'
  BY <1>5 DEF IInv, StatusMatchesMoney, Consistent, CashfreeOK
<1> QED BY <1>7, <1>8, <1>9, <1>10, <1>11, <1>12 DEF IInv

LEMMA AnswerInv ==
    ASSUME IInv, NEW r \in Requests, GatewayAnswers(r)
    PROVE  IInv'
<1>0. PICK op, amount : op = request[r].op /\ amount = request[r].amount
  OBVIOUS
<1>1. /\ TypeOK
      /\ request[r] \in RequestRow
      /\ RequestOK(request[r])
      /\ request[r].phase = "calling"
      /\ op \in AllOperations \ { "cancel" }
      /\ amount \in Nat
      /\ lock = r
      /\ collected \in Int
      /\ CashfreeOK
  BY <1>0 DEF IInv, TypeOK, RequestRow, GatewayAnswers, RequestOK, LockHolder
<1>2. PICK a \in GatewayResponses(op, amount) :
         /\ request' = [ request EXCEPT ![r].phase = "answered", ![r].response = a ]
         /\ collected' = collected + a.moved
  BY <1>0 DEF GatewayAnswers
<1>row. PICK row : row = [ request[r] EXCEPT !.phase = "answered", !.response = a ]
  OBVIOUS
<1>3. /\ a \in Response
      /\ a.is_success /\ ~a.action_required => a.kind \in SuccessKinds(op)
      /\ a.action_required => op \in { "process", "confirm" } /\ a.moved = 0
      /\ Books(a) =>
           IF payment.gateway = "cashfree"
           THEN a.kind = "capture" /\ (amount > 0 => collected = payment.total)
           ELSE a.moved = Booked(a, amount)
      /\ payment.gateway = "cashfree" => a.moved = 0
  BY <1>1, <1>2, ResponseShape
<1>4. a.moved \in Int
  BY <1>3, Zenon DEF Response
<1>5. row \in RequestRow
  BY <1>row, <1>1, <1>3, Zenon DEF RequestRow
<1>6. /\ row.phase = "answered"
      /\ row.op = op
      /\ row.amount = amount
      /\ row.response = a
  BY <1>0, <1>row, <1>1, Zenon DEF RequestRow
<1>7. request' = [ request EXCEPT ![r] = row ]
  BY <1>row, <1>1, <1>2, Zenon DEF TypeOK
<1>8. UNCHANGED << payment, transactions, lock, saving, unrecorded, crashes >>
  BY DEF GatewayAnswers
<1>9. /\ request'[r] = row
      /\ \A q \in Requests : q # r => request'[q] = request[q]
  BY <1>1, <1>7 DEF TypeOK
<1>10. TypeOK'
  <2>1. collected' \in Int
    BY <1>1, <1>2, <1>4
  <2>2. request' \in [ Requests -> RequestRow ]
    BY <1>1, <1>5, <1>7 DEF TypeOK
  <2> QED BY <1>1, <1>8, <2>1, <2>2 DEF TypeOK
<1>11. LockHolder'
  BY <1>1, <1>6, <1>8, <1>9 DEF IInv, LockHolder
<1>12. StillPermitted'
  <2>1. Permitted(op, amount)
    BY <1>0, <1>1 DEF IInv, StillPermitted
  <2>2. Permitted(op, amount)'
    BY <1>8, <2>1 DEF Permitted, can_authorize, can_capture, can_refund, not_charged,
       clean_capture, get_charge_amount, _validate_refund_amount, Succeeded
  <2> QED BY <1>6, <1>8, <1>9, <2>2, PermittedUnchanged DEF IInv, StillPermitted
<1>cf. payment.gateway = "cashfree" => collected' = collected
  BY <1>1, <1>2, <1>3
<1>13. (\A q \in Requests : RequestOK(request[q]) /\ WholeAmount(request[q]) /\ MovedOK(request[q]))'
  <2>1. RequestOK(row)
    BY <1>1, <1>3, <1>6 DEF RequestOK
  <2>2. WholeAmount(row)'
    BY <1>0, <1>1, <1>6, <1>8 DEF IInv, WholeAmount
  <2>3. MovedOK(row)'
    BY <1>cf, <1>3, <1>6, <1>8 DEF MovedOK
  <2>4. \A q \in Requests : q # r => MovedOK(request[q])'
    BY <1>cf, <1>8, <1>9 DEF IInv, MovedOK
  <2> QED BY <1>8, <1>9, <2>1, <2>2, <2>3, <2>4 DEF IInv, WholeAmount
<1>14. BooksMatchGateway'
  <2>0. CASE payment.gateway = "cashfree"
    BY <1>cf, <1>8, <2>0 DEF IInv, BooksMatchGateway
  <2> SUFFICES ASSUME payment.gateway # "cashfree" PROVE BooksMatchGateway'
    BY <2>0
  <2>1. request[r].response.moved = 0
    BY <1>1 DEF RequestOK
  <2>2. NoRequest # r
    BY <1>1, PaymentAssumption
  <2> QED BY <1>1, <1>2, <1>4, <1>6, <1>8, <1>9, <2>1, <2>2
          DEF IInv, BooksMatchGateway, TypeOK, PaymentRow
<1>15. payment'.total = Total /\ StatusMatchesMoney' /\ CashfreeOK'
  BY <1>cf, <1>8 DEF IInv, StatusMatchesMoney, Consistent, CashfreeOK
<1> QED BY <1>10, <1>11, <1>12, <1>13, <1>14, <1>15 DEF IInv

LEMMA CommitInv ==
    ASSUME IInv, NEW r \in Requests, Commit(r)
    PROVE  IInv'
<1>1. PICK t : t = create_transaction(request[r].response, request[r].amount)
  OBVIOUS
<1>2. /\ TypeOK
      /\ request[r].phase = "answered"
      /\ request[r] \in RequestRow
      /\ request[r].response \in Response
      /\ request[r].amount \in Nat
      /\ lock = r
      /\ payment.captured_amount \in Int
  BY DEF IInv, TypeOK, RequestRow, Commit, RequestOK, LockHolder, PaymentRow
<1>3. request[r].response.moved \in Int
  BY <1>2, Zenon DEF Response
<1>4. Booked(request[r].response, request[r].amount) \in Int
  BY <1>2 DEF Booked
<1>5. /\ payment' \in PaymentRow
      /\ payment'.total = payment.total
      /\ payment'.gateway = payment.gateway
      /\ payment'.captured_amount = payment.captured_amount
                                      + Booked(request[r].response, request[r].amount)
      /\ Consistent(payment')
  BY <1>1, <1>2, CommitEffect DEF Commit
<1>6. /\ transactions' = Append(transactions, MarkProcessed(t))
      /\ unrecorded' = unrecorded + Missed(request[r].response)
      /\ lock' = NoRequest
      /\ request' = [ request EXCEPT ![r] = Idle ]
      /\ UNCHANGED << saving, collected, crashes >>
  BY <1>1 DEF Commit
<1>7. /\ request'[r] = Idle
      /\ \A q \in Requests : q # r => request'[q] = request[q]
  BY <1>2, <1>6 DEF TypeOK
<1>8. TypeOK'
  <2>1. transactions' \in Seq(TransactionRow)
    BY <1>1, <1>2, <1>6, TransactionType DEF TypeOK
  <2>2. unrecorded' \in Int
    BY <1>2, <1>3, <1>6 DEF TypeOK, Missed
  <2> QED BY <1>2, <1>5, <1>6, <2>1, <2>2, IdleType DEF TypeOK
<1>9. \A q \in Requests : request'[q].phase \notin { "calling", "answered" }
  BY <1>2, <1>7, IdleOK DEF IInv, LockHolder
<1>10. LockHolder'
  BY <1>6, <1>9, PaymentAssumption DEF LockHolder
<1>11. StillPermitted'
  BY <1>9 DEF StillPermitted
<1>12. (\A q \in Requests : RequestOK(request[q]) /\ WholeAmount(request[q]) /\ MovedOK(request[q]))'
  BY <1>7, <1>9, IdleOK DEF IInv, WholeAmount, MovedOK
<1>mv. MovedOK(request[r]) /\ CashfreeOK /\ BooksMatchGateway
  BY DEF IInv
<1>13. BooksMatchGateway'
  <2>0. CASE payment.gateway = "cashfree"
    <3>1. CASE Books(request[r].response)
      BY <1>2, <1>5, <1>6, <1>mv, <2>0, <3>1 DEF MovedOK, Booked, BooksMatchGateway
    <3>2. CASE ~Books(request[r].response)
      BY <1>2, <1>5, <1>6, <1>mv, <2>0, <3>2 DEF Booked, BooksMatchGateway
    <3> QED BY <3>1, <3>2
  <2> SUFFICES ASSUME payment.gateway # "cashfree" PROVE BooksMatchGateway'
    BY <2>0
  <2>1. collected = payment.captured_amount + unrecorded + request[r].response.moved
    BY <1>2, PaymentAssumption DEF IInv, BooksMatchGateway
  <2>2. CASE Books(request[r].response)
    <3>1. request[r].response.moved = Booked(request[r].response, request[r].amount)
      BY <1>2, <1>mv, <2>2 DEF MovedOK
    <3> QED BY <1>2, <1>3, <1>4, <1>5, <1>6, <2>1, <2>2, <3>1
            DEF BooksMatchGateway, Missed, TypeOK
  <2>3. CASE ~Books(request[r].response)
    BY <1>2, <1>3, <1>5, <1>6, <2>1, <2>3 DEF BooksMatchGateway, Booked, Missed, TypeOK
  <2> QED BY <2>2, <2>3
<1>14. payment'.total = Total /\ StatusMatchesMoney' /\ CashfreeOK'
  BY <1>5, <1>6 DEF IInv, StatusMatchesMoney, CashfreeOK
<1> QED BY <1>8, <1>10, <1>11, <1>12, <1>13, <1>14 DEF IInv

LEMMA CancelInv ==
    ASSUME IInv, CancelActivePayments
    PROVE  IInv'
<1>1. /\ TypeOK
      /\ LockHolder
      /\ StatusMatchesMoney
      /\ payment \in PaymentRow
      /\ lock = NoRequest
  BY DEF IInv, TypeOK, CancelActivePayments
<1>2. /\ payment' = [ payment EXCEPT !.is_active = FALSE ]
      /\ UNCHANGED << transactions, lock, request, saving, collected, unrecorded, crashes >>
  BY DEF CancelActivePayments
<1>3. /\ payment' \in PaymentRow
      /\ payment'.total = payment.total
      /\ payment'.gateway = payment.gateway
      /\ payment'.captured_amount = payment.captured_amount
      /\ payment'.charge_status = payment.charge_status
      /\ payment'.is_active = FALSE
  BY <1>1, <1>2, Zenon DEF PaymentRow
<1>4. Consistent(payment')
  BY <1>1, <1>3, Zenon DEF StatusMatchesMoney, Consistent
<1>5. TypeOK' /\ LockHolder'
  BY <1>1, <1>2, <1>3 DEF TypeOK, LockHolder
<1>6. \A q \in Requests : request[q].phase \notin { "calling", "answered" }
  BY <1>1, PaymentAssumption DEF LockHolder
<1>7. StillPermitted'
  BY <1>2, <1>6 DEF StillPermitted
<1>8. (\A q \in Requests : RequestOK(request[q]) /\ WholeAmount(request[q]) /\ MovedOK(request[q]))'
  BY <1>2, <1>3 DEF IInv, WholeAmount, MovedOK
<1>9. BooksMatchGateway'
  BY <1>2, <1>3 DEF IInv, BooksMatchGateway
<1>10. CashfreeOK'
  BY <1>2, <1>3 DEF IInv, CashfreeOK
<1> QED BY <1>3, <1>4, <1>5, <1>7, <1>8, <1>9, <1>10 DEF IInv, StatusMatchesMoney

\* The late save finds no request at the gateway, and its row has nothing
\* captured.
LEMMA SaveInv ==
    ASSUME IInv, SavePayment
    PROVE  IInv'
<1>1. /\ TypeOK
      /\ LockHolder
      /\ lock = NoRequest
      /\ payment.gateway = "cashfree"
      /\ payment.total = Total
      /\ CashfreeOK
      /\ saving' \in Nat
  BY DEF IInv, TypeOK, SavePayment, CashfreeOK
<1>2. /\ payment' = CashfreePayment(Total)
      /\ UNCHANGED << transactions, lock, request, collected, unrecorded, crashes >>
  BY DEF SavePayment
<1>3. /\ payment' \in PaymentRow
      /\ payment'.total = Total
      /\ payment'.gateway = "cashfree"
      /\ payment'.captured_amount = 0
      /\ payment'.charge_status = "not-charged"
  <2>1. Total \in Nat /\ 0 \in Int
    BY PaymentAssumption
  <2>2. "cashfree" \in Gateway /\ "plugin" \in Gateway /\ "not-charged" \in ChargeStatus
    BY DEF Gateway, ChargeStatus
  <2>3. CashfreePayment(Total) \in PaymentRow
    BY <2>1, <2>2, Zenon DEF CashfreePayment, NewPayment, PaymentRow
  <2> QED BY <1>2, <2>3, Zenon DEF CashfreePayment, NewPayment
<1>4. TypeOK' /\ LockHolder'
  BY <1>1, <1>2, <1>3 DEF TypeOK, LockHolder
<1>5. \A q \in Requests : request[q].phase \notin { "calling", "answered" }
  BY <1>1, PaymentAssumption DEF LockHolder
<1>6. StillPermitted'
  BY <1>2, <1>5 DEF StillPermitted
<1>7. (\A q \in Requests : RequestOK(request[q]) /\ WholeAmount(request[q]) /\ MovedOK(request[q]))'
  BY <1>2, <1>5 DEF IInv, WholeAmount, MovedOK
<1>8. StatusMatchesMoney' /\ BooksMatchGateway' /\ CashfreeOK'
  BY <1>1, <1>2, <1>3 DEF StatusMatchesMoney, Consistent, BooksMatchGateway, CashfreeOK
<1> QED BY <1>3, <1>4, <1>6, <1>7, <1>8 DEF IInv

\* A save that is dropped and the customer's payment leave the row alone.
LEMMA OutsideInv ==
    ASSUME IInv, DropPayment \/ CustomerPays
    PROVE  IInv'
<1>1. /\ UNCHANGED << payment, transactions, lock, request, unrecorded, crashes >>
      /\ saving' \in Nat
      /\ saving' > 0 => saving > 0
      /\ \/ collected' = collected
         \/ payment.gateway = "cashfree" /\ collected = 0 /\ collected' = payment.total
  BY DEF DropPayment, CustomerPays, IInv, TypeOK
<1>2. collected' \in Int /\ TypeOK'
  BY <1>1 DEF IInv, TypeOK, PaymentRow
<1>3. StillPermitted'
  BY <1>1, PermittedUnchanged DEF IInv, StillPermitted
<1>4. /\ LockHolder'
      /\ (\A r \in Requests : RequestOK(request[r]) /\ WholeAmount(request[r]))'
      /\ payment'.total = Total
      /\ StatusMatchesMoney'
  BY <1>1 DEF IInv, LockHolder, WholeAmount, StatusMatchesMoney
<1>5. (\A r \in Requests : MovedOK(request[r]))'
  BY <1>1 DEF IInv, MovedOK
<1>6. CashfreeOK' /\ BooksMatchGateway'
  BY <1>1 DEF IInv, CashfreeOK, BooksMatchGateway
<1> QED BY <1>2, <1>3, <1>4, <1>5, <1>6 DEF IInv

LEMMA StutterInv ==
    ASSUME IInv, UNCHANGED vars
    PROVE  IInv'
<1>1. StillPermitted'
  BY PermittedUnchanged DEF IInv, vars, StillPermitted
<1>2. /\ TypeOK'
      /\ LockHolder'
      /\ (\A r \in Requests : RequestOK(request[r]) /\ WholeAmount(request[r]) /\ MovedOK(request[r]))'
      /\ payment'.total = Total
      /\ CashfreeOK'
      /\ StatusMatchesMoney'
      /\ BooksMatchGateway'
  BY DEF IInv, vars, TypeOK, LockHolder, WholeAmount, MovedOK, CashfreeOK,
         StatusMatchesMoney, BooksMatchGateway
<1> QED BY <1>1, <1>2 DEF IInv

\* What a commit books, by the operation that asked for it.
LEMMA BookedBy ==
    ASSUME IInv, NEW r \in Requests, request[r].phase = "answered"
    PROVE  LET op     == request[r].op
               amount == request[r].amount
               booked == Booked(request[r].response, amount)
           IN  \/ booked = 0
               \/ op \in { "process", "confirm", "capture" } /\ booked = amount
               \/ op = "refund" /\ booked = -amount
<1>1. request[r].op \in AllOperations /\ RequestOK(request[r])
  BY DEF IInv, TypeOK, RequestRow
<1>2. CASE request[r].response.is_success /\ ~request[r].response.action_required
  BY <1>1, <1>2 DEF RequestOK, Booked, Books, SuccessKinds, AllOperations
<1>3. CASE ~(request[r].response.is_success /\ ~request[r].response.action_required)
  BY <1>3 DEF Booked, Books
<1> QED BY <1>2, <1>3

LEMMA NextInv == IInv /\ [Next]_vars => IInv'
<1> SUFFICES ASSUME IInv, [Next]_vars PROVE IInv'
  OBVIOUS
<1>1. ASSUME NEW r \in Requests, NEW op \in AllOperations,
             NEW amount \in Amounts \cup { NoAmount }, Request(r, op, amount)
      PROVE  IInv'
  BY <1>1, RequestInv
<1>2. ASSUME NEW r \in Requests, BeginOperation(r) PROVE IInv'
  BY <1>2, BeginInv
<1>3. ASSUME NEW r \in Requests, RejectOperation(r) PROVE IInv'
  BY <1>3, RejectInv
<1>4. ASSUME NEW r \in Requests, GatewayAnswers(r) PROVE IInv'
  BY <1>4, AnswerInv
<1>5. ASSUME NEW r \in Requests, Commit(r) PROVE IInv'
  BY <1>5, CommitInv
<1>6. ASSUME NEW r \in Requests, Crash(r) PROVE IInv'
  BY <1>6, CrashInv
<1>7. CASE CancelActivePayments
  BY <1>7, CancelInv
<1>8. CASE Done \/ UNCHANGED vars
  BY <1>8, StutterInv DEF Done
<1>9. CASE SavePayment
  BY <1>9, SaveInv
<1>10. CASE DropPayment \/ CustomerPays
  BY <1>10, OutsideInv
<1> QED BY <1>1, <1>2, <1>3, <1>4, <1>5, <1>6, <1>7, <1>8, <1>9, <1>10 DEF Next

LEMMA Invariance == Spec => []IInv
BY InitInv, NextInv, PTL DEF Spec

-----------------------------------------------------------------------------
(* The theorems.                                                           *)

\* Every variable keeps its type: no operation books a status, a kind or an
\* amount that models.py does not know.
THEOREM Typing == Spec => []TypeOK
<1>1. IInv => TypeOK
  BY DEF IInv
<1> QED BY <1>1, Invariance, PTL

\* with_locked_payment: what an operation checked under the row lock is
\* still true when the gateway's answer is booked.
THEOREM ValidationHolds == Spec => []StillPermitted
<1>1. IInv => StillPermitted
  BY DEF IInv
<1> QED BY <1>1, Invariance, PTL

\* gateway_postprocess: charge_status says what captured_amount says, for
\* every interleaving of requests and whatever the gateway answers.
THEOREM StatusCorrect == Spec => []StatusMatchesMoney
<1>1. IInv => StatusMatchesMoney
  BY DEF IInv
<1> QED BY <1>1, Invariance, PTL

\* gateway.py: where a call moves the money, the gateway holds what is booked,
\* plus what lost answers and crashes account for; where it only asks, nothing
\* is captured that the customer has not paid.
THEOREM BooksCorrect == Spec => []BooksMatchGateway
<1>1. IInv => BooksMatchGateway
  BY DEF IInv
<1> QED BY <1>1, Invariance, PTL

\* Workers run only the operations that are offered to them.
OnlyOffered ==
    \A r \in Requests : request[r].phase # "idle" => request[r].op \in Operations

LEMMA OfferedInv == Spec => []OnlyOffered
<1>1. Init => OnlyOffered
  BY IdleOK DEF Init, OnlyOffered
<1>2. TypeOK /\ OnlyOffered /\ [Next]_vars => OnlyOffered'
  <2> SUFFICES ASSUME TypeOK, OnlyOffered, [Next]_vars, NEW q \in Requests,
                      request'[q].phase # "idle"
               PROVE  request'[q].op \in Operations
    BY DEF OnlyOffered
  <2> USE DEF TypeOK, OnlyOffered, RequestRow
  <2>1. CASE \E r \in Requests, op \in AllOperations, amount \in Amounts \cup { NoAmount } :
                Request(r, op, amount)
    <3>1. PICK r \in Requests, op \in AllOperations, amount \in Amounts \cup { NoAmount } :
             Request(r, op, amount)
      BY <2>1
    <3>2. [ Idle EXCEPT !.phase = "checked", !.op = op, !.amount = amount ].op = op
      BY Zenon DEF Idle
    <3>3. /\ op \in Operations
          /\ q # r => request'[q] = request[q]
          /\ request'[r].op = op
      BY <3>1, <3>2 DEF Request
    <3> QED BY <3>3
  <2>2. CASE \E r \in Requests : BeginOperation(r) \/ GatewayAnswers(r)
    <3>1. PICK r \in Requests : BeginOperation(r) \/ GatewayAnswers(r)
      BY <2>2
    <3>2. /\ request[r].phase # "idle"
          /\ request'[r].op = request[r].op
          /\ q # r => request'[q] = request[q]
      <4>1. CASE BeginOperation(r)
        BY <4>1, Zenon DEF BeginOperation
      <4>2. CASE GatewayAnswers(r)
        <5>1. request[r].phase = "calling"
          BY <4>2 DEF GatewayAnswers
        <5>2. PICK response :
                request' = [ request EXCEPT ![r].phase = "answered", ![r].response = response ]
          BY <4>2 DEF GatewayAnswers
        <5> QED BY <5>1, <5>2, Zenon
      <4> QED BY <3>1, <4>1, <4>2
    <3> QED BY <3>2
  <2>3. CASE \E r \in Requests : RejectOperation(r) \/ Commit(r) \/ Crash(r)
    <3>1. PICK r \in Requests : request' = [ request EXCEPT ![r] = Idle ]
      BY <2>3 DEF RejectOperation, Commit, Crash
    <3> QED BY <3>1, IdleOK
  <2>4. CASE \/ CancelActivePayments \/ SavePayment \/ DropPayment \/ CustomerPays
             \/ Done \/ UNCHANGED vars
    BY <2>4 DEF CancelActivePayments, SavePayment, DropPayment, CustomerPays, Done, vars
  <2> QED BY <2>1, <2>2, <2>3, <2>4 DEF Next
<1> QED BY <1>1, <1>2, Typing, PTL DEF Spec

\* How a step may change the amount captured: only a commit does, by what
\* it books, and create_payment's save, which drops it.
LEMMA MoneyStep ==
    ASSUME IInv, [Next]_vars
    PROVE  \/ payment' = payment
           \/ payment' = [ payment EXCEPT !.is_active = FALSE ]
           \/ saving > 0 /\ payment' = CashfreePayment(Total)
           \/ \E r \in Requests :
                 /\ request[r].phase = "answered"
                 /\ payment' = Postprocessed(request[r].op, payment,
                                create_transaction(request[r].response, request[r].amount))
BY DEF Next, vars, Request, BeginOperation, RejectOperation, GatewayAnswers, Commit, Crash,
       CancelActivePayments, SavePayment, DropPayment, CustomerPays, Done

\* clean_capture under the row lock: staff cannot capture more than the
\* payment's total, however many requests saw it uncharged.
THEOREM CaptureBounded == Spec => []CapturedWithinTotal
<1>1. Init => CapturedWithinTotal
  <2>1. NewPayment(Total).captured_amount = 0 /\ NewPayment(Total).total = Total
    BY Zenon DEF NewPayment
  <2>2. ManualPayment(Total).captured_amount = Total /\ ManualPayment(Total).total = Total
    BY Zenon DEF NewPayment, ManualPayment
  <2>3. CashfreePayment(Total).captured_amount = 0 /\ CashfreePayment(Total).total = Total
    BY Zenon DEF NewPayment, CashfreePayment
  <2> QED BY <2>1, <2>2, <2>3, PaymentAssumption DEF Init, CapturedWithinTotal
<1>2. IInv /\ OnlyOffered /\ CapturedWithinTotal /\ [Next]_vars => CapturedWithinTotal'
  <2> SUFFICES ASSUME IInv, OnlyOffered, CapturedWithinTotal, [Next]_vars,
                      Operations \cap { "process", "confirm" } = {}
               PROVE  payment'.captured_amount <= payment'.total
    BY DEF CapturedWithinTotal
  <2>1. /\ payment \in PaymentRow
        /\ payment.captured_amount \in Int /\ payment.total \in Nat
        /\ payment.captured_amount <= payment.total
    BY DEF IInv, TypeOK, PaymentRow, CapturedWithinTotal
  <2>2. CASE payment' = payment \/ payment' = [ payment EXCEPT !.is_active = FALSE ]
    <3>1. payment'.captured_amount = payment.captured_amount /\ payment'.total = payment.total
      BY <2>1, <2>2, Zenon DEF PaymentRow
    <3> QED BY <2>1, <3>1
  <2>3. CASE \E r \in Requests :
                 /\ request[r].phase = "answered"
                 /\ payment' = Postprocessed(request[r].op, payment,
                                create_transaction(request[r].response, request[r].amount))
    <3>1. PICK r \in Requests :
                 /\ request[r].phase = "answered"
                 /\ payment' = Postprocessed(request[r].op, payment,
                                create_transaction(request[r].response, request[r].amount))
      BY <2>3
    <3>2. /\ payment'.total = payment.total
          /\ payment'.captured_amount = payment.captured_amount
                                          + Booked(request[r].response, request[r].amount)
      BY <3>1, CommitEffect
    <3>3. /\ request[r].amount \in Nat
          /\ request[r].op \notin { "process", "confirm" }
          /\ Permitted(request[r].op, request[r].amount)
      BY <3>1 DEF IInv, RequestOK, StillPermitted, OnlyOffered
    <3>4. CASE request[r].op = "capture" /\ Booked(request[r].response, request[r].amount) = request[r].amount
      BY <2>1, <3>2, <3>3, <3>4 DEF Permitted, clean_capture, get_charge_amount
    <3>5. CASE Booked(request[r].response, request[r].amount) \in { 0, -request[r].amount }
      BY <2>1, <3>2, <3>3, <3>5
    <3> QED BY <3>1, <3>3, <3>4, <3>5, BookedBy
  <2>4. CASE payment' = CashfreePayment(Total)
    <3>1. payment'.captured_amount = 0 /\ payment'.total = Total
      BY <2>4, Zenon DEF NewPayment, CashfreePayment
    <3> QED BY <3>1, PaymentAssumption
  <2> QED BY <2>2, <2>3, <2>4, MoneyStep
<1> QED BY <1>1, <1>2, Invariance, OfferedInv, PTL DEF Spec

\* require_active_payment looks before the lock, yet a payment that is no
\* longer active stays so and gives nothing back, once create_payment has
\* ended.
THEOREM InactiveStays == Spec => InactiveIsFinal
<1>1. IInv /\ OnlyOffered /\ [Next]_vars =>
        [ ~payment.is_active /\ saving = 0 =>
          /\ ~payment'.is_active
          /\ payment'.captured_amount >= payment.captured_amount
          /\ Operations \cap { "process", "confirm" } = {} =>
                payment'.captured_amount = payment.captured_amount ]_vars
  <2> SUFFICES ASSUME IInv, OnlyOffered, [Next]_vars, ~payment.is_active, saving = 0
               PROVE  /\ ~payment'.is_active
                      /\ payment'.captured_amount >= payment.captured_amount
                      /\ Operations \cap { "process", "confirm" } = {} =>
                            payment'.captured_amount = payment.captured_amount
    BY Zenon
  <2>1. payment \in PaymentRow /\ payment.captured_amount \in Int
    BY DEF IInv, TypeOK, PaymentRow
  <2>2. CASE payment' = payment \/ payment' = [ payment EXCEPT !.is_active = FALSE ]
    <3>1. payment'.captured_amount = payment.captured_amount
      BY <2>1, <2>2, Zenon DEF PaymentRow
    <3>2. ~payment'.is_active
      BY <2>1, <2>2, Zenon DEF PaymentRow
    <3> QED BY <2>1, <3>1, <3>2
  <2>3. CASE \E r \in Requests :
                 /\ request[r].phase = "answered"
                 /\ payment' = Postprocessed(request[r].op, payment,
                                create_transaction(request[r].response, request[r].amount))
    <3>1. PICK r \in Requests :
                 /\ request[r].phase = "answered"
                 /\ payment' = Postprocessed(request[r].op, payment,
                                create_transaction(request[r].response, request[r].amount))
      BY <2>3
    <3>2. /\ payment'.captured_amount = payment.captured_amount
                                          + Booked(request[r].response, request[r].amount)
          /\ payment'.is_active => payment.is_active
      BY <3>1, CommitEffect
    <3>3. /\ request[r].amount \in Nat
          /\ request[r].op \in Operations
          /\ Permitted(request[r].op, request[r].amount)
      BY <3>1 DEF IInv, RequestOK, StillPermitted, OnlyOffered
    <3>4. request[r].op \notin { "capture", "refund" }
      BY <3>3 DEF Permitted, clean_capture, can_capture, can_refund
    <3>5. CASE Booked(request[r].response, request[r].amount) = 0
      BY <2>1, <3>2, <3>5
    <3>6. CASE /\ request[r].op \in { "process", "confirm" }
               /\ Booked(request[r].response, request[r].amount) = request[r].amount
      BY <2>1, <3>2, <3>3, <3>6
    <3> QED BY <3>1, <3>4, <3>5, <3>6, BookedBy
  <2> QED BY <2>2, <2>3, MoneyStep
<1> QED BY <1>1, Invariance, OfferedInv, PTL DEF Spec, InactiveIsFinal
=============================================================================
