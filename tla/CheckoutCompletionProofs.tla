----------------------- MODULE CheckoutCompletionProofs -----------------------
(***************************************************************************)
(* Proofs about CheckoutCompletion, for any workers, checkouts, customers, *)
(* vouchers, prices and bounds: its safety properties, and that it         *)
(* implements OrderPlacement.                                              *)
(***************************************************************************)
EXTENDS CheckoutCompletion, SequenceTheorems, FiniteSetTheorems, WellFoundedInduction, TLAPS

USE CheckoutAssumption

-----------------------------------------------------------------------------
(* The inductive invariant                                                 *)

\* The phases of checkoutComplete between its first lock and its commit, those
\* after the voucher, and those after Cashfree's answer.
InTransaction == { "lines", "voucher", "payment", "order", "allocate", "failed", "finished" }
Charging == { "order", "allocate", "finished" }
Counting == Charging \cup { "payment" }

\* What a transaction holds and what it knows of its checkout: the row is
\* locked, and so nobody else deletes it.
LocksCheckout(q, held) ==
    /\ q.phase # "idle" => q.checkout \in Checkouts
    /\ q.phase \notin InTransaction => held = {} /\ q.counted = 0 /\ q.capture = "none"
    /\ q.phase \in InTransaction =>
         /\ q.checkout \in open /\ CheckoutLock(q.checkout) \in held
         /\ q.payment # None => q.payment \in PaymentsOf(q.checkout)
    /\ q.created <=> q.phase = "finished"

\* The capture it will book was paid by the customer.
CapturesPaid(q) ==
    /\ q.phase \in Charging => q.capture = "done"
    /\ q.capture = "done" => q.payment \in DOMAIN payments \ { None } /\ PaidAtCashfree(q.payment)

\* The use it will count: nobody else counts one meanwhile.
LocksVoucher(q, held) ==
    /\ q.counted = 1 =>
         VoucherLock \in held /\ used < UsageLimit /\ q.phase \notin { "lines", "voucher" }
    /\ q.phase \in Counting /\ q.checkout \in VoucherCheckouts => q.counted = 1
    /\ q.phase \in Counting /\ q.counted = 1 /\ OncePerCustomer =>
         Customer[q.checkout] \notin voucherCustomers

\* The payment it is about to save is the checkout's while there is one.
SavesOwn(q) ==
    q.phase = "saving" =>
        /\ q.payment \in DOMAIN payments
        /\ q.checkout \in open => q.payment \in PaymentsOf(q.checkout)

\* The order it is about to hand on.
HandsOn(q) == q.phase = "placed" => orders[q.checkout] = 1 /\ dispatched[q.checkout] = 0

WorkerOK(q, held) ==
    /\ LocksCheckout(q, held) /\ CapturesPaid(q) /\ LocksVoucher(q, held)
    /\ SavesOwn(q) /\ HandsOn(q)

LocksExclusive ==
    \A r, q \in Requests : r # q => holds[r] \cap holds[q] = {}

\* One call hands on an order.
HandedOnce ==
    \A r, q \in Requests :
        request[r].phase = "placed" /\ request[q].phase = "placed"
          /\ request[r].checkout = request[q].checkout => r = q

\* A checkout is there or its order is.
OpenOrOrdered ==
    \A c \in Checkouts :
        /\ orders[c] = IF c \in open THEN 0 ELSE 1
        /\ c \in open => dispatched[c] = 0

\* A payment belongs to a checkout that is there or to an order, and never has
\* less than nothing captured.
PaymentsOwned ==
    \A p \in DOMAIN payments :
        /\ payments[p].row.captured_amount >= 0
        /\ \/ payments[p].checkout \in open /\ payments[p].order = None
           \/ payments[p].checkout = None /\ payments[p].order \in Checkouts \ open

\* Calls that have yet to insert a payment have a place for it.
PaymentsBounded ==
    IsFiniteSet(Creating) /\ Len(payments) + Cardinality(Creating) <= MaxPayments

\* The voucher's rows know the customers of its orders.
CustomersKnown ==
    /\ IsFiniteSet(VoucherOrders)
    /\ OncePerCustomer => \A c \in VoucherOrders : Customer[c] \in voucherCustomers

Inv ==
    /\ TypeOK /\ PaymentsBounded
    /\ \A r \in Requests : WorkerOK(request[r], holds[r])
    /\ LocksExclusive /\ HandedOnce /\ OpenOrOrdered /\ PaymentsOwned
    /\ PaidForOrder /\ VoucherCounted /\ CustomersKnown /\ OneOrderPerCustomer

-----------------------------------------------------------------------------
(* What one worker knows stays true                                        *)

LEMMA IdleTyped ==
    /\ Idle \in RequestRow
    /\ Idle.phase = "idle" /\ Idle.counted = 0 /\ Idle.capture = "none"
    /\ Idle.created = FALSE /\ Idle.checkout = None /\ Idle.payment = None
BY DEF Idle, RequestRow, Phases, None

LEMMA IdleOK == WorkerOK(Idle, {})
BY IdleTyped
DEF WorkerOK, LocksCheckout, CapturesPaid, PaidAtCashfree, LocksVoucher, SavesOwn, HandsOn,
    InTransaction, Charging, Counting, None

\* What a step of others has to leave alone for a worker with request q.
LeavesAlone(q) ==
    /\ \A p \in DOMAIN payments :
         /\ p \in DOMAIN payments'
         /\ payments'[p].row.total = payments[p].row.total
         /\ payments[p].checkout = q.checkout /\ q.checkout \in open' =>
              payments'[p].checkout = q.checkout
    /\ q.phase \in InTransaction => q.checkout \in open'
    /\ q.checkout \notin open => q.checkout \notin open'
    /\ paid \subseteq paid'
    /\ q.counted = 1 => used' = used /\ voucherCustomers' = voucherCustomers
    /\ q.phase = "placed" =>
         /\ orders'[q.checkout] = orders[q.checkout]
         /\ dispatched'[q.checkout] = dispatched[q.checkout]

LEMMA StaysOK ==
    ASSUME NEW q, NEW held, WorkerOK(q, held), LeavesAlone(q)
    PROVE  WorkerOK(q, held)'
<1>1. LocksCheckout(q, held)'
  BY DEF WorkerOK, LeavesAlone, LocksCheckout, PaymentsOf
<1>2. CapturesPaid(q)'
  BY DEF WorkerOK, LeavesAlone, CapturesPaid, PaidAtCashfree
<1>3. LocksVoucher(q, held)'
  BY DEF WorkerOK, LeavesAlone, LocksVoucher
<1>4. SavesOwn(q)'
  BY DEF WorkerOK, LeavesAlone, SavesOwn, PaymentsOf
<1>5. HandsOn(q)'
  BY DEF WorkerOK, LeavesAlone, HandsOn
<1> QED
  BY <1>1, <1>2, <1>3, <1>4, <1>5 DEF WorkerOK

LEMMA SameStore ==
    ASSUME NEW q, UNCHANGED << payments, open, paid, used, voucherCustomers, orders, dispatched >>,
           q.phase \in InTransaction => q.checkout \in open
    PROVE  LeavesAlone(q)
BY DEF LeavesAlone

\* A step gives worker r the request row and the locks held.
LEMMA WorkersStayOK ==
    ASSUME TypeOK, NEW r \in Requests, NEW row, NEW held,
           request' = [ request EXCEPT ![r] = row ],
           holds' = [ holds EXCEPT ![r] = held ],
           WorkerOK(row, held)',
           \A w \in Requests \ { r } : WorkerOK(request[w], holds[w]) /\ LeavesAlone(request[w])
    PROVE  \A w \in Requests : WorkerOK(request[w], holds[w])'
<1> SUFFICES ASSUME NEW w \in Requests PROVE WorkerOK(request[w], holds[w])'
  OBVIOUS
<1>1. CASE w = r
  <2>1. request'[w] = row /\ holds'[w] = held
    BY <1>1 DEF TypeOK
  <2> QED
    BY <2>1
    DEF WorkerOK, LocksCheckout, CapturesPaid, PaidAtCashfree, LocksVoucher, SavesOwn, HandsOn
<1>2. CASE w # r
  <2>1. request'[w] = request[w] /\ holds'[w] = holds[w]
    BY <1>2 DEF TypeOK
  <2>2. PICK q, h : q = request[w] /\ h = holds[w]
    OBVIOUS
  <2>3. WorkerOK(q, h)'
    BY <1>2, <2>2, StaysOK
  <2> QED
    BY <2>1, <2>2, <2>3
    DEF WorkerOK, LocksCheckout, CapturesPaid, PaidAtCashfree, LocksVoucher, SavesOwn, HandsOn
<1> QED
  BY <1>1, <1>2

LEMMA ExclusiveStays ==
    ASSUME TypeOK, LocksExclusive, NEW r \in Requests, NEW held,
           holds' = [ holds EXCEPT ![r] = held ],
           \A w \in Requests \ { r } : holds[w] \cap held = {}
    PROVE  LocksExclusive'
BY DEF LocksExclusive, TypeOK

LEMMA FewerCreating ==
    ASSUME PaymentsBounded, payments \in Seq(PaymentOfCheckout),
           Creating' \subseteq Creating, Len(payments') = Len(payments)
    PROVE  PaymentsBounded'
<1> DEFINE S == Creating
           T == Creating'
<1>1. IsFiniteSet(S) /\ Len(payments) + Cardinality(S) <= MaxPayments
  BY DEF PaymentsBounded
<1> HIDE DEF S
<1>2. T \subseteq S
  BY DEF S
<1> HIDE DEF T
<1>3. IsFiniteSet(T) /\ Cardinality(T) <= Cardinality(S)
  BY <1>1, <1>2, FS_Subset, Zenon
<1>4. Cardinality(S) \in Nat /\ Cardinality(T) \in Nat
  BY <1>1, <1>3, FS_CardinalityType
<1>5. Len(payments) \in Nat
  BY LenProperties
<1>6. Len(payments') + Cardinality(T) <= MaxPayments
  BY <1>1, <1>3, <1>4, <1>5
<1> QED
  BY <1>3, <1>6 DEF PaymentsBounded, T

-----------------------------------------------------------------------------
(* A step inside a transaction                                             *)

\* Nothing of the store changes: what is said of it alone stays true.
LEMMA SameStoreProperties ==
    ASSUME OpenOrOrdered, PaymentsOwned, PaidForOrder, VoucherCounted, CustomersKnown,
           OneOrderPerCustomer, UNCHANGED << store, outside >>
    PROVE  /\ OpenOrOrdered' /\ PaymentsOwned' /\ PaidForOrder'
           /\ VoucherCounted' /\ CustomersKnown' /\ OneOrderPerCustomer'
<1>1. OpenOrOrdered' /\ PaymentsOwned'
  BY DEF OpenOrOrdered, PaymentsOwned, store, outside
<1>2. VoucherOrders' = VoucherOrders
  BY DEF VoucherOrders, store
<1>3. \A c \in Checkouts : Charged(c)' = Charged(c)
  BY DEF Charged, store
<1>4. PaidForOrder'
  BY <1>3 DEF PaidForOrder, PaidAtCashfree, store, outside
<1>5. VoucherCounted' /\ CustomersKnown' /\ OneOrderPerCustomer'
  BY <1>2 DEF VoucherCounted, CustomersKnown, OneOrderPerCustomer, store
<1> QED
  BY <1>1, <1>4, <1>5

\* The requests and their locks are typed when one of them changes.
LEMMA RequestTyped ==
    ASSUME TypeOK, NEW r \in Requests, NEW row \in RequestRow, NEW held \in SUBSET Locks,
           request' = [ request EXCEPT ![r] = row ],
           holds' = [ holds EXCEPT ![r] = held ]
    PROVE  request' \in [ Requests -> RequestRow ] /\ holds' \in [ Requests -> SUBSET Locks ]
BY DEF TypeOK

LEMMA CreatingWithout ==
    ASSUME TypeOK, NEW r \in Requests, NEW row,
           request' = [ request EXCEPT ![r] = row ],
           row.phase \notin { "cancelling", "inserting" }
    PROVE  Creating' = Creating \ { r }
BY DEF Creating, TypeOK

LEMMA HandedStays ==
    ASSUME TypeOK, HandedOnce, NEW r \in Requests, NEW row,
           request' = [ request EXCEPT ![r] = row ], row.phase # "placed"
    PROVE  HandedOnce'
BY DEF HandedOnce, TypeOK

LEMMA StepInv ==
    ASSUME Inv, NEW r \in Requests, NEW row \in RequestRow, NEW locks \in SUBSET Locks,
           Step(r, row, locks), row.phase \notin { "cancelling", "inserting", "placed" },
           WorkerOK(row, holds[r] \cup locks)
    PROVE  Inv'
<1>0. PICK held : held = holds[r] \cup locks
  OBVIOUS
<1>1. /\ request' = [ request EXCEPT ![r] = row ]
      /\ holds' = [ holds EXCEPT ![r] = held ]
      /\ \A l \in locks : Free(r, l)
      /\ UNCHANGED << store, outside, calls, crashes >>
  BY <1>0 DEF Step, Inv, TypeOK
<1>2. TypeOK /\ held \in SUBSET Locks
  BY <1>0 DEF Inv, TypeOK
<1>3. UNCHANGED << payments, open, paid, used, voucherCustomers, orders, dispatched >>
  BY <1>1 DEF store, outside
<1>4. TypeOK'
  <2>1. UNCHANGED << open, payments, orders, quantity, allocated, used, voucherCustomers,
                     paid, dispatched, calls, crashes >>
    BY <1>1 DEF store, outside
  <2>2. request' \in [ Requests -> RequestRow ] /\ holds' \in [ Requests -> SUBSET Locks ]
    BY <1>1, <1>2, RequestTyped
  <2> QED
    BY <1>2, <2>1, <2>2 DEF TypeOK
<1>5. PaymentsBounded'
  BY <1>1, <1>2, <1>3, CreatingWithout, FewerCreating DEF Inv, TypeOK
<1>6. \A w \in Requests : WorkerOK(request[w], holds[w])'
  <2>1. WorkerOK(row, held)'
    <3>1. WorkerOK(row, held)
      BY <1>0
    <3>2. LeavesAlone(row)
      BY <1>3, <3>1, SameStore DEF WorkerOK, LocksCheckout
    <3> QED
      BY <3>1, <3>2, StaysOK
  <2>2. ASSUME NEW w \in Requests PROVE WorkerOK(request[w], holds[w]) /\ LeavesAlone(request[w])
    <3>1. WorkerOK(request[w], holds[w])
      BY DEF Inv
    <3> QED
      BY <1>3, <3>1, SameStore DEF WorkerOK, LocksCheckout
  <2> QED
    BY <1>1, <1>2, <2>1, <2>2, WorkersStayOK
<1>7. LocksExclusive'
  <2>1. \A w \in Requests \ { r } : holds[w] \cap held = {}
    BY <1>0, <1>1 DEF Inv, LocksExclusive, Free
  <2> QED
    BY <1>1, <1>2, <2>1, ExclusiveStays DEF Inv
<1>8. HandedOnce'
  BY <1>1, <1>2, HandedStays DEF Inv
<1>9. /\ OpenOrOrdered' /\ PaymentsOwned' /\ PaidForOrder'
      /\ VoucherCounted' /\ CustomersKnown' /\ OneOrderPerCustomer'
  BY <1>1, SameStoreProperties DEF Inv
<1> QED
  BY <1>4, <1>5, <1>6, <1>7, <1>8, <1>9 DEF Inv

-----------------------------------------------------------------------------
(* The steps of checkoutComplete up to its commit                          *)

\* There is a last one among some payments.
LEMMA LastExists ==
    ASSUME NEW n \in Nat, NEW S \in SUBSET (1 .. n), S # {}
    PROVE  \E m \in S : \A k \in S : k <= m
<1> DEFINE T == { n - k : k \in S }
           R == OpToRel(<, Nat)
<1>1. T \in SUBSET Nat /\ T # {}
  <2>1. \A k \in S : n - k \in Nat
    OBVIOUS
  <2>2. PICK k \in S : TRUE
    OBVIOUS
  <2>3. n - k \in T
    BY <2>2
  <2> QED
    BY <2>1, <2>3
<1>2. \A x, y \in T : y < x => << y, x >> \in R
  <2> SUFFICES ASSUME NEW x \in T, NEW y \in T, y < x PROVE << y, x >> \in R
    OBVIOUS
  <2>1. << y, x >> \in Nat \X Nat
    BY <1>1
  <2> QED
    BY <2>1 DEF OpToRel
<1>3. IsWellFoundedOn(R, Nat)
  BY NatLessThanWellFounded
<1> HIDE DEF T, R
<1>4. PICK x \in T : \A y \in T : ~ << y, x >> \in R
  BY <1>1, <1>3, WFMin, Zenon
<1>5. \A y \in T : ~(y < x)
  BY <1>2, <1>4
<1>6. PICK m \in S : x = n - m
  BY DEF T
<1>7. \A k \in S : ~(n - k < n - m)
  BY <1>5, <1>6 DEF T
<1>8. \A k \in S : k <= m
  BY <1>7
<1> QED
  BY <1>8

LEMMA LastActive ==
    ASSUME TypeOK, NEW c
    PROVE  \/ get_last_active_payment(c) = None
           \/ get_last_active_payment(c) \in PaymentsOf(c)
<1>1. CASE Active(c) = {}
  BY <1>1 DEF get_last_active_payment
<1>2. CASE Active(c) # {}
  <2>1. Len(payments) \in Nat /\ DOMAIN payments = 1 .. Len(payments)
    BY LenProperties DEF TypeOK
  <2>2. Active(c) \in SUBSET (1 .. Len(payments))
    BY <2>1 DEF Active, PaymentsOf
  <2>3. \E p \in Active(c) : \A q \in Active(c) : q <= p
    BY <1>2, <2>1, <2>2, LastExists
  <2>4. get_last_active_payment(c) \in Active(c)
    BY <1>2, <2>3, Zenon DEF get_last_active_payment
  <2> QED
    BY <2>4 DEF Active
<1> QED
  BY <1>1, <1>2

LEMMA PaymentsNumbered ==
    ASSUME TypeOK, PaymentsBounded
    PROVE  /\ Len(payments) \in Nat /\ DOMAIN payments = 1 .. Len(payments)
           /\ Len(payments) <= MaxPayments
           /\ \A p \in DOMAIN payments : p \in 1 .. MaxPayments
<1>1. Len(payments) \in Nat /\ DOMAIN payments = 1 .. Len(payments)
  BY LenProperties DEF TypeOK
<1>2. Cardinality(Creating) \in Nat
  BY FS_CardinalityType DEF PaymentsBounded
<1>3. Len(payments) <= MaxPayments
  BY <1>1, <1>2 DEF PaymentsBounded
<1> QED
  BY <1>1, <1>3

LEMMA LockCheckoutInv ==
    ASSUME Inv, NEW r \in Requests, LockCheckout(r)
    PROVE  Inv'
<1>1. PICK q : q = request[r]
  OBVIOUS
<1>2. q \in RequestRow /\ WorkerOK(q, holds[r]) /\ q.phase = "called" /\ q.checkout \in open
  BY <1>1 DEF Inv, TypeOK, LockCheckout
<1>3. PICK ph, p, row :
        /\ ph = (IF is_fully_paid(q.checkout) THEN "lines" ELSE "failed")
        /\ p = get_last_active_payment(q.checkout)
        /\ row = [ q EXCEPT !.phase = ph, !.payment = p ]
  OBVIOUS
<1>4. Step(r, row, { CheckoutLock(q.checkout) })
  BY <1>1, <1>3 DEF LockCheckout
<1>5. ph \in { "lines", "failed" } /\ p \in Nat /\ (p = None \/ p \in PaymentsOf(q.checkout))
  BY <1>3, LastActive, PaymentsNumbered DEF Inv, PaymentsOf, None
<1>6. q.checkout \in Checkouts /\ { CheckoutLock(q.checkout) } \in SUBSET Locks
  BY <1>2 DEF Inv, TypeOK, Locks
<1>7. /\ row \in RequestRow
      /\ row.phase = ph /\ row.payment = p /\ row.checkout = q.checkout
      /\ row.counted = q.counted /\ row.capture = q.capture /\ row.created = q.created
  BY <1>2, <1>3, <1>5 DEF RequestRow, Phases
<1>8. WorkerOK(row, holds[r] \cup { CheckoutLock(q.checkout) })
  BY <1>2, <1>5, <1>7
  DEF WorkerOK, LocksCheckout, CapturesPaid, PaidAtCashfree, LocksVoucher, SavesOwn, HandsOn,
      InTransaction, Charging, Counting
<1> QED
  BY <1>4, <1>5, <1>6, <1>7, <1>8, StepInv

\* The steps after which a call is over.
LEMMA EndsInv ==
    ASSUME Inv, NEW r \in Requests, Step(r, Idle, {}), holds[r] = {}
    PROVE  Inv'
<1>1. WorkerOK(Idle, holds[r] \cup {})
  BY IdleOK
<1> QED
  BY <1>1, IdleTyped, StepInv

LEMMA FindOrderInv ==
    ASSUME Inv, NEW r \in Requests, FindOrder(r)
    PROVE  Inv'
<1>1. holds[r] = {}
  BY DEF Inv, FindOrder, WorkerOK, LocksCheckout, InTransaction
<1> QED
  BY <1>1, EndsInv DEF FindOrder

LEMMA NoPaymentLinkInv ==
    ASSUME Inv, NEW r \in Requests, NoPaymentLink(r)
    PROVE  Inv'
<1>1. holds[r] = {}
  BY DEF Inv, NoPaymentLink, WorkerOK, LocksCheckout, InTransaction
<1> QED
  BY <1>1, EndsInv DEF NoPaymentLink

LEMMA GetPaymentInv ==
    ASSUME Inv, NEW r \in Requests, GetPayment(r)
    PROVE  Inv'
<1>1. PICK q : q = request[r]
  OBVIOUS
<1>2. q \in RequestRow /\ WorkerOK(q, holds[r]) /\ q.phase = "inserting" /\ holds[r] = {}
  BY <1>1 DEF Inv, TypeOK, GetPayment, WorkerOK, LocksCheckout, InTransaction
<1>3. PICK p \in Active(q.checkout) :
        \/ Step(r, Idle, {})
        \/ Step(r, [ q EXCEPT !.phase = "saving", !.payment = p ], {})
  BY <1>1 DEF GetPayment
<1>4. CASE Step(r, Idle, {})
  BY <1>2, <1>4, EndsInv
<1>5. CASE Step(r, [ q EXCEPT !.phase = "saving", !.payment = p ], {})
  <2>1. PICK row : row = [ q EXCEPT !.phase = "saving", !.payment = p ]
    OBVIOUS
  <2>2. p \in DOMAIN payments /\ p \in Nat /\ p \in PaymentsOf(q.checkout)
    BY <1>3, PaymentsNumbered DEF Active, PaymentsOf, Inv
  <2>3. /\ row \in RequestRow
        /\ row.phase = "saving" /\ row.payment = p /\ row.checkout = q.checkout
        /\ row.counted = q.counted /\ row.capture = q.capture /\ row.created = q.created
    BY <1>2, <2>1, <2>2 DEF RequestRow, Phases
  <2>4. WorkerOK(row, holds[r] \cup {})
    BY <1>2, <2>2, <2>3
    DEF WorkerOK, LocksCheckout, CapturesPaid, PaidAtCashfree, LocksVoucher, SavesOwn, HandsOn,
        InTransaction, Charging, Counting
  <2> QED
    BY <1>5, <2>1, <2>3, <2>4, StepInv
<1> QED
  BY <1>3, <1>4, <1>5

\* A payment that is refunded is one of the rows.
LEMMA RefundLocksTyped ==
    ASSUME Inv, NEW r \in Requests, request[r].phase \in InTransaction
    PROVE  RefundLocks(r) \in SUBSET Locks
<1>1. request[r].payment # None => request[r].payment \in 1 .. MaxPayments
  BY PaymentsNumbered DEF Inv, WorkerOK, LocksCheckout, PaymentsOf
<1> QED
  BY <1>1 DEF RefundLocks, Locks

\* Steps that only change the phase, to "failed" or on.
LEMMA MovesOnInv ==
    ASSUME Inv, NEW r \in Requests, NEW ph \in Phases, NEW locks \in SUBSET Locks,
           Step(r, [ request[r] EXCEPT !.phase = ph ], locks),
           \/ ph = "failed" /\ request[r].phase \in { "lines", "voucher", "payment" }
           \/ ph = "voucher" /\ request[r].phase = "lines"
           \/ /\ ph = "payment" /\ request[r].phase = "lines"
              /\ request[r].checkout \notin VoucherCheckouts
    PROVE  Inv'
<1>1. PICK q, row : q = request[r] /\ row = [ q EXCEPT !.phase = ph ]
  OBVIOUS
<1>2. q \in RequestRow /\ WorkerOK(q, holds[r])
  BY <1>1 DEF Inv, TypeOK
<1>3. /\ row \in RequestRow
      /\ row.phase = ph /\ row.payment = q.payment /\ row.checkout = q.checkout
      /\ row.counted = q.counted /\ row.capture = q.capture /\ row.created = q.created
  BY <1>1, <1>2 DEF RequestRow
<1>5. CASE ph = "payment"
  <2>1. WorkerOK(row, holds[r] \cup locks)
    BY <1>1, <1>2, <1>3, <1>5
    DEF WorkerOK, LocksCheckout, CapturesPaid, PaidAtCashfree, LocksVoucher, SavesOwn, HandsOn,
        InTransaction, Charging, Counting
  <2> QED
    BY <1>1, <1>3, <1>5, <2>1, StepInv
<1>6. CASE ph # "payment"
  <2>1. WorkerOK(row, holds[r] \cup locks)
    BY <1>1, <1>2, <1>3, <1>6
    DEF WorkerOK, LocksCheckout, CapturesPaid, PaidAtCashfree, LocksVoucher, SavesOwn, HandsOn,
        InTransaction, Charging, Counting
  <2> QED
    BY <1>1, <1>3, <1>6, <2>1, StepInv
<1> QED
  BY <1>5, <1>6

LEMMA CheckLinesInv ==
    ASSUME Inv, NEW r \in Requests, CheckLines(r)
    PROVE  Inv'
<1>1. PICK ph : ph = (IF request[r].checkout \in VoucherCheckouts THEN "voucher" ELSE "payment")
  OBVIOUS
<1>2. request[r].phase = "lines" /\ RefundLocks(r) \in SUBSET Locks /\ {} \in SUBSET Locks
  BY RefundLocksTyped DEF CheckLines, InTransaction
<1>3. CASE Step(r, [ request[r] EXCEPT !.phase = ph ], {})
  <2>1. /\ ph \in Phases
        /\ ph = "voucher" \/ (ph = "payment" /\ request[r].checkout \notin VoucherCheckouts)
    BY <1>1 DEF Phases
  <2> QED
    BY <1>2, <1>3, <2>1, MovesOnInv
<1>4. CASE Step(r, [ request[r] EXCEPT !.phase = "failed" ], RefundLocks(r))
  BY <1>2, <1>4, MovesOnInv DEF Phases
<1> QED
  BY <1>1, <1>3, <1>4 DEF CheckLines

LEMMA VoucherGoneInv ==
    ASSUME Inv, NEW r \in Requests, VoucherGone(r)
    PROVE  Inv'
BY MovesOnInv, RefundLocksTyped DEF VoucherGone, Phases, InTransaction

LEMMA FailBeforePaymentInv ==
    ASSUME Inv, NEW r \in Requests, FailBeforePayment(r)
    PROVE  Inv'
BY MovesOnInv, RefundLocksTyped DEF FailBeforePayment, Phases, InTransaction

LEMMA TakeVoucherInv ==
    ASSUME Inv, NEW r \in Requests, TakeVoucher(r)
    PROVE  Inv'
<1>1. PICK q : q = request[r]
  OBVIOUS
<1>2. q \in RequestRow /\ WorkerOK(q, holds[r]) /\ q.phase = "voucher" /\ used < UsageLimit
  BY <1>1 DEF Inv, TypeOK, TakeVoucher
<1>3. PICK ph \in { "failed", "payment" },
           locks \in { { VoucherLock }, { VoucherLock } \cup RefundLocks(r) } :
        /\ ph = "payment" /\ OncePerCustomer => Customer[q.checkout] \notin voucherCustomers
        /\ Step(r, [ q EXCEPT !.counted = 1, !.phase = ph ], locks)
  BY <1>1 DEF TakeVoucher, UsedBefore
<1>4. PICK row : row = [ q EXCEPT !.counted = 1, !.phase = ph ]
  OBVIOUS
<1>5. locks \in SUBSET Locks /\ VoucherLock \in locks
  <2>1. RefundLocks(r) \in SUBSET Locks
    BY <1>1, <1>2, RefundLocksTyped DEF InTransaction
  <2>2. VoucherLock \in Locks
    BY DEF Locks
  <2> QED
    BY <1>3, <2>1, <2>2
<1>6. /\ row \in RequestRow
      /\ row.phase = ph /\ row.payment = q.payment /\ row.checkout = q.checkout
      /\ row.counted = 1 /\ row.capture = q.capture /\ row.created = q.created
  BY <1>2, <1>4 DEF RequestRow, Phases
<1>7. WorkerOK(row, holds[r] \cup locks)
  BY <1>2, <1>3, <1>5, <1>6
  DEF WorkerOK, LocksCheckout, CapturesPaid, PaidAtCashfree, LocksVoucher, SavesOwn, HandsOn,
      InTransaction, Charging, Counting
<1> QED
  BY <1>3, <1>4, <1>5, <1>6, <1>7, StepInv

LEMMA ProcessPaymentInv ==
    ASSUME Inv, NEW r \in Requests, ProcessPayment(r)
    PROVE  Inv'
<1>1. PICK q : q = request[r]
  OBVIOUS
<1>2. q \in RequestRow /\ WorkerOK(q, holds[r]) /\ q.phase = "payment" /\ q.payment # None
  BY <1>1 DEF Inv, TypeOK, ProcessPayment
<1>3. q.payment \in DOMAIN payments /\ { PaymentLock(q.payment) } \in SUBSET Locks
  <2>1. q.payment \in DOMAIN payments /\ q.payment \in 1 .. MaxPayments
    BY <1>2, PaymentsNumbered DEF Inv, WorkerOK, LocksCheckout, InTransaction, PaymentsOf
  <2> QED
    BY <2>1 DEF Locks
<1>4. CASE /\ PaidAtCashfree(q.payment)
           /\ Step(r, [ q EXCEPT !.capture = "done", !.phase = "order" ],
                   { PaymentLock(q.payment) })
  <2>1. PICK row : row = [ q EXCEPT !.capture = "done", !.phase = "order" ]
    OBVIOUS
  <2>2. /\ row \in RequestRow
        /\ row.phase = "order" /\ row.payment = q.payment /\ row.checkout = q.checkout
        /\ row.counted = q.counted /\ row.capture = "done" /\ row.created = q.created
    BY <1>2, <2>1 DEF RequestRow, Phases
  <2>3. WorkerOK(row, holds[r] \cup { PaymentLock(q.payment) })
    BY <1>2, <1>3, <1>4, <2>2
    DEF WorkerOK, LocksCheckout, CapturesPaid, PaidAtCashfree, LocksVoucher, SavesOwn, HandsOn,
        InTransaction, Charging, Counting
  <2> QED
    BY <1>3, <1>4, <2>1, <2>2, <2>3, StepInv
<1>5. CASE Step(r, [ Released(q) EXCEPT !.capture = "failed", !.phase = "failed" ],
                { PaymentLock(q.payment) })
  <2>1. PICK row : row = [ Released(q) EXCEPT !.capture = "failed", !.phase = "failed" ]
    OBVIOUS
  <2>2. /\ row \in RequestRow
        /\ row.phase = "failed" /\ row.payment = q.payment /\ row.checkout = q.checkout
        /\ row.counted = 0 /\ row.capture = "failed" /\ row.created = q.created
    BY <1>2, <2>1 DEF RequestRow, Phases, Released
  <2>3. WorkerOK(row, holds[r] \cup { PaymentLock(q.payment) })
    BY <1>2, <2>2
    DEF WorkerOK, LocksCheckout, CapturesPaid, PaidAtCashfree, LocksVoucher, SavesOwn, HandsOn,
        InTransaction, Charging, Counting
  <2> QED
    BY <1>3, <1>5, <2>1, <2>2, <2>3, StepInv
<1> QED
  BY <1>1, <1>4, <1>5 DEF ProcessPayment

\* The checkout is locked and there: it has no order yet.
LEMMA CreateOrderInv ==
    ASSUME Inv, NEW r \in Requests, CreateOrder(r)
    PROVE  Inv'
<1>1. PICK q, row :
        /\ q = request[r]
        /\ row = [ q EXCEPT !.phase = "allocate", !.snapshot = allocated ]
  OBVIOUS
<1>2. q \in RequestRow /\ WorkerOK(q, holds[r]) /\ q.phase = "order" /\ allocated \in Nat
  BY <1>1 DEF Inv, TypeOK, CreateOrder
<1>3. orders[q.checkout] = 0
  BY <1>2 DEF Inv, OpenOrOrdered, WorkerOK, LocksCheckout, InTransaction
<1>4. Step(r, row, {})
  BY <1>1, <1>3 DEF CreateOrder
<1>5. /\ row \in RequestRow
      /\ row.phase = "allocate" /\ row.payment = q.payment /\ row.checkout = q.checkout
      /\ row.counted = q.counted /\ row.capture = q.capture /\ row.created = q.created
  BY <1>1, <1>2 DEF RequestRow, Phases
<1>6. WorkerOK(row, holds[r] \cup {})
  BY <1>2, <1>5
  DEF WorkerOK, LocksCheckout, CapturesPaid, PaidAtCashfree, LocksVoucher, SavesOwn, HandsOn,
      InTransaction, Charging, Counting
<1> QED
  BY <1>4, <1>5, <1>6, StepInv

LEMMA AllocateInv ==
    ASSUME Inv, NEW r \in Requests, Allocate(r)
    PROVE  Inv'
<1>1. PICK q : q = request[r]
  OBVIOUS
<1>2. q \in RequestRow /\ WorkerOK(q, holds[r]) /\ q.phase = "allocate"
  BY <1>1 DEF Inv, TypeOK, Allocate
<1>3. PICK locks : locks = { StockLock } \cup { PaymentLock(p) : p \in PaymentsOf(q.checkout) }
  OBVIOUS
<1>4. locks \in SUBSET Locks
  BY <1>3, PaymentsNumbered DEF Inv, PaymentsOf, Locks
<1>5. CASE Step(r, [ q EXCEPT !.phase = "finished", !.created = TRUE ], locks)
  <2>1. PICK row : row = [ q EXCEPT !.phase = "finished", !.created = TRUE ]
    OBVIOUS
  <2>2. /\ row.phase = "finished" /\ row.payment = q.payment /\ row.checkout = q.checkout
        /\ row.counted = q.counted /\ row.capture = q.capture /\ row.created = TRUE
    BY <1>2, <2>1 DEF RequestRow
  <2>3. row \in RequestRow
    BY <1>2, <2>1, Zenon DEF RequestRow, Phases
  <2>4. WorkerOK(row, holds[r] \cup locks)
    BY <1>2, <2>2
    DEF WorkerOK, LocksCheckout, CapturesPaid, PaidAtCashfree, LocksVoucher, SavesOwn, HandsOn,
        InTransaction, Charging, Counting
  <2> QED
    BY <1>4, <1>5, <2>1, <2>2, <2>3, <2>4, StepInv
<1>6. CASE Step(r, [ Released(q) EXCEPT !.phase = "failed" ], {})
  <2>1. PICK row : row = [ Released(q) EXCEPT !.phase = "failed" ]
    OBVIOUS
  <2>2. /\ row \in RequestRow
        /\ row.phase = "failed" /\ row.payment = q.payment /\ row.checkout = q.checkout
        /\ row.counted = 0 /\ row.capture = q.capture /\ row.created = q.created
    BY <1>2, <2>1 DEF RequestRow, Phases, Released
  <2>3. WorkerOK(row, holds[r] \cup {})
    BY <1>2, <2>2
    DEF WorkerOK, LocksCheckout, CapturesPaid, PaidAtCashfree, LocksVoucher, SavesOwn, HandsOn,
        InTransaction, Charging, Counting
  <2> QED
    BY <1>6, <2>1, <2>2, <2>3, StepInv
<1> QED
  BY <1>1, <1>3, <1>5, <1>6 DEF Allocate

-----------------------------------------------------------------------------
(* The steps that leave the payments alone                                 *)

LEMMA InitInv == Init => Inv
<1> SUFFICES ASSUME Init PROVE Inv
  OBVIOUS
<1>1. payments = << >> /\ payments \in Seq(PaymentOfCheckout) /\ Len(payments) = 0
  BY EmptySeq DEF Init
<1>2. DOMAIN payments = {}
  BY <1>1
<1>3. TypeOK
  <2>1. request \in [ Requests -> RequestRow ]
    BY IdleTyped DEF Init
  <2> QED
    BY <1>1, <2>1 DEF Init, TypeOK
<1>4. PaymentsBounded
  <2>1. Creating = {}
    BY IdleTyped DEF Init, Creating
  <2> QED
    BY <1>1, <2>1, FS_EmptySet DEF PaymentsBounded
<1>5. \A r \in Requests : WorkerOK(request[r], holds[r])
  BY IdleOK DEF Init
<1>6. LocksExclusive /\ HandedOnce /\ OpenOrOrdered
  BY IdleTyped DEF Init, LocksExclusive, HandedOnce, OpenOrOrdered
<1>7. PaymentsOwned /\ PaidForOrder
  BY <1>2 DEF Init, PaymentsOwned, PaidForOrder
<1>8. VoucherOrders = {}
  BY DEF Init, VoucherOrders
<1>9. VoucherCounted /\ CustomersKnown /\ OneOrderPerCustomer
  BY <1>8, FS_EmptySet DEF Init, VoucherCounted, CustomersKnown, OneOrderPerCustomer
<1> QED
  BY <1>3, <1>4, <1>5, <1>6, <1>7, <1>9 DEF Inv

\* An idle worker starts a call, or one ends: it holds nothing.
LEMMA CheckoutCompleteInv ==
    ASSUME Inv, NEW r \in Requests, NEW c \in Checkouts, CheckoutComplete(r, c)
    PROVE  Inv'
<1>1. PICK row : row = [ Idle EXCEPT !.phase = "called", !.checkout = c ]
  OBVIOUS
<1>2. /\ request[r].phase = "idle" /\ request' = [ request EXCEPT ![r] = row ]
      /\ calls' = calls + 1
  BY <1>1 DEF CheckoutComplete
<1>3. UNCHANGED << store, holds, outside, crashes >>
  BY DEF CheckoutComplete
<1>4. /\ row \in RequestRow /\ row.phase = "called" /\ row.checkout = c /\ row.counted = 0
      /\ row.capture = "none" /\ row.created = FALSE /\ row.payment = None
  BY <1>1, IdleTyped DEF RequestRow, Phases, Idle
<1>5. TypeOK /\ holds[r] = {} /\ holds' = [ holds EXCEPT ![r] = {} ]
  BY <1>2, <1>3 DEF Inv, TypeOK, WorkerOK, LocksCheckout, InTransaction
<1>6. UNCHANGED << payments, open, paid, used, voucherCustomers, orders, dispatched >>
  BY <1>3 DEF store, outside
<1>7. TypeOK'
  <2>1. UNCHANGED << open, payments, orders, quantity, allocated, used, voucherCustomers,
                     paid, dispatched, crashes >>
    BY <1>3 DEF store, outside
  <2>2. request' \in [ Requests -> RequestRow ] /\ holds' \in [ Requests -> SUBSET Locks ]
    BY <1>2, <1>4, <1>5, RequestTyped
  <2> QED
    BY <1>2, <1>5, <2>1, <2>2 DEF TypeOK
<1>8. PaymentsBounded'
  BY <1>2, <1>4, <1>5, <1>6, CreatingWithout, FewerCreating DEF Inv, TypeOK
<1>9. \A w \in Requests : WorkerOK(request[w], holds[w])'
  <2>1. WorkerOK(row, {})'
    BY <1>4
    DEF WorkerOK, LocksCheckout, CapturesPaid, PaidAtCashfree, LocksVoucher, SavesOwn, HandsOn,
        InTransaction, Charging, Counting
  <2>2. ASSUME NEW w \in Requests PROVE WorkerOK(request[w], holds[w]) /\ LeavesAlone(request[w])
    <3>1. WorkerOK(request[w], holds[w])
      BY DEF Inv
    <3> QED
      BY <1>6, <3>1, SameStore DEF WorkerOK, LocksCheckout
  <2> QED
    BY <1>2, <1>5, <2>1, <2>2, WorkersStayOK
<1>10. LocksExclusive' /\ HandedOnce'
  <2>1. HandedOnce'
    BY <1>2, <1>4, <1>5, HandedStays DEF Inv
  <2>2. \A w \in Requests \ { r } : holds[w] \cap {} = {}
    OBVIOUS
  <2>3. LocksExclusive'
    BY <1>2, <1>4, <1>5, <2>2, ExclusiveStays DEF Inv
  <2> QED
    BY <2>1, <2>3
<1>11. /\ OpenOrOrdered' /\ PaymentsOwned' /\ PaidForOrder'
       /\ VoucherCounted' /\ CustomersKnown' /\ OneOrderPerCustomer'
  BY <1>3, SameStoreProperties DEF Inv
<1> QED
  BY <1>7, <1>8, <1>9, <1>10, <1>11 DEF Inv

\* A place for its payment is set aside.
LEMMA CheckoutPaymentCreateInv ==
    ASSUME Inv, NEW r \in Requests, NEW c \in Checkouts, NEW total \in Totals,
           CheckoutPaymentCreate(r, c, total)
    PROVE  Inv'
<1>1. PICK row : row = [ Idle EXCEPT !.phase = "cancelling", !.checkout = c, !.total = total ]
  OBVIOUS
<1>2. /\ request[r].phase = "idle" /\ request' = [ request EXCEPT ![r] = row ]
      /\ calls' = calls + 1 /\ Len(payments) + Cardinality(Creating) < MaxPayments
  BY <1>1 DEF CheckoutPaymentCreate
<1>3. UNCHANGED << store, holds, outside, crashes >>
  BY DEF CheckoutPaymentCreate
<1>4. /\ row \in RequestRow /\ row.phase = "cancelling" /\ row.checkout = c /\ row.counted = 0
      /\ row.capture = "none" /\ row.created = FALSE /\ row.payment = None
  BY <1>1, IdleTyped DEF RequestRow, Phases, Idle
<1>5. TypeOK /\ holds[r] = {} /\ holds' = [ holds EXCEPT ![r] = {} ]
  BY <1>2, <1>3 DEF Inv, TypeOK, WorkerOK, LocksCheckout, InTransaction
<1>6. UNCHANGED << payments, open, paid, used, voucherCustomers, orders, dispatched >>
  BY <1>3 DEF store, outside
<1>7. TypeOK'
  <2>1. UNCHANGED << open, payments, orders, quantity, allocated, used, voucherCustomers,
                     paid, dispatched, crashes >>
    BY <1>3 DEF store, outside
  <2>2. request' \in [ Requests -> RequestRow ] /\ holds' \in [ Requests -> SUBSET Locks ]
    BY <1>2, <1>4, <1>5, RequestTyped
  <2> QED
    BY <1>2, <1>5, <2>1, <2>2 DEF TypeOK
<1>8. PaymentsBounded'
  <2> DEFINE S == Creating
             T == Creating'
  <2>1. T = S \cup { r }
    BY <1>2, <1>4, <1>5 DEF Creating, TypeOK
  <2>2. IsFiniteSet(S) /\ Len(payments) + Cardinality(S) < MaxPayments
    BY <1>2 DEF Inv, PaymentsBounded
  <2> HIDE DEF S
  <2>3. /\ IsFiniteSet(S \cup { r })
        /\ Cardinality(S \cup { r }) \in { Cardinality(S), Cardinality(S) + 1 }
    BY <2>2, FS_AddElement
  <2> HIDE DEF T
  <2>4. Cardinality(S) \in Nat /\ Cardinality(T) \in { Cardinality(S), Cardinality(S) + 1 }
    BY <2>1, <2>2, <2>3, FS_CardinalityType
  <2>5. Len(payments) \in Nat /\ Len(payments') = Len(payments)
    BY <1>5, <1>6, LenProperties DEF TypeOK
  <2>6. Len(payments') + Cardinality(T) <= MaxPayments
    BY <2>2, <2>4, <2>5
  <2>7. IsFiniteSet(T)
    BY <2>1, <2>3
  <2> QED
    BY <2>6, <2>7 DEF PaymentsBounded, T
<1>9. \A w \in Requests : WorkerOK(request[w], holds[w])'
  <2>1. WorkerOK(row, {})'
    BY <1>4
    DEF WorkerOK, LocksCheckout, CapturesPaid, PaidAtCashfree, LocksVoucher, SavesOwn, HandsOn,
        InTransaction, Charging, Counting
  <2>2. ASSUME NEW w \in Requests PROVE WorkerOK(request[w], holds[w]) /\ LeavesAlone(request[w])
    <3>1. WorkerOK(request[w], holds[w])
      BY DEF Inv
    <3> QED
      BY <1>6, <3>1, SameStore DEF WorkerOK, LocksCheckout
  <2> QED
    BY <1>2, <1>5, <2>1, <2>2, WorkersStayOK
<1>10. LocksExclusive' /\ HandedOnce'
  <2>1. HandedOnce'
    BY <1>2, <1>4, <1>5, HandedStays DEF Inv
  <2>2. \A w \in Requests \ { r } : holds[w] \cap {} = {}
    OBVIOUS
  <2>3. LocksExclusive'
    BY <1>2, <1>4, <1>5, <2>2, ExclusiveStays DEF Inv
  <2> QED
    BY <2>1, <2>3
<1>11. /\ OpenOrOrdered' /\ PaymentsOwned' /\ PaidForOrder'
       /\ VoucherCounted' /\ CustomersKnown' /\ OneOrderPerCustomer'
  BY <1>3, SameStoreProperties DEF Inv
<1> QED
  BY <1>7, <1>8, <1>9, <1>10, <1>11 DEF Inv

LEMMA CrashInv ==
    ASSUME Inv, NEW r \in Requests, Crash(r)
    PROVE  Inv'
<1>1. /\ request' = [ request EXCEPT ![r] = Idle ] /\ holds' = [ holds EXCEPT ![r] = {} ]
      /\ crashes' = crashes + 1 /\ TypeOK
  BY DEF Crash, Inv
<1>2. UNCHANGED << store, outside, calls >>
  BY DEF Crash
<1>3. UNCHANGED << payments, open, paid, used, voucherCustomers, orders, dispatched >>
  BY <1>2 DEF store, outside
<1>4. TypeOK'
  <2>1. UNCHANGED << open, payments, orders, quantity, allocated, used, voucherCustomers,
                     paid, dispatched, calls >>
    BY <1>2 DEF store, outside
  <2>2. request' \in [ Requests -> RequestRow ] /\ holds' \in [ Requests -> SUBSET Locks ]
    BY <1>1, IdleTyped, RequestTyped
  <2> QED
    BY <1>1, <2>1, <2>2 DEF TypeOK
<1>5. PaymentsBounded'
  BY <1>1, <1>3, IdleTyped, CreatingWithout, FewerCreating DEF Inv, TypeOK
<1>6. \A w \in Requests : WorkerOK(request[w], holds[w])'
  <2>1. WorkerOK(Idle, {})'
    BY IdleTyped
    DEF WorkerOK, LocksCheckout, CapturesPaid, PaidAtCashfree, LocksVoucher, SavesOwn, HandsOn,
        InTransaction, Charging, Counting
  <2>2. ASSUME NEW w \in Requests PROVE WorkerOK(request[w], holds[w]) /\ LeavesAlone(request[w])
    <3>1. WorkerOK(request[w], holds[w])
      BY DEF Inv
    <3> QED
      BY <1>3, <3>1, SameStore DEF WorkerOK, LocksCheckout
  <2> QED
    BY <1>1, <2>1, <2>2, WorkersStayOK
<1>7. LocksExclusive' /\ HandedOnce'
  <2>1. HandedOnce'
    BY <1>1, IdleTyped, HandedStays DEF Inv
  <2>2. \A w \in Requests \ { r } : holds[w] \cap {} = {}
    OBVIOUS
  <2>3. LocksExclusive'
    BY <1>1, IdleTyped, <2>2, ExclusiveStays DEF Inv
  <2> QED
    BY <2>1, <2>3
<1>8. /\ OpenOrOrdered' /\ PaymentsOwned' /\ PaidForOrder'
      /\ VoucherCounted' /\ CustomersKnown' /\ OneOrderPerCustomer'
  BY <1>2, SameStoreProperties DEF Inv
<1> QED
  BY <1>4, <1>5, <1>6, <1>7, <1>8 DEF Inv

\* Nobody else hands on the same order.
LEMMA PlaceWithBrandsInv ==
    ASSUME Inv, NEW r \in Requests, PlaceWithBrands(r)
    PROVE  Inv'
<1>1. PICK c : c = request[r].checkout
  OBVIOUS
<1>2. /\ request[r].phase = "placed" /\ request' = [ request EXCEPT ![r] = Idle ]
      /\ dispatched' = [ dispatched EXCEPT ![c] = @ + 1 ] /\ TypeOK
  BY <1>1 DEF PlaceWithBrands, Inv
<1>3. UNCHANGED << store, holds, paid, calls, crashes >>
  BY DEF PlaceWithBrands
<1>4. UNCHANGED << open, payments, orders, quantity, allocated, used, voucherCustomers,
                   paid, calls, crashes >>
  BY <1>3 DEF store
<1>5. /\ c \in Checkouts /\ orders[c] = 1 /\ dispatched[c] = 0 /\ c \notin open
      /\ holds[r] = {} /\ holds' = [ holds EXCEPT ![r] = {} ]
  BY <1>1, <1>2, <1>3
  DEF Inv, TypeOK, WorkerOK, LocksCheckout, HandsOn, OpenOrOrdered, InTransaction
<1>6. /\ dispatched' \in [ Checkouts -> Nat ]
      /\ \A d \in Checkouts : d # c => dispatched'[d] = dispatched[d]
  BY <1>2, <1>5 DEF TypeOK
<1>7. TypeOK'
  <2>1. request' \in [ Requests -> RequestRow ] /\ holds' \in [ Requests -> SUBSET Locks ]
    BY <1>2, <1>5, IdleTyped, RequestTyped
  <2> QED
    BY <1>2, <1>4, <1>6, <2>1 DEF TypeOK
<1>8. PaymentsBounded'
  BY <1>2, <1>4, IdleTyped, CreatingWithout, FewerCreating DEF Inv, TypeOK
<1>9. \A w \in Requests : WorkerOK(request[w], holds[w])'
  <2>1. WorkerOK(Idle, {})'
    BY IdleTyped
    DEF WorkerOK, LocksCheckout, CapturesPaid, PaidAtCashfree, LocksVoucher, SavesOwn, HandsOn,
        InTransaction, Charging, Counting
  <2>2. ASSUME NEW w \in Requests \ { r }
        PROVE  WorkerOK(request[w], holds[w]) /\ LeavesAlone(request[w])
    <3>1. PICK q : q = request[w]
      OBVIOUS
    <3>2. WorkerOK(q, holds[w])
      BY <3>1 DEF Inv
    <3>3. q.phase = "placed" => q.checkout # c /\ q.checkout \in Checkouts
      BY <1>1, <1>2, <3>1, <3>2 DEF Inv, HandedOnce, WorkerOK, LocksCheckout
    <3>4. LeavesAlone(q)
      BY <1>4, <1>6, <3>2, <3>3 DEF LeavesAlone, WorkerOK, LocksCheckout
    <3> QED
      BY <3>1, <3>2, <3>4
  <2> QED
    BY <1>2, <1>5, <2>1, <2>2, WorkersStayOK
<1>10. HandedOnce'
  BY <1>2, IdleTyped, HandedStays DEF Inv
<1>11. LocksExclusive'
  BY <1>3 DEF Inv, LocksExclusive
<1>12. OpenOrOrdered' /\ PaymentsOwned'
  BY <1>4, <1>5, <1>6 DEF Inv, OpenOrOrdered, PaymentsOwned
<1>13. PaidForOrder' /\ VoucherCounted' /\ CustomersKnown' /\ OneOrderPerCustomer'
  <2>1. VoucherOrders' = VoucherOrders
    BY <1>4 DEF VoucherOrders
  <2>2. \A d \in Checkouts : Charged(d)' = Charged(d)
    BY <1>4 DEF Charged
  <2>3. PaidForOrder'
    BY <1>4, <2>2 DEF Inv, PaidForOrder, PaidAtCashfree
  <2>4. VoucherCounted' /\ CustomersKnown' /\ OneOrderPerCustomer'
    BY <1>4, <2>1 DEF Inv, VoucherCounted, CustomersKnown, OneOrderPerCustomer
  <2> QED
    BY <2>3, <2>4
<1> QED
  BY <1>7, <1>8, <1>9, <1>10, <1>11, <1>12, <1>13 DEF Inv

-----------------------------------------------------------------------------
(* The world around                                                        *)

\* No request changes, and nothing the workers rely on does.
LEMMA RequestsStay ==
    ASSUME Inv, TypeOK', UNCHANGED << request, holds, payments, orders, used, voucherCustomers,
                                      dispatched, open >>,
           paid \subseteq paid'
    PROVE  Inv'
<1>1. PaymentsBounded' /\ LocksExclusive' /\ HandedOnce' /\ OpenOrOrdered' /\ PaymentsOwned'
  BY DEF Inv, PaymentsBounded, Creating, LocksExclusive, HandedOnce, OpenOrOrdered, PaymentsOwned
<1>2. VoucherOrders' = VoucherOrders
  BY DEF VoucherOrders
<1>3. \A d \in Checkouts : Charged(d)' = Charged(d)
  BY DEF Charged
<1>4. PaidForOrder'
  BY <1>3 DEF Inv, PaidForOrder, PaidAtCashfree
<1>5. VoucherCounted' /\ CustomersKnown' /\ OneOrderPerCustomer'
  BY <1>2 DEF Inv, VoucherCounted, CustomersKnown, OneOrderPerCustomer
<1>6. ASSUME NEW w \in Requests PROVE WorkerOK(request[w], holds[w])'
  <2>1. PICK q, h : q = request[w] /\ h = holds[w]
    OBVIOUS
  <2>2. WorkerOK(q, h)
    BY <2>1 DEF Inv
  <2>3. LeavesAlone(q)
    BY <2>2 DEF LeavesAlone, WorkerOK, LocksCheckout
  <2>4. WorkerOK(q, h)'
    BY <2>2, <2>3, StaysOK
  <2>5. request'[w] = q /\ holds'[w] = h
    BY <2>1
  <2> QED
    BY <2>4, <2>5
    DEF WorkerOK, LocksCheckout, CapturesPaid, PaidAtCashfree, LocksVoucher, SavesOwn, HandsOn
<1> QED
  BY <1>1, <1>4, <1>5, <1>6 DEF Inv

LEMMA PayInv ==
    ASSUME Inv, NEW p \in 1 .. MaxPayments, Pay(p)
    PROVE  Inv'
<1>1. paid' = paid \cup { p } /\ UNCHANGED << store, request, holds, dispatched, calls, crashes >>
  BY DEF Pay
<1>2. UNCHANGED << open, payments, orders, quantity, allocated, used, voucherCustomers, request,
                   holds, dispatched, calls, crashes >>
  BY <1>1 DEF store
<1>3. TypeOK'
  BY <1>1, <1>2 DEF Inv, TypeOK
<1> QED
  BY <1>1, <1>2, <1>3, RequestsStay

LEMMA SetQuantityInv ==
    ASSUME Inv, NEW n \in Quantities, SetQuantity(n)
    PROVE  Inv'
<1>1. quantity' = n
  BY DEF SetQuantity
<1>2. UNCHANGED << open, payments, orders, allocated, used, voucherCustomers, request, holds,
                   paid, dispatched, calls, crashes >>
  BY DEF SetQuantity, outside
<1>3. TypeOK'
  BY <1>1, <1>2 DEF Inv, TypeOK
<1> QED
  BY <1>2, <1>3, RequestsStay

LEMMA StutterInv ==
    ASSUME Inv, UNCHANGED vars
    PROVE  Inv'
<1>1. UNCHANGED << open, payments, orders, quantity, allocated, used, voucherCustomers, request,
                   holds, paid, dispatched, calls, crashes >>
  BY DEF vars, store, outside
<1>2. TypeOK'
  BY <1>1 DEF Inv, TypeOK
<1> QED
  BY <1>1, <1>2, RequestsStay

-----------------------------------------------------------------------------
(* The steps of checkoutPaymentCreate                                      *)

LEMMA SameLength ==
    ASSUME TypeOK, NEW s \in [ DOMAIN payments -> PaymentOfCheckout ]
    PROVE  /\ s \in Seq(PaymentOfCheckout) /\ Len(s) = Len(payments)
           /\ DOMAIN s = DOMAIN payments
<1>1. Len(payments) \in Nat /\ DOMAIN payments = 1 .. Len(payments)
  BY LenProperties DEF TypeOK
<1>2. s \in [ 1 .. Len(payments) -> PaymentOfCheckout ]
  BY <1>1
<1>3. s \in Seq(PaymentOfCheckout)
  BY <1>1, <1>2
<1>4. Len(s) = Len(payments)
  BY <1>1, <1>2, <1>3, LenProperties
<1> QED
  BY <1>2, <1>3, <1>4

\* A step of checkoutPaymentCreate changes payments of open checkouts only.
LEMMA PaymentsChange ==
    ASSUME Inv, NEW r \in Requests, NEW row \in RequestRow,
           request' = [ request EXCEPT ![r] = row ], holds[r] = {}, row.phase # "placed",
           UNCHANGED << open, orders, quantity, allocated, used, voucherCustomers, holds,
                        paid, dispatched, calls, crashes >>,
           payments' \in Seq(PaymentOfCheckout), PaymentsBounded', PaymentsOwned',
           \A p \in DOMAIN payments :
               /\ p \in DOMAIN payments'
               /\ payments'[p].checkout = payments[p].checkout
               /\ payments'[p].order = payments[p].order
               /\ payments'[p].row.total = payments[p].row.total
               /\ payments[p].order # None =>
                    payments'[p].row.charge_status = payments[p].row.charge_status,
           WorkerOK(row, {})'
    PROVE  Inv'
<1>1. TypeOK /\ holds' = [ holds EXCEPT ![r] = {} ]
  BY DEF Inv, TypeOK
<1>2. TypeOK'
  <2>1. request' \in [ Requests -> RequestRow ] /\ holds' \in [ Requests -> SUBSET Locks ]
    BY <1>1, RequestTyped
  <2> QED
    BY <1>1, <2>1 DEF TypeOK
<1>3. \A w \in Requests : WorkerOK(request[w], holds[w])'
  <2>1. ASSUME NEW w \in Requests \ { r }
        PROVE  WorkerOK(request[w], holds[w]) /\ LeavesAlone(request[w])
    <3>1. PICK q : q = request[w]
      OBVIOUS
    <3>2. WorkerOK(q, holds[w])
      BY <3>1 DEF Inv
    <3>3. LeavesAlone(q)
      BY <3>2 DEF LeavesAlone, WorkerOK, LocksCheckout
    <3> QED
      BY <3>1, <3>2, <3>3
  <2> QED
    BY <1>1, <2>1, WorkersStayOK
<1>4. HandedOnce'
  BY <1>1, HandedStays DEF Inv
<1>5. LocksExclusive' /\ OpenOrOrdered'
  BY DEF Inv, LocksExclusive, OpenOrOrdered
<1>6. VoucherOrders' = VoucherOrders
  BY DEF VoucherOrders
<1>7. VoucherCounted' /\ CustomersKnown' /\ OneOrderPerCustomer'
  BY <1>6 DEF Inv, VoucherCounted, CustomersKnown, OneOrderPerCustomer
<1>8. PaidForOrder'
  <2> SUFFICES ASSUME NEW c \in Checkouts, orders[c] > 0
               PROVE  \E p \in Charged(c)' : payments'[p].order = c /\ PaidAtCashfree(p)'
    BY DEF PaidForOrder
  <2>1. PICK p \in Charged(c) : payments[p].order = c /\ PaidAtCashfree(p)
    BY DEF Inv, PaidForOrder
  <2>2. p \in DOMAIN payments /\ c # None /\ payments[p].row.charge_status = "fully-charged"
    BY <2>1 DEF Charged
  <2>3. p \in DOMAIN payments' /\ payments'[p].order = c
        /\ payments'[p].row.charge_status = "fully-charged"
    BY <2>1, <2>2
  <2>4. p \in Charged(c)' /\ PaidAtCashfree(p)'
    BY <2>1, <2>2, <2>3 DEF Charged, PaidAtCashfree
  <2> QED
    BY <2>3, <2>4
<1> QED
  BY <1>2, <1>3, <1>4, <1>5, <1>7, <1>8 DEF Inv

\* cancel_active_payments clears is_active and nothing else.
LEMMA CancelKeeps ==
    ASSUME Inv, NEW r \in Requests, CancelActivePayments(r)
    PROVE  /\ payments' \in Seq(PaymentOfCheckout) /\ Len(payments') = Len(payments)
           /\ DOMAIN payments' = DOMAIN payments
           /\ \A p \in DOMAIN payments :
                /\ payments'[p].checkout = payments[p].checkout
                /\ payments'[p].order = payments[p].order
                /\ payments'[p].row.total = payments[p].row.total
                /\ payments'[p].row.captured_amount = payments[p].row.captured_amount
                /\ payments'[p].row.charge_status = payments[p].row.charge_status
<1>1. PICK S : payments' = [ p \in DOMAIN payments |->
                  IF p \in S THEN [ payments[p] EXCEPT !.row.is_active = FALSE ] ELSE payments[p] ]
  BY DEF CancelActivePayments
<1>2. TypeOK /\ \A p \in DOMAIN payments : payments[p] \in PaymentOfCheckout
  <2>1. TypeOK
    BY DEF Inv
  <2> QED
    BY <2>1, LenProperties DEF TypeOK
<1>3. ASSUME NEW x \in PaymentOfCheckout, NEW y, y = [ x EXCEPT !.row.is_active = FALSE ]
      PROVE  /\ y.checkout = x.checkout /\ y.order = x.order
             /\ y.row.total = x.row.total /\ y.row.captured_amount = x.row.captured_amount
             /\ y.row.charge_status = x.row.charge_status
  BY <1>3 DEF PaymentOfCheckout, PaymentRow
<1>4. ASSUME NEW x \in PaymentOfCheckout
      PROVE  [ x EXCEPT !.row.is_active = FALSE ] \in PaymentOfCheckout
  BY Zenon DEF PaymentOfCheckout, PaymentRow
<1>5. payments' \in [ DOMAIN payments -> PaymentOfCheckout ]
  BY <1>1, <1>2, <1>4
<1>6. /\ payments' \in Seq(PaymentOfCheckout) /\ Len(payments') = Len(payments)
       /\ DOMAIN payments' = DOMAIN payments
  BY <1>2, <1>5, SameLength
<1>7. ASSUME NEW p \in DOMAIN payments
       PROVE  /\ payments'[p].checkout = payments[p].checkout
              /\ payments'[p].order = payments[p].order
              /\ payments'[p].row.total = payments[p].row.total
              /\ payments'[p].row.captured_amount = payments[p].row.captured_amount
              /\ payments'[p].row.charge_status = payments[p].row.charge_status
  <2>1. payments'[p] = payments[p] \/ payments'[p] = [ payments[p] EXCEPT !.row.is_active = FALSE ]
    BY <1>1
  <2> QED
    BY <1>2, <1>3, <2>1
<1> QED
  BY <1>6, <1>7

LEMMA CancelActivePaymentsInv ==
    ASSUME Inv, NEW r \in Requests, CancelActivePayments(r)
    PROVE  Inv'
<1>1. PICK q, row : q = request[r] /\ row = [ q EXCEPT !.phase = "inserting" ]
  OBVIOUS
<1>2. q \in RequestRow /\ WorkerOK(q, holds[r]) /\ q.phase = "cancelling" /\ holds[r] = {}
  BY <1>1 DEF Inv, TypeOK, CancelActivePayments, WorkerOK, LocksCheckout, InTransaction
<1>3. /\ row \in RequestRow
      /\ row.phase = "inserting" /\ row.payment = q.payment /\ row.checkout = q.checkout
      /\ row.counted = q.counted /\ row.capture = q.capture /\ row.created = q.created
  BY <1>1, <1>2 DEF RequestRow, Phases
<1>4. request' = [ request EXCEPT ![r] = row ]
  BY <1>1 DEF CancelActivePayments, Inv, TypeOK
<1>5. UNCHANGED << open, orders, quantity, allocated, used, voucherCustomers, holds,
                   paid, dispatched, calls, crashes >>
  BY DEF CancelActivePayments, outside
<1>6. /\ payments' \in Seq(PaymentOfCheckout) /\ Len(payments') = Len(payments)
      /\ DOMAIN payments' = DOMAIN payments
      /\ \A p \in DOMAIN payments :
           /\ payments'[p].checkout = payments[p].checkout
           /\ payments'[p].order = payments[p].order
           /\ payments'[p].row.total = payments[p].row.total
           /\ payments'[p].row.captured_amount = payments[p].row.captured_amount
           /\ payments'[p].row.charge_status = payments[p].row.charge_status
  BY CancelKeeps
<1>7. PaymentsBounded'
  <2>1. Creating' = Creating
    BY <1>1, <1>2, <1>3, <1>4 DEF Creating, Inv, TypeOK
  <2> QED
    BY <1>6, <2>1 DEF Inv, PaymentsBounded
<1>8. PaymentsOwned'
  BY <1>5, <1>6 DEF Inv, PaymentsOwned
<1>9. WorkerOK(row, {})'
  BY <1>2, <1>3, <1>5
  DEF WorkerOK, LocksCheckout, CapturesPaid, PaidAtCashfree, LocksVoucher, SavesOwn, HandsOn,
      InTransaction, Charging, Counting
<1> QED
  BY <1>2, <1>3, <1>4, <1>5, <1>6, <1>7, <1>8, <1>9, PaymentsChange

LEMMA CashfreeTyped ==
    ASSUME NEW total \in Nat, NEW y, y = CashfreePayment(total)
    PROVE  y \in PaymentRow /\ y.total = total /\ y.captured_amount = 0
<1>1. PICK z : z = NewPayment(total)
  OBVIOUS
<1>2. z \in PaymentRow /\ z.total = total /\ z.captured_amount = 0
  BY <1>1 DEF NewPayment, PaymentRow, Gateway, ChargeStatus
<1>3. y = [ z EXCEPT !.gateway = "cashfree" ] /\ "cashfree" \in Gateway
  BY <1>1 DEF CashfreePayment, Gateway
<1>4. y \in PaymentRow
  BY <1>2, <1>3, Zenon DEF PaymentRow
<1> QED
  BY <1>2, <1>3, <1>4 DEF PaymentRow

LEMMA NewPaymentTyped ==
    ASSUME NEW c \in Checkouts, NEW x, NEW b \in BOOLEAN, NEW t \in BOOLEAN, NEW y \in PaymentRow,
           x = [ row |-> y, saved |-> b, tried |-> t, checkout |-> c, order |-> None ]
    PROVE  x \in PaymentOfCheckout /\ x.checkout = c /\ x.order = None /\ x.row = y
<1>1. x \in PaymentOfCheckout
  BY Zenon DEF PaymentOfCheckout
<1> QED
  BY <1>1

\* The place that was set aside is taken, or given up.
LEMMA InsertPaymentInv ==
    ASSUME Inv, NEW r \in Requests, InsertPayment(r)
    PROVE  Inv'
<1>1. PICK q, c, n : q = request[r] /\ c = q.checkout /\ n = Len(payments) + 1
  OBVIOUS
<1>2. /\ q \in RequestRow /\ WorkerOK(q, holds[r]) /\ q.phase = "inserting" /\ holds[r] = {}
      /\ c \in Checkouts
  BY <1>1 DEF Inv, TypeOK, InsertPayment, WorkerOK, LocksCheckout, InTransaction
<1>3. UNCHANGED << open, orders, quantity, allocated, used, voucherCustomers, holds,
                   paid, dispatched, calls, crashes >>
  BY DEF InsertPayment, outside
<1>4. TypeOK /\ Len(payments) \in Nat /\ DOMAIN payments = 1 .. Len(payments)
  BY LenProperties DEF Inv, TypeOK
<1>5. ASSUME NEW row, request' = [ request EXCEPT ![r] = row ],
             row.phase \notin { "cancelling", "inserting" }
      PROVE  IsFiniteSet(Creating') /\ Cardinality(Creating') = Cardinality(Creating) - 1
  <2> DEFINE S == Creating
             T == Creating'
  <2>1. T = S \ { r }
    BY <1>4, <1>5, CreatingWithout
  <2>2. IsFiniteSet(S) /\ r \in S
    BY <1>1, <1>2 DEF Inv, PaymentsBounded, Creating
  <2> HIDE DEF S
  <2>3. IsFiniteSet(S \ { r }) /\ Cardinality(S \ { r }) = Cardinality(S) - 1
    BY <2>2, FS_RemoveElement
  <2> HIDE DEF T
  <2>4. IsFiniteSet(T) /\ Cardinality(T) = Cardinality(S) - 1
    BY <2>1, <2>3
  <2> QED
    BY <2>4 DEF S, T
<1>6. CASE c \in open
  <2>1. PICK y, x, row :
          /\ y = CashfreePayment(q.total)
          /\ x = [ row |-> y, saved |-> FALSE, tried |-> FALSE,
                   checkout |-> c, order |-> None ]
          /\ row = [ q EXCEPT !.phase = "saving", !.payment = n ]
    OBVIOUS
  <2>2. payments' = Append(payments, x)
    BY <1>1, <1>6, <2>1 DEF InsertPayment
  <2>3. request' = [ request EXCEPT ![r] = row ]
    BY <1>1, <1>4, <1>6, <2>1 DEF InsertPayment, TypeOK
  <2>4. /\ row \in RequestRow
        /\ row.phase = "saving" /\ row.payment = n /\ row.checkout = c
        /\ row.counted = q.counted /\ row.capture = q.capture /\ row.created = q.created
    <3>1. n \in Nat
      BY <1>1, <1>4
    <3>2. row.checkout = q.checkout
      BY <1>2, <2>1 DEF RequestRow
    <3>3. row \in RequestRow
      BY <1>2, <2>1, <3>1 DEF RequestRow, Phases
    <3>4. row.phase = "saving" /\ row.payment = n
      BY <1>2, <2>1 DEF RequestRow
    <3>5. row.counted = q.counted /\ row.capture = q.capture /\ row.created = q.created
      BY <1>2, <2>1 DEF RequestRow
    <3> QED
      BY <1>1, <3>2, <3>3, <3>4, <3>5
  <2>5. /\ x \in PaymentOfCheckout /\ x.checkout = c /\ x.order = None
        /\ x.row.captured_amount = 0
    <3>1. y \in PaymentRow /\ y.captured_amount = 0
      <4>1. q.total \in Nat
        BY <1>2 DEF RequestRow
      <4> QED
        BY <2>1, <4>1, CashfreeTyped
    <3> QED
      BY <1>2, <2>1, <3>1, NewPaymentTyped
  <2>6. /\ payments' \in Seq(PaymentOfCheckout) /\ Len(payments') = n
        /\ \A p \in DOMAIN payments : payments'[p] = payments[p]
        /\ payments'[n] = x
    BY <1>1, <1>4, <2>2, <2>5, AppendProperties DEF TypeOK
  <2>7. DOMAIN payments' = 1 .. n
    BY <2>6, LenProperties
  <2>8. PaymentsBounded'
    <3>1. IsFiniteSet(Creating') /\ Cardinality(Creating') = Cardinality(Creating) - 1
      BY <1>5, <2>3, <2>4
    <3>2. Cardinality(Creating) \in Nat /\ Len(payments) + Cardinality(Creating) <= MaxPayments
      BY FS_CardinalityType DEF Inv, PaymentsBounded
    <3>3. Len(payments') + Cardinality(Creating') <= MaxPayments
      BY <1>1, <1>4, <2>6, <3>1, <3>2
    <3> QED
      BY <3>1, <3>3 DEF PaymentsBounded
  <2>9. PaymentsOwned'
    <3> SUFFICES ASSUME NEW p \in DOMAIN payments'
                 PROVE  /\ payments'[p].row.captured_amount >= 0
                        /\ \/ payments'[p].checkout \in open /\ payments'[p].order = None
                           \/ /\ payments'[p].checkout = None
                              /\ payments'[p].order \in Checkouts \ open
      BY <1>3 DEF PaymentsOwned
    <3>1. CASE p = n
      BY <1>6, <2>5, <2>6, <3>1
    <3>2. CASE p # n
      <4>1. p \in DOMAIN payments
        BY <1>1, <1>4, <2>7, <3>2
      <4> QED
        BY <2>6, <4>1 DEF Inv, PaymentsOwned
    <3> QED
      BY <3>1, <3>2
  <2>10. WorkerOK(row, {})'
    <3>1. n \in DOMAIN payments' /\ payments'[n].checkout = c
      BY <1>1, <1>4, <2>5, <2>6, <2>7
    <3> QED
      BY <1>2, <2>4, <3>1
      DEF WorkerOK, LocksCheckout, CapturesPaid, PaidAtCashfree, LocksVoucher, SavesOwn, HandsOn,
          PaymentsOf, InTransaction, Charging, Counting
  <2>11. \A p \in DOMAIN payments : p \in DOMAIN payments'
    BY <1>1, <1>4, <2>7
  <2> QED
    BY <1>2, <1>3, <2>3, <2>4, <2>6, <2>8, <2>9, <2>10, <2>11, PaymentsChange
<1>7. CASE c \notin open
  <2>1. payments' = payments /\ request' = [ request EXCEPT ![r] = Idle ]
    BY <1>1, <1>4, <1>7 DEF InsertPayment, TypeOK
  <2>2. PaymentsBounded'
    BY <1>4, <2>1, IdleTyped, CreatingWithout, FewerCreating DEF Inv, TypeOK
  <2>3. PaymentsOwned'
    BY <1>3, <2>1 DEF Inv, PaymentsOwned
  <2>4. WorkerOK(Idle, {})'
    BY IdleTyped
    DEF WorkerOK, LocksCheckout, CapturesPaid, PaidAtCashfree, LocksVoucher, SavesOwn, HandsOn,
        InTransaction, Charging, Counting
  <2>5. /\ payments' \in Seq(PaymentOfCheckout) /\ Idle.phase # "placed"
        /\ \A p \in DOMAIN payments :
             /\ p \in DOMAIN payments'
             /\ payments'[p].checkout = payments[p].checkout
             /\ payments'[p].order = payments[p].order
             /\ payments'[p].row.total = payments[p].row.total
             /\ payments'[p].row.charge_status = payments[p].row.charge_status
    BY <1>4, <2>1, IdleTyped DEF TypeOK
  <2> QED
    BY <1>2, <1>3, <2>1, <2>2, <2>3, <2>4, <2>5, IdleTyped, PaymentsChange
<1> QED
  BY <1>6, <1>7

\* payment.save() writes the row of a checkout that is there: no order's.
LEMMA SaveKeeps ==
    ASSUME Inv, NEW r \in Requests, SavePayment(r), NEW c, c = request[r].checkout
    PROVE  /\ payments' \in Seq(PaymentOfCheckout) /\ Len(payments') = Len(payments)
           /\ DOMAIN payments' = DOMAIN payments
           /\ \A p \in DOMAIN payments :
                \/ payments'[p] = payments[p]
                \/ /\ payments'[p].checkout = c /\ payments'[p].order = None /\ c \in open
                   /\ payments[p].checkout = c
                   /\ payments'[p].row.total = payments[p].row.total
                   /\ payments'[p].row.captured_amount = 0
<1>1. PICK q, n : q = request[r] /\ c = q.checkout /\ n = q.payment
  OBVIOUS
<1>2. /\ q \in RequestRow /\ WorkerOK(q, holds[r]) /\ q.phase = "saving" /\ holds[r] = {}
      /\ c \in Checkouts /\ n \in DOMAIN payments
      /\ c \in open => payments[n].checkout = c
  BY <1>1
  DEF Inv, TypeOK, SavePayment, WorkerOK, LocksCheckout, InTransaction, SavesOwn, PaymentsOf
<1>3. TypeOK /\ Len(payments) \in Nat /\ DOMAIN payments = 1 .. Len(payments)
  BY LenProperties DEF Inv, TypeOK
<1>4. CASE c \in open
  <2>1. PICK total, y, x :
          /\ total = payments[n].row.total /\ y = CashfreePayment(total)
          /\ x = [ payments[n] EXCEPT !.row = y, !.saved = TRUE, !.checkout = c, !.order = None ]
    OBVIOUS
  <2>3. payments[n] \in PaymentOfCheckout
    BY <1>2, <1>3, LenProperties DEF TypeOK
  <2>2. payments' = [ payments EXCEPT ![n] = x ]
    BY <1>1, <1>4, <2>1 DEF SavePayment
  <2>4. PICK t \in BOOLEAN : t = payments[n].tried
    BY <2>3 DEF PaymentOfCheckout
  <2>5. x = [ row |-> y, saved |-> TRUE, tried |-> t,
              checkout |-> c, order |-> None ]
    BY <2>1, <2>3, <2>4 DEF PaymentOfCheckout
  <2>6. /\ x \in PaymentOfCheckout /\ x.checkout = c /\ x.order = None
        /\ x.row.total = total /\ x.row.captured_amount = 0
    <3>1. y \in PaymentRow /\ y.total = total /\ y.captured_amount = 0
      BY <2>1, <2>3, CashfreeTyped DEF PaymentOfCheckout, PaymentRow
    <3> QED
      BY <1>2, <2>5, <3>1, NewPaymentTyped
  <2>7. /\ payments' \in Seq(PaymentOfCheckout) /\ Len(payments') = Len(payments)
        /\ \A p \in DOMAIN payments : payments'[p] = IF p = n THEN x ELSE payments[p]
    BY <1>2, <1>3, <2>2, <2>6, ExceptSeq DEF TypeOK
  <2>8. DOMAIN payments' = DOMAIN payments
    BY <1>3, <2>2
  <2> QED
    BY <1>2, <1>4, <2>1, <2>6, <2>7, <2>8
<1>5. CASE c \notin open
  BY <1>1, <1>3, <1>5 DEF SavePayment, TypeOK
<1> QED
  BY <1>4, <1>5

LEMMA SavePaymentInv ==
    ASSUME Inv, NEW r \in Requests, SavePayment(r)
    PROVE  Inv'
<1>1. PICK q, c : q = request[r] /\ c = q.checkout
  OBVIOUS
<1>2. /\ q \in RequestRow /\ WorkerOK(q, holds[r]) /\ q.phase = "saving" /\ holds[r] = {}
      /\ c \in Checkouts
  BY <1>1 DEF Inv, TypeOK, SavePayment, WorkerOK, LocksCheckout, InTransaction
<1>3. UNCHANGED << open, orders, quantity, allocated, used, voucherCustomers, holds,
                   paid, dispatched, calls, crashes >>
  BY DEF SavePayment, outside
<1>4. TypeOK /\ Len(payments) \in Nat /\ DOMAIN payments = 1 .. Len(payments)
  BY LenProperties DEF Inv, TypeOK
<1>5. request' = [ request EXCEPT ![r] = Idle ]
  BY DEF SavePayment
<1>6. /\ payments' \in Seq(PaymentOfCheckout) /\ Len(payments') = Len(payments)
      /\ DOMAIN payments' = DOMAIN payments
      /\ \A p \in DOMAIN payments :
           \/ payments'[p] = payments[p]
           \/ /\ payments'[p].checkout = c /\ payments'[p].order = None /\ c \in open
              /\ payments[p].checkout = c
              /\ payments'[p].row.total = payments[p].row.total
              /\ payments'[p].row.captured_amount = 0
  BY <1>1, SaveKeeps
<1>7. PaymentsBounded'
  BY <1>4, <1>5, <1>6, IdleTyped, CreatingWithout, FewerCreating DEF Inv, TypeOK
<1>8. c # None
  BY <1>2
<1>9. ASSUME NEW p \in DOMAIN payments
      PROVE  /\ p \in DOMAIN payments'
             /\ payments'[p].checkout = payments[p].checkout
             /\ payments'[p].order = payments[p].order
             /\ payments[p].order # None =>
                  payments'[p].row.charge_status = payments[p].row.charge_status
             /\ payments'[p].row.total = payments[p].row.total
             /\ payments'[p].row.captured_amount >= 0
  BY <1>6, <1>8 DEF Inv, PaymentsOwned
<1>10. PaymentsOwned'
  BY <1>3, <1>6, <1>9 DEF Inv, PaymentsOwned
<1>11. WorkerOK(Idle, {})'
  BY IdleTyped
  DEF WorkerOK, LocksCheckout, CapturesPaid, PaidAtCashfree, LocksVoucher, SavesOwn, HandsOn,
      InTransaction, Charging, Counting
<1> QED
  BY <1>2, <1>3, <1>5, <1>6, <1>7, <1>9, <1>10, <1>11, IdleTyped, PaymentsChange

-----------------------------------------------------------------------------
(* The commit of checkoutComplete                                          *)

\* Booking the capture charges the payment in full.
LEMMA CapturedInFull ==
    ASSUME NEW x \in PaymentRow, x.captured_amount >= 0, NEW total, total = x.total
    PROVE  /\ gateway_postprocess(x, Captured(total)) \in PaymentRow
           /\ gateway_postprocess(x, Captured(total)).total = total
           /\ gateway_postprocess(x, Captured(total)).captured_amount >= 0
           /\ gateway_postprocess(x, Captured(total)).charge_status = "fully-charged"
<1>1. PICK y, t : y = [ x EXCEPT !.to_confirm = FALSE ] /\ t = Captured(total)
  OBVIOUS
<1>2. y.total = total /\ total \in Nat /\ y.captured_amount \in Int /\ y.captured_amount >= 0
  BY <1>1 DEF PaymentRow
<1>3. y \in PaymentRow
  BY <1>1, Zenon DEF PaymentRow
<1>4. PICK n, z : /\ n = y.captured_amount + total
                  /\ z = [ y EXCEPT !.captured_amount = n, !.charge_status = "fully-charged" ]
  OBVIOUS
<1>5. n \in Int /\ n >= 0 /\ y.total - n <= 0
  BY <1>2, <1>4
<1>6. Charge(y, total) = z
  BY <1>2, <1>4, <1>5 DEF Charge
<1>7. gateway_postprocess(x, t) = z
  <2>1. Processable(t) /\ t.kind = "capture" /\ t.amount = total /\ ~t.action_required
    BY <1>1 DEF Captured, Processable
  <2>2. gateway_postprocess(x, t) = Effect(y, t)
    BY <1>1, <2>1 DEF gateway_postprocess
  <2>3. Effect(y, t) = Charge(y, t.amount)
    BY <2>1 DEF Effect
  <2> QED
    BY <1>6, <2>1, <2>2, <2>3
<1>8. "fully-charged" \in ChargeStatus
  BY DEF ChargeStatus
<1>9. z \in PaymentRow
  BY <1>3, <1>4, <1>5, <1>8 DEF PaymentRow
<1>10. z.total = total /\ z.captured_amount >= 0 /\ z.charge_status = "fully-charged"
  BY <1>2, <1>3, <1>4, <1>5 DEF PaymentRow
<1> QED
  BY <1>1, <1>7, <1>9, <1>10

\* What PaymentsAfter makes of one payment.
LEMMA PaymentAfter ==
    ASSUME Inv, NEW q, q.checkout \in Checkouts, payments' = PaymentsAfter(q),
           NEW p \in DOMAIN payments
    PROVE  /\ payments'[p] \in PaymentOfCheckout
           /\ payments'[p].checkout = IF q.phase = "finished" /\ payments[p].checkout = q.checkout
                                      THEN None ELSE payments[p].checkout
           /\ payments'[p].order = IF q.created /\ payments[p].checkout = q.checkout
                                   THEN q.checkout ELSE payments[p].order
           /\ payments'[p].row.total = payments[p].row.total
           /\ payments'[p].row.captured_amount >= 0
           /\ payments'[p].row.charge_status =
                IF q.capture = "done" /\ p = q.payment
                THEN "fully-charged" ELSE payments[p].row.charge_status
<1>1. PICK x : x = payments[p]
  OBVIOUS
<1>2. x \in PaymentOfCheckout /\ x.row.captured_amount >= 0
  <2>1. payments \in Seq(PaymentOfCheckout)
    BY DEF Inv, TypeOK
  <2> QED
    BY <1>1, <2>1, LenProperties DEF Inv, PaymentsOwned
<1>3. /\ x.row \in PaymentRow /\ x.saved \in BOOLEAN /\ x.tried \in BOOLEAN
      /\ x.checkout \in Checkouts \cup { None } /\ x.order \in Checkouts \cup { None }
  BY <1>2 DEF PaymentOfCheckout
<1>4. PICK w, t, o, c, y :
        /\ w = (IF q.capture = "done" /\ p = q.payment
                THEN gateway_postprocess(x.row, Captured(x.row.total)) ELSE x.row)
        /\ t = (x.tried \/ (q.capture # "none" /\ p = q.payment))
        /\ o = (IF q.created /\ x.checkout = q.checkout THEN q.checkout ELSE x.order)
        /\ c = (IF q.phase = "finished" /\ x.checkout = q.checkout THEN None ELSE x.checkout)
        /\ y = [ x EXCEPT !.row = w, !.tried = t, !.order = o, !.checkout = c ]
  OBVIOUS
<1>5. payments'[p] = y
  BY <1>1, <1>3, <1>4 DEF PaymentsAfter, PaymentsOf
<1>6. /\ w \in PaymentRow /\ w.total = x.row.total /\ w.captured_amount >= 0
      /\ w.charge_status = IF q.capture = "done" /\ p = q.payment
                           THEN "fully-charged" ELSE x.row.charge_status
  BY <1>2, <1>3, <1>4, CapturedInFull
<1>7. t \in BOOLEAN /\ o \in Checkouts \cup { None } /\ c \in Checkouts \cup { None }
  BY <1>3, <1>4
<1>8. y \in PaymentOfCheckout
  BY <1>2, <1>4, <1>6, <1>7, Zenon DEF PaymentOfCheckout
<1>9. y.row = w /\ y.order = o /\ y.checkout = c
  BY <1>2, <1>4 DEF PaymentOfCheckout
<1> QED
  BY <1>1, <1>4, <1>5, <1>6, <1>8, <1>9

\* Whoever commits has its checkout's row locked, and the voucher's when it
\* counts a use: what the others rely on stays.
LEMMA CommitInv ==
    ASSUME Inv, NEW r \in Requests, Commit(r)
    PROVE  Inv'
<1>1. PICK q, c : q = request[r] /\ c = q.checkout
  OBVIOUS
<1>2. /\ q \in RequestRow /\ WorkerOK(q, holds[r]) /\ q.phase \in { "failed", "finished" }
      /\ q.counted \in { 0, 1 } /\ q.created \in BOOLEAN /\ TypeOK
  BY <1>1 DEF Inv, TypeOK, Commit, RequestRow
<1>3. /\ c \in Checkouts /\ c \in open /\ CheckoutLock(c) \in holds[r] /\ c # None
      /\ q.created <=> q.phase = "finished"
      /\ q.payment # None => q.payment \in PaymentsOf(c)
  BY <1>1, <1>2 DEF WorkerOK, LocksCheckout, InTransaction
<1>4. orders[c] = 0 /\ dispatched[c] = 0
  BY <1>3 DEF Inv, OpenOrOrdered
<1>5. PICK row : row = (IF q.phase = "finished"
                        THEN [ Idle EXCEPT !.phase = "placed", !.checkout = c ] ELSE Idle)
  OBVIOUS
<1>6. request' = [ request EXCEPT ![r] = row ] /\ holds' = [ holds EXCEPT ![r] = {} ]
  BY <1>1, <1>5 DEF Commit
<1>7. UNCHANGED << quantity, paid, dispatched, calls, crashes >>
  BY DEF Commit, outside
<1>8. /\ payments' = PaymentsAfter(q)
      /\ open' = IF q.phase = "finished" THEN open \ { c } ELSE open
      /\ orders' = IF q.created THEN [ orders EXCEPT ![c] = @ + 1 ] ELSE orders
      /\ allocated' = IF q.created THEN allocated + 1 ELSE allocated
      /\ used' = used + q.counted
      /\ voucherCustomers' = IF q.counted = 1 /\ OncePerCustomer
                             THEN voucherCustomers \cup { Customer[c] } ELSE voucherCustomers
  BY <1>1 DEF Commit
<1>9. /\ row \in RequestRow /\ row.counted = 0 /\ row.capture = "none" /\ row.created = FALSE
      /\ \/ q.phase = "finished" /\ row.phase = "placed" /\ row.checkout = c
         \/ q.phase = "failed" /\ row.phase = "idle"
  BY <1>2, <1>3, <1>5, IdleTyped DEF RequestRow, Phases, Idle
<1>10. \A p \in DOMAIN payments :
         /\ payments'[p] \in PaymentOfCheckout
         /\ payments'[p].checkout = IF q.phase = "finished" /\ payments[p].checkout = c
                                    THEN None ELSE payments[p].checkout
         /\ payments'[p].order = IF q.created /\ payments[p].checkout = c
                                 THEN c ELSE payments[p].order
         /\ payments'[p].row.total = payments[p].row.total
         /\ payments'[p].row.captured_amount >= 0
         /\ payments'[p].row.charge_status =
              IF q.capture = "done" /\ p = q.payment
              THEN "fully-charged" ELSE payments[p].row.charge_status
  BY <1>1, <1>3, <1>8, PaymentAfter
<1>11. /\ payments' \in Seq(PaymentOfCheckout) /\ Len(payments') = Len(payments)
       /\ DOMAIN payments' = DOMAIN payments
  <2>1. DOMAIN payments' = DOMAIN payments /\ payments' = [ p \in DOMAIN payments |-> payments'[p] ]
    BY <1>8 DEF PaymentsAfter
  <2>2. payments' \in [ DOMAIN payments -> PaymentOfCheckout ]
    BY <1>10, <2>1
  <2> QED
    BY <1>2, <2>2, SameLength
<1>12. /\ orders' \in [ Checkouts -> Nat ]
       /\ orders'[c] = IF q.created THEN 1 ELSE 0
       /\ \A d \in Checkouts : d # c => orders'[d] = orders[d]
  BY <1>2, <1>3, <1>4, <1>8 DEF TypeOK
<1>13. TypeOK'
  <2>1. request' \in [ Requests -> RequestRow ] /\ holds' \in [ Requests -> SUBSET Locks ]
    BY <1>2, <1>6, <1>9, RequestTyped
  <2>2. open' \subseteq Checkouts /\ allocated' \in Nat /\ used' \in Nat
    BY <1>2, <1>8 DEF TypeOK
  <2>3. voucherCustomers' \subseteq { Customer[d] : d \in Checkouts }
    BY <1>2, <1>3, <1>8 DEF TypeOK
  <2>4. /\ quantity' \in Nat /\ paid' \subseteq 1 .. MaxPayments
        /\ dispatched' \in [ Checkouts -> Nat ] /\ calls' \in Nat /\ crashes' \in Nat
    BY <1>2, <1>7 DEF TypeOK
  <2> QED
    BY <1>11, <1>12, <2>1, <2>2, <2>3, <2>4 DEF TypeOK
<1>14. PaymentsBounded'
  <2>1. row.phase \notin { "cancelling", "inserting" }
    BY <1>9
  <2>2. Creating' = Creating \ { r }
    BY <1>2, <1>6, <2>1, CreatingWithout
  <2> QED
    BY <1>2, <1>11, <2>2, FewerCreating DEF Inv, TypeOK
<1>15. ASSUME NEW w \in Requests \ { r } PROVE LeavesAlone(request[w])
  <2>1. PICK s : s = request[w]
    OBVIOUS
  <2>2. WorkerOK(s, holds[w]) /\ holds[w] \cap holds[r] = {}
    BY <2>1 DEF Inv, LocksExclusive
  <2>3. s.phase \in InTransaction => s.checkout # c /\ s.checkout \in open
    BY <1>3, <2>2 DEF WorkerOK, LocksCheckout
  <2>4. s.phase = "placed" => s.checkout # c /\ s.checkout \in Checkouts
    BY <1>4, <2>2 DEF WorkerOK, LocksCheckout, HandsOn
  <2>5. s.counted = 1 => q.counted = 0
    BY <1>2, <2>2 DEF WorkerOK, LocksVoucher
  <2>6. s.counted = 1 => used' = used /\ voucherCustomers' = voucherCustomers
    BY <1>2, <1>8, <2>5 DEF TypeOK
  <2>7. s.phase \in InTransaction => s.checkout \in open'
    BY <1>8, <2>3
  <2>8. s.checkout \notin open => s.checkout \notin open'
    BY <1>8
  <2>9. ASSUME NEW p \in DOMAIN payments
        PROVE  /\ p \in DOMAIN payments'
               /\ payments'[p].row.total = payments[p].row.total
               /\ payments[p].checkout = s.checkout /\ s.checkout \in open' =>
                    payments'[p].checkout = s.checkout
    BY <1>8, <1>10, <1>11
  <2>10. s.phase = "placed" =>
           /\ orders'[s.checkout] = orders[s.checkout]
           /\ dispatched'[s.checkout] = dispatched[s.checkout]
    BY <1>7, <1>12, <2>4
  <2> QED
    BY <1>7, <2>1, <2>6, <2>7, <2>8, <2>9, <2>10 DEF LeavesAlone
<1>16. \A w \in Requests : WorkerOK(request[w], holds[w])'
  <2>1. WorkerOK(row, {})'
    <3>1. row.phase = "placed" => orders'[row.checkout] = 1 /\ dispatched'[row.checkout] = 0
      BY <1>3, <1>4, <1>7, <1>9, <1>12
    <3> QED
      BY <1>3, <1>9, <3>1
      DEF WorkerOK, LocksCheckout, CapturesPaid, PaidAtCashfree, LocksVoucher, SavesOwn, HandsOn,
          InTransaction, Charging, Counting
  <2>2. \A w \in Requests \ { r } : WorkerOK(request[w], holds[w])
    BY DEF Inv
  <2> QED
    BY <1>2, <1>6, <1>15, <2>1, <2>2, WorkersStayOK
<1>17. LocksExclusive'
  <2>1. \A w \in Requests \ { r } : holds[w] \cap {} = {}
    OBVIOUS
  <2> QED
    BY <1>2, <1>6, <2>1, ExclusiveStays DEF Inv
<1>18. HandedOnce'
  <2>1. ASSUME NEW w \in Requests, request[w].phase = "placed" PROVE request[w].checkout # c
    BY <1>4, <2>1 DEF Inv, WorkerOK, HandsOn
  <2>2. \A w \in Requests : request'[w] = IF w = r THEN row ELSE request[w]
    BY <1>2, <1>6 DEF TypeOK
  <2> QED
    BY <1>9, <2>1, <2>2 DEF Inv, HandedOnce
<1>19. OpenOrOrdered'
  <2> SUFFICES ASSUME NEW d \in Checkouts
               PROVE  /\ orders'[d] = IF d \in open' THEN 0 ELSE 1
                      /\ d \in open' => dispatched'[d] = 0
    BY DEF OpenOrOrdered
  <2>1. CASE d = c
    BY <1>2, <1>3, <1>4, <1>7, <1>8, <1>12, <2>1
  <2>2. CASE d # c
    BY <1>7, <1>8, <1>12, <2>2 DEF Inv, OpenOrOrdered
  <2> QED
    BY <2>1, <2>2
<1>20. PaymentsOwned'
  <2> SUFFICES ASSUME NEW p \in DOMAIN payments
               PROVE  \/ payments'[p].checkout \in open' /\ payments'[p].order = None
                      \/ payments'[p].checkout = None /\ payments'[p].order \in Checkouts \ open'
    BY <1>10, <1>11 DEF PaymentsOwned
  <2>1. \/ payments[p].checkout \in open /\ payments[p].order = None
        \/ payments[p].checkout = None /\ payments[p].order \in Checkouts \ open
    BY DEF Inv, PaymentsOwned
  <2>2. CASE payments[p].checkout = c
    BY <1>3, <1>8, <1>10, <2>1, <2>2
  <2>3. CASE payments[p].checkout # c
    BY <1>3, <1>8, <1>10, <2>1, <2>3
  <2> QED
    BY <2>2, <2>3
<1>21. PaidForOrder'
  <2> SUFFICES ASSUME NEW d \in Checkouts, orders'[d] > 0
               PROVE  \E p \in Charged(d)' : payments'[p].order = d /\ PaidAtCashfree(p)'
    BY <1>7 DEF PaidForOrder
  <2>1. CASE d = c
    <3>1. q.created /\ q.phase = "finished"
      BY <1>2, <1>3, <1>12, <2>1
    <3>2. q.capture = "done" /\ q.payment \in PaymentsOf(c) /\ PaidAtCashfree(q.payment)
      BY <1>2, <1>3, <3>1 DEF WorkerOK, CapturesPaid, Charging
    <3>3. /\ q.payment \in DOMAIN payments' /\ payments'[q.payment].order = c
          /\ payments'[q.payment].row.charge_status = "fully-charged"
      BY <1>10, <1>11, <3>1, <3>2 DEF PaymentsOf
    <3>4. q.payment \in Charged(d)' /\ PaidAtCashfree(q.payment)'
      BY <1>7, <1>10, <2>1, <3>2, <3>3 DEF Charged, PaidAtCashfree, PaymentsOf
    <3> QED
      BY <2>1, <3>3, <3>4
  <2>2. CASE d # c
    <3>1. PICK p \in Charged(d) : payments[p].order = d /\ PaidAtCashfree(p)
      BY <1>12, <2>2 DEF Inv, PaidForOrder
    <3>2. p \in DOMAIN payments /\ d # None /\ payments[p].row.charge_status = "fully-charged"
      BY <3>1 DEF Charged
    <3>3. payments[p].checkout = None
      BY <3>1, <3>2 DEF Inv, PaymentsOwned
    <3>4. /\ p \in DOMAIN payments' /\ payments'[p].order = d
          /\ payments'[p].row.charge_status = "fully-charged"
      BY <1>3, <1>10, <1>11, <3>1, <3>2, <3>3
    <3>5. p \in Charged(d)' /\ PaidAtCashfree(p)'
      BY <1>7, <1>10, <3>1, <3>2, <3>4 DEF Charged, PaidAtCashfree
    <3> QED
      BY <3>4, <3>5
  <2> QED
    BY <2>1, <2>2
<1>22. CASE q.created /\ c \in VoucherCheckouts
  <2>1. /\ q.counted = 1 /\ used < UsageLimit /\ used \in Nat
        /\ OncePerCustomer => Customer[c] \notin voucherCustomers
    BY <1>1, <1>2, <1>3, <1>22 DEF WorkerOK, LocksVoucher, Counting, Charging, TypeOK
  <2> DEFINE S == VoucherOrders
             T == VoucherOrders'
  <2>2. T = S \cup { c }
    BY <1>12, <1>22 DEF VoucherOrders, CheckoutAssumption
  <2>3. c \notin S /\ IsFiniteSet(S) /\ Cardinality(S) <= used
    BY <1>4 DEF VoucherOrders, Inv, CustomersKnown, VoucherCounted
  <2>4. \A d \in S : OncePerCustomer => Customer[d] \in voucherCustomers
    BY DEF Inv, CustomersKnown
  <2>5. \A d, e \in S : OncePerCustomer /\ Customer[d] = Customer[e] => d = e
    BY DEF Inv, OneOrderPerCustomer
  <2> HIDE DEF S
  <2>6. IsFiniteSet(S \cup { c }) /\ Cardinality(S \cup { c }) = Cardinality(S) + 1
    BY <2>3, FS_AddElement
  <2> HIDE DEF T
  <2>7. IsFiniteSet(T) /\ Cardinality(T) = Cardinality(S) + 1 /\ Cardinality(S) \in Nat
    BY <2>2, <2>3, <2>6, FS_CardinalityType
  <2>8. used' = used + 1
    BY <1>8, <2>1
  <2>9. used' <= UsageLimit /\ Cardinality(T) <= used'
    BY <2>1, <2>3, <2>7, <2>8
  <2>10. OncePerCustomer => \A d \in T : Customer[d] \in voucherCustomers'
    BY <1>8, <2>1, <2>2, <2>4
  <2>11. OncePerCustomer => \A d, e \in T : Customer[d] = Customer[e] => d = e
    BY <2>1, <2>2, <2>4, <2>5
  <2>12. VoucherCounted' /\ CustomersKnown' /\ OneOrderPerCustomer'
    BY <2>7, <2>9, <2>10, <2>11 DEF VoucherCounted, CustomersKnown, OneOrderPerCustomer, T
  <2> QED
    BY <1>13, <1>14, <1>16, <1>17, <1>18, <1>19, <1>20, <1>21, <2>12 DEF Inv
<1>23. CASE ~(q.created /\ c \in VoucherCheckouts)
  <2>1. VoucherOrders' = VoucherOrders
    BY <1>4, <1>12, <1>23 DEF VoucherOrders, CheckoutAssumption
  <2>2. used \in Nat /\ used' >= used /\ used' <= UsageLimit
    <3>1. q.counted = 1 => used < UsageLimit
      BY <1>2 DEF WorkerOK, LocksVoucher
    <3> QED
      BY <1>2, <1>8, <3>1 DEF TypeOK, Inv, VoucherCounted
  <2>3. Cardinality(VoucherOrders) \in Nat /\ Cardinality(VoucherOrders) <= used
    BY FS_CardinalityType DEF Inv, CustomersKnown, VoucherCounted
  <2>4. VoucherCounted'
    <3> DEFINE n == Cardinality(VoucherOrders)
    <3>1. n \in Nat /\ n <= used
      BY <2>3
    <3> HIDE DEF n
    <3>2. n <= used'
      BY <2>2, <3>1, <1>13 DEF TypeOK
    <3> QED
      BY <2>1, <2>2, <3>2 DEF VoucherCounted, n
  <2>5. voucherCustomers \subseteq voucherCustomers'
    BY <1>8
  <2>6. CustomersKnown' /\ OneOrderPerCustomer'
    BY <2>1, <2>5 DEF Inv, CustomersKnown, OneOrderPerCustomer
  <2> QED
    BY <1>13, <1>14, <1>16, <1>17, <1>18, <1>19, <1>20, <1>21, <2>4, <2>6 DEF Inv
<1> QED
  BY <1>22, <1>23

-----------------------------------------------------------------------------
(* The invariant holds                                                     *)

LEMMA NextInv == Inv /\ [Next]_vars => Inv'
<1> SUFFICES ASSUME Inv, [Next]_vars PROVE Inv'
  OBVIOUS
<1>1. ASSUME NEW r \in Requests,
             \/ LockCheckout(r) \/ FindOrder(r) \/ CheckLines(r) \/ TakeVoucher(r)
             \/ VoucherGone(r) \/ FailBeforePayment(r) \/ ProcessPayment(r)
             \/ CreateOrder(r) \/ Allocate(r)
      PROVE  Inv'
  BY <1>1, LockCheckoutInv, FindOrderInv, CheckLinesInv, TakeVoucherInv, VoucherGoneInv,
     FailBeforePaymentInv, ProcessPaymentInv, CreateOrderInv, AllocateInv
<1>2. ASSUME NEW r \in Requests, NEW c \in Checkouts, NEW total \in Totals,
             CheckoutPaymentCreate(r, c, total)
      PROVE  Inv'
  BY <1>2, CheckoutPaymentCreateInv
<1>0. ASSUME NEW r \in Requests, NEW c \in Checkouts, CheckoutComplete(r, c)
      PROVE  Inv'
  BY <1>0, CheckoutCompleteInv
<1>3. ASSUME NEW r \in Requests,
             \/ Commit(r) \/ PlaceWithBrands(r) \/ CancelActivePayments(r) \/ GetPayment(r)
             \/ InsertPayment(r) \/ SavePayment(r) \/ NoPaymentLink(r) \/ Crash(r)
      PROVE  Inv'
  BY <1>3, CommitInv, PlaceWithBrandsInv, CancelActivePaymentsInv, GetPaymentInv,
     InsertPaymentInv, SavePaymentInv, NoPaymentLinkInv, CrashInv
<1>4. ASSUME NEW p \in 1 .. MaxPayments, Pay(p) PROVE Inv'
  BY <1>4, PayInv
<1>5. ASSUME NEW n \in Quantities, SetQuantity(n) PROVE Inv'
  BY <1>5, SetQuantityInv
<1>6. ASSUME UNCHANGED vars PROVE Inv'
  BY <1>6, StutterInv
<1> QED
  BY <1>0, <1>1, <1>2, <1>3, <1>4, <1>5, <1>6 DEF Next, Done

LEMMA InvHolds == Spec => []Inv
BY InitInv, NextInv, PTL DEF Spec

\* The rows of checkouts, payments, orders, stock and voucher keep their types
\* whatever workers run checkoutComplete and checkoutPaymentCreate, and no
\* more payments are inserted than the bound of the model leaves room for.
THEOREM TypesHold == Spec => []TypeOK
<1>1. Inv => TypeOK
  BY DEF Inv
<1> QED
  BY <1>1, InvHolds, PTL

\* Every order has a payment of its own that was captured in full and that the
\* customer has paid at Cashfree (checkout/complete_checkout.py:477, 686).
THEOREM OrdersArePaid == Spec => []PaidForOrder
<1>1. Inv => PaidForOrder
  BY DEF Inv
<1> QED
  BY <1>1, InvHolds, PTL

\* A voucher is used no more often than its limit, and every order with it is
\* counted, whatever calls overlap, fail and crash
\* (checkout/complete_checkout.py:54, discount/utils.py:21).
THEOREM VouchersAreCounted == Spec => []VoucherCounted
<1>1. Inv => VoucherCounted
  BY DEF Inv
<1> QED
  BY <1>1, InvHolds, PTL

\* A voucher that applies once per customer gives its discount to one order of
\* each customer (discount/utils.py:33).
THEOREM VoucherOncePerCustomer == Spec => []OneOrderPerCustomer
<1>1. Inv => OneOrderPerCustomer
  BY DEF Inv
<1> QED
  BY <1>1, InvHolds, PTL

-----------------------------------------------------------------------------
(* The refinement of OrderPlacement                                        *)

Booked == { c \in Checkouts : Charged(c) # {} }

\* The payments charged for d are the same when those that change are not d's.
LEMMA SameCharged ==
    ASSUME NEW d,
           \A p \in DOMAIN payments :
              /\ p \in DOMAIN payments'
              /\ \/ /\ payments'[p].checkout = payments[p].checkout
                    /\ payments'[p].order = payments[p].order
                    /\ payments'[p].row.charge_status = payments[p].row.charge_status
                 \/ /\ d \notin { payments[p].checkout, payments[p].order }
                    /\ d \notin { payments'[p].checkout, payments'[p].order },
           \A p \in DOMAIN payments' \ DOMAIN payments :
              d \notin { payments'[p].checkout, payments'[p].order }
    PROVE  Charged(d)' = Charged(d)
<1>1. ASSUME NEW p \in Charged(d) PROVE p \in Charged(d)'
  BY <1>1 DEF Charged
<1>2. ASSUME NEW p \in Charged(d)' PROVE p \in Charged(d)
  BY <1>2 DEF Charged
<1> QED
  BY <1>1, <1>2

\* An open checkout's capture comes into the books or drops out of them.
LEMMA BooksOf ==
    ASSUME NEW c \in open, c \in Checkouts,
           \A d \in Checkouts \ { c } : Charged(d)' = Charged(d),
           UNCHANGED << open, orders, dispatched >>
    PROVE  Placement!Book(c) \/ Placement!Unbook(c)
<1>1. Booked' = Booked \cup { c } \/ Booked' = Booked \ { c }
  <2>1. CASE Charged(c)' # {}
    BY <2>1 DEF Booked
  <2>2. CASE Charged(c)' = {}
    BY <2>2 DEF Booked
  <2> QED
    BY <2>1, <2>2
<1> QED
  BY <1>1 DEF Booked, Placement!Book, Placement!Unbook

LEMMA Stutters ==
    ASSUME \A d \in Checkouts : Charged(d)' = Charged(d),
           UNCHANGED << open, orders, dispatched >>
    PROVE  UNCHANGED Placement!vars
<1>1. Booked' = Booked
  BY DEF Booked
<1> QED
  BY <1>1 DEF Booked, Placement!vars

LEMMA RefinedInit == Init => Placement!Init
<1> SUFFICES ASSUME Init PROVE Placement!Init
  OBVIOUS
<1>1. DOMAIN payments = {}
  BY DEF Init
<1>2. \A c \in Checkouts : Charged(c) = {}
  BY <1>1 DEF Charged
<1> QED
  BY <1>2 DEF Init, Placement!Init

LEMMA RefinedCommit ==
    ASSUME Inv, NEW r \in Requests, Commit(r)
    PROVE  Placement!Next \/ UNCHANGED Placement!vars
<1>1. PICK q, c : q = request[r] /\ c = q.checkout
  OBVIOUS
<1>2. /\ q \in RequestRow /\ WorkerOK(q, holds[r]) /\ q.phase \in { "failed", "finished" }
      /\ q.created \in BOOLEAN /\ TypeOK
  BY <1>1 DEF Inv, TypeOK, Commit, RequestRow
<1>3. /\ c \in Checkouts /\ c \in open /\ c # None
      /\ q.created <=> q.phase = "finished"
      /\ q.payment # None => q.payment \in PaymentsOf(c)
      /\ q.capture = "done" => q.payment # None
  BY <1>1, <1>2 DEF WorkerOK, LocksCheckout, CapturesPaid, InTransaction
<1>4. orders[c] = 0
  BY <1>3 DEF Inv, OpenOrOrdered
<1>5. /\ payments' = PaymentsAfter(q) /\ DOMAIN payments' = DOMAIN payments
      /\ open' = IF q.phase = "finished" THEN open \ { c } ELSE open
      /\ orders' = IF q.created THEN [ orders EXCEPT ![c] = @ + 1 ] ELSE orders
      /\ dispatched' = dispatched
  BY <1>1 DEF Commit, PaymentsAfter, outside
<1>6. \A p \in DOMAIN payments :
         /\ payments'[p].checkout = IF q.phase = "finished" /\ payments[p].checkout = c
                                    THEN None ELSE payments[p].checkout
         /\ payments'[p].order = IF q.created /\ payments[p].checkout = c
                                 THEN c ELSE payments[p].order
         /\ payments'[p].row.charge_status =
              IF q.capture = "done" /\ p = q.payment
              THEN "fully-charged" ELSE payments[p].row.charge_status
  BY <1>1, <1>3, <1>5, PaymentAfter
<1>7. ASSUME NEW d \in Checkouts \ { c } PROVE Charged(d)' = Charged(d)
  <2>1. ASSUME NEW p \in DOMAIN payments, payments[p].checkout = c
        PROVE  /\ d \notin { payments[p].checkout, payments[p].order }
               /\ d \notin { payments'[p].checkout, payments'[p].order }
    <3>1. payments[p].order = None /\ d # None
      BY <1>3, <2>1 DEF Inv, PaymentsOwned
    <3>2. payments'[p].checkout \in { None, c } /\ payments'[p].order \in { None, c }
      BY <1>6, <2>1, <3>1
    <3> QED
      BY <2>1, <3>1, <3>2
  <2>2. ASSUME NEW p \in DOMAIN payments, payments[p].checkout # c
        PROVE  /\ payments'[p].checkout = payments[p].checkout
               /\ payments'[p].order = payments[p].order
               /\ payments'[p].row.charge_status = payments[p].row.charge_status
    BY <1>3, <1>6, <2>2 DEF PaymentsOf
  <2> QED
    BY <1>5, <2>1, <2>2, SameCharged
<1>8. CASE q.phase = "failed"
  BY <1>3, <1>5, <1>7, <1>8, BooksOf DEF Placement!Next
<1>9. CASE q.phase = "finished"
  <2>1. q.capture = "done" /\ q.payment \in DOMAIN payments'
        /\ payments'[q.payment].order = c
        /\ payments'[q.payment].row.charge_status = "fully-charged"
    BY <1>2, <1>3, <1>5, <1>6, <1>9 DEF WorkerOK, CapturesPaid, Charging, PaymentsOf
  <2>2. Charged(c)' # {}
    BY <2>1 DEF Charged
  <2>3. Booked' = Booked \cup { c }
    BY <1>3, <1>7, <2>2 DEF Booked
  <2>4. orders' = [ orders EXCEPT ![c] = 1 ]
    BY <1>2, <1>3, <1>4, <1>5, <1>9
  <2>5. Placement!PlaceOrder(c)
    BY <1>3, <1>4, <1>5, <1>9, <2>3, <2>4 DEF Placement!PlaceOrder, Booked
  <2> QED
    BY <1>3, <2>5 DEF Placement!Next
<1> QED
  BY <1>2, <1>8, <1>9

LEMMA RefinedInsert ==
    ASSUME Inv, NEW r \in Requests, InsertPayment(r)
    PROVE  Placement!Next \/ UNCHANGED Placement!vars
<1>1. PICK c : c = request[r].checkout
  OBVIOUS
<1>2. UNCHANGED << open, orders, dispatched >>
  BY DEF InsertPayment, outside
<1>3. c \in Checkouts /\ c # None /\ payments \in Seq(PaymentOfCheckout)
  BY <1>1 DEF Inv, TypeOK, InsertPayment, WorkerOK, LocksCheckout
<1>4. CASE c \in open
  <2>1. PICK y, x :
          /\ y = CashfreePayment(request[r].total)
          /\ x = [ row |-> y, saved |-> FALSE, tried |-> FALSE,
                   checkout |-> c, order |-> None ]
    OBVIOUS
  <2>2. payments' = Append(payments, x)
    BY <1>1, <1>4, <2>1 DEF InsertPayment
  <2>3. x \in PaymentOfCheckout /\ x.checkout = c /\ x.order = None
    <3>1. y \in PaymentRow
      <4>1. request[r].total \in Nat
        BY DEF Inv, TypeOK, RequestRow
      <4> QED
        BY <2>1, <4>1, CashfreeTyped
    <3> QED
      BY <1>3, <2>1, <3>1, NewPaymentTyped
  <2>4. /\ Len(payments) \in Nat /\ DOMAIN payments = 1 .. Len(payments)
        /\ payments' \in Seq(PaymentOfCheckout) /\ Len(payments') = Len(payments) + 1
        /\ \A p \in DOMAIN payments : payments'[p] = payments[p]
        /\ payments'[Len(payments) + 1] = x
    BY <1>3, <2>2, <2>3, LenProperties, AppendProperties
  <2>5. DOMAIN payments' = 1 .. (Len(payments) + 1)
    BY <2>4, LenProperties
  <2>6. /\ \A p \in DOMAIN payments : p \in DOMAIN payments'
        /\ \A p \in DOMAIN payments' \ DOMAIN payments : payments'[p] = x
    BY <2>4, <2>5
  <2>7. ASSUME NEW d \in Checkouts \ { c } PROVE Charged(d)' = Charged(d)
    <3>1. d # None
      OBVIOUS
    <3> QED
      BY <2>3, <2>4, <2>6, <3>1, SameCharged
  <2> QED
    BY <1>2, <1>3, <1>4, <2>7, BooksOf DEF Placement!Next
<1>5. CASE c \notin open
  <2>1. payments' = payments
    BY <1>1, <1>5 DEF InsertPayment
  <2> QED
    BY <1>2, <2>1, Stutters DEF Charged
<1> QED
  BY <1>4, <1>5

LEMMA RefinedSave ==
    ASSUME Inv, NEW r \in Requests, SavePayment(r)
    PROVE  Placement!Next \/ UNCHANGED Placement!vars
<1>1. PICK c : c = request[r].checkout
  OBVIOUS
<1>2. UNCHANGED << open, orders, dispatched >>
  BY DEF SavePayment, outside
<1>3. c \in Checkouts /\ c # None
  BY <1>1 DEF Inv, TypeOK, SavePayment, WorkerOK, LocksCheckout
<1>4. /\ DOMAIN payments' = DOMAIN payments
      /\ \A p \in DOMAIN payments :
           \/ payments'[p] = payments[p]
           \/ /\ payments'[p].checkout = c /\ payments'[p].order = None /\ c \in open
              /\ payments[p].checkout = c /\ payments[p].order = None
  <2>1. /\ DOMAIN payments' = DOMAIN payments
        /\ \A p \in DOMAIN payments :
             \/ payments'[p] = payments[p]
             \/ /\ payments'[p].checkout = c /\ payments'[p].order = None /\ c \in open
                /\ payments[p].checkout = c
    BY <1>1, SaveKeeps
  <2> QED
    BY <1>3, <2>1 DEF Inv, PaymentsOwned
<1>5. ASSUME NEW d \in Checkouts \ { c } PROVE Charged(d)' = Charged(d)
  <2>1. d # None
    OBVIOUS
  <2> QED
    BY <1>4, <2>1, SameCharged
<1>6. CASE c \in open
  BY <1>2, <1>3, <1>5, <1>6, BooksOf DEF Placement!Next
<1>7. CASE c \notin open
  <2>1. Charged(c)' = Charged(c)
    BY <1>4, <1>7, SameCharged
  <2> QED
    BY <1>2, <1>5, <2>1, Stutters
<1> QED
  BY <1>6, <1>7

LEMMA RefinedNext ==
    Inv /\ [Next]_vars => Placement!Next \/ UNCHANGED Placement!vars
<1> SUFFICES ASSUME Inv, [Next]_vars PROVE Placement!Next \/ UNCHANGED Placement!vars
  OBVIOUS
<1>1. ASSUME UNCHANGED << payments, open, orders, dispatched >>
      PROVE  UNCHANGED Placement!vars
  BY <1>1, Stutters DEF Charged
<1>2. ASSUME NEW r \in Requests, NEW row, NEW locks, Step(r, row, locks)
      PROVE  UNCHANGED << payments, open, orders, dispatched >>
  BY <1>2 DEF Step, store, outside
<1>3. ASSUME NEW r \in Requests,
             \/ LockCheckout(r) \/ FindOrder(r) \/ CheckLines(r) \/ TakeVoucher(r)
             \/ VoucherGone(r) \/ FailBeforePayment(r) \/ ProcessPayment(r)
             \/ CreateOrder(r) \/ Allocate(r) \/ GetPayment(r) \/ NoPaymentLink(r)
      PROVE  UNCHANGED << payments, open, orders, dispatched >>
  BY <1>2, <1>3
  DEF LockCheckout, FindOrder, CheckLines, TakeVoucher, VoucherGone, FailBeforePayment,
      ProcessPayment, CreateOrder, Allocate, GetPayment, NoPaymentLink
<1>4. ASSUME NEW r \in Requests, NEW c \in Checkouts, NEW total \in Totals,
             CheckoutPaymentCreate(r, c, total)
      PROVE  UNCHANGED << payments, open, orders, dispatched >>
  BY <1>4 DEF CheckoutPaymentCreate, store, outside
<1>0. ASSUME NEW r \in Requests, NEW c \in Checkouts, CheckoutComplete(r, c)
      PROVE  UNCHANGED << payments, open, orders, dispatched >>
  BY <1>0 DEF CheckoutComplete, store, outside
<1>5. ASSUME NEW r \in Requests, Crash(r)
      PROVE  UNCHANGED << payments, open, orders, dispatched >>
  BY <1>5 DEF Crash, store, outside
<1>6. ASSUME NEW p, Pay(p) PROVE UNCHANGED << payments, open, orders, dispatched >>
  BY <1>6 DEF Pay, store
<1>7. ASSUME NEW n, SetQuantity(n) PROVE UNCHANGED << payments, open, orders, dispatched >>
  BY <1>7 DEF SetQuantity, outside
<1>8. ASSUME UNCHANGED vars PROVE UNCHANGED << payments, open, orders, dispatched >>
  BY <1>8 DEF vars, store, outside
<1>9. ASSUME NEW r \in Requests, CancelActivePayments(r)
      PROVE  UNCHANGED Placement!vars
  <2>1. UNCHANGED << open, orders, dispatched >>
    BY <1>9 DEF CancelActivePayments, outside
  <2>2. \A d \in Checkouts : Charged(d)' = Charged(d)
    BY <1>9, CancelKeeps, SameCharged
  <2> QED
    BY <2>1, <2>2, Stutters
<1>10. ASSUME NEW r \in Requests, PlaceWithBrands(r)
       PROVE  Placement!Next
  <2>1. PICK c : c = request[r].checkout
    OBVIOUS
  <2>2. c \in Checkouts /\ orders[c] = 1 /\ dispatched[c] = 0
    BY <1>10, <2>1 DEF PlaceWithBrands, Inv, TypeOK, WorkerOK, LocksCheckout, HandsOn
  <2>3. dispatched' = [ dispatched EXCEPT ![c] = 1 ]
    BY <1>10, <2>1, <2>2 DEF PlaceWithBrands, Inv, TypeOK
  <2>4. UNCHANGED << payments, open, orders >>
    BY <1>10 DEF PlaceWithBrands, store
  <2>5. Booked' = Booked
    BY <2>4 DEF Booked, Charged
  <2>6. Placement!Dispatch(c)
    BY <2>2, <2>3, <2>4, <2>5 DEF Placement!Dispatch, Booked
  <2> QED
    BY <2>2, <2>6 DEF Placement!Next
<1> QED
  BY <1>0, <1>1, <1>3, <1>4, <1>5, <1>6, <1>7, <1>8, <1>9, <1>10,
     RefinedCommit, RefinedInsert, RefinedSave DEF Next, Done

\* checkoutComplete and checkoutPaymentCreate, by any number of workers at the
\* same time, with crashes and retries, keep what OrderPlacement promises: a
\* checkout becomes one order at most, only with its payment in the books, is
\* gone the moment the order is there, and the brands are told once
\* (checkout/complete_checkout.py:712, graphql/checkout/mutations.py:1085).
THEOREM PlacementImplemented == Spec => ImplementsPlacement
<1>1. Init => Placement!Init
  BY RefinedInit
<1>2. Inv /\ [Next]_vars => [Placement!Next]_(Placement!vars)
  BY RefinedNext
<1> QED
  BY <1>1, <1>2, InvHolds, PTL DEF Spec, ImplementsPlacement, Placement!Spec
=============================================================================
