---------------------- MODULE AdyenNotificationsProofs ----------------------
(***************************************************************************)
(* Proofs about AdyenNotifications, for any workers, amounts and bounds:   *)
(* the types of what is kept, that the checkout becomes one order, that a  *)
(* refund is booked as Adyen carried it out, and that what was told once   *)
(* changes nothing when it is told again.  The first two need what the     *)
(* locks exclude (Inv); the others, what the transactions say of the       *)
(* notifications that were accepted (Agreed).                              *)
(***************************************************************************)
EXTENDS AdyenNotifications, FunctionSums, SequenceTheorems, WellFoundedInduction

USE AdyenAssumption

-----------------------------------------------------------------------------
(* The inductive invariant                                                 *)

Rows ==
    [ payment : PaymentRow, transactions : Seq(TransactionRow),
      checkout : BOOLEAN, orders : Nat, canceled : BOOLEAN ]

Worlds == [ db : Rows, refs : Seq(Reference), notices : Seq(Notice) ]

Calls ==
    [ task : { "idle", "complete", "webhook", "return" }, notice : Nat, seen : PaymentRow ]

HistoryTyped ==
    /\ config \in Configs
    /\ handled \subseteq DOMAIN notices
    /\ completions \in Nat /\ redeliveries \in Nat
    /\ overtaken \in BOOLEAN
    /\ unanswered \subseteq DOMAIN references

\* There is the checkout or its one order.
OpenOrOrdered == db.checkout = (db.orders = 0) /\ db.orders <= 1

\* checkoutComplete has the checkout locked, and it is there.
OneCompletes ==
    /\ \A c, d \in Workers :
         call[c].task = "complete" /\ call[d].task = "complete" => c = d
    /\ \A c \in Workers : call[c].task = "complete" => db.checkout

\* A notification that is being handled has been sent.
HandlesSent ==
    \A c \in Workers : call[c].task = "webhook" => call[c].notice \in DOMAIN notices

\* A capture whose answer was not lost is booked.
CapturesAnswered ==
    \A t \in DOMAIN references : references[t].op = "capture" =>
      t \in unanswered \/ Done(World, { "capture" }) # {}

Inv ==
    /\ World \in Worlds /\ call \in [ Workers -> Calls ]
    /\ HistoryTyped /\ OpenOrOrdered /\ OneCompletes /\ HandlesSent /\ CapturesAnswered

-----------------------------------------------------------------------------
(* What a call makes of a world                                            *)

\* Adyen's part only grows.
Grown(w, v) ==
    /\ v \in Worlds
    /\ Len(w.refs) <= Len(v.refs) /\ Len(w.notices) <= Len(v.notices)

\* What was written stays.
Says(ns, more) == DOMAIN ns \subseteq DOMAIN more /\ \A i \in DOMAIN ns : more[i] = ns[i]

\* What was captured stays, and booked is what Adyen was asked for now.
Captured(w) == Done(w, { "capture" }) # {}

CapturesBooked(w, v) ==
    /\ Captured(w) => Captured(v)
    /\ \A t \in DOMAIN v.refs : v.refs[t].op = "capture" =>
         IF t \in DOMAIN w.refs THEN w.refs[t].op = "capture" ELSE Captured(v)

\* v is w later, as far as the order is concerned.
Near(w, v) ==
    /\ Grown(w, v) /\ CapturesBooked(w, v)
    /\ v.db.orders = w.db.orders /\ v.db.checkout = w.db.checkout

\* The same, or the checkout has become an order.
After(w, v) ==
    /\ Grown(w, v) /\ CapturesBooked(w, v)
    /\ \/ v.db.orders = w.db.orders /\ v.db.checkout = w.db.checkout
       \/ v.db.orders = w.db.orders + 1 /\ v.db.checkout = FALSE

LEMMA WorldTyped ==
    ASSUME NEW w \in Worlds
    PROVE  /\ w.db \in Rows /\ w.refs \in Seq(Reference) /\ w.notices \in Seq(Notice)
           /\ w.db.payment \in PaymentRow /\ w.db.transactions \in Seq(TransactionRow)
           /\ w.db.checkout \in BOOLEAN /\ w.db.orders \in Nat /\ w.db.canceled \in BOOLEAN
           /\ Len(w.refs) \in Nat /\ Len(w.notices) \in Nat /\ Len(w.db.transactions) \in Nat
           /\ DOMAIN w.refs = 1 .. Len(w.refs)
           /\ DOMAIN w.notices = 1 .. Len(w.notices)
           /\ DOMAIN w.db.transactions = 1 .. Len(w.db.transactions)
<1>1. w.db \in Rows /\ w.refs \in Seq(Reference) /\ w.notices \in Seq(Notice)
  BY DEF Worlds
<1>2. /\ w.db.payment \in PaymentRow /\ w.db.transactions \in Seq(TransactionRow)
      /\ w.db.checkout \in BOOLEAN /\ w.db.orders \in Nat /\ w.db.canceled \in BOOLEAN
  BY <1>1 DEF Rows
<1> QED
  BY <1>1, <1>2, LenProperties

LEMMA Appended ==
    ASSUME NEW T, NEW ts \in Seq(T), NEW y \in T, NEW us, us = Append(ts, y)
    PROVE  /\ us \in Seq(T) /\ Len(ts) \in Nat /\ Len(us) = Len(ts) + 1
           /\ DOMAIN ts = 1 .. Len(ts) /\ DOMAIN us = DOMAIN ts \cup { Len(ts) + 1 }
           /\ Len(ts) + 1 \notin DOMAIN ts
           /\ us[Len(ts) + 1] = y /\ \A i \in DOMAIN ts : us[i] = ts[i] /\ ts[i] \in T
<1>1. /\ us \in Seq(T) /\ Len(ts) \in Nat /\ Len(us) = Len(ts) + 1
      /\ DOMAIN ts = 1 .. Len(ts) /\ DOMAIN us = 1 .. Len(us)
  BY AppendProperties, LenProperties
<1>2. 1 .. Len(us) = (1 .. Len(ts)) \cup { Len(ts) + 1 } /\ Len(ts) + 1 \notin 1 .. Len(ts)
  BY <1>1
<1>3. us[Len(ts) + 1] = y /\ \A i \in DOMAIN ts : us[i] = ts[i]
  BY <1>1, AppendProperties
<1>4. \A i \in DOMAIN ts : ts[i] \in T
  BY <1>1, ElementOfSeq
<1> QED
  BY <1>1, <1>2, <1>3, <1>4

LEMMA NearItself == ASSUME NEW w \in Worlds PROVE Near(w, w)
BY WorldTyped DEF Near, Grown, CapturesBooked

LEMMA BookedBooked ==
    ASSUME NEW w \in Worlds, NEW v \in Worlds, NEW u, Grown(w, v),
           CapturesBooked(w, v), CapturesBooked(v, u)
    PROVE  CapturesBooked(w, u)
<1>1. DOMAIN w.refs \subseteq DOMAIN v.refs
  BY WorldTyped DEF Grown
<1>2. Captured(w) => Captured(u)
  BY DEF CapturesBooked
<1>3. ASSUME NEW t \in DOMAIN u.refs, u.refs[t].op = "capture"
      PROVE  IF t \in DOMAIN w.refs THEN w.refs[t].op = "capture" ELSE Captured(u)
  <2>1. CASE t \in DOMAIN v.refs
    <3>1. v.refs[t].op = "capture" /\ (Captured(v) => Captured(u))
      BY <1>3, <2>1 DEF CapturesBooked
    <3> QED
      BY <2>1, <3>1 DEF CapturesBooked
  <2>2. CASE t \notin DOMAIN v.refs
    BY <1>1, <1>3, <2>2 DEF CapturesBooked
  <2> QED
    BY <2>1, <2>2
<1> QED
  BY <1>2, <1>3 DEF CapturesBooked

LEMMA NearNear ==
    ASSUME NEW w \in Worlds, NEW v, NEW u, Near(w, v), Near(v, u)
    PROVE  Near(w, u)
<1>1. v \in Worlds /\ u \in Worlds /\ CapturesBooked(w, u)
  BY BookedBooked DEF Near, Grown
<1> QED
  BY <1>1, WorldTyped DEF Near, Grown

LEMMA NearAfter ==
    ASSUME NEW w \in Worlds, NEW v, NEW u, Near(w, v), After(v, u)
    PROVE  After(w, u)
<1>1. v \in Worlds /\ u \in Worlds /\ CapturesBooked(w, u)
  BY BookedBooked DEF Near, After, Grown
<1> QED
  BY <1>1, WorldTyped DEF Near, After, Grown

LEMMA AfterNear ==
    ASSUME NEW w \in Worlds, NEW v, NEW u, After(w, v), Near(v, u)
    PROVE  After(w, u)
<1>1. v \in Worlds /\ u \in Worlds /\ CapturesBooked(w, u)
  BY BookedBooked DEF Near, After, Grown
<1> QED
  BY <1>1, WorldTyped DEF Near, After, Grown

LEMMA NearIsAfter == ASSUME NEW w, NEW v, Near(w, v) PROVE After(w, v)
BY DEF Near, After

LEMMA CapturedStays ==
    ASSUME NEW w, NEW v, Says(w.db.transactions, v.db.transactions)
    PROVE  Captured(w) => Captured(v)
BY DEF Captured, Done, Says

\* A world with more transactions, another payment.
LEMMA RowsChange ==
    ASSUME NEW w \in Worlds, NEW p \in PaymentRow, NEW ts \in Seq(TransactionRow), NEW b \in BOOLEAN,
           Says(w.db.transactions, ts),
           NEW v, v = [ w EXCEPT !.db = [ @ EXCEPT !.payment = p, !.transactions = ts,
                                                   !.canceled = b ] ]
    PROVE  Near(w, v)
<1>1. PICK d : d = [ w.db EXCEPT !.payment = p, !.transactions = ts, !.canceled = b ]
  OBVIOUS
<1>2. w.db \in Rows
  BY WorldTyped
<1>3. d \in Rows
  BY <1>1, <1>2, Zenon DEF Rows
<1>4. d.orders = w.db.orders /\ d.checkout = w.db.checkout /\ d.transactions = ts
  BY <1>1, <1>2 DEF Rows
<1>5. v = [ w EXCEPT !.db = d ]
  BY <1>1
<1>6. v \in Worlds /\ v.db = d /\ v.refs = w.refs /\ v.notices = w.notices
  BY <1>3, <1>5 DEF Worlds
<1>7. Captured(w) => Captured(v)
  BY <1>4, <1>6, CapturedStays
<1>8. CapturesBooked(w, v)
  BY <1>6, <1>7 DEF CapturesBooked
<1> QED
  BY <1>4, <1>6, <1>8, WorldTyped DEF Near, Grown

LEMMA ReferencesChange ==
    ASSUME NEW w \in Worlds, NEW rs \in Seq(Reference), NEW ns \in Seq(Notice),
           Len(w.refs) <= Len(rs), Len(w.notices) <= Len(ns),
           \A t \in DOMAIN rs : rs[t].op = "capture" => t \in DOMAIN w.refs /\ w.refs[t].op = "capture",
           NEW v, v = [ w EXCEPT !.refs = rs, !.notices = ns ]
    PROVE  Near(w, v)
<1>1. v \in Worlds /\ v.db = w.db /\ v.refs = rs /\ v.notices = ns
  BY DEF Worlds
<1>2. CapturesBooked(w, v)
  BY <1>1 DEF CapturesBooked, Captured, Done
<1> QED
  BY <1>1, <1>2 DEF Near, Grown

-----------------------------------------------------------------------------
(* Transactions and references                                             *)

LEMMA RowChanges ==
    ASSUME NEW p \in PaymentRow, NEW b \in BOOLEAN, NEW s \in ChargeStatus, NEW n \in Int
    PROVE  /\ [ p EXCEPT !.is_active = b ] \in PaymentRow
           /\ [ p EXCEPT !.to_confirm = b ] \in PaymentRow
           /\ [ p EXCEPT !.charge_status = s ] \in PaymentRow
           /\ [ p EXCEPT !.captured_amount = n, !.charge_status = s ] \in PaymentRow
           /\ [ p EXCEPT !.captured_amount = n, !.is_active = b, !.charge_status = s ] \in PaymentRow
BY Zenon DEF PaymentRow

LEMMA EffectTyped ==
    ASSUME NEW p \in PaymentRow, NEW t \in TransactionRow
    PROVE  Effect(p, t) \in PaymentRow
<1>1. t.amount \in Nat /\ p.captured_amount \in Int /\ p.is_active \in BOOLEAN
  BY DEF TransactionRow, PaymentRow
<1>2. /\ "pending" \in ChargeStatus /\ "cancelled" \in ChargeStatus
      /\ "fully-charged" \in ChargeStatus /\ "partially-charged" \in ChargeStatus
      /\ "fully-refunded" \in ChargeStatus /\ "partially-refunded" \in ChargeStatus
      /\ "not-charged" \in ChargeStatus
  BY DEF ChargeStatus
<1>3. Charge(p, t.amount) \in PaymentRow
  <2>1. PICK n, s : /\ n = p.captured_amount + t.amount
                    /\ s = (IF p.total - n <= 0 THEN "fully-charged" ELSE "partially-charged")
    OBVIOUS
  <2>2. n \in Int /\ s \in ChargeStatus
    BY <1>1, <1>2, <2>1
  <2> QED
    BY <2>1, <2>2, RowChanges DEF Charge
<1>4. Refund(p, t.amount) \in PaymentRow
  <2>1. PICK n, s, b : /\ n = p.captured_amount - t.amount
                       /\ s = (IF n <= 0 THEN "fully-refunded" ELSE "partially-refunded")
                       /\ b = (p.is_active /\ n > 0)
    OBVIOUS
  <2>2. n \in Int /\ s \in ChargeStatus /\ b \in BOOLEAN
    BY <1>1, <1>2, <2>1
  <2>3. Refund(p, t.amount) = [ p EXCEPT !.captured_amount = n, !.is_active = b, !.charge_status = s ]
    BY <2>1 DEF Refund
  <2>4. [ p EXCEPT !.captured_amount = n, !.is_active = b, !.charge_status = s ] \in PaymentRow
    BY <2>2, Zenon DEF PaymentRow
  <2> QED
    BY <2>3, <2>4, Zenon
<1>5. FailCapture(p, t.amount) \in PaymentRow
  <2>1. PICK n, s : /\ n = p.captured_amount - t.amount
                    /\ s = (IF n <= 0 THEN "not-charged" ELSE "partially-charged")
    OBVIOUS
  <2>2. n \in Int /\ s \in ChargeStatus
    BY <1>1, <1>2, <2>1
  <2>3. [ p EXCEPT !.captured_amount = n, !.charge_status = s ] \in PaymentRow
    BY <2>2, RowChanges
  <2> QED
    BY <2>1, <2>3 DEF FailCapture
<1>6. /\ [ p EXCEPT !.is_active = FALSE ] \in PaymentRow
      /\ [ p EXCEPT !.charge_status = "pending" ] \in PaymentRow
      /\ [ p EXCEPT !.charge_status = "cancelled" ] \in PaymentRow
  <2>1. FALSE \in BOOLEAN /\ 0 \in Int
    OBVIOUS
  <2> QED
    BY <1>2, <2>1, RowChanges, Zenon
<1> QED
  BY <1>3, <1>4, <1>5, <1>6 DEF Effect

LEMMA PostprocessTyped ==
    ASSUME NEW p \in PaymentRow, NEW t \in TransactionRow
    PROVE  gateway_postprocess(p, t) \in PaymentRow
<1>1. "pending" \in ChargeStatus /\ 0 \in Int /\ TRUE \in BOOLEAN /\ FALSE \in BOOLEAN
  BY DEF ChargeStatus
<1>2. [ p EXCEPT !.to_confirm = TRUE ] \in PaymentRow /\ [ p EXCEPT !.to_confirm = FALSE ] \in PaymentRow
  BY <1>1, RowChanges, Zenon
<1>3. Effect([ p EXCEPT !.to_confirm = FALSE ], t) \in PaymentRow
  BY <1>2, EffectTyped
<1> QED
  BY <1>2, <1>3 DEF gateway_postprocess

LEMMA MarkTyped ==
    ASSUME NEW t \in TransactionRow
    PROVE  MarkProcessed(t) \in TransactionRow
<1>1. PICK b : b = (t.already_processed \/ Processable(t))
  OBVIOUS
<1>2. b \in BOOLEAN
  BY <1>1 DEF Processable
<1> QED
  BY <1>1, <1>2, Zenon DEF MarkProcessed, TransactionRow

LEMMA TxnTyped ==
    ASSUME NEW kind \in TransactionKind, NEW token \in Nat, NEW is_success \in BOOLEAN,
           NEW amount \in Nat
    PROVE  Txn(kind, token, is_success, amount) \in TransactionRow
BY Zenon DEF Txn, TransactionRow

LEMMA Kinds ==
    /\ { "auth", "capture", "capture_failed", "action_to_confirm", "void", "pending", "refund",
         "refund_ongoing", "refund_failed", "refund_reversed", "confirm", "cancel" }
         \subseteq TransactionKind
    /\ AuthorizedKind \in TransactionKind /\ ConfirmedKind \in TransactionKind
BY DEF TransactionKind, AuthorizedKind, ConfirmedKind

LEMMA InsertNear ==
    ASSUME NEW w \in Worlds, NEW t \in TransactionRow
    PROVE  Near(w, Insert(w, t))
<1>1. PICK ts, d, v : /\ ts = Append(w.db.transactions, t)
                      /\ d = [ w.db EXCEPT !.payment = w.db.payment, !.transactions = ts,
                                           !.canceled = w.db.canceled ]
                      /\ v = [ w EXCEPT !.db = d ]
  OBVIOUS
<1>2. w.db \in Rows /\ w \in Worlds
  BY WorldTyped
<1>3. /\ ts \in Seq(TransactionRow)
      /\ Says(w.db.transactions, ts)
  BY <1>1, WorldTyped, Appended DEF Says
<1>4. Insert(w, t) = v
  BY <1>1, <1>2 DEF Insert, Rows, Worlds
<1> QED
  BY <1>1, <1>3, <1>4, WorldTyped, RowsChange

LEMMA BookNear ==
    ASSUME NEW w \in Worlds, NEW t \in TransactionRow
    PROVE  Near(w, Book(w, t))
<1>1. PICK ts, p, d, v : /\ ts = Append(w.db.transactions, MarkProcessed(t))
                         /\ p = gateway_postprocess(w.db.payment, t)
                         /\ d = [ w.db EXCEPT !.payment = p, !.transactions = ts,
                                              !.canceled = w.db.canceled ]
                         /\ v = [ w EXCEPT !.db = d ]
  OBVIOUS
<1>2. w.db \in Rows /\ w \in Worlds
  BY WorldTyped
<1>3. /\ ts \in Seq(TransactionRow) /\ p \in PaymentRow
      /\ Says(w.db.transactions, ts)
  <2>1. MarkProcessed(t) \in TransactionRow /\ p \in PaymentRow
    BY <1>1, WorldTyped, MarkTyped, PostprocessTyped
  <2> QED
    BY <1>1, <2>1, WorldTyped, Appended DEF Says
<1>4. Book(w, t) = v
  BY <1>1, <1>2 DEF Book, Rows, Worlds
<1> QED
  BY <1>1, <1>3, <1>4, WorldTyped, RowsChange

LEMMA ReferLonger ==
    ASSUME NEW w \in Worlds, NEW op \in { "payment", "capture", "refund", "cancel" },
           NEW amount \in Nat,
           NEW state \in { "action", "received", "done", "refused", "failed" },
           NEW v, v = Refer(w, op, amount, state)
    PROVE  /\ v \in Worlds /\ v.db = w.db /\ v.notices = w.notices
           /\ DOMAIN v.refs = DOMAIN w.refs \cup { NextToken(w) } /\ v.refs[NextToken(w)].op = op
           /\ Len(v.refs) = Len(w.refs) + 1 /\ \A t \in DOMAIN w.refs : v.refs[t] = w.refs[t]
<1>1. PICK r, rs : /\ r = [ op |-> op, amount |-> amount, state |-> state ]
                   /\ rs = Append(w.refs, r)
  OBVIOUS
<1>2. r \in Reference /\ r.op = op
  BY <1>1 DEF Reference
<1>3. /\ rs \in Seq(Reference) /\ Len(rs) = Len(w.refs) + 1
      /\ DOMAIN rs = DOMAIN w.refs \cup { Len(w.refs) + 1 } /\ rs[Len(w.refs) + 1] = r
      /\ \A t \in DOMAIN w.refs : rs[t] = w.refs[t]
  BY <1>1, <1>2, WorldTyped, Appended
<1>4. v = [ w EXCEPT !.refs = rs ]
  BY <1>1 DEF Refer
<1>5. v \in Worlds /\ v.db = w.db /\ v.notices = w.notices /\ v.refs = rs
  BY <1>3, <1>4 DEF Worlds
<1> QED
  BY <1>2, <1>3, <1>5 DEF NextToken

LEMMA ReferNear ==
    ASSUME NEW w \in Worlds, NEW op \in { "payment", "refund", "cancel" },
           NEW amount \in Nat,
           NEW state \in { "action", "received", "done", "refused", "failed" }
    PROVE  Near(w, Refer(w, op, amount, state)) /\ NextToken(w) \in DOMAIN Refer(w, op, amount, state).refs
<1>1. PICK v : v = Refer(w, op, amount, state)
  OBVIOUS
<1>2. /\ v \in Worlds /\ v.db = w.db /\ v.notices = w.notices
      /\ DOMAIN v.refs = DOMAIN w.refs \cup { NextToken(w) } /\ v.refs[NextToken(w)].op = op
      /\ Len(v.refs) = Len(w.refs) + 1 /\ \A t \in DOMAIN w.refs : v.refs[t] = w.refs[t]
  BY <1>1, ReferLonger
<1>3. Grown(w, v)
  BY <1>2, WorldTyped DEF Grown
<1>4. CapturesBooked(w, v)
  BY <1>2 DEF CapturesBooked, Captured, Done
<1> QED
  BY <1>1, <1>2, <1>3, <1>4 DEF Near

\* A capture is booked as soon as Adyen has taken it.
LEMMA CaptureAsked ==
    ASSUME NEW w \in Worlds, NEW amount \in Nat, NEW token \in Nat
    PROVE  Near(w, Book(Refer(w, "capture", amount, "received"), Txn("capture", token, TRUE, amount)))
<1>1. PICK v, t, y, u : /\ v = Refer(w, "capture", amount, "received")
                        /\ t = Txn("capture", token, TRUE, amount) /\ y = MarkProcessed(t) /\ u = Book(v, t)
  OBVIOUS
<1>2. /\ v \in Worlds /\ v.db = w.db /\ v.notices = w.notices
      /\ DOMAIN v.refs = DOMAIN w.refs \cup { NextToken(w) }
      /\ Len(v.refs) = Len(w.refs) + 1 /\ \A s \in DOMAIN w.refs : v.refs[s] = w.refs[s]
  BY <1>1, ReferLonger
<1>3. t \in TransactionRow /\ t.kind = "capture" /\ t.is_success /\ ~t.action_required
  BY <1>1, Kinds, TxnTyped DEF Txn
<1>4. y \in TransactionRow /\ y.kind = "capture" /\ y.is_success /\ ~y.action_required
  BY <1>1, <1>3, MarkTyped DEF MarkProcessed, TransactionRow
<1>5. Near(v, u)
  BY <1>1, <1>2, <1>3, BookNear
<1>6. u.db.transactions = Append(v.db.transactions, y)
  BY <1>1, <1>2, WorldTyped DEF Book, Worlds, Rows
<1>7. Captured(u)
  <2>1. PICK ts, us, k : /\ ts = v.db.transactions /\ us = u.db.transactions /\ k = Len(ts) + 1
    OBVIOUS
  <2>2. ts \in Seq(TransactionRow) /\ us = Append(ts, y)
    BY <1>2, <1>6, <2>1, WorldTyped
  <2>3. k \in DOMAIN us /\ us[k] = y
    BY <1>4, <2>1, <2>2, Appended
  <2>4. k \in Done(u, { "capture" })
    BY <1>4, <2>1, <2>3 DEF Done
  <2> QED
    BY <2>4 DEF Captured
<1>8. u \in Worlds /\ Grown(w, u)
  BY <1>2, <1>5, WorldTyped DEF Near, Grown
<1>9. CapturesBooked(w, u)
  BY <1>2, <1>5, <1>7 DEF Near, CapturesBooked
<1> QED
  BY <1>1, <1>2, <1>5, <1>8, <1>9 DEF Near

LEMMA AnnounceNear ==
    ASSUME NEW w \in Worlds, NEW event \in Event, NEW token \in DOMAIN w.refs,
           NEW success \in BOOLEAN
    PROVE  Near(w, Announce(w, event, token, success))
<1>1. PICK n, ns : /\ n = [ event |-> event, token |-> token,
                            amount |-> w.refs[token].amount, success |-> success ]
                   /\ ns = Append(w.notices, n)
  OBVIOUS
<1>2. w.refs[token] \in Reference /\ token \in Nat
  BY WorldTyped, LenProperties
<1>3. n \in Notice
  BY <1>1, <1>2, Zenon DEF Notice, Reference
<1>4. ns \in Seq(Notice) /\ Len(ns) = Len(w.notices) + 1
  BY <1>1, <1>3, WorldTyped, AppendProperties
<1>5. /\ Len(w.refs) <= Len(w.refs) /\ Len(w.notices) <= Len(ns)
      /\ \A t \in DOMAIN w.refs : w.refs[t].op = "capture" => t \in DOMAIN w.refs
  BY <1>4, WorldTyped
<1>6. Announce(w, event, token, success) = [ w EXCEPT !.refs = w.refs, !.notices = ns ]
  BY <1>1 DEF Announce, Worlds
<1> QED
  BY <1>4, <1>5, <1>6, WorldTyped, ReferencesChange

LEMMA DecidedNear ==
    ASSUME NEW w \in Worlds, NEW token \in DOMAIN w.refs,
           NEW state \in { "action", "received", "done", "refused" }
    PROVE  Near(w, Decided(w, token, state))
<1>1. PICK r, rs, v : /\ r = [ w.refs[token] EXCEPT !.state = state ]
                      /\ rs = [ w.refs EXCEPT ![token] = r ]
                      /\ v = [ w EXCEPT !.refs = rs, !.notices = w.notices ]
  OBVIOUS
<1>2. w.refs[token] \in Reference /\ token \in 1 .. Len(w.refs)
  BY WorldTyped, LenProperties
<1>3. r \in Reference /\ r.op = w.refs[token].op
  BY <1>1, <1>2 DEF Reference
<1>4. /\ rs \in Seq(Reference) /\ Len(rs) = Len(w.refs) /\ DOMAIN rs = DOMAIN w.refs
      /\ \A t \in DOMAIN rs : rs[t].op = w.refs[t].op
  BY <1>1, <1>2, <1>3, WorldTyped, ExceptSeq
<1>5. Near(w, v)
  <2>1. /\ Len(w.refs) <= Len(rs) /\ Len(w.notices) <= Len(w.notices) /\ w.notices \in Seq(Notice)
        /\ \A t \in DOMAIN rs : rs[t].op = "capture" => t \in DOMAIN w.refs /\ w.refs[t].op = "capture"
    BY <1>4, WorldTyped
  <2> QED
    BY <1>1, <1>4, <2>1, ReferencesChange
<1>6. v = [ w EXCEPT !.refs[token].state = state ]
  BY <1>1, <1>2 DEF Worlds
<1>7. v \in Worlds /\ v.refs = rs
  BY <1>1, <1>5 DEF Near, Grown, Worlds
<1>8. token \in DOMAIN v.refs
  BY <1>2, <1>4, <1>7, LenProperties
<1>9. "AUTHORISATION" \in Event /\ "PENDING" \in Event /\ TRUE \in BOOLEAN /\ FALSE \in BOOLEAN
  BY DEF Event
<1>10. /\ Near(v, Announce(v, "AUTHORISATION", token, TRUE))
       /\ Near(v, Announce(v, "AUTHORISATION", token, FALSE))
       /\ Near(v, Announce(v, "PENDING", token, TRUE))
  BY <1>7, <1>8, <1>9, AnnounceNear
<1>11. Decided(w, token, state) \in
         { v, Announce(v, "AUTHORISATION", token, TRUE), Announce(v, "AUTHORISATION", token, FALSE),
           Announce(v, "PENDING", token, TRUE) }
  BY <1>6 DEF Decided
<1> QED
  BY <1>5, <1>10, <1>11, NearNear

-----------------------------------------------------------------------------
(* plugin.py leaves the order alone                                        *)

LEMMA DecidedSame ==
    ASSUME NEW w \in Worlds, NEW token \in DOMAIN w.refs, NEW state
    PROVE  DOMAIN Decided(w, token, state).refs = DOMAIN w.refs
<1>1. PICK rs, v : /\ rs = [ w.refs EXCEPT ![token].state = state ]
                   /\ v = [ w EXCEPT !.refs[token].state = state ]
  OBVIOUS
<1>2. v.refs = rs /\ DOMAIN rs = DOMAIN w.refs /\ \A ns : [ v EXCEPT !.notices = ns ].refs = rs
  BY <1>1 DEF Worlds
<1>3. \A event, success : Announce(v, event, token, success).refs = rs
  BY <1>2 DEF Announce
<1>4. \/ Decided(w, token, state) = v
      \/ \E event, success : Decided(w, token, state) = Announce(v, event, token, success)
  BY <1>1, Zenon DEF Decided
<1> QED
  BY <1>2, <1>3, <1>4

LEMMA HasLast ==
    ASSUME NEW n \in Nat, NEW S \in SUBSET (1 .. n), S # {}
    PROVE  \E m \in S : \A k \in S : m >= k
<1> DEFINE T == { n - k : k \in S }
           R == OpToRel(<, Nat)
<1>1. T \in SUBSET Nat /\ T # {}
  <2>1. \A k \in S : n - k \in Nat
    OBVIOUS
  <2>2. PICK k \in S : TRUE
    OBVIOUS
  <2>3. n - k \in T
    BY <2>2
  <2> QED
    BY <2>1, <2>3
<1>2. \A x, y \in T : y < x => << y, x >> \in R
  <2> SUFFICES ASSUME NEW x \in T, NEW y \in T, y < x PROVE << y, x >> \in R
    OBVIOUS
  <2>1. << y, x >> \in Nat \X Nat
    BY <1>1
  <2> QED
    BY <2>1 DEF OpToRel
<1>3. IsWellFoundedOn(R, Nat)
  BY NatLessThanWellFounded
<1> HIDE DEF T, R
<1>4. PICK x \in T : \A y \in T : ~ << y, x >> \in R
  BY <1>1, <1>3, WFMin, Zenon
<1>5. \A y \in T : ~(y < x)
  BY <1>2, <1>4
<1>6. PICK m \in S : x = n - m
  BY DEF T
<1>7. \A k \in S : ~(n - k < n - m)
  BY <1>5, <1>6 DEF T
<1>8. \A k \in S : m >= k
  BY <1>7
<1> QED
  BY <1>8

LEMMA MaxIn ==
    ASSUME NEW n \in Nat, NEW S \in SUBSET (1 .. n), S # {}
    PROVE  Max(S) \in S
BY HasLast, Zenon DEF Max

LEMMA MaxLast ==
    ASSUME NEW n \in Nat, NEW S \in SUBSET (1 .. n), S # {}
    PROVE  \A k \in S : k <= Max(S)
<1>1. Max(S) \in S /\ \A k \in S : Max(S) >= k
  BY HasLast, Zenon DEF Max
<1> QED
  BY <1>1

LEMMA TransactionAt ==
    ASSUME NEW w \in Worlds, NEW i \in DOMAIN w.db.transactions
    PROVE  /\ w.db.transactions[i] \in TransactionRow
           /\ w.db.transactions[i].kind \in TransactionKind
           /\ w.db.transactions[i].token \in Nat
<1>1. w.db.transactions[i] \in TransactionRow
  BY WorldTyped, LenProperties
<1> QED
  BY <1>1 DEF TransactionRow

LEMMA TokenIsNat == ASSUME NEW w \in Worlds PROVE NextToken(w) \in Nat
BY WorldTyped DEF NextToken

LEMMA AsksNear ==
    ASSUME NEW w \in Worlds, NEW op \in { "refund", "cancel" }, NEW amount \in Nat,
           NEW kind \in TransactionKind
    PROVE  Near(w, Book(Refer(w, op, amount, "received"), Txn(kind, NextToken(w), TRUE, amount)))
<1>1. PICK v, t : v = Refer(w, op, amount, "received") /\ t = Txn(kind, NextToken(w), TRUE, amount)
  OBVIOUS
<1>2. Near(w, v)
  BY <1>1, ReferNear
<1>3. t \in TransactionRow
  BY <1>1, TokenIsNat, TxnTyped
<1>4. v \in Worlds
  BY <1>2 DEF Near, Grown
<1>5. Near(v, Book(v, t))
  BY <1>3, <1>4, BookNear
<1> QED
  BY <1>1, <1>2, <1>5, NearNear

LEMMA RefundNear ==
    ASSUME NEW w \in Worlds, NEW amount \in Int, NEW v \in refund(w, amount)
    PROVE  Near(w, v)
<1>1. CASE amount > 0
  <2>1. amount \in Nat
    BY <1>1
  <2> QED
    BY <2>1, AsksNear, NearItself, Kinds DEF refund
<1>2. CASE ~(amount > 0)
  BY <1>2, NearItself DEF refund
<1> QED
  BY <1>1, <1>2

LEMMA VoidNear ==
    ASSUME NEW w \in Worlds, NEW v \in void(w)
    PROVE  Near(w, v)
<1>1. Total \in Nat
  OBVIOUS
<1> QED
  BY <1>1, AsksNear, NearItself, Kinds DEF void

LEMMA CaptureNear ==
    ASSUME NEW w \in Worlds, NEW amount \in Nat, NEW v \in capture(w, amount)
    PROVE  Near(w, v)
BY CaptureAsked, TokenIsNat, NearItself DEF capture

LEMMA RefundOrVoidNear ==
    ASSUME NEW w \in Worlds, NEW p, NEW v \in payment_refund_or_void(w, p)
    PROVE  Near(w, v)
<1>1. w.db.payment.captured_amount \in Int
  BY WorldTyped DEF PaymentRow
<1>2. payment_refund_or_void(w, p) \in { refund(w, w.db.payment.captured_amount), void(w), { w } }
  BY DEF payment_refund_or_void
<1> QED
  BY <1>1, <1>2, RefundNear, VoidNear, NearItself

LEMMA FailedNear ==
    ASSUME NEW w \in Worlds, NEW kind \in TransactionKind
    PROVE  Near(w, Failed(w, kind).w)
<1>1. Txn(kind, 0, FALSE, Total) \in TransactionRow
  BY TxnTyped
<1> QED
  BY <1>1, BookNear DEF Failed

LEMMA CallCaptureNear ==
    ASSUME NEW w \in Worlds, NEW token \in Nat, NEW failed \in TransactionKind,
           NEW c \in call_capture(w, token, failed)
    PROVE  Near(w, c.w)
<1>1. PICK v : v = Book(Refer(w, "capture", Total, "received"), Txn("capture", token, TRUE, Total))
  OBVIOUS
<1>2. Total \in Nat /\ Near(w, v)
  BY <1>1, CaptureAsked
<1>3. c = [ w |-> v, ok |-> TRUE ] \/ c = Failed(w, failed)
  BY <1>1 DEF call_capture
<1> QED
  BY <1>2, <1>3, FailedNear

LEMMA AnsweredNear ==
    ASSUME NEW w \in Worlds, NEW token \in Nat,
           NEW state \in { "action", "received", "done", "refused" },
           NEW kind \in TransactionKind, NEW failed \in TransactionKind,
           NEW c \in Answered(w, token, state, kind, failed)
    PROVE  Near(w, c.w)
<1>1. Total \in Nat /\ 0 \in Nat /\ TRUE \in BOOLEAN /\ (state = "done") \in BOOLEAN
  OBVIOUS
<1>2. Txn("pending", token, TRUE, Total) \in TransactionRow
  BY <1>1, Kinds, TxnTyped
<1>3. /\ Txn(kind, token, TRUE, Total) \in TransactionRow
      /\ Txn(kind, token, FALSE, Total) \in TransactionRow
  BY <1>1, TxnTyped
<1>4. [ Txn(kind, 0, TRUE, Total) EXCEPT !.action_required = TRUE ] \in TransactionRow
  <2>1. Txn(kind, 0, TRUE, Total) \in TransactionRow
    BY <1>1, TxnTyped
  <2> QED
    BY <1>1, <2>1, Zenon DEF TransactionRow
<1>5. \/ \E t \in TransactionRow, ok \in BOOLEAN : c = [ w |-> Book(w, t), ok |-> ok ]
      \/ c \in call_capture(w, NextToken(w), failed)
  <2>1. CASE state = "done" /\ config.auto_capture
    BY <2>1 DEF Answered
  <2>2. CASE state = "done" /\ ~config.auto_capture
    BY <1>3, <2>2 DEF Answered
  <2>3. CASE state # "done"
    BY <1>2, <1>3, <1>4, <2>3 DEF Answered
  <2> QED
    BY <2>1, <2>2, <2>3
<1> QED
  BY <1>5, BookNear, CallCaptureNear, TokenIsNat

LEMMA ProcessNear ==
    ASSUME NEW w \in Worlds, NEW has_data, NEW c \in process_payment(w, has_data)
    PROVE  Near(w, c.w)
<1>1. CASE has_data
  <2>1. PICK token, v : token = NextToken(w) /\ v = Refer(w, "payment", Total, "action")
    OBVIOUS
  <2>2. Near(w, v) /\ token \in DOMAIN v.refs /\ token \in Nat
    BY <2>1, ReferNear, TokenIsNat
  <2>3. v \in Worlds
    BY <2>2 DEF Near, Grown
  <2>4. PICK state \in { "action", "received", "done", "refused" } :
          c \in Answered(Decided(v, token, state), token, state, AuthorizedKind, "capture")
    BY <1>1, <2>1 DEF process_payment
  <2>5. Near(v, Decided(v, token, state))
    BY <2>2, <2>3, DecidedNear
  <2>6. Decided(v, token, state) \in Worlds
    BY <2>5 DEF Near, Grown
  <2>7. Near(Decided(v, token, state), c.w)
    BY <2>2, <2>4, <2>6, AnsweredNear, Kinds
  <2> QED
    BY <2>2, <2>3, <2>5, <2>7, NearNear
<1>2. CASE ~has_data
  BY <1>2, FailedNear, Kinds DEF process_payment
<1> QED
  BY <1>1, <1>2

\* What is told of the customer's confirmation.
ToldToConfirm(w) ==
    { i \in Done(w, { "action_to_confirm" }) : w.db.transactions[i].token # 0 }

LEMMA ConfirmLeads ==
    ASSUME NEW w, NEW has_data, NEW c \in confirm(w, has_data),
           NEW i, i = Max(ToldToConfirm(w)), NEW s, s = Max(AwaitingCustomer(w)),
           NEW token, token = w.db.transactions[i].token
    PROVE  \/ c = [ w |-> w, ok |-> TRUE ]
           \/ c = Failed(w, "confirm")
           \/ /\ ToldToConfirm(w) # {}
              /\ \/ c = [ w |-> Book(w, Txn(ConfirmedKind, token, TRUE, Total)), ok |-> TRUE ]
                 \/ config.auto_capture /\ c \in call_capture(w, token, "confirm")
           \/ /\ AwaitingCustomer(w) # {}
              /\ \E state \in { "action", "received", "done", "refused" } :
                    c \in Answered(Decided(w, s, state), s, state, ConfirmedKind, "confirm")
<1> DEFINE told   == ToldToConfirm(w)
           before == { j \in Done(w, { ConfirmedKind }) : w.db.transactions[j].amount = Total }
           booked == { [ w |-> Book(w, Txn(ConfirmedKind, token, TRUE, Total)), ok |-> TRUE ] }
           asked  == UNION { Answered(Decided(w, t, state), t, state, ConfirmedKind, "confirm") :
                               t \in { Max(AwaitingCustomer(w)) },
                               state \in { "action", "received", "done", "refused" } }
<1>1. confirm(w, has_data) =
        CASE told # {} /\ before # {} -> { [ w |-> w, ok |-> TRUE ] }
          [] told # {} /\ before = {} /\ ~config.auto_capture -> booked
          [] told # {} /\ before = {} /\ config.auto_capture -> call_capture(w, token, "confirm")
          [] told = {} /\ has_data /\ AwaitingCustomer(w) # {} -> asked
          [] OTHER -> { Failed(w, "confirm") }
  BY DEF confirm, ToldToConfirm
<1>2. c \in asked => \E state \in { "action", "received", "done", "refused" } :
                       c \in Answered(Decided(w, s, state), s, state, ConfirmedKind, "confirm")
  OBVIOUS
<1> HIDE DEF told, before, asked
<1>3. \/ c \in { [ w |-> w, ok |-> TRUE ] }
      \/ told # {} /\ c \in booked
      \/ told # {} /\ config.auto_capture /\ c \in call_capture(w, token, "confirm")
      \/ AwaitingCustomer(w) # {} /\ c \in asked
      \/ c \in { Failed(w, "confirm") }
  BY <1>1
<1> QED
  BY <1>2, <1>3 DEF told

LEMMA ConfirmNear ==
    ASSUME NEW w \in Worlds, NEW has_data, NEW c \in confirm(w, has_data)
    PROVE  Near(w, c.w)
<1>1. PICK i, s, token : /\ i = Max(ToldToConfirm(w)) /\ s = Max(AwaitingCustomer(w))
                         /\ token = w.db.transactions[i].token
  OBVIOUS
<1>2. ToldToConfirm(w) # {} => token \in Nat
  <2>1. ToldToConfirm(w) \in SUBSET (1 .. Len(w.db.transactions)) /\ Len(w.db.transactions) \in Nat
    BY WorldTyped DEF ToldToConfirm, Done
  <2>2. ToldToConfirm(w) # {} => i \in DOMAIN w.db.transactions
    BY <1>1, <2>1, MaxIn, WorldTyped
  <2> QED
    BY <1>1, <2>2, TransactionAt
<1>3. ASSUME ToldToConfirm(w) # {},
             c = [ w |-> Book(w, Txn(ConfirmedKind, token, TRUE, Total)), ok |-> TRUE ]
      PROVE  Near(w, c.w)
  <2>1. Txn(ConfirmedKind, token, TRUE, Total) \in TransactionRow
    BY <1>2, <1>3, Kinds, TxnTyped
  <2>2. c.w = Book(w, Txn(ConfirmedKind, token, TRUE, Total))
    BY <1>3
  <2> QED
    BY <2>1, <2>2, BookNear
<1>4. ASSUME ToldToConfirm(w) # {}, c \in call_capture(w, token, "confirm")
      PROVE  Near(w, c.w)
  BY <1>2, <1>4, Kinds, CallCaptureNear
<1>5. ASSUME AwaitingCustomer(w) # {}, NEW state \in { "action", "received", "done", "refused" },
             c \in Answered(Decided(w, s, state), s, state, ConfirmedKind, "confirm")
      PROVE  Near(w, c.w)
  <2>1. AwaitingCustomer(w) \in SUBSET (1 .. Len(w.refs)) /\ Len(w.refs) \in Nat
    BY WorldTyped DEF AwaitingCustomer
  <2>2. s \in AwaitingCustomer(w)
    BY <1>1, <1>5, <2>1, MaxIn
  <2>3. s \in DOMAIN w.refs /\ s \in Nat
    BY <2>1, <2>2, WorldTyped
  <2>4. PICK v : v = Decided(w, s, state)
    OBVIOUS
  <2>5. Near(w, v) /\ v \in Worlds
    BY <2>3, <2>4, DecidedNear DEF Near, Grown
  <2>6. Near(v, c.w)
    BY <1>5, <2>3, <2>4, <2>5, AnsweredNear, Kinds
  <2> QED
    BY <2>5, <2>6, NearNear
<1>6. c = [ w |-> w, ok |-> TRUE ] => Near(w, c.w)
  BY NearItself
<1>7. c = Failed(w, "confirm") => Near(w, c.w)
  BY FailedNear, Kinds
<1> QED
  BY <1>1, <1>3, <1>4, <1>5, <1>6, <1>7, ConfirmLeads

-----------------------------------------------------------------------------
(* Completing the checkout makes it an order, at most                      *)

LEMMA PlaceAfter ==
    ASSUME NEW w \in Worlds, NEW v, Near(w, v)
    PROVE  After(w, PlaceOrder(v))
<1>1. v \in Worlds /\ v.db \in Rows /\ v.db.orders \in Nat
  BY WorldTyped DEF Near, Grown
<1>2. PICK n, d, u : /\ n = v.db.orders + 1
                     /\ d = [ v.db EXCEPT !.orders = n, !.checkout = FALSE ]
                     /\ u = [ v EXCEPT !.db = d ]
  OBVIOUS
<1>3. n \in Nat /\ FALSE \in BOOLEAN
  BY <1>1, <1>2
<1>4. d \in Rows
  BY <1>1, <1>2, <1>3, Zenon DEF Rows
<1>5. d.orders = n /\ d.checkout = FALSE /\ d.transactions = v.db.transactions
  BY <1>1, <1>2 DEF Rows
<1>6. u \in Worlds /\ u.db = d /\ u.refs = v.refs /\ u.notices = v.notices
  BY <1>1, <1>2, <1>4 DEF Worlds
<1>7. PlaceOrder(v) = u
  BY <1>1, <1>2 DEF PlaceOrder, Worlds, Rows
<1>8. Captured(u) = Captured(v)
  BY <1>5, <1>6 DEF Captured, Done
<1>9. CapturesBooked(w, u)
  BY <1>6, <1>8 DEF Near, CapturesBooked
<1> QED
  BY <1>2, <1>5, <1>6, <1>7, <1>9 DEF Near, After, Grown

LEMMA CompleteLeads ==
    ASSUME NEW w, NEW seen, NEW has_data, NEW u \in complete_checkout(w, seen, has_data),
           seen.is_active,
           NEW charged, charged = IF seen.to_confirm THEN confirm(w, has_data)
                                                     ELSE process_payment(w, has_data)
    PROVE  \/ u \in payment_refund_or_void(w, seen)
           \/ \E c \in charged : u = c.w
           \/ \E c \in charged : u \in payment_refund_or_void(c.w, c.w.db.payment)
           \/ \E c \in charged : u = PlaceOrder(c.w)
<1> DEFINE paid     == { c.w : c \in { c \in charged : c.ok } }
           unpaid   == { c.w : c \in { c \in charged : ~c.ok } }
           no_stock == UNION { payment_refund_or_void(v, v.db.payment) :
                                 v \in { v \in paid : StockMayBeGone(v) } }
           early    == IF StockMayBeGone(w) THEN payment_refund_or_void(w, seen) ELSE {}
           placed   == { PlaceOrder(v) : v \in paid }
<1>1. complete_checkout(w, seen, has_data) = early \cup unpaid \cup no_stock \cup placed
  BY DEF complete_checkout
<1>2. u \in early => u \in payment_refund_or_void(w, seen)
  OBVIOUS
<1>3. u \in unpaid => \E c \in charged : u = c.w
  OBVIOUS
<1>4. u \in no_stock => \E c \in charged : u \in payment_refund_or_void(c.w, c.w.db.payment)
  OBVIOUS
<1>5. u \in placed => \E c \in charged : u = PlaceOrder(c.w)
  OBVIOUS
<1> HIDE DEF early, unpaid, no_stock, placed
<1> QED
  BY <1>1, <1>2, <1>3, <1>4, <1>5

LEMMA CompleteAfter ==
    ASSUME NEW w \in Worlds, NEW seen, NEW has_data, NEW u \in complete_checkout(w, seen, has_data)
    PROVE  After(w, u)
<1>1. CASE ~seen.is_active
  BY <1>1, NearItself, NearIsAfter DEF complete_checkout
<1>2. CASE seen.is_active
  <2>1. PICK charged : charged = IF seen.to_confirm THEN confirm(w, has_data)
                                                    ELSE process_payment(w, has_data)
    OBVIOUS
  <2>2. \A c \in charged : Near(w, c.w)
    BY <2>1, ConfirmNear, ProcessNear
  <2>3. \/ u \in payment_refund_or_void(w, seen)
        \/ \E c \in charged : u = c.w
        \/ \E c \in charged : u \in payment_refund_or_void(c.w, c.w.db.payment)
        \/ \E c \in charged : u = PlaceOrder(c.w)
    BY <1>2, <2>1, CompleteLeads
  <2>4. ASSUME NEW c \in charged, u \in payment_refund_or_void(c.w, c.w.db.payment)
        PROVE  Near(w, u)
    <3>1. Near(w, c.w) /\ c.w \in Worlds
      BY <2>2 DEF Near, Grown
    <3>2. Near(c.w, u)
      BY <2>4, <3>1, RefundOrVoidNear
    <3> QED
      BY <3>1, <3>2, NearNear
  <2>5. ASSUME NEW c \in charged, u = PlaceOrder(c.w)
        PROVE  After(w, u)
    BY <2>2, <2>5, PlaceAfter
  <2> QED
    BY <2>2, <2>3, <2>4, <2>5, RefundOrVoidNear, NearIsAfter
<1> QED
  BY <1>1, <1>2

LEMMA CreateAfter ==
    ASSUME NEW w \in Worlds, NEW u \in create_order(w)
    PROVE  After(w, u)
<1>1. PICK v \in complete_checkout(w, w.db.payment, FALSE) :
        u \in (IF HasOrder(v) THEN { v } ELSE payment_refund_or_void(v, w.db.payment))
  BY Zenon DEF create_order
<1>2. After(w, v)
  BY <1>1, CompleteAfter
<1>3. v \in Worlds
  BY <1>2 DEF After, Grown
<1>4. Near(v, u)
  BY <1>1, <1>3, RefundOrVoidNear, NearItself
<1> QED
  BY <1>2, <1>4, AfterNear

-----------------------------------------------------------------------------
(* So does a notification, and only one that finds no order                *)

LEMMA ToldTyped ==
    ASSUME NEW n \in Notice, NEW kind \in TransactionKind
    PROVE  /\ Told(n, kind) \in TransactionRow
           /\ [ Told(n, kind) EXCEPT !.amount = 0 ] \in TransactionRow
<1>1. n.token \in Nat /\ n.success \in BOOLEAN /\ n.amount \in Nat
  BY DEF Notice
<1>2. Told(n, kind) \in TransactionRow
  BY <1>1, TxnTyped DEF Told
<1>3. 0 \in Nat
  OBVIOUS
<1> QED
  BY <1>2, <1>3, Zenon DEF TransactionRow

LEMMA NotCreatedAfter ==
    ASSUME NEW w \in Worlds, NEW n \in Notice, NEW kind,
           NEW u \in handle_not_created_order(w, n, kind)
    PROVE  After(w, u)
<1>1. PICK told : told = Insert(w, Told(n, "action_to_confirm"))
  OBVIOUS
<1>2. Near(w, told) /\ told \in Worlds
  BY <1>1, ToldTyped, Kinds, InsertNear DEF Near, Grown
<1>3. u \in { w, told } \/ u \in create_order(w) \/ u \in create_order(told)
  BY <1>1, Zenon DEF handle_not_created_order
<1> QED
  BY <1>2, <1>3, CreateAfter, NearItself, NearIsAfter, NearAfter

LEMMA AuthorizationLeads ==
    ASSUME NEW w \in Worlds, NEW n \in Notice, NEW u \in handle_authorization(w, n)
    PROVE  /\ HasOrder(w) => Near(w, u)
           /\ After(w, u)
<1>1. CASE HasOrder(w)
  <2>1. Near(w, Book(w, Told(n, AuthorizedKind)))
    BY ToldTyped, Kinds, BookNear
  <2>2. u \in { w, Book(w, Told(n, AuthorizedKind)) }
    BY <1>1 DEF handle_authorization
  <2> QED
    BY <2>1, <2>2, NearItself, NearIsAfter
<1>2. CASE ~HasOrder(w)
  <2>1. u \in handle_not_created_order(w, n, AuthorizedKind)
    BY <1>2 DEF handle_authorization
  <2> QED
    BY <1>2, <2>1, NotCreatedAfter
<1> QED
  BY <1>1, <1>2

LEMMA CaptureLeads ==
    ASSUME NEW w \in Worlds, NEW n \in Notice, NEW u \in handle_capture(w, n)
    PROVE  /\ HasOrder(w) => Near(w, u)
           /\ After(w, u)
<1>1. CASE HasOrder(w)
  <2>1. Told(n, "capture") \in TransactionRow
    BY ToldTyped, Kinds
  <2>2. u \in { Insert(w, Told(n, "capture")), Book(w, Told(n, "capture")) }
    BY <1>1 DEF handle_capture
  <2> QED
    BY <2>1, <2>2, BookNear, InsertNear, NearIsAfter
<1>2. CASE ~HasOrder(w)
  <2>1. u \in handle_not_created_order(w, n, "capture")
    BY <1>2 DEF handle_capture
  <2> QED
    BY <1>2, <2>1, NotCreatedAfter
<1> QED
  BY <1>1, <1>2

LEMMA OnceNear ==
    ASSUME NEW w \in Worlds, NEW n \in Notice, NEW kind \in TransactionKind, NEW u \in Once(w, n, kind)
    PROVE  Near(w, u)
BY ToldTyped, BookNear, NearItself DEF Once

LEMMA CancellationNear ==
    ASSUME NEW w \in Worlds, NEW n \in Notice, NEW u \in handle_cancellation(w, n)
    PROVE  Near(w, u)
<1>1. CASE Known(w, n, "cancel")
  BY <1>1, NearItself DEF handle_cancellation
<1>2. CASE ~Known(w, n, "cancel")
  <2>1. PICK v, b, d : /\ v = Book(w, Told(n, "cancel"))
                       /\ b = (v.db.canceled \/ (HasOrder(w) /\ n.success))
                       /\ d = [ v.db EXCEPT !.payment = v.db.payment,
                                            !.transactions = v.db.transactions, !.canceled = b ]
    OBVIOUS
  <2>2. Near(w, v) /\ v \in Worlds
    BY <2>1, ToldTyped, Kinds, BookNear DEF Near, Grown
  <2>3. b \in BOOLEAN
    BY <2>1, <2>2, WorldTyped DEF HasOrder
  <2>4. Near(v, [ v EXCEPT !.db = d ])
    <3>1. Says(v.db.transactions, v.db.transactions)
      BY DEF Says
    <3> QED
      BY <2>1, <2>2, <2>3, <3>1, WorldTyped, RowsChange
  <2>5. u = [ v EXCEPT !.db.canceled = b ]
    BY <1>2, <2>1 DEF handle_cancellation
  <2>6. u = [ v EXCEPT !.db = d ]
    BY <2>1, <2>2, <2>5, WorldTyped DEF Rows
  <2> QED
    BY <2>2, <2>4, <2>6, NearNear
<1> QED
  BY <1>1, <1>2

LEMMA KindsOf ==
    ASSUME NEW w \in Worlds, NEW S \in SUBSET DOMAIN w.db.transactions, S # {}
    PROVE  Max(S) \in S /\ w.db.transactions[Max(S)].kind \in TransactionKind
<1>1. S \in SUBSET (1 .. Len(w.db.transactions)) /\ Len(w.db.transactions) \in Nat
  BY WorldTyped
<1>2. Max(S) \in S
  BY <1>1, MaxIn
<1> QED
  BY <1>2, TransactionAt

LEMMA FailedRefundNear ==
    ASSUME NEW w \in Worlds, NEW n \in Notice, NEW u \in handle_failed_refund(w, n)
    PROVE  Near(w, u)
<1> DEFINE charges == Done(w, { "auth", "capture" })
           asked   == WithToken(w, { "refund_ongoing", "refund", "refund_failed" }, n.token)
           kind    == w.db.transactions[Max(asked)].kind
           last    == IF charges = {} THEN "capture" ELSE w.db.transactions[Max(charges)].kind
           failed  == Insert(w, Told(n, "refund_failed"))
<1>1. handle_failed_refund(w, n) =
        CASE asked = {} -> { w }
          [] asked # {} /\ kind = "refund_failed"  -> { w }
          [] asked # {} /\ kind = "refund_ongoing" ->
                { Book(failed, [ Told(n, last) EXCEPT !.amount = 0 ]) }
          [] asked # {} /\ kind = "refund" -> { Book(failed, Told(n, "capture")) }
  BY DEF handle_failed_refund
<1>2. charges \in SUBSET DOMAIN w.db.transactions
  BY DEF Done
<1>3. asked \in SUBSET DOMAIN w.db.transactions
  BY DEF WithToken
<1>4. \A i \in asked : w.db.transactions[i].kind \in { "refund_ongoing", "refund", "refund_failed" }
  BY DEF WithToken
<1> HIDE DEF charges, asked
<1>5. last \in TransactionKind
  <2>1. CASE charges = {}
    BY <2>1, Kinds
  <2>2. CASE charges # {}
    BY <1>2, <2>2, KindsOf
  <2> QED
    BY <2>1, <2>2
<1>6. asked # {} => kind \in { "refund_ongoing", "refund", "refund_failed" }
  BY <1>3, <1>4, KindsOf
<1> HIDE DEF last, kind
<1>7. Near(w, failed) /\ failed \in Worlds
  BY ToldTyped, Kinds, InsertNear DEF Near, Grown
<1> HIDE DEF failed
<1>8. /\ Near(failed, Book(failed, [ Told(n, last) EXCEPT !.amount = 0 ]))
      /\ Near(failed, Book(failed, Told(n, "capture")))
  BY <1>5, <1>7, ToldTyped, Kinds, BookNear
<1>9. u \in { w, Book(failed, [ Told(n, last) EXCEPT !.amount = 0 ]), Book(failed, Told(n, "capture")) }
  <2>1. CASE asked = {}
    BY <1>1, <2>1
  <2>2. CASE asked # {}
    BY <1>1, <1>6, <2>2
  <2> QED
    BY <2>1, <2>2
<1> QED
  BY <1>7, <1>8, <1>9, NearItself, NearNear

LEMMA ReversedRefundNear ==
    ASSUME NEW w \in Worlds, NEW n \in Notice, NEW u \in handle_reversed_refund(w, n)
    PROVE  Near(w, u)
BY ToldTyped, Kinds, BookNear, NearItself DEF handle_reversed_refund

LEMMA HandleLeads ==
    ASSUME NEW w \in Worlds, NEW n \in Notice, NEW u \in Handle(w, n)
    PROVE  /\ HasOrder(w) \/ n.event \notin { "AUTHORISATION", "CAPTURE" } => Near(w, u)
           /\ After(w, u)
<1>1. n.event \in Event
  BY DEF Notice
<1>2. CASE n.event = "AUTHORISATION"
  <2>1. u \in handle_authorization(w, n)
    BY <1>2 DEF Handle
  <2> QED
    BY <1>2, <2>1, AuthorizationLeads
<1>3. CASE n.event = "CAPTURE"
  <2>1. u \in handle_capture(w, n)
    BY <1>3 DEF Handle
  <2> QED
    BY <1>3, <2>1, CaptureLeads
<1>4. CASE n.event \in { "CAPTURE_FAILED", "PENDING", "REFUND" }
  <2>1. PICK kind \in { "capture_failed", "pending", "refund" } : u \in Once(w, n, kind)
    BY <1>4 DEF Handle, handle_refund
  <2>2. kind \in TransactionKind
    BY Kinds
  <2> QED
    BY <2>1, <2>2, OnceNear, NearIsAfter
<1>5. CASE n.event = "CANCELLATION"
  <2>1. u \in handle_cancellation(w, n)
    BY <1>5 DEF Handle
  <2> QED
    BY <2>1, CancellationNear, NearIsAfter
<1>6. CASE n.event = "REFUND_FAILED"
  <2>1. u \in handle_failed_refund(w, n)
    BY <1>6 DEF Handle
  <2> QED
    BY <2>1, FailedRefundNear, NearIsAfter
<1>7. CASE n.event = "REFUNDED_REVERSED"
  <2>1. u \in handle_reversed_refund(w, n)
    BY <1>7 DEF Handle
  <2> QED
    BY <2>1, ReversedRefundNear, NearIsAfter
<1> QED
  BY <1>1, <1>2, <1>3, <1>4, <1>5, <1>6, <1>7 DEF Event

-----------------------------------------------------------------------------
(* The invariant from one state to the next                                *)

LEMMA IdleTyped == Idle \in Calls /\ Idle.task = "idle"
<1>1. NewPayment(Total) \in PaymentRow
  BY DEF NewPayment, PaymentRow, ChargeStatus, Gateway
<1> QED
  BY <1>1 DEF Idle, Calls

LEMMA EndsTyped ==
    ASSUME call \in [ Workers -> Calls ], NEW c \in Workers, Ends(c)
    PROVE  /\ call' \in [ Workers -> Calls ]
           /\ call'[c].task = "idle"
           /\ \A d \in Workers : d # c => call'[d] = call[d]
BY IdleTyped DEF Ends

\* The locks are held, or have been given back.
CallsEnd ==
    \A c \in Workers : call'[c] = call[c] \/ call'[c].task \in { "idle", "return" }

HistoryTypedNext ==
    /\ config' \in Configs
    /\ handled' \subseteq DOMAIN notices
    /\ completions' \in Nat /\ redeliveries' \in Nat
    /\ overtaken' \in BOOLEAN

LEMMA DomainsGrow ==
    ASSUME World \in Worlds, NEW v, Grown(World, v), Becomes(v)
    PROVE  /\ World' \in Worlds
           /\ DOMAIN notices \subseteq DOMAIN notices'
           /\ DOMAIN references \subseteq DOMAIN references'
<1>1. v \in Worlds /\ Len(references) <= Len(v.refs) /\ Len(notices) <= Len(v.notices)
  BY DEF Grown, World
<1>2. db' = v.db /\ references' = v.refs /\ notices' = v.notices
  BY DEF Becomes
<1>3. World' = v
  BY <1>1, <1>2 DEF World, Worlds
<1>4. /\ DOMAIN references = 1 .. Len(references) /\ DOMAIN notices = 1 .. Len(notices)
      /\ Len(references) \in Nat /\ Len(notices) \in Nat
  BY WorldTyped DEF World
<1>5. /\ DOMAIN references' = 1 .. Len(v.refs) /\ DOMAIN notices' = 1 .. Len(v.notices)
      /\ Len(v.refs) \in Nat /\ Len(v.notices) \in Nat
  BY <1>1, <1>2, WorldTyped
<1> QED
  BY <1>1, <1>3, <1>4, <1>5

LEMMA OrdersTyped ==
    ASSUME Inv
    PROVE  /\ db.orders \in Nat /\ db.checkout \in BOOLEAN
           /\ db.payment \in PaymentRow
           /\ World.db = db /\ World.refs = references /\ World.notices = notices
           /\ db.checkout => db.orders = 0
           /\ ~db.checkout => HasOrder(World)
<1>1. World \in Worlds /\ World.db = db /\ World.refs = references /\ World.notices = notices
  BY DEF Inv, World
<1>2. db.orders \in Nat /\ db.checkout \in BOOLEAN /\ db.payment \in PaymentRow
  BY <1>1, WorldTyped
<1>3. db.checkout = (db.orders = 0)
  BY DEF Inv, OpenOrOrdered
<1>4. db.checkout => db.orders = 0
  BY <1>3
<1>5. ~db.checkout => db.orders # 0
  BY <1>2, <1>3
<1>6. ~db.checkout => HasOrder(World)
  BY <1>1, <1>2, <1>5 DEF HasOrder
<1> QED
  BY <1>1, <1>2, <1>4, <1>6

\* A step that leaves the checkout and its order alone.
LEMMA KeptInv ==
    ASSUME Inv, NEW v, Grown(World, v), Becomes(v),
           db'.orders = db.orders, db'.checkout = db.checkout,
           call' \in [ Workers -> Calls ], CallsEnd, HistoryTypedNext,
           unanswered' \subseteq DOMAIN references', CapturesAnswered'
    PROVE  Inv'
<1>1. World \in Worlds
  BY DEF Inv
<1>2. /\ World' \in Worlds /\ DOMAIN notices \subseteq DOMAIN notices'
  BY <1>1, DomainsGrow
<1>3. HistoryTyped'
  BY <1>2 DEF HistoryTypedNext, HistoryTyped
<1>4. OpenOrOrdered'
  BY DEF Inv, OpenOrOrdered
<1>5. OneCompletes'
  BY DEF Inv, OneCompletes, CallsEnd
<1>6. HandlesSent'
  BY <1>2 DEF Inv, HandlesSent, CallsEnd
<1> QED
  BY <1>2, <1>3, <1>4, <1>5, <1>6 DEF Inv

LEMMA CapturesAnsweredNext ==
    ASSUME Inv, NEW v, Grown(World, v), CapturesBooked(World, v), Becomes(v), unanswered' = unanswered
    PROVE  CapturesAnswered'
<1>1. v \in Worlds /\ db' = v.db /\ references' = v.refs /\ notices' = v.notices
  BY DEF Grown, Becomes
<1>2. World' = v
  BY <1>1 DEF World, Worlds
<1>3. \A t \in DOMAIN v.refs : v.refs[t].op = "capture" =>
        IF t \in DOMAIN references THEN references[t].op = "capture" ELSE Captured(v)
  BY OrdersTyped DEF CapturesBooked
<1>4. \A t \in DOMAIN references : references[t].op = "capture" => t \in unanswered \/ Captured(v)
  BY DEF Inv, CapturesAnswered, CapturesBooked, Captured
<1>5. \A t \in DOMAIN references' : references'[t].op = "capture" =>
        t \in unanswered' \/ Captured(v)
  BY <1>1, <1>3, <1>4
<1>6. Captured(v) = (Done(World', { "capture" }) # {})
  BY <1>2 DEF Captured
<1> QED
  BY <1>5, <1>6 DEF CapturesAnswered

\* A step that gives Adyen work, or books what it says.
LEMMA NearInv ==
    ASSUME Inv, NEW v, Near(World, v), Becomes(v),
           call' \in [ Workers -> Calls ], CallsEnd, HistoryTypedNext,
           unanswered' = unanswered, unanswered' \subseteq DOMAIN references'
    PROVE  Inv'
<1>1. Grown(World, v) /\ CapturesBooked(World, v)
  BY DEF Near
<1>2. db'.orders = db.orders /\ db'.checkout = db.checkout
  BY OrdersTyped DEF Near, Becomes
<1>3. CapturesAnswered'
  BY <1>1, CapturesAnsweredNext
<1> QED
  BY <1>1, <1>2, <1>3, KeptInv

\* A step that may place the order.
LEMMA AfterInv ==
    ASSUME Inv, NEW v, After(World, v), Becomes(v), db.checkout,
           call' \in [ Workers -> Calls ], CallsEnd, HistoryTypedNext,
           \A c \in Workers : call'[c].task # "complete",
           unanswered' = unanswered, unanswered' \subseteq DOMAIN references'
    PROVE  Inv'
<1>1. World \in Worlds /\ Grown(World, v) /\ CapturesBooked(World, v)
  BY DEF Inv, After
<1>2. /\ World' \in Worlds /\ DOMAIN notices \subseteq DOMAIN notices'
  BY <1>1, DomainsGrow
<1>3. HistoryTyped'
  BY <1>2 DEF HistoryTypedNext, HistoryTyped
<1>4. \/ db'.orders = db.orders /\ db'.checkout = db.checkout
      \/ db'.orders = 1 /\ db'.checkout = FALSE
  <2>1. db' = v.db /\ World.db = db /\ db.orders = 0
    BY OrdersTyped DEF Becomes
  <2>2. \/ v.db.orders = World.db.orders /\ v.db.checkout = World.db.checkout
        \/ v.db.orders = World.db.orders + 1 /\ v.db.checkout = FALSE
    BY DEF After
  <2>3. v.db.orders = db.orders /\ v.db.checkout = db.checkout => db'.orders = db.orders /\ db'.checkout = db.checkout
    BY <2>1, Zenon
  <2>4. db'.orders = v.db.orders /\ db'.checkout = v.db.checkout /\ World.db.orders = 0
    BY <2>1, Zenon
  <2>5. World.db.orders + 1 = 1
    BY <2>4
  <2> QED
    BY <2>1, <2>2, <2>3, <2>4, <2>5, Zenon
<1>5. OpenOrOrdered'
  <2>1. CASE db'.orders = db.orders /\ db'.checkout = db.checkout
    BY <2>1 DEF Inv, OpenOrOrdered
  <2>2. CASE db'.orders = 1 /\ db'.checkout = FALSE
    <3>1. FALSE = (1 = 0) /\ 1 <= 1
      OBVIOUS
    <3> QED
      BY <2>2, <3>1 DEF OpenOrOrdered
  <2> QED
    BY <1>4, <2>1, <2>2
<1>6. OneCompletes'
  BY DEF OneCompletes
<1>7. HandlesSent'
  BY <1>2 DEF Inv, HandlesSent, CallsEnd
<1>8. CapturesAnswered'
  BY <1>1, CapturesAnsweredNext
<1> QED
  BY <1>2, <1>3, <1>5, <1>6, <1>7, <1>8 DEF Inv

\* A step of Adyen's alone.
LEMMA OutsideInv ==
    ASSUME Inv, NEW rs \in Seq(Reference), NEW ns \in Seq(Notice),
           Len(references) <= Len(rs), Len(notices) <= Len(ns),
           db' = db, references' = rs, notices' = ns,
           call' \in [ Workers -> Calls ], CallsEnd, HistoryTypedNext,
           unanswered' \subseteq DOMAIN references', unanswered \subseteq unanswered',
           \A t \in DOMAIN rs : rs[t].op = "capture" =>
             t \in unanswered' \/ (t \in DOMAIN references /\ references[t].op = "capture")
    PROVE  Inv'
<1>1. PICK w, v : w = World /\ v = [ w EXCEPT !.refs = rs, !.notices = ns ]
  OBVIOUS
<1>2. w \in Worlds /\ w.db = db /\ w.refs = references /\ w.notices = notices
  BY <1>1, OrdersTyped DEF Inv
<1>3. v \in Worlds /\ v.db = db /\ v.refs = rs /\ v.notices = ns
  BY <1>1, <1>2 DEF Worlds
<1>4. Grown(World, v) /\ Becomes(v)
  BY <1>1, <1>2, <1>3 DEF Grown, Becomes
<1>5. CapturesAnswered'
  <2>1. Done(World', { "capture" }) = Done(World, { "capture" })
    BY DEF Done, World
  <2> QED
    BY <2>1 DEF Inv, CapturesAnswered
<1> QED
  BY <1>4, <1>5, KeptInv

-----------------------------------------------------------------------------
(* The actions                                                             *)

LEMMA HistoryStays == ASSUME Inv, UNCHANGED History
PROVE HistoryTypedNext /\ unanswered' = unanswered /\ unanswered \subseteq DOMAIN references
BY DEF Inv, HistoryTyped, HistoryTypedNext, History

LEMMA AcceptTyped ==
    ASSUME Inv, NEW i \in DOMAIN notices, Accept(i)
    PROVE  HistoryTypedNext /\ unanswered' = unanswered /\ unanswered \subseteq DOMAIN references
BY DEF Inv, HistoryTyped, HistoryTypedNext, Accept

\* What Adyen has been asked is not forgotten.
LEMMA UnansweredStays ==
    ASSUME Inv, NEW v, Grown(World, v), Becomes(v), unanswered' = unanswered
    PROVE  unanswered' \subseteq DOMAIN references'
<1>1. DOMAIN references \subseteq DOMAIN references'
  BY DomainsGrow DEF Inv
<1> QED
  BY <1>1 DEF Inv, HistoryTyped

LEMMA CompleteLocksCheckoutInv ==
    ASSUME Inv, NEW c \in Workers, CompleteLocksCheckout(c)
    PROVE  Inv'
<1>1. /\ CheckoutIsFree /\ db.checkout /\ completions' = completions + 1
      /\ call' = [ call EXCEPT ![c] = [ Idle EXCEPT !.task = "complete", !.seen = db.payment ] ]
  BY DEF CompleteLocksCheckout
<1>2. UNCHANGED << config, db, references, notices, handled, redeliveries, overtaken, unanswered >>
  BY DEF CompleteLocksCheckout
<1>3. [ Idle EXCEPT !.task = "complete", !.seen = db.payment ] \in Calls
  BY IdleTyped, OrdersTyped DEF Calls
<1>4. call' \in [ Workers -> Calls ]
  BY <1>1, <1>3 DEF Inv
<1>5. \A d \in Workers : d # c => call'[d] = call[d]
  BY <1>1 DEF Inv
<1>6. call'[c].task = "complete"
  BY <1>1, IdleTyped DEF Inv, Calls
<1>7. \A d \in Workers : call[d].task # "complete"
  BY <1>1 DEF CheckoutIsFree, Holding
<1>8. World' \in Worlds /\ HistoryTyped' /\ OpenOrOrdered' /\ CapturesAnswered'
  BY <1>1, <1>2 DEF Inv, World, HistoryTyped, OpenOrOrdered, CapturesAnswered, Done
<1>9. OneCompletes'
  BY <1>1, <1>2, <1>5, <1>6, <1>7 DEF OneCompletes
<1>10. HandlesSent'
  BY <1>2, <1>5, <1>6 DEF Inv, HandlesSent
<1> QED
  BY <1>4, <1>8, <1>9, <1>10 DEF Inv

LEMMA CompletePaysInv ==
    ASSUME Inv, NEW c \in Workers, CompletePays(c)
    PROVE  Inv'
<1>1. PICK w \in complete_checkout(World, call[c].seen, TRUE) : Becomes(w)
  BY DEF CompletePays
<1>2. call[c].task = "complete" /\ Ends(c) /\ UNCHANGED History
  BY DEF CompletePays
<1>3. After(World, w)
  BY <1>1, CompleteAfter DEF Inv
<1>4. call' \in [ Workers -> Calls ] /\ CallsEnd
  BY <1>2, EndsTyped DEF Inv, CallsEnd
<1>5. db.checkout /\ \A d \in Workers : call'[d].task # "complete"
  BY <1>2, EndsTyped DEF Inv, OneCompletes
<1>6. HistoryTypedNext /\ unanswered' = unanswered /\ unanswered' \subseteq DOMAIN references'
  BY <1>1, <1>2, <1>3, HistoryStays, UnansweredStays DEF After
<1> QED
  BY <1>1, <1>3, <1>4, <1>5, <1>6, AfterInv

LEMMA StaffCallsNear ==
    ASSUME NEW w \in Worlds, NEW amount \in 1 .. Total, NEW v \in StaffCalls(w, amount)
    PROVE  Near(w, v)
<1>1. amount \in Nat
  OBVIOUS
<1>2. v \in capture(w, amount) \/ v \in refund(w, amount) \/ v \in void(w)
  BY DEF StaffCalls
<1> QED
  BY <1>1, <1>2, CaptureNear, RefundNear, VoidNear

LEMMA StaffInv ==
    ASSUME Inv, NEW c \in Workers, Staff(c)
    PROVE  Inv'
<1>1. PICK amount \in 1 .. Total : \E w \in StaffCalls(World, amount) : Becomes(w)
  BY DEF Staff
<1>2. PICK w \in StaffCalls(World, amount) : Becomes(w)
  BY <1>1
<1>3. UNCHANGED << call, History >>
  BY DEF Staff
<1>4. Near(World, w)
  BY <1>2, StaffCallsNear DEF Inv
<1>5. call' \in [ Workers -> Calls ] /\ CallsEnd
  BY <1>3 DEF Inv, CallsEnd
<1>6. HistoryTypedNext /\ unanswered' = unanswered /\ unanswered' \subseteq DOMAIN references'
  BY <1>2, <1>3, <1>4, HistoryStays, UnansweredStays DEF Near
<1> QED
  BY <1>2, <1>4, <1>5, <1>6, NearInv

LEMMA CrashInv ==
    ASSUME Inv, NEW c \in Workers, Crash(c)
    PROVE  Inv'
<1>1. PICK S, w :
        /\ S = CASE call[c].task = "complete" -> complete_checkout(World, call[c].seen, TRUE)
                 [] call[c].task = "idle" /\ db.orders > 0 /\ db.payment.is_active /\ MayCall ->
                       UNION { StaffCalls(World, amount) : amount \in 1 .. Total }
                 [] OTHER -> {}
        /\ w \in S
        /\ Len(w.refs) > Len(references)
        /\ references' = w.refs /\ notices' = w.notices
        /\ unanswered' = unanswered \cup (Len(references) + 1 .. Len(w.refs))
  BY DEF Crash
<1>2. Ends(c) /\ UNCHANGED << config, db, handled, completions, redeliveries, overtaken >>
  BY DEF Crash
<1>3. \/ w \in complete_checkout(World, call[c].seen, TRUE)
      \/ \E amount \in 1 .. Total : w \in StaffCalls(World, amount)
  <2>1. CASE call[c].task = "complete"
    BY <1>1, <2>1
  <2>2. CASE call[c].task = "idle" /\ db.orders > 0 /\ db.payment.is_active /\ MayCall
    <3>1. w \in UNION { StaffCalls(World, amount) : amount \in 1 .. Total }
      BY <1>1, <2>2
    <3> QED
      BY <3>1
  <2>3. CASE /\ call[c].task # "complete"
             /\ ~(call[c].task = "idle" /\ db.orders > 0 /\ db.payment.is_active /\ MayCall)
    BY <1>1, <2>3
  <2> QED
    BY <2>1, <2>2, <2>3
<1>4. Grown(World, w)
  BY <1>3, CompleteAfter, StaffCallsNear DEF Inv, After, Near
<1>5. /\ w.refs \in Seq(Reference) /\ w.notices \in Seq(Notice)
      /\ Len(references) <= Len(w.refs) /\ Len(notices) <= Len(w.notices)
      /\ Len(references) \in Nat /\ Len(w.refs) \in Nat
      /\ DOMAIN references = 1 .. Len(references) /\ DOMAIN w.refs = 1 .. Len(w.refs)
  BY <1>4, OrdersTyped, WorldTyped DEF Grown, Inv
<1>6. unanswered \subseteq 1 .. Len(references)
  BY <1>5 DEF Inv, HistoryTyped
<1>7. unanswered' \subseteq 1 .. Len(w.refs)
  BY <1>1, <1>5, <1>6
<1>8. unanswered' \subseteq DOMAIN references'
  BY <1>1, <1>5, <1>7
<1>9. call' \in [ Workers -> Calls ] /\ CallsEnd
  BY <1>2, EndsTyped DEF Inv, CallsEnd
<1>10. HistoryTypedNext
  BY <1>2 DEF Inv, HistoryTyped, HistoryTypedNext
<1>11. references' = w.refs /\ notices' = w.notices /\ db' = db
  BY <1>1, <1>2
<1>12. CapturesBooked(World, w)
  BY <1>3, CompleteAfter, StaffCallsNear DEF Inv, After, Near
<1>13. unanswered \subseteq unanswered'
  BY <1>1
<1>14. ASSUME NEW t \in DOMAIN w.refs, w.refs[t].op = "capture"
       PROVE  t \in unanswered' \/ (t \in DOMAIN references /\ references[t].op = "capture")
  <2>1. CASE t \in DOMAIN references
    BY <1>12, <1>14, <2>1, OrdersTyped DEF CapturesBooked
  <2>2. CASE t \notin DOMAIN references
    BY <1>1, <1>5, <1>14, <2>2
  <2> QED
    BY <2>1, <2>2
<1> QED
  BY <1>5, <1>8, <1>9, <1>10, <1>11, <1>13, <1>14, OutsideInv

LEMMA WebhookLocksPaymentInv ==
    ASSUME Inv, NEW c \in Workers, NEW i \in DOMAIN notices, WebhookLocksPayment(c, i)
    PROVE  Inv'
<1>1. /\ call' = [ call EXCEPT ![c] = [ Idle EXCEPT !.task = "webhook", !.notice = i ] ]
      /\ redeliveries' = redeliveries + (IF i \in handled THEN 1 ELSE 0)
  BY DEF WebhookLocksPayment
<1>2. UNCHANGED << config, db, references, notices, handled, completions, overtaken, unanswered >>
  BY DEF WebhookLocksPayment
<1>3. i \in Nat
  BY OrdersTyped, WorldTyped DEF Inv
<1>4. [ Idle EXCEPT !.task = "webhook", !.notice = i ] \in Calls
  BY <1>3, IdleTyped DEF Calls
<1>5. call' \in [ Workers -> Calls ]
  BY <1>1, <1>4 DEF Inv
<1>6. call'[c].task = "webhook" /\ call'[c].notice = i
  BY <1>1, IdleTyped DEF Inv, Calls
<1>7. \A d \in Workers : d # c => call'[d] = call[d]
  BY <1>1 DEF Inv
<1>8. World' \in Worlds /\ OpenOrOrdered' /\ CapturesAnswered'
  BY <1>2 DEF Inv, World, OpenOrOrdered, CapturesAnswered, Done
<1>9. HistoryTyped'
  BY <1>1, <1>2 DEF Inv, HistoryTyped
<1>10. OneCompletes'
  BY <1>2, <1>6, <1>7 DEF Inv, OneCompletes
<1>11. HandlesSent'
  BY <1>2, <1>6, <1>7 DEF Inv, HandlesSent
<1> QED
  BY <1>5, <1>8, <1>9, <1>10, <1>11 DEF Inv

\* The two that lock the payment first.
LEMMA FreeNobodyCompletes ==
    ASSUME Inv, NEW c \in Workers, Ends(c), CheckoutIsFree
    PROVE  /\ call' \in [ Workers -> Calls ] /\ CallsEnd
           /\ \A d \in Workers : call'[d].task # "complete"
<1>1. \A d \in Workers : call[d].task # "complete"
  BY DEF CheckoutIsFree, Holding
<1> QED
  BY <1>1, EndsTyped DEF Inv, CallsEnd

LEMMA WebhookFinishesInv ==
    ASSUME Inv, NEW c \in Workers, WebhookFinishes(c)
    PROVE  Inv'
<1>1. /\ call[c].task = "webhook" /\ CheckoutIsFree /\ Ends(c) /\ Accept(call[c].notice)
  BY DEF WebhookFinishes
<1>2. PICK w \in Handle(World, notices[call[c].notice]) : Becomes(w)
  BY DEF WebhookFinishes
<1>3. call[c].notice \in DOMAIN notices
  BY <1>1 DEF Inv, HandlesSent
<1>4. notices[call[c].notice] \in Notice
  BY <1>3, OrdersTyped, WorldTyped, ElementOfSeq DEF Inv
<1>5. After(World, w) /\ (HasOrder(World) => Near(World, w))
  BY <1>2, <1>4, HandleLeads DEF Inv
<1>6. /\ call' \in [ Workers -> Calls ] /\ CallsEnd
      /\ \A d \in Workers : call'[d].task # "complete"
  BY <1>1, FreeNobodyCompletes
<1>7. HistoryTypedNext /\ unanswered' = unanswered
  BY <1>1, <1>3, AcceptTyped
<1>8. unanswered' \subseteq DOMAIN references'
  BY <1>2, <1>5, <1>7, UnansweredStays DEF After
<1>9. CASE db.checkout
  BY <1>2, <1>5, <1>6, <1>7, <1>8, <1>9, AfterInv
<1>10. CASE ~db.checkout
  <2>1. Near(World, w)
    BY <1>5, <1>10, OrdersTyped
  <2> QED
    BY <1>2, <1>6, <1>7, <1>8, <2>1, NearInv
<1> QED
  BY <1>9, <1>10

\* Without the lock of the checkout there is nothing to complete.
LEMMA WebhookInv ==
    ASSUME Inv, NEW c \in Workers, NEW i \in DOMAIN notices, Webhook(c, i)
    PROVE  Inv'
<1>1. /\ Finds(World, notices[i]) => ~NeedsCheckout(notices[i])
      /\ handled' = handled \cup { i }
      /\ overtaken' = (overtaken \/ (i \notin handled /\ \E j \in handled : j > i))
      /\ redeliveries' = redeliveries + (IF i \in handled THEN 1 ELSE 0)
      /\ UNCHANGED << config, call, completions, unanswered >>
  BY DEF Webhook
<1>2. PICK w \in (IF Finds(World, notices[i]) THEN Handle(World, notices[i]) ELSE { World }) :
        Becomes(w)
  BY DEF Webhook
<1>3. notices[i] \in Notice
  BY OrdersTyped, WorldTyped, ElementOfSeq DEF Inv
<1>4. Near(World, w)
  <2>1. CASE ~Finds(World, notices[i])
    BY <1>2, <2>1, NearItself DEF Inv
  <2>2. CASE Finds(World, notices[i])
    <3>1. HasOrder(World) \/ notices[i].event \notin { "AUTHORISATION", "CAPTURE" }
      BY <1>1, <2>2, OrdersTyped DEF NeedsCheckout
    <3>2. w \in Handle(World, notices[i])
      BY <1>2, <2>2
    <3> QED
      BY <1>3, <3>1, <3>2, HandleLeads DEF Inv
  <2> QED
    BY <2>1, <2>2
<1>5. HistoryTypedNext
  <2>1. overtaken' \in BOOLEAN
    BY <1>1 DEF Inv, HistoryTyped
  <2> QED
    BY <1>1, <2>1 DEF Inv, HistoryTyped, HistoryTypedNext
<1>6. unanswered' = unanswered /\ unanswered' \subseteq DOMAIN references'
  BY <1>1, <1>2, <1>4, UnansweredStays DEF Near
<1>7. call' \in [ Workers -> Calls ] /\ CallsEnd
  BY <1>1 DEF Inv, CallsEnd
<1> QED
  BY <1>2, <1>4, <1>5, <1>6, <1>7, NearInv

LEMMA ReturnLocksPaymentInv ==
    ASSUME Inv, NEW c \in Workers, ReturnLocksPayment(c)
    PROVE  Inv'
<1>1. AwaitingCustomer(World) # {} /\ UNCHANGED << db, History >>
  BY DEF ReturnLocksPayment
<1>2. PICK state \in { "done", "refused" } :
        LET token == Max(AwaitingCustomer(World))
            w     == Decided(World, token, state)
        IN  /\ references' = w.refs
            /\ notices' = w.notices
            /\ call' = [ call EXCEPT ![c] = [ Idle EXCEPT !.task = "return", !.notice = token ] ]
  BY DEF ReturnLocksPayment
<1>3. PICK token : token = Max(AwaitingCustomer(World))
  OBVIOUS
<1>4. PICK w : w = Decided(World, token, state)
  OBVIOUS
<1>5. /\ references' = w.refs /\ notices' = w.notices
      /\ call' = [ call EXCEPT ![c] = [ Idle EXCEPT !.task = "return", !.notice = token ] ]
  BY <1>2, <1>3, <1>4
<1>6. PICK S : S = AwaitingCustomer(World) /\ S \in SUBSET (1 .. Len(references))
  BY OrdersTyped, WorldTyped DEF AwaitingCustomer, Inv
<1>7. Len(references) \in Nat /\ DOMAIN references = 1 .. Len(references)
  BY OrdersTyped, WorldTyped DEF Inv
<1>8. token \in 1 .. Len(references)
  BY <1>1, <1>3, <1>6, <1>7, MaxIn
<1>9. token \in DOMAIN World.refs /\ token \in Nat
  BY <1>7, <1>8, OrdersTyped
<1>10. Near(World, w)
  BY <1>4, <1>9, DecidedNear DEF Inv
<1>11. Grown(World, w)
  BY <1>10 DEF Near
<1>12. /\ w.refs \in Seq(Reference) /\ w.notices \in Seq(Notice)
      /\ Len(references) <= Len(w.refs) /\ Len(notices) <= Len(w.notices)
      /\ DOMAIN w.refs = 1 .. Len(w.refs) /\ Len(w.refs) \in Nat
  BY <1>11, OrdersTyped, WorldTyped DEF Grown
<1>13. [ Idle EXCEPT !.task = "return", !.notice = token ] \in Calls
  BY <1>9, IdleTyped DEF Calls
<1>14. call' \in [ Workers -> Calls ]
  BY <1>5, <1>13 DEF Inv
<1>15. CallsEnd
  BY <1>5, IdleTyped DEF Inv, CallsEnd, Calls
<1>16. HistoryTypedNext /\ unanswered' = unanswered /\ unanswered \subseteq DOMAIN references
  BY <1>1, HistoryStays
<1>17. unanswered' \subseteq DOMAIN references'
  BY <1>5, <1>7, <1>12, <1>16
<1>18. references' = w.refs /\ notices' = w.notices /\ db' = db
  BY <1>1, <1>5
<1>19. /\ DOMAIN w.refs = DOMAIN references
       /\ \A t \in DOMAIN w.refs : w.refs[t].op = "capture" => references[t].op = "capture"
  BY <1>4, <1>9, <1>10, OrdersTyped, DecidedSame DEF Inv, Near, CapturesBooked
<1> QED
  BY <1>12, <1>14, <1>15, <1>16, <1>17, <1>18, <1>19, OutsideInv

LEMMA ReturnFinishesInv ==
    ASSUME Inv, NEW c \in Workers, ReturnFinishes(c)
    PROVE  Inv'
<1>1. CheckoutIsFree /\ Ends(c) /\ UNCHANGED History
  BY DEF ReturnFinishes
<1>2. PICK ok, t, told, w :
        /\ ok = (references[call[c].notice].state = "done")
        /\ t = Txn("action_to_confirm", call[c].notice, ok, Total)
        /\ told = Insert(World, t)
        /\ w \in (IF ok /\ ~HasOrder(World) THEN create_order(told) ELSE { told })
        /\ Becomes(w)
  BY DEF ReturnFinishes
<1>3. call[c].notice \in Nat /\ ok \in BOOLEAN /\ Total \in Nat
  BY <1>2 DEF Inv, Calls
<1>4. t \in TransactionRow
  BY <1>2, <1>3, Kinds, TxnTyped
<1>5. Near(World, told) /\ told \in Worlds
  BY <1>2, <1>4, InsertNear DEF Inv, Near, Grown
<1>6. After(World, w) /\ (HasOrder(World) => Near(World, w))
  <2>1. CASE HasOrder(World) \/ ~ok
    BY <1>2, <1>5, <2>1, NearIsAfter
  <2>2. CASE ~HasOrder(World) /\ ok
    <3>1. After(told, w)
      BY <1>2, <1>5, <2>2, CreateAfter
    <3> QED
      BY <1>5, <2>2, <3>1, NearAfter DEF Inv
  <2> QED
    BY <2>1, <2>2, <1>3
<1>7. /\ call' \in [ Workers -> Calls ] /\ CallsEnd
      /\ \A d \in Workers : call'[d].task # "complete"
  BY <1>1, FreeNobodyCompletes
<1>8. HistoryTypedNext /\ unanswered' = unanswered
  BY <1>1, HistoryStays
<1>9. unanswered' \subseteq DOMAIN references'
  BY <1>2, <1>6, <1>8, UnansweredStays DEF After
<1>10. CASE db.checkout
  BY <1>2, <1>6, <1>7, <1>8, <1>9, <1>10, AfterInv
<1>11. CASE ~db.checkout
  <2>1. Near(World, w)
    BY <1>6, <1>11, OrdersTyped
  <2> QED
    BY <1>2, <1>7, <1>8, <1>9, <2>1, NearInv
<1> QED
  BY <1>10, <1>11

LEMMA DeadlockDetectedInv ==
    ASSUME Inv, NEW c \in Workers, DeadlockDetected(c)
    PROVE  Inv'
<1>1. Ends(c) /\ UNCHANGED << db, references, notices, History >>
  BY DEF DeadlockDetected
<1>2. Near(World, World)
  BY NearItself DEF Inv
<1>3. Becomes(World)
  BY <1>1, OrdersTyped DEF Becomes
<1>4. call' \in [ Workers -> Calls ] /\ CallsEnd
  BY <1>1, EndsTyped DEF Inv, CallsEnd
<1>5. HistoryTypedNext /\ unanswered' = unanswered /\ unanswered' \subseteq DOMAIN references'
  BY <1>1, HistoryStays
<1> QED
  BY <1>2, <1>3, <1>4, <1>5, NearInv

-----------------------------------------------------------------------------
(* Adyen                                                                   *)

LEMMA SettlesOutside ==
    ASSUME Inv, NEW token \in DOMAIN references, NEW event \in Event, NEW success \in BOOLEAN,
           NEW state \in { "action", "received", "done", "refused", "failed" },
           references' = [ references EXCEPT ![token].state = state ],
           notices' = Append(notices, [ event |-> event, token |-> token,
                                        amount |-> references[token].amount,
                                        success |-> success ]),
           UNCHANGED << db, call, History >>
    PROVE  Inv'
<1>1. /\ references \in Seq(Reference) /\ notices \in Seq(Notice)
      /\ Len(references) \in Nat /\ Len(notices) \in Nat
      /\ DOMAIN references = 1 .. Len(references)
  BY OrdersTyped, WorldTyped DEF Inv
<1>2. PICK q, r, rs, n, ns :
        /\ q = references[token]
        /\ r = [ q EXCEPT !.state = state ]
        /\ rs = [ references EXCEPT ![token] = r ]
        /\ n = [ event |-> event, token |-> token, amount |-> q.amount, success |-> success ]
        /\ ns = Append(notices, n)
  OBVIOUS
<1>3. q \in Reference /\ token \in Nat
  BY <1>1, <1>2, ElementOfSeq
<1>4. r \in Reference /\ q.amount \in Nat
  BY <1>2, <1>3 DEF Reference
<1>5. rs \in Seq(Reference) /\ Len(rs) = Len(references)
  BY <1>1, <1>2, <1>4, ExceptSeq
<1>6. n \in Notice
  BY <1>2, <1>3, <1>4, Zenon DEF Notice
<1>7. ns \in Seq(Notice) /\ Len(ns) = Len(notices) + 1
  BY <1>1, <1>2, <1>6, AppendProperties
<1>8. references' = rs /\ notices' = ns
  BY <1>2
<1>9. Len(references) <= Len(rs) /\ Len(notices) <= Len(ns)
  BY <1>1, <1>5, <1>7
<1>10. HistoryTypedNext /\ unanswered' = unanswered /\ unanswered \subseteq DOMAIN references
  BY HistoryStays
<1>11. unanswered' \subseteq DOMAIN references'
  BY <1>1, <1>5, <1>8, <1>10, LenProperties
<1>12. call' \in [ Workers -> Calls ] /\ CallsEnd
  BY DEF Inv, CallsEnd
<1>13. db' = db
  OBVIOUS
<1>14. \A t \in DOMAIN rs : t \in DOMAIN references /\ rs[t].op = references[t].op
  BY <1>2, <1>3 DEF Reference
<1> QED
  BY <1>5, <1>7, <1>8, <1>9, <1>10, <1>11, <1>12, <1>13, <1>14, OutsideInv

LEMMA AdyenSettlesInv ==
    ASSUME Inv, NEW token \in DOMAIN references, AdyenSettles(token)
    PROVE  Inv'
<1>1. PICK state \in { "done", "refused" } :
        /\ references' = [ references EXCEPT ![token].state = state ]
        /\ notices' = Append(notices,
             [ event |-> EventOf(references[token].op), token |-> token,
               amount |-> references[token].amount, success |-> state = "done" ])
  BY DEF AdyenSettles
<1>2. UNCHANGED << db, call, History >>
  BY DEF AdyenSettles
<1>3. references[token] \in Reference
  BY OrdersTyped, WorldTyped, ElementOfSeq DEF Inv
<1>4. references[token].op \in { "payment", "capture", "refund", "cancel" }
  BY <1>3 DEF Reference
<1>5. PICK event, success : event = EventOf(references[token].op) /\ success = (state = "done")
  OBVIOUS
<1>6. event \in Event /\ success \in BOOLEAN
  BY <1>4, <1>5 DEF EventOf, Event
<1> QED
  BY <1>1, <1>2, <1>5, <1>6, SettlesOutside

LEMMA AdyenFailsInv ==
    ASSUME Inv, NEW token \in DOMAIN references, AdyenFails(token)
    PROVE  Inv'
<1>1. PICK event \in { "REFUND_FAILED", "REFUNDED_REVERSED", "CAPTURE_FAILED" } :
        notices' = Append(notices, [ event |-> event, token |-> token,
                                     amount |-> references[token].amount, success |-> TRUE ])
  BY DEF AdyenFails
<1>2. /\ references' = [ references EXCEPT ![token].state = "failed" ]
      /\ UNCHANGED << db, call, History >>
  BY DEF AdyenFails
<1>3. event \in Event /\ TRUE \in BOOLEAN
  BY <1>1 DEF Event
<1> QED
  BY <1>1, <1>2, <1>3, SettlesOutside

-----------------------------------------------------------------------------
(* The theorems                                                            *)

LEMMA InitInv == Init => Inv
<1> SUFFICES ASSUME Init PROVE Inv
  OBVIOUS
<1>1. db \in Rows
  <2>1. NewPayment(Total) \in PaymentRow
    BY DEF NewPayment, PaymentRow, ChargeStatus, Gateway
  <2>2. << >> \in Seq(TransactionRow)
    OBVIOUS
  <2> QED
    BY <2>1, <2>2 DEF Init, Rows
<1>2. World \in Worlds
  BY <1>1 DEF Init, World, Worlds
<1>3. call \in [ Workers -> Calls ] /\ \A c \in Workers : call[c].task = "idle"
  BY IdleTyped DEF Init
<1>4. HistoryTyped
  BY DEF Init, HistoryTyped
<1>5. OpenOrOrdered
  <2>1. TRUE = (0 = 0) /\ 0 <= 1
    OBVIOUS
  <2> QED
    BY <2>1 DEF Init, OpenOrOrdered
<1>6. OneCompletes /\ HandlesSent /\ CapturesAnswered
  BY <1>3 DEF Init, OneCompletes, HandlesSent, CapturesAnswered
<1> QED
  BY <1>2, <1>3, <1>4, <1>5, <1>6 DEF Inv

LEMMA NextInv == Inv /\ [Next]_vars => Inv'
<1> SUFFICES ASSUME Inv, [Next]_vars PROVE Inv'
  OBVIOUS
<1>1. CASE UNCHANGED vars
  <2>1. UNCHANGED << config, db, references, notices, handled, call, completions, redeliveries,
                     overtaken, unanswered >>
    BY <1>1 DEF vars
  <2> QED
    BY <2>1 DEF Inv, World, HistoryTyped, OpenOrOrdered, OneCompletes, HandlesSent, CapturesAnswered, Done
<1>2. ASSUME NEW c \in Workers, CompleteLocksCheckout(c) PROVE Inv'
  BY <1>2, CompleteLocksCheckoutInv
<1>3. ASSUME NEW c \in Workers, CompletePays(c) PROVE Inv'
  BY <1>3, CompletePaysInv
<1>4. ASSUME NEW c \in Workers, Staff(c) PROVE Inv'
  BY <1>4, StaffInv
<1>5. ASSUME NEW c \in Workers, Crash(c) PROVE Inv'
  BY <1>5, CrashInv
<1>6. ASSUME NEW c \in Workers, NEW i \in DOMAIN notices, WebhookLocksPayment(c, i) PROVE Inv'
  BY <1>6, WebhookLocksPaymentInv
<1>7. ASSUME NEW c \in Workers, NEW i \in DOMAIN notices, Webhook(c, i) PROVE Inv'
  BY <1>7, WebhookInv
<1>8. ASSUME NEW c \in Workers, WebhookFinishes(c) PROVE Inv'
  BY <1>8, WebhookFinishesInv
<1>9. ASSUME NEW c \in Workers, ReturnLocksPayment(c) PROVE Inv'
  BY <1>9, ReturnLocksPaymentInv
<1>10. ASSUME NEW c \in Workers, ReturnFinishes(c) PROVE Inv'
  BY <1>10, ReturnFinishesInv
<1>11. ASSUME NEW c \in Workers, DeadlockDetected(c) PROVE Inv'
  BY <1>11, DeadlockDetectedInv
<1>12. ASSUME NEW token \in DOMAIN references, AdyenSettles(token) PROVE Inv'
  BY <1>12, AdyenSettlesInv
<1>13. ASSUME NEW token \in DOMAIN references, AdyenFails(token) PROVE Inv'
  BY <1>13, AdyenFailsInv
<1> QED
  BY <1>1, <1>2, <1>3, <1>4, <1>5, <1>6, <1>7, <1>8, <1>9, <1>10, <1>11, <1>12, <1>13 DEF Next

LEMMA InvHolds == Spec => []Inv
BY InitInv, NextInv, PTL DEF Spec

\* What is kept of a payment, its transactions, its checkout and its order
\* has its type, whatever webhooks.py and plugin.py are told and in whatever
\* order: a transaction that is booked is of a known kind, even the one a
\* failed refund copies from the last charge (handle_failed_refund).
THEOREM TypesHold == Spec => []TypeOK
<1>1. Inv => TypeOK
  BY OrdersTyped, WorldTyped DEF Inv, HistoryTyped, TypeOK, Calls
<1> QED
  BY <1>1, InvHolds, PTL

\* However many workers there are and however often they try: the checkout
\* becomes one order, whether the client completes it (complete_checkout.py),
\* the customer's return from 3D Secure or a notification (create_order of
\* adyen/webhooks.py).  They take the two locks in opposite orders; what
\* counts is that each holds the checkout's when it places the order.
THEOREM CheckoutBecomesOneOrder == Spec => []OneOrder
<1>1. Inv => OneOrder
  BY DEF Inv, OpenOrOrdered, OneOrder
<1> QED
  BY <1>1, InvHolds, PTL

-----------------------------------------------------------------------------
(* What the transactions ts say of a call t to Adyen, of whose answers the  *)
(* notifications N were accepted.                                          *)

Fails == { "CAPTURE_FAILED", "REFUND_FAILED", "REFUNDED_REVERSED" }

Of(ts, t, kinds) == { i \in DOMAIN ts : ts[i].token = t /\ ts[i].kind \in kinds }

Heard(N, t, events) == \E n \in N : n.token = t /\ n.event \in events /\ n.success

\* What handle_failed_refund looks for, and the last of it.
Asked(ts, t) == Of(ts, t, { "refund_ongoing", "refund", "refund_failed" })

Latest(ts, t, kind) ==
    \E i \in Asked(ts, t) : ts[i].kind = kind /\ \A j \in Asked(ts, t) : j <= i

\* A refund has been booked when its success was told, is booked once, and taken
\* back once.
RefundOK(ts, amount, N, t) ==
    /\ Heard(N, t, { "REFUND" }) = (\E i \in Of(ts, t, { "refund" }) : ts[i].is_success)
    /\ ~Heard(N, t, { "REFUND" }) /\ ~Heard(N, t, Fails) => BookedIn(ts, t) = 0
    /\ Heard(N, t, { "REFUND" }) /\ ~Heard(N, t, Fails) =>
         BookedIn(ts, t) = -amount /\ Latest(ts, t, "refund")
    /\ Heard(N, t, { "REFUND" }) /\ Heard(N, t, Fails) => BookedIn(ts, t) = 0
    /\ ~Heard(N, t, Fails) => Of(ts, t, { "refund_failed", "refund_reversed" }) = {}
    /\ Heard(N, t, { "REFUND_FAILED" }) => Asked(ts, t) = {} \/ Latest(ts, t, "refund_failed")
    /\ Heard(N, t, { "REFUNDED_REVERSED" }) => Of(ts, t, { "refund_reversed" }) # {}

\* The failure of a capture is booked when it was told.
FailureOK(ts, N, t) == Heard(N, t, Fails) = (Of(ts, t, { "capture_failed" }) # {})

\* Of cancellations.
CancelOK(ts, N, t) == Heard(N, t, { "CANCELLATION" }) => Of(ts, t, { "cancel" }) # {}

-----------------------------------------------------------------------------
(* A transaction more.                                                     *)

\* us is ts with one transaction more, y.
Longer(us, ts, y) == ts \in Seq(TransactionRow) /\ y \in TransactionRow /\ us = Append(ts, y)

LEMMA OfAppend ==
    ASSUME NEW ts, NEW y, NEW us, Longer(us, ts, y),
           NEW t, NEW kinds
    PROVE  /\ Of(us, t, kinds) = Of(ts, t, kinds)
                \cup (IF y.token = t /\ y.kind \in kinds THEN { Len(ts) + 1 } ELSE {})
           /\ Of(ts, t, kinds) \subseteq DOMAIN ts
           /\ \A i \in Of(ts, t, kinds) : us[i] = ts[i] /\ i <= Len(ts)
<1>1. /\ Len(ts) \in Nat /\ DOMAIN ts = 1 .. Len(ts) /\ DOMAIN us = DOMAIN ts \cup { Len(ts) + 1 }
      /\ Len(ts) + 1 \notin DOMAIN ts
      /\ us[Len(ts) + 1] = y /\ \A i \in DOMAIN ts : us[i] = ts[i]
  BY Appended DEF Longer
<1> QED
  BY <1>1 DEF Of

\* Only the transactions of its token and kind are more.
LEMMA OfUnchanged ==
    ASSUME NEW ts, NEW y, NEW us, Longer(us, ts, y), NEW t, NEW kinds,
           y.token # t \/ y.kind \notin kinds
    PROVE  Of(us, t, kinds) = Of(ts, t, kinds) /\ \A i \in Of(ts, t, kinds) : us[i] = ts[i]
<1>1. PICK more : more = IF y.token = t /\ y.kind \in kinds THEN { Len(ts) + 1 } ELSE {}
  OBVIOUS
<1>2. more = {}
  BY <1>1
<1>3. Of(us, t, kinds) = Of(ts, t, kinds) \cup more
  BY <1>1, OfAppend
<1>4. \A i \in Of(ts, t, kinds) : us[i] = ts[i]
  BY OfAppend
<1> QED
  BY <1>2, <1>3, <1>4

OneMore(us, ts, y, kinds) ==
    /\ Of(us, y.token, kinds) = Of(ts, y.token, kinds) \cup { Len(ts) + 1 }
    /\ us[Len(ts) + 1] = y /\ \A i \in Of(ts, y.token, kinds) : us[i] = ts[i] /\ i <= Len(ts) + 1

LEMMA OfLonger ==
    ASSUME NEW ts, NEW y, NEW us, Longer(us, ts, y), NEW kinds, y.kind \in kinds
    PROVE  OneMore(us, ts, y, kinds)
<1>1. /\ Len(ts) \in Nat /\ DOMAIN ts = 1 .. Len(ts) /\ DOMAIN us = DOMAIN ts \cup { Len(ts) + 1 }
      /\ Len(ts) + 1 \notin DOMAIN ts
      /\ us[Len(ts) + 1] = y /\ \A i \in DOMAIN ts : us[i] = ts[i]
  BY Appended DEF Longer
<1>2. \A i \in DOMAIN ts : i <= Len(ts) + 1
  BY <1>1
<1> QED
  BY <1>1, <1>2 DEF Of, OneMore

LEMMA LatestIs ==
    ASSUME NEW ts, NEW y, NEW us, Longer(us, ts, y)
    PROVE  /\ y.kind \in { "refund_ongoing", "refund", "refund_failed" } => Latest(us, y.token, y.kind)
           /\ y.kind \notin { "refund_ongoing", "refund", "refund_failed" } =>
                /\ Asked(us, y.token) = Asked(ts, y.token)
                /\ \A kind : Latest(us, y.token, kind) = Latest(ts, y.token, kind)
<1>1. ASSUME y.kind \in { "refund_ongoing", "refund", "refund_failed" }
      PROVE  Latest(us, y.token, y.kind)
  <2>1. PICK k : k = Len(ts) + 1
    OBVIOUS
  <2>2. /\ Asked(us, y.token) = Asked(ts, y.token) \cup { k }
        /\ us[k] = y /\ \A i \in Asked(ts, y.token) : i <= k
    <3>1. PICK kinds : kinds = { "refund_ongoing", "refund", "refund_failed" }
      OBVIOUS
    <3>2. y.kind \in kinds
      BY <1>1, <3>1
    <3>3. OneMore(us, ts, y, kinds)
      BY <3>2, OfLonger
    <3> QED
      BY <2>1, <3>1, <3>3 DEF Asked, OneMore
  <2>3. k <= k
    <3>1. Len(ts) \in Nat
      BY LenProperties DEF Longer
    <3> QED
      BY <2>1, <3>1
  <2> QED
    BY <2>2, <2>3 DEF Latest
<1>2. ASSUME y.kind \notin { "refund_ongoing", "refund", "refund_failed" }
      PROVE  /\ Asked(us, y.token) = Asked(ts, y.token)
             /\ \A kind : Latest(us, y.token, kind) = Latest(ts, y.token, kind)
  <2>1. Asked(us, y.token) = Asked(ts, y.token) /\ \A i \in Asked(ts, y.token) : us[i] = ts[i]
    BY <1>2, OfUnchanged DEF Asked
  <2> QED
    BY <2>1 DEF Latest
<1> QED
  BY <1>1, <1>2

LEMMA AddedInt == ASSUME NEW x \in TransactionRow PROVE Added(x) \in Int
<1>1. x.amount \in Nat
  BY DEF TransactionRow
<1>2. x.amount \in Int /\ -x.amount \in Int
  BY <1>1
<1> QED
  BY <1>2 DEF Added

LEMMA BookedInt ==
    ASSUME NEW ts \in Seq(TransactionRow), NEW t
    PROVE  BookedIn(ts, t) \in Int
<1>1. PICK of, f : of = { i \in DOMAIN ts : ts[i].token = t } /\ f = [ i \in of |-> Added(ts[i]) ]
  OBVIOUS
<1>2. IsFiniteSet(of)
  <2>1. Len(ts) \in Nat /\ DOMAIN ts = 1 .. Len(ts)
    BY LenProperties
  <2>2. IsFiniteSet(1 .. Len(ts))
    BY <2>1, FS_Interval
  <2> QED
    BY <1>1, <2>1, <2>2, FS_Subset
<1>3. \A i \in of : f[i] \in Int
  <2>1. \A i \in of : ts[i] \in TransactionRow
    BY <1>1, ElementOfSeq, LenProperties
  <2> QED
    BY <1>1, <2>1, AddedInt
<1>4. SumFunctionOnSet(f, of) \in Int
  BY <1>2, <1>3, SumInt
<1> QED
  BY <1>1, <1>4 DEF BookedIn

LEMMA BookedAppend ==
    ASSUME NEW ts, NEW y, NEW us, Longer(us, ts, y),
           NEW t
    PROVE  /\ BookedIn(ts, t) \in Int /\ Added(y) \in Int
           /\ y.token # t => BookedIn(us, t) = BookedIn(ts, t)
           /\ y.token = t => BookedIn(us, t) = BookedIn(ts, t) + Added(y)
<1>1. /\ Len(ts) \in Nat /\ DOMAIN ts = 1 .. Len(ts) /\ DOMAIN us = DOMAIN ts \cup { Len(ts) + 1 }
      /\ Len(ts) + 1 \notin DOMAIN ts
      /\ us[Len(ts) + 1] = y /\ \A i \in DOMAIN ts : us[i] = ts[i] /\ ts[i] \in TransactionRow
  BY Appended DEF Longer
<1>2. PICK k, of, f, og, g :
        /\ k = Len(ts) + 1
        /\ of = { i \in DOMAIN ts : ts[i].token = t } /\ f = [ i \in of |-> Added(ts[i]) ]
        /\ og = { i \in DOMAIN us : us[i].token = t } /\ g = [ i \in og |-> Added(us[i]) ]
  OBVIOUS
<1>3. /\ BookedIn(ts, t) = SumFunctionOnSet(f, of)
      /\ BookedIn(us, t) = SumFunctionOnSet(g, og)
  BY <1>2 DEF BookedIn
<1>4. BookedIn(ts, t) \in Int /\ Added(y) \in Int
  BY BookedInt, AddedInt DEF Longer
<1>5. ASSUME y.token # t PROVE BookedIn(us, t) = BookedIn(ts, t)
  <2>1. og = of
    BY <1>1, <1>2, <1>5
  <2>2. f = g
    BY <1>1, <1>2, <2>1
  <2> QED
    BY <1>3, <2>1, <2>2
<1>6. ASSUME y.token = t PROVE BookedIn(us, t) = BookedIn(ts, t) + Added(y)
  <2>1. og = of \cup { k } /\ k \notin of
    BY <1>1, <1>2, <1>6
  <2>2. IsFiniteSet(of)
    <3>1. IsFiniteSet(1 .. Len(ts))
      BY <1>1, FS_Interval
    <3> QED
      BY <1>1, <1>2, <3>1, FS_Subset
  <2>3. \A i \in of : f[i] \in Int /\ f[i] = g[i]
    BY <1>1, <1>2, <2>1, AddedInt
  <2>4. g[k] = Added(y)
    BY <1>1, <1>2, <2>1
  <2>5. \A i \in of \cup { k } : g[i] \in Int
    BY <1>4, <2>3, <2>4
  <2>6. SumFunctionOnSet(g, of \cup { k }) = g[k] + SumFunctionOnSet(g, of)
    BY ONLY <2>1, <2>2, <2>5, SumAdd
  <2>7. SumFunctionOnSet(f, of) = SumFunctionOnSet(g, of)
    BY ONLY <2>2, <2>3, SumSame
  <2> QED
    BY <1>3, <1>4, <2>1, <2>4, <2>6, <2>7
<1> QED
  BY <1>4, <1>5, <1>6

\* Transactions without the token, or a token that has none.
LEMMA NoneOf ==
    ASSUME NEW ts \in Seq(TransactionRow), NEW t, \A i \in DOMAIN ts : ts[i].token # t
    PROVE  BookedIn(ts, t) = 0 /\ \A kinds : Of(ts, t, kinds) = {}
<1>1. { i \in DOMAIN ts : ts[i].token = t } = {}
  OBVIOUS
<1>2. BookedIn(ts, t) = 0
  BY <1>1, SumEmpty DEF BookedIn
<1> QED
  BY <1>2 DEF Of

\* A transaction with another token says nothing of t.
LEMMA OtherToken ==
    ASSUME NEW ts, NEW y, NEW us, Longer(us, ts, y),
           NEW t, y.token # t, NEW N, NEW amount
    PROVE  /\ RefundOK(ts, amount, N, t) => RefundOK(us, amount, N, t)
           /\ FailureOK(ts, N, t) => FailureOK(us, N, t)
           /\ CancelOK(ts, N, t) => CancelOK(us, N, t)
<1>1. ASSUME NEW kinds PROVE Of(us, t, kinds) = Of(ts, t, kinds) /\ \A i \in Of(ts, t, kinds) : us[i] = ts[i]
  BY <1>1, OfUnchanged
<1>2. BookedIn(us, t) = BookedIn(ts, t)
  <2>1. y.token # t => BookedIn(us, t) = BookedIn(ts, t)
    BY BookedAppend
  <2> QED
    BY <2>1
<1>3. Asked(us, t) = Asked(ts, t) /\ \A kind : Latest(us, t, kind) = Latest(ts, t, kind)
  BY <1>1 DEF Asked, Latest
<1>4. (\E i \in Of(us, t, { "refund" }) : us[i].is_success) = (\E i \in Of(ts, t, { "refund" }) : ts[i].is_success)
  BY <1>1
<1>5. RefundOK(ts, amount, N, t) => RefundOK(us, amount, N, t)
  BY <1>1, <1>2, <1>3, <1>4 DEF RefundOK
<1>6. FailureOK(ts, N, t) => FailureOK(us, N, t)
  BY <1>1 DEF FailureOK
<1>7. CancelOK(ts, N, t) => CancelOK(us, N, t)
  BY <1>1 DEF CancelOK
<1> QED
  BY <1>5, <1>6, <1>7

\* A refund that was only asked for.
LEMMA AskedFor ==
    ASSUME NEW ts, NEW y, NEW us, Longer(us, ts, y),
           y.kind = "refund_ongoing", NEW N, NEW amount, \A n \in N : n.token # y.token,
           RefundOK(ts, amount, N, y.token)
    PROVE  RefundOK(us, amount, N, y.token)
<1>1. PICK t : t = y.token
  OBVIOUS
<1>2. \A events : ~Heard(N, t, events)
  BY <1>1 DEF Heard
<1>3. ASSUME NEW kinds, "refund_ongoing" \notin kinds
      PROVE  Of(us, t, kinds) = Of(ts, t, kinds) /\ \A i \in Of(ts, t, kinds) : us[i] = ts[i]
  BY <1>1, <1>3, OfUnchanged
<1>4. BookedIn(us, t) = BookedIn(ts, t)
  <2>1. Added(y) = 0
    BY DEF Added
  <2>2. BookedIn(ts, t) \in Int /\ (y.token = t => BookedIn(us, t) = BookedIn(ts, t) + Added(y))
    BY BookedAppend
  <2> QED
    BY <1>1, <2>1, <2>2
<1>5. /\ Of(us, t, { "refund" }) = Of(ts, t, { "refund" })
      /\ \A i \in Of(ts, t, { "refund" }) : us[i] = ts[i]
  BY <1>3
<1>6. Of(us, t, { "refund_failed", "refund_reversed" }) = Of(ts, t, { "refund_failed", "refund_reversed" })
  BY <1>3
<1>7. RefundOK(us, amount, N, t)
  BY <1>1, <1>2, <1>4, <1>5, <1>6 DEF RefundOK
<1> QED
  BY <1>1, <1>7

-----------------------------------------------------------------------------
(* The invariant of a world w, of whose notifications N were accepted.      *)

CarriedOut == { "done", "failed" }

\* What a transaction x with the token of a call r may be.
Fits(x, r) ==
    /\ x.kind = "action_to_confirm" => r.op \in { "payment", "capture" }
    /\ x.kind \in { "refund", "cancel" } =>
         r.state \notin { "action", "received" } /\ x.is_success = (r.state \in CarriedOut)
    /\ x.kind = "capture_failed" => x.is_success

TransactionFits(x, refs) ==
    /\ x.token \in { 0 } \cup DOMAIN refs
    /\ x.token # 0 => Fits(x, refs[x.token])

\* What a notification n of a call r may be.
Answers(n, r) ==
    /\ n.event = EventOf(r.op)
    /\ r.state \notin { "action", "received" }
    /\ n.success = (r.state \in CarriedOut)

FailsCall(n, r) ==
    /\ n.event \in Fails
    /\ r.op = "refund" => n.event \in { "REFUND_FAILED", "REFUNDED_REVERSED" }
    /\ r.op \in { "payment", "capture" } => n.event = "CAPTURE_FAILED"
    /\ r.op # "cancel"
    /\ r.state = "failed" /\ n.success

NoticeFits(n, refs) ==
    /\ n.token \in DOMAIN refs
    /\ n.amount = refs[n.token].amount
    /\ \/ Answers(n, refs[n.token])
       \/ FailsCall(n, refs[n.token])
       \/ n.event = "PENDING" /\ refs[n.token].op = "payment"

\* Adyen answers a call before it fails it, fails it once, and announces both.
NoticesFit(refs, ns) ==
    /\ \A i \in DOMAIN ns : NoticeFits(ns[i], refs)
    /\ \A i, j \in DOMAIN ns : ns[i].token = ns[j].token /\ ns[j].event \in Fails =>
         /\ ns[i].event = "REFUND" => i < j
         /\ ns[i].event \in Fails => i = j
    /\ \A t \in DOMAIN refs :
         /\ refs[t].state \notin { "action", "received" } =>
              \E i \in DOMAIN ns : ns[i].token = t /\ Answers(ns[i], refs[t])
         /\ refs[t].state = "failed" =>
              \E i \in DOMAIN ns : ns[i].token = t /\ FailsCall(ns[i], refs[t])

\* A capture is asked for of an order, or Saleor captures what is authorized.
MayCapture(w) == HasOrder(w) \/ config.auto_capture

Fit(w) ==
    /\ \A t \in DOMAIN w.refs : w.refs[t].op = "capture" => MayCapture(w)
    /\ \A i \in DOMAIN w.db.transactions : TransactionFits(w.db.transactions[i], w.refs)
    /\ NoticesFit(w.refs, w.notices)

\* The calls of some kinds.
Calling(w, ops) == { t \in DOMAIN w.refs : w.refs[t].op \in ops }

RefundsOK(w, N) ==
    \A t \in Calling(w, { "refund" }) : RefundOK(w.db.transactions, w.refs[t].amount, N, t)

FailuresOK(w, N) ==
    \A t \in Calling(w, { "payment", "capture" }) : FailureOK(w.db.transactions, N, t)

CancelsOK(w, N) == \A t \in Calling(w, { "cancel" }) : CancelOK(w.db.transactions, N, t)

\* A payment that Saleor does not capture is captured when one capture was told.
ToldCaptureOK(w, N) ==
    ~config.auto_capture /\ (\E n \in N : n.event = "CAPTURE" /\ n.success)
      => Done(w, { "capture" }) # {}

\* A payment that was closed is found by no notification but of a
\* cancellation, and late is a notification that another has overtaken.
Books(w, N, late) ==
    /\ \A n \in N : n.token \in DOMAIN w.refs
    /\ CancelsOK(w, N)
    /\ w.db.payment.is_active =>
         /\ ~late => RefundsOK(w, N)
         /\ FailuresOK(w, N) /\ ToldCaptureOK(w, N)

-----------------------------------------------------------------------------
(* What a call may make of a world, while it accepts no notification.       *)

\* A call to Adyen keeps what was decided of it.
Moves(r, s) ==
    /\ s.op = r.op /\ s.amount = r.amount
    /\ r.state \notin { "action", "received" } =>
         s.state \notin { "action", "received" } /\ (s.state \in CarriedOut) = (r.state \in CarriedOut)
    /\ r.state = "failed" => s.state = "failed"

Extends(refs, more) ==
    DOMAIN refs \subseteq DOMAIN more /\ \A t \in DOMAIN refs : Moves(refs[t], more[t])

Grows(w, v) ==
    /\ Extends(w.refs, v.refs) /\ Says(w.notices, v.notices)
    /\ HasOrder(w) => HasOrder(v)
    /\ \A t \in DOMAIN v.refs : v.refs[t].op = "capture" => MayCapture(w)

Kept(w, N, late) == { v \in Worlds : Grows(w, v) /\ Fit(v) /\ Books(v, N, late) }

\* v is w with one transaction more.
Adds(w, v, y) ==
    /\ v \in Worlds /\ y \in TransactionRow
    /\ v.db.transactions = Append(w.db.transactions, y)
    /\ v.refs = w.refs /\ v.notices = w.notices
    /\ v.db.orders = w.db.orders
    /\ v.db.payment.is_active => w.db.payment.is_active

-----------------------------------------------------------------------------
(* One transaction more.                                                   *)

LEMMA EffectCloses ==
    ASSUME NEW p \in PaymentRow, NEW t \in TransactionRow
    PROVE  gateway_postprocess(p, t).is_active => p.is_active
<1>1. PICK q : q = [ p EXCEPT !.to_confirm = FALSE ]
  OBVIOUS
<1>2. q \in PaymentRow /\ q.is_active = p.is_active /\ p.is_active \in BOOLEAN
  BY <1>1, Zenon DEF PaymentRow
<1>3. /\ Charge(q, t.amount).is_active = q.is_active
      /\ Refund(q, t.amount).is_active => q.is_active
      /\ FailCapture(q, t.amount).is_active = q.is_active
      /\ [ q EXCEPT !.is_active = FALSE ].is_active = FALSE
      /\ [ q EXCEPT !.charge_status = "pending" ].is_active = q.is_active
      /\ [ q EXCEPT !.charge_status = "cancelled" ].is_active = q.is_active
  BY <1>2 DEF Charge, Refund, FailCapture, PaymentRow
<1>4. Effect(q, t).is_active => q.is_active
  BY <1>3 DEF Effect
<1>5. [ p EXCEPT !.to_confirm = TRUE ].is_active = p.is_active
  BY DEF PaymentRow
<1> QED
  BY <1>1, <1>2, <1>4, <1>5 DEF gateway_postprocess

LEMMA InsertAdds ==
    ASSUME NEW w \in Worlds, NEW y \in TransactionRow
    PROVE  Adds(w, Insert(w, y), y)
<1>1. PICK v : v = Insert(w, y)
  OBVIOUS
<1>2. v \in Worlds /\ v.db.orders = w.db.orders
  BY <1>1, InsertNear DEF Near, Grown
<1>3. /\ v.db.transactions = Append(w.db.transactions, y)
      /\ v.refs = w.refs /\ v.notices = w.notices /\ v.db.payment = w.db.payment
  BY <1>1, WorldTyped DEF Insert, Worlds, Rows
<1> QED
  BY <1>1, <1>2, <1>3 DEF Adds

LEMMA MarkKeeps ==
    ASSUME NEW y \in TransactionRow
    PROVE  /\ MarkProcessed(y) \in TransactionRow
           /\ MarkProcessed(y).token = y.token /\ MarkProcessed(y).kind = y.kind
           /\ MarkProcessed(y).is_success = y.is_success /\ MarkProcessed(y).amount = y.amount
           /\ MarkProcessed(y).action_required = y.action_required
BY MarkTyped DEF MarkProcessed, TransactionRow

LEMMA BookAdds ==
    ASSUME NEW w \in Worlds, NEW y \in TransactionRow
    PROVE  Adds(w, Book(w, y), MarkProcessed(y))
<1>1. PICK v : v = Book(w, y)
  OBVIOUS
<1>2. v \in Worlds /\ v.db.orders = w.db.orders
  BY <1>1, BookNear DEF Near, Grown
<1>3. /\ v.db.transactions = Append(w.db.transactions, MarkProcessed(y))
      /\ v.refs = w.refs /\ v.notices = w.notices
      /\ v.db.payment = gateway_postprocess(w.db.payment, y)
  BY <1>1, WorldTyped DEF Book, Worlds, Rows
<1>4. v.db.payment.is_active => w.db.payment.is_active
  BY <1>3, WorldTyped, EffectCloses
<1> QED
  BY <1>1, <1>2, <1>3, <1>4, MarkKeeps DEF Adds

LEMMA AddsFields ==
    ASSUME NEW w \in Worlds, NEW v, NEW y, Adds(w, v, y)
    PROVE  /\ v \in Worlds /\ Longer(v.db.transactions, w.db.transactions, y)
           /\ v.refs = w.refs /\ v.notices = w.notices /\ HasOrder(v) = HasOrder(w)
           /\ v.db.payment.is_active => w.db.payment.is_active
           /\ DOMAIN v.db.transactions = DOMAIN w.db.transactions \cup { Len(w.db.transactions) + 1 }
           /\ v.db.transactions[Len(w.db.transactions) + 1] = y
           /\ \A i \in DOMAIN w.db.transactions : v.db.transactions[i] = w.db.transactions[i]
<1>1. PICK ts, us : ts = w.db.transactions /\ us = v.db.transactions
  OBVIOUS
<1>2. ts \in Seq(TransactionRow) /\ y \in TransactionRow /\ us = Append(ts, y)
  BY <1>1, WorldTyped DEF Adds
<1>3. /\ DOMAIN us = DOMAIN ts \cup { Len(ts) + 1 }
      /\ us[Len(ts) + 1] = y /\ \A i \in DOMAIN ts : us[i] = ts[i]
  BY <1>2, Appended
<1> QED
  BY <1>1, <1>2, <1>3 DEF Adds, Longer, HasOrder

LEMMA AddsFit ==
    ASSUME NEW w \in Worlds, NEW v, NEW y, Adds(w, v, y), Fit(w), TransactionFits(y, w.refs)
    PROVE  Fit(v)
<1>1. \A i \in DOMAIN v.db.transactions : TransactionFits(v.db.transactions[i], v.refs)
  <2>1. TAKE i \in DOMAIN v.db.transactions
  <2>2. CASE i \in DOMAIN w.db.transactions
    BY <2>2, AddsFields DEF Fit
  <2>3. CASE i \notin DOMAIN w.db.transactions
    BY <2>3, AddsFields
  <2> QED
    BY <2>2, <2>3
<1> QED
  BY <1>1, AddsFields DEF Fit, MayCapture

LEMMA DoneGrows ==
    ASSUME NEW w \in Worlds, NEW v, NEW y, Adds(w, v, y), NEW kinds
    PROVE  /\ Done(w, kinds) \subseteq Done(v, kinds)
           /\ y.kind \in kinds /\ y.is_success /\ ~y.action_required => Done(v, kinds) # {}
<1>1. ASSUME NEW i \in Done(w, kinds) PROVE i \in Done(v, kinds)
  BY <1>1, AddsFields DEF Done
<1>2. ASSUME y.kind \in kinds /\ y.is_success /\ ~y.action_required
      PROVE  Len(w.db.transactions) + 1 \in Done(v, kinds)
  BY <1>2, AddsFields DEF Done
<1> QED
  BY <1>1, <1>2

\* What a transaction of one call leaves of what is said of the others.
LEMMA AddsParts ==
    ASSUME NEW w \in Worlds, NEW v, NEW y, Adds(w, v, y), NEW N
    PROVE  /\ \A ops : Calling(v, ops) = Calling(w, ops)
           /\ CancelsOK(w, N) => CancelsOK(v, N)
           /\ FailuresOK(w, N) /\ y.kind # "capture_failed" => FailuresOK(v, N)
           /\ ToldCaptureOK(w, N) => ToldCaptureOK(v, N)
           /\ RefundsOK(w, N) =>
                \A t \in Calling(w, { "refund" }) :
                  t # y.token => RefundOK(v.db.transactions, v.refs[t].amount, N, t)
<1>1. PICK ts, us : ts = w.db.transactions /\ us = v.db.transactions
  OBVIOUS
<1>2. Longer(us, ts, y) /\ v.refs = w.refs
  BY <1>1, AddsFields
<1>3. \A ops : Calling(v, ops) = Calling(w, ops)
  BY <1>2 DEF Calling
<1>4. ASSUME NEW kinds, NEW t, y.kind \notin kinds PROVE Of(us, t, kinds) = Of(ts, t, kinds)
  BY <1>2, <1>4, OfUnchanged
<1>5. CancelsOK(w, N) => CancelsOK(v, N)
  <2>1. \A t : Of(ts, t, { "cancel" }) # {} => Of(us, t, { "cancel" }) # {}
    BY <1>2, OfAppend
  <2> QED
    BY <1>1, <1>3, <2>1 DEF CancelsOK, CancelOK
<1>6. FailuresOK(w, N) /\ y.kind # "capture_failed" => FailuresOK(v, N)
  BY <1>1, <1>3, <1>4 DEF FailuresOK, FailureOK
<1>7. ToldCaptureOK(w, N) => ToldCaptureOK(v, N)
  BY DoneGrows DEF ToldCaptureOK
<1>8. ASSUME RefundsOK(w, N), NEW t \in Calling(w, { "refund" }), t # y.token
      PROVE  RefundOK(us, v.refs[t].amount, N, t)
  <2>1. RefundOK(ts, w.refs[t].amount, N, t)
    BY <1>1, <1>8 DEF RefundsOK
  <2> QED
    BY <1>2, <1>8, <2>1, OtherToken
<1> QED
  BY <1>1, <1>3, <1>5, <1>6, <1>7, <1>8

\* A transaction that says of no call what an answer says.
LEMMA AddsBooks ==
    ASSUME NEW w \in Worlds, NEW v, NEW y, Adds(w, v, y), NEW N, NEW late, Books(w, N, late),
           y.kind # "capture_failed",
           y.token \in Calling(w, { "refund" }) =>
             y.kind = "refund_ongoing" /\ \A n \in N : n.token # y.token
    PROVE  Books(v, N, late)
<1>1. /\ Longer(v.db.transactions, w.db.transactions, y) /\ v.refs = w.refs
      /\ v.db.payment.is_active => w.db.payment.is_active
  BY AddsFields
<1>2. RefundsOK(w, N) => RefundsOK(v, N)
  <2> SUFFICES ASSUME RefundsOK(w, N), NEW t \in Calling(w, { "refund" })
               PROVE  RefundOK(v.db.transactions, v.refs[t].amount, N, t)
    BY AddsParts DEF RefundsOK
  <2>1. CASE y.token = t
    <3>1. RefundOK(w.db.transactions, w.refs[t].amount, N, t)
      BY DEF RefundsOK
    <3> QED
      BY <1>1, <2>1, <3>1, AskedFor
  <2>2. CASE y.token # t
    BY <2>2, AddsParts
  <2> QED
    BY <2>1, <2>2
<1> QED
  BY <1>1, <1>2, AddsParts DEF Books

LEMMA KeptItself ==
    ASSUME NEW w \in Worlds, NEW N, NEW late, Fit(w), Books(w, N, late)
    PROVE  w \in Kept(w, N, late)
<1>1. Grows(w, w)
  BY DEF Grows, Extends, Moves, Says, Fit
<1> QED
  BY <1>1 DEF Kept

LEMMA AddsKept ==
    ASSUME NEW w, NEW N, NEW late, NEW v \in Kept(w, N, late), NEW u, NEW y, Adds(v, u, y),
           TransactionFits(y, v.refs), y.kind # "capture_failed",
           y.token \in Calling(v, { "refund" }) =>
             y.kind = "refund_ongoing" /\ \A n \in N : n.token # y.token
    PROVE  u \in Kept(w, N, late)
<1>1. v \in Worlds /\ Grows(w, v) /\ Fit(v) /\ Books(v, N, late)
  BY DEF Kept
<1>2. u \in Worlds /\ u.refs = v.refs /\ u.notices = v.notices /\ HasOrder(u) = HasOrder(v)
  BY <1>1, AddsFields
<1>3. Fit(u) /\ Books(u, N, late)
  BY <1>1, AddsFit, AddsBooks
<1>4. Grows(w, u)
  BY <1>1, <1>2 DEF Grows
<1> QED
  BY <1>2, <1>3, <1>4 DEF Kept

-----------------------------------------------------------------------------
(* What Adyen is asked and says.                                           *)

LEMMA NoticeStays ==
    ASSUME NEW refs, NEW more, Extends(refs, more), NEW n, NoticeFits(n, refs)
    PROVE  NoticeFits(n, more)
<1>1. PICK t : t = n.token /\ t \in DOMAIN refs /\ t \in DOMAIN more /\ Moves(refs[t], more[t])
  BY DEF NoticeFits, Extends
<1>2. n.amount = more[t].amount
  BY <1>1 DEF NoticeFits, Moves
<1>3. Answers(n, refs[t]) => Answers(n, more[t])
  BY <1>1 DEF Answers, Moves
<1>4. FailsCall(n, refs[t]) => FailsCall(n, more[t])
  BY <1>1 DEF FailsCall, Moves
<1>5. refs[t].op = "payment" => more[t].op = "payment"
  BY <1>1 DEF Moves
<1> QED
  BY <1>1, <1>2, <1>3, <1>4, <1>5 DEF NoticeFits

LEMMA TransactionStays ==
    ASSUME NEW refs, NEW more, Extends(refs, more), NEW x, TransactionFits(x, refs)
    PROVE  TransactionFits(x, more)
<1>1. CASE x.token = 0
  BY <1>1 DEF TransactionFits
<1>2. CASE x.token # 0
  <2>1. PICK t : t = x.token /\ t \in DOMAIN refs /\ t \in DOMAIN more /\ Moves(refs[t], more[t])
    BY <1>2 DEF TransactionFits, Extends
  <2>2. Fits(x, refs[t])
    BY <1>2, <2>1 DEF TransactionFits
  <2>3. Fits(x, more[t])
    BY <2>1, <2>2 DEF Fits, Moves
  <2> QED
    BY <2>1, <2>3 DEF TransactionFits
<1> QED
  BY <1>1, <1>2

\* Nothing is decided that has to be announced.
LEMMA QuietFit ==
    ASSUME NEW refs, NEW more, Extends(refs, more), NEW ns, NoticesFit(refs, ns),
           \A t \in DOMAIN more : more[t].state \notin { "action", "received" } =>
             t \in DOMAIN refs /\ refs[t].state \notin { "action", "received" }
               /\ (more[t].state = "failed" => refs[t].state = "failed")
    PROVE  NoticesFit(more, ns)
<1>1. \A i \in DOMAIN ns : NoticeFits(ns[i], more)
  BY NoticeStays DEF NoticesFit
<1>2. ASSUME NEW t \in DOMAIN more, more[t].state \notin { "action", "received" }
      PROVE  /\ \E i \in DOMAIN ns : ns[i].token = t /\ Answers(ns[i], more[t])
             /\ more[t].state = "failed" =>
                  \E i \in DOMAIN ns : ns[i].token = t /\ FailsCall(ns[i], more[t])
  <2>1. t \in DOMAIN refs /\ Moves(refs[t], more[t])
    BY <1>2 DEF Extends
  <2>2. /\ \A i \in DOMAIN ns : Answers(ns[i], refs[t]) => Answers(ns[i], more[t])
        /\ \A i \in DOMAIN ns : FailsCall(ns[i], refs[t]) => FailsCall(ns[i], more[t])
    BY <2>1 DEF Answers, FailsCall, Moves
  <2>3. refs[t].state \notin { "action", "received" } /\ (more[t].state = "failed" => refs[t].state = "failed")
    BY <1>2
  <2>4. /\ \E i \in DOMAIN ns : ns[i].token = t /\ Answers(ns[i], refs[t])
        /\ refs[t].state = "failed" => \E i \in DOMAIN ns : ns[i].token = t /\ FailsCall(ns[i], refs[t])
    BY <2>1, <2>3 DEF NoticesFit
  <2> QED
    BY <2>2, <2>3, <2>4
<1>3. \A i, j \in DOMAIN ns : ns[i].token = ns[j].token /\ ns[j].event \in Fails =>
        /\ ns[i].event = "REFUND" => i < j
        /\ ns[i].event \in Fails => i = j
  BY DEF NoticesFit
<1>4. \A t \in DOMAIN more : more[t].state = "failed" => more[t].state \notin { "action", "received" }
  OBVIOUS
<1> QED
  BY <1>1, <1>2, <1>3, <1>4 DEF NoticesFit

\* A notification of a call t that was not failed before.
LEMMA MoveFit ==
    ASSUME NEW refs \in Seq(Reference), NEW ns \in Seq(Notice), NEW t \in DOMAIN refs,
           NEW s \in Reference, NEW n \in Notice, NoticesFit(refs, ns),
           NEW rs, rs = [ refs EXCEPT ![t] = s ], NEW more, more = Append(ns, n),
           Moves(refs[t], s), refs[t].state # "failed",
           n.token = t, NoticeFits(n, rs),
           s.state \notin { "action", "received" } =>
             refs[t].state \notin { "action", "received" } \/ Answers(n, s),
           s.state = "failed" => FailsCall(n, s)
    PROVE  NoticesFit(rs, more) /\ Extends(refs, rs)
<1>1. DOMAIN rs = DOMAIN refs /\ rs[t] = s /\ \A u \in DOMAIN refs : u # t => rs[u] = refs[u]
  OBVIOUS
<1>2. Extends(refs, rs)
  BY <1>1 DEF Extends, Moves
<1>3. PICK k : /\ k = Len(ns) + 1 /\ k \notin DOMAIN ns /\ DOMAIN more = DOMAIN ns \cup { k }
               /\ more[k] = n /\ (\A i \in DOMAIN ns : more[i] = ns[i])
               /\ DOMAIN ns = 1 .. Len(ns) /\ Len(ns) \in Nat
  BY Appended
<1>4. \A i \in DOMAIN more : NoticeFits(more[i], rs)
  <2>1. \A i \in DOMAIN ns : NoticeFits(ns[i], rs)
    BY <1>2, NoticeStays DEF NoticesFit
  <2> QED
    BY <1>3, <2>1
<1>5. \A i \in DOMAIN ns : ns[i].token = t => ns[i].event \notin Fails
  <2> SUFFICES ASSUME NEW i \in DOMAIN ns, ns[i].token = t, ns[i].event \in Fails PROVE FALSE
    OBVIOUS
  <2>1. NoticeFits(ns[i], refs)
    BY DEF NoticesFit
  <2>2. refs[t].op \in { "payment", "capture", "refund", "cancel" }
    <3>1. refs[t] \in Reference
      BY ElementOfSeq, LenProperties
    <3> QED
      BY <3>1 DEF Reference
  <2>3. EventOf(refs[t].op) \notin Fails
    BY <2>2 DEF EventOf, Fails
  <2>4. ~Answers(ns[i], refs[t]) /\ ~FailsCall(ns[i], refs[t]) /\ ns[i].event # "PENDING"
    BY <2>3 DEF Answers, FailsCall, Fails
  <2> QED
    BY <2>1, <2>4 DEF NoticeFits
<1>6. ASSUME NEW i \in DOMAIN more, NEW j \in DOMAIN more, more[i].token = more[j].token,
             more[j].event \in Fails
      PROVE  /\ more[i].event = "REFUND" => i < j
             /\ more[i].event \in Fails => i = j
  <2>1. CASE i \in DOMAIN ns /\ j \in DOMAIN ns
    BY <1>3, <1>6, <2>1 DEF NoticesFit
  <2>2. CASE j \notin DOMAIN ns
    <3>1. j = k /\ (i = k \/ i \in DOMAIN ns)
      BY <1>3, <2>2
    <3>2. CASE i = k
      <4>1. n.event \in Fails
        BY <1>3, <1>6, <3>1
      <4>2. more[i].event # "REFUND"
        BY <1>3, <3>2, <4>1 DEF Fails
      <4> QED
        BY <3>1, <3>2, <4>2
    <3>3. CASE i \in DOMAIN ns
      <4>1. i < k
        BY <1>3, <3>3
      <4>2. ns[i].token = t /\ more[i] = ns[i]
        BY <1>3, <1>6, <3>1, <3>3
      <4> QED
        BY <1>5, <3>1, <3>3, <4>1, <4>2
    <3> QED
      BY <3>1, <3>2, <3>3
  <2>3. CASE i \notin DOMAIN ns /\ j \in DOMAIN ns
    <3>1. i = k /\ ns[j].token = t /\ ns[j].event \in Fails
      BY <1>3, <1>6, <2>3
    <3> QED
      BY <1>5, <2>3, <3>1
  <2> QED
    BY <2>1, <2>2, <2>3
<1>7. ASSUME NEW u \in DOMAIN rs
      PROVE  /\ rs[u].state \notin { "action", "received" } =>
                  \E i \in DOMAIN more : more[i].token = u /\ Answers(more[i], rs[u])
             /\ rs[u].state = "failed" =>
                  \E i \in DOMAIN more : more[i].token = u /\ FailsCall(more[i], rs[u])
  <2>1. CASE u # t
    <3>1. rs[u] = refs[u] /\ u \in DOMAIN refs
      BY <1>1, <1>7, <2>1
    <3>2. /\ refs[u].state \notin { "action", "received" } =>
                \E i \in DOMAIN ns : ns[i].token = u /\ Answers(ns[i], refs[u])
          /\ refs[u].state = "failed" =>
                \E i \in DOMAIN ns : ns[i].token = u /\ FailsCall(ns[i], refs[u])
      BY <3>1 DEF NoticesFit
    <3> QED
      BY <1>3, <3>1, <3>2
  <2>2. CASE u = t
    <3>1. rs[u] = s
      BY <1>1, <2>2
    <3>2. s.state = "failed" => more[k].token = t /\ FailsCall(more[k], s)
      BY <1>3
    <3>3. ASSUME s.state \notin { "action", "received" }
          PROVE  \E i \in DOMAIN more : more[i].token = t /\ Answers(more[i], s)
      <4>1. CASE Answers(n, s)
        BY <1>3, <4>1
      <4>2. CASE refs[t].state \notin { "action", "received" }
        <5>1. PICK i \in DOMAIN ns : ns[i].token = t /\ Answers(ns[i], refs[t])
          BY <4>2 DEF NoticesFit
        <5>2. Answers(ns[i], s)
          BY <5>1 DEF Answers, Moves
        <5> QED
          BY <1>3, <5>1, <5>2
      <4> QED
        BY <3>3, <4>1, <4>2
    <3> QED
      BY <1>3, <2>2, <3>1, <3>2, <3>3
  <2> QED
    BY <2>1, <2>2
<1>8. NoticesFit(rs, more)
  BY <1>4, <1>6, <1>7 DEF NoticesFit
<1> QED
  BY <1>2, <1>8

\* The calls to Adyen change, the rows do not.
LEMMA CallsFit ==
    ASSUME NEW w \in Worlds, NEW v \in Worlds, v.db = w.db, Fit(w), Extends(w.refs, v.refs),
           NoticesFit(v.refs, v.notices),
           \A t \in DOMAIN v.refs : v.refs[t].op = "capture" => MayCapture(w)
    PROVE  Fit(v)
<1>1. \A i \in DOMAIN v.db.transactions : TransactionFits(v.db.transactions[i], v.refs)
  BY TransactionStays DEF Fit
<1> QED
  BY <1>1 DEF Fit, HasOrder, MayCapture

LEMMA CallsBooks ==
    ASSUME NEW w \in Worlds, NEW v \in Worlds, v.db = w.db, Fit(w), Extends(w.refs, v.refs),
           NEW N, NEW late, Books(w, N, late)
    PROVE  Books(v, N, late)
<1>1. PICK ts : ts = w.db.transactions /\ ts = v.db.transactions /\ ts \in Seq(TransactionRow)
  BY WorldTyped
<1>2. ASSUME NEW t \in DOMAIN v.refs
      PROVE  (t \in DOMAIN w.refs /\ Moves(w.refs[t], v.refs[t]))
               \/ ((\A i \in DOMAIN ts : ts[i].token # t) /\ \A events : ~Heard(N, t, events))
  <2>1. CASE t \in DOMAIN w.refs
    BY <2>1 DEF Extends
  <2>2. CASE t \notin DOMAIN w.refs
    <3>1. t # 0
      BY WorldTyped
    <3>2. \A i \in DOMAIN ts : ts[i].token # t
      BY <1>1, <2>2, <3>1 DEF Fit, TransactionFits
    <3>3. \A events : ~Heard(N, t, events)
      BY <2>2 DEF Heard, Books
    <3> QED
      BY <3>2, <3>3
  <2> QED
    BY <2>1, <2>2
<1>3. ASSUME NEW t \in DOMAIN v.refs, \A i \in DOMAIN ts : ts[i].token # t,
             \A events : ~Heard(N, t, events)
      PROVE  (\A amount : RefundOK(ts, amount, N, t)) /\ FailureOK(ts, N, t) /\ CancelOK(ts, N, t)
  <2>1. BookedIn(ts, t) = 0 /\ \A kinds : Of(ts, t, kinds) = {}
    BY <1>1, <1>3, NoneOf
  <2>2. \A amount : RefundOK(ts, amount, N, t)
    <3>1. (\E i \in Of(ts, t, { "refund" }) : ts[i].is_success) = FALSE
      BY <2>1
    <3>2. Heard(N, t, { "REFUND" }) = FALSE
      BY <1>3 DEF Heard
    <3> QED
      BY <1>3, <2>1, <3>1, <3>2 DEF RefundOK
  <2>3. FailureOK(ts, N, t)
    <3>1. Heard(N, t, Fails) = FALSE
      BY <1>3 DEF Heard
    <3> QED
      BY <2>1, <3>1 DEF FailureOK
  <2>4. CancelOK(ts, N, t)
    BY <1>3 DEF CancelOK
  <2> QED
    BY <2>2, <2>3, <2>4
<1>4. CancelsOK(v, N)
  <2> SUFFICES ASSUME NEW t \in DOMAIN v.refs, v.refs[t].op = "cancel" PROVE CancelOK(ts, N, t)
    BY <1>1 DEF CancelsOK, Calling
  <2>1. CASE t \in DOMAIN w.refs /\ Moves(w.refs[t], v.refs[t])
    BY <1>1, <2>1 DEF Books, CancelsOK, Calling, Moves
  <2> QED
    BY <1>2, <1>3, <2>1
<1>5. ASSUME FailuresOK(w, N) PROVE FailuresOK(v, N)
  <2> SUFFICES ASSUME NEW t \in DOMAIN v.refs, v.refs[t].op \in { "payment", "capture" }
               PROVE  FailureOK(ts, N, t)
    BY <1>1 DEF FailuresOK, Calling
  <2>1. CASE t \in DOMAIN w.refs /\ Moves(w.refs[t], v.refs[t])
    BY <1>1, <1>5, <2>1 DEF FailuresOK, Calling, Moves
  <2> QED
    BY <1>2, <1>3, <2>1
<1>6. ASSUME RefundsOK(w, N) PROVE RefundsOK(v, N)
  <2> SUFFICES ASSUME NEW t \in DOMAIN v.refs, v.refs[t].op = "refund"
               PROVE  RefundOK(ts, v.refs[t].amount, N, t)
    BY <1>1 DEF RefundsOK, Calling
  <2>1. CASE t \in DOMAIN w.refs /\ Moves(w.refs[t], v.refs[t])
    <3>1. w.refs[t].op = "refund" /\ v.refs[t].amount = w.refs[t].amount
      BY <2>1 DEF Moves
    <3>2. RefundOK(ts, w.refs[t].amount, N, t)
      BY <1>1, <1>6, <2>1, <3>1 DEF RefundsOK, Calling
    <3> QED
      BY <3>1, <3>2
  <2> QED
    BY <1>2, <1>3, <2>1
<1>7. ToldCaptureOK(w, N) => ToldCaptureOK(v, N)
  BY <1>1 DEF ToldCaptureOK, Done
<1>8. \A n \in N : n.token \in DOMAIN v.refs
  BY DEF Books, Extends
<1> QED
  BY <1>4, <1>5, <1>6, <1>7, <1>8 DEF Books

-----------------------------------------------------------------------------
(* plugin.py keeps the invariant.                                          *)

\* v is of Kept(w, N, late), in which only calls have been added or decided.
LEMMA CallsKept ==
    ASSUME NEW w \in Worlds, NEW N, NEW late, NEW v \in Kept(w, N, late), NEW u \in Worlds,
           u.db = v.db, Extends(v.refs, u.refs), Says(v.notices, u.notices),
           NoticesFit(u.refs, u.notices),
           \A t \in DOMAIN u.refs : u.refs[t].op = "capture" => MayCapture(w)
    PROVE  u \in Kept(w, N, late)
<1>1. v \in Worlds /\ Grows(w, v) /\ Fit(v) /\ Books(v, N, late)
  BY DEF Kept
<1>2. (HasOrder(w) => HasOrder(v)) /\ (MayCapture(w) => MayCapture(v))
  BY <1>1 DEF Grows, MayCapture
<1>3. Fit(u) /\ Books(u, N, late)
  BY <1>1, <1>2, CallsFit, CallsBooks
<1>4. Extends(w.refs, u.refs)
  <2>1. Extends(w.refs, v.refs)
    BY <1>1 DEF Grows
  <2>2. DOMAIN w.refs \subseteq DOMAIN v.refs /\ DOMAIN v.refs \subseteq DOMAIN u.refs
    BY <2>1 DEF Extends
  <2>3. \A t \in DOMAIN w.refs : Moves(w.refs[t], v.refs[t]) /\ Moves(v.refs[t], u.refs[t])
    BY <2>1, <2>2 DEF Extends
  <2>4. \A t \in DOMAIN w.refs : Moves(w.refs[t], u.refs[t])
    BY <2>3 DEF Moves
  <2> QED
    BY <2>2, <2>4 DEF Extends
<1>5. HasOrder(w) => HasOrder(u)
  BY <1>2 DEF HasOrder
<1>6. Says(w.notices, u.notices)
  BY <1>1 DEF Grows, Says
<1>7. Grows(w, u)
  BY <1>4, <1>5, <1>6 DEF Grows
<1> QED
  BY <1>3, <1>7 DEF Kept

\* u is v after a call t to Adyen.
Refers(v, u, t, op, state) ==
    /\ u \in Worlds /\ u.db = v.db /\ u.notices = v.notices
    /\ DOMAIN u.refs = DOMAIN v.refs \cup { t }
    /\ t \notin DOMAIN v.refs /\ t \in Nat \ { 0 }
    /\ u.refs[t].op = op /\ u.refs[t].state = state
    /\ \A s \in DOMAIN v.refs : u.refs[s] = v.refs[s]

LEMMA ReferFields ==
    ASSUME NEW v \in Worlds, NEW op \in { "payment", "capture", "refund", "cancel" },
           NEW amount \in Nat, NEW state \in { "action", "received" }
    PROVE  Refers(v, Refer(v, op, amount, state), NextToken(v), op, state)
<1> DEFINE u == Refer(v, op, amount, state)
<1>1. PICK r, rs : r = [ op |-> op, amount |-> amount, state |-> state ] /\ rs = Append(v.refs, r)
  OBVIOUS
<1>2. r \in Reference
  BY <1>1 DEF Reference
<1>3. v.refs \in Seq(Reference)
  BY WorldTyped
<1>4. /\ Len(v.refs) \in Nat /\ DOMAIN rs = DOMAIN v.refs \cup { Len(v.refs) + 1 }
      /\ Len(v.refs) + 1 \notin DOMAIN v.refs
      /\ rs[Len(v.refs) + 1] = r /\ \A t \in DOMAIN v.refs : rs[t] = v.refs[t]
  BY <1>1, <1>2, <1>3, Appended
<1>5. u.db = v.db /\ u.notices = v.notices /\ u.refs = rs
  BY <1>1 DEF Refer, Worlds
<1>6. u \in Worlds
  BY ReferLonger
<1> QED
  BY <1>1, <1>4, <1>5, <1>6 DEF NextToken, Refers

LEMMA ReferKept ==
    ASSUME NEW w \in Worlds, NEW N, NEW late, NEW v \in Kept(w, N, late),
           NEW op \in { "payment", "capture", "refund", "cancel" },
           NEW amount \in Nat, NEW state \in { "action", "received" },
           op = "capture" => MayCapture(w), NEW u, u = Refer(v, op, amount, state)
    PROVE  u \in Kept(w, N, late)
<1>1. v \in Worlds /\ Grows(w, v) /\ Fit(v)
  BY DEF Kept
<1>2. PICK t : t = NextToken(v)
  OBVIOUS
<1>3. Refers(v, u, t, op, state)
  BY <1>1, <1>2, ReferFields
<1>4. Extends(v.refs, u.refs)
  BY <1>3 DEF Refers, Extends, Moves
<1>5. NoticesFit(u.refs, u.notices)
  <2>1. \A s \in DOMAIN u.refs : u.refs[s].state \notin { "action", "received" } =>
             s \in DOMAIN v.refs /\ v.refs[s].state \notin { "action", "received" }
               /\ (u.refs[s].state = "failed" => v.refs[s].state = "failed")
    BY <1>3 DEF Refers
  <2>2. NoticesFit(v.refs, u.notices)
    BY <1>1, <1>3 DEF Fit, Refers
  <2> QED
    BY <1>4, <2>1, <2>2, QuietFit
<1>6. \A s \in DOMAIN u.refs : u.refs[s].op = "capture" => MayCapture(w)
  BY <1>1, <1>3 DEF Grows, Refers
<1>7. u \in Worlds /\ u.db = v.db /\ Says(v.notices, u.notices)
  BY <1>3 DEF Refers, Says
<1> QED
  BY <1>4, <1>5, <1>6, <1>7, CallsKept

LEMMA AsksKept ==
    ASSUME NEW w \in Worlds, NEW N, NEW late, NEW v \in Kept(w, N, late), NEW amount \in Nat,
           NEW op \in { "capture", "refund", "cancel" },
           NEW kind \in { "capture", "refund_ongoing", "void" },
           op = "refund" => kind = "refund_ongoing", op = "capture" => MayCapture(w)
    PROVE  Book(Refer(v, op, amount, "received"), Txn(kind, NextToken(v), TRUE, amount)) \in Kept(w, N, late)
<1>1. v \in Worlds /\ Books(v, N, late)
  BY DEF Kept
<1>2. op \in { "payment", "capture", "refund", "cancel" } /\ "received" \in { "action", "received" }
  OBVIOUS
<1>3. PICK t, u : t = NextToken(v) /\ u = Refer(v, op, amount, "received")
  OBVIOUS
<1>4. u \in Kept(w, N, late) /\ u \in Worlds
  <2>1. u \in Kept(w, N, late)
    BY <1>2, <1>3, ReferKept
  <2> QED
    BY <2>1 DEF Kept
<1>5. /\ DOMAIN u.refs = DOMAIN v.refs \cup { t } /\ t \notin DOMAIN v.refs
      /\ t \in Nat \ { 0 } /\ u.refs[t].op = op
  <2>1. Refers(v, u, t, op, "received")
    BY <1>1, <1>2, <1>3, ReferFields
  <2> QED
    BY <2>1 DEF Refers
<1>6. PICK x : x = Txn(kind, t, TRUE, amount)
  OBVIOUS
<1>7. x \in TransactionRow /\ x.kind = kind /\ x.token = t
  BY <1>2, <1>5, <1>6, Kinds, TxnTyped DEF Txn
<1>8. PICK y : y = MarkProcessed(x) /\ y.kind = kind /\ y.token = t
  BY <1>7, MarkKeeps
<1>9. Adds(u, Book(u, x), y)
  BY <1>4, <1>7, <1>8, BookAdds
<1>10. TransactionFits(y, u.refs)
  BY <1>2, <1>5, <1>8 DEF TransactionFits, Fits
<1>11. \A n \in N : n.token # t
  BY <1>1, <1>5 DEF Books
<1>12. y.token \in Calling(u, { "refund" }) => y.kind = "refund_ongoing" /\ \A n \in N : n.token # y.token
  BY <1>2, <1>5, <1>8, <1>11 DEF Calling
<1>13. y.kind # "capture_failed"
  BY <1>2, <1>8
<1>14. Book(u, x) \in Kept(w, N, late)
  BY <1>4, <1>9, <1>10, <1>12, <1>13, AddsKept
<1> QED
  BY <1>3, <1>6, <1>14

LEMMA RefundKept ==
    ASSUME NEW w \in Worlds, NEW N, NEW late, NEW v \in Kept(w, N, late), NEW amount \in Int
    PROVE  refund(v, amount) \subseteq Kept(w, N, late)
<1>1. CASE amount > 0
  <2>1. amount \in Nat
    BY <1>1
  <2>2. Book(Refer(v, "refund", amount, "received"), Txn("refund_ongoing", NextToken(v), TRUE, amount))
          \in Kept(w, N, late)
    BY <2>1, AsksKept
  <2> QED
    BY <2>2 DEF refund
<1>2. CASE ~(amount > 0)
  BY <1>2 DEF refund
<1> QED
  BY <1>1, <1>2

LEMMA VoidKept ==
    ASSUME NEW w \in Worlds, NEW N, NEW late, NEW v \in Kept(w, N, late)
    PROVE  void(v) \subseteq Kept(w, N, late)
<1>1. Book(Refer(v, "cancel", Total, "received"), Txn("void", NextToken(v), TRUE, Total))
        \in Kept(w, N, late)
  BY AsksKept
<1> QED
  BY <1>1 DEF void

LEMMA CaptureKept ==
    ASSUME NEW w \in Worlds, NEW N, NEW late, NEW v \in Kept(w, N, late), NEW amount \in Nat,
           MayCapture(w)
    PROVE  capture(v, amount) \subseteq Kept(w, N, late)
<1>1. Book(Refer(v, "capture", amount, "received"), Txn("capture", NextToken(v), TRUE, amount))
        \in Kept(w, N, late)
  BY AsksKept
<1> QED
  BY <1>1 DEF capture

LEMMA RefundOrVoidKept ==
    ASSUME NEW w \in Worlds, NEW N, NEW late, NEW v \in Kept(w, N, late), NEW p
    PROVE  payment_refund_or_void(v, p) \subseteq Kept(w, N, late)
<1>1. v.db.payment.captured_amount \in Int
  BY WorldTyped DEF PaymentRow, Kept
<1>2. payment_refund_or_void(v, p) \in { refund(v, v.db.payment.captured_amount), void(v), { v } }
  BY DEF payment_refund_or_void
<1> QED
  BY <1>1, <1>2, RefundKept, VoidKept

\* A payment that waited for the customer is decided.
LEMMA DecidedKept ==
    ASSUME NEW w \in Worlds, NEW N, NEW late, NEW v \in Kept(w, N, late), NEW t \in DOMAIN v.refs,
           v.refs[t].op = "payment", v.refs[t].state = "action",
           NEW state \in { "action", "received", "done", "refused" }
    PROVE  /\ Decided(v, t, state) \in Kept(w, N, late)
           /\ t \in DOMAIN Decided(v, t, state).refs /\ Decided(v, t, state).refs[t].op = "payment"
<1>1. v \in Worlds /\ Grows(w, v) /\ Fit(v) /\ NoticesFit(v.refs, v.notices)
  BY DEF Kept, Fit
<1>2. PICK refs, ns : /\ refs = v.refs /\ refs \in Seq(Reference) /\ ns = v.notices /\ ns \in Seq(Notice)
                      /\ t \in DOMAIN refs /\ refs[t] \in Reference /\ t \in Nat
  <2>1. v.refs \in Seq(Reference) /\ v.notices \in Seq(Notice)
    BY <1>1, WorldTyped
  <2>2. v.refs[t] \in Reference /\ t \in Nat
    BY <2>1, ElementOfSeq, LenProperties
  <2> QED
    BY <2>1, <2>2
<1>3. PICK s, rs, x : /\ s = [ refs[t] EXCEPT !.state = state ] /\ rs = [ refs EXCEPT ![t] = s ]
                      /\ x = [ v EXCEPT !.refs[t].state = state ]
  OBVIOUS
<1>4. /\ s \in Reference /\ s.op = "payment" /\ s.amount = refs[t].amount /\ s.state = state
      /\ s.amount \in Nat /\ refs[t].op = "payment" /\ refs[t].state = "action"
  BY <1>2, <1>3 DEF Reference
<1>5. Moves(refs[t], s)
  BY <1>4 DEF Moves
<1>6. x.refs = rs /\ x.db = v.db /\ x.notices = ns
  BY <1>1, <1>2, <1>3 DEF Worlds
<1>7. /\ DOMAIN rs = DOMAIN refs /\ rs[t] = s
      /\ \A u \in DOMAIN refs : u # t => rs[u] = refs[u]
  BY <1>2, <1>3
<1>8. PICK u : u = Decided(v, t, state)
  OBVIOUS
<1>9. u \in Worlds
  BY <1>1, <1>8, DecidedNear DEF Near, Grown
<1>10. /\ u.refs = rs /\ u.db = v.db /\ NoticesFit(rs, u.notices) /\ Extends(refs, rs)
       /\ Says(ns, u.notices)
  <2>1. CASE state = "action"
    <3>1. u = x
      BY <1>3, <1>8, <2>1 DEF Decided
    <3>2. Extends(refs, rs)
      BY <1>5, <1>7 DEF Extends, Moves
    <3>3. \A i \in DOMAIN rs : rs[i].state \notin { "action", "received" } =>
             i \in DOMAIN refs /\ refs[i].state \notin { "action", "received" }
               /\ (rs[i].state = "failed" => refs[i].state = "failed")
      BY <1>4, <1>7, <2>1
    <3>4. NoticesFit(rs, ns)
      BY <1>1, <1>2, <3>2, <3>3, QuietFit
    <3>5. Says(ns, u.notices)
      BY <1>6, <3>1 DEF Says
    <3> QED
      BY <1>6, <3>1, <3>2, <3>4, <3>5
  <2>2. CASE state # "action"
    <3>1. PICK event, success, n, more :
            /\ event = (IF state = "received" THEN "PENDING" ELSE "AUTHORISATION")
            /\ success = (state # "refused")
            /\ n = [ event |-> event, token |-> t, amount |-> s.amount, success |-> success ]
            /\ more = Append(ns, n)
      OBVIOUS
    <3>2. u = Announce(x, event, t, success)
      BY <1>3, <1>8, <2>2, <3>1 DEF Decided
    <3>3. u.refs = rs /\ u.db = v.db /\ u.notices = more
      <4>1. x \in [ db : { v.db }, refs : { rs }, notices : { ns } ]
        BY <1>1, <1>2, <1>3, <1>6 DEF Worlds
      <4> QED
        BY <1>6, <1>7, <3>1, <3>2, <4>1 DEF Announce
    <3>4. event \in Event /\ success \in BOOLEAN
      BY <3>1 DEF Event
    <3>5. n \in Notice /\ n.token = t /\ n.event = event /\ n.success = success /\ n.amount = s.amount
      BY <1>2, <1>4, <3>1, <3>4, Zenon DEF Notice
    <3>6. s.state \notin { "action", "received" } => Answers(n, s)
      BY <1>4, <2>2, <3>1, <3>5 DEF Answers, EventOf, CarriedOut
    <3>7. Answers(n, s) \/ (n.event = "PENDING" /\ s.op = "payment")
      BY <1>4, <2>2, <3>1, <3>5, <3>6
    <3>8. NoticeFits(n, rs)
      BY <1>2, <1>7, <3>5, <3>7 DEF NoticeFits
    <3>9. refs[t].state # "failed" /\ s.state # "failed" /\ NoticesFit(refs, ns)
      BY <1>1, <1>2, <1>4
    <3>10. NoticesFit(rs, more) /\ Extends(refs, rs)
      <4>1. rs = [ refs EXCEPT ![t] = s ] /\ more = Append(ns, n)
        BY <1>3, <3>1
      <4>2. refs \in Seq(Reference) /\ ns \in Seq(Notice) /\ t \in DOMAIN refs /\ s \in Reference /\ n \in Notice
        BY <1>2, <1>4, <3>5
      <4>3. NoticesFit(refs, ns) /\ Moves(refs[t], s) /\ refs[t].state # "failed" /\ n.token = t
        BY <1>5, <3>5, <3>9
      <4>4. /\ s.state \notin { "action", "received" } =>
                 refs[t].state \notin { "action", "received" } \/ Answers(n, s)
            /\ s.state = "failed" => FailsCall(n, s)
        BY <3>6, <3>9
      <4> QED
        BY ONLY <3>8, <4>1, <4>2, <4>3, <4>4, MoveFit
    <3>11. Says(ns, more)
      BY <1>2, <3>1, <3>5, Appended DEF Says
    <3> QED
      BY <3>3, <3>10, <3>11
  <2> QED
    BY <2>1, <2>2
<1>11. \A i \in DOMAIN u.refs : u.refs[i].op = "capture" => MayCapture(w)
  BY <1>1, <1>2, <1>4, <1>7, <1>10 DEF Grows
<1>12. u \in Kept(w, N, late)
  BY <1>2, <1>9, <1>10, <1>11, CallsKept
<1> QED
  BY <1>2, <1>4, <1>7, <1>8, <1>10, <1>12

\* A transaction that is booked for a payment, or for no call.
LEMMA BookKept ==
    ASSUME NEW w \in Worlds, NEW N, NEW late, NEW v \in Kept(w, N, late), NEW x \in TransactionRow,
           TransactionFits(x, v.refs), x.kind # "capture_failed",
           x.token \notin Calling(v, { "refund" })
    PROVE  Book(v, x) \in Kept(w, N, late) /\ Insert(v, x) \in Kept(w, N, late)
<1>1. v \in Worlds
  BY DEF Kept
<1>2. PICK y : y = MarkProcessed(x)
  OBVIOUS
<1>3. y.kind = x.kind /\ y.token = x.token /\ y.is_success = x.is_success /\ y \in TransactionRow
  BY <1>2, MarkKeeps
<1>4. Adds(v, Book(v, x), y) /\ Adds(v, Insert(v, x), x)
  BY <1>1, <1>2, BookAdds, InsertAdds
<1>5. TransactionFits(y, v.refs)
  BY <1>3 DEF TransactionFits, Fits
<1>6. Insert(v, x) \in Kept(w, N, late)
  BY <1>4, AddsKept
<1>7. Book(v, x) \in Kept(w, N, late)
  BY <1>3, <1>4, <1>5, AddsKept
<1> QED
  BY <1>6, <1>7

LEMMA NoCall ==
    ASSUME NEW w \in Worlds, NEW N, NEW late, NEW v \in Kept(w, N, late), NEW x \in TransactionRow,
           x.token = 0, x.kind # "capture_failed"
    PROVE  Book(v, x) \in Kept(w, N, late)
<1>1. v \in Worlds
  BY DEF Kept
<1>2. 0 \notin DOMAIN v.refs
  BY <1>1, WorldTyped
<1>3. TransactionFits(x, v.refs) /\ x.token \notin Calling(v, { "refund" })
  BY <1>2 DEF TransactionFits, Calling
<1> QED
  BY <1>3, BookKept

LEMMA FailedKept ==
    ASSUME NEW w \in Worlds, NEW N, NEW late, NEW v \in Kept(w, N, late),
           NEW kind \in { "capture", "confirm" }
    PROVE  Failed(v, kind).w \in Kept(w, N, late)
<1>1. 0 \in Nat /\ FALSE \in BOOLEAN /\ Total \in Nat /\ kind \in TransactionKind
  BY Kinds
<1>2. PICK x : x = Txn(kind, 0, FALSE, Total)
  OBVIOUS
<1>3. x \in TransactionRow /\ x.token = 0 /\ x.kind = kind
  BY <1>1, <1>2, TxnTyped DEF Txn
<1>4. Book(v, x) \in Kept(w, N, late)
  BY <1>3, NoCall
<1> QED
  BY <1>2, <1>4 DEF Failed

\* What is booked for a call that is no refund.
LEMMA ToldKept ==
    ASSUME NEW w \in Worlds, NEW N, NEW late, NEW v \in Kept(w, N, late), NEW t \in DOMAIN v.refs,
           v.refs[t].op # "refund", NEW ok \in BOOLEAN, NEW kind \in { "auth", "capture", "pending" }
    PROVE  Book(v, Txn(kind, t, ok, Total)) \in Kept(w, N, late)
<1>1. v \in Worlds
  BY DEF Kept
<1>2. t \in Nat /\ Total \in Nat /\ kind \in TransactionKind
  BY <1>1, WorldTyped, Kinds
<1>3. PICK x : x = Txn(kind, t, ok, Total)
  OBVIOUS
<1>4. x \in TransactionRow /\ x.kind = kind /\ x.token = t
  BY <1>2, <1>3, TxnTyped DEF Txn
<1>5. TransactionFits(x, v.refs) /\ x.token \notin Calling(v, { "refund" })
  BY <1>4 DEF TransactionFits, Fits, Calling
<1>6. x.kind # "capture_failed"
  BY <1>4
<1> QED
  BY <1>3, <1>4, <1>5, <1>6, BookKept

LEMMA CallCaptureKept ==
    ASSUME NEW w \in Worlds, NEW N, NEW late, NEW v \in Kept(w, N, late), config.auto_capture,
           NEW token, token = NextToken(v) \/ (token \in DOMAIN v.refs /\ v.refs[token].op # "refund"),
           NEW failed \in { "capture", "confirm" }, NEW c \in call_capture(v, token, failed)
    PROVE  c.w \in Kept(w, N, late)
<1>1. v \in Worlds /\ Total \in Nat
  BY DEF Kept
<1>2. PICK u, x : u = Refer(v, "capture", Total, "received") /\ x = Txn("capture", token, TRUE, Total)
  OBVIOUS
<1>3. Refers(v, u, NextToken(v), "capture", "received")
  BY <1>1, <1>2, ReferFields
<1>4. u \in Kept(w, N, late)
  BY <1>1, <1>2, ReferKept DEF MayCapture
<1>5. token \in DOMAIN u.refs /\ u.refs[token].op # "refund"
  BY <1>3 DEF Refers
<1>6. Book(u, x) \in Kept(w, N, late)
  BY <1>2, <1>4, <1>5, ToldKept
<1>7. c = [ w |-> Book(u, x), ok |-> TRUE ] \/ c = Failed(v, failed)
  BY <1>2 DEF call_capture
<1> QED
  BY <1>6, <1>7, FailedKept

LEMMA AnsweredKept ==
    ASSUME NEW w \in Worlds, NEW N, NEW late, NEW v \in Kept(w, N, late), NEW t \in DOMAIN v.refs,
           v.refs[t].op = "payment", NEW state \in { "action", "received", "done", "refused" },
           NEW kind \in { "auth", "capture" }, NEW failed \in { "capture", "confirm" },
           NEW c \in Answered(v, t, state, kind, failed)
    PROVE  c.w \in Kept(w, N, late)
<1>1. PICK z : z = [ Txn(kind, 0, TRUE, Total) EXCEPT !.action_required = TRUE ]
  OBVIOUS
<1>2. z \in TransactionRow /\ z.kind \in { "auth", "capture" } /\ z.token = 0
  <2>1. PICK q : q = Txn(kind, 0, TRUE, Total)
    OBVIOUS
  <2>2. kind \in TransactionKind /\ 0 \in Nat /\ Total \in Nat /\ TRUE \in BOOLEAN
    BY Kinds
  <2>3. q \in TransactionRow /\ q.kind \in { "auth", "capture" } /\ q.token = 0
    BY <2>1, <2>2, TxnTyped DEF Txn
  <2>4. z = [ q EXCEPT !.action_required = TRUE ]
    BY <1>1, <2>1
  <2> QED
    BY <2>2, <2>3, <2>4, Zenon DEF TransactionRow
<1>3. Book(v, z) \in Kept(w, N, late)
  BY <1>2, NoCall
<1>4. /\ Book(v, Txn("pending", t, TRUE, Total)) \in Kept(w, N, late)
      /\ Book(v, Txn(kind, t, TRUE, Total)) \in Kept(w, N, late)
      /\ Book(v, Txn(kind, t, FALSE, Total)) \in Kept(w, N, late)
  BY ToldKept
<1>5. CASE state = "done" /\ config.auto_capture
  <2>1. c \in call_capture(v, NextToken(v), failed)
    BY <1>5 DEF Answered
  <2>2. PICK token : token = NextToken(v)
    OBVIOUS
  <2> QED
    BY <1>5, <2>1, <2>2, CallCaptureKept
<1>6. ASSUME state # "done" \/ ~config.auto_capture
      PROVE  \/ c = [ w |-> Book(v, Txn("pending", t, TRUE, Total)), ok |-> TRUE ]
             \/ c = [ w |-> Book(v, z), ok |-> TRUE ]
             \/ c = [ w |-> Book(v, Txn(kind, t, FALSE, Total)), ok |-> FALSE ]
             \/ c = [ w |-> Book(v, Txn(kind, t, TRUE, Total)), ok |-> TRUE ]
  <2>1. state = "received" => c = [ w |-> Book(v, Txn("pending", t, TRUE, Total)), ok |-> TRUE ]
    BY DEF Answered
  <2>2. state = "action" => c = [ w |-> Book(v, z), ok |-> TRUE ]
    BY <1>1 DEF Answered
  <2>3. state = "refused" => c = [ w |-> Book(v, Txn(kind, t, FALSE, Total)), ok |-> FALSE ]
    BY DEF Answered
  <2>4. state = "done" => c = [ w |-> Book(v, Txn(kind, t, TRUE, Total)), ok |-> TRUE ]
    BY <1>6 DEF Answered
  <2> QED
    BY <2>1, <2>2, <2>3, <2>4
<1>7. ASSUME NEW x, x \in Kept(w, N, late), NEW ok, c = [ w |-> x, ok |-> ok ]
      PROVE  c.w \in Kept(w, N, late)
  BY <1>7
<1>8. ASSUME state # "done" \/ ~config.auto_capture PROVE c.w \in Kept(w, N, late)
  <2>1. PICK x, ok : x \in Kept(w, N, late) /\ c = [ w |-> x, ok |-> ok ]
    BY <1>3, <1>4, <1>6, <1>8
  <2> QED
    BY <1>7, <2>1
<1> QED
  BY <1>5, <1>8

LEMMA ProcessKept ==
    ASSUME NEW w \in Worlds, NEW N, NEW late, NEW v \in Kept(w, N, late), NEW has_data,
           NEW c \in process_payment(v, has_data)
    PROVE  c.w \in Kept(w, N, late)
<1>1. CASE has_data
  <2>1. PICK t, u : t = NextToken(v) /\ u = Refer(v, "payment", Total, "action")
    OBVIOUS
  <2>2. PICK state \in { "action", "received", "done", "refused" } :
          c \in Answered(Decided(u, t, state), t, state, AuthorizedKind, "capture")
    BY <1>1, <2>1 DEF process_payment
  <2>3. u \in Kept(w, N, late)
    <3>1. "payment" \in { "payment", "capture", "refund", "cancel" } /\ "action" \in { "action", "received" }
      OBVIOUS
    <3> QED
      BY <2>1, <3>1, ReferKept
  <2>4. t \in DOMAIN u.refs /\ u.refs[t].op = "payment" /\ u.refs[t].state = "action"
    <3>1. v \in Worlds /\ Total \in Nat
      BY DEF Kept
    <3>2. Refers(v, u, t, "payment", "action")
      BY <2>1, <3>1, ReferFields
    <3> QED
      BY <3>2 DEF Refers
  <2>5. PICK x : x = Decided(u, t, state)
    OBVIOUS
  <2>6. x \in Kept(w, N, late) /\ t \in DOMAIN x.refs /\ x.refs[t].op = "payment"
    BY <2>3, <2>4, <2>5, DecidedKept
  <2>7. AuthorizedKind \in { "auth", "capture" }
    BY DEF AuthorizedKind
  <2> QED
    BY <2>2, <2>5, <2>6, <2>7, AnsweredKept
<1>2. CASE ~has_data
  <2>1. c = Failed(v, "capture")
    BY <1>2 DEF process_payment
  <2> QED
    BY <2>1, FailedKept
<1> QED
  BY <1>1, <1>2

LEMMA ConfirmKept ==
    ASSUME NEW w \in Worlds, NEW N, NEW late, NEW v \in Kept(w, N, late), NEW has_data,
           NEW c \in confirm(v, has_data)
    PROVE  c.w \in Kept(w, N, late)
<1>1. PICK i, s, token : /\ i = Max(ToldToConfirm(v)) /\ s = Max(AwaitingCustomer(v))
                         /\ token = v.db.transactions[i].token
  OBVIOUS
<1>2. v \in Worlds /\ Fit(v)
  BY DEF Kept
<1>3. ConfirmedKind \in { "auth", "capture" }
  BY DEF ConfirmedKind
<1>4. ToldToConfirm(v) # {} => token \in DOMAIN v.refs /\ v.refs[token].op # "refund"
  <2> SUFFICES ASSUME ToldToConfirm(v) # {}
               PROVE  token \in DOMAIN v.refs /\ v.refs[token].op # "refund"
    OBVIOUS
  <2>1. ToldToConfirm(v) \in SUBSET (1 .. Len(v.db.transactions)) /\ Len(v.db.transactions) \in Nat
    BY <1>2, WorldTyped DEF ToldToConfirm, Done
  <2>2. i \in ToldToConfirm(v)
    BY <1>1, <2>1, MaxIn
  <2>3. /\ i \in DOMAIN v.db.transactions /\ v.db.transactions[i].kind = "action_to_confirm"
        /\ token # 0
    BY <1>1, <2>2 DEF ToldToConfirm, Done
  <2>4. TransactionFits(v.db.transactions[i], v.refs)
    BY <1>2, <2>3 DEF Fit
  <2> QED
    BY <1>1, <2>3, <2>4 DEF TransactionFits, Fits
<1>5. ASSUME ToldToConfirm(v) # {},
             c = [ w |-> Book(v, Txn(ConfirmedKind, token, TRUE, Total)), ok |-> TRUE ]
      PROVE  c.w \in Kept(w, N, late)
  <2>1. Book(v, Txn(ConfirmedKind, token, TRUE, Total)) \in Kept(w, N, late)
    BY <1>3, <1>4, <1>5, ToldKept
  <2> QED
    BY <1>5, <2>1
<1>6. ASSUME ToldToConfirm(v) # {}, config.auto_capture, c \in call_capture(v, token, "confirm")
      PROVE  c.w \in Kept(w, N, late)
  BY <1>4, <1>6, CallCaptureKept
<1>7. ASSUME AwaitingCustomer(v) # {}, NEW state \in { "action", "received", "done", "refused" },
             c \in Answered(Decided(v, s, state), s, state, ConfirmedKind, "confirm")
      PROVE  c.w \in Kept(w, N, late)
  <2>1. AwaitingCustomer(v) \in SUBSET (1 .. Len(v.refs)) /\ Len(v.refs) \in Nat
    BY <1>2, WorldTyped DEF AwaitingCustomer
  <2>2. s \in AwaitingCustomer(v)
    BY <1>1, <1>7, <2>1, MaxIn
  <2>3. s \in DOMAIN v.refs /\ v.refs[s].op = "payment" /\ v.refs[s].state = "action"
    BY <2>2 DEF AwaitingCustomer
  <2>4. PICK x : x = Decided(v, s, state)
    OBVIOUS
  <2>5. x \in Kept(w, N, late) /\ s \in DOMAIN x.refs /\ x.refs[s].op = "payment"
    BY <2>3, <2>4, DecidedKept
  <2> QED
    BY <1>3, <1>7, <2>4, <2>5, AnsweredKept
<1>8. c = [ w |-> v, ok |-> TRUE ] => c.w \in Kept(w, N, late)
  OBVIOUS
<1>9. c = Failed(v, "confirm") => c.w \in Kept(w, N, late)
  BY FailedKept
<1> QED
  BY <1>1, <1>5, <1>6, <1>7, <1>8, <1>9, ConfirmLeads

LEMMA PlaceKept ==
    ASSUME NEW w \in Worlds, NEW N, NEW late, NEW v \in Kept(w, N, late)
    PROVE  PlaceOrder(v) \in Kept(w, N, late)
<1>1. v \in Worlds /\ Grows(w, v) /\ Fit(v) /\ Books(v, N, late)
  BY DEF Kept
<1>2. PICK u : u = PlaceOrder(v)
  OBVIOUS
<1>3. u \in Worlds
  BY <1>1, <1>2, NearItself, PlaceAfter DEF After, Grown
<1>4. /\ u.db.transactions = v.db.transactions /\ u.db.payment = v.db.payment
      /\ u.refs = v.refs /\ u.notices = v.notices /\ u.db.orders = v.db.orders + 1
  BY <1>1, <1>2, WorldTyped DEF PlaceOrder, Worlds, Rows
<1>5. HasOrder(u)
  <2>1. v.db.orders \in Nat
    BY <1>1, WorldTyped
  <2> QED
    BY <1>4, <2>1 DEF HasOrder
<1>6. Fit(u)
  BY <1>1, <1>4, <1>5 DEF Fit, MayCapture
<1>7. Books(u, N, late)
  BY <1>1, <1>4 DEF Books, CancelsOK, FailuresOK, RefundsOK, ToldCaptureOK, Calling, Done
<1>8. Grows(w, u)
  BY <1>1, <1>4, <1>5 DEF Grows
<1> QED
  BY <1>2, <1>3, <1>6, <1>7, <1>8 DEF Kept

LEMMA CompleteKept ==
    ASSUME NEW w \in Worlds, NEW N, NEW late, NEW v \in Kept(w, N, late), NEW seen, NEW has_data
    PROVE  complete_checkout(v, seen, has_data) \subseteq Kept(w, N, late)
<1> SUFFICES ASSUME NEW u \in complete_checkout(v, seen, has_data) PROVE u \in Kept(w, N, late)
  OBVIOUS
<1>1. CASE ~seen.is_active
  BY <1>1 DEF complete_checkout
<1>2. CASE seen.is_active
  <2>1. PICK charged : charged = IF seen.to_confirm THEN confirm(v, has_data)
                                                    ELSE process_payment(v, has_data)
    OBVIOUS
  <2>2. \A c \in charged : c.w \in Kept(w, N, late)
    BY <2>1, ConfirmKept, ProcessKept
  <2>3. \/ u \in payment_refund_or_void(v, seen)
        \/ \E c \in charged : u = c.w
        \/ \E c \in charged : u \in payment_refund_or_void(c.w, c.w.db.payment)
        \/ \E c \in charged : u = PlaceOrder(c.w)
    BY <1>2, <2>1, CompleteLeads
  <2>4. ASSUME NEW c \in charged, u \in payment_refund_or_void(c.w, c.w.db.payment)
        PROVE  u \in Kept(w, N, late)
    BY <2>2, <2>4, RefundOrVoidKept
  <2>5. ASSUME NEW c \in charged, u = PlaceOrder(c.w)
        PROVE  u \in Kept(w, N, late)
    BY <2>2, <2>5, PlaceKept
  <2>6. u \in payment_refund_or_void(v, seen) => u \in Kept(w, N, late)
    BY RefundOrVoidKept
  <2> QED
    BY <2>2, <2>3, <2>4, <2>5, <2>6
<1> QED
  BY <1>1, <1>2

LEMMA CreateKept ==
    ASSUME NEW w \in Worlds, NEW N, NEW late, NEW v \in Kept(w, N, late)
    PROVE  create_order(v) \subseteq Kept(w, N, late)
<1> SUFFICES ASSUME NEW u \in create_order(v) PROVE u \in Kept(w, N, late)
  OBVIOUS
<1>1. PICK x \in complete_checkout(v, v.db.payment, FALSE) :
        u \in (IF HasOrder(x) THEN { x } ELSE payment_refund_or_void(x, v.db.payment))
  BY Zenon DEF create_order
<1>2. x \in Kept(w, N, late)
  BY <1>1, CompleteKept
<1> QED
  BY <1>1, <1>2, RefundOrVoidKept

-----------------------------------------------------------------------------
(* A notification n is accepted.                                           *)

LEMMA HeardMore ==
    ASSUME NEW N, NEW n, NEW M, M = N \cup { n }, NEW t, NEW events
    PROVE  /\ Heard(N, t, events) \in BOOLEAN /\ Heard(M, t, events) \in BOOLEAN
           /\ Heard(N, t, events) => Heard(M, t, events)
           /\ Heard(M, t, events) =>
                Heard(N, t, events) \/ (n.token = t /\ n.event \in events /\ n.success)
           /\ n.token = t /\ n.event \in events /\ n.success => Heard(M, t, events)
<1>1. Heard(M, t, events) => Heard(N, t, events) \/ (n.token = t /\ n.event \in events /\ n.success)
  BY DEF Heard
<1>2. n.token = t /\ n.event \in events /\ n.success => Heard(M, t, events)
  BY DEF Heard
<1>3. Heard(N, t, events) => Heard(M, t, events)
  BY DEF Heard
<1>4. Heard(N, t, events) \in BOOLEAN /\ Heard(M, t, events) \in BOOLEAN
  BY DEF Heard
<1> QED
  BY <1>1, <1>2, <1>3, <1>4

LEMMA HeardSame ==
    ASSUME NEW N, NEW n, NEW M, M = N \cup { n }, NEW t, NEW events,
           n.token # t \/ n.event \notin events
    PROVE  Heard(M, t, events) = Heard(N, t, events)
<1>1. /\ Heard(N, t, events) \in BOOLEAN /\ Heard(M, t, events) \in BOOLEAN
      /\ Heard(N, t, events) => Heard(M, t, events)
      /\ Heard(M, t, events) =>
           Heard(N, t, events) \/ (n.token = t /\ n.event \in events /\ n.success)
  BY HeardMore
<1>2. Heard(M, t, events) => Heard(N, t, events)
  BY <1>1
<1> QED
  BY ONLY <1>1, <1>2

\* It is about the kinds of calls that its event is about.
LEMMA EventIsOf ==
    ASSUME NEW w \in Worlds, NEW n \in Notice, NoticeFits(n, w.refs)
    PROVE  /\ n.token \in DOMAIN w.refs /\ n.token \in Nat \ { 0 } /\ n.amount = w.refs[n.token].amount
           /\ n.event \in { "AUTHORISATION", "PENDING" } => w.refs[n.token].op = "payment"
           /\ n.event = "CAPTURE" => w.refs[n.token].op = "capture"
           /\ n.event = "CAPTURE_FAILED" =>
                w.refs[n.token].op \in { "payment", "capture" } /\ n.success
           /\ n.event \in { "REFUND", "REFUND_FAILED", "REFUNDED_REVERSED" } =>
                w.refs[n.token].op = "refund"
           /\ n.event \in { "REFUND_FAILED", "REFUNDED_REVERSED" } =>
                n.success /\ w.refs[n.token].state = "failed"
           /\ n.event = "CANCELLATION" => w.refs[n.token].op = "cancel"
           /\ n.event \in { "REFUND", "CANCELLATION" } =>
                /\ w.refs[n.token].state \notin { "action", "received" }
                /\ n.success = (w.refs[n.token].state \in CarriedOut)
<1>1. PICK r : r = w.refs[n.token]
  OBVIOUS
<1>2. n.token \in DOMAIN w.refs /\ n.token \in Nat \ { 0 } /\ n.amount = r.amount
  BY <1>1, WorldTyped DEF NoticeFits
<1>3. r \in Reference
  BY <1>1, <1>2, WorldTyped, ElementOfSeq
<1>4. r.op \in { "payment", "capture", "refund", "cancel" }
  BY <1>3 DEF Reference
<1>5. Answers(n, r) \/ FailsCall(n, r) \/ (n.event = "PENDING" /\ r.op = "payment")
  BY <1>1 DEF NoticeFits
<1>6. CASE Answers(n, r)
  BY <1>1, <1>2, <1>4, <1>6 DEF Answers, EventOf
<1>7. CASE FailsCall(n, r)
  BY <1>1, <1>2, <1>4, <1>7 DEF FailsCall, Fails
<1>8. CASE n.event = "PENDING" /\ r.op = "payment"
  BY <1>1, <1>2, <1>8
<1> QED
  BY <1>5, <1>6, <1>7, <1>8

\* What n does not say stays as it is; late may become true.
LEMMA Unsaid ==
    ASSUME NEW w \in Worlds, NEW N, NEW late, NEW n \in Notice, NoticeFits(n, w.refs),
           Books(w, N, late), NEW M, M = N \cup { n }, NEW later, late => later
    PROVE  /\ \A m \in M : m.token \in DOMAIN w.refs
           /\ n.event # "CANCELLATION" => CancelsOK(w, M)
           /\ w.db.payment.is_active /\ n.event # "CAPTURE_FAILED" => FailuresOK(w, M)
           /\ w.db.payment.is_active /\ n.event # "CAPTURE" => ToldCaptureOK(w, M)
           /\ w.db.payment.is_active /\ ~later
                /\ n.event \notin { "REFUND", "REFUND_FAILED", "REFUNDED_REVERSED" } => RefundsOK(w, M)
<1>1. \A m \in M : m.token \in DOMAIN w.refs
  BY DEF Books, NoticeFits
<1>2. ASSUME NEW t, NEW events, n.token # t \/ n.event \notin events
      PROVE  Heard(M, t, events) = Heard(N, t, events)
  <2>1. M = N \cup { n }
    OBVIOUS
  <2> QED
    BY ONLY <1>2, <2>1, HeardSame
<1>3. ASSUME n.event # "CANCELLATION" PROVE CancelsOK(w, M)
  <2>1. \A t : Heard(M, t, { "CANCELLATION" }) = Heard(N, t, { "CANCELLATION" })
    BY <1>2, <1>3
  <2> QED
    BY <2>1 DEF Books, CancelsOK, CancelOK
<1>4. ASSUME w.db.payment.is_active, n.event # "CAPTURE_FAILED" PROVE FailuresOK(w, M)
  <2>1. \A t \in Calling(w, { "payment", "capture" }) : Heard(M, t, Fails) = Heard(N, t, Fails)
    <3>1. TAKE t \in Calling(w, { "payment", "capture" })
    <3>2. n.token # t \/ n.event \notin Fails
      BY <1>4, EventIsOf DEF Calling, Fails
    <3> QED
      BY <1>2, <3>2
  <2> QED
    BY <1>4, <2>1 DEF Books, FailuresOK, FailureOK
<1>5. w.db.payment.is_active /\ n.event # "CAPTURE" => ToldCaptureOK(w, M)
  BY DEF Books, ToldCaptureOK
<1>6. ASSUME w.db.payment.is_active, ~later,
             n.event \notin { "REFUND", "REFUND_FAILED", "REFUNDED_REVERSED" }
      PROVE  RefundsOK(w, M)
  <2> SUFFICES ASSUME NEW t \in Calling(w, { "refund" })
               PROVE  RefundOK(w.db.transactions, w.refs[t].amount, M, t)
    BY DEF RefundsOK
  <2>1. n.token # t \/ n.event \notin Fails
    BY <1>6, EventIsOf DEF Calling, Fails
  <2>2. /\ Heard(M, t, Fails) = Heard(N, t, Fails)
        /\ Heard(M, t, { "REFUND" }) = Heard(N, t, { "REFUND" })
        /\ Heard(M, t, { "REFUND_FAILED" }) = Heard(N, t, { "REFUND_FAILED" })
        /\ Heard(M, t, { "REFUNDED_REVERSED" }) = Heard(N, t, { "REFUNDED_REVERSED" })
    BY <1>2, <1>6, <2>1
  <2>3. RefundOK(w.db.transactions, w.refs[t].amount, N, t)
    BY <1>6 DEF Books, RefundsOK
  <2> QED
    BY <2>2, <2>3 DEF RefundOK
<1> QED
  BY <1>1, <1>3, <1>4, <1>5, <1>6

-----------------------------------------------------------------------------
(* What each notification n of a refund adds to its transactions.          *)

LEMMA RefundTold ==
    ASSUME NEW ts, NEW y, NEW us, Longer(us, ts, y), NEW N, NEW n, NEW M, M = N \cup { n },
           NEW amount \in Nat, RefundOK(ts, amount, N, y.token),
           n.token = y.token, n.event = "REFUND", n.success,
           y.kind = "refund", y.is_success, Added(y) = -amount,
           ~Heard(N, y.token, { "REFUND" }), ~Heard(N, y.token, Fails)
    PROVE  RefundOK(us, amount, M, y.token)
<1>1. PICK t, k : t = y.token /\ k = Len(ts) + 1
  OBVIOUS
<1>2. Heard(M, t, { "REFUND" }) = TRUE
  BY <1>1, HeardMore
<1>3. /\ ~Heard(M, t, Fails) /\ ~Heard(M, t, { "REFUND_FAILED" }) /\ ~Heard(M, t, { "REFUNDED_REVERSED" })
  <2>1. n.event \notin Fails
    BY DEF Fails
  <2>2. ~Heard(M, t, Fails)
    BY <1>1, <2>1, HeardMore
  <2> QED
    BY <2>2 DEF Heard, Fails
<1>4. \E i \in Of(us, t, { "refund" }) : us[i].is_success
  <2>1. PICK kinds : kinds = { "refund" } /\ y.kind \in kinds
    OBVIOUS
  <2>2. OneMore(us, ts, y, kinds)
    BY <2>1, OfLonger
  <2> QED
    BY <1>1, <2>1, <2>2 DEF OneMore
<1>5. BookedIn(us, t) = -amount
  <2>1. BookedIn(ts, t) = 0
    BY <1>1 DEF RefundOK
  <2>2. y.token = t => BookedIn(us, t) = BookedIn(ts, t) + Added(y)
    BY BookedAppend
  <2>3. BookedIn(us, t) = 0 + (-amount)
    BY <1>1, <2>1, <2>2
  <2> QED
    BY <2>3
<1>6. Latest(us, t, "refund")
  BY <1>1, LatestIs
<1>7. Of(us, t, { "refund_failed", "refund_reversed" }) = {}
  <2>1. Of(ts, t, { "refund_failed", "refund_reversed" }) = {}
    BY <1>1 DEF RefundOK
  <2>2. y.kind \notin { "refund_failed", "refund_reversed" }
    OBVIOUS
  <2> QED
    BY <2>1, <2>2, OfUnchanged
<1>8. RefundOK(us, amount, M, t)
  BY <1>2, <1>3, <1>4, <1>5, <1>6, <1>7 DEF RefundOK
<1> QED
  BY <1>1, <1>8

\* Of a refund that Adyen refused nothing is heard.
LEMMA RefundRefused ==
    ASSUME NEW ts, NEW y, NEW us, Longer(us, ts, y), NEW N, NEW M,
           NEW amount \in Nat, RefundOK(ts, amount, N, y.token),
           y.kind = "refund", ~y.is_success, Added(y) = 0,
           \A events : ~Heard(N, y.token, events), \A events : ~Heard(M, y.token, events)
    PROVE  RefundOK(us, amount, M, y.token)
<1>1. PICK t : t = y.token
  OBVIOUS
<1>2. /\ Heard(N, t, { "REFUND" }) = FALSE /\ Heard(M, t, { "REFUND" }) = FALSE
      /\ ~Heard(N, t, Fails) /\ ~Heard(M, t, Fails)
  BY <1>1 DEF Heard
<1>3. (\E i \in Of(us, t, { "refund" }) : us[i].is_success) = FALSE
  <2>1. PICK kinds : kinds = { "refund" } /\ y.kind \in kinds
    OBVIOUS
  <2>2. /\ Of(us, t, { "refund" }) = Of(ts, t, { "refund" }) \cup { Len(ts) + 1 } /\ us[Len(ts) + 1] = y
        /\ \A i \in Of(ts, t, { "refund" }) : us[i] = ts[i]
    <3>1. OneMore(us, ts, y, kinds)
      BY <2>1, OfLonger
    <3> QED
      BY <1>1, <2>1, <3>1 DEF OneMore
  <2>3. ~(\E i \in Of(ts, t, { "refund" }) : ts[i].is_success)
    BY <1>1, <1>2 DEF RefundOK
  <2> QED
    BY <2>2, <2>3
<1>4. BookedIn(us, t) = 0
  <2>1. BookedIn(ts, t) = 0
    BY <1>1, <1>2 DEF RefundOK
  <2>2. y.token = t => BookedIn(us, t) = BookedIn(ts, t) + Added(y)
    BY BookedAppend
  <2>3. BookedIn(us, t) = 0 + 0
    BY <1>1, <2>1, <2>2
  <2> QED
    BY <2>3
<1>5. Of(us, t, { "refund_failed", "refund_reversed" }) = {}
  <2>1. Of(ts, t, { "refund_failed", "refund_reversed" }) = {}
    BY <1>1, <1>2 DEF RefundOK
  <2>2. y.kind \notin { "refund_failed", "refund_reversed" }
    OBVIOUS
  <2> QED
    BY <2>1, <2>2, OfUnchanged
<1>6. RefundOK(us, amount, M, t)
  BY <1>1, <1>2, <1>3, <1>4, <1>5 DEF RefundOK
<1> QED
  BY <1>1, <1>6

\* A notification n that a call failed is the only one.
OneFailure(N, n) == \A m \in N : m.token = n.token /\ m.event \in Fails => m = n

\* What was heard of refunds, by a notification that a refund failed.
LEMMA FailureHeard ==
    ASSUME NEW N, NEW n, NEW M, M = N \cup { n }, NEW t, n.token = t, n.success,
           n.event \in { "REFUND_FAILED", "REFUNDED_REVERSED" },
           OneFailure(N, n)
    PROVE  /\ Heard(M, t, Fails) /\ Heard(M, t, { "REFUND" }) = Heard(N, t, { "REFUND" })
           /\ n.event = "REFUND_FAILED" =>
                /\ Heard(M, t, { "REFUND_FAILED" }) /\ ~Heard(M, t, { "REFUNDED_REVERSED" })
                /\ Heard(N, t, Fails) => Heard(N, t, { "REFUND_FAILED" })
           /\ n.event = "REFUNDED_REVERSED" =>
                /\ Heard(M, t, { "REFUNDED_REVERSED" }) /\ ~Heard(M, t, { "REFUND_FAILED" })
                /\ Heard(N, t, Fails) => Heard(N, t, { "REFUNDED_REVERSED" })
<1>1. n.event \in Fails /\ n.event # "REFUND"
  BY DEF Fails
<1>2. Heard(M, t, Fails) /\ Heard(M, t, { n.event })
  BY <1>1 DEF Heard
<1>3. Heard(M, t, { "REFUND" }) = Heard(N, t, { "REFUND" })
  BY <1>1, HeardMore
<1>4. Heard(N, t, Fails) => Heard(N, t, { n.event })
  BY DEF Heard, OneFailure
<1>5. \A event \in Fails : event # n.event => ~Heard(M, t, { event })
  BY DEF Heard, OneFailure
<1>6. "REFUND_FAILED" \in Fails /\ "REFUNDED_REVERSED" \in Fails
  BY DEF Fails
<1>7. CASE n.event = "REFUND_FAILED"
  BY <1>2, <1>3, <1>4, <1>5, <1>6, <1>7
<1>8. CASE n.event = "REFUNDED_REVERSED"
  BY <1>2, <1>3, <1>4, <1>5, <1>6, <1>8
<1> QED
  BY <1>7, <1>8

\* What they add is booked by the others: two transactions, x and y.
LEMMA RefundFailed ==
    ASSUME NEW ts, NEW x, NEW us, Longer(us, ts, x), NEW y, NEW vs, Longer(vs, us, y),
           NEW N, NEW n, NEW M, M = N \cup { n }, NEW t, n.token = t, n.success,
           n.event = "REFUND_FAILED", OneFailure(N, n),
           NEW amount \in Nat, RefundOK(ts, amount, N, t),
           x.token = t, x.kind = "refund_failed", Added(x) = 0,
           y.token = t, y.kind \in { "auth", "capture" }, Asked(ts, t) # {}, 
           ~Latest(ts, t, "refund_failed"),
           Heard(N, t, { "REFUND" }) => Added(y) = amount
    PROVE  RefundOK(vs, amount, M, t)
<1>1. /\ Heard(M, t, Fails) /\ Heard(M, t, { "REFUND" }) = Heard(N, t, { "REFUND" })
      /\ Heard(M, t, { "REFUND_FAILED" }) /\ ~Heard(M, t, { "REFUNDED_REVERSED" })
  BY FailureHeard
<1>2. ~Heard(N, t, Fails)
  <2>1. Heard(N, t, Fails) => Heard(N, t, { "REFUND_FAILED" })
    BY DEF Heard, OneFailure
  <2> QED
    BY <2>1 DEF RefundOK
<1>3. /\ Of(vs, t, { "refund" }) = Of(ts, t, { "refund" })
      /\ \A i \in Of(ts, t, { "refund" }) : vs[i] = ts[i]
  <2>1. x.kind \notin { "refund" } /\ y.kind \notin { "refund" }
    OBVIOUS
  <2>2. /\ Of(us, t, { "refund" }) = Of(ts, t, { "refund" })
        /\ \A i \in Of(ts, t, { "refund" }) : us[i] = ts[i]
    BY <2>1, OfUnchanged
  <2>3. /\ Of(vs, t, { "refund" }) = Of(us, t, { "refund" })
        /\ \A i \in Of(us, t, { "refund" }) : vs[i] = us[i]
    BY <2>1, OfUnchanged
  <2> QED
    BY <2>2, <2>3
<1>4. Heard(M, t, { "REFUND" }) = (\E i \in Of(vs, t, { "refund" }) : vs[i].is_success)
  <2>1. Heard(N, t, { "REFUND" }) = (\E i \in Of(ts, t, { "refund" }) : ts[i].is_success)
    BY DEF RefundOK
  <2>2. (\E i \in Of(vs, t, { "refund" }) : vs[i].is_success) = (\E i \in Of(ts, t, { "refund" }) : ts[i].is_success)
    BY <1>3
  <2> QED
    BY <1>1, <2>1, <2>2
<1>5. ASSUME Heard(N, t, { "REFUND" }) PROVE BookedIn(vs, t) = 0
  <2>1. BookedIn(ts, t) = -amount
    BY <1>2, <1>5 DEF RefundOK
  <2>2. x.token = t => BookedIn(us, t) = BookedIn(ts, t) + Added(x)
    BY BookedAppend
  <2>3. y.token = t => BookedIn(vs, t) = BookedIn(us, t) + Added(y)
    BY BookedAppend
  <2>4. BookedIn(us, t) = -amount + 0
    BY <2>1, <2>2
  <2>5. BookedIn(vs, t) = (-amount + 0) + amount
    BY <1>5, <2>3, <2>4
  <2> QED
    BY <2>5
<1>6. Latest(vs, t, "refund_failed")
  <2>1. Latest(us, t, "refund_failed")
    BY LatestIs
  <2>2. Latest(vs, t, "refund_failed") = Latest(us, t, "refund_failed")
    BY LatestIs
  <2> QED
    BY <2>1, <2>2
<1> QED
  BY <1>1, <1>4, <1>5, <1>6 DEF RefundOK

LEMMA RefundReversed ==
    ASSUME NEW ts, NEW y, NEW us, Longer(us, ts, y),
           NEW N, NEW n, NEW M, M = N \cup { n }, NEW t, n.token = t, n.success,
           n.event = "REFUNDED_REVERSED", OneFailure(N, n),
           NEW amount \in Nat, RefundOK(ts, amount, N, t),
           y.token = t, y.kind = "refund_reversed", Added(y) = amount,
           Of(ts, t, { "refund_reversed" }) = {}
    PROVE  RefundOK(us, amount, M, t)
<1>1. /\ Heard(M, t, Fails) /\ Heard(M, t, { "REFUND" }) = Heard(N, t, { "REFUND" })
      /\ Heard(M, t, { "REFUNDED_REVERSED" }) /\ ~Heard(M, t, { "REFUND_FAILED" })
  BY FailureHeard
<1>2. ~Heard(N, t, Fails)
  <2>1. Heard(N, t, Fails) => Heard(N, t, { "REFUNDED_REVERSED" })
    BY DEF Heard, OneFailure
  <2> QED
    BY <2>1 DEF RefundOK
<1>3. Heard(M, t, { "REFUND" }) = (\E i \in Of(us, t, { "refund" }) : us[i].is_success)
  <2>1. y.kind \notin { "refund" }
    OBVIOUS
  <2>2. /\ Of(us, t, { "refund" }) = Of(ts, t, { "refund" })
        /\ \A i \in Of(ts, t, { "refund" }) : us[i] = ts[i]
    BY <2>1, OfUnchanged
  <2>3. Heard(N, t, { "REFUND" }) = (\E i \in Of(ts, t, { "refund" }) : ts[i].is_success)
    BY DEF RefundOK
  <2>4. (\E i \in Of(us, t, { "refund" }) : us[i].is_success) = (\E i \in Of(ts, t, { "refund" }) : ts[i].is_success)
    BY <2>2
  <2> QED
    BY <1>1, <2>3, <2>4
<1>4. ASSUME Heard(N, t, { "REFUND" }) PROVE BookedIn(us, t) = 0
  <2>1. BookedIn(ts, t) = -amount
    BY <1>2, <1>4 DEF RefundOK
  <2>2. y.token = t => BookedIn(us, t) = BookedIn(ts, t) + Added(y)
    BY BookedAppend
  <2>3. BookedIn(us, t) = -amount + amount
    BY <2>1, <2>2
  <2> QED
    BY <2>3
<1>5. Of(us, t, { "refund_reversed" }) # {}
  <2>1. PICK kinds : kinds = { "refund_reversed" } /\ y.kind \in kinds
    OBVIOUS
  <2>2. OneMore(us, ts, y, kinds)
    BY <2>1, OfLonger
  <2> QED
    BY <2>1, <2>2 DEF OneMore
<1> QED
  BY <1>1, <1>3, <1>4, <1>5 DEF RefundOK

\* A failure that has been booked.
LEMMA FailureKnown ==
    ASSUME NEW ts, NEW N, NEW n, NEW M, M = N \cup { n }, NEW t, n.token = t, n.success,
           n.event \in { "REFUND_FAILED", "REFUNDED_REVERSED" },
           OneFailure(N, n),
           NEW amount, RefundOK(ts, amount, N, t),
           n.event = "REFUND_FAILED" => Asked(ts, t) = {} \/ Latest(ts, t, "refund_failed"),
           n.event = "REFUNDED_REVERSED" => Of(ts, t, { "refund_reversed" }) # {}
    PROVE  RefundOK(ts, amount, M, t)
<1>1. /\ Heard(M, t, Fails) /\ Heard(M, t, { "REFUND" }) = Heard(N, t, { "REFUND" })
      /\ n.event = "REFUND_FAILED" => ~Heard(M, t, { "REFUNDED_REVERSED" })
      /\ n.event = "REFUNDED_REVERSED" => ~Heard(M, t, { "REFUND_FAILED" })
  BY FailureHeard
<1>2. \A kinds, i : i \in Of(ts, t, kinds) => i \in DOMAIN ts /\ ts[i].token = t /\ ts[i].kind \in kinds
  BY DEF Of
<1>3. ASSUME Heard(N, t, { "REFUND" }) PROVE Heard(N, t, Fails)
  <2> SUFFICES ASSUME ~Heard(N, t, Fails) PROVE FALSE
    OBVIOUS
  <2>1. Latest(ts, t, "refund") /\ Of(ts, t, { "refund_failed", "refund_reversed" }) = {}
    BY <1>3 DEF RefundOK
  <2>2. Asked(ts, t) # {} /\ ~Latest(ts, t, "refund_failed") /\ Of(ts, t, { "refund_reversed" }) = {}
    BY <2>1 DEF Latest, Asked, Of
  <2> QED
    BY <2>2
<1>4. ASSUME Heard(N, t, { "REFUND" }) PROVE BookedIn(ts, t) = 0
  BY <1>3, <1>4 DEF RefundOK
<1> QED
  BY <1>1, <1>4 DEF RefundOK

-----------------------------------------------------------------------------
(* webhooks.py keeps the invariant.                                        *)

\* The notification n, which comes to the world w, makes M of the accepted
\* ones.  Unless it comes late, the success of a refund is told before its
\* failure.
Accepting(w, N, late, n, M, later) ==
    /\ Fit(w) /\ Books(w, N, late) /\ M = N \cup { n } /\ (late => later)
    /\ \A m \in M : NoticeFits(m, w.refs)
    /\ n.event = "REFUND" /\ n.success /\ ~later =>
         ~Heard(N, n.token, Fails) \/ Heard(N, n.token, { "REFUND" })
    /\ n.event \in Fails => OneFailure(N, n)

LEMMA PartsKept ==
    ASSUME NEW w \in Worlds, NEW v \in Worlds, Fit(w), Fit(v), v.refs = w.refs,
           v.notices = w.notices, HasOrder(w) => HasOrder(v), NEW M, NEW later,
           \A m \in M : m.token \in DOMAIN w.refs, CancelsOK(v, M),
           v.db.payment.is_active => FailuresOK(v, M) /\ ToldCaptureOK(v, M),
           v.db.payment.is_active /\ ~later => RefundsOK(v, M)
    PROVE  v \in Kept(w, M, later)
<1>1. Grows(w, v)
  BY DEF Grows, Extends, Moves, Says, Fit
<1>2. Books(v, M, later)
  BY DEF Books
<1> QED
  BY <1>1, <1>2 DEF Kept

\* What n does not say stays as it is, and what it says is so already.
LEMMA AcceptedKept ==
    ASSUME NEW w \in Worlds, NEW N, NEW late, NEW n \in Notice, NEW M, NEW later,
           Accepting(w, N, late, n, M, later),
           n.event = "CANCELLATION" => CancelsOK(w, M),
           n.event = "CAPTURE_FAILED" /\ w.db.payment.is_active => FailuresOK(w, M),
           n.event = "CAPTURE" /\ w.db.payment.is_active => ToldCaptureOK(w, M),
           n.event \in { "REFUND", "REFUND_FAILED", "REFUNDED_REVERSED" }
             /\ w.db.payment.is_active /\ ~later => RefundsOK(w, M)
    PROVE  w \in Kept(w, M, later)
<1>1. Fit(w) /\ Books(w, N, late) /\ M = N \cup { n } /\ (late => later) /\ NoticeFits(n, w.refs)
  BY DEF Accepting
<1>2. /\ \A m \in M : m.token \in DOMAIN w.refs
      /\ n.event # "CANCELLATION" => CancelsOK(w, M)
      /\ w.db.payment.is_active /\ n.event # "CAPTURE_FAILED" => FailuresOK(w, M)
      /\ w.db.payment.is_active /\ n.event # "CAPTURE" => ToldCaptureOK(w, M)
      /\ w.db.payment.is_active /\ ~later
           /\ n.event \notin { "REFUND", "REFUND_FAILED", "REFUNDED_REVERSED" } => RefundsOK(w, M)
  BY <1>1, Unsaid
<1>3. CancelsOK(w, M) /\ (w.db.payment.is_active => FailuresOK(w, M) /\ ToldCaptureOK(w, M))
  BY <1>2
<1>4. w.db.payment.is_active /\ ~later => RefundsOK(w, M)
  BY <1>2
<1> QED
  BY <1>1, <1>2, <1>3, <1>4, PartsKept

\* The same with one transaction more, which says what n says.
LEMMA AddedKept ==
    ASSUME NEW w \in Worlds, NEW N, NEW late, NEW n \in Notice, NEW M, NEW later,
           Accepting(w, N, late, n, M, later),
           NEW v, NEW y, Adds(w, v, y), TransactionFits(y, w.refs), y.token = n.token,
           n.event # "CAPTURE_FAILED" => y.kind # "capture_failed",
           n.event = "CANCELLATION" => CancelsOK(v, M),
           n.event = "CAPTURE_FAILED" /\ v.db.payment.is_active => FailuresOK(v, M),
           n.event = "CAPTURE" /\ v.db.payment.is_active => ToldCaptureOK(v, M),
           n.event \in { "REFUND", "REFUND_FAILED", "REFUNDED_REVERSED" }
             /\ v.db.payment.is_active /\ ~later => RefundsOK(v, M)
    PROVE  v \in Kept(w, M, later)
<1>1. Fit(w) /\ Books(w, N, late) /\ M = N \cup { n } /\ (late => later) /\ NoticeFits(n, w.refs)
  BY DEF Accepting
<1>2. /\ \A m \in M : m.token \in DOMAIN w.refs
      /\ n.event # "CANCELLATION" => CancelsOK(w, M)
      /\ w.db.payment.is_active /\ n.event # "CAPTURE_FAILED" => FailuresOK(w, M)
      /\ w.db.payment.is_active /\ n.event # "CAPTURE" => ToldCaptureOK(w, M)
      /\ w.db.payment.is_active /\ ~later
           /\ n.event \notin { "REFUND", "REFUND_FAILED", "REFUNDED_REVERSED" } => RefundsOK(w, M)
  BY <1>1, Unsaid
<1>3. /\ CancelsOK(w, M) => CancelsOK(v, M)
      /\ FailuresOK(w, M) /\ y.kind # "capture_failed" => FailuresOK(v, M)
      /\ ToldCaptureOK(w, M) => ToldCaptureOK(v, M)
      /\ RefundsOK(w, M) =>
           \A t \in Calling(w, { "refund" }) :
             t # y.token => RefundOK(v.db.transactions, v.refs[t].amount, M, t)
      /\ Calling(v, { "refund" }) = Calling(w, { "refund" })
  BY AddsParts
<1>4. /\ v \in Worlds /\ v.refs = w.refs /\ v.notices = w.notices /\ HasOrder(v) = HasOrder(w)
      /\ v.db.payment.is_active => w.db.payment.is_active
  BY AddsFields
<1>5. Fit(v)
  BY <1>1, AddsFit
<1>6. CancelsOK(v, M)
  BY <1>2, <1>3
<1>7. v.db.payment.is_active => FailuresOK(v, M) /\ ToldCaptureOK(v, M)
  BY <1>2, <1>3, <1>4
<1>8. ASSUME v.db.payment.is_active, ~later PROVE RefundsOK(v, M)
  <2>1. CASE n.event \in { "REFUND", "REFUND_FAILED", "REFUNDED_REVERSED" }
    BY <1>8, <2>1
  <2>2. CASE n.event \notin { "REFUND", "REFUND_FAILED", "REFUNDED_REVERSED" }
    <3>1. y.token \notin Calling(w, { "refund" })
      <4>1. w.refs[n.token].op # "refund"
        <5>1. n.event \in Event
          BY DEF Notice
        <5>2. n.event \in { "AUTHORISATION", "PENDING", "CAPTURE", "CAPTURE_FAILED", "CANCELLATION" }
          BY <2>2, <5>1 DEF Event
        <5> QED
          BY <1>1, <5>2, EventIsOf
      <4> QED
        BY <4>1 DEF Calling
    <3> QED
      BY <1>2, <1>3, <1>4, <1>8, <2>2, <3>1 DEF RefundsOK
  <2> QED
    BY <2>1, <2>2
<1> QED
  BY <1>1, <1>2, <1>4, <1>5, <1>6, <1>7, <1>8, PartsKept

\* What is said of the other calls is not changed by n.
LEMMA OthersUnheard ==
    ASSUME NEW N, NEW n, NEW M, M = N \cup { n }, NEW t, t # n.token, NEW ts, NEW amount
    PROVE  /\ RefundOK(ts, amount, N, t) => RefundOK(ts, amount, M, t)
           /\ FailureOK(ts, N, t) => FailureOK(ts, M, t)
           /\ CancelOK(ts, N, t) => CancelOK(ts, M, t)
<1>1. ASSUME NEW events PROVE Heard(M, t, events) = Heard(N, t, events)
  BY HeardSame
<1> QED
  BY <1>1 DEF RefundOK, FailureOK, CancelOK

LEMMA WithIsOf ==
    ASSUME NEW w, NEW kinds, NEW t
    PROVE  WithToken(w, kinds, t) = Of(w.db.transactions, t, kinds)
BY DEF WithToken, Of

\* What Known finds, of a kind whose transactions agree.
LEMMA KnownIs ==
    ASSUME NEW w \in Worlds, NEW n, NEW kind, NEW kinds, kinds = { kind }
    PROVE  /\ Known(w, n, kind) =>
                \E i \in Of(w.db.transactions, n.token, kinds) : w.db.transactions[i].is_success
           /\ ~Known(w, n, kind) /\ Of(w.db.transactions, n.token, kinds) # {} =>
                \E i \in Of(w.db.transactions, n.token, kinds) : ~w.db.transactions[i].is_success
<1>1. PICK found : found = Of(w.db.transactions, n.token, kinds)
  OBVIOUS
<1>2. found = WithToken(w, { kind }, n.token)
  BY <1>1, WithIsOf
<1>3. found \in SUBSET DOMAIN w.db.transactions
  BY <1>1 DEF Of
<1>4. found # {} => Max(found) \in found
  BY <1>3, KindsOf
<1>5. Known(w, n, kind) = (found # {} /\ w.db.transactions[Max(found)].is_success)
  BY <1>2 DEF Known
<1> QED
  BY <1>1, <1>4, <1>5

LEMMA ToldFields ==
    ASSUME NEW n \in Notice, NEW kind \in TransactionKind, NEW x, x = Told(n, kind),
           NEW y, y = MarkProcessed(x)
    PROVE  /\ x \in TransactionRow /\ x.kind = kind /\ x.token = n.token /\ x.is_success = n.success
           /\ x.amount = n.amount /\ ~x.action_required /\ ~x.already_processed
           /\ y \in TransactionRow /\ y.kind = kind /\ y.token = n.token /\ y.is_success = n.success
           /\ y.amount = n.amount /\ ~y.action_required /\ y.already_processed = n.success
<1>1. x \in TransactionRow
  BY ToldTyped
<1>2. /\ x.kind = kind /\ x.token = n.token /\ x.is_success = n.success
      /\ x.amount = n.amount /\ x.action_required = FALSE /\ x.already_processed = FALSE
  BY DEF Told, Txn
<1>3. n.success \in BOOLEAN
  BY DEF Notice
<1>4. y.already_processed = n.success
  <2>1. y.already_processed = (x.already_processed \/ Processable(x))
    BY <1>1, Zenon DEF MarkProcessed, TransactionRow
  <2> QED
    BY <1>2, <1>3, <2>1 DEF Processable
<1> QED
  BY <1>1, <1>2, <1>4, MarkKeeps

LEMMA AuthorizationKept ==
    ASSUME NEW w \in Worlds, NEW N, NEW late, NEW n \in Notice, NEW M, NEW later,
           Accepting(w, N, late, n, M, later), n.event \in { "AUTHORISATION", "PENDING" }
    PROVE  Handle(w, n) \subseteq Kept(w, M, later)
<1>1. NoticeFits(n, w.refs)
  BY DEF Accepting
<1>2. n.token \in DOMAIN w.refs /\ w.refs[n.token].op = "payment"
  BY <1>1, EventIsOf
<1>3. w \in Kept(w, M, later)
  BY AcceptedKept
<1>4. ASSUME NEW kind \in { "auth", "capture", "action_to_confirm", "pending" }
      PROVE  Book(w, Told(n, kind)) \in Kept(w, M, later) /\ Insert(w, Told(n, kind)) \in Kept(w, M, later)
  <2>1. kind \in TransactionKind
    BY Kinds
  <2>2. PICK x : x = Told(n, kind)
    OBVIOUS
  <2>3. x \in TransactionRow /\ x.kind = kind /\ x.token = n.token
    BY <2>1, <2>2, ToldFields
  <2>4. TransactionFits(x, w.refs) /\ x.token \notin Calling(w, { "refund" })
    BY <1>2, <2>3 DEF TransactionFits, Fits, Calling
  <2>5. x.kind # "capture_failed"
    BY <2>3
  <2> QED
    BY <1>3, <2>2, <2>3, <2>4, <2>5, BookKept
<1>5. CASE n.event = "AUTHORISATION"
  <2>1. AuthorizedKind \in { "auth", "capture", "action_to_confirm", "pending" }
    BY DEF AuthorizedKind
  <2>2. CASE HasOrder(w)
    <3>1. handle_authorization(w, n) \subseteq { w, Book(w, Told(n, AuthorizedKind)) }
      BY <2>2 DEF handle_authorization
    <3> QED
      BY <1>3, <1>4, <1>5, <2>1, <3>1 DEF Handle
  <2>3. CASE ~HasOrder(w)
    <3>1. PICK told : told = Insert(w, Told(n, "action_to_confirm"))
      OBVIOUS
    <3>2. told \in Kept(w, M, later)
      BY <1>4, <3>1
    <3>3. \A u \in handle_not_created_order(w, n, AuthorizedKind) :
            u \in { w, told } \/ u \in create_order(w) \/ u \in create_order(told)
      BY <3>1, Zenon DEF handle_not_created_order
    <3>4. create_order(w) \subseteq Kept(w, M, later) /\ create_order(told) \subseteq Kept(w, M, later)
      BY <1>3, <3>2, CreateKept
    <3>5. Handle(w, n) = handle_not_created_order(w, n, AuthorizedKind)
      BY <1>5, <2>3 DEF Handle, handle_authorization
    <3> QED
      BY <1>3, <3>2, <3>3, <3>4, <3>5
  <2> QED
    BY <2>2, <2>3
<1>6. CASE n.event = "PENDING"
  <2>1. Handle(w, n) \subseteq { w, Book(w, Told(n, "pending")) }
    BY <1>6 DEF Handle, Once
  <2> QED
    BY <1>3, <1>4, <2>1
<1> QED
  BY <1>5, <1>6

LEMMA CaptureToldKept ==
    ASSUME NEW w \in Worlds, NEW N, NEW late, NEW n \in Notice, NEW M, NEW later,
           Accepting(w, N, late, n, M, later), n.event = "CAPTURE"
    PROVE  Handle(w, n) \subseteq Kept(w, M, later)
<1>1. NoticeFits(n, w.refs) /\ Fit(w) /\ Books(w, N, late) /\ M = N \cup { n }
  BY DEF Accepting
<1>2. n.token \in DOMAIN w.refs /\ w.refs[n.token].op = "capture"
  BY <1>1, EventIsOf
<1>3. HasOrder(w) \/ config.auto_capture
  BY <1>1, <1>2 DEF Fit, MayCapture
<1>4. PICK x, y : x = Told(n, "capture") /\ y = MarkProcessed(x)
  OBVIOUS
<1>5. /\ x \in TransactionRow /\ x.kind = "capture" /\ x.token = n.token /\ x.is_success = n.success
      /\ ~x.action_required
      /\ y \in TransactionRow /\ y.kind = "capture" /\ y.token = n.token /\ y.is_success = n.success
      /\ ~y.action_required
  BY <1>4, Kinds, ToldFields
<1>6. TransactionFits(x, w.refs) /\ TransactionFits(y, w.refs)
  BY <1>2, <1>5 DEF TransactionFits, Fits
<1>7. ASSUME NEW v, NEW z, z \in { x, y }, Adds(w, v, z),
             Done(w, { "capture" }) # {} \/ n.success => Done(v, { "capture" }) # {}
      PROVE  v \in Kept(w, M, later)
  <2>1. v.db.payment.is_active => ToldCaptureOK(v, M)
    <3>1. v.db.payment.is_active => ToldCaptureOK(w, N)
      BY <1>1, <1>7, AddsFields DEF Books
    <3> QED
      BY <1>1, <1>7, <3>1 DEF ToldCaptureOK
  <2>2. TransactionFits(z, w.refs) /\ z.token = n.token /\ z.kind # "capture_failed"
    BY <1>5, <1>6, <1>7
  <2>3. n.event \notin { "CANCELLATION", "CAPTURE_FAILED", "REFUND", "REFUND_FAILED", "REFUNDED_REVERSED" }
    OBVIOUS
  <2> QED
    BY <1>7, <2>1, <2>2, <2>3, AddedKept
<1>8. ASSUME NEW v, NEW z, z \in { x, y }, Adds(w, v, z)
      PROVE  Done(w, { "capture" }) # {} \/ n.success => Done(v, { "capture" }) # {}
  <2>1. PICK kinds : kinds = { "capture" } /\ z.kind \in kinds
    BY <1>5, <1>8
  <2>2. /\ Done(w, kinds) \subseteq Done(v, kinds)
        /\ z.kind \in kinds /\ z.is_success /\ ~z.action_required => Done(v, kinds) # {}
    BY <1>8, DoneGrows
  <2> QED
    BY <1>5, <1>8, <2>1, <2>2
<1>9. Adds(w, Book(w, x), y) /\ Adds(w, Insert(w, x), x)
  BY <1>4, <1>5, BookAdds, InsertAdds
<1>10. Book(w, x) \in Kept(w, M, later) /\ Insert(w, x) \in Kept(w, M, later)
  BY <1>7, <1>8, <1>9
<1>11. CASE HasOrder(w)
  <2>1. Handle(w, n) \subseteq { Book(w, x), Insert(w, x) }
    BY <1>4, <1>11 DEF Handle, handle_capture
  <2> QED
    BY <1>10, <2>1
<1>12. CASE ~HasOrder(w)
  <2>1. ToldCaptureOK(w, M)
    BY <1>3, <1>12 DEF ToldCaptureOK
  <2>2. w \in Kept(w, M, later)
    BY <2>1, AcceptedKept
  <2>3. PICK z, told : z = Told(n, "action_to_confirm") /\ told = Insert(w, z)
    OBVIOUS
  <2>4. z \in TransactionRow /\ z.kind = "action_to_confirm" /\ z.token = n.token
    BY <2>3, Kinds, ToldFields
  <2>5. TransactionFits(z, w.refs) /\ z.token \notin Calling(w, { "refund" }) /\ z.kind # "capture_failed"
    BY <1>2, <2>4 DEF TransactionFits, Fits, Calling
  <2>6. told \in Kept(w, M, later)
    BY <2>2, <2>3, <2>4, <2>5, BookKept
  <2>7. \A u \in handle_not_created_order(w, n, "capture") :
          u \in { w, told } \/ u \in create_order(w) \/ u \in create_order(told)
    BY <2>3, Zenon DEF handle_not_created_order
  <2>8. create_order(w) \subseteq Kept(w, M, later) /\ create_order(told) \subseteq Kept(w, M, later)
    BY <2>2, <2>6, CreateKept
  <2>9. Handle(w, n) = handle_not_created_order(w, n, "capture")
    BY <1>12 DEF Handle, handle_capture
  <2> QED
    BY <2>2, <2>6, <2>7, <2>8, <2>9
<1> QED
  BY <1>11, <1>12

LEMMA FailedCaptureKept ==
    ASSUME NEW w \in Worlds, NEW N, NEW late, NEW n \in Notice, NEW M, NEW later,
           Accepting(w, N, late, n, M, later), n.event = "CAPTURE_FAILED"
    PROVE  Handle(w, n) \subseteq Kept(w, M, later)
<1>1. NoticeFits(n, w.refs) /\ Fit(w) /\ Books(w, N, late) /\ M = N \cup { n }
  BY DEF Accepting
<1>2. /\ n.token \in DOMAIN w.refs /\ w.refs[n.token].op \in { "payment", "capture" } /\ n.success
  BY <1>1, EventIsOf
<1>3. PICK t, kinds : t = n.token /\ kinds = { "capture_failed" }
  OBVIOUS
<1>4. Heard(M, t, Fails) = TRUE
  <2>1. n.event \in Fails
    BY DEF Fails
  <2> QED
    BY <1>1, <1>2, <1>3, <2>1, HeardMore
<1>5. ASSUME NEW s \in Calling(w, { "payment", "capture" }), s # t, w.db.payment.is_active
      PROVE  FailureOK(w.db.transactions, M, s)
  <2>1. FailureOK(w.db.transactions, N, s)
    BY <1>1, <1>5 DEF Books, FailuresOK
  <2> QED
    BY <1>1, <1>3, <1>5, <2>1, OthersUnheard
<1>6. /\ n.event # "CANCELLATION" /\ n.event # "CAPTURE"
      /\ n.event \notin { "REFUND", "REFUND_FAILED", "REFUNDED_REVERSED" }
  OBVIOUS
<1>7. CASE Known(w, n, "capture_failed")
  <2>1. Of(w.db.transactions, t, kinds) # {}
    BY <1>3, <1>7, KnownIs
  <2>2. FailureOK(w.db.transactions, M, t)
    BY <1>3, <1>4, <2>1 DEF FailureOK
  <2>3. w.db.payment.is_active => FailuresOK(w, M)
    BY <1>5, <2>2 DEF FailuresOK
  <2>4. w \in Kept(w, M, later)
    BY <1>6, <2>3, AcceptedKept
  <2>5. Handle(w, n) = { w }
    BY <1>7 DEF Handle, Once
  <2> QED
    BY <2>4, <2>5
<1>8. CASE ~Known(w, n, "capture_failed")
  <2>1. PICK x, y, v : x = Told(n, "capture_failed") /\ y = MarkProcessed(x) /\ v = Book(w, x)
    OBVIOUS
  <2>2. /\ x \in TransactionRow
        /\ y \in TransactionRow /\ y.kind = "capture_failed" /\ y.token = n.token /\ y.is_success = n.success
    BY <2>1, Kinds, ToldFields
  <2>3. TransactionFits(y, w.refs)
    BY <1>2, <2>2 DEF TransactionFits, Fits
  <2>4. Adds(w, v, y)
    BY <2>1, <2>2, BookAdds
  <2>5. Longer(v.db.transactions, w.db.transactions, y) /\ (v.db.payment.is_active => w.db.payment.is_active)
    BY <2>4, AddsFields
  <2>6. FailureOK(v.db.transactions, M, t)
    <3>1. OneMore(v.db.transactions, w.db.transactions, y, kinds)
      <4>1. y.kind \in kinds
        BY <1>3, <2>2
      <4> QED
        BY <2>5, <4>1, OfLonger
    <3>2. Of(v.db.transactions, t, kinds) # {}
      BY <1>3, <2>2, <3>1 DEF OneMore
    <3> QED
      BY <1>3, <1>4, <3>2 DEF FailureOK
  <2>7. ASSUME NEW s \in Calling(w, { "payment", "capture" }), s # t, v.db.payment.is_active
        PROVE  FailureOK(v.db.transactions, M, s)
    <3>1. FailureOK(w.db.transactions, M, s)
      BY <1>5, <2>5, <2>7
    <3>2. y.token # s
      BY <1>3, <2>2, <2>7
    <3>3. Of(v.db.transactions, s, kinds) = Of(w.db.transactions, s, kinds)
      BY <2>5, <3>2, OfUnchanged
    <3> QED
      BY <1>3, <3>1, <3>3 DEF FailureOK
  <2>8. v.db.payment.is_active => FailuresOK(v, M)
    <3>1. Calling(v, { "payment", "capture" }) = Calling(w, { "payment", "capture" })
      BY <2>4, AddsParts
    <3> QED
      BY <2>6, <2>7, <3>1 DEF FailuresOK
  <2>9. v \in Kept(w, M, later)
    BY <1>6, <2>2, <2>3, <2>4, <2>8, AddedKept
  <2>10. Handle(w, n) = { v }
    BY <1>8, <2>1 DEF Handle, Once
  <2> QED
    BY <2>9, <2>10
<1> QED
  BY <1>7, <1>8

\* canceled is not of what is said of the transactions.
LEMMA CanceledAdds ==
    ASSUME NEW w \in Worlds, NEW v, NEW y, Adds(w, v, y), NEW b \in BOOLEAN
    PROVE  Adds(w, [ v EXCEPT !.db.canceled = b ], y)
<1>1. v \in Worlds /\ v.db \in Rows
  BY WorldTyped DEF Adds
<1>2. PICK d, u : d = [ v.db EXCEPT !.canceled = b ] /\ u = [ v EXCEPT !.db = d ]
  OBVIOUS
<1>3. d \in Rows
  BY <1>1, <1>2, Zenon DEF Rows
<1>4. d.transactions = v.db.transactions /\ d.orders = v.db.orders /\ d.payment = v.db.payment
  BY <1>1, <1>2 DEF Rows
<1>5. u \in Worlds /\ u.db = d /\ u.refs = v.refs /\ u.notices = v.notices
  BY <1>1, <1>2, <1>3 DEF Worlds
<1>6. [ v EXCEPT !.db.canceled = b ] = u
  BY <1>1, <1>2 DEF Worlds, Rows
<1>7. Adds(w, u, y)
  BY <1>4, <1>5 DEF Adds
<1> QED
  BY <1>6, <1>7

LEMMA CancellationKept ==
    ASSUME NEW w \in Worlds, NEW N, NEW late, NEW n \in Notice, NEW M, NEW later,
           Accepting(w, N, late, n, M, later), n.event = "CANCELLATION"
    PROVE  Handle(w, n) \subseteq Kept(w, M, later)
<1>1. NoticeFits(n, w.refs) /\ Fit(w) /\ Books(w, N, late) /\ M = N \cup { n }
  BY DEF Accepting
<1>2. /\ n.token \in DOMAIN w.refs /\ w.refs[n.token].op = "cancel"
      /\ w.refs[n.token].state \notin { "action", "received" }
      /\ n.success = (w.refs[n.token].state \in CarriedOut)
  BY <1>1, EventIsOf
<1>3. PICK t, kinds : t = n.token /\ kinds = { "cancel" }
  OBVIOUS
<1>4. ASSUME NEW s \in Calling(w, { "cancel" }), s # t
      PROVE  CancelOK(w.db.transactions, M, s)
  <2>1. CancelOK(w.db.transactions, N, s)
    BY <1>1, <1>4 DEF Books, CancelsOK
  <2> QED
    BY <1>1, <1>3, <1>4, <2>1, OthersUnheard
<1>5. /\ n.event # "CAPTURE_FAILED" /\ n.event # "CAPTURE"
      /\ n.event \notin { "REFUND", "REFUND_FAILED", "REFUNDED_REVERSED" }
  OBVIOUS
<1>6. CASE Known(w, n, "cancel")
  <2>1. Of(w.db.transactions, t, kinds) # {}
    BY <1>3, <1>6, KnownIs
  <2>2. CancelOK(w.db.transactions, M, t)
    BY <1>3, <2>1 DEF CancelOK
  <2>3. CancelsOK(w, M)
    BY <1>4, <2>2 DEF CancelsOK
  <2>4. w \in Kept(w, M, later)
    BY <1>5, <2>3, AcceptedKept
  <2>5. Handle(w, n) = { w }
    BY <1>6 DEF Handle, handle_cancellation
  <2> QED
    BY <2>4, <2>5
<1>7. CASE ~Known(w, n, "cancel")
  <2>1. PICK x, y, u, b, v :
          /\ x = Told(n, "cancel") /\ y = MarkProcessed(x) /\ u = Book(w, x)
          /\ b = (u.db.canceled \/ (HasOrder(w) /\ n.success))
          /\ v = [ u EXCEPT !.db.canceled = b ]
    OBVIOUS
  <2>2. /\ x \in TransactionRow
        /\ y \in TransactionRow /\ y.kind = "cancel" /\ y.token = n.token /\ y.is_success = n.success
    BY <2>1, Kinds, ToldFields
  <2>3. TransactionFits(y, w.refs)
    BY <1>2, <2>2 DEF TransactionFits, Fits
  <2>4. Adds(w, u, y)
    BY <2>1, <2>2, BookAdds
  <2>5. b \in BOOLEAN
    BY <2>1, <2>4, WorldTyped DEF HasOrder, Adds
  <2>6. Adds(w, v, y)
    BY <2>1, <2>4, <2>5, CanceledAdds
  <2>7. Longer(v.db.transactions, w.db.transactions, y)
    BY <2>6, AddsFields
  <2>8. CancelOK(v.db.transactions, M, t)
    <3>1. y.kind \in kinds
      BY <1>3, <2>2
    <3>2. OneMore(v.db.transactions, w.db.transactions, y, kinds)
      BY <2>7, <3>1, OfLonger
    <3>3. Of(v.db.transactions, t, kinds) # {}
      BY <1>3, <2>2, <3>2 DEF OneMore
    <3> QED
      BY <1>3, <3>3 DEF CancelOK
  <2>9. ASSUME NEW s \in Calling(w, { "cancel" }), s # t PROVE CancelOK(v.db.transactions, M, s)
    <3>1. CancelOK(w.db.transactions, M, s) /\ y.token # s
      BY <1>3, <1>4, <2>2, <2>9
    <3>2. Of(v.db.transactions, s, kinds) = Of(w.db.transactions, s, kinds)
      BY <2>7, <3>1, OfUnchanged
    <3> QED
      BY <1>3, <3>1, <3>2 DEF CancelOK
  <2>10. CancelsOK(v, M)
    <3>1. Calling(v, { "cancel" }) = Calling(w, { "cancel" })
      BY <2>6, AddsParts
    <3> QED
      BY <2>8, <2>9, <3>1 DEF CancelsOK
  <2>11. y.kind # "capture_failed"
    BY <2>2
  <2>12. v \in Kept(w, M, later)
    BY <1>5, <2>2, <2>3, <2>6, <2>10, <2>11, AddedKept
  <2>13. Handle(w, n) = { v }
    BY <1>7, <2>1 DEF Handle, handle_cancellation
  <2> QED
    BY <2>12, <2>13
<1> QED
  BY <1>6, <1>7

LEMMA RefundsAccepted ==
    ASSUME NEW w, NEW v, v.refs = w.refs, NEW N, NEW n, NEW M, M = N \cup { n },
           \A t \in Calling(w, { "refund" }) :
             t # n.token => RefundOK(v.db.transactions, v.refs[t].amount, N, t),
           RefundOK(v.db.transactions, w.refs[n.token].amount, M, n.token)
    PROVE  RefundsOK(v, M)
<1> SUFFICES ASSUME NEW t \in Calling(v, { "refund" })
             PROVE  RefundOK(v.db.transactions, v.refs[t].amount, M, t)
  BY DEF RefundsOK
<1>1. t \in Calling(w, { "refund" })
  BY DEF Calling
<1>2. CASE t = n.token
  BY <1>2
<1>3. CASE t # n.token
  BY <1>1, <1>3, OthersUnheard
<1> QED
  BY <1>2, <1>3

LEMMA RefundToldKept ==
    ASSUME NEW w \in Worlds, NEW N, NEW late, NEW n \in Notice, NEW M, NEW later,
           Accepting(w, N, late, n, M, later), n.event = "REFUND"
    PROVE  Handle(w, n) \subseteq Kept(w, M, later)
<1>1. /\ NoticeFits(n, w.refs) /\ Fit(w) /\ Books(w, N, late) /\ M = N \cup { n } /\ (late => later)
      /\ \A m \in N : NoticeFits(m, w.refs)
      /\ n.success /\ ~later => ~Heard(N, n.token, Fails) \/ Heard(N, n.token, { "REFUND" })
  BY DEF Accepting
<1>2. /\ n.token \in DOMAIN w.refs /\ w.refs[n.token].op = "refund"
      /\ n.amount = w.refs[n.token].amount
      /\ w.refs[n.token].state \notin { "action", "received" }
      /\ n.success = (w.refs[n.token].state \in CarriedOut)
  BY <1>1, EventIsOf
<1>3. PICK t, kinds, ts, amount :
        t = n.token /\ kinds = { "refund" } /\ ts = w.db.transactions /\ amount = n.amount
  OBVIOUS
<1>4. amount \in Nat /\ n.success \in BOOLEAN
  BY <1>3 DEF Notice
<1>5. \A i \in Of(ts, t, kinds) : ts[i].is_success = n.success
  <2>1. TAKE i \in Of(ts, t, kinds)
  <2>2. i \in DOMAIN w.db.transactions /\ ts[i].token = t /\ ts[i].kind = "refund" /\ t # 0
    BY <1>2, <1>3, WorldTyped DEF Of
  <2>3. TransactionFits(ts[i], w.refs)
    BY <1>1, <1>3, <2>2 DEF Fit
  <2> QED
    BY <1>2, <1>3, <2>2, <2>3 DEF TransactionFits, Fits
<1>6. ASSUME ~later, w.db.payment.is_active PROVE RefundOK(ts, amount, N, t)
  BY <1>1, <1>2, <1>3, <1>6 DEF Books, RefundsOK, Calling
<1>7. n.event \notin { "CANCELLATION", "CAPTURE", "CAPTURE_FAILED" }
  OBVIOUS
<1>8. CASE Known(w, n, "refund")
  <2>1. \E i \in Of(ts, t, kinds) : ts[i].is_success
    BY <1>3, <1>8, KnownIs
  <2>2. n.success
    BY <1>5, <2>1
  <2>3. ASSUME ~later, w.db.payment.is_active PROVE RefundOK(ts, amount, M, t)
    <3>1. RefundOK(ts, amount, N, t)
      BY <1>6, <2>3
    <3>2. Heard(N, t, { "REFUND" })
      <4>1. Heard(N, t, { "REFUND" }) = (\E i \in Of(ts, t, { "refund" }) : ts[i].is_success)
        BY <3>1 DEF RefundOK
      <4> QED
        BY <1>3, <2>1, <4>1
    <3>3. Heard(M, t, { "REFUND" }) = Heard(N, t, { "REFUND" })
      <4>1. Heard(M, t, { "REFUND" }) \in BOOLEAN /\ Heard(N, t, { "REFUND" }) \in BOOLEAN
        BY DEF Heard
      <4>2. Heard(M, t, { "REFUND" })
        BY <1>1, <3>2, HeardMore
      <4> QED
        BY <3>2, <4>1, <4>2
    <3>4. /\ Heard(M, t, Fails) = Heard(N, t, Fails)
          /\ Heard(M, t, { "REFUND_FAILED" }) = Heard(N, t, { "REFUND_FAILED" })
          /\ Heard(M, t, { "REFUNDED_REVERSED" }) = Heard(N, t, { "REFUNDED_REVERSED" })
      <4>1. n.event \notin Fails /\ n.event \notin { "REFUND_FAILED" } /\ n.event \notin { "REFUNDED_REVERSED" }
        BY DEF Fails
      <4>2. ASSUME NEW events, n.event \notin events PROVE Heard(M, t, events) = Heard(N, t, events)
        BY <1>1, <4>2, HeardMore
      <4> QED
        BY <4>1, <4>2
    <3> QED
      BY <3>1, <3>3, <3>4 DEF RefundOK
  <2>4. ASSUME ~later, w.db.payment.is_active PROVE RefundsOK(w, M)
    <3>1. \A s \in Calling(w, { "refund" }) :
            s # n.token => RefundOK(w.db.transactions, w.refs[s].amount, N, s)
      BY <1>1, <2>4 DEF Books, RefundsOK
    <3>2. RefundOK(w.db.transactions, w.refs[n.token].amount, M, n.token)
      BY <1>2, <1>3, <2>3, <2>4
    <3> QED
      BY <1>1, <3>1, <3>2, RefundsAccepted
  <2>5. w \in Kept(w, M, later)
    BY <1>7, <2>4, AcceptedKept
  <2>6. Handle(w, n) = { w }
    BY <1>8 DEF Handle, handle_refund, Once
  <2> QED
    BY <2>5, <2>6
<1>9. CASE ~Known(w, n, "refund")
  <2>1. PICK x, y, v : x = Told(n, "refund") /\ y = MarkProcessed(x) /\ v = Book(w, x)
    OBVIOUS
  <2>2. /\ x \in TransactionRow
        /\ y \in TransactionRow /\ y.kind = "refund" /\ y.token = n.token /\ y.is_success = n.success
        /\ y.amount = amount /\ y.already_processed = n.success
    BY <1>3, <2>1, Kinds, ToldFields
  <2>3. TransactionFits(y, w.refs)
    BY <1>2, <2>2 DEF TransactionFits, Fits
  <2>4. Adds(w, v, y)
    BY <2>1, <2>2, BookAdds
  <2>5. PICK us : us = v.db.transactions
    OBVIOUS
  <2>6. /\ Longer(us, ts, y) /\ v.refs = w.refs
        /\ v.db.payment.is_active => w.db.payment.is_active
    BY <1>3, <2>4, <2>5, AddsFields
  <2>7. ASSUME ~later, w.db.payment.is_active PROVE RefundOK(us, amount, M, t)
    <3>1. RefundOK(ts, amount, N, t) /\ y.token = t
      BY <1>3, <1>6, <2>2, <2>7
    <3>2. CASE n.success
      <4>1. ~Heard(N, t, { "REFUND" })
        <5> SUFFICES ASSUME Heard(N, t, { "REFUND" }) PROVE FALSE
          OBVIOUS
        <5>1. \E i \in Of(ts, t, { "refund" }) : ts[i].is_success
          BY <3>1 DEF RefundOK
        <5>2. Of(ts, t, kinds) # {}
          BY <1>3, <5>1
        <5>3. \E i \in Of(ts, t, kinds) : ~ts[i].is_success
          BY <1>3, <1>9, <5>2, KnownIs
        <5> QED
          BY <1>5, <3>2, <5>3
      <4>2. ~Heard(N, t, Fails)
        BY <1>1, <1>3, <2>7, <3>2, <4>1
      <4>3. Added(y) = -amount
        BY <2>2, <3>2 DEF Added
      <4>4. y.is_success
        BY <2>2, <3>2
      <4>5. n.token = y.token /\ y.kind = "refund" /\ RefundOK(ts, amount, N, y.token) 
              /\ ~Heard(N, y.token, { "REFUND" }) /\ ~Heard(N, y.token, Fails)
        BY <2>2, <3>1, <4>1, <4>2
      <4>6. RefundOK(us, amount, M, y.token)
        BY <1>1, <1>4, <2>6, <3>2, <4>3, <4>4, <4>5, RefundTold
      <4> QED
        BY <3>1, <4>6
    <3>3. CASE ~n.success
      <4>1. ASSUME NEW m \in M, m.token = t, m.success PROVE FALSE
        <5>1. NoticeFits(m, w.refs) /\ w.refs[t].state \notin CarriedOut /\ w.refs[t].op = "refund"
          BY <1>1, <1>2, <1>3, <3>3, <4>1
        <5>2. ~Answers(m, w.refs[t])
          BY <4>1, <5>1 DEF Answers
        <5>3. ~FailsCall(m, w.refs[t])
          BY <5>1 DEF FailsCall, CarriedOut
        <5> QED
          BY <4>1, <5>1, <5>2, <5>3 DEF NoticeFits
      <4>2. /\ \A events : ~Heard(N, y.token, events)
            /\ \A events : ~Heard(M, y.token, events)
        BY <1>1, <3>1, <4>1 DEF Heard
      <4>3. Added(y) = 0
        BY <2>2, <3>3 DEF Added
      <4>4. y.kind = "refund" /\ ~y.is_success /\ RefundOK(ts, amount, N, y.token)
        BY <2>2, <3>1, <3>3
      <4>5. RefundOK(us, amount, M, y.token)
        BY <1>4, <2>6, <4>2, <4>3, <4>4, RefundRefused
      <4> QED
        BY <3>1, <4>5
    <3> QED
      BY <3>2, <3>3
  <2>8. ASSUME ~later, v.db.payment.is_active PROVE RefundsOK(v, M)
    <3>1. RefundsOK(w, N)
      BY <1>1, <2>6, <2>8 DEF Books
    <3>2. \A s \in Calling(w, { "refund" }) :
            s # y.token => RefundOK(v.db.transactions, v.refs[s].amount, N, s)
      BY <2>4, <3>1, AddsParts
    <3>3. RefundOK(v.db.transactions, w.refs[n.token].amount, M, n.token)
      BY <1>2, <1>3, <2>5, <2>6, <2>7, <2>8
    <3> QED
      BY <1>1, <2>2, <2>6, <3>2, <3>3, RefundsAccepted
  <2>9. y.kind # "capture_failed"
    BY <2>2
  <2>10. v \in Kept(w, M, later)
    BY <1>7, <2>2, <2>3, <2>4, <2>8, <2>9, AddedKept
  <2>11. Handle(w, n) = { v }
    BY <1>9, <2>1 DEF Handle, handle_refund, Once
  <2> QED
    BY <2>10, <2>11
<1> QED
  BY <1>8, <1>9

LEMMA RefundReversedKept ==
    ASSUME NEW w \in Worlds, NEW N, NEW late, NEW n \in Notice, NEW M, NEW later,
           Accepting(w, N, late, n, M, later), n.event = "REFUNDED_REVERSED"
    PROVE  Handle(w, n) \subseteq Kept(w, M, later)
<1>1. /\ NoticeFits(n, w.refs) /\ Fit(w) /\ Books(w, N, late) /\ M = N \cup { n } /\ (late => later)
      /\ n.event \in Fails => OneFailure(N, n)
  BY DEF Accepting
<1>2. OneFailure(N, n)
  BY <1>1 DEF Fails
<1>3. /\ n.token \in DOMAIN w.refs /\ w.refs[n.token].op = "refund" /\ n.success
      /\ n.amount = w.refs[n.token].amount
  BY <1>1, EventIsOf
<1>4. PICK t, kinds, ts, amount :
        t = n.token /\ kinds = { "refund_reversed" } /\ ts = w.db.transactions /\ amount = n.amount
  OBVIOUS
<1>5. amount \in Nat
  BY <1>4 DEF Notice
<1>6. ASSUME ~later, w.db.payment.is_active PROVE RefundOK(ts, amount, N, t)
  BY <1>1, <1>3, <1>4, <1>6 DEF Books, RefundsOK, Calling
<1>7. n.event \notin { "CANCELLATION", "CAPTURE", "CAPTURE_FAILED" }
      /\ n.event \in { "REFUND_FAILED", "REFUNDED_REVERSED" } /\ n.event # "REFUND_FAILED"
  OBVIOUS
<1>8. WithToken(w, { "refund_reversed" }, n.token) = Of(ts, t, kinds)
  BY <1>4, WithIsOf
<1>9. CASE Of(ts, t, kinds) # {}
  <2>1. ASSUME ~later, w.db.payment.is_active PROVE RefundsOK(w, M)
    <3>1. \A s \in Calling(w, { "refund" }) :
            s # n.token => RefundOK(w.db.transactions, w.refs[s].amount, N, s)
      BY <1>1, <2>1 DEF Books, RefundsOK
    <3>2. RefundOK(ts, amount, N, t)
      BY <1>6, <2>1
    <3>3. n.event = "REFUNDED_REVERSED" => Of(ts, t, { "refund_reversed" }) # {}
      BY <1>4, <1>9
    <3>4. RefundOK(ts, amount, M, t)
      <4>1. M = N \cup { n } /\ n.token = t /\ n.success /\ OneFailure(N, n)
        BY <1>1, <1>2, <1>3, <1>4
      <4> QED
        BY <1>7, <3>2, <3>3, <4>1, FailureKnown
    <3>5. RefundOK(w.db.transactions, w.refs[n.token].amount, M, n.token)
      BY <1>3, <1>4, <3>4
    <3> QED
      BY <1>1, <3>1, <3>5, RefundsAccepted
  <2>2. w \in Kept(w, M, later)
    BY <1>7, <2>1, AcceptedKept
  <2>3. Handle(w, n) = { w }
    BY <1>8, <1>9 DEF Handle, handle_reversed_refund
  <2> QED
    BY <2>2, <2>3
<1>10. CASE Of(ts, t, kinds) = {}
  <2>1. PICK x, y, v : x = Told(n, "refund_reversed") /\ y = MarkProcessed(x) /\ v = Book(w, x)
    OBVIOUS
  <2>2. /\ x \in TransactionRow
        /\ y \in TransactionRow /\ y.kind = "refund_reversed" /\ y.token = n.token
        /\ y.is_success = n.success /\ y.amount = amount /\ y.already_processed = n.success
    BY <1>4, <2>1, Kinds, ToldFields
  <2>3. TransactionFits(y, w.refs)
    BY <1>3, <2>2 DEF TransactionFits, Fits
  <2>4. Adds(w, v, y)
    BY <2>1, <2>2, BookAdds
  <2>5. PICK us : us = v.db.transactions
    OBVIOUS
  <2>6. /\ Longer(us, ts, y) /\ v.refs = w.refs
        /\ v.db.payment.is_active => w.db.payment.is_active
    BY <1>4, <2>4, <2>5, AddsFields
  <2>7. ASSUME ~later, w.db.payment.is_active PROVE RefundOK(us, amount, M, t)
    <3>1. RefundOK(ts, amount, N, t)
      BY <1>6, <2>7
    <3>2. Added(y) = amount
      BY <1>3, <2>2 DEF Added
    <3>3. M = N \cup { n } /\ n.token = t /\ n.success /\ OneFailure(N, n) /\ y.token = t
      BY <1>1, <1>2, <1>3, <1>4, <2>2
    <3>4. Of(ts, t, { "refund_reversed" }) = {}
      BY <1>4, <1>10
    <3> QED
      BY <1>5, <2>2, <2>6, <3>1, <3>2, <3>3, <3>4, RefundReversed
  <2>8. ASSUME ~later, v.db.payment.is_active PROVE RefundsOK(v, M)
    <3>1. RefundsOK(w, N)
      BY <1>1, <2>6, <2>8 DEF Books
    <3>2. \A s \in Calling(w, { "refund" }) :
            s # y.token => RefundOK(v.db.transactions, v.refs[s].amount, N, s)
      BY <2>4, <3>1, AddsParts
    <3>3. RefundOK(v.db.transactions, w.refs[n.token].amount, M, n.token)
      BY <1>3, <1>4, <2>5, <2>6, <2>7, <2>8
    <3> QED
      BY <1>1, <2>2, <2>6, <3>2, <3>3, RefundsAccepted
  <2>9. y.kind # "capture_failed"
    BY <2>2
  <2>10. v \in Kept(w, M, later)
    BY <1>7, <2>2, <2>3, <2>4, <2>8, <2>9, AddedKept
  <2>11. Handle(w, n) = { v }
    BY <1>8, <1>10, <2>1 DEF Handle, handle_reversed_refund
  <2> QED
    BY <2>10, <2>11
<1> QED
  BY <1>9, <1>10

\* The last of what handle_failed_refund looks for.
LEMMA LastAsked ==
    ASSUME NEW w \in Worlds, NEW t, Asked(w.db.transactions, t) # {}, NEW i,
           i = Max(Asked(w.db.transactions, t)), NEW kind
    PROVE  /\ i \in Asked(w.db.transactions, t)
           /\ w.db.transactions[i].kind \in { "refund_ongoing", "refund", "refund_failed" }
           /\ Latest(w.db.transactions, t, kind) = (w.db.transactions[i].kind = kind)
<1>1. PICK S, n, ts : S = Asked(w.db.transactions, t) /\ ts = w.db.transactions /\ n = Len(ts)
  OBVIOUS
<1>2. S \in SUBSET (1 .. n) /\ n \in Nat /\ S # {}
  BY <1>1, WorldTyped DEF Asked, Of
<1>3. i \in S /\ \A k \in S : k <= i
  BY <1>1, <1>2, MaxIn, MaxLast
<1>4. \A k \in S : i <= k => k = i
  BY <1>2, <1>3
<1>5. Latest(ts, t, kind) = (ts[i].kind = kind)
  <2>1. ts[i].kind = kind => Latest(ts, t, kind)
    BY <1>1, <1>3 DEF Latest
  <2>2. Latest(ts, t, kind) => ts[i].kind = kind
    <3>1. Latest(ts, t, kind) => \E k \in S : ts[k].kind = kind /\ \A j \in S : j <= k
      BY <1>1 DEF Latest
    <3> QED
      BY <1>3, <1>4, <3>1
  <2>3. Latest(ts, t, kind) \in BOOLEAN
    BY DEF Latest
  <2> QED
    BY <2>1, <2>2, <2>3
<1>6. ts[i].kind \in { "refund_ongoing", "refund", "refund_failed" }
  BY <1>1, <1>3 DEF Asked, Of
<1> QED
  BY <1>1, <1>3, <1>5, <1>6

\* Two transactions more: the failure x, and y which books it.
LEMMA FailedRefundBooked ==
    ASSUME NEW w \in Worlds, NEW N, NEW late, NEW n \in Notice, NEW M, NEW later,
           Accepting(w, N, late, n, M, later), n.event = "REFUND_FAILED",
           NEW u, NEW x, Adds(w, u, x), x = Told(n, "refund_failed"),
           NEW v, NEW y, Adds(u, v, y), y.token = n.token, y.kind \in { "auth", "capture" },
           Asked(w.db.transactions, n.token) # {},
           ~Latest(w.db.transactions, n.token, "refund_failed"),
           Latest(w.db.transactions, n.token, "refund") => Added(y) = n.amount
    PROVE  v \in Kept(w, M, later)
<1>1. /\ NoticeFits(n, w.refs) /\ Fit(w) /\ Books(w, N, late) /\ M = N \cup { n } /\ (late => later)
      /\ n.event \in Fails => OneFailure(N, n)
  BY DEF Accepting
<1>2. OneFailure(N, n)
  BY <1>1 DEF Fails
<1>3. /\ n.token \in DOMAIN w.refs /\ w.refs[n.token].op = "refund" /\ n.success
      /\ n.amount = w.refs[n.token].amount
  BY <1>1, EventIsOf
<1>4. PICK t, ts, us, vs, amount :
        /\ t = n.token /\ amount = n.amount
        /\ ts = w.db.transactions /\ us = u.db.transactions /\ vs = v.db.transactions
  OBVIOUS
<1>5. amount \in Nat
  BY <1>4 DEF Notice
<1>6. x.kind = "refund_failed" /\ x.token = n.token /\ ~x.already_processed
  BY Kinds, ToldFields
<1>7. /\ u \in Worlds /\ Longer(us, ts, x) /\ u.refs = w.refs /\ u.notices = w.notices
      /\ HasOrder(u) = HasOrder(w)
      /\ u.db.payment.is_active => w.db.payment.is_active
  BY <1>4, AddsFields
<1>8. /\ v \in Worlds /\ Longer(vs, us, y) /\ v.refs = w.refs /\ v.notices = w.notices
      /\ HasOrder(v) = HasOrder(w)
      /\ v.db.payment.is_active => w.db.payment.is_active
  BY <1>4, <1>7, AddsFields
<1>9. TransactionFits(x, w.refs) /\ TransactionFits(y, w.refs)
  BY <1>3, <1>6 DEF TransactionFits, Fits
<1>10. Fit(v)
  <2>1. Fit(u)
    BY <1>1, <1>9, AddsFit
  <2> QED
    BY <1>7, <1>9, <2>1, AddsFit
<1>11. /\ \A m \in M : m.token \in DOMAIN w.refs
       /\ n.event # "CANCELLATION" => CancelsOK(w, M)
       /\ w.db.payment.is_active /\ n.event # "CAPTURE_FAILED" => FailuresOK(w, M)
       /\ w.db.payment.is_active /\ n.event # "CAPTURE" => ToldCaptureOK(w, M)
  BY <1>1, Unsaid
<1>12. y.kind # "capture_failed" /\ x.kind # "capture_failed"
  BY <1>6
<1>13. /\ CancelsOK(w, M) => CancelsOK(u, M)
       /\ FailuresOK(w, M) => FailuresOK(u, M)
       /\ ToldCaptureOK(w, M) => ToldCaptureOK(u, M)
       /\ RefundsOK(w, N) =>
            \A s \in Calling(w, { "refund" }) :
              s # x.token => RefundOK(us, u.refs[s].amount, N, s)
  BY <1>4, <1>12, AddsParts
<1>14. /\ CancelsOK(u, M) => CancelsOK(v, M)
       /\ FailuresOK(u, M) => FailuresOK(v, M)
       /\ ToldCaptureOK(u, M) => ToldCaptureOK(v, M)
  BY <1>7, <1>12, AddsParts
<1>15. CancelsOK(v, M)
  BY <1>11, <1>13, <1>14
<1>16. v.db.payment.is_active => FailuresOK(v, M) /\ ToldCaptureOK(v, M)
  BY <1>8, <1>11, <1>13, <1>14
<1>17. ASSUME v.db.payment.is_active, ~later PROVE RefundsOK(v, M)
  <2>1. RefundsOK(w, N)
    BY <1>1, <1>8, <1>17 DEF Books
  <2>2. ASSUME NEW s \in Calling(w, { "refund" }), s # n.token
        PROVE  RefundOK(vs, v.refs[s].amount, N, s)
    <3>1. RefundOK(us, u.refs[s].amount, N, s)
      BY <1>6, <1>13, <2>1, <2>2
    <3>2. RefundOK(vs, u.refs[s].amount, N, s)
      BY <1>8, <2>2, <3>1, OtherToken
    <3> QED
      BY <1>7, <1>8, <3>2
  <2>3. RefundOK(ts, amount, N, t)
    BY <1>3, <1>4, <2>1 DEF RefundsOK, Calling
  <2>4. Heard(N, t, { "REFUND" }) => Added(y) = amount
    <3> SUFFICES ASSUME Heard(N, t, { "REFUND" }) PROVE Added(y) = amount
      OBVIOUS
    <3>1. ~Heard(N, t, Fails)
      <4> SUFFICES ASSUME Heard(N, t, Fails) PROVE FALSE
        OBVIOUS
      <4>1. Heard(N, t, { "REFUND_FAILED" })
        BY <1>2, <1>4 DEF Heard, OneFailure
      <4>2. Asked(ts, t) = {} \/ Latest(ts, t, "refund_failed")
        BY <2>3, <4>1 DEF RefundOK
      <4> QED
        BY <1>4, <4>2
    <3>2. Latest(ts, t, "refund")
      BY <2>3, <3>1 DEF RefundOK
    <3> QED
      BY <1>4, <3>2
  <2>5. Added(x) = 0
    BY <1>6 DEF Added
  <2>6. M = N \cup { n } /\ n.token = t /\ n.success /\ OneFailure(N, n) /\ x.token = t /\ y.token = t
    BY <1>1, <1>2, <1>3, <1>4, <1>6
  <2>7. Asked(ts, t) # {} /\ ~Latest(ts, t, "refund_failed")
    BY <1>4
  <2>8. RefundOK(vs, amount, M, t)
    BY <1>5, <1>6, <1>7, <1>8, <2>3, <2>4, <2>5, <2>6, <2>7, RefundFailed
  <2>9. RefundOK(v.db.transactions, w.refs[n.token].amount, M, n.token)
    BY <1>3, <1>4, <2>8
  <2>10. \A s \in Calling(w, { "refund" }) :
           s # n.token => RefundOK(v.db.transactions, v.refs[s].amount, N, s)
    BY <1>4, <2>2
  <2> QED
    BY <1>1, <1>8, <2>9, <2>10, RefundsAccepted
<1> QED
  BY <1>1, <1>8, <1>10, <1>11, <1>15, <1>16, <1>17, PartsKept

LEMMA FailedRefundKept ==
    ASSUME NEW w \in Worlds, NEW N, NEW late, NEW n \in Notice, NEW M, NEW later,
           Accepting(w, N, late, n, M, later), n.event = "REFUND_FAILED"
    PROVE  Handle(w, n) \subseteq Kept(w, M, later)
<1>1. /\ NoticeFits(n, w.refs) /\ Fit(w) /\ Books(w, N, late) /\ M = N \cup { n } /\ (late => later)
      /\ n.event \in Fails => OneFailure(N, n)
  BY DEF Accepting
<1>2. OneFailure(N, n)
  BY <1>1 DEF Fails
<1>3. /\ n.token \in DOMAIN w.refs /\ w.refs[n.token].op = "refund" /\ n.success
      /\ n.amount = w.refs[n.token].amount /\ n.amount \in Nat
  BY <1>1, EventIsOf DEF Notice
<1>4. PICK t, ts, amount : t = n.token /\ ts = w.db.transactions /\ amount = n.amount
  OBVIOUS
<1>5. PICK charges, asked, k, kind, last, x, u :
        /\ charges = Done(w, { "auth", "capture" })
        /\ asked = WithToken(w, { "refund_ongoing", "refund", "refund_failed" }, n.token)
        /\ k = Max(asked) /\ kind = ts[k].kind
        /\ last = (IF charges = {} THEN "capture" ELSE w.db.transactions[Max(charges)].kind)
        /\ x = Told(n, "refund_failed") /\ u = Insert(w, x)
  OBVIOUS
<1>6. Handle(w, n) =
        CASE asked = {} -> { w }
          [] asked # {} /\ kind = "refund_failed"  -> { w }
          [] asked # {} /\ kind = "refund_ongoing" ->
                { Book(u, [ Told(n, last) EXCEPT !.amount = 0 ]) }
          [] asked # {} /\ kind = "refund" -> { Book(u, Told(n, "capture")) }
  BY <1>4, <1>5 DEF Handle, handle_failed_refund
<1>7. asked = Asked(ts, t)
  BY <1>4, <1>5, WithIsOf DEF Asked
<1>8. asked # {} =>
        /\ kind \in { "refund_ongoing", "refund", "refund_failed" }
        /\ Latest(ts, t, "refund_failed") = (kind = "refund_failed")
        /\ Latest(ts, t, "refund") = (kind = "refund")
  BY <1>4, <1>5, <1>7, LastAsked
<1>9. last \in { "auth", "capture" }
  <2>1. CASE charges = {}
    BY <1>5, <2>1
  <2>2. CASE charges # {}
    <3>1. charges \in SUBSET DOMAIN w.db.transactions
      BY <1>5 DEF Done
    <3>2. Max(charges) \in charges
      BY <2>2, <3>1, KindsOf
    <3>3. \A i \in charges : w.db.transactions[i].kind \in { "auth", "capture" }
      BY <1>5 DEF Done
    <3> QED
      BY <1>5, <2>2, <3>2, <3>3
  <2> QED
    BY <2>1, <2>2
<1>10. n.event \notin { "CANCELLATION", "CAPTURE", "CAPTURE_FAILED" }
       /\ n.event \in { "REFUND_FAILED", "REFUNDED_REVERSED" } /\ n.event # "REFUNDED_REVERSED"
  OBVIOUS
<1>11. CASE asked = {} \/ kind = "refund_failed"
  <2>1. Asked(ts, t) = {} \/ Latest(ts, t, "refund_failed")
    BY <1>7, <1>8, <1>11
  <2>2. ASSUME ~later, w.db.payment.is_active PROVE RefundsOK(w, M)
    <3>1. \A s \in Calling(w, { "refund" }) :
            s # n.token => RefundOK(w.db.transactions, w.refs[s].amount, N, s)
      BY <1>1, <2>2 DEF Books, RefundsOK
    <3>2. RefundOK(ts, amount, N, t)
      BY <1>1, <1>3, <1>4, <2>2 DEF Books, RefundsOK, Calling
    <3>3. RefundOK(ts, amount, M, t)
      <4>1. M = N \cup { n } /\ n.token = t /\ n.success
        BY <1>1, <1>3, <1>4
      <4> QED
        BY <1>2, <1>10, <2>1, <3>2, <4>1, FailureKnown
    <3>4. RefundOK(w.db.transactions, w.refs[n.token].amount, M, n.token)
      BY <1>3, <1>4, <3>3
    <3> QED
      BY <1>1, <3>1, <3>4, RefundsAccepted
  <2>3. w \in Kept(w, M, later)
    BY <1>10, <2>2, AcceptedKept
  <2>4. Handle(w, n) = { w }
    BY <1>6, <1>11
  <2> QED
    BY <2>3, <2>4
<1>12. CASE asked # {} /\ kind # "refund_failed"
  <2>1. x \in TransactionRow
    BY <1>5, Kinds, ToldFields
  <2>2. Adds(w, u, x) /\ u \in Worlds
    BY <1>5, <2>1, InsertAdds, AddsFields
  <2>3. /\ Asked(w.db.transactions, n.token) # {}
        /\ ~Latest(w.db.transactions, n.token, "refund_failed")
        /\ Latest(w.db.transactions, n.token, "refund") = (kind = "refund")
    BY <1>4, <1>7, <1>8, <1>12
  <2>4. CASE kind = "refund_ongoing"
    <3>1. PICK z, y : z = [ Told(n, last) EXCEPT !.amount = 0 ] /\ y = MarkProcessed(z)
      OBVIOUS
    <3>2. /\ z \in TransactionRow /\ z.kind = last /\ z.token = n.token
      <4>1. PICK q : q = Told(n, last)
        OBVIOUS
      <4>2. last \in TransactionKind
        BY <1>9, Kinds
      <4>3. q \in TransactionRow /\ q.kind = last /\ q.token = n.token
        BY <4>1, <4>2, ToldFields
      <4>4. z \in TransactionRow
        BY <3>1, <4>2, ToldTyped
      <4> QED
        BY <3>1, <4>1, <4>3, <4>4 DEF TransactionRow
    <3>3. y.kind \in { "auth", "capture" } /\ y.token = n.token
      BY <1>9, <3>1, <3>2, MarkKeeps
    <3>4. Adds(u, Book(u, z), y)
      BY <2>2, <3>1, <3>2, BookAdds
    <3>5. Book(u, z) \in Kept(w, M, later)
      BY <1>5, <2>2, <2>3, <2>4, <3>3, <3>4, FailedRefundBooked
    <3>6. Handle(w, n) = { Book(u, z) }
      BY <1>6, <1>12, <2>4, <3>1
    <3> QED
      BY <3>5, <3>6
  <2>5. CASE kind = "refund"
    <3>1. PICK z, y : z = Told(n, "capture") /\ y = MarkProcessed(z)
      OBVIOUS
    <3>2. /\ z \in TransactionRow
          /\ y.kind = "capture" /\ y.token = n.token /\ y.amount = n.amount
          /\ y.already_processed = n.success
      BY <3>1, Kinds, ToldFields
    <3>3. Added(y) = n.amount
      BY <1>3, <3>2 DEF Added
    <3>4. Adds(u, Book(u, z), y)
      BY <2>2, <3>1, <3>2, BookAdds
    <3>5. /\ y.kind \in { "auth", "capture" } /\ y.token = n.token
          /\ Latest(w.db.transactions, n.token, "refund") => Added(y) = n.amount
      BY <3>2, <3>3
    <3>6. Book(u, z) \in Kept(w, M, later)
      BY <1>5, <2>2, <2>3, <3>4, <3>5, FailedRefundBooked
    <3>7. Handle(w, n) = { Book(u, z) }
      BY <1>6, <1>12, <2>5, <3>1
    <3> QED
      BY <3>6, <3>7
  <2> QED
    BY <1>8, <1>12, <2>4, <2>5
<1> QED
  BY <1>11, <1>12

LEMMA HandleKept ==
    ASSUME NEW w \in Worlds, NEW N, NEW late, NEW n \in Notice, NEW M, NEW later,
           Accepting(w, N, late, n, M, later)
    PROVE  Handle(w, n) \subseteq Kept(w, M, later)
<1>1. n.event \in Event
  BY DEF Notice
<1> QED
  BY <1>1, AuthorizationKept, CaptureToldKept, FailedCaptureKept, CancellationKept,
     RefundToldKept, FailedRefundKept, RefundReversedKept DEF Event

-----------------------------------------------------------------------------
(* The transactions agree with the notifications that were accepted.       *)

Heeded == { notices[i] : i \in handled }

\* The customer returns from a payment.
AnswersFor ==
    \A c \in Workers : call[c].task = "return" =>
      call[c].notice \in DOMAIN references /\ references[call[c].notice].op = "payment"

Agreed == Fit(World) /\ Books(World, Heeded, overtaken) /\ AnswersFor

LEMMA AgreedWorld ==
    ASSUME Inv, Agreed
    PROVE  /\ World \in Worlds /\ Fit(World) /\ Books(World, Heeded, overtaken)
           /\ World \in Kept(World, Heeded, overtaken)
<1>1. World \in Worlds /\ Fit(World) /\ Books(World, Heeded, overtaken)
  BY DEF Inv, Agreed
<1> QED
  BY <1>1, KeptItself

\* The plugin's configuration is what it was.
LEMMA AgreedNext ==
    ASSUME config' = config, NEW v, World' = v, Fit(v), Books(v, Heeded', overtaken'), AnswersFor'
    PROVE  Agreed'
<1>1. Fit(World)'
  BY DEF Fit, MayCapture
<1>2. Books(World, Heeded, overtaken)'
  BY DEF Books, ToldCaptureOK
<1> QED
  BY <1>1, <1>2 DEF Agreed

LEMMA KeptAgreed ==
    ASSUME Inv, Agreed, NEW N, NEW late, NEW v \in Kept(World, N, late), Becomes(v),
           config' = config, Heeded' = N, overtaken' = late,
           \A c \in Workers : call'[c] = call[c] \/ call'[c].task # "return"
    PROVE  Agreed'
<1>1. v \in Worlds /\ Grows(World, v) /\ Fit(v) /\ Books(v, N, late)
  BY DEF Kept
<1>2. World' = v
  BY <1>1 DEF Becomes, World, Worlds
<1>3. references' = v.refs /\ World.refs = references
  BY OrdersTyped DEF Becomes
<1>4. Fit(v) /\ Books(v, Heeded', overtaken')
  BY <1>1
<1>5. AnswersFor'
  <2>1. \A t \in DOMAIN references :
          t \in DOMAIN references' /\ references'[t].op = references[t].op
    BY <1>1, <1>3 DEF Grows, Extends, Moves
  <2> SUFFICES ASSUME NEW c \in Workers, call'[c].task = "return"
               PROVE  call'[c].notice \in DOMAIN references' /\ references'[call'[c].notice].op = "payment"
    BY DEF AnswersFor
  <2>2. call'[c] = call[c]
    OBVIOUS
  <2>3. call[c].notice \in DOMAIN references /\ references[call[c].notice].op = "payment"
    BY <2>2 DEF Agreed, AnswersFor
  <2> QED
    BY <2>1, <2>2, <2>3
<1> QED
  BY <1>2, <1>4, <1>5, AgreedNext

\* No notification is accepted.
LEMMA QuietAgreed ==
    ASSUME Inv, Agreed, NEW v \in Kept(World, Heeded, overtaken), Becomes(v),
           config' = config, handled' = handled, overtaken' = overtaken,
           \A c \in Workers : call'[c] = call[c] \/ call'[c].task # "return"
    PROVE  Agreed'
<1>1. Says(World.notices, v.notices)
  BY DEF Kept, Grows
<1>2. Says(notices, notices')
  BY <1>1, OrdersTyped DEF Becomes
<1>3. handled \subseteq DOMAIN notices
  BY DEF Inv, HistoryTyped
<1>4. \A i \in handled : notices'[i] = notices[i]
  BY <1>2, <1>3 DEF Says
<1>5. Heeded' = Heeded
  BY <1>4 DEF Heeded
<1> QED
  BY <1>5, KeptAgreed

\* The notification i is.
LEMMA AcceptAgreed ==
    ASSUME Inv, Agreed, NEW i \in DOMAIN notices,
           NEW v \in Kept(World, Heeded \cup { notices[i] }, overtaken'), Becomes(v),
           config' = config, handled' = handled \cup { i },
           \A c \in Workers : call'[c] = call[c] \/ call'[c].task # "return"
    PROVE  Agreed'
<1>1. Says(World.notices, v.notices)
  BY DEF Kept, Grows
<1>2. Says(notices, notices')
  BY <1>1, OrdersTyped DEF Becomes
<1>3. handled' \subseteq DOMAIN notices
  BY DEF Inv, HistoryTyped
<1>4. \A j \in handled' : notices'[j] = notices[j]
  BY <1>2, <1>3 DEF Says
<1>5. Heeded' = Heeded \cup { notices[i] }
  <2>1. Heeded' = { notices[j] : j \in handled' }
    BY <1>4 DEF Heeded
  <2> QED
    BY <2>1 DEF Heeded
<1> QED
  BY <1>5, KeptAgreed

LEMMA Comes ==
    ASSUME Inv, Agreed, NEW i \in DOMAIN notices, NEW later,
           later = (overtaken \/ (i \notin handled /\ \E j \in handled : j > i))
    PROVE  Accepting(World, Heeded, overtaken, notices[i], Heeded \cup { notices[i] }, later)
<1>1. /\ Fit(World) /\ Books(World, Heeded, overtaken)
      /\ World.refs = references /\ World.notices = notices
  BY OrdersTyped DEF Agreed
<1>2. handled \subseteq DOMAIN notices /\ DOMAIN notices \subseteq Nat
  BY OrdersTyped, WorldTyped DEF Inv, HistoryTyped
<1>3. NoticesFit(references, notices)
  BY <1>1 DEF Fit
<1>4. \A j \in DOMAIN notices : NoticeFits(notices[j], references)
  BY <1>3 DEF NoticesFit
<1>5. \A m \in Heeded \cup { notices[i] } : NoticeFits(m, World.refs)
  BY <1>1, <1>2, <1>4 DEF Heeded
<1>6. ASSUME notices[i].event = "REFUND", notices[i].success, ~later
      PROVE  ~Heard(Heeded, notices[i].token, Fails) \/ Heard(Heeded, notices[i].token, { "REFUND" })
  <2>1. CASE i \in handled
    <3>1. notices[i] \in Heeded
      BY <2>1 DEF Heeded
    <3> QED
      BY <1>6, <3>1 DEF Heard
  <2>2. CASE i \notin handled
    <3> SUFFICES ASSUME Heard(Heeded, notices[i].token, Fails) PROVE FALSE
      OBVIOUS
    <3>1. PICK j \in handled : notices[j].token = notices[i].token /\ notices[j].event \in Fails
      BY DEF Heard, Heeded
    <3>2. i < j
      BY <1>2, <1>3, <1>6, <3>1 DEF NoticesFit
    <3>3. ~(j > i)
      BY <1>6, <2>2
    <3> QED
      BY <1>2, <3>2, <3>3
  <2> QED
    BY <2>1, <2>2
<1>7. ASSUME notices[i].event \in Fails PROVE OneFailure(Heeded, notices[i])
  <2> SUFFICES ASSUME NEW j \in handled, notices[j].token = notices[i].token, notices[j].event \in Fails
               PROVE  notices[j] = notices[i]
    BY DEF OneFailure, Heeded
  <2>1. j = i
    BY <1>2, <1>3, <1>7 DEF NoticesFit
  <2> QED
    BY <2>1
<1>8. overtaken => later
  OBVIOUS
<1> QED
  BY <1>1, <1>5, <1>6, <1>7, <1>8 DEF Accepting

\* The rows are rolled back; what Adyen was asked and said is not.
LEMMA RolledBackAgreed ==
    ASSUME Inv, Agreed, NEW w \in Kept(World, Heeded, overtaken),
           db' = db, references' = w.refs, notices' = w.notices
    PROVE  \E v \in Kept(World, Heeded, overtaken) : Becomes(v)
<1>1. w \in Worlds /\ Grows(World, w) /\ Fit(w)
  BY DEF Kept
<1>2. PICK x, v : x = World /\ v = [ x EXCEPT !.refs = w.refs, !.notices = w.notices ]
  OBVIOUS
<1>3. w.refs \in Seq(Reference) /\ w.notices \in Seq(Notice)
  BY <1>1, WorldTyped
<1>4. x \in Worlds /\ x.db = db /\ x \in Kept(World, Heeded, overtaken)
  BY <1>2, AgreedWorld, OrdersTyped
<1>5. v \in Worlds /\ v.db = x.db /\ v.refs = w.refs /\ v.notices = w.notices
  BY <1>2, <1>3, <1>4 DEF Worlds
<1>6. /\ Extends(x.refs, v.refs) /\ Says(x.notices, v.notices) /\ NoticesFit(v.refs, v.notices)
      /\ \A t \in DOMAIN v.refs : v.refs[t].op = "capture" => MayCapture(World)
  BY <1>1, <1>2, <1>5 DEF Grows, Fit
<1>7. v \in Kept(World, Heeded, overtaken)
  BY <1>4, <1>5, <1>6, AgreedWorld, CallsKept
<1>8. Becomes(v)
  BY <1>4, <1>5 DEF Becomes
<1> QED
  BY <1>7, <1>8

LEMMA StaffKept ==
    ASSUME NEW w \in Worlds, NEW N, NEW late, w \in Kept(w, N, late), HasOrder(w),
           NEW amount \in 1 .. Total
    PROVE  StaffCalls(w, amount) \subseteq Kept(w, N, late)
<1>1. amount \in Nat /\ amount \in Int
  OBVIOUS
<1>2. /\ capture(w, amount) \subseteq Kept(w, N, late) /\ refund(w, amount) \subseteq Kept(w, N, late)
      /\ void(w) \subseteq Kept(w, N, late)
  BY <1>1, CaptureKept, RefundKept, VoidKept DEF MayCapture
<1> QED
  BY <1>2 DEF StaffCalls

LEMMA EndsReturnsNobody ==
    ASSUME Inv, NEW c \in Workers, Ends(c)
    PROVE  \A d \in Workers : call'[d] = call[d] \/ call'[d].task # "return"
BY EndsTyped DEF Inv

LEMMA CompleteLocksCheckoutAgreed ==
    ASSUME Inv, Agreed, NEW c \in Workers, CompleteLocksCheckout(c)
    PROVE  Agreed'
<1>1. UNCHANGED << config, db, references, notices, handled, redeliveries, overtaken, unanswered >>
  BY DEF CompleteLocksCheckout
<1>2. call' = [ call EXCEPT ![c] = [ Idle EXCEPT !.task = "complete", !.seen = db.payment ] ]
  BY DEF CompleteLocksCheckout
<1>3. \A d \in Workers : call'[d] = call[d] \/ call'[d].task # "return"
  BY <1>2, IdleTyped DEF Inv, Calls
<1>4. Becomes(World)
  BY <1>1, OrdersTyped DEF Becomes
<1> QED
  BY <1>1, <1>3, <1>4, AgreedWorld, QuietAgreed

LEMMA CompletePaysAgreed ==
    ASSUME Inv, Agreed, NEW c \in Workers, CompletePays(c)
    PROVE  Agreed'
<1>1. PICK w \in complete_checkout(World, call[c].seen, TRUE) : Becomes(w)
  BY DEF CompletePays
<1>2. Ends(c) /\ config' = config /\ handled' = handled /\ overtaken' = overtaken
  BY DEF CompletePays, History
<1>3. w \in Kept(World, Heeded, overtaken)
  BY <1>1, AgreedWorld, CompleteKept
<1> QED
  BY <1>1, <1>2, <1>3, EndsReturnsNobody, QuietAgreed

LEMMA StaffAgreed ==
    ASSUME Inv, Agreed, NEW c \in Workers, Staff(c)
    PROVE  Agreed'
<1>1. PICK amount \in 1 .. Total : \E w \in StaffCalls(World, amount) : Becomes(w)
  BY DEF Staff
<1>2. PICK w \in StaffCalls(World, amount) : Becomes(w)
  BY <1>1
<1>3. /\ call' = call /\ config' = config /\ handled' = handled /\ overtaken' = overtaken
      /\ db.orders > 0
  BY DEF Staff, History
<1>4. HasOrder(World)
  BY <1>3, OrdersTyped DEF HasOrder
<1>5. w \in Kept(World, Heeded, overtaken)
  BY <1>2, <1>4, AgreedWorld, StaffKept
<1> QED
  BY <1>2, <1>3, <1>5, QuietAgreed

LEMMA CrashAgreed ==
    ASSUME Inv, Agreed, NEW c \in Workers, Crash(c)
    PROVE  Agreed'
<1>1. PICK S, w :
        /\ S = CASE call[c].task = "complete" -> complete_checkout(World, call[c].seen, TRUE)
                 [] call[c].task = "idle" /\ db.orders > 0 /\ db.payment.is_active /\ MayCall ->
                       UNION { StaffCalls(World, amount) : amount \in 1 .. Total }
                 [] OTHER -> {}
        /\ w \in S /\ references' = w.refs /\ notices' = w.notices
  BY DEF Crash
<1>2. Ends(c) /\ db' = db /\ config' = config /\ handled' = handled /\ overtaken' = overtaken
  BY DEF Crash
<1>3. \/ w \in complete_checkout(World, call[c].seen, TRUE)
      \/ db.orders > 0 /\ \E amount \in 1 .. Total : w \in StaffCalls(World, amount)
  <2>1. CASE call[c].task = "complete"
    BY <1>1, <2>1
  <2>2. CASE call[c].task = "idle" /\ db.orders > 0 /\ db.payment.is_active /\ MayCall
    <3>1. w \in UNION { StaffCalls(World, amount) : amount \in 1 .. Total }
      BY <1>1, <2>2
    <3> QED
      BY <2>2, <3>1
  <2>3. CASE /\ call[c].task # "complete"
             /\ ~(call[c].task = "idle" /\ db.orders > 0 /\ db.payment.is_active /\ MayCall)
    BY <1>1, <2>3
  <2> QED
    BY <2>1, <2>2, <2>3
<1>4. db.orders > 0 => HasOrder(World)
  BY OrdersTyped DEF HasOrder
<1>5. w \in Kept(World, Heeded, overtaken)
  BY <1>3, <1>4, AgreedWorld, CompleteKept, StaffKept
<1>6. PICK v \in Kept(World, Heeded, overtaken) : Becomes(v)
  BY <1>1, <1>2, <1>5, RolledBackAgreed
<1> QED
  BY <1>2, <1>6, EndsReturnsNobody, QuietAgreed

LEMMA WebhookLocksPaymentAgreed ==
    ASSUME Inv, Agreed, NEW c \in Workers, NEW i \in DOMAIN notices, WebhookLocksPayment(c, i)
    PROVE  Agreed'
<1>1. UNCHANGED << config, db, references, notices, handled, completions, overtaken, unanswered >>
  BY DEF WebhookLocksPayment
<1>2. call' = [ call EXCEPT ![c] = [ Idle EXCEPT !.task = "webhook", !.notice = i ] ]
  BY DEF WebhookLocksPayment
<1>3. \A d \in Workers : call'[d] = call[d] \/ call'[d].task # "return"
  BY <1>2, IdleTyped DEF Inv, Calls
<1>4. Becomes(World)
  BY <1>1, OrdersTyped DEF Becomes
<1> QED
  BY <1>1, <1>3, <1>4, AgreedWorld, QuietAgreed

LEMMA WebhookFinishesAgreed ==
    ASSUME Inv, Agreed, NEW c \in Workers, WebhookFinishes(c)
    PROVE  Agreed'
<1>1. call[c].task = "webhook" /\ Ends(c) /\ Accept(call[c].notice)
  BY DEF WebhookFinishes
<1>2. PICK i : i = call[c].notice
  OBVIOUS
<1>3. PICK w \in Handle(World, notices[i]) : Becomes(w)
  BY <1>2 DEF WebhookFinishes
<1>4. i \in DOMAIN notices
  BY <1>1, <1>2 DEF Inv, HandlesSent
<1>5. notices[i] \in Notice
  BY <1>4, OrdersTyped, WorldTyped, ElementOfSeq DEF Inv
<1>6. /\ handled' = handled \cup { i }
      /\ overtaken' = (overtaken \/ (i \notin handled /\ \E j \in handled : j > i))
      /\ config' = config
  BY <1>1, <1>2 DEF Accept
<1>7. Accepting(World, Heeded, overtaken, notices[i], Heeded \cup { notices[i] }, overtaken')
  BY <1>4, <1>6, Comes
<1>8. w \in Kept(World, Heeded \cup { notices[i] }, overtaken')
  BY <1>3, <1>5, <1>7, AgreedWorld, HandleKept
<1> QED
  BY <1>1, <1>3, <1>4, <1>6, <1>8, EndsReturnsNobody, AcceptAgreed

LEMMA WebhookAgreed ==
    ASSUME Inv, Agreed, NEW c \in Workers, NEW i \in DOMAIN notices, Webhook(c, i)
    PROVE  Agreed'
<1>1. /\ handled' = handled \cup { i } /\ call' = call /\ config' = config
      /\ overtaken' = (overtaken \/ (i \notin handled /\ \E j \in handled : j > i))
  BY DEF Webhook
<1>2. PICK w \in (IF Finds(World, notices[i]) THEN Handle(World, notices[i]) ELSE { World }) :
        Becomes(w)
  BY DEF Webhook
<1>3. notices[i] \in Notice
  BY OrdersTyped, WorldTyped, ElementOfSeq DEF Inv
<1>4. Accepting(World, Heeded, overtaken, notices[i], Heeded \cup { notices[i] }, overtaken')
  BY <1>1, Comes
<1>5. w \in Kept(World, Heeded \cup { notices[i] }, overtaken')
  <2>1. CASE Finds(World, notices[i])
    BY <1>2, <1>3, <1>4, <2>1, AgreedWorld, HandleKept
  <2>2. CASE ~Finds(World, notices[i])
    <3>1. ~World.db.payment.is_active /\ notices[i].event # "CANCELLATION" /\ w = World
      BY <1>2, <2>2 DEF Finds
    <3> QED
      BY <1>3, <1>4, <3>1, AgreedWorld, AcceptedKept
  <2> QED
    BY <2>1, <2>2
<1> QED
  BY <1>1, <1>2, <1>5, AcceptAgreed

LEMMA ReturnLocksPaymentAgreed ==
    ASSUME Inv, Agreed, NEW c \in Workers, ReturnLocksPayment(c)
    PROVE  Agreed'
<1>1. /\ AwaitingCustomer(World) # {} /\ db' = db
      /\ config' = config /\ handled' = handled /\ overtaken' = overtaken
  BY DEF ReturnLocksPayment, History
<1>0. PICK state \in { "done", "refused" } :
        LET token == Max(AwaitingCustomer(World))
            w     == Decided(World, token, state)
        IN  /\ references' = w.refs /\ notices' = w.notices
            /\ call' = [ call EXCEPT ![c] = [ Idle EXCEPT !.task = "return", !.notice = token ] ]
  BY DEF ReturnLocksPayment
<1>2. PICK token, w :
        /\ token = Max(AwaitingCustomer(World)) /\ w = Decided(World, token, state)
        /\ references' = w.refs /\ notices' = w.notices
        /\ call' = [ call EXCEPT ![c] = [ Idle EXCEPT !.task = "return", !.notice = token ] ]
  BY <1>0
<1>3. PICK S : S = AwaitingCustomer(World) /\ S \in SUBSET (1 .. Len(references))
  BY OrdersTyped, WorldTyped DEF AwaitingCustomer, Inv
<1>4. Len(references) \in Nat /\ World.refs = references
  BY OrdersTyped, WorldTyped DEF Inv
<1>5. token \in S
  BY <1>1, <1>2, <1>3, <1>4, MaxIn
<1>6. token \in DOMAIN World.refs /\ World.refs[token].op = "payment" /\ World.refs[token].state = "action"
  BY <1>3, <1>5 DEF AwaitingCustomer
<1>7. state \in { "action", "received", "done", "refused" }
  BY <1>0
<1>8. w \in Kept(World, Heeded, overtaken) /\ token \in DOMAIN w.refs /\ w.refs[token].op = "payment"
  BY <1>2, <1>6, <1>7, AgreedWorld, DecidedKept
<1>9. PICK v \in Kept(World, Heeded, overtaken) : Becomes(v)
  BY <1>1, <1>2, <1>8, RolledBackAgreed
<1>10. v \in Worlds /\ Grows(World, v) /\ Fit(v) /\ Books(v, Heeded, overtaken)
  BY DEF Kept
<1>11. World' = v
  BY <1>9, <1>10 DEF Becomes, World, Worlds
<1>12. Heeded' = Heeded
  <2>1. Says(World.notices, v.notices)
    BY <1>10 DEF Grows
  <2>2. Says(notices, notices')
    BY <1>9, <2>1, OrdersTyped DEF Becomes
  <2>3. handled \subseteq DOMAIN notices
    BY DEF Inv, HistoryTyped
  <2>4. \A i \in handled : notices'[i] = notices[i]
    BY <2>2, <2>3 DEF Says
  <2> QED
    BY <1>1, <2>4 DEF Heeded
<1>13. Fit(v) /\ Books(v, Heeded', overtaken')
  BY <1>1, <1>10, <1>12
<1>14. AnswersFor'
  <2> SUFFICES ASSUME NEW d \in Workers, call'[d].task = "return"
               PROVE  call'[d].notice \in DOMAIN references' /\ references'[call'[d].notice].op = "payment"
    BY DEF AnswersFor
  <2>1. CASE d = c
    <3>1. call'[d].notice = token
      BY <1>2, <2>1, IdleTyped DEF Inv, Calls
    <3> QED
      BY <1>2, <1>8, <3>1
  <2>2. CASE d # c
    <3>1. call'[d] = call[d]
      BY <1>2, <2>2 DEF Inv
    <3>2. call[d].notice \in DOMAIN references /\ references[call[d].notice].op = "payment"
      BY <3>1 DEF Agreed, AnswersFor
    <3>3. references' = v.refs /\ World.refs = references
      BY <1>9, <1>4 DEF Becomes
    <3>4. \A t \in DOMAIN references : t \in DOMAIN references' /\ references'[t].op = references[t].op
      BY <1>10, <3>3 DEF Grows, Extends, Moves
    <3> QED
      BY <3>1, <3>2, <3>4
  <2> QED
    BY <2>1, <2>2
<1> QED
  BY <1>1, <1>11, <1>13, <1>14, AgreedNext

LEMMA ReturnFinishesAgreed ==
    ASSUME Inv, Agreed, NEW c \in Workers, ReturnFinishes(c)
    PROVE  Agreed'
<1>1. /\ call[c].task = "return" /\ Ends(c)
      /\ config' = config /\ handled' = handled /\ overtaken' = overtaken
  BY DEF ReturnFinishes, History
<1>2. PICK token, ok, t, told, w :
        /\ token = call[c].notice
        /\ ok = (references[token].state = "done")
        /\ t = Txn("action_to_confirm", token, ok, Total)
        /\ told = Insert(World, t)
        /\ w \in (IF ok /\ ~HasOrder(World) THEN create_order(told) ELSE { told })
        /\ Becomes(w)
  BY DEF ReturnFinishes
<1>3. token \in DOMAIN World.refs /\ World.refs[token].op = "payment"
  BY <1>1, <1>2, OrdersTyped DEF Agreed, AnswersFor
<1>4. token \in Nat /\ ok \in BOOLEAN /\ Total \in Nat
  BY <1>1, <1>2 DEF Inv, Calls
<1>5. t \in TransactionRow /\ t.kind = "action_to_confirm" /\ t.token = token
  BY <1>2, <1>4, Kinds, TxnTyped DEF Txn
<1>6. /\ TransactionFits(t, World.refs) /\ t.token \notin Calling(World, { "refund" })
      /\ t.kind # "capture_failed"
  BY <1>3, <1>5 DEF TransactionFits, Fits, Calling
<1>7. told \in Kept(World, Heeded, overtaken)
  BY <1>2, <1>5, <1>6, AgreedWorld, BookKept
<1>8. w \in Kept(World, Heeded, overtaken)
  BY <1>2, <1>7, AgreedWorld, CreateKept
<1> QED
  BY <1>1, <1>2, <1>8, EndsReturnsNobody, QuietAgreed

LEMMA DeadlockDetectedAgreed ==
    ASSUME Inv, Agreed, NEW c \in Workers, DeadlockDetected(c)
    PROVE  Agreed'
<1>1. Ends(c) /\ db' = db /\ references' = references /\ notices' = notices
      /\ config' = config /\ handled' = handled /\ overtaken' = overtaken
  BY DEF DeadlockDetected, History
<1>2. Becomes(World)
  BY <1>1, OrdersTyped DEF Becomes
<1> QED
  BY <1>1, <1>2, AgreedWorld, EndsReturnsNobody, QuietAgreed

\* A call to Adyen is decided, or fails.
LEMMA MovedAgreed ==
    ASSUME Inv, Agreed, NEW token \in DOMAIN references,
           NEW event \in Event, NEW success \in BOOLEAN, NEW state \in { "done", "refused", "failed" },
           references' = [ references EXCEPT ![token].state = state ],
           notices' = Append(notices, [ event |-> event, token |-> token,
                                        amount |-> references[token].amount,
                                        success |-> success ]),
           UNCHANGED << db, call, History >>,
           NEW s, s = [ references[token] EXCEPT !.state = state ],
           NEW n, n = [ event |-> event, token |-> token,
                        amount |-> references[token].amount, success |-> success ],
           Moves(references[token], s), references[token].state # "failed",
           IF state = "failed" THEN FailsCall(n, s) /\ references[token].state = "done"
                               ELSE Answers(n, s)
    PROVE  Agreed'
<1>1. /\ World \in Worlds /\ World.refs = references /\ World.notices = notices /\ World.db = db
      /\ references \in Seq(Reference) /\ notices \in Seq(Notice)
      /\ token \in Nat /\ Fit(World) /\ World \in Kept(World, Heeded, overtaken)
  BY OrdersTyped, WorldTyped, AgreedWorld DEF Inv
<1>2. PICK refs, q : refs = references /\ q = refs[token] /\ q \in Reference
  BY <1>1, ElementOfSeq, LenProperties
<1>3. s \in Reference /\ s.op = q.op /\ s.amount = q.amount /\ s.state = state /\ q.amount \in Nat
  BY <1>2 DEF Reference
<1>4. PICK rs, more : rs = [ refs EXCEPT ![token] = s ] /\ more = Append(notices, n)
  OBVIOUS
<1>5. references' = rs /\ notices' = more
  BY <1>2, <1>4
<1>6. n \in Notice /\ n.token = token /\ n.amount = s.amount
  <2>1. n = [ event |-> event, token |-> token, amount |-> q.amount, success |-> success ]
    BY <1>2
  <2>2. event \in Event /\ token \in Nat /\ q.amount \in Nat /\ success \in BOOLEAN
    BY <1>1, <1>3
  <2>3. n \in Notice
    BY ONLY <2>1, <2>2, Zenon DEF Notice
  <2>4. n.token = token /\ n.amount = q.amount
    BY ONLY <2>1
  <2> QED
    BY <1>3, <2>3, <2>4
<1>7. DOMAIN rs = DOMAIN refs /\ rs[token] = s /\ \A t \in DOMAIN refs : t # token => rs[t] = refs[t]
  BY <1>2, <1>4
<1>8. NoticeFits(n, rs)
  BY <1>2, <1>6, <1>7 DEF NoticeFits
<1>9. /\ s.state \notin { "action", "received" } =>
           refs[token].state \notin { "action", "received" } \/ Answers(n, s)
      /\ s.state = "failed" => FailsCall(n, s)
  BY <1>2, <1>3
<1>10. NoticesFit(rs, more) /\ Extends(refs, rs)
  <2>1. refs \in Seq(Reference) /\ notices \in Seq(Notice) /\ token \in DOMAIN refs
    BY <1>1, <1>2
  <2>2. NoticesFit(refs, notices)
    BY <1>1, <1>2 DEF Fit
  <2>3. Moves(refs[token], s) /\ refs[token].state # "failed"
    BY <1>2
  <2> QED
    BY ONLY <1>3, <1>4, <1>6, <1>8, <1>9, <2>1, <2>2, <2>3, MoveFit
<1>11. Says(notices, more)
  BY <1>1, <1>4, <1>6, Appended DEF Says
<1>12. PICK x, v : x = World /\ v = [ x EXCEPT !.refs = rs, !.notices = more ]
  OBVIOUS
<1>13. rs \in Seq(Reference) /\ more \in Seq(Notice)
  BY <1>1, <1>2, <1>3, <1>4, <1>6, ExceptSeq, AppendProperties
<1>14. v \in Worlds /\ v.db = x.db /\ v.refs = rs /\ v.notices = more
  BY <1>1, <1>12, <1>13 DEF Worlds
<1>15. \A t \in DOMAIN v.refs : v.refs[t].op = "capture" => MayCapture(World)
  <2>1. \A t \in DOMAIN refs : refs[t].op = "capture" => MayCapture(World)
    BY <1>1, <1>2 DEF Fit
  <2>2. \A t \in DOMAIN refs : rs[t].op = refs[t].op
    BY <1>2, <1>3, <1>7
  <2> QED
    BY <1>7, <1>14, <2>1, <2>2
<1>16. v \in Kept(World, Heeded, overtaken)
  <2>1. x \in Kept(World, Heeded, overtaken) /\ Extends(x.refs, v.refs)
        /\ Says(x.notices, v.notices) /\ NoticesFit(v.refs, v.notices)
    BY <1>1, <1>2, <1>10, <1>11, <1>12, <1>14
  <2> QED
    BY <1>1, <1>14, <1>15, <2>1, CallsKept
<1>17. Becomes(v)
  BY <1>1, <1>5, <1>12, <1>14 DEF Becomes
<1>18. config' = config /\ handled' = handled /\ overtaken' = overtaken /\ call' = call
  BY DEF History
<1> QED
  BY <1>16, <1>17, <1>18, QuietAgreed

LEMMA AdyenSettlesAgreed ==
    ASSUME Inv, Agreed, NEW token \in DOMAIN references, AdyenSettles(token)
    PROVE  Agreed'
<1>0. PICK state \in { "done", "refused" } :
        /\ references' = [ references EXCEPT ![token].state = state ]
        /\ notices' = Append(notices,
             [ event |-> EventOf(references[token].op), token |-> token,
               amount |-> references[token].amount, success |-> state = "done" ])
  BY DEF AdyenSettles
<1>1. PICK event, success :
        /\ event = EventOf(references[token].op) /\ success = (state = "done")
        /\ references' = [ references EXCEPT ![token].state = state ]
        /\ notices' = Append(notices,
             [ event |-> event, token |-> token,
               amount |-> references[token].amount, success |-> success ])
  BY <1>0
<1>2. UNCHANGED << db, call, History >> /\ references[token].state \in { "received", "action" }
  BY DEF AdyenSettles
<1>3. references[token] \in Reference
  BY OrdersTyped, WorldTyped, ElementOfSeq DEF Inv
<1>4. event \in Event /\ success \in BOOLEAN
  <2>1. references[token].op \in { "payment", "capture", "refund", "cancel" }
    BY <1>3 DEF Reference
  <2> QED
    BY <1>1, <2>1 DEF EventOf, Event
<1>5. PICK q, s, n : /\ q = references[token] /\ s = [ references[token] EXCEPT !.state = state ]
                     /\ n = [ event |-> event, token |-> token,
                              amount |-> references[token].amount, success |-> success ]
  OBVIOUS
<1>6. s.op = q.op /\ s.amount = q.amount /\ s.state = state /\ q.state \in { "received", "action" }
  BY <1>2, <1>3, <1>5 DEF Reference
<1>7. Moves(references[token], s) /\ references[token].state # "failed"
  BY <1>5, <1>6 DEF Moves
<1>8. Answers(n, s)
  <2>1. n.event = event /\ n.success = success
    BY <1>5
  <2> QED
    BY <1>1, <1>5, <1>6, <2>1 DEF Answers, CarriedOut
<1>9. state \in { "done", "refused", "failed" } /\ state # "failed"
  BY <1>0
<1>10. IF state = "failed" THEN FailsCall(n, s) /\ references[token].state = "done" ELSE Answers(n, s)
  BY <1>8, <1>9
<1> QED
  BY <1>1, <1>2, <1>4, <1>5, <1>7, <1>9, <1>10, MovedAgreed

LEMMA AdyenFailsAgreed ==
    ASSUME Inv, Agreed, NEW token \in DOMAIN references, AdyenFails(token)
    PROVE  Agreed'
<1>1. PICK event \in (IF references[token].op = "refund" THEN { "REFUND_FAILED", "REFUNDED_REVERSED" }
                                                         ELSE { "CAPTURE_FAILED" }) :
        notices' = Append(notices, [ event |-> event, token |-> token,
                                     amount |-> references[token].amount, success |-> TRUE ])
  BY DEF AdyenFails
<1>2. /\ references' = [ references EXCEPT ![token].state = "failed" ]
      /\ UNCHANGED << db, call, History >>
      /\ references[token].state = "done" /\ Moved(references[token]) # 0
  BY DEF AdyenFails
<1>3. references[token] \in Reference
  BY OrdersTyped, WorldTyped, ElementOfSeq DEF Inv
<1>4. event \in Event /\ TRUE \in BOOLEAN
  BY <1>1 DEF Event
<1>5. PICK q, s, n : /\ q = references[token] /\ s = [ references[token] EXCEPT !.state = "failed" ]
                     /\ n = [ event |-> event, token |-> token,
                              amount |-> references[token].amount, success |-> TRUE ]
  OBVIOUS
<1>6. s.op = q.op /\ s.amount = q.amount /\ s.state = "failed" /\ q.state = "done"
  BY <1>2, <1>3, <1>5 DEF Reference
<1>7. q.op # "cancel"
  <2>1. q.op = "cancel" => Moved(q) = 0
    BY <1>6 DEF Moved
  <2> QED
    BY <1>2, <1>5, <2>1
<1>8. Moves(references[token], s) /\ references[token].state # "failed"
  BY <1>5, <1>6 DEF Moves, CarriedOut
<1>9. FailsCall(n, s)
  <2>1. n.event = event /\ n.success = TRUE
    BY <1>5
  <2>2. event \in Fails
    BY <1>1 DEF Fails
  <2> QED
    BY <1>1, <1>5, <1>6, <1>7, <2>1, <2>2 DEF FailsCall
<1>10. IF "failed" = "failed" THEN FailsCall(n, s) /\ references[token].state = "done" ELSE Answers(n, s)
  BY <1>2, <1>9
<1>11. PICK state, success : state = "failed" /\ success = TRUE
  OBVIOUS
<1>12. state \in { "done", "refused", "failed" } /\ success \in BOOLEAN
  BY <1>11
<1> QED
  BY <1>1, <1>2, <1>4, <1>5, <1>8, <1>10, <1>11, <1>12, MovedAgreed

LEMMA InitAgreed == Init => Agreed
<1> SUFFICES ASSUME Init PROVE Agreed
  OBVIOUS
<1>1. /\ World.db.transactions = << >> /\ World.refs = << >> /\ World.notices = << >>
      /\ references = << >> /\ handled = {} /\ Heeded = {}
  BY DEF Init, World, Heeded
<1>2. DOMAIN << >> = {}
  OBVIOUS
<1>3. Fit(World)
  BY <1>1, <1>2 DEF Fit, NoticesFit
<1>4. Calling(World, { "refund" }) = {} /\ Calling(World, { "payment", "capture" }) = {}
      /\ Calling(World, { "cancel" }) = {}
  BY <1>1, <1>2 DEF Calling
<1>5. Books(World, Heeded, overtaken)
  BY <1>1, <1>4 DEF Books, CancelsOK, RefundsOK, FailuresOK, ToldCaptureOK
<1>6. AnswersFor
  BY IdleTyped DEF Init, AnswersFor
<1> QED
  BY <1>3, <1>5, <1>6 DEF Agreed

LEMMA NextAgreed == Inv /\ Agreed /\ [Next]_vars => Agreed'
<1> SUFFICES ASSUME Inv, Agreed, [Next]_vars PROVE Agreed'
  OBVIOUS
<1>1. CASE UNCHANGED vars
  <2>1. /\ db' = db /\ references' = references /\ notices' = notices
        /\ config' = config /\ handled' = handled /\ call' = call /\ overtaken' = overtaken
    BY <1>1 DEF vars
  <2>2. Becomes(World)
    BY <2>1, OrdersTyped DEF Becomes
  <2> QED
    BY <2>1, <2>2, AgreedWorld, QuietAgreed
<1>2. ASSUME NEW c \in Workers, CompleteLocksCheckout(c) PROVE Agreed'
  BY <1>2, CompleteLocksCheckoutAgreed
<1>3. ASSUME NEW c \in Workers, CompletePays(c) PROVE Agreed'
  BY <1>3, CompletePaysAgreed
<1>4. ASSUME NEW c \in Workers, Staff(c) PROVE Agreed'
  BY <1>4, StaffAgreed
<1>5. ASSUME NEW c \in Workers, Crash(c) PROVE Agreed'
  BY <1>5, CrashAgreed
<1>6. ASSUME NEW c \in Workers, NEW i \in DOMAIN notices, WebhookLocksPayment(c, i) PROVE Agreed'
  BY <1>6, WebhookLocksPaymentAgreed
<1>7. ASSUME NEW c \in Workers, NEW i \in DOMAIN notices, Webhook(c, i) PROVE Agreed'
  BY <1>7, WebhookAgreed
<1>8. ASSUME NEW c \in Workers, WebhookFinishes(c) PROVE Agreed'
  BY <1>8, WebhookFinishesAgreed
<1>9. ASSUME NEW c \in Workers, ReturnLocksPayment(c) PROVE Agreed'
  BY <1>9, ReturnLocksPaymentAgreed
<1>10. ASSUME NEW c \in Workers, ReturnFinishes(c) PROVE Agreed'
  BY <1>10, ReturnFinishesAgreed
<1>11. ASSUME NEW c \in Workers, DeadlockDetected(c) PROVE Agreed'
  BY <1>11, DeadlockDetectedAgreed
<1>12. ASSUME NEW token \in DOMAIN references, AdyenSettles(token) PROVE Agreed'
  BY <1>12, AdyenSettlesAgreed
<1>13. ASSUME NEW token \in DOMAIN references, AdyenFails(token) PROVE Agreed'
  BY <1>13, AdyenFailsAgreed
<1> QED
  BY <1>1, <1>2, <1>3, <1>4, <1>5, <1>6, <1>7, <1>8, <1>9, <1>10, <1>11, <1>12, <1>13 DEF Next

LEMMA AgreedHolds == Spec => [](Inv /\ Agreed)
<1>1. Init => Inv /\ Agreed
  BY InitInv, InitAgreed
<1>2. Inv /\ Agreed /\ [Next]_vars => (Inv /\ Agreed)'
  BY NextInv, NextAgreed
<1> QED
  BY <1>1, <1>2, PTL DEF Spec

-----------------------------------------------------------------------------
(* What was told is what Adyen did.                                        *)

LEMMA RefundSettled ==
    ASSUME Inv, Agreed, NEW token \in DOMAIN references, references[token].op = "refund",
           Settled(token), db.payment.is_active
    PROVE  Booked(token) = Moved(references[token])
<1>1. /\ World \in Worlds /\ World.refs = references /\ World.notices = notices /\ World.db = db
      /\ references \in Seq(Reference) /\ Fit(World) /\ Books(World, Heeded, overtaken)
  BY OrdersTyped, WorldTyped, AgreedWorld DEF Inv
<1>2. PICK r, ts, N : r = references[token] /\ ts = db.transactions /\ N = Heeded
  OBVIOUS
<1>3. /\ r \in Reference /\ r.amount \in Nat /\ r.op = "refund"
      /\ r.state \in { "done", "refused", "failed" }
  <2>1. r \in Reference /\ r.op = "refund"
    BY <1>1, <1>2, ElementOfSeq, LenProperties
  <2>2. r.state \notin { "action", "received" }
    BY <1>2 DEF Settled, Concluded
  <2> QED
    BY <2>1, <2>2 DEF Reference
<1>4. RefundOK(ts, r.amount, N, token)
  <2>1. token \in Calling(World, { "refund" })
    BY <1>1 DEF Calling
  <2>2. ~overtaken /\ World.db.payment.is_active
    BY <1>1 DEF Settled
  <2>3. RefundsOK(World, N)
    BY <1>1, <1>2, <2>2 DEF Books
  <2> QED
    BY <1>1, <1>2, <2>1, <2>3 DEF RefundsOK
<1>5. \A i \in DOMAIN notices : notices[i].token = token => notices[i] \in N
  BY <1>2 DEF Settled, Concluded, Heeded
<1>6. NoticesFit(references, notices)
  BY <1>1 DEF Fit
<1>7. \A m \in N : m.token = token => Answers(m, r) \/ FailsCall(m, r)
  <2> SUFFICES ASSUME NEW m \in N, m.token = token PROVE Answers(m, r) \/ FailsCall(m, r)
    OBVIOUS
  <2>1. PICK i \in DOMAIN notices : m = notices[i]
    BY <1>2 DEF Heeded, Inv, HistoryTyped
  <2>2. NoticeFits(m, references)
    BY <1>6, <2>1 DEF NoticesFit
  <2> QED
    BY <1>2, <1>3, <2>2 DEF NoticeFits
<1>8. PICK m \in N : m.token = token /\ Answers(m, r)
  BY <1>2, <1>3, <1>5, <1>6 DEF NoticesFit
<1>9. m.event = "REFUND" /\ m.success = (r.state \in CarriedOut)
  BY <1>3, <1>8 DEF Answers, EventOf
<1>10. CASE r.state = "refused"
  <2>1. ASSUME NEW k \in N, k.token = token, k.success PROVE FALSE
    <3>1. ~FailsCall(k, r)
      BY <1>10 DEF FailsCall
    <3>2. Answers(k, r)
      BY <1>7, <2>1, <3>1
    <3> QED
      BY <1>10, <2>1, <3>2 DEF Answers, CarriedOut
  <2>2. ~Heard(N, token, { "REFUND" }) /\ ~Heard(N, token, Fails)
    BY <2>1 DEF Heard
  <2>3. BookedIn(ts, token) = 0
    BY <1>4, <2>2 DEF RefundOK
  <2>4. Moved(r) = 0
    BY <1>10 DEF Moved
  <2> QED
    BY <1>2, <2>3, <2>4 DEF Booked
<1>11. ASSUME r.state \in CarriedOut PROVE Heard(N, token, { "REFUND" })
  BY <1>8, <1>9, <1>11 DEF Heard
<1>12. CASE r.state = "done"
  <2>1. Heard(N, token, { "REFUND" })
    BY <1>11, <1>12 DEF CarriedOut
  <2>2. ASSUME NEW k \in N, k.token = token, k.event \in Fails PROVE FALSE
    <3>1. ~FailsCall(k, r)
      BY <1>12 DEF FailsCall
    <3>2. Answers(k, r)
      BY <1>7, <2>2, <3>1
    <3> QED
      BY <1>3, <2>2, <3>2 DEF Answers, EventOf, Fails
  <2>3. ~Heard(N, token, Fails)
    BY <2>2 DEF Heard
  <2>4. BookedIn(ts, token) = -r.amount
    BY <1>4, <2>1, <2>3 DEF RefundOK
  <2>5. Moved(r) = -r.amount
    BY <1>3, <1>12 DEF Moved
  <2> QED
    BY <1>2, <2>4, <2>5 DEF Booked
<1>13. CASE r.state = "failed"
  <2>1. Heard(N, token, { "REFUND" })
    BY <1>11, <1>13 DEF CarriedOut
  <2>2. PICK k \in N : k.token = token /\ FailsCall(k, r)
    BY <1>2, <1>3, <1>5, <1>6, <1>13 DEF NoticesFit
  <2>3. Heard(N, token, Fails)
    BY <2>2 DEF Heard, FailsCall
  <2>4. BookedIn(ts, token) = 0
    BY <1>4, <2>1, <2>3 DEF RefundOK
  <2>5. Moved(r) = 0
    BY <1>13 DEF Moved
  <2> QED
    BY <1>2, <2>4, <2>5 DEF Booked
<1> QED
  BY <1>3, <1>10, <1>12, <1>13

\* RefundsSettle of AdyenNotifications, for any number of workers, calls and
\* notifications: handle_refund, handle_failed_refund and
\* handle_reversed_refund (webhooks.py) book a refund as Adyen carried it out,
\* failed or reversed it, however often it is told, as long as none of the
\* notifications overtook another.
THEOREM RefundsAreBookedOnce == Spec => []RefundsSettle
<1>1. Inv /\ Agreed => RefundsSettle
  BY RefundSettled DEF RefundsSettle
<1> QED
  BY <1>1, AgreedHolds, PTL

-----------------------------------------------------------------------------
(* What was told already changes nothing.                                  *)

LEMMA RefusedLeaves ==
    ASSUME NEW w \in Worlds, NEW x \in TransactionRow, ~x.is_success
    PROVE  (Book(w, x)).db.payment = w.db.payment /\ (Book(w, x)).db.canceled = w.db.canceled
<1>1. gateway_postprocess(w.db.payment, x) = w.db.payment
  BY DEF gateway_postprocess, Processable
<1> QED
  BY <1>1 DEF Book, Worlds, Rows

LEMMA InsertLeaves ==
    ASSUME NEW w \in Worlds, NEW x
    PROVE  (Insert(w, x)).db.payment = w.db.payment /\ (Insert(w, x)).db.canceled = w.db.canceled
BY DEF Insert, Worlds, Rows

LEMMA AgainIdle ==
    ASSUME NEW w \in Worlds, NEW N, Fit(w), Books(w, N, FALSE),
           NEW n \in Notice, n \in N, NoticeFits(n, w.refs), w.refs[n.token].op # "payment",
           n.event = "CAPTURE" => HasOrder(w) /\ (n.success => Done(w, { "capture" }) # {}),
           Finds(w, n), NEW u \in Handle(w, n)
    PROVE  u.db.payment = w.db.payment /\ u.db.canceled = w.db.canceled
<1>1. PICK t, ts, r : t = n.token /\ ts = w.db.transactions /\ r = w.refs[n.token]
  OBVIOUS
<1>2. /\ n.event \in Event /\ n.success \in BOOLEAN /\ t \in DOMAIN w.refs /\ t # 0
      /\ \A events : n.success /\ n.event \in events => Heard(N, t, events)
  <2>1. n.event \in Event /\ n.success \in BOOLEAN
    BY Zenon DEF Notice
  <2>2. t \in DOMAIN w.refs /\ t # 0
    BY <1>1, EventIsOf
  <2> QED
    BY <1>1, <2>1, <2>2 DEF Heard
<1>3. /\ n.event \notin { "AUTHORISATION", "PENDING" }
      /\ n.event = "CAPTURE_FAILED" => r.op \in { "payment", "capture" } /\ n.success
      /\ n.event \in { "REFUND", "REFUND_FAILED", "REFUNDED_REVERSED" } => r.op = "refund"
      /\ n.event \in { "REFUND_FAILED", "REFUNDED_REVERSED" } => n.success
      /\ n.event = "CANCELLATION" => r.op = "cancel"
      /\ n.event \in { "REFUND", "CANCELLATION" } => n.success = (r.state \in CarriedOut)
  BY <1>1, EventIsOf
<1>4. \A kinds : \A i \in Of(ts, t, kinds) :
        /\ ts[i].kind \in kinds
        /\ ts[i].kind \in { "refund", "cancel" } => ts[i].is_success = (r.state \in CarriedOut)
        /\ ts[i].kind = "capture_failed" => ts[i].is_success
  <2>1. TAKE kinds
  <2>2. TAKE i \in Of(ts, t, kinds)
  <2>3. i \in DOMAIN w.db.transactions /\ ts[i].token = t /\ ts[i].kind \in kinds
    BY <1>1 DEF Of
  <2>4. TransactionFits(ts[i], w.refs)
    BY <1>1, <2>3 DEF Fit
  <2>5. Fits(ts[i], r)
    BY <1>1, <1>2, <2>3, <2>4 DEF TransactionFits
  <2> QED
    BY <2>3, <2>5 DEF Fits
<1>5. CancelsOK(w, N)
      /\ (w.db.payment.is_active => RefundsOK(w, N) /\ FailuresOK(w, N))
  BY DEF Books
<1>6. n.event # "CANCELLATION" => w.db.payment.is_active
  BY DEF Finds
<1>7. \A kind \in TransactionKind :
        ~n.success => (Book(w, Told(n, kind))).db.payment = w.db.payment
                        /\ (Book(w, Told(n, kind))).db.canceled = w.db.canceled
  <2>1. TAKE kind \in TransactionKind
  <2>2. PICK x : x = Told(n, kind)
    OBVIOUS
  <2>3. x \in TransactionRow /\ x.is_success = n.success
    BY <2>2, ToldFields
  <2> QED
    BY <2>2, <2>3, RefusedLeaves
<1>8. CASE n.event = "CAPTURE"
  <2>1. (u = Book(w, Told(n, "capture")) /\ ~n.success) \/ u = Insert(w, Told(n, "capture"))
    BY <1>8 DEF Handle, handle_capture
  <2> QED
    BY <1>7, <2>1, InsertLeaves, Kinds
<1>9. CASE n.event = "CAPTURE_FAILED"
  <2>1. PICK kinds : kinds = { "capture_failed" }
    OBVIOUS
  <2>2. Heard(N, t, Fails)
    BY <1>2, <1>3, <1>9 DEF Fails
  <2>3. FailureOK(ts, N, t)
    BY <1>1, <1>2, <1>3, <1>5, <1>6, <1>9 DEF FailuresOK, Calling
  <2>4. Of(ts, t, kinds) # {}
    BY <2>1, <2>2, <2>3 DEF FailureOK
  <2>5. \A i \in Of(ts, t, kinds) : ts[i].is_success
    BY <1>4, <2>1
  <2>6. Known(w, n, "capture_failed")
    BY <1>1, <2>1, <2>4, <2>5, KnownIs
  <2>7. u = w
    BY <1>9, <2>6 DEF Handle, Once
  <2> QED
    BY <2>7
<1>10. CASE n.event = "CANCELLATION"
  <2>1. PICK kinds : kinds = { "cancel" }
    OBVIOUS
  <2>2. \A i \in Of(ts, t, kinds) : ts[i].is_success = n.success
    BY <1>3, <1>4, <1>10, <2>1
  <2>3. n.success => Of(ts, t, kinds) # {}
    <3>1. CancelOK(ts, N, t)
      BY <1>1, <1>2, <1>3, <1>5, <1>10 DEF CancelsOK, Calling
    <3> QED
      BY <1>2, <1>10, <2>1, <3>1 DEF CancelOK
  <2>4. CASE Known(w, n, "cancel")
    <3>1. u = w
      BY <1>10, <2>4 DEF Handle, handle_cancellation
    <3> QED
      BY <3>1
  <2>5. CASE ~Known(w, n, "cancel")
    <3>1. ~n.success
      BY <1>1, <2>1, <2>2, <2>3, <2>5, KnownIs
    <3>2. PICK v : v = Book(w, Told(n, "cancel"))
      OBVIOUS
    <3>3. v.db.payment = w.db.payment /\ v.db.canceled = w.db.canceled
      BY <1>7, <3>1, <3>2, Kinds
    <3>4. v \in Worlds
      BY <3>2, Kinds, ToldTyped, BookAdds DEF Adds
    <3>5. u = [ v EXCEPT !.db.canceled = @ \/ (HasOrder(w) /\ n.success) ]
      BY <1>10, <2>5, <3>2 DEF Handle, handle_cancellation
    <3> QED
      BY <3>1, <3>3, <3>4, <3>5 DEF Worlds, Rows
  <2> QED
    BY <2>4, <2>5
<1>11. ASSUME n.event \in { "REFUND", "REFUND_FAILED", "REFUNDED_REVERSED" }
       PROVE  RefundOK(ts, r.amount, N, t)
  BY <1>1, <1>2, <1>3, <1>5, <1>6, <1>11 DEF RefundsOK, Calling
<1>12. CASE n.event = "REFUND"
  <2>1. PICK kinds : kinds = { "refund" }
    OBVIOUS
  <2>2. \A i \in Of(ts, t, kinds) : ts[i].is_success = n.success
    BY <1>3, <1>4, <1>12, <2>1
  <2>3. n.success => Of(ts, t, kinds) # {}
    BY <1>2, <1>11, <1>12, <2>1 DEF RefundOK
  <2>4. CASE Known(w, n, "refund")
    <3>1. u = w
      BY <1>12, <2>4 DEF Handle, handle_refund, Once
    <3> QED
      BY <3>1
  <2>5. CASE ~Known(w, n, "refund")
    <3>1. ~n.success
      BY <1>1, <2>1, <2>2, <2>3, <2>5, KnownIs
    <3>2. u = Book(w, Told(n, "refund"))
      BY <1>12, <2>5 DEF Handle, handle_refund, Once
    <3> QED
      BY <1>7, <3>1, <3>2, Kinds
  <2> QED
    BY <2>4, <2>5
<1>13. CASE n.event = "REFUND_FAILED"
  <2>1. Asked(ts, t) = {} \/ Latest(ts, t, "refund_failed")
    BY <1>2, <1>3, <1>11, <1>13 DEF RefundOK
  <2>2. PICK kinds : kinds = { "refund_ongoing", "refund", "refund_failed" }
    OBVIOUS
  <2>3. WithToken(w, kinds, t) = Asked(ts, t)
    BY <1>1, <2>2, WithIsOf DEF Asked
  <2>4. PICK i : i = Max(Asked(ts, t))
    OBVIOUS
  <2>5. Asked(ts, t) # {} => ts[i].kind = "refund_failed"
    <3> SUFFICES ASSUME Asked(ts, t) # {} PROVE ts[i].kind = "refund_failed"
      OBVIOUS
    <3>1. Latest(ts, t, "refund_failed")
      BY <2>1
    <3>2. PICK kind : kind = "refund_failed"
      OBVIOUS
    <3>3. Latest(ts, t, kind) = (ts[i].kind = kind)
      BY <1>1, <2>4, LastAsked
    <3> QED
      BY <3>1, <3>2, <3>3
  <2>6. u = w
    BY <1>1, <1>13, <2>2, <2>3, <2>4, <2>5 DEF Handle, handle_failed_refund
  <2> QED
    BY <2>6
<1>14. CASE n.event = "REFUNDED_REVERSED"
  <2>1. Of(ts, t, { "refund_reversed" }) # {}
    BY <1>2, <1>3, <1>11, <1>14 DEF RefundOK
  <2>2. WithToken(w, { "refund_reversed" }, n.token) # {}
    BY <1>1, <2>1, WithIsOf
  <2>3. u = w
    BY <1>14, <2>2 DEF Handle, handle_reversed_refund
  <2> QED
    BY <2>3
<1> QED
  BY <1>2, <1>3, <1>8, <1>9, <1>10, <1>12, <1>13, <1>14 DEF Event

LEMMA RedeliveryIdle ==
    ASSUME Inv, Agreed, NEW c \in Workers, NEW i \in handled, Webhook(c, i),
           references[notices[i].token].op # "payment", ~CaptureLost(notices[i].token), ~overtaken
    PROVE  db'.payment = db.payment /\ db'.canceled = db.canceled
<1>1. /\ World \in Worlds /\ World.refs = references /\ World.notices = notices /\ World.db = db
      /\ notices \in Seq(Notice) /\ Fit(World) /\ Books(World, Heeded, FALSE)
  <2>1. overtaken = FALSE
    BY DEF Inv, HistoryTyped
  <2> QED
    BY <2>1, OrdersTyped, WorldTyped, AgreedWorld DEF Inv
<1>2. i \in DOMAIN notices
  BY DEF Webhook, Delivered
<1>3. PICK n : n = notices[i]
  OBVIOUS
<1>4. n \in Notice /\ n \in Heeded /\ NoticeFits(n, World.refs) /\ World.refs[n.token].op # "payment"
  BY <1>1, <1>2, <1>3, ElementOfSeq, LenProperties DEF Heeded, Fit, NoticesFit
<1>5. PICK u \in (IF Finds(World, n) THEN Handle(World, n) ELSE { World }) : db' = u.db
  BY <1>3 DEF Webhook, Becomes
<1>6. CASE Finds(World, n)
  <2>1. u \in Handle(World, n)
    BY <1>5, <1>6
  <2>2. ASSUME n.event = "CAPTURE"
        PROVE  HasOrder(World) /\ (n.success => Done(World, { "capture" }) # {})
    <3>1. HasOrder(World)
      <4>1. ~db.checkout
        BY <1>3, <1>6, <2>2 DEF Webhook, NeedsCheckout
      <4>2. db.orders \in Nat /\ db.orders # 0
        BY <1>1, <4>1, WorldTyped DEF Inv, OpenOrOrdered
      <4> QED
        BY <1>1, <4>2 DEF HasOrder
    <3>2. ASSUME n.success, ~config.auto_capture PROVE Done(World, { "capture" }) # {}
      <4>1. World.db.payment.is_active
        BY <1>6, <2>2 DEF Finds
      <4> QED
        BY <1>1, <1>4, <2>2, <3>2, <4>1 DEF Books, ToldCaptureOK
    <3>3. ASSUME config.auto_capture PROVE Done(World, { "capture" }) # {}
      <4>1. n.token \in DOMAIN references /\ references[n.token].op = "capture"
        BY <1>1, <1>4, <2>2, EventIsOf
      <4>2. n.token \notin unanswered
        BY <1>3, <3>3, <4>1 DEF CaptureLost
      <4> QED
        BY <4>1, <4>2 DEF Inv, CapturesAnswered
    <3> QED
      BY <3>1, <3>2, <3>3
  <2>3. u.db.payment = World.db.payment /\ u.db.canceled = World.db.canceled
    BY <1>1, <1>4, <1>6, <2>1, <2>2, AgainIdle
  <2> QED
    BY <1>1, <1>5, <2>3
<1>7. CASE ~Finds(World, n)
  BY <1>1, <1>5, <1>7
<1> QED
  BY <1>6, <1>7

\* RedeliveryIsIdle of AdyenNotifications, for any number of workers, calls
\* and notifications: handle_webhook (webhooks.py) accepts a notification of a
\* capture, a refund or a cancellation a second time, and its handler finds
\* the transaction of the first (get_transaction) and leaves the payment and
\* the order's cancellation as they are.  Not so for a capture by Saleor whose
\* answer was lost: first told before there was an order, it is no capture yet.
THEOREM RedeliveryChangesNothing == Spec => RedeliveryIsIdle
<1>1. ASSUME Inv, Agreed, [Next]_vars
      PROVE  [ \A c \in Workers, i \in handled :
                 /\ Webhook(c, i)
                 /\ references[notices[i].token].op # "payment"
                 /\ ~CaptureLost(notices[i].token)
                 /\ ~overtaken
                 => db'.payment = db.payment /\ db'.canceled = db.canceled ]_vars
  BY <1>1, RedeliveryIdle
<1> QED
  BY <1>1, AgreedHolds, PTL DEF Spec, RedeliveryIsIdle
=============================================================================
