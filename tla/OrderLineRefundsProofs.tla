------------------------ MODULE OrderLineRefundsProofs ------------------------
(***************************************************************************)
(* Proofs about OrderLineRefunds, for any lines, workers and statuses.     *)
(***************************************************************************)
EXTENDS OrderLineRefunds, FiniteSetTheorems, TLAPS

USE LinesAssumption

-----------------------------------------------------------------------------
(* Types                                                                   *)

LEMMA IdleTyped == Idle \in Call /\ Idle.pc = "idle" /\ Idle.line \in Lines /\ Idle.shipping = FALSE
<1>1. PICK l \in Lines : l = (CHOOSE m \in Lines : TRUE)
  OBVIOUS
<1> QED
  BY <1>1 DEF Idle, Call, Metadata, NoStatus

\* A step that saves a status keeps the types of what it saves.
LEMMA SetStatusTyped ==
    ASSUME TypeOK, NEW l \in Lines, NEW s \in FulfillmentStatus \cup { NoStatus },
           SetStatus(l, s)
    PROVE  /\ db' \in [ status : [ Lines -> FulfillmentStatus \cup { NoStatus } ],
                        metadata : [ Lines -> Metadata ],
                        cashgram : [ Lines -> RefundStatus \cup { NoStatus } ] ]
           /\ initiated' \subseteq Lines
BY DEF TypeOK, SetStatus

LEMMA GotoTyped ==
    ASSUME TypeOK, NEW w \in Workers,
           NEW pc \in { "idle", "note", "update", "cancel", "customer", "save", "refresh",
                        "metadata", "count", "create", "book" },
           Goto(w, pc)
    PROVE  call' \in [ Workers -> Call ]
<1>1. call[w] \in Call
  BY DEF TypeOK
<1>2. [ call[w] EXCEPT !.pc = pc ] \in Call
  BY <1>1 DEF Call
<1>3. call' = [ call EXCEPT ![w] = [ call[w] EXCEPT !.pc = pc ] ]
  BY DEF Goto
<1> QED
  BY <1>2, <1>3 DEF TypeOK

LEMMA FinishTyped ==
    ASSUME TypeOK, NEW w \in Workers, Finish(w)
    PROVE  call' \in [ Workers -> Call ]
BY IdleTyped DEF TypeOK, Finish

LEMMA InitTyped == Init => TypeOK
<1> SUFFICES ASSUME Init PROVE TypeOK
  OBVIOUS
<1>1. db \in [ status : [ Lines -> FulfillmentStatus \cup { NoStatus } ],
               metadata : [ Lines -> Metadata ],
               cashgram : [ Lines -> RefundStatus \cup { NoStatus } ] ]
  BY DEF Init, FulfillmentStatus, NoStatus, Metadata
<1>2. poll \in RefundJob
  BY IdleTyped DEF Init, RefundJob, RefundStatus
<1>3. call \in [ Workers -> Call ]
  BY IdleTyped DEF Init
<1>4. daily \in [ pc : { "idle", "save" }, lines : SUBSET Lines,
                  metadata : [ Lines -> Metadata ] ]
  BY <1>1 DEF Init
<1>5. cashfree \in [ Lines -> [ status : { NoStatus, "ACTIVE", "REDEEMED", "EXPIRED", "FAILED" },
                                shipping : BOOLEAN ] ]
  BY DEF Init
<1> QED
  BY <1>1, <1>2, <1>3, <1>4, <1>5 DEF Init, TypeOK

\* Statuses that the code writes are statuses.
LEMMA ClosedTyped ==
    ASSUME NEW s \in FulfillmentStatus \cup { NoStatus }
    PROVE  Closed(s) \in FulfillmentStatus \cup { NoStatus }
BY DEF Closed, FulfillmentStatus

LEMMA MarkedTyped ==
    ASSUME NEW m \in Metadata, NEW s \in FulfillmentStatus \cup { NoStatus }, NEW b \in BOOLEAN
    PROVE  Marked(m, s, b) \in Metadata
BY DEF Marked, Metadata

LEMMA RefundOfTyped == \A s : RefundOf(s) \in RefundStatus
BY DEF RefundOf, RefundStatus

LEMMA NextLineTyped ==
    ASSUME NEW p \in RefundJob
    PROVE  /\ NextLine(p) \in RefundJob
           /\ NextLine(p).todo \subseteq p.todo
           /\ NextLine(p).pc \in { "idle", "read" }
BY DEF NextLine, RefundJob

-----------------------------------------------------------------------------
(* Calls of staff and brands                                               *)

LEMMA CallTyped ==
    ASSUME TypeOK,
           NEW w \in Workers, StaffUpdate(w) \/ BrandUpdate(w) \/ StaffRefund(w) \/ Step(w)
    PROVE  TypeOK'
<1>1. CASE StaffUpdate(w)
  <2>1. PICK l \in Fulfilled, to \in StaffStatuses :
          call' = [ call EXCEPT ![w] =
                      [ Idle EXCEPT !.pc = AfterCheck(to), !.line = l, !.to = to ] ]
    BY <1>1 DEF StaffUpdate
  <2>2. [ Idle EXCEPT !.pc = AfterCheck(to), !.line = l, !.to = to ] \in Call
    BY IdleTyped DEF Call, AfterCheck, Fulfilled
  <2>3. call' \in [ Workers -> Call ]
    BY <2>1, <2>2 DEF TypeOK
  <2>0. Begin(w)
    BY <1>1, Zenon DEF StaffUpdate
  <2>5. updates' \in Nat
    BY <2>0 DEF Begin, TypeOK
  <2>6. UNCHANGED << db, cashfree, late, poll, daily, lost, initiated >>
    BY <1>1, Zenon DEF StaffUpdate
  <2> QED
    BY <2>3, <2>5, <2>6 DEF TypeOK
<1>2. CASE BrandUpdate(w)
  <2>1. PICK l \in Fulfilled, to \in BrandStatuses, noted \in BOOLEAN :
          call' = [ call EXCEPT ![w] =
                      [ Idle EXCEPT !.pc = IF to \in Cancellations /\ ~noted
                                           THEN "note" ELSE "update",
                                    !.line = l, !.to = to, !.seen = db.status[l] ] ]
    BY <1>2 DEF BrandUpdate
  <2>2. l \in Lines /\ db.status[l] \in FulfillmentStatus \cup { NoStatus }
    BY DEF TypeOK, Fulfilled
  <2>3. [ Idle EXCEPT !.pc = IF to \in Cancellations /\ ~noted THEN "note" ELSE "update",
                      !.line = l, !.to = to, !.seen = db.status[l] ] \in Call
    BY IdleTyped, <2>2 DEF Call
  <2>4. call' \in [ Workers -> Call ]
    BY <2>1, <2>3 DEF TypeOK
  <2>0. Begin(w)
    BY <1>2, Zenon DEF BrandUpdate
  <2>5. updates' \in Nat
    BY <2>0 DEF Begin, TypeOK
  <2>6. UNCHANGED << db, cashfree, late, poll, daily, lost, initiated >>
    BY <1>2, Zenon DEF BrandUpdate
  <2> QED
    BY <2>4, <2>5, <2>6 DEF TypeOK
<1>3. CASE StaffRefund(w)
  <2>1. PICK l \in Lines :
          call' = [ call EXCEPT ![w] = [ Idle EXCEPT !.pc = "count", !.line = l ] ]
    BY <1>3 DEF StaffRefund
  <2>2. [ Idle EXCEPT !.pc = "count", !.line = l ] \in Call
    BY IdleTyped DEF Call
  <2>3. call' \in [ Workers -> Call ]
    BY <2>1, <2>2 DEF TypeOK
  <2> QED
    BY <1>3, <2>3 DEF StaffRefund, TypeOK
<1> DEFINE c == call[w]
<1>4. c \in Call /\ c.line \in Lines /\ c.to \in FulfillmentStatus \cup { NoStatus }
        /\ c.seen \in FulfillmentStatus \cup { NoStatus } /\ c.metadata \in Metadata
  BY DEF TypeOK, Call
<1>5. CASE SaveNote(w)
  BY <1>4, <1>5, SetStatusTyped, GotoTyped DEF SaveNote, TypeOK
<1>6. CASE Update(w)
  <2>1. AfterCheck(c.to) \in { "cancel", "save" }
    BY DEF AfterCheck
  <2>2. call' \in [ Workers -> Call ]
    BY <1>6, <2>1, GotoTyped, FinishTyped DEF Update
  <2> QED
    BY <1>6, <2>2 DEF Update, TypeOK
<1>7. CASE Cancel(w)
  BY <1>4, <1>7, SetStatusTyped, GotoTyped DEF Cancel, TypeOK, FulfillmentStatus
<1>8. CASE SaveCustomer(w)
  BY <1>4, <1>8, SetStatusTyped, GotoTyped DEF SaveCustomer, TypeOK
<1>9. CASE Save(w)
  BY <1>4, <1>9, SetStatusTyped, GotoTyped DEF Save, TypeOK
<1>10. CASE ReadMetadata(w)
  <2> DEFINE status == IF AfterCheck(c.to) = "cancel" THEN db.status[c.line] ELSE c.to
             m == [ db.metadata[c.line] EXCEPT !.status = status ]
  <2>6. db.metadata[c.line] \in Metadata
          /\ status \in FulfillmentStatus \cup { NoStatus }
    BY <1>4 DEF TypeOK
  <2>1. m \in Metadata
    BY <2>6 DEF Metadata
  <2>2. call' = [ call EXCEPT ![w].pc = "metadata", ![w].metadata = m ]
    BY <1>10 DEF ReadMetadata
  <2> HIDE DEF m
  <2>3. [ c EXCEPT !.pc = "metadata", !.metadata = m ] \in Call
    BY <1>4, <2>1 DEF Call
  <2>4. call' = [ call EXCEPT ![w] = [ c EXCEPT !.pc = "metadata", !.metadata = m ] ]
    BY <2>2
  <2>5. call' \in [ Workers -> Call ]
    BY <2>3, <2>4 DEF TypeOK
  <2> QED
    BY <1>10, <2>5 DEF ReadMetadata, TypeOK
<1>11. CASE SaveMetadata(w)
  BY <1>4, <1>11, FinishTyped DEF SaveMetadata, TypeOK
<1>12. CASE CountRefunds(w)
  <2>1. LastRefund(c.line) \in BOOLEAN
    BY DEF LastRefund
  <2>2. [ c EXCEPT !.pc = "create", !.shipping = LastRefund(c.line) ] \in Call
    BY <1>4, <2>1 DEF Call
  <2>3. call' = [ call EXCEPT ![w] = [ c EXCEPT !.pc = "create", !.shipping = LastRefund(c.line) ] ]
    BY <1>12 DEF CountRefunds
  <2>4. call' \in [ Workers -> Call ]
    BY <2>2, <2>3 DEF TypeOK
  <2> QED
    BY <1>12, <2>4 DEF CountRefunds, TypeOK
<1>13. CASE CreateCashgram(w)
  <2>1. call' \in [ Workers -> Call ] /\ lost' \in Nat
    BY <1>13, GotoTyped, FinishTyped DEF CreateCashgram, TypeOK
  <2>2. [ status |-> "ACTIVE", shipping |-> c.shipping ]
          \in [ status : { NoStatus, "ACTIVE", "REDEEMED", "EXPIRED", "FAILED" },
                shipping : BOOLEAN ]
    BY <1>4 DEF Call
  <2>3. \/ cashfree' = cashfree
        \/ cashfree' = [ cashfree EXCEPT ![c.line] =
                           [ status |-> "ACTIVE", shipping |-> c.shipping ] ]
    BY <1>13 DEF CreateCashgram
  <2>4. cashfree' \in [ Lines -> [ status : { NoStatus, "ACTIVE", "REDEEMED", "EXPIRED", "FAILED" },
                                   shipping : BOOLEAN ] ]
    BY <1>4, <2>2, <2>3 DEF TypeOK
  <2> QED
    BY <1>13, <2>1, <2>4 DEF CreateCashgram, TypeOK
<1>14. CASE BookCashgram(w)
  BY <1>4, <1>14, FinishTyped DEF BookCashgram, TypeOK, RefundStatus
<1> QED
  BY <1>1, <1>2, <1>3, <1>5, <1>6, <1>7, <1>8, <1>9, <1>10, <1>11, <1>12, <1>13, <1>14 DEF Step

-----------------------------------------------------------------------------
(* The jobs, Unicommerce, Cashfree                                         *)

LEMMA PollTyped == ASSUME TypeOK, Poll PROVE TypeOK'
<1>0. /\ poll.pc \in { "idle", "read", "ask", "save" } /\ poll.todo \subseteq Lines
      /\ poll.line \in Lines /\ poll.seen \in FulfillmentStatus \cup { NoStatus }
      /\ poll.refund \in RefundStatus
  BY DEF TypeOK, RefundJob
<1>1. CASE PollStart
  <2>1. poll' \in RefundJob
    BY <1>0, <1>1 DEF PollStart, TypeOK, RefundJob
  <2> QED
    BY <1>1, <2>1 DEF PollStart, TypeOK
<1>2. CASE PollRead
  <2>1. PICK l \in poll.todo :
          poll' = [ poll EXCEPT !.pc = "ask", !.line = l, !.seen = db.status[l] ]
    BY <1>2 DEF PollRead
  <2>2. db.status[l] \in FulfillmentStatus \cup { NoStatus }
    BY <1>0, <2>1 DEF TypeOK
  <2>3. poll' \in RefundJob
    BY <1>0, <2>1, <2>2 DEF TypeOK, RefundJob
  <2>4. UNCHANGED << db, cashfree, late, call, daily, updates, lost, initiated >>
    BY <1>2, Zenon DEF PollRead
  <2> QED
    BY <2>3, <2>4 DEF TypeOK
<1>3. CASE PollAsk
  <2> DEFINE l == poll.line
             refund == RefundOf(cashfree[l].status)
  <2>1. refund \in RefundStatus
    BY RefundOfTyped
  <2>2. UNCHANGED << cashfree, late, call, daily, updates >>
    BY <1>3, Zenon DEF PollAsk
  <2>3. CASE /\ IF refund = "refund transferred" THEN SetStatus(l, Closed(poll.seen))
                ELSE UNCHANGED << db, initiated >>
             /\ poll' = [ poll EXCEPT !.pc = "save", !.refund = refund ]
             /\ UNCHANGED lost
    <3>1. poll' \in RefundJob
      BY <2>1, <2>3 DEF TypeOK, RefundJob
    <3>2. \/ SetStatus(l, Closed(poll.seen))
          \/ UNCHANGED << db, initiated >>
      BY <2>3
    <3> QED
      BY <1>0, <2>2, <2>3, <3>1, <3>2, ClosedTyped, SetStatusTyped DEF TypeOK
  <2>4. CASE /\ poll' = NextLine(poll)
             /\ UNCHANGED << db, lost, initiated >>
    BY <2>2, <2>4, NextLineTyped DEF TypeOK
  <2>5. CASE /\ lost' = lost + 1
             /\ poll' \in { NextLine(poll), [ poll EXCEPT !.pc = "idle", !.todo = {} ] }
             /\ UNCHANGED << db, initiated >>
    <3>1. NextLine(poll) \in RefundJob
      BY NextLineTyped DEF TypeOK
    <3>2. [ poll EXCEPT !.pc = "idle", !.todo = {} ] \in RefundJob
      BY <1>0 DEF TypeOK, RefundJob
    <3>3. poll' \in RefundJob
      BY <2>5, <3>1, <3>2
    <3> QED
      BY <2>2, <2>5, <3>3 DEF TypeOK
  <2> QED
    BY <1>3, <2>3, <2>4, <2>5 DEF PollAsk
<1>4. CASE PollSave
  <2>1. [ NextLine(poll) EXCEPT !.refund = "refund initiated" ] \in RefundJob
    BY NextLineTyped DEF TypeOK, RefundJob, RefundStatus
  <2> QED
    BY <1>0, <1>4, <2>1 DEF PollSave, TypeOK
<1> QED
  BY <1>1, <1>2, <1>3, <1>4 DEF Poll

LEMMA DailyTyped == ASSUME TypeOK, Daily PROVE TypeOK'
<1>1. CASE DailyRead
  <2>1. PICK b \in BOOLEAN :
          daily' = [ pc |-> "save", lines |-> Watched,
                     metadata |-> [ l \in Lines |-> Marked(db.metadata[l], db.status[l], b) ] ]
    BY <1>1 DEF DailyRead
  <2>2. \A l \in Lines : Marked(db.metadata[l], db.status[l], b) \in Metadata
    BY MarkedTyped DEF TypeOK
  <2>3. daily' \in [ pc : { "idle", "save" }, lines : SUBSET Lines,
                     metadata : [ Lines -> Metadata ] ]
    BY <2>1, <2>2 DEF Watched
  <2>4. UNCHANGED << db, cashfree, late, call, poll, updates, lost, initiated >>
    BY <1>1, Zenon DEF DailyRead
  <2> QED
    BY <2>3, <2>4 DEF TypeOK
<1>2. CASE DailySave
  <2>1. \A l \in Lines : daily.metadata[l] \in Metadata /\ db.metadata[l] \in Metadata
    BY DEF TypeOK
  <2>2. db' \in [ status : [ Lines -> FulfillmentStatus \cup { NoStatus } ],
                  metadata : [ Lines -> Metadata ],
                  cashgram : [ Lines -> RefundStatus \cup { NoStatus } ] ]
    BY <1>2, <2>1 DEF DailySave, TypeOK
  <2> QED
    BY <1>2, <2>2 DEF DailySave, TypeOK
<1> QED
  BY <1>1, <1>2 DEF Daily

LEMMA OthersTyped ==
    ASSUME TypeOK, Post \/ Fulfill \/ CustomerCollects \/ TimePasses \/ Crash
    PROVE  TypeOK'
<1>1. CASE Post
  <2>1. PICK l \in Fulfilled, to \in PostedStatuses : SetStatus(l, to)
    BY <1>1 DEF Post
  <2> QED
    BY <1>1, <2>1, SetStatusTyped DEF Post, TypeOK, Fulfilled
<1>2. CASE CustomerCollects
  <2>1. PICK l \in Lines, status \in { "REDEEMED", "EXPIRED", "FAILED" } :
          cashfree' = [ cashfree EXCEPT ![l].status = status ]
    BY <1>2 DEF CustomerCollects
  <2>2. [ cashfree[l] EXCEPT !.status = status ]
          \in [ status : { NoStatus, "ACTIVE", "REDEEMED", "EXPIRED", "FAILED" },
                shipping : BOOLEAN ]
    BY DEF TypeOK
  <2>3. cashfree' = [ cashfree EXCEPT ![l] = [ cashfree[l] EXCEPT !.status = status ] ]
    BY <2>1
  <2>4. cashfree' \in [ Lines -> [ status : { NoStatus, "ACTIVE", "REDEEMED", "EXPIRED", "FAILED" },
                                   shipping : BOOLEAN ] ]
    BY <2>2, <2>3 DEF TypeOK
  <2> QED
    BY <1>2, <2>4 DEF CustomerCollects, TypeOK
<1>3. CASE TimePasses
  BY <1>3 DEF TimePasses, TypeOK
<1>4. CASE Crash
  <2>1. \/ poll' = poll
        \/ poll' = [ poll EXCEPT !.pc = "idle", !.todo = {}, !.refund = "refund initiated" ]
    BY <1>4 DEF Crash
  <2>2. poll' \in RefundJob
    BY <2>1 DEF TypeOK, RefundJob, RefundStatus
  <2>3. call' \in [ Workers -> Call ]
    BY <1>4, FinishTyped DEF Crash, TypeOK
  <2> QED
    BY <1>4, <2>2, <2>3 DEF Crash, TypeOK
<1>5. CASE Fulfill
  <2>1. PICK l \in Lines \ Fulfilled, to \in StaffStatuses \cup { "placed" } : SetStatus(l, to)
    BY <1>5 DEF Fulfill
  <2>2. to \in FulfillmentStatus
    BY <2>1 DEF FulfillmentStatus
  <2> QED
    BY <1>5, <2>1, <2>2, SetStatusTyped DEF Fulfill, TypeOK
<1> QED
  BY <1>1, <1>2, <1>3, <1>4, <1>5

LEMMA NextTyped == TypeOK /\ [Next]_vars => TypeOK'
<1>1. ASSUME TypeOK, UNCHANGED vars PROVE TypeOK'
  BY <1>1 DEF TypeOK, vars
<1> QED
  BY <1>1, CallTyped, PollTyped, DailyTyped, OthersTyped DEF Next

\* The rows, what Cashfree has, and what workers and jobs hold are well-typed.
THEOREM TypesHold == Spec => []TypeOK
  BY InitTyped, NextTyped, PTL DEF Spec

-----------------------------------------------------------------------------
(* The inductive invariant                                                 *)

Initiated == { "cancellation initiated", "return initiated" }

Refunding == { "count", "create", "book" }

\* A line that is to be cancelled or returned is remembered as such, and so is
\* one that a worker refunds.
InitiatedKnown ==
    /\ \A l \in Lines : db.status[l] \in Initiated => l \in initiated
    /\ \A w \in Workers : call[w].pc \in Refunding => call[w].line \in initiated

\* A row, or a worker about to write it, speaks of a Cashgram that exists.
CashgramExists ==
    /\ \A l \in Lines : db.cashgram[l] # NoStatus => cashfree[l].status # NoStatus
    /\ \A w \in Workers : call[w].pc = "book" => cashfree[call[w].line].status # NoStatus

\* The refund job works on lines that have a row.
JobHasRows ==
    /\ \A l \in poll.todo : db.cashgram[l] # NoStatus
    /\ poll.pc \in { "ask", "save" } => db.cashgram[poll.line] # NoStatus

OthersRefunded(rows, l) == \A m \in Lines : m # l => rows.cashgram[m] # NoStatus

\* A refund with the shipping is of a line that has a row by now, which
\* Cashfree will refuse, or of the only one that has none.
ShippingIsLast ==
    /\ \A w \in Workers :
         call[w].pc = "create" /\ call[w].shipping =>
           db.cashgram[call[w].line] # NoStatus \/ OthersRefunded(db, call[w].line)
    /\ \A l \in Lines :
         cashfree[l].shipping => cashfree[l].status # NoStatus /\ OthersRefunded(db, l)

OneShipping ==
    \A l, m \in Lines : cashfree[l].shipping /\ cashfree[m].shipping => l = m

Inv ==
    /\ TypeOK /\ InitiatedKnown /\ CashgramExists /\ JobHasRows
    /\ ShippingIsLast /\ OneShipping /\ RefundedWasInitiated

-----------------------------------------------------------------------------
(* What a step does to the rows, to the Cashgrams and to a worker's refund *)

RowsGrow ==
    \A l \in Lines :
        /\ db.cashgram[l] # NoStatus => db'.cashgram[l] # NoStatus
        /\ db'.cashgram[l] # NoStatus =>
             \/ db.cashgram[l] # NoStatus
             \/ \E w \in Workers : call[w].pc = "book" /\ call[w].line = l

CashgramsGrow ==
    \A l \in Lines :
        \/ /\ cashfree'[l].status = NoStatus <=> cashfree[l].status = NoStatus
           /\ cashfree'[l].shipping <=> cashfree[l].shipping
        \/ \E w \in Workers :
             /\ call[w].pc = "create" /\ call[w].line = l
             /\ cashfree[l].status = NoStatus
             /\ cashfree'[l].status # NoStatus
             /\ cashfree'[l].shipping <=> call[w].shipping
             /\ \A m \in Lines : m # l => cashfree'[m] = cashfree[m]

StatusesKnown ==
    /\ initiated \subseteq initiated'
    /\ \A l \in Lines : db'.status[l] \in Initiated => db.status[l] \in Initiated \/ l \in initiated'

RefundGoesOn(w) ==
    \/ call'[w] = call[w]
    \/ call'[w].pc \notin Refunding
    \/ /\ call'[w].pc = "count" /\ db.status[call'[w].line] \in Initiated
       /\ call'[w].line \in Lines
    \/ /\ call[w].pc = "count" /\ call'[w].pc = "create"
       /\ call'[w].line = call[w].line /\ UNCHANGED << db, cashfree >>
       /\ call'[w].shipping => LastRefund(call[w].line)
    \/ /\ call[w].pc = "create" /\ call'[w].pc = "book"
       /\ call'[w].line = call[w].line /\ cashfree'[call[w].line].status # NoStatus

JobGoesOn ==
    /\ \A l \in poll'.todo : l \in poll.todo \/ (l \in Lines /\ db.cashgram[l] # NoStatus)
    /\ poll'.pc \in { "ask", "save" } =>
         \/ poll'.line \in poll.todo
         \/ poll.pc \in { "ask", "save" } /\ poll'.line = poll.line

Effects ==
    RowsGrow /\ CashgramsGrow /\ StatusesKnown /\ JobGoesOn
      /\ \A w \in Workers : RefundGoesOn(w)

LEMMA LastRefundOfLines ==
    ASSUME TypeOK, NEW l \in Lines, LastRefund(l)
    PROVE  db.cashgram[l] # NoStatus \/ OthersRefunded(db, l)
<1> SUFFICES ASSUME db.cashgram[l] = NoStatus PROVE OthersRefunded(db, l)
  OBVIOUS
<1> DEFINE Rest == Lines \ { l }
<1>1. IsFiniteSet(Rest) /\ Cardinality(Rest) = Cardinality(Lines) - 1
  BY FS_RemoveElement
<1>2. Refunded \in SUBSET Rest
  BY DEF Refunded
<1>3. Rest = Refunded
  BY <1>1, <1>2, FS_Subset DEF LastRefund
<1> QED
  BY <1>3 DEF Refunded, OthersRefunded

\* The invariant follows from the effects alone.
LEMMA EffectsSuffice == ASSUME Inv, Effects, TypeOK' PROVE Inv'
<1>0. \A w \in Workers : call[w].line \in Lines /\ call'[w].line \in Lines
  BY DEF Inv, TypeOK, Call
<1>1. InitiatedKnown'
  BY <1>0, Zenon DEF Inv, Effects, InitiatedKnown, StatusesKnown, RefundGoesOn, Refunding
<1>2. CashgramExists'
  <2>1. ASSUME NEW l \in Lines, db'.cashgram[l] # NoStatus PROVE cashfree'[l].status # NoStatus
    BY <2>1 DEF Inv, Effects, CashgramExists, RowsGrow, CashgramsGrow
  <2>2. ASSUME NEW w \in Workers, call'[w].pc = "book"
        PROVE  cashfree'[call'[w].line].status # NoStatus
    BY <1>0, <2>2 DEF Inv, Effects, CashgramExists, CashgramsGrow, RefundGoesOn, Refunding
  <2> QED
    BY <2>1, <2>2 DEF CashgramExists
<1>3. JobHasRows'
  BY DEF Inv, Effects, JobHasRows, JobGoesOn, RowsGrow, TypeOK, RefundJob
<1>4. ASSUME NEW l \in Lines, OthersRefunded(db, l) PROVE OthersRefunded(db', l)
  BY <1>4 DEF OthersRefunded, Effects, RowsGrow
<1>5. ASSUME NEW w \in Workers, call'[w].pc = "create", call'[w].shipping
      PROVE  db'.cashgram[call'[w].line] # NoStatus \/ OthersRefunded(db', call'[w].line)
  <2> DEFINE l == call'[w].line
  <2>1. l \in Lines
    BY <1>0
  <2>2. db.cashgram[l] # NoStatus \/ OthersRefunded(db, l)
    <3>1. CASE call'[w] = call[w]
      BY <1>5, <3>1 DEF Inv, ShippingIsLast
    <3>2. CASE call'[w].line = call[w].line /\ LastRefund(call[w].line)
      BY <3>2, <2>1, LastRefundOfLines DEF Inv
    <3> QED
      BY <1>5, <3>1, <3>2 DEF Effects, RefundGoesOn, Refunding
  <2> QED
    BY <1>4, <2>1, <2>2 DEF Effects, RowsGrow
<1>6. ASSUME NEW l \in Lines, cashfree'[l].shipping
      PROVE  cashfree'[l].status # NoStatus /\ OthersRefunded(db', l)
  <2>1. CASE cashfree[l].shipping /\ (cashfree'[l].status = NoStatus <=> cashfree[l].status = NoStatus)
    BY <1>4, <2>1 DEF Inv, ShippingIsLast
  <2>2. CASE \E w \in Workers : /\ call[w].pc = "create" /\ call[w].line = l
                                /\ cashfree[l].status = NoStatus
                                /\ cashfree'[l].status # NoStatus /\ call[w].shipping
    BY <1>4, <2>2 DEF Inv, ShippingIsLast, CashgramExists
  <2> QED
    BY <1>6, <2>1, <2>2 DEF Effects, CashgramsGrow
<1>7. ShippingIsLast'
  BY <1>5, <1>6 DEF ShippingIsLast, OthersRefunded
<1>8. ASSUME NEW l \in Lines, NEW m \in Lines, cashfree'[l].shipping, cashfree'[m].shipping
      PROVE  l = m
  <2>1. ASSUME NEW a \in Lines, NEW b \in Lines, a # b, cashfree'[a].shipping, ~cashfree[a].shipping,
               cashfree[b].shipping
        PROVE  FALSE
    <3>1. cashfree[a].status = NoStatus
      BY <2>1 DEF Effects, CashgramsGrow
    <3>2. db.cashgram[a] # NoStatus
      BY <2>1 DEF Inv, ShippingIsLast, OthersRefunded
    <3> QED
      BY <3>1, <3>2 DEF Inv, CashgramExists
  <2>2. ASSUME NEW a \in Lines, NEW b \in Lines, a # b, cashfree'[a].shipping, ~cashfree[a].shipping,
               cashfree'[b].shipping, ~cashfree[b].shipping
        PROVE  FALSE
    <3>1. cashfree'[b] = cashfree[b]
      BY <2>2 DEF Effects, CashgramsGrow
    <3> QED
      BY <2>2, <3>1
  <2> QED
    BY <1>8, <2>1, <2>2 DEF Inv, OneShipping
<1>9. OneShipping'
  BY <1>8 DEF OneShipping
<1>10. RefundedWasInitiated'
  <2> SUFFICES ASSUME NEW l \in Lines, cashfree'[l].status # NoStatus PROVE l \in initiated'
    BY DEF RefundedWasInitiated
  <2>1. CASE cashfree[l].status # NoStatus
    BY <2>1 DEF Inv, RefundedWasInitiated, Effects, StatusesKnown
  <2>2. CASE \E w \in Workers : call[w].pc = "create" /\ call[w].line = l
    BY <2>2 DEF Inv, InitiatedKnown, Refunding, Effects, StatusesKnown
  <2> QED
    BY <2>1, <2>2 DEF Effects, CashgramsGrow
<1> QED
  BY <1>1, <1>2, <1>3, <1>7, <1>9, <1>10 DEF Inv

-----------------------------------------------------------------------------
(* Every step has these effects                                            *)

LEMMA SameRows == ASSUME db'.cashgram = db.cashgram PROVE RowsGrow
BY DEF RowsGrow

LEMMA SameCashgrams == ASSUME cashfree' = cashfree PROVE CashgramsGrow
BY DEF CashgramsGrow

LEMMA SameStatuses ==
    ASSUME db'.status = db.status, initiated' = initiated PROVE StatusesKnown
BY DEF StatusesKnown

LEMMA SameJob == ASSUME poll' = poll PROVE JobGoesOn
BY Zenon DEF JobGoesOn

LEMMA SetStatusEffects ==
    ASSUME TypeOK, NEW l \in Lines, NEW s, SetStatus(l, s)
    PROVE  RowsGrow /\ StatusesKnown
<1>1. db'.cashgram = db.cashgram
  BY DEF SetStatus, TypeOK
<1>2. ASSUME NEW m \in Lines, db'.status[m] \in Initiated
      PROVE  db.status[m] \in Initiated \/ m \in initiated'
  BY <1>2 DEF SetStatus, TypeOK, Initiated
<1>3. initiated \subseteq initiated'
  BY DEF SetStatus
<1> QED
  BY <1>1, <1>2, <1>3, SameRows DEF StatusesKnown

\* A worker whose step is not one of a refund.
LEMMA AnotherCall ==
    ASSUME TypeOK, NEW w \in Workers, NEW c,
           call' = [ call EXCEPT ![w] = c ], c.pc \notin Refunding
    PROVE  \A v \in Workers : RefundGoesOn(v)
<1>1. call'[w] = c /\ \A v \in Workers : v # w => call'[v] = call[v]
  BY DEF TypeOK
<1> QED
  BY <1>1 DEF RefundGoesOn

LEMMA GotoEffects ==
    ASSUME TypeOK, NEW w \in Workers, NEW pc, Goto(w, pc), pc \notin Refunding
    PROVE  \A v \in Workers : RefundGoesOn(v)
<1>1. call' = [ call EXCEPT ![w] = [ call[w] EXCEPT !.pc = pc ] ]
  BY DEF Goto
<1>2. [ call[w] EXCEPT !.pc = pc ].pc = pc
  BY DEF TypeOK, Call
<1> QED
  BY <1>1, <1>2, AnotherCall

LEMMA FinishEffects ==
    ASSUME TypeOK, NEW w \in Workers, Finish(w)
    PROVE  \A v \in Workers : RefundGoesOn(v)
BY IdleTyped, AnotherCall DEF Finish, Refunding

LEMMA UpdateEffects ==
    ASSUME TypeOK, NEW w \in Workers,
           \/ StaffUpdate(w) \/ BrandUpdate(w) \/ SaveNote(w) \/ Update(w) \/ Cancel(w)
           \/ SaveCustomer(w) \/ Save(w) \/ ReadMetadata(w) \/ SaveMetadata(w)
    PROVE  Effects
<1>0. call[w] \in Call /\ call[w].line \in Lines
  BY DEF TypeOK, Call
<1>1. CASE StaffUpdate(w)
  <2>1. PICK l \in Fulfilled, to \in StaffStatuses :
          call' = [ call EXCEPT ![w] =
                      [ Idle EXCEPT !.pc = AfterCheck(to), !.line = l, !.to = to ] ]
    BY <1>1 DEF StaffUpdate
  <2>2. [ Idle EXCEPT !.pc = AfterCheck(to), !.line = l, !.to = to ].pc = AfterCheck(to)
    BY IdleTyped DEF Call
  <2>3. UNCHANGED << db, cashfree, poll, initiated >>
    BY <1>1, Zenon DEF StaffUpdate
  <2>5. AfterCheck(to) \notin Refunding
    BY DEF AfterCheck, Refunding
  <2>4. \A v \in Workers : RefundGoesOn(v)
    BY <2>1, <2>2, <2>5, AnotherCall
  <2> QED
    BY <2>3, <2>4, SameRows, SameCashgrams, SameStatuses, SameJob DEF Effects
<1>2. CASE BrandUpdate(w)
  <2>1. PICK l \in Fulfilled, to \in BrandStatuses, noted \in BOOLEAN :
          call' = [ call EXCEPT ![w] =
                      [ Idle EXCEPT !.pc = IF to \in Cancellations /\ ~noted
                                           THEN "note" ELSE "update",
                                    !.line = l, !.to = to, !.seen = db.status[l] ] ]
    BY <1>2 DEF BrandUpdate
  <2>2. [ Idle EXCEPT !.pc = IF to \in Cancellations /\ ~noted THEN "note" ELSE "update",
                      !.line = l, !.to = to, !.seen = db.status[l] ].pc \in { "note", "update" }
    BY IdleTyped DEF Call
  <2>3. UNCHANGED << db, cashfree, poll, initiated >>
    BY <1>2, Zenon DEF BrandUpdate
  <2>4. \A v \in Workers : RefundGoesOn(v)
    BY <2>1, <2>2, AnotherCall DEF Refunding
  <2> QED
    BY <2>3, <2>4, SameRows, SameCashgrams, SameStatuses, SameJob DEF Effects
<1>3. CASE SaveNote(w)
  BY <1>0, <1>3, SetStatusEffects, GotoEffects, SameCashgrams, SameJob
  DEF SaveNote, Effects, Refunding
<1>4. CASE Update(w)
  <2>1. AfterCheck(call[w].to) \notin Refunding
    BY DEF AfterCheck, Refunding
  <2>2. \A v \in Workers : RefundGoesOn(v)
    BY <1>4, <2>1, GotoEffects, FinishEffects DEF Update
  <2> QED
    BY <1>4, <2>2, SameRows, SameCashgrams, SameStatuses, SameJob DEF Update, Effects
<1>5. CASE Cancel(w)
  <2>1. \A v \in Workers : RefundGoesOn(v)
    BY <1>5, GotoEffects DEF Cancel, Refunding
  <2> QED
    BY <1>0, <1>5, <2>1, SetStatusEffects, SameCashgrams, SameJob DEF Cancel, Effects
<1>6. CASE SaveCustomer(w)
  BY <1>0, <1>6, SetStatusEffects, GotoEffects, SameCashgrams, SameJob
  DEF SaveCustomer, Effects, Refunding
<1>7. CASE Save(w)
  BY <1>0, <1>7, SetStatusEffects, GotoEffects, SameCashgrams, SameJob
  DEF Save, Effects, Refunding
<1>8. CASE ReadMetadata(w)
  <2>1. PICK m : call' = [ call EXCEPT ![w].pc = "metadata", ![w].metadata = m ]
    BY <1>8 DEF ReadMetadata
  <2>2. call' = [ call EXCEPT ![w] = [ call[w] EXCEPT !.pc = "metadata", !.metadata = m ] ]
    BY <2>1
  <2>3. [ call[w] EXCEPT !.pc = "metadata", !.metadata = m ].pc = "metadata"
    BY <1>0 DEF Call
  <2>4. \A v \in Workers : RefundGoesOn(v)
    BY <2>2, <2>3, AnotherCall DEF Refunding
  <2> QED
    BY <1>8, <2>4, SameRows, SameCashgrams, SameStatuses, SameJob DEF ReadMetadata, Effects
<1>9. CASE SaveMetadata(w)
  <2>1. db'.cashgram = db.cashgram /\ db'.status = db.status
    BY <1>9 DEF SaveMetadata, TypeOK
  <2> QED
    BY <1>9, <2>1, FinishEffects, SameRows, SameCashgrams, SameStatuses, SameJob
    DEF SaveMetadata, Effects
<1> QED
  BY <1>1, <1>2, <1>3, <1>4, <1>5, <1>6, <1>7, <1>8, <1>9

LEMMA RefundEffects ==
    ASSUME TypeOK, CashgramExists, NEW w \in Workers,
           StaffRefund(w) \/ CountRefunds(w) \/ CreateCashgram(w) \/ BookCashgram(w)
    PROVE  Effects
<1>0. /\ call[w] \in Call /\ call[w].line \in Lines /\ call[w].shipping \in BOOLEAN
      /\ cashfree[call[w].line].shipping \in BOOLEAN
  BY DEF TypeOK, Call
<1> DEFINE l == call[w].line
<1>1. CASE StaffRefund(w)
  <2>1. PICK k \in Lines :
          CanRefund(k) /\ call' = [ call EXCEPT ![w] = [ Idle EXCEPT !.pc = "count", !.line = k ] ]
    BY <1>1 DEF StaffRefund
  <2>2. /\ [ Idle EXCEPT !.pc = "count", !.line = k ].pc = "count"
        /\ [ Idle EXCEPT !.pc = "count", !.line = k ].line = k
    BY IdleTyped DEF Call
  <2>3. /\ call'[w].pc = "count" /\ call'[w].line = k
        /\ \A v \in Workers : v # w => call'[v] = call[v]
    BY <2>1, <2>2 DEF TypeOK
  <2>4. \A v \in Workers : RefundGoesOn(v)
    BY <2>1, <2>3 DEF RefundGoesOn, CanRefund, Initiated
  <2> QED
    BY <1>1, <2>4, SameRows, SameCashgrams, SameStatuses, SameJob DEF StaffRefund, Effects
<1>2. CASE CountRefunds(w)
  <2> DEFINE c == [ call[w] EXCEPT !.pc = "create", !.shipping = LastRefund(l) ]
  <2>1. call' = [ call EXCEPT ![w] = c ]
    BY <1>2 DEF CountRefunds
  <2>2. c.pc = "create" /\ c.line = l
    BY <1>0 DEF Call
  <2>3. c.shipping => LastRefund(l)
    BY <1>0, Zenon DEF Call
  <2>4. call'[w] = c /\ \A v \in Workers : v # w => call'[v] = call[v]
    BY <2>1 DEF TypeOK
  <2> HIDE DEF c
  <2>5. \A v \in Workers : RefundGoesOn(v)
    BY <1>2, <2>2, <2>3, <2>4 DEF RefundGoesOn, CountRefunds
  <2> QED
    BY <1>2, <2>5, SameRows, SameCashgrams, SameStatuses, SameJob DEF CountRefunds, Effects
<1>3. CASE CreateCashgram(w)
  <2>1. UNCHANGED << db, poll, initiated >>
    BY <1>3, Zenon DEF CreateCashgram
  <2>2. call[w].pc = "create"
    BY <1>3 DEF CreateCashgram
  <2>3. \/ cashfree' = cashfree
        \/ /\ cashfree[l].status = NoStatus
           /\ cashfree' = [ cashfree EXCEPT ![l] = [ status |-> "ACTIVE", shipping |-> call[w].shipping ] ]
    BY <1>3 DEF CreateCashgram
  <2>4. CashgramsGrow
    <3>1. CASE cashfree' = cashfree
      BY <3>1, SameCashgrams
    <3>2. CASE /\ cashfree[l].status = NoStatus
               /\ cashfree' = [ cashfree EXCEPT ![l] = [ status |-> "ACTIVE", shipping |-> call[w].shipping ] ]
      <4>1. /\ cashfree'[l] = [ status |-> "ACTIVE", shipping |-> call[w].shipping ]
            /\ \A m \in Lines : m # l => cashfree'[m] = cashfree[m]
        BY <1>0, <3>2 DEF TypeOK
      <4>2. cashfree'[l].status # NoStatus
        BY <4>1 DEF NoStatus
      <4>4. [ status |-> "ACTIVE", shipping |-> call[w].shipping ].shipping = call[w].shipping
        OBVIOUS
      <4>3. cashfree'[l].shipping <=> call[w].shipping
        BY <4>1, <4>4, Zenon
      <4> QED
        BY <2>2, <3>2, <4>1, <4>2, <4>3 DEF CashgramsGrow
    <3> QED
      BY <2>3, <3>1, <3>2
  <2>5. CASE Finish(w)
    BY <2>1, <2>4, <2>5, FinishEffects, SameRows, SameStatuses, SameJob DEF Effects
  <2>6. CASE Goto(w, "book") /\ cashfree[l].status = NoStatus
    <3>1. cashfree'[l].status # NoStatus
      BY <1>0, <1>3, <2>6 DEF CreateCashgram, TypeOK, NoStatus
    <3>2. call' = [ call EXCEPT ![w] = [ call[w] EXCEPT !.pc = "book" ] ]
      BY <2>6 DEF Goto
    <3>3. [ call[w] EXCEPT !.pc = "book" ].pc = "book" /\ [ call[w] EXCEPT !.pc = "book" ].line = l
      BY <1>0 DEF Call
    <3>4. /\ call'[w].pc = "book" /\ call'[w].line = l
          /\ \A v \in Workers : v # w => call'[v] = call[v]
      BY <3>2, <3>3 DEF TypeOK
    <3>5. \A v \in Workers : RefundGoesOn(v)
      BY <2>2, <3>1, <3>4 DEF RefundGoesOn
    <3> QED
      BY <2>1, <2>4, <3>5, SameRows, SameStatuses, SameJob DEF Effects
  <2> QED
    BY <1>3, <2>5, <2>6 DEF CreateCashgram
<1>4. CASE BookCashgram(w)
  <2>1. /\ db'.status = db.status
        /\ \A m \in Lines : db'.cashgram[m] = IF m = l THEN "refund initiated" ELSE db.cashgram[m]
    BY <1>0, <1>4 DEF BookCashgram, TypeOK
  <2>2. RowsGrow
    <3>1. call[w].pc = "book"
      BY <1>4 DEF BookCashgram
    <3>2. \A m \in Lines : m # l => db'.cashgram[m] = db.cashgram[m]
      BY <2>1
    <3>3. db'.cashgram[l] # NoStatus
      BY <1>0, <2>1 DEF NoStatus
    <3> QED
      BY <3>1, <3>2, <3>3, Zenon DEF RowsGrow
  <2> QED
    BY <1>4, <2>1, <2>2, FinishEffects, SameCashgrams, SameStatuses, SameJob
    DEF BookCashgram, Effects
<1> QED
  BY <1>1, <1>2, <1>3, <1>4

LEMMA SameCalls == ASSUME call' = call PROVE \A w \in Workers : RefundGoesOn(w)
BY DEF RefundGoesOn

LEMMA JobEffects == ASSUME TypeOK, JobHasRows, Poll PROVE Effects
<1>0. /\ poll \in RefundJob /\ poll.todo \subseteq Lines /\ poll.line \in Lines
      /\ poll.refund \in RefundStatus
  BY DEF TypeOK, RefundJob
<1>1. CASE PollStart
  <2>1. poll'.pc = "read" /\ poll'.todo = { l \in Lines : db.cashgram[l] = "refund initiated" }
    BY <1>0, <1>1 DEF PollStart, RefundJob
  <2>2. JobGoesOn
    BY <2>1 DEF JobGoesOn, NoStatus
  <2> QED
    BY <1>1, <2>2, SameRows, SameCashgrams, SameStatuses, SameCalls DEF PollStart, Effects
<1>2. CASE PollRead
  <2>1. PICK l \in poll.todo :
          poll' = [ poll EXCEPT !.pc = "ask", !.line = l, !.seen = db.status[l] ]
    BY <1>2 DEF PollRead
  <2>2. poll'.todo = poll.todo /\ poll'.line = l
    BY <1>0, <2>1 DEF RefundJob
  <2>3. JobGoesOn
    BY <2>2, Zenon DEF JobGoesOn
  <2>4. UNCHANGED << db, cashfree, call, initiated >>
    BY <1>2, Zenon DEF PollRead
  <2> QED
    BY <2>3, <2>4, SameRows, SameCashgrams, SameStatuses, SameCalls DEF Effects
<1>3. CASE PollAsk
  <2>1. RowsGrow /\ StatusesKnown
    <3>1. \/ SetStatus(poll.line, Closed(poll.seen))
          \/ UNCHANGED << db, initiated >>
      BY <1>3, Zenon DEF PollAsk
    <3> QED
      BY <1>0, <3>1, SetStatusEffects, SameRows, SameStatuses
  <2>2. JobGoesOn
    <3>1. \/ poll' = [ poll EXCEPT !.pc = "save", !.refund = RefundOf(cashfree[poll.line].status) ]
          \/ poll' = NextLine(poll)
          \/ poll' = [ poll EXCEPT !.pc = "idle", !.todo = {} ]
      BY <1>3, Zenon DEF PollAsk
    <3>2. poll.pc = "ask"
      BY <1>3 DEF PollAsk
    <3>3. poll'.todo \subseteq poll.todo
      BY <1>0, <3>1, NextLineTyped DEF RefundJob
    <3>4. poll'.pc \in { "idle", "read" } \/ poll'.line = poll.line
      BY <1>0, <3>1, NextLineTyped DEF RefundJob
    <3>5. poll'.pc \in { "ask", "save" } => poll'.line = poll.line
      BY <3>4
    <3> QED
      BY <3>2, <3>3, <3>5, Zenon DEF JobGoesOn
  <2>3. UNCHANGED << cashfree, call >>
    BY <1>3, Zenon DEF PollAsk
  <2> QED
    BY <2>1, <2>2, <2>3, SameCashgrams, SameCalls DEF Effects
<1>4. CASE PollSave
  <2>1. /\ db'.status = db.status
        /\ \A m \in Lines : db'.cashgram[m] = IF m = poll.line THEN poll.refund ELSE db.cashgram[m]
    BY <1>0, <1>4 DEF PollSave, TypeOK
  <2>2. RowsGrow
    BY <1>0, <1>4, <2>1 DEF RowsGrow, PollSave, JobHasRows, NoStatus, RefundStatus
  <2>3. JobGoesOn
    <3>1. poll'.todo = NextLine(poll).todo /\ poll'.pc = NextLine(poll).pc
      BY <1>4, NextLineTyped, <1>0 DEF PollSave, RefundJob
    <3>2. poll'.todo \subseteq poll.todo /\ poll'.pc \notin { "ask", "save" }
      BY <1>0, <3>1, NextLineTyped
    <3> QED
      BY <3>2, Zenon DEF JobGoesOn
  <2> QED
    BY <1>4, <2>1, <2>2, <2>3, SameCashgrams, SameStatuses, SameCalls DEF PollSave, Effects
<1> QED
  BY <1>1, <1>2, <1>3, <1>4 DEF Poll

LEMMA OtherEffects ==
    ASSUME TypeOK, Daily \/ Post \/ Fulfill \/ CustomerCollects \/ TimePasses \/ Crash
    PROVE  Effects
<1>1. CASE Daily
  <2>1. db'.cashgram = db.cashgram /\ db'.status = db.status
    BY <1>1 DEF Daily, DailyRead, DailySave, TypeOK
  <2>2. UNCHANGED << cashfree, call, poll, initiated >>
    BY <1>1, Zenon DEF Daily, DailyRead, DailySave
  <2> QED
    BY <2>1, <2>2, SameRows, SameCashgrams, SameStatuses, SameJob, SameCalls DEF Effects
<1>2. CASE Post
  <2>1. PICK l \in Fulfilled, to \in PostedStatuses : SetStatus(l, to)
    BY <1>2 DEF Post
  <2> QED
    BY <1>2, <2>1, SetStatusEffects, SameCashgrams, SameJob, SameCalls DEF Post, Effects, Fulfilled
<1>3. CASE CustomerCollects
  <2>1. PICK l \in Lines, status \in { "REDEEMED", "EXPIRED", "FAILED" } :
          cashfree[l].status = "ACTIVE" /\ cashfree' = [ cashfree EXCEPT ![l].status = status ]
    BY <1>3 DEF CustomerCollects
  <2>2. cashfree' = [ cashfree EXCEPT ![l] = [ cashfree[l] EXCEPT !.status = status ] ]
    BY <2>1
  <2>3. /\ [ cashfree[l] EXCEPT !.status = status ].status = status
        /\ [ cashfree[l] EXCEPT !.status = status ].shipping = cashfree[l].shipping
    BY DEF TypeOK
  <2>4. /\ cashfree'[l].status = status /\ cashfree'[l].shipping = cashfree[l].shipping
        /\ \A m \in Lines : m # l => cashfree'[m] = cashfree[m]
    BY <2>2, <2>3 DEF TypeOK
  <2>5. CashgramsGrow
    BY <2>1, <2>4 DEF CashgramsGrow, NoStatus
  <2> QED
    BY <1>3, <2>5, SameRows, SameStatuses, SameJob, SameCalls DEF CustomerCollects, Effects
<1>4. CASE TimePasses
  BY <1>4, SameRows, SameCashgrams, SameStatuses, SameJob, SameCalls DEF TimePasses, Effects
<1>5. CASE Crash
  <2>1. JobGoesOn
    <3>1. \/ poll' = poll
          \/ poll' = [ poll EXCEPT !.pc = "idle", !.todo = {}, !.refund = "refund initiated" ]
      BY <1>5 DEF Crash
    <3> QED
      BY <3>1, SameJob DEF JobGoesOn, TypeOK, RefundJob
  <2>2. \A w \in Workers : RefundGoesOn(w)
    BY <1>5, FinishEffects, SameCalls DEF Crash
  <2> QED
    BY <1>5, <2>1, <2>2, SameRows, SameCashgrams, SameStatuses DEF Crash, Effects
<1>6. CASE Fulfill
  <2>1. PICK l \in Lines \ Fulfilled, to \in StaffStatuses \cup { "placed" } : SetStatus(l, to)
    BY <1>6 DEF Fulfill
  <2>2. to \in FulfillmentStatus
    BY <2>1 DEF FulfillmentStatus
  <2> QED
    BY <1>6, <2>1, <2>2, SetStatusEffects, SameCashgrams, SameJob, SameCalls DEF Fulfill, Effects
<1> QED
  BY <1>1, <1>2, <1>3, <1>4, <1>5, <1>6

LEMMA InitInv == Init => Inv
<1> SUFFICES ASSUME Init PROVE Inv
  OBVIOUS
<1>1. TypeOK
  BY InitTyped
<1>2. \A w \in Workers : call[w] = Idle
  BY DEF Init
<1>3. \A l \in Lines : db.cashgram[l] = NoStatus /\ db.status[l] \notin Initiated
  BY DEF Init, Initiated, NoStatus
<1>4. \A l \in Lines : cashfree[l].status = NoStatus /\ cashfree[l].shipping = FALSE
  BY DEF Init
<1>5. poll.todo = {} /\ poll.pc = "idle"
  BY DEF Init
<1> QED
  BY <1>1, <1>2, <1>3, <1>4, <1>5, IdleTyped
  DEF Inv, InitiatedKnown, CashgramExists, JobHasRows, ShippingIsLast, OneShipping,
      RefundedWasInitiated, Refunding

LEMMA NextInv == Inv /\ [Next]_vars => Inv'
<1> SUFFICES ASSUME Inv, [Next]_vars PROVE Inv'
  OBVIOUS
<1>1. TypeOK'
  BY NextTyped DEF Inv
<1>2. CASE Next
  <2>1. Effects
    BY <1>2, UpdateEffects, RefundEffects, JobEffects, OtherEffects DEF Next, Step, Inv
  <2> QED
    BY <1>1, <2>1, EffectsSuffice
<1>3. CASE UNCHANGED vars
  <2>1. UNCHANGED << db, cashfree, call, poll, initiated >>
    BY <1>3 DEF vars
  <2>2. Effects
    BY <2>1, SameRows, SameCashgrams, SameStatuses, SameJob, SameCalls DEF Effects
  <2> QED
    BY <1>1, <2>2, EffectsSuffice
<1> QED
  BY <1>2, <1>3

LEMMA InvHolds == Spec => []Inv
  BY InitInv, NextInv, PTL DEF Spec

\* The shipping of a brand is refunded once at most, for any number of lines and
\* of workers that refund them at once, lost answers and crashes included.
THEOREM ShippingAtMostOnce == Spec => []ShippingRefundedOnce
<1>1. Inv => ShippingRefundedOnce
  <2> SUFFICES ASSUME Inv PROVE Cardinality({ l \in Lines : cashfree[l].shipping }) <= 1
    BY DEF ShippingRefundedOnce
  <2> DEFINE S == { l \in Lines : cashfree[l].shipping }
  <2>0. \A l, m \in S : l = m
    BY DEF Inv, OneShipping
  <2> HIDE DEF S
  <2>1. CASE S = {}
    <3>1. Cardinality(S) = 0
      BY <2>1, FS_EmptySet, Zenon
    <3> QED
      BY <3>1 DEF S
  <2>2. CASE S # {}
    <3>1. PICK l \in S : TRUE
      BY <2>2
    <3>2. S = { l }
      BY <2>0, <3>1
    <3>3. Cardinality(S) = 1
      BY <3>2, FS_Singleton, Zenon
    <3> QED
      BY <3>3 DEF S
  <2> QED
    BY <2>1, <2>2 DEF S
<1> QED
  BY <1>1, InvHolds, PTL

\* Cashfree is asked to pay back only lines that were to be cancelled or returned.
THEOREM OnlyInitiatedRefunded == Spec => []RefundedWasInitiated
<1>1. Inv => RefundedWasInitiated
  BY DEF Inv
<1> QED
  BY <1>1, InvHolds, PTL

=============================================================================
