--------------------------- MODULE OrderLineRefunds ---------------------------
(***************************************************************************)
(* The lines of one brand in an order, once the task of the order has made *)
(* their fulfillments, or failed to: staff do that later, or never.  The   *)
(* status that staff, the brand's shop and the jobs write, the refund of a *)
(* line through a Cashgram (a link at Cashfree where the customer collects *)
(* the money) and the daily job that marks late lines.                     *)
(*                                                                         *)
(* Nothing of it takes a lock that outlives one statement, rows are saved  *)
(* whole as they were read, and reads that follow one another are one      *)
(* step.  What cancelling does to stocks is in OrderStock.                 *)
(***************************************************************************)
EXTENDS FiniteSets, Naturals

CONSTANTS
    Lines,          \* the lines of the brand
    Unfulfilled,    \* those whose fulfillment could not be created
    Workers,        \* web and celery workers
    StaffStatuses,  \* what staff set with updateFulfillment
    BrandStatuses,  \* what the orders of Shopify, WooCommerce, ... map to
    PostedStatuses, \* what Unicommerce posts
    Jobs,           \* the jobs that celery beat starts: "refund", "status"
    MaxUpdates,     \* bound: updates by staff and brands
    MaxLost         \* bound: answers lost or refused and workers that die

VARIABLES
    db,        \* the rows of the lines
    cashfree,  \* the Cashgrams that Cashfree has
    late,      \* the brand's days to ship have passed
    call,      \* what each worker has read and has yet to write
    poll,      \* orderline_refund_status_update
    daily,     \* orderline_brand_order_status_update
    updates, lost,
    initiated  \* history: lines that were to be cancelled or returned

vars == << db, cashfree, late, call, poll, daily, updates, lost, initiated >>

FulfillmentStatus ==
    { "placed", "in process", "shipped", "delivered", "fulfilled",
      "cancellation initiated", "cancellation processed", "cancelled by customer",
      "return requested", "return initiated", "return completed",
      "exchange requested", "exchange initiated", "exchange completed" }

NoStatus == "none"      \* a line without a fulfillment, or without the entry

RefundStatus == { "refund initiated", "refund transferred", "refund expired", "refund failed" }

\* metadata of an order line: status, and brand_order_status
Metadata ==
    [ status : FulfillmentStatus \cup { NoStatus },
      brand_order_status : { NoStatus, "delayed", "on_time" } ]

ASSUME LinesAssumption ==
    /\ IsFiniteSet(Lines) /\ Lines # {} /\ Unfulfilled \subseteq Lines
    /\ StaffStatuses \cup BrandStatuses \cup PostedStatuses \subseteq FulfillmentStatus
    /\ Jobs \subseteq { "refund", "status" }
    /\ MaxUpdates \in Nat /\ MaxLost \in Nat

Idle ==
    [ pc |-> "idle", line |-> CHOOSE l \in Lines : TRUE, to |-> NoStatus, seen |-> NoStatus,
      metadata |-> [ status |-> NoStatus, brand_order_status |-> NoStatus ],
      shipping |-> FALSE ]

\* What a worker holds between two steps: the line, the status that was asked
\* for, the one that a brand's update saw, metadata yet to be saved, and whether
\* the refund covers the shipping.
Call ==
    [ pc : { "idle", "note", "update", "cancel", "customer", "save", "refresh",
             "metadata", "count", "create", "book" },
      line : Lines, to : FulfillmentStatus \cup { NoStatus },
      seen : FulfillmentStatus \cup { NoStatus }, metadata : Metadata,
      shipping : BOOLEAN ]

RefundJob ==
    [ pc : { "idle", "read", "ask", "save" }, todo : SUBSET Lines, line : Lines,
      seen : FulfillmentStatus \cup { NoStatus }, refund : RefundStatus ]

TypeOK ==
    /\ db \in [ status : [ Lines -> FulfillmentStatus \cup { NoStatus } ],
                metadata : [ Lines -> Metadata ],
                cashgram : [ Lines -> RefundStatus \cup { NoStatus } ] ]
    /\ cashfree \in [ Lines -> [ status : { NoStatus, "ACTIVE", "REDEEMED", "EXPIRED", "FAILED" },
                                 shipping : BOOLEAN ] ]
    /\ late \in BOOLEAN
    /\ call \in [ Workers -> Call ]
    /\ poll \in RefundJob
    /\ daily \in [ pc : { "idle", "save" }, lines : SUBSET Lines,
                   metadata : [ Lines -> Metadata ] ]
    /\ updates \in Nat /\ lost \in Nat /\ initiated \subseteq Lines

-----------------------------------------------------------------------------
(* Rules                                                                   *)

Cancellations == { "cancellation initiated", "cancellation processed" }

\* Fulfillment.can_edit
CanEdit(status) == status \notin { "cancellation processed", "cancelled by customer" }

\* The checks of UpdateFulfillment.perform_mutation.
CanUpdate(status, to) ==
    /\ ~(status \in { "delivered", "shipped" } /\ to \in Cancellations)
    /\ CanEdit(status) \/ to = "cancelled by customer"

\* order_status_ranking_dict, 0 for a status it does not have
Rank(status) ==
    CASE status = "placed" -> 1
      [] status = "in process" -> 2
      [] status = "shipped" -> 3
      [] status = "delivered" -> 4
      [] status = "cancellation initiated" -> 5
      [] status = "cancellation processed" -> 6
      [] status = "return completed" -> 7
      [] OTHER -> 0

\* Statuses that brands do not change any more.
ignore_status ==
    Cancellations \cup
      { "delivered", "return requested", "return initiated", "return completed" }

\* update_status_in_fulfillment, of every integration
BrandMayUpdate(status, to) ==
    status \notin ignore_status /\ to # status /\ ~(Rank(status) > Rank(to))

Fulfilled == { l \in Lines : db.status[l] # NoStatus }

Refunded == { l \in Lines : db.cashgram[l] # NoStatus }

\* Mutant: lines that are to be refunded count as refunded.
LastRefundOfCanceled(l) ==
    Cardinality({ m \in Lines \ { l } : db.status[m] \in Cancellations }) = Cardinality(Lines) - 1

\* post_data_cashgram_creation: the shipping of the whole brand is refunded
\* with the last of its lines.
LastRefund(l) == Cardinality(Refunded) = Cardinality(Lines) - 1

\* Mutant: the status is not looked at.
CanRefundAny(l) == db.cashgram[l] = NoStatus

\* RefundOrderLine: to be cancelled or returned, and not refunded yet.
CanRefund(l) ==
    db.status[l] \in { "cancellation initiated", "return initiated" }
      /\ db.cashgram[l] = NoStatus

-----------------------------------------------------------------------------
Init ==
    /\ db = [ status |-> [ l \in Lines |-> IF l \in Unfulfilled THEN NoStatus ELSE "placed" ],
              metadata |-> [ l \in Lines |->
                 [ status |-> IF l \in Unfulfilled THEN NoStatus ELSE "placed",
                   brand_order_status |-> NoStatus ] ],
              cashgram |-> [ l \in Lines |-> NoStatus ] ]
    /\ cashfree = [ l \in Lines |-> [ status |-> NoStatus, shipping |-> FALSE ] ]
    /\ late = FALSE
    /\ call = [ w \in Workers |-> Idle ]
    /\ poll = [ pc |-> "idle", todo |-> {}, line |-> Idle.line, seen |-> NoStatus,
                refund |-> "refund initiated" ]
    /\ daily = [ pc |-> "idle", lines |-> {}, metadata |-> db.metadata ]
    /\ updates = 0 /\ lost = 0
    /\ initiated = {}

\* The status of a fulfillment is saved.
SetStatus(l, status) ==
    /\ db' = [ db EXCEPT !.status[l] = status ]
    /\ initiated' = IF status \in { "cancellation initiated", "return initiated" }
                    THEN initiated \cup { l } ELSE initiated

Begin(w) == call[w].pc = "idle" /\ updates < MaxUpdates /\ updates' = updates + 1

Goto(w, pc) == call' = [ call EXCEPT ![w].pc = pc ]

Finish(w) == call' = [ call EXCEPT ![w] = Idle ]

-----------------------------------------------------------------------------
(* updateFulfillment, by staff or on behalf of a brand                     *)

AfterCheck(to) ==
    IF to \in { "cancellation initiated", "cancelled by customer" } THEN "cancel" ELSE "save"

StaffUpdate(w) ==
    /\ Begin(w)
    /\ \E l \in Fulfilled, to \in StaffStatuses :
         /\ CanUpdate(db.status[l], to)
         /\ call' = [ call EXCEPT ![w] =
                        [ Idle EXCEPT !.pc = AfterCheck(to), !.line = l, !.to = to ] ]
    /\ UNCHANGED << db, cashfree, late, poll, daily, lost, initiated >>

\* A brand's order has another status.  When it is cancelled and there is no
\* note yet, a note is left and the fulfillment is saved as it was read.
BrandUpdate(w) ==
    /\ Begin(w)
    /\ \E l \in Fulfilled, to \in BrandStatuses, noted \in BOOLEAN :
         /\ BrandMayUpdate(db.status[l], to)
         /\ call' = [ call EXCEPT ![w] =
                        [ Idle EXCEPT !.pc = IF to \in Cancellations /\ ~noted
                                             THEN "note" ELSE "update",
                                      !.line = l, !.to = to, !.seen = db.status[l] ] ]
    /\ UNCHANGED << db, cashfree, late, poll, daily, lost, initiated >>

SaveNote(w) ==
    /\ call[w].pc = "note"
    /\ SetStatus(call[w].line, call[w].seen)
    /\ Goto(w, "update")
    /\ UNCHANGED << cashfree, late, poll, daily, updates, lost >>

\* The mutation that the brand's update calls.
Update(w) ==
    LET c == call[w]
    IN  /\ c.pc = "update"
        /\ IF CanUpdate(db.status[c.line], c.to) THEN Goto(w, AfterCheck(c.to)) ELSE Finish(w)
        /\ UNCHANGED << db, cashfree, late, poll, daily, updates, lost, initiated >>

\* cancel_fulfillment, in a transaction of its own.
Cancel(w) ==
    /\ call[w].pc = "cancel"
    /\ SetStatus(call[w].line, "cancellation initiated")
    /\ Goto(w, IF call[w].to = "cancelled by customer" THEN "customer" ELSE "refresh")
    /\ UNCHANGED << cashfree, late, poll, daily, updates, lost >>

SaveCustomer(w) ==
    /\ call[w].pc = "customer"
    /\ SetStatus(call[w].line, call[w].to)
    /\ Goto(w, "refresh")
    /\ UNCHANGED << cashfree, late, poll, daily, updates, lost >>

Save(w) ==
    /\ call[w].pc = "save"
    /\ SetStatus(call[w].line, call[w].to)
    /\ Goto(w, "refresh")
    /\ UNCHANGED << cashfree, late, poll, daily, updates, lost >>

\* update_orderline_metadata: the status as it is after a cancellation, or as
\* it was asked for, goes to the metadata of the line, which is saved whole.
ReadMetadata(w) ==
    LET c == call[w]
        status == IF AfterCheck(c.to) = "cancel" THEN db.status[c.line] ELSE c.to
    IN  /\ c.pc = "refresh"
        /\ call' = [ call EXCEPT ![w].pc = "metadata",
                                 ![w].metadata = [ db.metadata[c.line] EXCEPT !.status = status ] ]
        /\ UNCHANGED << db, cashfree, late, poll, daily, updates, lost, initiated >>

SaveMetadata(w) ==
    /\ call[w].pc = "metadata"
    /\ db' = [ db EXCEPT !.metadata[call[w].line] = call[w].metadata ]
    /\ Finish(w)
    /\ UNCHANGED << cashfree, late, poll, daily, updates, lost, initiated >>

\* Unicommerce's PostStatusNotification, PostOrderDispatch and PostOrderCancel:
\* whatever is posted is saved.
Post ==
    /\ updates < MaxUpdates /\ updates' = updates + 1
    /\ \E l \in Fulfilled, to \in PostedStatuses : SetStatus(l, to)
    /\ UNCHANGED << cashfree, late, call, poll, daily, lost >>

\* orderFulfill: staff fulfill a line that was left out, with the status they
\* choose, and leave its metadata alone.
Fulfill ==
    /\ updates < MaxUpdates /\ updates' = updates + 1
    /\ \E l \in Lines \ Fulfilled, to \in StaffStatuses \cup { "placed" } : SetStatus(l, to)
    /\ UNCHANGED << cashfree, late, call, poll, daily, lost >>

-----------------------------------------------------------------------------
(* RefundOrderLine                                                         *)

StaffRefund(w) ==
    /\ call[w].pc = "idle"
    /\ \E l \in Lines :
         /\ CanRefund(l)
         /\ call' = [ call EXCEPT ![w] = [ Idle EXCEPT !.pc = "count", !.line = l ] ]
    /\ UNCHANGED << db, cashfree, late, poll, daily, updates, lost, initiated >>

CountRefunds(w) ==
    /\ call[w].pc = "count"
    /\ call' = [ call EXCEPT ![w].pc = "create", ![w].shipping = LastRefund(call[w].line) ]
    /\ UNCHANGED << db, cashfree, late, poll, daily, updates, lost, initiated >>

\* The id of a Cashgram is the line's: Cashfree refuses a second one, and its
\* answer may be lost.
CreateCashgram(w) ==
    LET c == call[w]
        refused == cashfree[c.line].status # NoStatus
    IN  /\ c.pc = "create"
        /\ cashfree' = IF refused THEN cashfree
                       ELSE [ cashfree EXCEPT ![c.line] =
                                [ status |-> "ACTIVE", shipping |-> c.shipping ] ]
        /\ \/ ~refused /\ Goto(w, "book") /\ UNCHANGED lost
           \/ refused /\ Finish(w) /\ UNCHANGED lost
           \/ lost < MaxLost /\ lost' = lost + 1 /\ Finish(w)
        /\ UNCHANGED << db, late, poll, daily, updates, initiated >>

BookCashgram(w) ==
    /\ call[w].pc = "book"
    /\ db' = [ db EXCEPT !.cashgram[call[w].line] = "refund initiated" ]
    /\ Finish(w)
    /\ UNCHANGED << cashfree, late, poll, daily, updates, lost, initiated >>

-----------------------------------------------------------------------------
(* orderline_refund_func, every evening                                    *)

PollStart ==
    /\ "refund" \in Jobs /\ poll.pc = "idle"
    /\ poll' = [ poll EXCEPT !.pc = "read",
                             !.todo = { l \in Lines : db.cashgram[l] = "refund initiated" } ]
    /\ poll'.todo # {}
    /\ UNCHANGED << db, cashfree, late, call, daily, updates, lost, initiated >>

PollRead ==
    /\ poll.pc = "read"
    /\ \E l \in poll.todo :
         poll' = [ poll EXCEPT !.pc = "ask", !.line = l, !.seen = db.status[l] ]
    /\ UNCHANGED << db, cashfree, late, call, daily, updates, lost, initiated >>

NextLine(p) ==
    LET todo == p.todo \ { p.line }
    IN  [ p EXCEPT !.pc = IF todo = {} THEN "idle" ELSE "read", !.todo = todo ]

\* What a refund that was collected does to a fulfillment that was read.
Closed(status) ==
    CASE status = "cancellation initiated" -> "cancellation processed"
      [] status = "return initiated" -> "return completed"
      [] OTHER -> status

\* Mutant: the refund takes Cashfree's word for it.
RefundOfAnswer(status) == IF status = "ACTIVE" THEN "refund initiated" ELSE status

\* Mutant: a refund that failed is looked at for ever.
RefundOfRedeemed(status) == IF status = "REDEEMED" THEN "refund transferred" ELSE "refund initiated"

RefundOf(status) ==
    CASE status = "REDEEMED" -> "refund transferred"
      [] status = "EXPIRED" -> "refund expired"
      [] status = "FAILED" -> "refund failed"
      [] OTHER -> "refund initiated"

\* The fulfillment of a refund that was collected is saved as it was read, but
\* for its status.  An answer that is refused says nothing of the line, and the
\* next one is next; no answer, and the job is over.
PollAsk ==
    LET l == poll.line
        refund == RefundOf(cashfree[l].status)
    IN  /\ poll.pc = "ask"
        /\ \/ /\ refund # "refund initiated"
              /\ IF refund = "refund transferred" THEN SetStatus(l, Closed(poll.seen))
                 ELSE UNCHANGED << db, initiated >>
              /\ poll' = [ poll EXCEPT !.pc = "save", !.refund = refund ]
              /\ UNCHANGED lost
           \/ /\ refund = "refund initiated"
              /\ poll' = NextLine(poll)
              /\ UNCHANGED << db, lost, initiated >>
           \/ /\ lost < MaxLost /\ lost' = lost + 1
              /\ poll' \in { NextLine(poll), [ poll EXCEPT !.pc = "idle", !.todo = {} ] }
              /\ UNCHANGED << db, initiated >>
        /\ UNCHANGED << cashfree, late, call, daily, updates >>

PollSave ==
    /\ poll.pc = "save"
    /\ db' = [ db EXCEPT !.cashgram[poll.line] = poll.refund ]
    /\ poll' = [ NextLine(poll) EXCEPT !.refund = "refund initiated" ]
    /\ UNCHANGED << cashfree, late, call, daily, updates, lost, initiated >>

\* External: the customer collects the money, or not.
CustomerCollects ==
    /\ \E l \in Lines, status \in { "REDEEMED", "EXPIRED", "FAILED" } :
         /\ cashfree[l].status = "ACTIVE"
         /\ cashfree' = [ cashfree EXCEPT ![l].status = status ]
    /\ UNCHANGED << db, late, call, poll, daily, updates, lost, initiated >>

-----------------------------------------------------------------------------
(* update_brand_order_status, every morning                                *)

\* External: the order is older than the brand's days to ship.
TimePasses ==
    /\ "status" \in Jobs /\ ~late /\ late' = TRUE
    /\ UNCHANGED << db, cashfree, call, poll, daily, updates, lost, initiated >>

\* Mutant: lines without a status in their metadata only.
WatchedUnset == { l \in Lines : db.metadata[l].status = NoStatus }

\* "in process" is not among them: the job asks for "inprocess".
Watched == { l \in Lines : db.metadata[l].status \in { NoStatus, "placed" } }

\* on_time: a late line that was updated soon enough after all.
Marked(m, status, on_time) ==
    [ status |-> IF m.status = NoStatus THEN status ELSE m.status,
      brand_order_status |->
        IF status \in { "placed", "in process" } /\ late THEN "delayed"
        ELSE IF on_time /\ m.brand_order_status = "delayed"
                  /\ status \in ignore_status \cup { "shipped" } THEN "on_time"
        ELSE m.brand_order_status ]

\* A line without a fulfillment ends the job for all of them.
Blocked == ~(Watched \subseteq Fulfilled)

DailyRead ==
    /\ "status" \in Jobs /\ daily.pc = "idle"
    /\ Watched # {} /\ ~Blocked
    /\ \E on_time \in BOOLEAN :
         daily' = [ pc |-> "save", lines |-> Watched,
                    metadata |-> [ l \in Lines |-> Marked(db.metadata[l], db.status[l], on_time) ] ]
    /\ UNCHANGED << db, cashfree, late, call, poll, updates, lost, initiated >>

DailySave ==
    /\ daily.pc = "save"
    /\ db' = [ db EXCEPT !.metadata = [ l \in Lines |->
                 IF l \in daily.lines THEN daily.metadata[l] ELSE @[l] ] ]
    /\ daily' = [ daily EXCEPT !.pc = "idle", !.lines = {} ]
    /\ UNCHANGED << cashfree, late, call, poll, updates, lost, initiated >>

-----------------------------------------------------------------------------
\* A worker dies; celery runs the refund job again.
Crash ==
    /\ lost < MaxLost /\ lost' = lost + 1
    /\ \/ \E w \in Workers : call[w].pc # "idle" /\ Finish(w) /\ UNCHANGED poll
       \/ /\ poll.pc # "idle"
          /\ poll' = [ poll EXCEPT !.pc = "idle", !.todo = {}, !.refund = "refund initiated" ]
          /\ UNCHANGED call
    /\ UNCHANGED << db, cashfree, late, daily, updates, initiated >>

Step(w) ==
    \/ SaveNote(w) \/ Update(w) \/ Cancel(w) \/ SaveCustomer(w) \/ Save(w)
    \/ ReadMetadata(w) \/ SaveMetadata(w)
    \/ CountRefunds(w) \/ CreateCashgram(w) \/ BookCashgram(w)

Poll == PollStart \/ PollRead \/ PollAsk \/ PollSave

Daily == DailyRead \/ DailySave

Next ==
    \/ \E w \in Workers :
         StaffUpdate(w) \/ BrandUpdate(w) \/ StaffRefund(w) \/ Step(w)
    \/ Post \/ Fulfill \/ Poll \/ Daily \/ CustomerCollects \/ TimePasses \/ Crash

Spec == Init /\ [][Next]_vars

\* The jobs are started every day, and a worker goes on until it dies.
FairSpec ==
    /\ Spec
    /\ WF_vars(Poll) /\ WF_vars(Daily)
    /\ \A w \in Workers : WF_vars(Step(w))

-----------------------------------------------------------------------------
(* Properties                                                              *)

\* The shipping of a brand is refunded with one line at most, however many
\* refunds run at once, answers are lost and staff try again
\* (external_services/cashgram/__init__.py:40).
ShippingRefundedOnce ==
    Cardinality({ l \in Lines : cashfree[l].shipping }) <= 1

\* A refund exists only for a line that was to be cancelled or returned
\* (graphql/order/mutations/orders.py:647).
RefundedWasInitiated ==
    \A l \in Lines : cashfree[l].status # NoStatus => l \in initiated

\* Once the money was collected, or can no longer be, the refund that is
\* recorded says so in the end (order/tasks.py:104).
RefundsSettle ==
    \A l \in Lines :
        db.cashgram[l] = "refund initiated" /\ cashfree[l].status \notin { NoStatus, "ACTIVE" }
          ~> db.cashgram[l] = RefundOf(cashfree[l].status) /\ db.cashgram[l] # "refund initiated"

\* A line that the fulfillment and the metadata say is placed, when the brand's
\* days have passed, is marked as delayed in the end, unless one of them changes,
\* whatever status and metadata the others have: once no line the job looks at
\* is without a fulfillment, for one of them ends it for all (order/utils.py:646).
LateIsMarked ==
    \A l \in Lines :
        late /\ ~Blocked /\ db.status[l] = "placed" /\ db.metadata[l].status = "placed"
          ~> \/ db.metadata[l].brand_order_status = "delayed"
             \/ db.status[l] # "placed" \/ db.metadata[l].status # "placed"

\* LateIsMarked, whatever line is without a fulfillment: "if
\* root.fulfillment_line ... else continue" (order/utils.py:644).
LateWhateverOthers ==
    \A l \in Lines :
        late /\ db.status[l] = "placed" /\ db.metadata[l].status = "placed"
          ~> \/ db.metadata[l].brand_order_status = "delayed"
             \/ db.status[l] # "placed" \/ db.metadata[l].status # "placed"

\* A line whose money was collected is cancelled or returned.
CollectedIsClosed ==
    \A l \in Lines : db.cashgram[l] = "refund transferred" =>
        db.status[l] \in { "cancellation processed", "return completed" }

\* The shipping of a brand is refunded with its lines.
ShippingIsRefunded ==
    Refunded = Lines => \E l \in Lines : cashfree[l].shipping

\* LateIsMarked for lines in process (order/utils.py:662).
LateInProcessIsMarked ==
    \A l \in Lines :
        late /\ ~Blocked /\ db.status[l] = "in process"
          ~> db.status[l] # "in process" \/ db.metadata[l].brand_order_status = "delayed"

\* Money that the customer collected is recorded in the end.
CollectedIsRecorded ==
    \A l \in Lines :
        cashfree[l].status = "REDEEMED" ~> db.cashgram[l] = "refund transferred"
=============================================================================
