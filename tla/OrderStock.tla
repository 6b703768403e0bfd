----------------------------- MODULE OrderStock -----------------------------
(***************************************************************************)
(* The stock of a warehouse and the orders that draw on it: allocation     *)
(* when an order is placed, fulfillment by staff, cancellation of a        *)
(* fulfillment or of an order.                                             *)
(*                                                                         *)
(* Every statement that waits for a row, or that reads one without locking *)
(* it, is an action.  A call works in a PostgreSQL transaction, READ       *)
(* COMMITTED: txn holds what it has written, Seen is what its statements   *)
(* see, want is the queue of rows its statement is about to lock and holds *)
(* the rows it has.  Commit moves txn to db.                               *)
(*                                                                         *)
(* Variants track their inventory and their product rows are not modelled. *)
(* A fulfillment is made in one warehouse: each further warehouse a call   *)
(* names would only add a Fulfillment row.                                 *)
(***************************************************************************)
EXTENDS Integers, SequencesExt

CONSTANTS
    Workers,            \* the web workers
    Placers,            \* those of them that place orders
    Orders,
    Drafts,             \* orders made by staff as drafts, the others by a checkout
    Lines,
    OrderOf,            \* Lines -> Orders
    Ordered,            \* Lines -> order_line.quantity
    Stocks,             \* the pks of the stocks
    StocksOf,           \* Lines -> the stocks of the line's variant
    WarehouseOf,        \* Stocks -> warehouses
    Initial,            \* Stocks -> stock.quantity
    Given,              \* the statuses staff give a new fulfillment
    Operations,         \* the mutations that are called
    MaxCalls,           \* bound: mutations called
    MaxFulfillments     \* bound: fulfillments inserted

None == 0               \* no order, no fulfillment, no warehouse

\* The statuses of a fulfillment whose items were not returned.
Standing == { "placed", "shipped" }

\* An order without lines needs no stock and is not modelled; orderFulfill
\* takes any status, staff do not create a fulfillment as a canceled one.
ASSUME StockAssumption ==
    /\ IsFiniteSet(Workers) /\ IsFiniteSet(Lines) /\ IsFiniteSet(Stocks)
    /\ Placers \subseteq Workers
    /\ Drafts \subseteq Orders
    /\ OrderOf \in [ Lines -> Orders ]
    /\ \A o \in Orders : \E l \in Lines : OrderOf[l] = o
    /\ Ordered \in [ Lines -> Nat \ { 0 } ]
    /\ Stocks \subseteq Nat
    /\ StocksOf \in [ Lines -> SUBSET Stocks ]
    /\ DOMAIN WarehouseOf = Stocks
    /\ Initial \in [ Stocks -> Nat ]
    /\ Given \subseteq Standing
    /\ MaxCalls \in Nat
    /\ MaxFulfillments \in Nat

VARIABLES
    db,         \* the committed rows, by table
    txn,        \* the rows each worker's transaction has written
    request,    \* what each worker is doing
    holds,      \* the rows each worker has locked
    calls       \* history: mutations called

vars == << db, txn, request, holds, calls >>

Tables == { "quantity", "allocated", "fulfilled", "status", "fulfillment" }

\* "absent": the checkout of the order is not completed.
OrderStatus ==
    { "absent", "draft", "unfulfilled", "partially fulfilled", "fulfilled", "canceled" }

FulfillmentStatus ==
    { "placed", "shipped", "cancellation initiated", "cancellation processed",
      "cancelled by customer" }

Item == [ line : Lines, stock : Stocks \cup { None }, quantity : Nat ]

FulfillmentRow ==
    [ order : Orders, status : FulfillmentStatus, lines : Seq(Item) ]

Phases ==
    { "idle", "commit",
      "place", "sum", "allocate",                               \* placing an order
      "clean", "line", "deallocate", "zero", "ship", "mark",    \* orderFulfill
      "read", "restock", "increase", "unfulfill",               \* fulfillmentCancel
      "update", "order",                                        \* update_order_status
      "save", "find", "release" }                               \* updateFulfillment, orderCancel

\* The phases inside the try of _create_fulfillment_lines, and those of them
\* inside the savepoint of decrease_stock.
LinePhases == { "deallocate", "zero", "ship", "mark" }

SavepointPhases == LinePhases \ { "mark" }

NoRows == << >>

NoWrites == [ table \in Tables |-> NoRows ]

Idle ==
    [ phase |-> "idle", then |-> "idle", order |-> None, fulfillment |-> None,
      warehouse |-> None, items |-> << >>, done |-> << >>, sums |-> NoRows,
      loaded |-> NoRows, status |-> "absent", final |-> "placed",
      want |-> << >>, kept |-> {}, base |-> NoWrites ]

StockLock(s)       == << "stock", s >>
AllocationLock(k)  == << "allocation", k[1], k[2] >>
LineLock(l)        == << "line", l >>
OrderLock(o)       == << "order", o >>
FulfillmentLock(f) == << "fulfillment", f >>

TypeOK ==
    /\ db.quantity \in [ Stocks -> Nat ]
    /\ \A k \in DOMAIN db.allocated : k \in Lines \X Stocks /\ db.allocated[k] \in Nat
    /\ db.fulfilled \in [ Lines -> Int ]
    /\ db.status \in [ Orders -> OrderStatus ]
    /\ \A f \in DOMAIN db.fulfillment : db.fulfillment[f] \in FulfillmentRow
    /\ \A w \in Workers : DOMAIN txn[w] = Tables /\ request[w].phase \in Phases
    /\ calls \in 0 .. MaxCalls

Init ==
    /\ db = [ quantity |-> Initial,
              allocated |-> NoRows,
              fulfilled |-> [ l \in Lines |-> 0 ],
              status |-> [ o \in Orders |-> IF o \in Drafts THEN "draft" ELSE "absent" ],
              fulfillment |-> NoRows ]
    /\ txn = [ w \in Workers |-> NoWrites ]
    /\ request = [ w \in Workers |-> Idle ]
    /\ holds = [ w \in Workers |-> {} ]
    /\ calls = 0

-----------------------------------------------------------------------------
(* Rows and transactions.                                                  *)

\* The rows of a table once some of them are written over.
Over(written, rows) ==
    [ k \in DOMAIN written \cup DOMAIN rows |->
        IF k \in DOMAIN written THEN written[k] ELSE rows[k] ]

\* One row of a table.
Row(key, row) == [ k \in { key } |-> row ]

Seen(w, table) == Over(txn[w][table], db[table])

Writes(w, table, rows) == txn' = [ txn EXCEPT ![w][table] = Over(rows, @) ]

LinesOf(o) == { l \in Lines : OrderOf[l] = o }

\* The allocation rows of some lines among given ones.
RowsOf(ls, rows) == { k \in DOMAIN rows : k[1] \in ls }

\* Sum("quantity_allocated") of a stock.
AllocatedIn(s, rows) == SumFunctionOnSet(rows, { k \in DOMAIN rows : k[2] = s })

Total(f) == SumFunctionOnSet(f, DOMAIN f)

\* The keys one by one, by a number each of them has.
InOrder(keys, number) ==
    CHOOSE q \in [ 1 .. Cardinality(keys) -> keys ] :
      \A i, j \in 1 .. Cardinality(keys) :
        i < j => q[i] # q[j] /\ number[q[i]] <= number[q[j]]

Ascending(keys) == InOrder(keys, [ s \in keys |-> s ])

\* Allocation rows are visited by the pk of their stock.
ByStock(keys) == InOrder(keys, [ k \in keys |-> k[2] ])

Locking(row(_), keys) == [ i \in DOMAIN keys |-> row(keys[i]) ]

Positive(n) == IF n > 0 THEN n ELSE 0

Least(m, n) == IF m < n THEN m ELSE n

\* The loop of allocate_stock and deallocate_stock: as much as each stock in
\* turn can give, until what is wanted is there.
Share(wanted, gives) ==
    LET before(s) == SumFunctionOnSet([ t \in DOMAIN gives |-> Positive(gives[t]) ],
                                      { t \in DOMAIN gives : t < s })
    IN  [ s \in DOMAIN gives |-> Least(Positive(gives[s]), Positive(wanted - before(s))) ]

At(w, phase) == request[w].phase = phase /\ request[w].want = << >>

Continue(w, r) == request' = [ request EXCEPT ![w] = r ]

Call(w, operation, r) ==
    /\ operation \in Operations
    /\ request[w].phase = "idle"
    /\ calls < MaxCalls
    /\ calls' = calls + 1
    /\ Continue(w, r)

Free(w, row) == \A v \in Workers \ { w } : row \notin holds[v]

\* A statement locks the next of the rows it wants.
Lock(w) ==
    /\ request[w].want # << >>
    /\ Free(w, Head(request[w].want))
    /\ holds' = [ holds EXCEPT ![w] = @ \cup { Head(request[w].want) } ]
    /\ request' = [ request EXCEPT ![w].want = Tail(@) ]
    /\ UNCHANGED << db, txn, calls >>

\* A transaction ends; the call may go on with another one.
Commit(w) ==
    LET r == request[w]
    IN  /\ At(w, "commit")
        /\ db' = [ table \in Tables |-> Seen(w, table) ]
        /\ txn' = [ txn EXCEPT ![w] = NoWrites ]
        /\ holds' = [ holds EXCEPT ![w] = {} ]
        /\ Continue(w, IF r.then = "idle" THEN Idle
                       ELSE [ r EXCEPT
                         !.phase = r.then, !.then = "idle",
                         !.want = IF r.then = "save" THEN << FulfillmentLock(r.fulfillment) >>
                                  ELSE << >> ])
        /\ UNCHANGED calls

\* An exception leaves the transaction: it is rolled back and the call ends.
CallFails(w) ==
    /\ txn' = [ txn EXCEPT ![w] = NoWrites ]
    /\ holds' = [ holds EXCEPT ![w] = {} ]
    /\ Continue(w, Idle)
    /\ UNCHANGED << db, calls >>

\* Mutant: without a savepoint, what the line released stays released.
LineFailsKept(w) ==
    LET r == request[w]
    IN  /\ holds' = [ holds EXCEPT ![w] = r.kept ]
        /\ Continue(w, [ r EXCEPT !.phase = "line", !.items = Tail(@), !.want = << >> ])
        /\ UNCHANGED << db, txn, calls >>

\* Mutant: the line is tried again.
LineFailsRetry(w) ==
    LET r == request[w]
    IN  /\ txn' = [ txn EXCEPT ![w] = r.base ]
        /\ holds' = [ holds EXCEPT ![w] = r.kept ]
        /\ Continue(w, [ r EXCEPT !.phase = "line", !.want = << >> ])
        /\ UNCHANGED << db, calls >>

\* An exception in decrease_stock is logged: its savepoint is rolled back,
\* with its locks, and the next line is next.
LineFails(w) ==
    LET r == request[w]
    IN  /\ txn' = [ txn EXCEPT ![w] = r.base ]
        /\ holds' = [ holds EXCEPT ![w] = r.kept ]
        /\ Continue(w, [ r EXCEPT !.phase = "line", !.items = Tail(@), !.want = << >> ])
        /\ UNCHANGED << db, calls >>

\* After an error outside of a savepoint, also one that is logged, PostgreSQL
\* refuses what the transaction goes on with.
Fails(w) == IF request[w].phase \in SavepointPhases THEN LineFails(w) ELSE CallFails(w)

-----------------------------------------------------------------------------
(* An order is placed.                                                     *)

\* _get_available_quantity: equal quantities of two stocks count once.
Available(l) ==
    Positive(Total([ n \in { db.quantity[s] : s \in StocksOf[l] } |-> n ])
               - SumFunctionOnSet(db.allocated,
                                  { k \in DOMAIN db.allocated : k[2] \in StocksOf[l] }))

InStock(o) == \A l \in LinesOf(o) : Ordered[l] <= Available(l)

ToAllocate(o) ==
    LET ls == SetToSeq(LinesOf(o))
    IN  [ i \in DOMAIN ls |->
            [ line |-> ls[i], stock |-> None, quantity |-> Ordered[ls[i]] ] ]

\* checkoutComplete, the part from _create_order on: the order and its lines
\* are inserted by the transaction that allocates their stock.  The lock
\* stands for the checkout's.
CheckoutOrder(w, o) ==
    /\ w \in Placers
    /\ o \notin Drafts
    /\ db.status[o] = "absent"
    /\ Free(w, OrderLock(o))
    /\ InStock(o)
    /\ Call(w, "checkout", [ Idle EXCEPT !.phase = "sum", !.order = o,
                                         !.items = ToAllocate(o) ])
    /\ Writes(w, "status", Row(o, "unfulfilled"))
    /\ holds' = [ holds EXCEPT ![w] = { OrderLock(o) } ]
    /\ UNCHANGED db

\* draftOrderComplete looks at the stock, not at the status the order has.
DraftOrderComplete(w, o) ==
    /\ w \in Placers
    /\ o \in Drafts
    /\ InStock(o)
    /\ Call(w, "draft", [ Idle EXCEPT !.phase = "place", !.order = o,
                                      !.items = ToAllocate(o), !.want = << OrderLock(o) >> ])
    /\ UNCHANGED << db, txn, holds >>

\* order.save() is committed at once.
SaveDraft(w) ==
    /\ At(w, "place")
    /\ db' = [ db EXCEPT !.status[request[w].order] = "unfulfilled" ]
    /\ holds' = [ holds EXCEPT ![w] = {} ]
    /\ request' = [ request EXCEPT ![w].phase = "sum" ]
    /\ UNCHANGED << txn, calls >>

\* Mutant: the stocks are not locked.
SumAllocationsUnlocked(w) ==
    LET r == request[w]
        stocks == StocksOf[Head(r.items).line]
    IN  /\ At(w, "sum")
        /\ Continue(w, [ r EXCEPT
             !.phase = "allocate",
             !.sums = [ s \in stocks |-> AllocatedIn(s, Seen(w, "allocated")) ] ])
        /\ UNCHANGED << db, txn, holds, calls >>

\* The first query of allocate_stock sums the allocations; the stocks it
\* names are locked for update after its snapshot was taken.
SumAllocations(w) ==
    LET r == request[w]
        stocks == StocksOf[Head(r.items).line]
    IN  /\ At(w, "sum")
        /\ Continue(w, [ r EXCEPT
             !.phase = "allocate",
             !.sums = [ s \in stocks |-> AllocatedIn(s, Seen(w, "allocated")) ],
             !.want = Locking(StockLock, Ascending(stocks)) ])
        /\ UNCHANGED << db, txn, holds, calls >>

\* What allocate_stock takes from each stock, and the rows it inserts.
Taken(w) ==
    LET r == request[w]
        quantity == Seen(w, "quantity")
    IN  Share(Head(r.items).quantity,
              [ s \in DOMAIN r.sums |-> quantity[s] - r.sums[s] ])

NewAllocations(w) ==
    LET taken == Taken(w)
        keys == { << Head(request[w].items).line, s >> : s \in { t \in DOMAIN taken : taken[t] > 0 } }
    IN  [ k \in keys |-> taken[k[2]] ]

\* order_line and stock are unique together.
CanAllocate(w) ==
    /\ Total(Taken(w)) = Head(request[w].items).quantity
    /\ DOMAIN NewAllocations(w) \cap DOMAIN Seen(w, "allocated") = {}

\* A draft's line is committed on its own, a checkout's lines together.
AllocateStock(w) ==
    LET r == request[w]
        rest == Tail(r.items)
        draft == r.order \in Drafts
    IN  /\ At(w, "allocate")
        /\ CanAllocate(w)
        /\ Writes(w, "allocated", NewAllocations(w))
        /\ Continue(w, [ r EXCEPT
             !.items = rest,
             !.phase = IF rest = << >> \/ draft THEN "commit" ELSE "sum",
             !.then = IF rest # << >> /\ draft THEN "sum" ELSE "idle" ])
        /\ UNCHANGED << db, holds, calls >>

\* InsufficientStock, or an allocation of the line that is there already.
NotAllocated(w) ==
    /\ At(w, "allocate")
    /\ ~ CanAllocate(w)
    /\ CallFails(w)

-----------------------------------------------------------------------------
(* orderFulfill.                                                           *)

\* What staff ask for in one warehouse: some lines of the order, in the
\* order of the request, and a quantity of each.
Requested(o, h) ==
    LET item(l) == { [ line |-> l, stock |-> s, quantity |-> n ] :
                       s \in { t \in StocksOf[l] : WarehouseOf[t] = h }, n \in 1 .. Ordered[l] }
    IN  { << i >> : i \in UNION { item(l) : l \in LinesOf(o) } }
          \cup UNION { { << i, j >> : i \in item(p[1]), j \in item(p[2]) } :
                         p \in { q \in LinesOf(o) \X LinesOf(o) : q[1] # q[2] } }

\* The order is loaded; its status is not looked at.  The client gives the
\* status of the fulfillment.
OrderFulfill(w, o, items, status) ==
    /\ db.status[o] # "absent"
    /\ Cardinality(DOMAIN db.fulfillment)
         + Cardinality({ v \in Workers : request[v].phase # "idle" }) < MaxFulfillments
    /\ Call(w, "fulfill", [ Idle EXCEPT !.phase = "clean", !.order = o,
                                        !.items = items, !.status = db.status[o],
                                        !.final = status ])
    /\ UNCHANGED << db, txn, holds >>

\* clean_lines compares with the lines as they are loaded now, and the same
\* objects are fulfilled later.  create_fulfillments inserts the Fulfillment.
CleanLines(w) ==
    LET r == request[w]
        unfulfilled(l) == Ordered[l] - db.fulfilled[l]
        f == Max(DOMAIN db.fulfillment \cup { request[v].fulfillment : v \in Workers }) + 1
    IN  /\ At(w, "clean")
        /\ \A i \in DOMAIN r.items : r.items[i].quantity <= unfulfilled(r.items[i].line)
        /\ Continue(w, [ r EXCEPT
             !.phase = "line", !.fulfillment = f,
             !.loaded = [ l \in { r.items[i].line : i \in DOMAIN r.items } |-> db.fulfilled[l] ] ])
        /\ UNCHANGED << db, txn, holds, calls >>

\* ValidationError: only so many items remaining to fulfill.
TooMany(w) ==
    /\ At(w, "clean")
    /\ \E i \in DOMAIN request[w].items :
         LET item == request[w].items[i]
         IN  item.quantity > Ordered[item.line] - db.fulfilled[item.line]
    /\ CallFails(w)

\* decrease_stock begins with a savepoint; deallocate_stock then locks each
\* allocation of the line with its stock.
FulfillLine(w) ==
    LET r == request[w]
        keys == ByStock(RowsOf({ Head(r.items).line }, Seen(w, "allocated")))
    IN  /\ At(w, "line")
        /\ r.items # << >>
        /\ Continue(w, [ r EXCEPT
             !.phase = "deallocate", !.base = txn[w], !.kept = holds[w],
             !.want = [ i \in 1 .. 2 * Len(keys) |->
                          LET k == keys[(i + 1) \div 2]
                          IN  IF i % 2 = 1 THEN AllocationLock(k) ELSE StockLock(k[2]) ] ])
        /\ UNCHANGED << db, txn, holds, calls >>

\* The allocations of the line being fulfilled, by stock.
AllocatedTo(w) ==
    LET rows == Seen(w, "allocated")
        l == Head(request[w].items).line
    IN  [ s \in { k[2] : k \in RowsOf({ l }, rows) } |-> rows[<< l, s >>] ]

\* Mutant: decrease_stock gets the stock without select_for_update.
DeallocateUnlocked(w) ==
    LET r == request[w]
        item == Head(r.items)
        mine == AllocatedTo(w)
        released == Share(item.quantity, mine)
    IN  /\ At(w, "deallocate")
        /\ Total(released) = item.quantity
        /\ Writes(w, "allocated", [ k \in { item.line } \X DOMAIN mine |->
                                      mine[k[2]] - released[k[2]] ])
        /\ Continue(w, [ r EXCEPT !.phase = "ship" ])
        /\ UNCHANGED << db, holds, calls >>

\* deallocate_stock takes the quantity from the allocations.
Deallocate(w) ==
    LET r == request[w]
        item == Head(r.items)
        mine == AllocatedTo(w)
        released == Share(item.quantity, mine)
    IN  /\ At(w, "deallocate")
        /\ Total(released) = item.quantity
        /\ Writes(w, "allocated", [ k \in { item.line } \X DOMAIN mine |->
                                      mine[k[2]] - released[k[2]] ])
        /\ Continue(w, [ r EXCEPT !.phase = "ship", !.want = << StockLock(item.stock) >> ])
        /\ UNCHANGED << db, holds, calls >>

\* AllocationError rolls deallocate_stock back, its locks too; all the
\* allocations of the line are then zeroed.
TooFewAllocated(w) ==
    LET r == request[w]
    IN  /\ At(w, "deallocate")
        /\ Total(AllocatedTo(w)) < Head(r.items).quantity
        /\ holds' = [ holds EXCEPT ![w] = r.kept ]
        /\ Continue(w, [ r EXCEPT
             !.phase = "zero",
             !.want = Locking(AllocationLock,
                              ByStock(RowsOf({ Head(r.items).line }, Seen(w, "allocated")))) ])
        /\ UNCHANGED << db, txn, calls >>

ZeroAllocations(w) ==
    LET r == request[w]
    IN  /\ At(w, "zero")
        /\ Writes(w, "allocated",
                  [ k \in RowsOf({ Head(r.items).line }, Seen(w, "allocated")) |-> 0 ])
        /\ Continue(w, [ r EXCEPT !.phase = "ship",
                                  !.want = << StockLock(Head(r.items).stock) >> ])
        /\ UNCHANGED << db, holds, calls >>

\* Mutant: the quantity is compared with what was loaded of the line only.
EnoughUnchecked(w) ==
    LET item == Head(request[w].items)
    IN  request[w].loaded[item.line] <= item.quantity

\* decrease_stock looks at the stock it has locked and at all its allocations.
Enough(w) ==
    LET item == Head(request[w].items)
    IN  Seen(w, "quantity")[item.stock] - AllocatedIn(item.stock, Seen(w, "allocated"))
          >= item.quantity

DecreaseStock(w) ==
    LET r == request[w]
        item == Head(r.items)
    IN  /\ At(w, "ship")
        /\ Enough(w)
        /\ Writes(w, "quantity", Row(item.stock, Seen(w, "quantity")[item.stock] - item.quantity))
        /\ Continue(w, [ r EXCEPT !.phase = "mark", !.want = << LineLock(item.line) >> ])
        /\ UNCHANGED << db, holds, calls >>

\* InsufficientStock: _create_fulfillment_lines logs it and goes on.
NotEnough(w) ==
    /\ At(w, "ship")
    /\ ~ Enough(w)
    /\ LineFails(w)

\* fulfill_order_line saves the quantity it counts from the loaded object.
FulfillOrderLine(w) ==
    LET r == request[w]
        item == Head(r.items)
    IN  /\ At(w, "mark")
        /\ Writes(w, "fulfilled", Row(item.line, r.loaded[item.line] + item.quantity))
        /\ Continue(w, [ r EXCEPT !.phase = "line", !.items = Tail(@),
                                  !.done = Append(@, item) ])
        /\ UNCHANGED << db, holds, calls >>

\* create_fulfillments inserts the lines that were fulfilled.
CreateFulfillment(w) ==
    LET r == request[w]
    IN  /\ At(w, "line")
        /\ r.items = << >>
        /\ Writes(w, "fulfillment", Row(r.fulfillment,
                    [ order |-> r.order, status |-> r.final, lines |-> r.done ]))
        /\ Continue(w, [ r EXCEPT !.phase = "update" ])
        /\ UNCHANGED << db, holds, calls >>

-----------------------------------------------------------------------------
(* update_order_status.                                                    *)

StatusFor(o, fulfilled) ==
    LET done == SumFunctionOnSet(fulfilled, LinesOf(o))
    IN  IF done <= 0 THEN "unfulfilled"
        ELSE IF done < SumFunctionOnSet(Ordered, LinesOf(o)) THEN "partially fulfilled"
        ELSE "fulfilled"

\* The lines are read, and compared with the status of the loaded order.
UpdateOrderStatus(w) ==
    LET r == request[w]
        status == StatusFor(r.order, Seen(w, "fulfilled"))
    IN  /\ At(w, "update")
        /\ Continue(w, IF status = r.status THEN [ r EXCEPT !.phase = "commit" ]
                       ELSE [ r EXCEPT !.phase = "order", !.status = status,
                                       !.want = << OrderLock(r.order) >> ])
        /\ UNCHANGED << db, txn, holds, calls >>

SaveOrder(w) ==
    /\ At(w, "order")
    /\ Writes(w, "status", Row(request[w].order, request[w].status))
    /\ request' = [ request EXCEPT ![w].phase = "commit" ]
    /\ UNCHANGED << db, holds, calls >>

-----------------------------------------------------------------------------
(* fulfillmentCancel, updateFulfillment and orderCancel.                   *)

can_edit(f) ==
    db.fulfillment[f].status \notin { "cancellation processed", "cancelled by customer" }

\* Both mutations look at the fulfillment, cancel_fulfillment then locks it.
Cancelling(f, h) ==
    [ Idle EXCEPT !.phase = "read", !.fulfillment = f,
                  !.order = db.fulfillment[f].order, !.warehouse = h,
                  !.want = << FulfillmentLock(f) >> ]

FulfillmentCancel(w, f, h) ==
    /\ can_edit(f)
    /\ Call(w, "cancel fulfillment", Cancelling(f, h))
    /\ UNCHANGED << db, txn, holds >>

\* updateFulfillment(CANCELLED_BY_CUSTOMER) cancels whatever the status, and
\* then saves the status.
CancelledByCustomer(w, f, h) ==
    /\ Call(w, "cancel by customer",
            [ Cancelling(f, h) EXCEPT !.then = "save", !.final = "cancelled by customer" ])
    /\ UNCHANGED << db, txn, holds >>

\* updateFulfillment with any other status saves it.
UpdateFulfillment(w, f, status) ==
    /\ can_edit(f)
    /\ ~ (db.fulfillment[f].status = "shipped" /\ status = "cancellation processed")
    /\ Call(w, "update fulfillment",
            [ Idle EXCEPT !.phase = "save", !.fulfillment = f, !.final = status,
                          !.order = db.fulfillment[f].order,
                          !.want = << FulfillmentLock(f) >> ])
    /\ UNCHANGED << db, txn, holds >>

\* restock_fulfillment_lines, over the lines of the locked fulfillment.
ReadFulfillment(w) ==
    LET r == request[w]
    IN  /\ At(w, "read")
        /\ Continue(w, [ r EXCEPT !.phase = "restock",
                                  !.items = db.fulfillment[r.fulfillment].lines ])
        /\ UNCHANGED << db, txn, holds, calls >>

\* The order line is loaded, then increase_stock locks the stock of the
\* chosen warehouse and writes the line's allocation in it.
RestockLine(w) ==
    LET r == request[w]
        l == Head(r.items).line
    IN  /\ At(w, "restock")
        /\ r.items # << >>
        /\ \E s \in StocksOf[l] :
             /\ WarehouseOf[s] = r.warehouse
             /\ Continue(w, [ r EXCEPT
                  !.phase = "increase",
                  !.items[1].stock = s,
                  !.loaded = Over(Row(l, Seen(w, "fulfilled")[l]), @),
                  !.want = << StockLock(s), AllocationLock(<< l, s >>) >> ])
        /\ UNCHANGED << db, txn, holds, calls >>

IncreaseStock(w) ==
    LET r == request[w]
        item == Head(r.items)
        k == << item.line, item.stock >>
        rows == Over(Seen(w, "allocated"), Row(k, 0))
    IN  /\ At(w, "increase")
        /\ txn' = [ txn EXCEPT
             ![w].quantity = Over(Row(item.stock, Seen(w, "quantity")[item.stock] + item.quantity), @),
             ![w].allocated = Over(Row(k, rows[k] + item.quantity), @) ]
        /\ Continue(w, [ r EXCEPT !.phase = "restock", !.items = Tail(@),
                                  !.done = Append(@, item) ])
        /\ UNCHANGED << db, holds, calls >>

\* bulk_update of the order lines.
RestockedAll(w) ==
    LET r == request[w]
    IN  /\ At(w, "restock")
        /\ r.items = << >>
        /\ Continue(w, [ r EXCEPT
             !.phase = "unfulfill",
             !.want = Locking(LAMBDA item : LineLock(item.line), r.done) ])
        /\ UNCHANGED << db, txn, holds, calls >>

\* The quantities count from the loaded lines; the order is loaded after it.
Unfulfill(w) ==
    LET r == request[w]
        quantity(l) == r.done[CHOOSE i \in DOMAIN r.done : r.done[i].line = l].quantity
    IN  /\ At(w, "unfulfill")
        /\ txn' = [ txn EXCEPT
             ![w].fulfilled = Over([ l \in DOMAIN r.loaded |-> r.loaded[l] - quantity(l) ], @),
             ![w].fulfillment = Row(r.fulfillment,
               [ db.fulfillment[r.fulfillment] EXCEPT !.status = "cancellation initiated" ]) ]
        /\ Continue(w, [ r EXCEPT !.phase = "update", !.status = db.status[r.order],
                                  !.items = << >> ])
        /\ UNCHANGED << db, holds, calls >>

\* fulfillment.save(); deallocate_cancelled_stock follows a cancellation.
SaveFulfillment(w) ==
    LET r == request[w]
    IN  /\ At(w, "save")
        /\ Writes(w, "fulfillment", Row(r.fulfillment,
                    [ db.fulfillment[r.fulfillment] EXCEPT !.status = r.final ]))
        /\ Continue(w, [ r EXCEPT
             !.phase = "commit",
             !.then = IF r.final = "cancellation processed" THEN "find" ELSE "idle" ])
        /\ UNCHANGED << db, holds, calls >>

can_cancel(o) ==
    /\ db.status[o] \notin { "canceled", "draft", "absent" }
    /\ \A f \in DOMAIN db.fulfillment :
         db.fulfillment[f].order = o =>
           db.fulfillment[f].status \in { "cancellation initiated", "cancellation processed" }

OrderCancel(w, o) ==
    /\ can_cancel(o)
    /\ Call(w, "cancel order", [ Idle EXCEPT !.phase = "find", !.order = o ])
    /\ UNCHANGED << db, txn, holds >>

\* The allocations a cancellation zeroes: those of the fulfillment's lines,
\* or those of the order that are not zero.
FindAllocations(w) ==
    LET r == request[w]
        found ==
          IF r.fulfillment # None
            THEN RowsOf({ db.fulfillment[r.fulfillment].lines[i].line :
                            i \in DOMAIN db.fulfillment[r.fulfillment].lines }, db.allocated)
            ELSE { k \in RowsOf(LinesOf(r.order), db.allocated) : db.allocated[k] > 0 }
    IN  /\ At(w, "find")
        /\ Continue(w, [ r EXCEPT !.phase = "release",
                                  !.want = Locking(AllocationLock, ByStock(found)) ])
        /\ UNCHANGED << db, txn, holds, calls >>

\* Mutant: the allocation of one stock of each line is released.
ReleaseFirst(w) ==
    LET r == request[w]
    IN  /\ At(w, "release")
        /\ Writes(w, "allocated",
                  [ k \in { j \in DOMAIN db.allocated :
                              /\ AllocationLock(j) \in holds[w]
                              /\ \A i \in DOMAIN db.allocated : i[1] = j[1] => j[2] <= i[2] } |-> 0 ])
        /\ Continue(w, IF r.fulfillment # None THEN [ r EXCEPT !.phase = "commit" ]
                       ELSE [ r EXCEPT !.phase = "order", !.status = "canceled",
                                       !.want = << OrderLock(r.order) >> ])
        /\ UNCHANGED << db, holds, calls >>

\* cancel_order goes on with the order's status.
ReleaseAllocations(w) ==
    LET r == request[w]
    IN  /\ At(w, "release")
        /\ Writes(w, "allocated",
                  [ k \in { j \in DOMAIN db.allocated : AllocationLock(j) \in holds[w] } |-> 0 ])
        /\ Continue(w, IF r.fulfillment # None THEN [ r EXCEPT !.phase = "commit" ]
                       ELSE [ r EXCEPT !.phase = "order", !.status = "canceled",
                                       !.want = << OrderLock(r.order) >> ])
        /\ UNCHANGED << db, holds, calls >>

-----------------------------------------------------------------------------

\* w waits for a row that v has locked.
WaitsFor(w, v) ==
    /\ v # w
    /\ request[w].want # << >>
    /\ Head(request[w].want) \in holds[v]

Deadlocked(w) ==
    \E circle \in SUBSET Workers :
      /\ w \in circle
      /\ \A v \in circle : /\ \E u \in circle : WaitsFor(v, u)
                           /\ \E u \in circle : WaitsFor(u, v)

\* PostgreSQL ends a deadlock with an error in one of the waiting statements.
DeadlockDetected(w) ==
    /\ Deadlocked(w)
    /\ Fails(w)

Step(w) ==
    \/ Lock(w)
    \/ Commit(w)
    \/ SaveDraft(w)
    \/ SumAllocations(w)
    \/ AllocateStock(w)
    \/ NotAllocated(w)
    \/ CleanLines(w)
    \/ TooMany(w)
    \/ FulfillLine(w)
    \/ Deallocate(w)
    \/ TooFewAllocated(w)
    \/ ZeroAllocations(w)
    \/ DecreaseStock(w)
    \/ NotEnough(w)
    \/ FulfillOrderLine(w)
    \/ CreateFulfillment(w)
    \/ UpdateOrderStatus(w)
    \/ SaveOrder(w)
    \/ ReadFulfillment(w)
    \/ RestockLine(w)
    \/ IncreaseStock(w)
    \/ RestockedAll(w)
    \/ Unfulfill(w)
    \/ SaveFulfillment(w)
    \/ FindAllocations(w)
    \/ ReleaseAllocations(w)

Next == \E w \in Workers :
    \/ \E o \in Orders :
         \/ CheckoutOrder(w, o)
         \/ DraftOrderComplete(w, o)
         \/ \E s \in Stocks : \E items \in Requested(o, WarehouseOf[s]) :
              \E status \in Given : OrderFulfill(w, o, items, status)
         \/ OrderCancel(w, o)
    \/ \E f \in DOMAIN db.fulfillment :
         \/ \E s \in Stocks : FulfillmentCancel(w, f, WarehouseOf[s])
         \/ \E s \in Stocks : CancelledByCustomer(w, f, WarehouseOf[s])
         \/ \E status \in { "shipped", "cancellation processed" } : UpdateFulfillment(w, f, status)
    \/ Step(w)
    \/ DeadlockDetected(w)

Spec == Init /\ [][Next]_vars

\* A worker runs its call to the end, PostgreSQL looks for deadlocks.
FairSpec ==
    /\ Spec
    /\ \A w \in Workers : WF_vars(Step(w)) /\ WF_vars(DeadlockDetected(w))

-----------------------------------------------------------------------------
(* Properties.                                                             *)

\* The fulfilled items, as << fulfillment, index >>, that were not returned.
Shipments ==
    UNION { { f } \X DOMAIN db.fulfillment[f].lines :
              f \in { g \in DOMAIN db.fulfillment :
                        db.fulfillment[g].status \in Standing } }

ItemOf(p) == db.fulfillment[p[1]].lines[p[2]]

Shipped(l) == SumFunctionOnSet([ p \in Shipments |-> ItemOf(p).quantity ],
                               { p \in Shipments : ItemOf(p).line = l })

ShippedFrom(s) == SumFunctionOnSet([ p \in Shipments |-> ItemOf(p).quantity ],
                                   { p \in Shipments : ItemOf(p).stock = s })

Reserved(l) == SumFunctionOnSet(db.allocated, RowsOf({ l }, db.allocated))

\* No call is working on the order.
Settled(o) == \A w \in Workers : request[w].order # o

\* allocate_stock and decrease_stock: no more of a stock is allocated than
\* there is of it, whatever fulfillments, failures and cancellations of
\* orders there are while allocations are made.
NoOverAllocation ==
    \A s \in Stocks : AllocatedIn(s, db.allocated) <= db.quantity[s]

\* decrease_stock: as long as nothing is returned, a stock has lost exactly
\* what the fulfillments say was taken from it; no decrease is lost, and one
\* that was rolled back leaves no trace.
ShippedFromStock ==
    \A s \in Stocks : db.quantity[s] + ShippedFrom(s) = Initial[s]

\* allocate_stock, deallocate_stock and decrease_stock together: what is
\* allocated to a line of a placed order is all that is still to be shipped
\* of it or, as once the order was canceled, nothing: never a part, also when
\* a line of a fulfillment failed or came from another stock.
ReservedUntilShipped ==
    \A l \in Lines : db.status[OrderOf[l]] # "absent" =>
                       Reserved(l) \in { 0, Positive(Ordered[l] - Shipped(l)) }

\* cancel_order: a canceled order has no stock allocated, although a
\* fulfillment of it may be under way, fail, and roll back what it released.
CanceledHoldsNothing ==
    \A o \in Orders : db.status[o] = "canceled" => \A l \in LinesOf(o) : Reserved(l) = 0

\* The row locks of all these calls: every call ends, the deadlocks that two
\* calls can get into are resolved.
CallsEnd == \A w \in Workers : request[w].phase # "idle" ~> request[w].phase = "idle"

\* OrderFulfill.clean_lines: "Only %(quantity)d item remaining to fulfill".
FulfilledWithinOrdered == \A l \in Lines : Shipped(l) <= Ordered[l]

\* The tests of create_fulfillments: when the stock does not suffice there
\* is no fulfillment.
NoEmptyFulfillment == \A f \in DOMAIN db.fulfillment : db.fulfillment[f].lines # << >>

\* OrderStatus.CANCELED: "permanently canceled order".
CanceledForGood ==
    [][ \A o \in Orders : db.status[o] = "canceled" => db'.status[o] = "canceled" ]_vars

\* restock_fulfillment_lines: "Return products to stocks", those that were
\* taken from them.
ReturnedWereShipped == SumFunctionOnSet(db.quantity, Stocks) <= SumFunctionOnSet(Initial, Stocks)

\* The tests of draftOrderComplete: an order whose stock is not there stays a
\* draft; once no call works on it, one that left draft has its stock.
PlacedHasStock ==
    \A o \in Drafts : Settled(o) /\ db.status[o] = "unfulfilled" =>
                        \A l \in LinesOf(o) : Reserved(l) = Ordered[l]

\* OrderStatus.FULFILLED: "order with all items marked as fulfilled".
FulfilledWhenAllShipped ==
    \A o \in Orders :
      Settled(o) /\ (\A l \in LinesOf(o) : Shipped(l) = Ordered[l]) => db.status[o] = "fulfilled"
=============================================================================
