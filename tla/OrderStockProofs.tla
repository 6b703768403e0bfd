-------------------------- MODULE OrderStockProofs --------------------------
(***************************************************************************)
(* Proofs about OrderStock: the types of the rows, of what a transaction   *)
(* has written and of a call's own state; who holds which lock and what    *)
(* that says of the rows a transaction has written; the stock that is      *)
(* allocated, shipped and released.                                        *)
(***************************************************************************)
EXTENDS OrderStock, FunctionSums, SequenceTheorems

-----------------------------------------------------------------------------
(* The types.                                                              *)

Fields ==
    { "phase", "then", "order", "fulfillment", "warehouse", "items", "done", "sums",
      "loaded", "status", "final", "want", "kept", "base" }

\* The rows of a table, all of them or some.
TableOK(table, rows) ==
    /\ table = "quantity" => \A s \in DOMAIN rows : s \in Stocks /\ rows[s] \in Nat
    /\ table = "allocated" => \A k \in DOMAIN rows : k \in Lines \X Stocks /\ rows[k] \in Nat
    /\ table = "fulfilled" => \A l \in DOMAIN rows : l \in Lines /\ rows[l] \in Int
    /\ table = "status" => \A o \in DOMAIN rows : o \in Orders /\ rows[o] \in OrderStatus
    /\ table = "fulfillment" => \A f \in DOMAIN rows : rows[f] \in FulfillmentRow

WritesOK(x) == DOMAIN x = Tables /\ \A table \in Tables : TableOK(table, x[table])

DbOK(d) ==
    /\ WritesOK(d)
    /\ d.quantity \in [ Stocks -> Nat ]
    /\ d.fulfilled \in [ Lines -> Int ]
    /\ d.status \in [ Orders -> OrderStatus ]

\* What the fields hold whatever the phase.
FieldsOK(r) ==
    /\ DOMAIN r = Fields
    /\ r.phase \in Phases
    /\ r.then \in { "idle", "sum", "save", "find" }
    /\ r.items \in Seq(Item)
    /\ r.done \in Seq(Item)
    /\ r.status \in OrderStatus
    /\ r.final \in FulfillmentStatus
    /\ r.phase # "idle" => r.order \in Orders
    /\ \A s \in DOMAIN r.sums : s \in Stocks /\ r.sums[s] \in Nat
    /\ \A l \in DOMAIN r.loaded : l \in Lines /\ r.loaded[l] \in Int
    /\ WritesOK(r.base)

\* What a phase finds in them: an item to work on, of a line that is loaded
\* and of a stock; each loaded line among those that are given back.
PhaseOK(r) ==
    /\ r.phase \in { "place", "sum", "allocate", "increase" } \cup LinePhases => r.items # << >>
    /\ r.then = "sum" => r.phase = "commit" /\ r.items # << >>
    /\ r.phase \in { "clean", "line" } \cup LinePhases =>
         /\ r.then = "idle" /\ r.final \in Standing
         /\ \A i \in DOMAIN r.items : r.items[i].stock \in Stocks
    /\ r.phase \in { "line" } \cup LinePhases =>
         \A i \in DOMAIN r.items : r.items[i].line \in DOMAIN r.loaded
    /\ r.phase = "read" => DOMAIN r.loaded = {}
    /\ r.phase = "increase" => r.items[1].stock \in Stocks
    /\ r.phase \in { "restock", "increase", "unfulfill" } =>
         \A l \in DOMAIN r.loaded :
           \/ \E i \in DOMAIN r.done : r.done[i].line = l
           \/ r.phase = "increase" /\ r.items[1].line = l

\* The fulfillment that is canceled or saved is there.
FulfillmentOK(r, fulfillments) ==
    r.phase \in { "read", "restock", "increase", "unfulfill", "save" } \/ r.then = "save"
      => r.fulfillment \in fulfillments

RequestOK(r, fulfillments) == FieldsOK(r) /\ PhaseOK(r) /\ FulfillmentOK(r, fulfillments)

Typing ==
    /\ DbOK(db)
    /\ DOMAIN txn = Workers /\ DOMAIN request = Workers /\ DOMAIN holds = Workers
    /\ \A w \in Workers : WritesOK(txn[w])
    /\ \A w \in Workers : RequestOK(request[w], DOMAIN db.fulfillment)
    /\ calls \in 0 .. MaxCalls

-----------------------------------------------------------------------------
(* Rows and sequences.                                                     *)

LEMMA OverRows ==
    ASSUME NEW written, NEW rows
    PROVE  /\ DOMAIN Over(written, rows) = DOMAIN written \cup DOMAIN rows
           /\ \A k \in DOMAIN written : Over(written, rows)[k] = written[k]
           /\ \A k \in DOMAIN rows \ DOMAIN written : Over(written, rows)[k] = rows[k]
  BY DEF Over

LEMMA OneRow ==
    ASSUME NEW key, NEW row
    PROVE  DOMAIN Row(key, row) = { key } /\ Row(key, row)[key] = row
  BY DEF Row

LEMMA OverTyped ==
    ASSUME NEW table, NEW written, NEW rows, TableOK(table, written), TableOK(table, rows)
    PROVE  TableOK(table, Over(written, rows))
<1>1. PICK both : both = Over(written, rows)
  OBVIOUS
<1>2. \A k \in DOMAIN both : \/ k \in DOMAIN written /\ both[k] = written[k]
                             \/ k \in DOMAIN rows /\ both[k] = rows[k]
  BY <1>1 DEF Over
<1>3. TableOK(table, both)
  BY <1>2 DEF TableOK
<1>4. QED
  BY <1>1, <1>3

LEMMA SeenTyped ==
    ASSUME Typing, NEW w \in Workers, NEW table \in Tables
    PROVE  TableOK(table, Seen(w, table))
  BY OverTyped DEF Typing, DbOK, WritesOK, Seen

LEMMA WrittenTyped ==
    ASSUME Typing, NEW w \in Workers, NEW table \in Tables, NEW rows, TableOK(table, rows),
           Writes(w, table, rows)
    PROVE  \E x : /\ txn' = [ txn EXCEPT ![w] = x ]
                  /\ x = [ txn[w] EXCEPT ![table] = Over(rows, txn[w][table]) ]
                  /\ WritesOK(x)
<1>1. PICK x : x = [ txn[w] EXCEPT ![table] = Over(rows, txn[w][table]) ]
  OBVIOUS
<1>2. txn' = [ txn EXCEPT ![w] = x ]
  BY <1>1 DEF Writes
<1>3. WritesOK(x)
  <2>1. DOMAIN txn[w] = Tables /\ \A t \in Tables : TableOK(t, txn[w][t])
    BY DEF Typing, WritesOK
  <2>2. TableOK(table, Over(rows, txn[w][table]))
    BY <2>1, OverTyped
  <2>3. DOMAIN x = Tables /\ x[table] = Over(rows, txn[w][table])
        /\ \A t \in Tables \ { table } : x[t] = txn[w][t]
    BY <1>1, <2>1
  <2>4. \A t \in Tables : TableOK(t, x[t])
    BY <2>1, <2>2, <2>3
  <2>5. QED
    BY <2>3, <2>4 DEF WritesOK
<1>4. QED
  BY <1>1, <1>2, <1>3

LEMMA NoWritesOK == WritesOK(NoWrites)
  BY DEF WritesOK, NoWrites, NoRows, TableOK, Tables

LEMMA IdleOK ==
    ASSUME NEW fulfillments
    PROVE  RequestOK(Idle, fulfillments) /\ Idle.phase = "idle"
<1>1. FieldsOK(Idle)
  BY NoWritesOK DEF FieldsOK, Idle, Fields, Phases, OrderStatus, FulfillmentStatus, NoRows
<1>2. PhaseOK(Idle) /\ FulfillmentOK(Idle, fulfillments) /\ Idle.phase = "idle"
  BY DEF PhaseOK, FulfillmentOK, Idle, LinePhases
<1>3. QED
  BY <1>1, <1>2 DEF RequestOK

LEMMA FirstItem ==
    ASSUME NEW items \in Seq(Item), items # << >>
    PROVE  /\ Head(items) \in Item /\ Head(items) = items[1] /\ 1 \in DOMAIN items
           /\ Tail(items) \in Seq(Item)
           /\ \A i \in DOMAIN Tail(items) : i + 1 \in DOMAIN items /\ Tail(items)[i] = items[i + 1]
  OBVIOUS

\* A step of one worker, that may add fulfillments.
LEMMA DbStepTyped ==
    ASSUME Typing, NEW w \in Workers, NEW x, NEW r, NEW d, WritesOK(x), DbOK(d),
           RequestOK(r, DOMAIN d.fulfillment),
           DOMAIN db.fulfillment \subseteq DOMAIN d.fulfillment,
           txn' = txn \/ txn' = [ txn EXCEPT ![w] = x ],
           request' = [ request EXCEPT ![w] = r ],
           db' = d, calls' \in 0 .. MaxCalls, DOMAIN holds' = Workers
    PROVE  Typing'
<1>1. DOMAIN txn' = Workers /\ DOMAIN request' = Workers
  <2>1. DOMAIN txn = Workers /\ DOMAIN request = Workers
    BY DEF Typing
  <2>2. DOMAIN [ txn EXCEPT ![w] = x ] = DOMAIN txn
    OBVIOUS
  <2>3. DOMAIN txn' = DOMAIN txn
    BY <2>2
  <2>4. QED
    BY <2>1, <2>3
<1>2. /\ \A v \in Workers : txn'[v] = x \/ txn'[v] = txn[v]
      /\ \A v \in Workers : request'[v] = IF v = w THEN r ELSE request[v]
  BY DEF Typing
<1>3. \A v \in Workers : WritesOK(txn'[v]) /\ RequestOK(request'[v], DOMAIN d.fulfillment)
  BY <1>2 DEF Typing, RequestOK, FulfillmentOK
<1>4. DbOK(db)'
  <2>1. WritesOK(db)'
    BY DEF DbOK, WritesOK, TableOK
  <2>2. QED
    BY <2>1 DEF DbOK
<1>5. \A v \in Workers : WritesOK(txn[v])'
  <2>1. SUFFICES ASSUME NEW v \in Workers PROVE WritesOK(txn[v])'
    OBVIOUS
  <2>2. PICK k : k = txn'[v] /\ WritesOK(k)
    BY <1>3
  <2>3. QED
    BY <2>2 DEF WritesOK, TableOK
<1>6. \A v \in Workers : RequestOK(request[v], DOMAIN db.fulfillment)'
  <2>1. SUFFICES ASSUME NEW v \in Workers PROVE RequestOK(request[v], DOMAIN db.fulfillment)'
    OBVIOUS
  <2>2. PICK k : k = request'[v] /\ RequestOK(k, DOMAIN d.fulfillment)
    BY <1>3
  <2>3. FieldsOK(k) /\ PhaseOK(k) /\ FulfillmentOK(k, DOMAIN db'.fulfillment)
    BY <2>2 DEF RequestOK
  <2>4. FieldsOK(request[v])'
    BY <2>2, <2>3 DEF FieldsOK, WritesOK, TableOK
  <2>5. PhaseOK(request[v])'
    BY <2>2, <2>3 DEF PhaseOK
  <2>6. FulfillmentOK(request[v], DOMAIN db.fulfillment)'
    BY <2>2, <2>3 DEF FulfillmentOK
  <2>7. QED
    BY <2>4, <2>5, <2>6 DEF RequestOK
<1>7. QED
  BY <1>1, <1>4, <1>5, <1>6 DEF Typing

\* One that leaves the committed rows alone.
LEMMA StepTyped ==
    ASSUME Typing, NEW w \in Workers, NEW x, NEW r, WritesOK(x),
           RequestOK(r, DOMAIN db.fulfillment),
           txn' = txn \/ txn' = [ txn EXCEPT ![w] = x ],
           request' = [ request EXCEPT ![w] = r ],
           db' = db, calls' \in 0 .. MaxCalls, DOMAIN holds' = Workers
    PROVE  Typing'
<1>1. DbOK(db)
  BY DEF Typing
<1>2. QED
  BY <1>1, DbStepTyped

-----------------------------------------------------------------------------
(* Each action keeps the types.                                            *)

\* What the actions that leave the rows alone have in common.
LEMMA RequestTyped ==
    ASSUME Typing, NEW w \in Workers, NEW r, RequestOK(r, DOMAIN db.fulfillment),
           request' = [ request EXCEPT ![w] = r ],
           db' = db, txn' = txn, calls' \in 0 .. MaxCalls, DOMAIN holds' = Workers
    PROVE  Typing'
<1>1. WritesOK(txn[w])
  BY DEF Typing
<1>2. QED
  BY <1>1, StepTyped

LEMMA LockTyped ==
    ASSUME Typing, NEW w \in Workers, Lock(w)
    PROVE  Typing'
<1>1. PICK r : r = [ request[w] EXCEPT !.want = Tail(@) ]
  OBVIOUS
<1>2. request' = [ request EXCEPT ![w] = r ] /\ DOMAIN holds' = Workers
      /\ db' = db /\ txn' = txn /\ calls' = calls
  BY <1>1 DEF Lock, Typing
<1>3. RequestOK(request[w], DOMAIN db.fulfillment)
  BY DEF Typing
<1>4. /\ DOMAIN r = Fields
      /\ \A field \in Fields \ { "want" } : r[field] = request[w][field]
  BY <1>1, <1>3 DEF RequestOK, FieldsOK
<1>5. RequestOK(r, DOMAIN db.fulfillment)
  BY <1>3, <1>4 DEF RequestOK, FieldsOK, PhaseOK, FulfillmentOK, Fields
<1>6. QED
  <2>1. calls' \in 0 .. MaxCalls
    BY <1>2 DEF Typing
  <2>2. QED
    BY <1>2, <1>5, <2>1, RequestTyped

LEMMA CallFailsTyped ==
    ASSUME Typing, NEW w \in Workers, CallFails(w)
    PROVE  Typing'
<1>1. /\ request' = [ request EXCEPT ![w] = Idle ]
      /\ txn' = [ txn EXCEPT ![w] = NoWrites ]
      /\ db' = db /\ calls' = calls /\ DOMAIN holds' = Workers
  BY DEF CallFails, Continue, Typing
<1>2. calls' \in 0 .. MaxCalls
  BY <1>1 DEF Typing
<1>3. QED
  BY <1>1, <1>2, IdleOK, NoWritesOK, StepTyped

LEMMA LineFailsTyped ==
    ASSUME Typing, NEW w \in Workers, request[w].phase \in LinePhases, LineFails(w)
    PROVE  Typing'
<1>1. PICK r : r = [ request[w] EXCEPT !.phase = "line", !.items = Tail(@), !.want = << >> ]
  OBVIOUS
<1>2. PICK x : x = request[w].base
  OBVIOUS
<1>3. request' = [ request EXCEPT ![w] = r ] /\ txn' = [ txn EXCEPT ![w] = x ]
      /\ db' = db /\ calls' = calls /\ DOMAIN holds' = Workers
  BY <1>1, <1>2 DEF LineFails, Continue, Typing
<1>4. FieldsOK(request[w]) /\ PhaseOK(request[w]) /\ FulfillmentOK(request[w], DOMAIN db.fulfillment)
  BY DEF Typing, RequestOK
<1>5. WritesOK(x)
  BY <1>2, <1>4 DEF FieldsOK
<1>6. /\ DOMAIN r = Fields /\ r.phase = "line" /\ r.items = Tail(request[w].items)
      /\ \A field \in Fields \ { "want", "phase", "items" } : r[field] = request[w][field]
  BY <1>1, <1>4 DEF FieldsOK, Fields
<1>7. request[w].items # << >>
  BY <1>4 DEF PhaseOK
<1>8. FieldsOK(r)
  <2>1. Tail(request[w].items) \in Seq(Item)
    BY <1>4, <1>7, FirstItem DEF FieldsOK
  <2>2. QED
    BY <1>4, <1>6, <2>1 DEF FieldsOK, Fields, Phases, LinePhases
<1>9. PhaseOK(r)
  <2>1. \A i \in DOMAIN r.items : r.items[i].stock \in Stocks
                                  /\ r.items[i].line \in DOMAIN r.loaded
    BY <1>4, <1>6, <1>7, FirstItem DEF FieldsOK, PhaseOK, Fields
  <2>2. r.then = "idle" /\ r.final \in Standing
    BY <1>4, <1>6 DEF PhaseOK, LinePhases, Fields
  <2>3. QED
    BY <1>6, <2>1, <2>2 DEF PhaseOK, LinePhases
<1>10. FulfillmentOK(r, DOMAIN db.fulfillment)
  BY <1>4, <1>6 DEF FulfillmentOK, Fields, LinePhases
<1>11. QED
  <2>1. calls' \in 0 .. MaxCalls
    BY <1>3 DEF Typing
  <2>2. QED
    BY <1>3, <1>5, <1>8, <1>9, <1>10, <2>1, StepTyped DEF RequestOK

\* The items of an order are one for each of its lines.
LEMMA ToAllocateIs ==
    ASSUME NEW o \in Orders
    PROVE  /\ ToAllocate(o) \in Seq(Item)
           /\ ToAllocate(o) # << >>
           /\ \A i \in DOMAIN ToAllocate(o) :
                /\ ToAllocate(o)[i].line \in LinesOf(o)
                /\ ToAllocate(o)[i].quantity = Ordered[ToAllocate(o)[i].line]
           /\ \A i, j \in DOMAIN ToAllocate(o) :
                ToAllocate(o)[i].line = ToAllocate(o)[j].line => i = j
           /\ \A l \in LinesOf(o) :
                \E i \in DOMAIN ToAllocate(o) : ToAllocate(o)[i].line = l
<1>1. PICK S : S = LinesOf(o)
  OBVIOUS
<1>2. S \subseteq Lines /\ S # {} /\ IsFiniteSet(S)
  BY <1>1, FS_Subset, StockAssumption DEF LinesOf
<1>3. PICK n : n = Cardinality(S)
  OBVIOUS
<1>4. n \in Nat /\ n # 0 /\ ExistsBijection(1 .. n, S)
  BY <1>2, <1>3, FS_CardinalityType, FS_EmptySet
<1>5. \E f \in [ 1 .. n -> S ] : IsInjective(f)
  BY <1>4 DEF ExistsBijection, Bijection, Injection, Surjection, IsInjective
<1>6. PICK ls : ls = SetToSeq(S)
  OBVIOUS
<1>7. ls \in [ 1 .. n -> S ] /\ IsInjective(ls)
  BY <1>3, <1>5, <1>6 DEF SetToSeq
<1>8. PICK items : items = ToAllocate(o)
  OBVIOUS
<1>9. /\ DOMAIN items = 1 .. n
      /\ \A i \in 1 .. n : /\ items[i] = [ line |-> ls[i], stock |-> None, quantity |-> Ordered[ls[i]] ]
  BY <1>1, <1>6, <1>7, <1>8 DEF ToAllocate
<1>10. \A i \in 1 .. n : items[i] \in Item
  <2>1. \A i \in 1 .. n : ls[i] \in Lines /\ Ordered[ls[i]] \in Nat
    BY <1>2, <1>7, StockAssumption
  <2>2. QED
    BY <1>9, <2>1 DEF Item
<1>11. items \in Seq(Item)
  <2>1. items = [ i \in 1 .. n |-> [ line |-> ls[i], stock |-> None, quantity |-> Ordered[ls[i]] ] ]
    BY <1>1, <1>6, <1>7, <1>8 DEF ToAllocate
  <2>2. items \in [ 1 .. n -> Item ]
    BY <1>10, <2>1
  <2>3. QED
    BY <1>4, <2>2
<1>12. items # << >>
  BY <1>4, <1>9
<1>13. \A i \in DOMAIN items : items[i].line \in S /\ items[i].quantity = Ordered[items[i].line]
  BY <1>7, <1>9
<1>14. \A i, j \in DOMAIN items : items[i].line = items[j].line => i = j
  BY <1>7, <1>9 DEF IsInjective
<1>15. \A l \in S : \E i \in DOMAIN items : items[i].line = l
  <2>1. ls \in Injection(1 .. n, S)
    BY <1>7 DEF Injection
  <2>2. Cardinality(1 .. n) = n
    BY <1>4, FS_Interval
  <2>3. ls \in Surjection(1 .. n, S)
    BY <1>2, <1>3, <2>1, <2>2, FS_Injection
  <2>4. QED
    BY <1>9, <2>3 DEF Surjection
<1>16. QED
  BY <1>1, <1>8, <1>11, <1>12, <1>13, <1>14, <1>15

LEMMA CheckoutOrderTyped ==
    ASSUME Typing, NEW w \in Workers, NEW o \in Orders, CheckoutOrder(w, o)
    PROVE  Typing'
<1>1. PICK r : r = [ Idle EXCEPT !.phase = "sum", !.order = o, !.items = ToAllocate(o) ]
  OBVIOUS
<1>2. /\ request' = [ request EXCEPT ![w] = r ] /\ Writes(w, "status", Row(o, "unfulfilled"))
      /\ db' = db /\ calls' = calls + 1 /\ calls < MaxCalls /\ DOMAIN holds' = Workers
  BY <1>1 DEF CheckoutOrder, Call, Continue, Typing
<1>3. FieldsOK(Idle) /\ DOMAIN Idle = Fields
  BY IdleOK DEF RequestOK, FieldsOK
<1>4. RequestOK(r, DOMAIN db.fulfillment)
  <2>1. /\ DOMAIN r = Fields /\ r.phase = "sum" /\ r.then = "idle" /\ r.order = o
        /\ r.items = ToAllocate(o)
        /\ \A field \in Fields \ { "phase", "order", "items" } : r[field] = Idle[field]
    BY <1>1, <1>3 DEF Fields, Idle
  <2>2. FieldsOK(r)
    <3>1. r.items \in Seq(Item)
      BY <2>1, ToAllocateIs
    <3>2. QED
      BY ONLY <1>3, <2>1, <3>1, o \in Orders DEF FieldsOK, Fields, Phases
  <2>3. PhaseOK(r) /\ FulfillmentOK(r, DOMAIN db.fulfillment)
    BY <2>1, ToAllocateIs DEF PhaseOK, FulfillmentOK, LinePhases
  <2>4. QED
    BY <2>2, <2>3 DEF RequestOK
<1>5. PICK x : txn' = [ txn EXCEPT ![w] = x ] /\ WritesOK(x)
  <2>1. TableOK("status", Row(o, "unfulfilled"))
    BY DEF TableOK, OrderStatus, Row
  <2>2. QED
    BY <1>2, <2>1, WrittenTyped DEF Tables
<1>6. calls' \in 0 .. MaxCalls
  BY <1>2, StockAssumption DEF Typing
<1>7. QED
  BY <1>2, <1>4, <1>5, <1>6, StepTyped

LEMMA DraftOrderCompleteTyped ==
    ASSUME Typing, NEW w \in Workers, NEW o \in Orders, DraftOrderComplete(w, o)
    PROVE  Typing'
<1>1. PICK r : r = [ Idle EXCEPT !.phase = "place", !.order = o, !.items = ToAllocate(o),
                                 !.want = << OrderLock(o) >> ]
  OBVIOUS
<1>2. /\ request' = [ request EXCEPT ![w] = r ] /\ txn' = txn /\ holds' = holds
      /\ db' = db /\ calls' = calls + 1 /\ calls < MaxCalls
  BY <1>1 DEF DraftOrderComplete, Call, Continue
<1>3. FieldsOK(Idle) /\ DOMAIN Idle = Fields
  BY IdleOK DEF RequestOK, FieldsOK
<1>4. RequestOK(r, DOMAIN db.fulfillment)
  <2>1. /\ DOMAIN r = Fields /\ r.phase = "place" /\ r.then = "idle" /\ r.order = o
        /\ r.items = ToAllocate(o)
        /\ \A field \in Fields \ { "phase", "order", "items", "want" } : r[field] = Idle[field]
    BY <1>1, <1>3 DEF Fields, Idle
  <2>2. FieldsOK(r)
    <3>1. r.items \in Seq(Item)
      BY <2>1, ToAllocateIs
    <3>2. QED
      BY ONLY <1>3, <2>1, <3>1, o \in Orders DEF FieldsOK, Fields, Phases
  <2>3. PhaseOK(r) /\ FulfillmentOK(r, DOMAIN db.fulfillment)
    BY <2>1, ToAllocateIs DEF PhaseOK, FulfillmentOK, LinePhases
  <2>4. QED
    BY <2>2, <2>3 DEF RequestOK
<1>5. QED
  <2>1. calls' \in 0 .. MaxCalls /\ DOMAIN holds' = Workers
    BY <1>2, StockAssumption DEF Typing
  <2>2. QED
    BY <1>2, <1>4, <2>1, RequestTyped

LEMMA SaveDraftTyped ==
    ASSUME Typing, NEW w \in Workers, SaveDraft(w)
    PROVE  Typing'
<1>1. PICK q : q = request[w]
  OBVIOUS
<1>2. PICK r : r = [ q EXCEPT !.phase = "sum" ]
  OBVIOUS
<1>3. PICK d : d = [ db EXCEPT !.status[q.order] = "unfulfilled" ]
  OBVIOUS
<1>4. /\ q.phase = "place" /\ request' = [ request EXCEPT ![w] = r ]
      /\ db' = d /\ txn' = txn /\ calls' = calls /\ DOMAIN holds' = Workers
  BY <1>1, <1>2, <1>3 DEF SaveDraft, At, Typing
<1>5. FieldsOK(q) /\ PhaseOK(q) /\ FulfillmentOK(q, DOMAIN db.fulfillment)
  BY <1>1 DEF Typing, RequestOK
<1>6. /\ DOMAIN r = Fields /\ r.phase = "sum"
      /\ \A field \in Fields \ { "phase" } : r[field] = q[field]
  BY <1>2, <1>5 DEF FieldsOK, Fields
<1>7. RequestOK(r, DOMAIN db.fulfillment)
  <2>1. FieldsOK(r)
    BY <1>4, <1>5, <1>6 DEF FieldsOK, Fields, Phases
  <2>2. PhaseOK(r) /\ FulfillmentOK(r, DOMAIN db.fulfillment)
    BY <1>4, <1>5, <1>6 DEF PhaseOK, FulfillmentOK, LinePhases, Fields
  <2>3. QED
    BY <2>1, <2>2 DEF RequestOK
<1>8. DOMAIN db = Tables /\ db.status \in [ Orders -> OrderStatus ] /\ q.order \in Orders
  BY <1>4, <1>5 DEF Typing, DbOK, WritesOK, FieldsOK
<1>9. /\ DOMAIN d = Tables /\ d.status = [ db.status EXCEPT ![q.order] = "unfulfilled" ]
      /\ \A t \in Tables \ { "status" } : d[t] = db[t]
  BY <1>3, <1>8 DEF Tables
<1>10. d.status \in [ Orders -> OrderStatus ]
  BY <1>8, <1>9 DEF OrderStatus
<1>11. WritesOK(d) /\ DbOK(d)
  <2>1. DbOK(db) /\ WritesOK(db)
    BY DEF Typing, DbOK
  <2>2. \A t \in Tables : TableOK(t, d[t])
    <3>1. TableOK("status", d.status)
      BY <1>10 DEF TableOK
    <3>2. QED
      BY <1>9, <2>1, <3>1 DEF WritesOK
  <2>3. WritesOK(d)
    BY <1>9, <2>2 DEF WritesOK
  <2>4. QED
    BY <1>9, <1>10, <2>1, <2>3 DEF DbOK, Tables
<1>12. QED
  <2>1. calls' \in 0 .. MaxCalls /\ WritesOK(txn[w]) /\ d.fulfillment = db.fulfillment
    BY <1>4, <1>9 DEF Typing, Tables
  <2>2. RequestOK(r, DOMAIN d.fulfillment)
    BY <1>7, <2>1
  <2>3. QED
    BY <1>4, <1>11, <2>1, <2>2, DbStepTyped

\* What staff ask for are items of the order's lines, each of a stock of its
\* line and one at least of it; two of them are of different lines.
LEMMA RequestedIs ==
    ASSUME NEW o, NEW h, NEW items \in Requested(o, h)
    PROVE  /\ items \in Seq(Item)
           /\ \A i \in DOMAIN items : /\ items[i].line \in LinesOf(o)
                                      /\ items[i].stock \in Stocks
                                      /\ items[i].quantity \in Nat \ { 0 }
           /\ \A i, j \in DOMAIN items : items[i].line = items[j].line => i = j
<1> DEFINE of(l) == { [ line |-> l, stock |-> s, quantity |-> n ] :
                        s \in { t \in StocksOf[l] : WarehouseOf[t] = h }, n \in 1 .. Ordered[l] }
<1>1. ASSUME NEW l \in LinesOf(o), NEW i \in of(l)
      PROVE  i \in Item /\ i.line = l /\ i.stock \in Stocks /\ i.quantity \in Nat \ { 0 }
  <2>1. l \in Lines /\ StocksOf[l] \subseteq Stocks /\ Ordered[l] \in Nat
    BY StockAssumption DEF LinesOf
  <2>2. PICK s \in StocksOf[l], n \in 1 .. Ordered[l] :
            i = [ line |-> l, stock |-> s, quantity |-> n ]
    OBVIOUS
  <2>3. QED
    BY <2>1, <2>2 DEF Item
<1> HIDE DEF of
<1>2. CASE \E l \in LinesOf(o) : \E i \in of(l) : items = << i >>
  BY <1>1, <1>2
<1>3. CASE \E l, m \in LinesOf(o) : l # m /\ \E i \in of(l), j \in of(m) : items = << i, j >>
  <2>0. PICK l, m \in LinesOf(o) : l # m /\ \E i \in of(l), j \in of(m) : items = << i, j >>
    BY <1>3
  <2>1. PICK i \in of(l), j \in of(m) : items = << i, j >>
    BY <2>0
  <2>2. /\ i \in Item /\ i.line = l /\ i.stock \in Stocks /\ i.quantity \in Nat \ { 0 }
        /\ j \in Item /\ j.line = m /\ j.stock \in Stocks /\ j.quantity \in Nat \ { 0 }
    BY <1>1
  <2>3. DOMAIN items = { 1, 2 } /\ items[1] = i /\ items[2] = j /\ items \in Seq(Item)
    BY <2>1, <2>2
  <2>4. QED
    BY <2>0, <2>2, <2>3
<1>4. QED
  <2> USE DEF of
  <2>1. \/ \E i \in UNION { of(l) : l \in LinesOf(o) } : items = << i >>
        \/ \E p \in { q \in LinesOf(o) \X LinesOf(o) : q[1] # q[2] } :
             \E i \in of(p[1]), j \in of(p[2]) : items = << i, j >>
    BY DEF Requested
  <2> HIDE DEF of
  <2>2. QED
    BY <1>2, <1>3, <2>1

LEMMA OrderFulfillTyped ==
    ASSUME Typing, NEW w \in Workers, NEW o \in Orders, NEW h, NEW items \in Requested(o, h),
           NEW status \in Given,
           OrderFulfill(w, o, items, status)
    PROVE  Typing'
<1>1. PICK r : r = [ Idle EXCEPT !.phase = "clean", !.order = o, !.items = items,
                                 !.status = db.status[o], !.final = status ]
  OBVIOUS
<1>2. /\ request' = [ request EXCEPT ![w] = r ] /\ txn' = txn /\ holds' = holds
      /\ db' = db /\ calls' = calls + 1 /\ calls < MaxCalls
  BY <1>1 DEF OrderFulfill, Call, Continue
<1>3. FieldsOK(Idle) /\ DOMAIN Idle = Fields
  BY IdleOK DEF RequestOK, FieldsOK
<1>4. RequestOK(r, DOMAIN db.fulfillment)
  <2>1. /\ DOMAIN r = Fields /\ r.phase = "clean" /\ r.then = "idle" /\ r.order = o
        /\ r.items = items /\ r.status = db.status[o] /\ r.final = status
        /\ \A field \in Fields \ { "phase", "order", "items", "status", "final" } :
             r[field] = Idle[field]
    BY <1>1, <1>3 DEF Fields, Idle
  <2>2. db.status[o] \in OrderStatus /\ status \in Standing /\ status \in FulfillmentStatus
    BY StockAssumption DEF Typing, DbOK, Standing, FulfillmentStatus
  <2>3. FieldsOK(r)
    BY <1>3, <2>1, <2>2, RequestedIs DEF FieldsOK, Fields, Phases
  <2>4. PhaseOK(r) /\ FulfillmentOK(r, DOMAIN db.fulfillment)
    BY <2>1, <2>2, RequestedIs DEF PhaseOK, FulfillmentOK, LinePhases
  <2>5. QED
    BY <2>3, <2>4 DEF RequestOK
<1>5. QED
  <2>1. calls' \in 0 .. MaxCalls /\ DOMAIN holds' = Workers
    BY <1>2, StockAssumption DEF Typing
  <2>2. QED
    BY <1>2, <1>4, <2>1, RequestTyped

\* A call on a fulfillment that is there.
LEMMA FulfillmentCallTyped ==
    ASSUME Typing, NEW w \in Workers, NEW f \in DOMAIN db.fulfillment, NEW operation, NEW r,
           FieldsOK(r), r.phase \in { "read", "save" }, DOMAIN r.loaded = {}, r.then # "sum",
           r.fulfillment = f, Call(w, operation, r), UNCHANGED << db, txn, holds >>
    PROVE  Typing'
<1>1. PhaseOK(r) /\ FulfillmentOK(r, DOMAIN db.fulfillment)
  BY DEF PhaseOK, FulfillmentOK, LinePhases
<1>2. /\ request' = [ request EXCEPT ![w] = r ] /\ txn' = txn /\ holds' = holds
      /\ db' = db /\ calls' = calls + 1 /\ calls < MaxCalls
  BY DEF Call, Continue
<1>3. calls' \in 0 .. MaxCalls /\ DOMAIN holds' = Workers
  BY <1>2, StockAssumption DEF Typing
<1>4. QED
  BY <1>1, <1>2, <1>3, RequestTyped DEF RequestOK

LEMMA CancellingIs ==
    ASSUME Typing, NEW f \in DOMAIN db.fulfillment, NEW h
    PROVE  /\ FieldsOK(Cancelling(f, h))
           /\ Cancelling(f, h).phase = "read" /\ Cancelling(f, h).fulfillment = f
           /\ Cancelling(f, h).then = "idle" /\ DOMAIN Cancelling(f, h).loaded = {}
<1>1. PICK r : r = Cancelling(f, h)
  OBVIOUS
<1>2. FieldsOK(Idle) /\ DOMAIN Idle = Fields /\ DOMAIN Idle.loaded = {} /\ Idle.then = "idle"
  BY IdleOK DEF RequestOK, FieldsOK, Idle, NoRows
<1>3. db.fulfillment[f].order \in Orders
  BY DEF Typing, DbOK, WritesOK, TableOK, Tables, FulfillmentRow
<1>4. /\ DOMAIN r = Fields /\ r.phase = "read" /\ r.fulfillment = f
      /\ r.order = db.fulfillment[f].order
      /\ \A field \in Fields \ { "phase", "fulfillment", "order", "warehouse", "want" } :
           r[field] = Idle[field]
  BY <1>1, <1>2 DEF Cancelling, Fields, Idle
<1>5. FieldsOK(r)
  BY <1>2, <1>3, <1>4 DEF FieldsOK, Fields, Phases
<1>6. QED
  BY <1>1, <1>2, <1>4, <1>5 DEF Fields

LEMMA FulfillmentCancelTyped ==
    ASSUME Typing, NEW w \in Workers, NEW f \in DOMAIN db.fulfillment, NEW h,
           FulfillmentCancel(w, f, h)
    PROVE  Typing'
<1>1. PICK r : r = Cancelling(f, h)
  OBVIOUS
<1>2. Call(w, "cancel fulfillment", r) /\ UNCHANGED << db, txn, holds >>
  BY <1>1 DEF FulfillmentCancel
<1>3. /\ FieldsOK(r) /\ r.phase = "read" /\ r.fulfillment = f
      /\ r.then = "idle" /\ DOMAIN r.loaded = {}
  BY <1>1, CancellingIs
<1>4. QED
  BY <1>2, <1>3, FulfillmentCallTyped

LEMMA CancelledByCustomerTyped ==
    ASSUME Typing, NEW w \in Workers, NEW f \in DOMAIN db.fulfillment, NEW h,
           CancelledByCustomer(w, f, h)
    PROVE  Typing'
<1>1. PICK c : c = Cancelling(f, h)
  OBVIOUS
<1>2. PICK r : r = [ c EXCEPT !.then = "save", !.final = "cancelled by customer" ]
  OBVIOUS
<1>3. Call(w, "cancel by customer", r) /\ UNCHANGED << db, txn, holds >>
  BY <1>1, <1>2 DEF CancelledByCustomer
<1>4. FieldsOK(c) /\ c.phase = "read" /\ c.fulfillment = f /\ DOMAIN c.loaded = {}
  BY <1>1, CancellingIs
<1>5. /\ DOMAIN r = Fields /\ r.then = "save" /\ r.final = "cancelled by customer"
      /\ \A field \in Fields \ { "then", "final" } : r[field] = c[field]
  BY <1>2, <1>4 DEF FieldsOK, Fields
<1>6. FieldsOK(r)
  BY <1>4, <1>5 DEF FieldsOK, Fields, FulfillmentStatus
<1>7. r.phase = "read" /\ r.fulfillment = f /\ DOMAIN r.loaded = {}
  BY <1>4, <1>5 DEF Fields
<1>8. QED
  BY <1>3, <1>5, <1>6, <1>7, FulfillmentCallTyped

LEMMA UpdateFulfillmentTyped ==
    ASSUME Typing, NEW w \in Workers, NEW f \in DOMAIN db.fulfillment,
           NEW status \in FulfillmentStatus, UpdateFulfillment(w, f, status)
    PROVE  Typing'
<1>1. PICK r : r = [ Idle EXCEPT !.phase = "save", !.fulfillment = f, !.final = status,
                                 !.order = db.fulfillment[f].order,
                                 !.want = << FulfillmentLock(f) >> ]
  OBVIOUS
<1>2. Call(w, "update fulfillment", r) /\ UNCHANGED << db, txn, holds >>
  BY <1>1 DEF UpdateFulfillment
<1>3. FieldsOK(Idle) /\ DOMAIN Idle = Fields /\ DOMAIN Idle.loaded = {} /\ Idle.then = "idle"
  BY IdleOK DEF RequestOK, FieldsOK, Idle, NoRows
<1>4. db.fulfillment[f].order \in Orders
  BY DEF Typing, DbOK, WritesOK, TableOK, Tables, FulfillmentRow
<1>5. /\ DOMAIN r = Fields /\ r.phase = "save" /\ r.fulfillment = f
      /\ r.order = db.fulfillment[f].order /\ r.final = status
      /\ \A field \in Fields \ { "phase", "fulfillment", "order", "final", "want" } :
           r[field] = Idle[field]
  BY <1>1, <1>3 DEF Fields, Idle
<1>6. FieldsOK(r)
  BY <1>3, <1>4, <1>5 DEF FieldsOK, Fields, Phases
<1>7. DOMAIN r.loaded = {} /\ r.then = "idle"
  BY <1>3, <1>5 DEF Fields
<1>8. QED
  BY <1>2, <1>5, <1>6, <1>7, FulfillmentCallTyped

LEMMA OrderCancelTyped ==
    ASSUME Typing, NEW w \in Workers, NEW o \in Orders, OrderCancel(w, o)
    PROVE  Typing'
<1>1. PICK r : r = [ Idle EXCEPT !.phase = "find", !.order = o ]
  OBVIOUS
<1>2. /\ request' = [ request EXCEPT ![w] = r ] /\ txn' = txn /\ holds' = holds
      /\ db' = db /\ calls' = calls + 1 /\ calls < MaxCalls
  BY <1>1 DEF OrderCancel, Call, Continue
<1>3. FieldsOK(Idle) /\ DOMAIN Idle = Fields
  BY IdleOK DEF RequestOK, FieldsOK
<1>4. /\ DOMAIN r = Fields /\ r.phase = "find" /\ r.then = "idle" /\ r.order = o
      /\ \A field \in Fields \ { "phase", "order" } : r[field] = Idle[field]
  BY <1>1, <1>3 DEF Fields, Idle
<1>5. RequestOK(r, DOMAIN db.fulfillment)
  <2>1. FieldsOK(r)
    BY <1>3, <1>4 DEF FieldsOK, Fields, Phases
  <2>2. PhaseOK(r) /\ FulfillmentOK(r, DOMAIN db.fulfillment)
    BY <1>4 DEF PhaseOK, FulfillmentOK, LinePhases
  <2>3. QED
    BY <2>1, <2>2 DEF RequestOK
<1>6. QED
  <2>1. calls' \in 0 .. MaxCalls /\ DOMAIN holds' = Workers
    BY <1>2, StockAssumption DEF Typing
  <2>2. QED
    BY <1>2, <1>5, <2>1, RequestTyped

-----------------------------------------------------------------------------
(* Sums of rows.                                                           *)

LEMMA AllocationRows ==
    ASSUME NEW rows, TableOK("allocated", rows)
    PROVE  /\ IsFiniteSet(DOMAIN rows)
           /\ \A k \in DOMAIN rows : rows[k] \in Nat /\ k[1] \in Lines /\ k[2] \in Stocks
                                     /\ k = << k[1], k[2] >>
<1>1. \A k \in DOMAIN rows : k \in Lines \X Stocks /\ rows[k] \in Nat
  BY DEF TableOK
<1>2. IsFiniteSet(Lines \X Stocks)
  BY FS_Product, StockAssumption
<1>3. DOMAIN rows \in SUBSET (Lines \X Stocks)
  BY <1>1
<1>4. QED
  BY <1>1, <1>2, <1>3, FS_Subset

\* The rows of a stock and those of a line.
AtStock(s, rows) == { k \in DOMAIN rows : k[2] = s }

LEMMA AllocatedInNat ==
    ASSUME NEW rows, TableOK("allocated", rows), NEW s
    PROVE  /\ IsFiniteSet(AtStock(s, rows))
           /\ AllocatedIn(s, rows) = SumFunctionOnSet(rows, AtStock(s, rows))
           /\ AllocatedIn(s, rows) \in Nat
<1>1. PICK K : K = AtStock(s, rows)
  OBVIOUS
<1>2. IsFiniteSet(K) /\ \A k \in K : rows[k] \in Nat
  BY <1>1, AllocationRows, FS_Subset DEF AtStock
<1>3. SumFunctionOnSet(rows, K) \in Nat
  BY <1>2, SumNat
<1>4. AllocatedIn(s, rows) = SumFunctionOnSet(rows, K)
  BY <1>1 DEF AllocatedIn, AtStock
<1>5. QED
  BY <1>1, <1>2, <1>3, <1>4

\* What is taken from a stock or an allocation is at most what it has.
LEMMA ShareIs ==
    ASSUME NEW wanted \in Int, NEW gives, DOMAIN gives \subseteq Stocks,
           \A s \in DOMAIN gives : gives[s] \in Int
    PROVE  /\ DOMAIN Share(wanted, gives) = DOMAIN gives
           /\ \A s \in DOMAIN gives : /\ Share(wanted, gives)[s] \in Nat
                                      /\ Share(wanted, gives)[s] <= Positive(gives[s])
<1>1. PICK amounts : amounts = [ t \in DOMAIN gives |-> Positive(gives[t]) ]
  OBVIOUS
<1>2. \A t \in DOMAIN gives : amounts[t] \in Nat /\ amounts[t] = Positive(gives[t])
  BY <1>1 DEF Positive
<1>3. ASSUME NEW s \in DOMAIN gives
      PROVE  SumFunctionOnSet(amounts, { t \in DOMAIN gives : t < s }) \in Int
  <2>1. PICK T : T = { t \in DOMAIN gives : t < s }
    OBVIOUS
  <2>2. IsFiniteSet(T) /\ \A t \in T : amounts[t] \in Int
    BY <1>2, <2>1, FS_Subset, StockAssumption
  <2>3. SumFunctionOnSet(amounts, T) \in Int
    BY <2>2, SumInt
  <2>4. QED
    BY <2>1, <2>3
<1>4. PICK share : share = Share(wanted, gives)
  OBVIOUS
<1>5. /\ DOMAIN share = DOMAIN gives
      /\ \A s \in DOMAIN gives :
           share[s] = Least(Positive(gives[s]),
                            Positive(wanted - SumFunctionOnSet(amounts, { t \in DOMAIN gives : t < s })))
  BY <1>1, <1>4 DEF Share
<1>6. \A s \in DOMAIN gives : share[s] \in Nat /\ share[s] <= Positive(gives[s])
  <2>1. SUFFICES ASSUME NEW s \in DOMAIN gives PROVE share[s] \in Nat /\ share[s] <= Positive(gives[s])
    OBVIOUS
  <2>2. PICK b : b = SumFunctionOnSet(amounts, { t \in DOMAIN gives : t < s })
    OBVIOUS
  <2>3. share[s] = Least(Positive(gives[s]), Positive(wanted - b)) /\ b \in Int
    BY <1>3, <1>5, <2>2
  <2>4. QED
    BY <2>3 DEF Least, Positive
<1>7. QED
  BY <1>4, <1>5, <1>6

LEMMA SeenRows ==
    ASSUME Typing, NEW w \in Workers
    PROVE  /\ TableOK("allocated", Seen(w, "allocated"))
           /\ Seen(w, "quantity") \in [ Stocks -> Nat ]
           /\ Seen(w, "fulfilled") \in [ Lines -> Int ]
<1>1. DbOK(db) /\ \A table \in Tables : TableOK(table, txn[w][table])
  BY DEF Typing, WritesOK
<1>2. TableOK("quantity", txn[w].quantity) /\ TableOK("fulfilled", txn[w].fulfilled)
  BY <1>1 DEF Tables
<1>3. Seen(w, "quantity") \in [ Stocks -> Nat ] /\ Seen(w, "fulfilled") \in [ Lines -> Int ]
  BY <1>1, <1>2 DEF DbOK, Seen, Over, TableOK
<1>4. QED
  BY <1>3, SeenTyped DEF Tables

-----------------------------------------------------------------------------
(* Placing an order.                                                       *)

LEMMA SumAllocationsTyped ==
    ASSUME Typing, NEW w \in Workers, SumAllocations(w)
    PROVE  Typing'
<1>1. PICK q : q = request[w]
  OBVIOUS
<1>2. PICK stocks : stocks = StocksOf[Head(q.items).line]
  OBVIOUS
<1>3. PICK sums : sums = [ s \in stocks |-> AllocatedIn(s, Seen(w, "allocated")) ]
  OBVIOUS
<1>4. PICK r : r = [ q EXCEPT !.phase = "allocate", !.sums = sums,
                              !.want = Locking(StockLock, Ascending(stocks)) ]
  OBVIOUS
<1>5. /\ q.phase = "sum" /\ request' = [ request EXCEPT ![w] = r ]
      /\ db' = db /\ txn' = txn /\ holds' = holds /\ calls' = calls
  BY <1>1, <1>2, <1>3, <1>4 DEF SumAllocations, At, Continue
<1>6. FieldsOK(q) /\ PhaseOK(q) /\ FulfillmentOK(q, DOMAIN db.fulfillment)
  BY <1>1 DEF Typing, RequestOK
<1>7. /\ DOMAIN r = Fields /\ r.phase = "allocate" /\ r.sums = sums
      /\ \A field \in Fields \ { "phase", "sums", "want" } : r[field] = q[field]
  BY <1>4, <1>6 DEF FieldsOK, Fields
<1>8. q.items # << >> /\ stocks \subseteq Stocks
  <2>1. q.items # << >>
    BY <1>5, <1>6 DEF PhaseOK
  <2>2. Head(q.items) \in Item
    BY <1>6, <2>1, FirstItem DEF FieldsOK
  <2>3. QED
    BY <1>2, <2>1, <2>2, StockAssumption DEF Item
<1>9. \A s \in DOMAIN sums : s \in Stocks /\ sums[s] \in Nat
  BY <1>3, <1>8, SeenRows, AllocatedInNat
<1>10. FieldsOK(r)
  BY <1>5, <1>6, <1>7, <1>9 DEF FieldsOK, Fields, Phases
<1>11. PhaseOK(r) /\ FulfillmentOK(r, DOMAIN db.fulfillment)
  BY <1>5, <1>6, <1>7, <1>8 DEF PhaseOK, FulfillmentOK, LinePhases, Fields
<1>12. QED
  <2>1. calls' \in 0 .. MaxCalls /\ DOMAIN holds' = Workers
    BY <1>5 DEF Typing
  <2>2. QED
    BY <1>5, <1>10, <1>11, <2>1, RequestTyped DEF RequestOK

\* What is taken for the line, when its stocks have been summed.
LEMMA TakenIs ==
    ASSUME Typing, NEW w \in Workers, At(w, "allocate")
    PROVE  /\ DOMAIN Taken(w) = DOMAIN request[w].sums /\ DOMAIN Taken(w) \subseteq Stocks
           /\ \A s \in DOMAIN Taken(w) :
                /\ Taken(w)[s] \in Nat
                /\ Taken(w)[s] <= Positive(Seen(w, "quantity")[s] - request[w].sums[s])
<1>1. PICK q : q = request[w]
  OBVIOUS
<1>2. FieldsOK(q) /\ PhaseOK(q) /\ q.phase = "allocate"
  BY <1>1 DEF Typing, RequestOK, At
<1>3. q.items # << >>
  BY <1>2 DEF PhaseOK
<1>4. Head(q.items).quantity \in Int
  <2>1. Head(q.items) \in Item
    BY <1>2, <1>3, FirstItem DEF FieldsOK
  <2>2. QED
    BY <2>1 DEF Item
<1>5. PICK gives : gives = [ s \in DOMAIN q.sums |-> Seen(w, "quantity")[s] - q.sums[s] ]
  OBVIOUS
<1>6. DOMAIN gives = DOMAIN q.sums /\ DOMAIN gives \subseteq Stocks
      /\ \A s \in DOMAIN gives : /\ gives[s] = Seen(w, "quantity")[s] - q.sums[s]
                                 /\ gives[s] \in Int
  BY <1>2, <1>5, SeenRows DEF FieldsOK
<1>7. Taken(w) = Share(Head(q.items).quantity, gives)
  BY <1>1, <1>5 DEF Taken
<1>8. QED
  BY <1>1, <1>4, <1>6, <1>7, ShareIs

LEMMA NewAllocationsAre ==
    ASSUME Typing, NEW w \in Workers, At(w, "allocate"), NEW l, l = Head(request[w].items).line,
           NEW taken, taken = Taken(w)
    PROVE  /\ l \in Lines
           /\ DOMAIN NewAllocations(w) = { << l, s >> : s \in { t \in DOMAIN taken : taken[t] > 0 } }
           /\ \A k \in DOMAIN NewAllocations(w) :
                /\ k = << l, k[2] >> /\ k[2] \in DOMAIN taken /\ taken[k[2]] > 0
                /\ NewAllocations(w)[k] = taken[k[2]]
           /\ TableOK("allocated", NewAllocations(w))
<1>1. /\ DOMAIN taken \subseteq Stocks
      /\ \A s \in DOMAIN taken : taken[s] \in Nat
  BY TakenIs
<1>2. l \in Lines
  <2>1. FieldsOK(request[w]) /\ request[w].items # << >>
    BY DEF Typing, RequestOK, At, PhaseOK
  <2>2. Head(request[w].items) \in Item
    BY <2>1, FirstItem DEF FieldsOK
  <2>3. QED
    BY <2>2 DEF Item
<1>3. PICK new : new = NewAllocations(w)
  OBVIOUS
<1>4. PICK keys : keys = { << l, s >> : s \in { t \in DOMAIN taken : taken[t] > 0 } }
  OBVIOUS
<1>5. DOMAIN new = keys /\ \A k \in keys : new[k] = taken[k[2]]
  BY <1>3, <1>4 DEF NewAllocations
<1>6. \A k \in keys : k = << l, k[2] >> /\ k[2] \in DOMAIN taken /\ taken[k[2]] > 0
  BY <1>4
<1>7. TableOK("allocated", new)
  BY <1>1, <1>2, <1>5, <1>6 DEF TableOK
<1>8. QED
  BY <1>2, <1>3, <1>4, <1>5, <1>6, <1>7

LEMMA AllocateStockTyped ==
    ASSUME Typing, NEW w \in Workers, AllocateStock(w)
    PROVE  Typing'
<1>1. PICK q : q = request[w]
  OBVIOUS
<1>2. PICK phase, then :
        /\ phase = IF Tail(q.items) = << >> \/ q.order \in Drafts THEN "commit" ELSE "sum"
        /\ then = IF Tail(q.items) # << >> /\ q.order \in Drafts THEN "sum" ELSE "idle"
  OBVIOUS
<1>3. PICK r : r = [ q EXCEPT !.items = Tail(q.items), !.phase = phase, !.then = then ]
  OBVIOUS
<1>4. /\ At(w, "allocate") /\ q.phase = "allocate" /\ request' = [ request EXCEPT ![w] = r ]
      /\ Writes(w, "allocated", NewAllocations(w))
      /\ db' = db /\ holds' = holds /\ calls' = calls
  BY <1>1, <1>2, <1>3 DEF AllocateStock, At, Continue
<1>5. FieldsOK(q) /\ PhaseOK(q) /\ FulfillmentOK(q, DOMAIN db.fulfillment)
  BY <1>1 DEF Typing, RequestOK
<1>6. /\ DOMAIN r = Fields /\ r.phase = phase /\ r.then = then /\ r.items = Tail(q.items)
      /\ \A field \in Fields \ { "phase", "then", "items" } : r[field] = q[field]
  BY <1>3, <1>5 DEF FieldsOK, Fields
<1>7. Tail(q.items) \in Seq(Item)
  BY <1>4, <1>5, FirstItem DEF FieldsOK, PhaseOK
<1>8. FieldsOK(r)
  BY <1>2, <1>4, <1>5, <1>6, <1>7 DEF FieldsOK, Fields, Phases
<1>9. PhaseOK(r) /\ FulfillmentOK(r, DOMAIN db.fulfillment)
  BY <1>2, <1>4, <1>5, <1>6 DEF PhaseOK, FulfillmentOK, LinePhases, Fields
<1>10. PICK x : txn' = [ txn EXCEPT ![w] = x ] /\ WritesOK(x)
  BY <1>4, NewAllocationsAre, WrittenTyped DEF Tables
<1>11. QED
  <2>1. calls' \in 0 .. MaxCalls /\ DOMAIN holds' = Workers
    BY <1>4 DEF Typing
  <2>2. QED
    BY <1>4, <1>8, <1>9, <1>10, <2>1, StepTyped DEF RequestOK

-----------------------------------------------------------------------------
(* Fulfilling one.                                                         *)

\* The item that is worked on.
LEMMA WorkItem ==
    ASSUME Typing, NEW w \in Workers,
           request[w].phase \in { "sum", "allocate", "increase" } \cup LinePhases
    PROVE  /\ request[w].items # << >> /\ request[w].items \in Seq(Item)
           /\ Head(request[w].items) \in Item /\ Head(request[w].items) = request[w].items[1]
           /\ 1 \in DOMAIN request[w].items
           /\ Head(request[w].items).line \in Lines /\ Head(request[w].items).quantity \in Nat
           /\ Tail(request[w].items) \in Seq(Item)
           /\ request[w].phase \in LinePhases =>
                /\ Head(request[w].items).stock \in Stocks
                /\ Head(request[w].items).line \in DOMAIN request[w].loaded
<1>1. PICK q : q = request[w]
  OBVIOUS
<1>2. FieldsOK(q) /\ PhaseOK(q)
  BY <1>1 DEF Typing, RequestOK
<1>3. q.items # << >> /\ q.items \in Seq(Item)
  BY <1>1, <1>2 DEF FieldsOK, PhaseOK
<1>4. /\ Head(q.items) \in Item /\ Head(q.items) = q.items[1] /\ 1 \in DOMAIN q.items
      /\ Tail(q.items) \in Seq(Item)
  BY <1>3, FirstItem
<1>5. Head(q.items).line \in Lines /\ Head(q.items).quantity \in Nat
  BY <1>4 DEF Item
<1>6. q.phase \in LinePhases => /\ Head(q.items).stock \in Stocks
                                /\ Head(q.items).line \in DOMAIN q.loaded
  BY <1>2, <1>4 DEF PhaseOK
<1>7. QED
  BY <1>1, <1>3, <1>4, <1>5, <1>6

LEMMA CleanLinesTyped ==
    ASSUME Typing, NEW w \in Workers, CleanLines(w)
    PROVE  Typing'
<1>1. PICK q : q = request[w]
  OBVIOUS
<1>2. PICK f : f = Max(DOMAIN db.fulfillment \cup { request[v].fulfillment : v \in Workers }) + 1
  OBVIOUS
<1>3. PICK loaded :
        loaded = [ l \in { q.items[i].line : i \in DOMAIN q.items } |-> db.fulfilled[l] ]
  OBVIOUS
<1>4. PICK r : r = [ q EXCEPT !.phase = "line", !.fulfillment = f, !.loaded = loaded ]
  OBVIOUS
<1>5. /\ q.phase = "clean" /\ request' = [ request EXCEPT ![w] = r ]
      /\ db' = db /\ txn' = txn /\ holds' = holds /\ calls' = calls
  BY <1>1, <1>2, <1>3, <1>4 DEF CleanLines, At, Continue
<1>6. FieldsOK(q) /\ PhaseOK(q)
  BY <1>1 DEF Typing, RequestOK
<1>7. /\ DOMAIN r = Fields /\ r.phase = "line" /\ r.loaded = loaded
      /\ \A field \in Fields \ { "phase", "fulfillment", "loaded" } : r[field] = q[field]
  BY <1>4, <1>6 DEF FieldsOK, Fields
<1>8. \A l \in DOMAIN loaded : l \in Lines /\ loaded[l] \in Int
  <2>1. \A i \in DOMAIN q.items : q.items[i] \in Item
    BY <1>6 DEF FieldsOK
  <2>2. \A i \in DOMAIN q.items : q.items[i].line \in Lines
    BY <2>1 DEF Item
  <2>3. db.fulfilled \in [ Lines -> Int ]
    BY DEF Typing, DbOK
  <2>4. QED
    BY <1>3, <2>2, <2>3
<1>9. FieldsOK(r)
  BY <1>5, <1>6, <1>7, <1>8 DEF FieldsOK, Fields, Phases
<1>10. PhaseOK(r) /\ FulfillmentOK(r, DOMAIN db.fulfillment)
  <2>1. r.then = "idle" /\ r.final \in Standing
    BY <1>5, <1>6, <1>7 DEF PhaseOK, Fields
  <2>2. \A i \in DOMAIN r.items : r.items[i].stock \in Stocks
                                  /\ r.items[i].line \in DOMAIN r.loaded
    BY <1>3, <1>5, <1>6, <1>7 DEF PhaseOK, Fields
  <2>3. QED
    BY <1>7, <2>1, <2>2 DEF PhaseOK, FulfillmentOK, LinePhases
<1>11. QED
  <2>1. calls' \in 0 .. MaxCalls /\ DOMAIN holds' = Workers
    BY <1>5 DEF Typing
  <2>2. QED
    BY <1>5, <1>9, <1>10, <2>1, RequestTyped DEF RequestOK

LEMMA FulfillLineTyped ==
    ASSUME Typing, NEW w \in Workers, FulfillLine(w)
    PROVE  Typing'
<1>1. PICK q : q = request[w]
  OBVIOUS
<1>2. PICK r : request' = [ request EXCEPT ![w] = r ]
               /\ \E want : r = [ q EXCEPT !.phase = "deallocate", !.base = txn[w],
                                           !.kept = holds[w], !.want = want ]
  BY <1>1 DEF FulfillLine, Continue
<1>3. /\ q.phase = "line" /\ q.items # << >>
      /\ db' = db /\ txn' = txn /\ holds' = holds /\ calls' = calls
  BY <1>1 DEF FulfillLine, At
<1>4. FieldsOK(q) /\ PhaseOK(q) /\ WritesOK(txn[w])
  BY <1>1 DEF Typing, RequestOK
<1>5. /\ DOMAIN r = Fields /\ r.phase = "deallocate" /\ r.base = txn[w]
      /\ \A field \in Fields \ { "phase", "base", "kept", "want" } : r[field] = q[field]
  BY <1>2, <1>4 DEF FieldsOK, Fields
<1>6. FieldsOK(r)
  BY <1>3, <1>4, <1>5 DEF FieldsOK, Fields, Phases
<1>7. PhaseOK(r) /\ FulfillmentOK(r, DOMAIN db.fulfillment)
  BY <1>3, <1>4, <1>5 DEF PhaseOK, FulfillmentOK, LinePhases, Fields
<1>8. QED
  <2>1. calls' \in 0 .. MaxCalls /\ DOMAIN holds' = Workers
    BY <1>3 DEF Typing
  <2>2. QED
    BY <1>2, <1>3, <1>6, <1>7, <2>1, RequestTyped DEF RequestOK

\* The next phase of a line: the item stays the one that is worked on.
LEMMA LinePhaseTyped ==
    ASSUME Typing, NEW w \in Workers, NEW x, WritesOK(x), NEW r, NEW phase, NEW want,
           request[w].phase \in LinePhases, phase \in LinePhases,
           r = [ request[w] EXCEPT !.phase = phase, !.want = want ],
           request' = [ request EXCEPT ![w] = r ],
           txn' = txn \/ txn' = [ txn EXCEPT ![w] = x ],
           db' = db, calls' = calls, DOMAIN holds' = Workers
    PROVE  Typing'
<1>1. PICK q : q = request[w]
  OBVIOUS
<1>2. FieldsOK(q) /\ PhaseOK(q)
  BY <1>1 DEF Typing, RequestOK
<1>3. /\ DOMAIN r = Fields /\ r.phase = phase
      /\ \A field \in Fields \ { "phase", "want" } : r[field] = q[field]
  BY <1>1, <1>2 DEF FieldsOK, Fields
<1>4. FieldsOK(r)
  BY <1>1, <1>2, <1>3 DEF FieldsOK, Fields, Phases, LinePhases
<1>5. PhaseOK(r) /\ FulfillmentOK(r, DOMAIN db.fulfillment)
  BY <1>1, <1>2, <1>3 DEF PhaseOK, FulfillmentOK, LinePhases, Fields
<1>6. QED
  <2>1. calls' \in 0 .. MaxCalls
    BY DEF Typing
  <2>2. QED
    BY <1>4, <1>5, <2>1, StepTyped DEF RequestOK

\* The allocations of the line that is worked on, by stock.
LEMMA AllocatedToIs ==
    ASSUME Typing, NEW w \in Workers, NEW l, l = Head(request[w].items).line,
           NEW rows, rows = Seen(w, "allocated")
    PROVE  /\ DOMAIN AllocatedTo(w) \subseteq Stocks
           /\ \A s \in DOMAIN AllocatedTo(w) : /\ << l, s >> \in DOMAIN rows
                                               /\ AllocatedTo(w)[s] = rows[<< l, s >>]
                                               /\ AllocatedTo(w)[s] \in Nat
           /\ \A k \in DOMAIN rows : k[1] = l => k[2] \in DOMAIN AllocatedTo(w)
<1>1. PICK mine : mine = AllocatedTo(w)
  OBVIOUS
<1>2. \A k \in DOMAIN rows : rows[k] \in Nat /\ k[2] \in Stocks /\ k = << k[1], k[2] >>
  BY SeenRows, AllocationRows
<1>3. /\ DOMAIN mine = { k[2] : k \in { j \in DOMAIN rows : j[1] = l } }
      /\ \A s \in DOMAIN mine : mine[s] = rows[<< l, s >>]
  BY <1>1 DEF AllocatedTo, RowsOf
<1>4. ASSUME NEW s \in DOMAIN mine
      PROVE  << l, s >> \in DOMAIN rows /\ s \in Stocks /\ mine[s] \in Nat
  <2>1. PICK k \in DOMAIN rows : k[1] = l /\ k[2] = s
    BY <1>3
  <2>2. QED
    BY <1>2, <1>3, <2>1
<1>5. QED
  BY <1>1, <1>3, <1>4

\* What Deallocate writes: what each allocation keeps.
LEMMA KeptAllocations ==
    ASSUME Typing, NEW w \in Workers, request[w].phase \in LinePhases,
           NEW l, l = Head(request[w].items).line, NEW mine, mine = AllocatedTo(w),
           NEW released, released = Share(Head(request[w].items).quantity, mine),
           NEW kept, kept = [ k \in { l } \X DOMAIN mine |-> mine[k[2]] - released[k[2]] ]
    PROVE  /\ DOMAIN released = DOMAIN mine
           /\ \A s \in DOMAIN mine : released[s] \in Nat /\ released[s] <= mine[s]
           /\ \A k \in DOMAIN kept : kept[k] \in Nat /\ kept[k] <= mine[k[2]]
           /\ TableOK("allocated", kept)
<1>1. DOMAIN mine \subseteq Stocks /\ \A s \in DOMAIN mine : mine[s] \in Nat
  BY AllocatedToIs
<1>2. l \in Lines /\ Head(request[w].items).quantity \in Int
  BY WorkItem
<1>3. /\ DOMAIN released = DOMAIN mine
      /\ \A s \in DOMAIN mine : released[s] \in Nat /\ released[s] <= Positive(mine[s])
  BY <1>1, <1>2, ShareIs
<1>4. \A s \in DOMAIN mine : released[s] \in Nat /\ released[s] <= mine[s]
  BY <1>1, <1>3 DEF Positive
<1>5. \A k \in DOMAIN kept : /\ k \in Lines \X Stocks /\ k[2] \in DOMAIN mine
                             /\ kept[k] = mine[k[2]] - released[k[2]]
  BY <1>1, <1>2
<1>6. \A k \in DOMAIN kept : kept[k] \in Nat /\ kept[k] <= mine[k[2]]
  BY <1>1, <1>4, <1>5
<1>7. TableOK("allocated", kept)
  BY <1>5, <1>6 DEF TableOK
<1>8. QED
  BY <1>3, <1>4, <1>6, <1>7

LEMMA DeallocateTyped ==
    ASSUME Typing, NEW w \in Workers, Deallocate(w)
    PROVE  Typing'
<1>1. PICK item : item = Head(request[w].items)
  OBVIOUS
<1>2. PICK mine : mine = AllocatedTo(w)
  OBVIOUS
<1>3. PICK released : released = Share(item.quantity, mine)
  OBVIOUS
<1>4. PICK kept : kept = [ k \in { item.line } \X DOMAIN mine |-> mine[k[2]] - released[k[2]] ]
  OBVIOUS
<1>5. PICK r : r = [ request[w] EXCEPT !.phase = "ship", !.want = << StockLock(item.stock) >> ]
  OBVIOUS
<1>6. /\ request[w].phase = "deallocate" /\ request' = [ request EXCEPT ![w] = r ]
      /\ Writes(w, "allocated", kept) /\ db' = db /\ holds' = holds /\ calls' = calls
  BY <1>1, <1>2, <1>3, <1>4, <1>5 DEF Deallocate, At, Continue
<1>7. TableOK("allocated", kept)
  <2>1. PICK l : l = Head(request[w].items).line
    OBVIOUS
  <2>2. /\ request[w].phase \in LinePhases
        /\ released = Share(Head(request[w].items).quantity, mine)
        /\ kept = [ k \in { l } \X DOMAIN mine |-> mine[k[2]] - released[k[2]] ]
    BY <1>1, <1>3, <1>4, <1>6, <2>1 DEF LinePhases
  <2>3. QED
    BY <1>2, <2>1, <2>2, KeptAllocations
<1>8. PICK x : txn' = [ txn EXCEPT ![w] = x ] /\ WritesOK(x)
  BY <1>6, <1>7, WrittenTyped DEF Tables
<1>9. QED
  <2>1. request[w].phase \in LinePhases /\ "ship" \in LinePhases /\ DOMAIN holds' = Workers
    BY <1>6 DEF LinePhases, Typing
  <2>2. QED
    BY <1>5, <1>6, <1>8, <2>1, LinePhaseTyped

LEMMA TooFewAllocatedTyped ==
    ASSUME Typing, NEW w \in Workers, TooFewAllocated(w)
    PROVE  Typing'
<1>1. PICK want : want = Locking(AllocationLock,
                   ByStock(RowsOf({ Head(request[w].items).line }, Seen(w, "allocated"))))
  OBVIOUS
<1>2. PICK r : r = [ request[w] EXCEPT !.phase = "zero", !.want = want ]
  OBVIOUS
<1>3. /\ request[w].phase = "deallocate" /\ request' = [ request EXCEPT ![w] = r ]
      /\ db' = db /\ txn' = txn /\ calls' = calls /\ DOMAIN holds' = Workers
  BY <1>1, <1>2 DEF TooFewAllocated, At, Continue, Typing
<1>4. QED
  <2>1. request[w].phase \in LinePhases /\ "zero" \in LinePhases /\ WritesOK(txn[w])
    BY <1>3 DEF LinePhases, Typing
  <2>2. QED
    BY <1>2, <1>3, <2>1, LinePhaseTyped

LEMMA ZeroAllocationsTyped ==
    ASSUME Typing, NEW w \in Workers, ZeroAllocations(w)
    PROVE  Typing'
<1>1. PICK item : item = Head(request[w].items)
  OBVIOUS
<1>2. PICK zeros : zeros = [ k \in RowsOf({ item.line }, Seen(w, "allocated")) |-> 0 ]
  OBVIOUS
<1>3. PICK r : r = [ request[w] EXCEPT !.phase = "ship", !.want = << StockLock(item.stock) >> ]
  OBVIOUS
<1>4. /\ request[w].phase = "zero" /\ request' = [ request EXCEPT ![w] = r ]
      /\ Writes(w, "allocated", zeros) /\ db' = db /\ holds' = holds /\ calls' = calls
  BY <1>1, <1>2, <1>3 DEF ZeroAllocations, At, Continue
<1>5. TableOK("allocated", zeros)
  BY <1>2, SeenRows DEF TableOK, RowsOf
<1>6. PICK x : txn' = [ txn EXCEPT ![w] = x ] /\ WritesOK(x)
  BY <1>4, <1>5, WrittenTyped DEF Tables
<1>7. QED
  <2>1. request[w].phase \in LinePhases /\ "ship" \in LinePhases /\ DOMAIN holds' = Workers
    BY <1>4 DEF LinePhases, Typing
  <2>2. QED
    BY <1>3, <1>4, <1>6, <2>1, LinePhaseTyped

LEMMA DecreaseStockTyped ==
    ASSUME Typing, NEW w \in Workers, DecreaseStock(w)
    PROVE  Typing'
<1>1. PICK item : item = Head(request[w].items)
  OBVIOUS
<1>2. PICK left : left = Seen(w, "quantity")[item.stock] - item.quantity
  OBVIOUS
<1>3. PICK r : r = [ request[w] EXCEPT !.phase = "mark", !.want = << LineLock(item.line) >> ]
  OBVIOUS
<1>4. /\ request[w].phase = "ship" /\ request' = [ request EXCEPT ![w] = r ] /\ Enough(w)
      /\ Writes(w, "quantity", Row(item.stock, left))
      /\ db' = db /\ holds' = holds /\ calls' = calls
  BY <1>1, <1>2, <1>3 DEF DecreaseStock, At, Continue
<1>5. request[w].phase \in LinePhases
  BY <1>4 DEF LinePhases
<1>6. item.stock \in Stocks /\ item.quantity \in Nat
  BY <1>1, <1>5, WorkItem
<1>7. left \in Nat
  <2>1. PICK quantity : quantity = Seen(w, "quantity")[item.stock]
    OBVIOUS
  <2>2. PICK allocated : allocated = AllocatedIn(item.stock, Seen(w, "allocated"))
    OBVIOUS
  <2>3. quantity \in Nat /\ allocated \in Nat
    BY <1>6, <2>1, <2>2, SeenRows, AllocatedInNat
  <2>4. quantity - allocated >= item.quantity
    BY <1>1, <1>4, <2>1, <2>2 DEF Enough
  <2>5. QED
    BY <1>2, <1>6, <2>1, <2>3, <2>4
<1>8. TableOK("quantity", Row(item.stock, left))
  BY <1>6, <1>7 DEF TableOK, Row
<1>9. PICK x : txn' = [ txn EXCEPT ![w] = x ] /\ WritesOK(x)
  BY <1>4, <1>8, WrittenTyped DEF Tables
<1>10. QED
  <2>1. "mark" \in LinePhases /\ DOMAIN holds' = Workers
    BY <1>4 DEF LinePhases, Typing
  <2>2. QED
    BY <1>3, <1>4, <1>5, <1>9, <2>1, LinePhaseTyped

LEMMA FulfillOrderLineTyped ==
    ASSUME Typing, NEW w \in Workers, FulfillOrderLine(w)
    PROVE  Typing'
<1>1. PICK q : q = request[w]
  OBVIOUS
<1>2. PICK item : item = Head(q.items)
  OBVIOUS
<1>3. PICK r : r = [ q EXCEPT !.phase = "line", !.items = Tail(@), !.done = Append(@, item) ]
  OBVIOUS
<1>4. /\ q.phase = "mark" /\ request' = [ request EXCEPT ![w] = r ]
      /\ Writes(w, "fulfilled", Row(item.line, q.loaded[item.line] + item.quantity))
      /\ db' = db /\ holds' = holds /\ calls' = calls
  BY <1>1, <1>2, <1>3 DEF FulfillOrderLine, At, Continue
<1>5. q.phase \in LinePhases
  BY <1>4 DEF LinePhases
<1>6. FieldsOK(q) /\ PhaseOK(q)
  BY <1>1 DEF Typing, RequestOK
<1>7. /\ DOMAIN r = Fields /\ r.phase = "line" /\ r.items = Tail(q.items)
      /\ r.done = Append(q.done, item)
      /\ \A field \in Fields \ { "phase", "items", "done" } : r[field] = q[field]
  BY <1>3, <1>6 DEF FieldsOK, Fields
<1>8. /\ q.items \in Seq(Item) /\ q.items # << >> /\ item \in Item /\ Tail(q.items) \in Seq(Item)
      /\ item.line \in Lines /\ item.quantity \in Nat /\ item.line \in DOMAIN q.loaded
  BY <1>1, <1>2, <1>5, WorkItem
<1>9. TableOK("fulfilled", Row(item.line, q.loaded[item.line] + item.quantity))
  <2>1. q.loaded[item.line] \in Int
    BY <1>6, <1>8 DEF FieldsOK
  <2>2. QED
    BY <1>8, <2>1 DEF TableOK, Row
<1>10. PICK x : txn' = [ txn EXCEPT ![w] = x ] /\ WritesOK(x)
  BY <1>4, <1>9, WrittenTyped DEF Tables
<1>11. FieldsOK(r)
  <2>1. Append(q.done, item) \in Seq(Item)
    BY <1>6, <1>8 DEF FieldsOK
  <2>2. QED
    BY <1>4, <1>6, <1>7, <1>8, <2>1 DEF FieldsOK, Fields, Phases
<1>12. PhaseOK(r) /\ FulfillmentOK(r, DOMAIN db.fulfillment)
  <2>1. \A i \in DOMAIN r.items : r.items[i].stock \in Stocks
                                  /\ r.items[i].line \in DOMAIN r.loaded
    BY <1>5, <1>6, <1>7, <1>8, FirstItem DEF PhaseOK, Fields
  <2>2. r.then = "idle" /\ r.final \in Standing
    BY <1>5, <1>6, <1>7 DEF PhaseOK, Fields
  <2>3. QED
    BY <1>7, <2>1, <2>2 DEF PhaseOK, FulfillmentOK, LinePhases
<1>13. QED
  <2>1. calls' \in 0 .. MaxCalls /\ DOMAIN holds' = Workers
    BY <1>4 DEF Typing
  <2>2. QED
    BY <1>4, <1>10, <1>11, <1>12, <2>1, StepTyped DEF RequestOK

\* A phase in which a call needs no item and no fulfillment any more.
LEMMA LastPhaseTyped ==
    ASSUME Typing, NEW w \in Workers, NEW x, WritesOK(x), NEW r,
           request[w].phase # "idle", DOMAIN r = Fields, r.items \in Seq(Item),
           r.phase \in { "update", "order", "commit", "find", "release" },
           r.then \in { "idle", "find", request[w].then }, request[w].then # "sum",
           r.status \in OrderStatus,
           \A field \in Fields \ { "phase", "then", "items", "status", "want" } :
             r[field] = request[w][field],
           request' = [ request EXCEPT ![w] = r ],
           txn' = txn \/ txn' = [ txn EXCEPT ![w] = x ],
           db' = db, calls' = calls, DOMAIN holds' = Workers
    PROVE  Typing'
<1>1. PICK q : q = request[w]
  OBVIOUS
<1>2. FieldsOK(q) /\ PhaseOK(q) /\ FulfillmentOK(q, DOMAIN db.fulfillment)
  BY <1>1 DEF Typing, RequestOK
<1>3. FieldsOK(r)
  BY <1>1, <1>2 DEF FieldsOK, Fields, Phases
<1>4. PhaseOK(r) /\ FulfillmentOK(r, DOMAIN db.fulfillment)
  <2>1. r.then # "sum"
    BY <1>1
  <2>2. PhaseOK(r)
    BY <2>1 DEF PhaseOK, LinePhases
  <2>3. FulfillmentOK(r, DOMAIN db.fulfillment)
    BY <1>1, <1>2 DEF FulfillmentOK, Fields
  <2>4. QED
    BY <2>2, <2>3
<1>5. QED
  <2>1. calls' \in 0 .. MaxCalls
    BY DEF Typing
  <2>2. QED
    BY <1>3, <1>4, <2>1, StepTyped DEF RequestOK

LEMMA CreateFulfillmentTyped ==
    ASSUME Typing, NEW w \in Workers, CreateFulfillment(w)
    PROVE  Typing'
<1>1. PICK q : q = request[w]
  OBVIOUS
<1>2. PICK row : row = [ order |-> q.order, status |-> q.final, lines |-> q.done ]
  OBVIOUS
<1>3. PICK r : r = [ q EXCEPT !.phase = "update" ]
  OBVIOUS
<1>4. /\ q.phase = "line" /\ request' = [ request EXCEPT ![w] = r ]
      /\ Writes(w, "fulfillment", Row(q.fulfillment, row))
      /\ db' = db /\ holds' = holds /\ calls' = calls
  BY <1>1, <1>2, <1>3 DEF CreateFulfillment, At, Continue
<1>5. FieldsOK(q) /\ PhaseOK(q)
  BY <1>1 DEF Typing, RequestOK
<1>6. /\ DOMAIN r = Fields /\ r.phase = "update"
      /\ \A field \in Fields \ { "phase" } : r[field] = q[field]
  BY <1>3, <1>5 DEF FieldsOK, Fields
<1>7. row \in FulfillmentRow
  BY <1>2, <1>4, <1>5 DEF FieldsOK, FulfillmentRow, FulfillmentStatus
<1>8. PICK x : txn' = [ txn EXCEPT ![w] = x ] /\ WritesOK(x)
  <2>1. TableOK("fulfillment", Row(q.fulfillment, row))
    BY <1>7 DEF TableOK, Row
  <2>2. QED
    BY <1>4, <2>1, WrittenTyped DEF Tables
<1>9. q.then # "sum" /\ DOMAIN holds' = Workers
  BY <1>4, <1>5 DEF PhaseOK, Typing
<1>10. r.items \in Seq(Item) /\ r.status \in OrderStatus /\ r.then = q.then
  BY <1>5, <1>6 DEF FieldsOK, Fields
<1>11. QED
  BY <1>1, <1>4, <1>6, <1>8, <1>9, <1>10, LastPhaseTyped

LEMMA UpdateOrderStatusTyped ==
    ASSUME Typing, NEW w \in Workers, UpdateOrderStatus(w)
    PROVE  Typing'
<1>1. PICK q : q = request[w]
  OBVIOUS
<1>2. PICK status : status = StatusFor(q.order, Seen(w, "fulfilled"))
  OBVIOUS
<1>3. status \in OrderStatus
  BY <1>2 DEF StatusFor, OrderStatus
<1>4. PICK r : r = IF status = q.status THEN [ q EXCEPT !.phase = "commit" ]
                   ELSE [ q EXCEPT !.phase = "order", !.status = status,
                                   !.want = << OrderLock(q.order) >> ]
  OBVIOUS
<1>5. /\ q.phase = "update" /\ request' = [ request EXCEPT ![w] = r ]
      /\ txn' = txn /\ db' = db /\ holds' = holds /\ calls' = calls
  BY <1>1, <1>2, <1>4 DEF UpdateOrderStatus, At, Continue
<1>6. FieldsOK(q) /\ PhaseOK(q)
  BY <1>1 DEF Typing, RequestOK
<1>7. /\ DOMAIN r = Fields /\ r.phase \in { "commit", "order" } /\ r.status \in OrderStatus
      /\ \A field \in Fields \ { "phase", "status", "want" } : r[field] = q[field]
  BY <1>3, <1>4, <1>6 DEF FieldsOK, Fields
<1>8. q.then # "sum" /\ DOMAIN holds' = Workers /\ WritesOK(txn[w])
  BY <1>5, <1>6 DEF PhaseOK, Typing
<1>9. r.items \in Seq(Item) /\ r.then = q.then
  BY <1>6, <1>7 DEF FieldsOK, Fields
<1>10. QED
  BY <1>1, <1>5, <1>7, <1>8, <1>9, LastPhaseTyped

LEMMA SaveOrderTyped ==
    ASSUME Typing, NEW w \in Workers, SaveOrder(w)
    PROVE  Typing'
<1>1. PICK q : q = request[w]
  OBVIOUS
<1>2. PICK r : r = [ q EXCEPT !.phase = "commit" ]
  OBVIOUS
<1>3. /\ q.phase = "order" /\ request' = [ request EXCEPT ![w] = r ]
      /\ Writes(w, "status", Row(q.order, q.status))
      /\ db' = db /\ holds' = holds /\ calls' = calls
  BY <1>1, <1>2 DEF SaveOrder, At
<1>4. FieldsOK(q) /\ PhaseOK(q)
  BY <1>1 DEF Typing, RequestOK
<1>5. /\ DOMAIN r = Fields /\ r.phase = "commit"
      /\ \A field \in Fields \ { "phase" } : r[field] = q[field]
  BY <1>2, <1>4 DEF FieldsOK, Fields
<1>6. PICK x : txn' = [ txn EXCEPT ![w] = x ] /\ WritesOK(x)
  <2>1. TableOK("status", Row(q.order, q.status))
    BY <1>3, <1>4 DEF TableOK, Row, FieldsOK
  <2>2. QED
    BY <1>3, <2>1, WrittenTyped DEF Tables
<1>7. q.then # "sum" /\ DOMAIN holds' = Workers
  BY <1>3, <1>4 DEF PhaseOK, Typing
<1>8. r.items \in Seq(Item) /\ r.status \in OrderStatus /\ r.then = q.then
  BY <1>4, <1>5 DEF FieldsOK, Fields
<1>9. QED
  BY <1>1, <1>3, <1>5, <1>6, <1>7, <1>8, LastPhaseTyped

-----------------------------------------------------------------------------
(* Canceling.                                                              *)

LEMMA ReadFulfillmentTyped ==
    ASSUME Typing, NEW w \in Workers, ReadFulfillment(w)
    PROVE  Typing'
<1>1. PICK q : q = request[w]
  OBVIOUS
<1>2. PICK lines : lines = db.fulfillment[q.fulfillment].lines
  OBVIOUS
<1>3. PICK r : r = [ q EXCEPT !.phase = "restock", !.items = lines ]
  OBVIOUS
<1>4. /\ q.phase = "read" /\ request' = [ request EXCEPT ![w] = r ]
      /\ txn' = txn /\ db' = db /\ holds' = holds /\ calls' = calls
  BY <1>1, <1>2, <1>3 DEF ReadFulfillment, At, Continue
<1>5. FieldsOK(q) /\ PhaseOK(q) /\ FulfillmentOK(q, DOMAIN db.fulfillment)
  BY <1>1 DEF Typing, RequestOK
<1>6. /\ DOMAIN r = Fields /\ r.phase = "restock" /\ r.items = lines
      /\ \A field \in Fields \ { "phase", "items" } : r[field] = q[field]
  BY <1>3, <1>5 DEF FieldsOK, Fields
<1>7. lines \in Seq(Item)
  <2>1. q.fulfillment \in DOMAIN db.fulfillment
    BY <1>4, <1>5 DEF FulfillmentOK
  <2>2. db.fulfillment[q.fulfillment] \in FulfillmentRow
    BY <2>1 DEF Typing, DbOK, WritesOK, TableOK, Tables
  <2>3. QED
    BY <1>2, <2>2 DEF FulfillmentRow
<1>8. FieldsOK(r)
  BY <1>4, <1>5, <1>6, <1>7 DEF FieldsOK, Fields, Phases
<1>9. PhaseOK(r) /\ FulfillmentOK(r, DOMAIN db.fulfillment)
  BY <1>4, <1>5, <1>6 DEF PhaseOK, FulfillmentOK, LinePhases, Fields
<1>10. QED
  <2>1. calls' \in 0 .. MaxCalls /\ DOMAIN holds' = Workers
    BY <1>4 DEF Typing
  <2>2. QED
    BY <1>4, <1>8, <1>9, <2>1, RequestTyped DEF RequestOK

LEMMA RestockLineTyped ==
    ASSUME Typing, NEW w \in Workers, RestockLine(w)
    PROVE  Typing'
<1>1. PICK q : q = request[w]
  OBVIOUS
<1>2. PICK l : l = Head(q.items).line
  OBVIOUS
<1>3. PICK loaded : loaded = Over(Row(l, Seen(w, "fulfilled")[l]), q.loaded)
  OBVIOUS
<1>4. /\ q.phase = "restock" /\ q.items # << >>
      /\ \E s \in StocksOf[l] :
           request' = [ request EXCEPT ![w] = [ q EXCEPT
                          !.phase = "increase", !.items[1].stock = s, !.loaded = loaded,
                          !.want = << StockLock(s), AllocationLock(<< l, s >>) >> ] ]
      /\ txn' = txn /\ db' = db /\ holds' = holds /\ calls' = calls
  BY <1>1, <1>2, <1>3 DEF RestockLine, At, Continue
<1>5. PICK s \in StocksOf[l] :
           request' = [ request EXCEPT ![w] = [ q EXCEPT
                          !.phase = "increase", !.items[1].stock = s, !.loaded = loaded,
                          !.want = << StockLock(s), AllocationLock(<< l, s >>) >> ] ]
  BY <1>4
<1>6. PICK r : r = [ q EXCEPT
                       !.phase = "increase", !.items[1].stock = s, !.loaded = loaded,
                       !.want = << StockLock(s), AllocationLock(<< l, s >>) >> ]
  OBVIOUS
<1>7. request' = [ request EXCEPT ![w] = r ]
  BY <1>5, <1>6
<1>8. FieldsOK(q) /\ PhaseOK(q) /\ FulfillmentOK(q, DOMAIN db.fulfillment)
  BY <1>1 DEF Typing, RequestOK
<1>9. PICK items : items = [ q.items EXCEPT ![1].stock = s ]
  OBVIOUS
<1>10. /\ DOMAIN r = Fields /\ r.phase = "increase" /\ r.items = items /\ r.loaded = loaded
       /\ \A field \in Fields \ { "phase", "items", "loaded", "want" } : r[field] = q[field]
  BY <1>6, <1>8, <1>9 DEF FieldsOK, Fields
<1>11. /\ q.items \in Seq(Item) /\ q.items[1] \in Item /\ 1 \in DOMAIN q.items
       /\ l = q.items[1].line /\ l \in Lines /\ s \in Stocks
  <2>1. /\ q.items \in Seq(Item) /\ Head(q.items) \in Item /\ Head(q.items) = q.items[1]
        /\ 1 \in DOMAIN q.items
    BY <1>4, <1>8, FirstItem DEF FieldsOK
  <2>2. l \in Lines
    BY <1>2, <2>1 DEF Item
  <2>3. QED
    BY <1>2, <1>5, <2>1, <2>2, StockAssumption
<1>12. PICK item : item = [ q.items[1] EXCEPT !.stock = s ]
  OBVIOUS
<1>13. item \in Item /\ item.stock = s /\ item.line = l
  BY <1>11, <1>12 DEF Item
<1>14. items = [ q.items EXCEPT ![1] = item ]
  BY <1>9, <1>11, <1>12
<1>15. items \in Seq(Item) /\ items # << >> /\ items[1] = item
  <2>1. /\ DOMAIN items = 1 .. Len(q.items) /\ items[1] = item
        /\ \A i \in 1 .. Len(q.items) : items[i] \in Item
    BY <1>11, <1>13, <1>14
  <2>2. items \in Seq(Item)
    BY <1>11, <1>13, <1>14
  <2>3. QED
    BY <1>11, <2>1, <2>2
<1>16. /\ DOMAIN loaded = { l } \cup DOMAIN q.loaded
       /\ \A m \in DOMAIN loaded : m \in Lines /\ loaded[m] \in Int
  <2>1. /\ DOMAIN loaded = { l } \cup DOMAIN q.loaded
        /\ loaded[l] = Seen(w, "fulfilled")[l]
        /\ \A m \in DOMAIN q.loaded \ { l } : loaded[m] = q.loaded[m]
    BY <1>3 DEF Over, Row
  <2>2. Seen(w, "fulfilled")[l] \in Int
    BY <1>11, SeenRows
  <2>3. QED
    BY <1>8, <1>11, <2>1, <2>2 DEF FieldsOK
<1>17. FieldsOK(r)
  BY <1>4, <1>8, <1>10, <1>15, <1>16 DEF FieldsOK, Fields, Phases
<1>18. PhaseOK(r)
  <2>1. \A m \in DOMAIN r.loaded :
          \/ \E i \in DOMAIN r.done : r.done[i].line = m
          \/ r.items[1].line = m
    BY <1>4, <1>8, <1>10, <1>13, <1>15, <1>16 DEF PhaseOK, Fields
  <2>2. r.then # "sum"
    BY <1>4, <1>8, <1>10 DEF PhaseOK, Fields
  <2>3. QED
    BY <1>10, <1>11, <1>13, <1>15, <2>1, <2>2 DEF PhaseOK, LinePhases
<1>19. FulfillmentOK(r, DOMAIN db.fulfillment)
  BY <1>4, <1>8, <1>10 DEF FulfillmentOK, Fields
<1>20. QED
  <2>1. calls' \in 0 .. MaxCalls /\ DOMAIN holds' = Workers
    BY <1>4 DEF Typing
  <2>2. QED
    BY <1>4, <1>7, <1>17, <1>18, <1>19, <2>1, RequestTyped DEF RequestOK

LEMMA IncreaseStockTyped ==
    ASSUME Typing, NEW w \in Workers, IncreaseStock(w)
    PROVE  Typing'
<1>1. PICK q : q = request[w]
  OBVIOUS
<1>2. PICK item : item = Head(q.items)
  OBVIOUS
<1>3. PICK k : k = << item.line, item.stock >>
  OBVIOUS
<1>4. PICK rows : rows = Over(Seen(w, "allocated"), Row(k, 0))
  OBVIOUS
<1>5. PICK more : more = Row(item.stock, Seen(w, "quantity")[item.stock] + item.quantity)
  OBVIOUS
<1>6. PICK back : back = Row(k, rows[k] + item.quantity)
  OBVIOUS
<1>7. PICK r : r = [ q EXCEPT !.phase = "restock", !.items = Tail(@), !.done = Append(@, item) ]
  OBVIOUS
<1>8. PICK x : x = [ txn[w] EXCEPT !.quantity = Over(more, @), !.allocated = Over(back, @) ]
  OBVIOUS
<1>9. /\ q.phase = "increase" /\ request' = [ request EXCEPT ![w] = r ]
      /\ db' = db /\ holds' = holds /\ calls' = calls
  BY <1>1, <1>2, <1>7 DEF IncreaseStock, At, Continue
<1>10. txn' = [ txn EXCEPT ![w] = x ]
  BY <1>1, <1>2, <1>3, <1>4, <1>5, <1>6, <1>8 DEF IncreaseStock
<1>11. FieldsOK(q) /\ PhaseOK(q) /\ FulfillmentOK(q, DOMAIN db.fulfillment)
  BY <1>1 DEF Typing, RequestOK
<1>12. /\ q.items \in Seq(Item) /\ q.items # << >> /\ item \in Item /\ item = q.items[1]
       /\ Tail(q.items) \in Seq(Item) /\ item.line \in Lines /\ item.quantity \in Nat
  BY <1>1, <1>2, <1>9, WorkItem
<1>13. item.stock \in Stocks
  BY <1>9, <1>11, <1>12 DEF PhaseOK
<1>14. TableOK("quantity", more)
  <2>1. Seen(w, "quantity")[item.stock] \in Nat
    BY <1>13, SeenRows
  <2>2. QED
    BY <1>5, <1>12, <1>13, <2>1 DEF TableOK, Row
<1>15. TableOK("allocated", back)
  <2>1. TableOK("allocated", Row(k, 0)) /\ k \in Lines \X Stocks
    BY <1>3, <1>12, <1>13 DEF TableOK, Row
  <2>2. TableOK("allocated", rows)
    BY <1>4, <2>1, OverTyped, SeenRows
  <2>3. k \in DOMAIN rows
    BY <1>4 DEF Over, Row
  <2>4. rows[k] \in Nat
    BY <2>2, <2>3 DEF TableOK
  <2>5. QED
    BY <1>6, <1>12, <2>1, <2>4 DEF TableOK, Row
<1>16. WritesOK(x)
  <2>1. DOMAIN txn[w] = Tables /\ \A table \in Tables : TableOK(table, txn[w][table])
    BY DEF Typing, WritesOK
  <2>2. /\ DOMAIN x = Tables /\ x.quantity = Over(more, txn[w].quantity)
        /\ x.allocated = Over(back, txn[w].allocated)
        /\ \A table \in Tables \ { "quantity", "allocated" } : x[table] = txn[w][table]
    BY <1>8, <2>1 DEF Tables
  <2>3. TableOK("quantity", x.quantity) /\ TableOK("allocated", x.allocated)
    BY <1>14, <1>15, <2>1, <2>2, OverTyped DEF Tables
  <2>4. \A table \in Tables : TableOK(table, x[table])
    BY <2>1, <2>2, <2>3
  <2>5. QED
    BY <2>2, <2>4 DEF WritesOK
<1>17. /\ DOMAIN r = Fields /\ r.phase = "restock" /\ r.items = Tail(q.items)
       /\ r.done = Append(q.done, item)
       /\ \A field \in Fields \ { "phase", "items", "done" } : r[field] = q[field]
  BY <1>7, <1>11 DEF FieldsOK, Fields
<1>18. FieldsOK(r)
  <2>1. Append(q.done, item) \in Seq(Item)
    BY <1>11, <1>12 DEF FieldsOK
  <2>2. QED
    BY <1>9, <1>11, <1>12, <1>17, <2>1 DEF FieldsOK, Fields, Phases
<1>19. PhaseOK(r)
  <2>1. \A m \in DOMAIN r.loaded : \E i \in DOMAIN r.done : r.done[i].line = m
    <3>1. SUFFICES ASSUME NEW m \in DOMAIN q.loaded
                   PROVE  \E i \in DOMAIN r.done : r.done[i].line = m
      BY <1>17 DEF Fields
    <3>2. q.done \in Seq(Item)
      BY <1>11 DEF FieldsOK
    <3>3. CASE \E i \in DOMAIN q.done : q.done[i].line = m
      BY <1>17, <3>2, <3>3
    <3>4. CASE q.items[1].line = m
      <4>1. Len(q.done) + 1 \in DOMAIN r.done /\ r.done[Len(q.done) + 1] = item
        BY <1>17, <3>2
      <4>2. QED
        BY <1>12, <3>4, <4>1
    <3>5. QED
      BY <1>9, <1>11, <3>3, <3>4 DEF PhaseOK
  <2>2. r.then # "sum"
    BY <1>9, <1>11, <1>17 DEF PhaseOK, Fields
  <2>3. QED
    BY <1>17, <2>1, <2>2 DEF PhaseOK, LinePhases
<1>20. FulfillmentOK(r, DOMAIN db.fulfillment)
  BY <1>9, <1>11, <1>17 DEF FulfillmentOK, Fields
<1>21. QED
  <2>1. calls' \in 0 .. MaxCalls /\ DOMAIN holds' = Workers
    BY <1>9 DEF Typing
  <2>2. QED
    BY <1>9, <1>10, <1>16, <1>18, <1>19, <1>20, <2>1, StepTyped DEF RequestOK

LEMMA RestockedAllTyped ==
    ASSUME Typing, NEW w \in Workers, RestockedAll(w)
    PROVE  Typing'
<1>1. PICK q : q = request[w]
  OBVIOUS
<1>2. PICK want : want = Locking(LAMBDA item : LineLock(item.line), q.done)
  OBVIOUS
<1>3. PICK r : r = [ q EXCEPT !.phase = "unfulfill", !.want = want ]
  OBVIOUS
<1>4. /\ q.phase = "restock" /\ request' = [ request EXCEPT ![w] = r ]
      /\ txn' = txn /\ db' = db /\ holds' = holds /\ calls' = calls
  BY <1>1, <1>2, <1>3 DEF RestockedAll, At, Continue
<1>5. FieldsOK(q) /\ PhaseOK(q) /\ FulfillmentOK(q, DOMAIN db.fulfillment)
  BY <1>1 DEF Typing, RequestOK
<1>6. /\ DOMAIN r = Fields /\ r.phase = "unfulfill"
      /\ \A field \in Fields \ { "phase", "want" } : r[field] = q[field]
  BY <1>3, <1>5 DEF FieldsOK, Fields
<1>7. FieldsOK(r)
  BY <1>4, <1>5, <1>6 DEF FieldsOK, Fields, Phases
<1>8. PhaseOK(r) /\ FulfillmentOK(r, DOMAIN db.fulfillment)
  BY <1>4, <1>5, <1>6 DEF PhaseOK, FulfillmentOK, LinePhases, Fields
<1>9. QED
  <2>1. calls' \in 0 .. MaxCalls /\ DOMAIN holds' = Workers
    BY <1>4 DEF Typing
  <2>2. QED
    BY <1>4, <1>7, <1>8, <2>1, RequestTyped DEF RequestOK

LEMMA UnfulfillTyped ==
    ASSUME Typing, NEW w \in Workers, Unfulfill(w)
    PROVE  Typing'
<1>1. PICK q : q = request[w]
  OBVIOUS
<1>3. PICK less : less = [ l \in DOMAIN request[w].loaded |->
        request[w].loaded[l]
          - request[w].done[CHOOSE i \in DOMAIN request[w].done :
                              request[w].done[i].line = l].quantity ]
  OBVIOUS
<1>4. PICK row : row = [ db.fulfillment[q.fulfillment] EXCEPT !.status = "cancellation initiated" ]
  OBVIOUS
<1>5. PICK x : x = [ txn[w] EXCEPT !.fulfilled = Over(less, @),
                                   !.fulfillment = Row(q.fulfillment, row) ]
  OBVIOUS
<1>6. PICK r : r = [ q EXCEPT !.phase = "update", !.status = db.status[q.order], !.items = << >> ]
  OBVIOUS
<1>7. /\ q.phase = "unfulfill" /\ request' = [ request EXCEPT ![w] = r ]
      /\ db' = db /\ holds' = holds /\ calls' = calls
  BY <1>1, <1>6 DEF Unfulfill, At, Continue
<1>8. txn' = [ txn EXCEPT ![w] = x ]
  BY <1>1, <1>3, <1>4, <1>5 DEF Unfulfill
<1>9. FieldsOK(q) /\ PhaseOK(q) /\ FulfillmentOK(q, DOMAIN db.fulfillment)
  BY <1>1 DEF Typing, RequestOK
<1>10. TableOK("fulfilled", less)
  <2>1. DOMAIN less = DOMAIN q.loaded
    BY <1>1, <1>3
  <2>2. ASSUME NEW l \in DOMAIN q.loaded
        PROVE  l \in Lines /\ less[l] \in Int
    <3>1. l \in Lines /\ q.loaded[l] \in Int
      BY <1>9 DEF FieldsOK
    <3>2. \E i \in DOMAIN q.done : q.done[i].line = l
      BY <1>7, <1>9 DEF PhaseOK
    <3>3. PICK i : i = CHOOSE j \in DOMAIN request[w].done : request[w].done[j].line = l
      OBVIOUS
    <3>4. i \in DOMAIN q.done
      BY <1>1, <3>2, <3>3
    <3>5. q.done[i].quantity \in Nat
      <4>1. q.done \in Seq(Item)
        BY <1>9 DEF FieldsOK
      <4>2. q.done[i] \in Item
        BY <3>4, <4>1
      <4>3. QED
        BY <4>2 DEF Item
    <3>6. less[l] = q.loaded[l] - q.done[i].quantity
      BY <1>1, <1>3, <3>3
    <3>7. QED
      BY <3>1, <3>5, <3>6
  <2>3. QED
    BY <2>1, <2>2 DEF TableOK
<1>11. row \in FulfillmentRow
  <2>1. q.fulfillment \in DOMAIN db.fulfillment
    BY <1>7, <1>9 DEF FulfillmentOK
  <2>2. db.fulfillment[q.fulfillment] \in FulfillmentRow
    BY <2>1 DEF Typing, DbOK, WritesOK, TableOK, Tables
  <2>3. QED
    BY <1>4, <2>2 DEF FulfillmentRow, FulfillmentStatus
<1>12. WritesOK(x)
  <2>1. DOMAIN txn[w] = Tables /\ \A table \in Tables : TableOK(table, txn[w][table])
    BY DEF Typing, WritesOK
  <2>2. /\ DOMAIN x = Tables /\ x.fulfilled = Over(less, txn[w].fulfilled)
        /\ x.fulfillment = Row(q.fulfillment, row)
        /\ \A table \in Tables \ { "fulfilled", "fulfillment" } : x[table] = txn[w][table]
    BY <1>5, <2>1 DEF Tables
  <2>3. TableOK("fulfilled", x.fulfilled)
    BY <1>10, <2>1, <2>2, OverTyped DEF Tables
  <2>4. TableOK("fulfillment", x.fulfillment)
    BY <1>11, <2>2 DEF TableOK, Row
  <2>5. \A table \in Tables : TableOK(table, x[table])
    BY <2>1, <2>2, <2>3, <2>4
  <2>6. QED
    BY <2>2, <2>5 DEF WritesOK
<1>13. /\ DOMAIN r = Fields /\ r.phase = "update" /\ r.status = db.status[q.order]
       /\ r.items = << >>
       /\ \A field \in Fields \ { "phase", "status", "items" } : r[field] = q[field]
  BY <1>6, <1>9 DEF FieldsOK, Fields
<1>14. q.then # "sum" /\ DOMAIN holds' = Workers
  BY <1>7, <1>9 DEF PhaseOK, Typing
<1>15. r.items \in Seq(Item) /\ r.status \in OrderStatus /\ r.then = q.then
  <2>1. q.order \in Orders
    BY <1>7, <1>9 DEF FieldsOK
  <2>2. db.status[q.order] \in OrderStatus
    BY <2>1 DEF Typing, DbOK
  <2>3. QED
    BY <1>13, <2>2 DEF Fields
<1>16. QED
  BY <1>1, <1>7, <1>8, <1>12, <1>13, <1>14, <1>15, LastPhaseTyped

LEMMA SaveFulfillmentTyped ==
    ASSUME Typing, NEW w \in Workers, SaveFulfillment(w)
    PROVE  Typing'
<1>1. PICK q : q = request[w]
  OBVIOUS
<1>2. PICK row : row = [ db.fulfillment[q.fulfillment] EXCEPT !.status = q.final ]
  OBVIOUS
<1>3. PICK then : then = IF q.final = "cancellation processed" THEN "find" ELSE "idle"
  OBVIOUS
<1>4. PICK r : r = [ q EXCEPT !.phase = "commit", !.then = then ]
  OBVIOUS
<1>5. /\ q.phase = "save" /\ request' = [ request EXCEPT ![w] = r ]
      /\ Writes(w, "fulfillment", Row(q.fulfillment, row))
      /\ db' = db /\ holds' = holds /\ calls' = calls
  BY <1>1, <1>2, <1>3, <1>4 DEF SaveFulfillment, At, Continue
<1>6. FieldsOK(q) /\ PhaseOK(q) /\ FulfillmentOK(q, DOMAIN db.fulfillment)
  BY <1>1 DEF Typing, RequestOK
<1>7. /\ DOMAIN r = Fields /\ r.phase = "commit" /\ r.then = then
      /\ \A field \in Fields \ { "phase", "then" } : r[field] = q[field]
  BY <1>4, <1>6 DEF FieldsOK, Fields
<1>8. row \in FulfillmentRow
  <2>1. q.fulfillment \in DOMAIN db.fulfillment
    BY <1>5, <1>6 DEF FulfillmentOK
  <2>2. db.fulfillment[q.fulfillment] \in FulfillmentRow
    BY <2>1 DEF Typing, DbOK, WritesOK, TableOK, Tables
  <2>3. QED
    BY <1>2, <1>6, <2>2 DEF FulfillmentRow, FieldsOK
<1>9. PICK x : txn' = [ txn EXCEPT ![w] = x ] /\ WritesOK(x)
  <2>1. TableOK("fulfillment", Row(q.fulfillment, row))
    BY <1>8 DEF TableOK, Row
  <2>2. QED
    BY <1>5, <2>1, WrittenTyped DEF Tables
<1>10. q.then # "sum" /\ then \in { "idle", "find" } /\ DOMAIN holds' = Workers
  BY <1>3, <1>5, <1>6 DEF PhaseOK, Typing
<1>11. r.items \in Seq(Item) /\ r.status \in OrderStatus
  BY <1>6, <1>7 DEF FieldsOK, Fields
<1>12. QED
  BY <1>1, <1>5, <1>7, <1>9, <1>10, <1>11, LastPhaseTyped

LEMMA FindAllocationsTyped ==
    ASSUME Typing, NEW w \in Workers, FindAllocations(w)
    PROVE  Typing'
<1>1. PICK q : q = request[w]
  OBVIOUS
<1>2. PICK found : found =
        IF request[w].fulfillment # None
          THEN RowsOf({ db.fulfillment[request[w].fulfillment].lines[i].line :
                          i \in DOMAIN db.fulfillment[request[w].fulfillment].lines },
                      db.allocated)
          ELSE { k \in RowsOf(LinesOf(request[w].order), db.allocated) : db.allocated[k] > 0 }
  OBVIOUS
<1>3. PICK want : want = Locking(AllocationLock, ByStock(found))
  OBVIOUS
<1>4. PICK r : r = [ q EXCEPT !.phase = "release", !.want = want ]
  OBVIOUS
<1>5. /\ q.phase = "find" /\ request' = [ request EXCEPT ![w] = r ]
      /\ txn' = txn /\ db' = db /\ holds' = holds /\ calls' = calls
  BY <1>1, <1>2, <1>3, <1>4 DEF FindAllocations, At, Continue
<1>6. FieldsOK(q) /\ PhaseOK(q)
  BY <1>1 DEF Typing, RequestOK
<1>7. /\ DOMAIN r = Fields /\ r.phase = "release"
      /\ \A field \in Fields \ { "phase", "want" } : r[field] = q[field]
  BY <1>4, <1>6 DEF FieldsOK, Fields
<1>8. q.then # "sum" /\ DOMAIN holds' = Workers /\ WritesOK(txn[w])
  BY <1>5, <1>6 DEF PhaseOK, Typing
<1>9. r.items \in Seq(Item) /\ r.status \in OrderStatus /\ r.then = q.then
  BY <1>6, <1>7 DEF FieldsOK, Fields
<1>10. QED
  BY <1>1, <1>5, <1>7, <1>8, <1>9, LastPhaseTyped

LEMMA ReleaseAllocationsTyped ==
    ASSUME Typing, NEW w \in Workers, ReleaseAllocations(w)
    PROVE  Typing'
<1>1. PICK q : q = request[w]
  OBVIOUS
<1>2. PICK zeros :
        zeros = [ k \in { j \in DOMAIN db.allocated : AllocationLock(j) \in holds[w] } |-> 0 ]
  OBVIOUS
<1>3. PICK r : r = IF q.fulfillment # None THEN [ q EXCEPT !.phase = "commit" ]
                   ELSE [ q EXCEPT !.phase = "order", !.status = "canceled",
                                   !.want = << OrderLock(q.order) >> ]
  OBVIOUS
<1>4. /\ q.phase = "release" /\ request' = [ request EXCEPT ![w] = r ]
      /\ Writes(w, "allocated", zeros)
      /\ db' = db /\ holds' = holds /\ calls' = calls
  BY <1>1, <1>2, <1>3 DEF ReleaseAllocations, At, Continue
<1>5. FieldsOK(q) /\ PhaseOK(q)
  BY <1>1 DEF Typing, RequestOK
<1>6. /\ DOMAIN r = Fields /\ r.phase \in { "commit", "order" } /\ r.status \in OrderStatus
      /\ \A field \in Fields \ { "phase", "status", "want" } : r[field] = q[field]
  BY <1>3, <1>5 DEF FieldsOK, Fields, OrderStatus
<1>7. PICK x : txn' = [ txn EXCEPT ![w] = x ] /\ WritesOK(x)
  <2>1. TableOK("allocated", zeros)
    BY <1>2 DEF TableOK, Typing, DbOK, WritesOK, Tables
  <2>2. QED
    BY <1>4, <2>1, WrittenTyped DEF Tables
<1>8. q.then # "sum" /\ DOMAIN holds' = Workers
  BY <1>4, <1>5 DEF PhaseOK, Typing
<1>9. r.items \in Seq(Item) /\ r.then = q.then
  BY <1>5, <1>6 DEF FieldsOK, Fields
<1>10. QED
  BY <1>1, <1>4, <1>6, <1>7, <1>8, <1>9, LastPhaseTyped

-----------------------------------------------------------------------------
(* The types of the specification.                                         *)

LEMMA CommitTyped ==
    ASSUME Typing, NEW w \in Workers, Commit(w)
    PROVE  Typing'
<1>1. PICK q : q = request[w]
  OBVIOUS
<1>2. PICK d : d = [ table \in Tables |-> Seen(w, table) ]
  OBVIOUS
<1>3. PICK want : want = IF q.then = "save" THEN << FulfillmentLock(q.fulfillment) >> ELSE << >>
  OBVIOUS
<1>4. PICK n : n = [ q EXCEPT !.phase = q.then, !.then = "idle", !.want = want ]
  OBVIOUS
<1>5. PICK r : r = IF q.then = "idle" THEN Idle ELSE n
  OBVIOUS
<1>6. /\ q.phase = "commit" /\ db' = d /\ txn' = [ txn EXCEPT ![w] = NoWrites ]
      /\ holds' = [ holds EXCEPT ![w] = {} ]
      /\ request' = [ request EXCEPT ![w] = r ] /\ calls' = calls
  BY <1>1, <1>2, <1>3, <1>4, <1>5 DEF Commit, At, Continue
<1>7. FieldsOK(q) /\ PhaseOK(q) /\ FulfillmentOK(q, DOMAIN db.fulfillment)
  BY <1>1 DEF Typing, RequestOK
<1>8. DbOK(d)
  <2>1. WritesOK(d)
    BY <1>2, SeenTyped DEF WritesOK
  <2>2. d.quantity = Seen(w, "quantity") /\ d.fulfilled = Seen(w, "fulfilled")
        /\ d.status = Seen(w, "status")
    BY <1>2 DEF Tables
  <2>3. d.status \in [ Orders -> OrderStatus ]
    <3>1. DOMAIN txn[w].status \subseteq Orders
          /\ \A o \in DOMAIN txn[w].status : txn[w].status[o] \in OrderStatus
      BY DEF Typing, WritesOK, TableOK, Tables
    <3>2. db.status \in [ Orders -> OrderStatus ]
      BY DEF Typing, DbOK
    <3>3. QED
      BY <2>2, <3>1, <3>2 DEF Seen, Over
  <2>4. QED
    BY <2>1, <2>2, <2>3, SeenRows DEF DbOK
<1>9. DOMAIN db.fulfillment \subseteq DOMAIN d.fulfillment
  BY <1>2 DEF Tables, Seen, Over
<1>10. RequestOK(r, DOMAIN d.fulfillment)
  <2>1. CASE q.then = "idle"
    BY <1>5, <2>1, IdleOK
  <2>2. CASE q.then # "idle"
    <3>1. /\ DOMAIN n = Fields /\ n.phase = q.then /\ n.then = "idle"
          /\ \A field \in Fields \ { "phase", "then", "want" } : n[field] = q[field]
      BY <1>4, <1>7 DEF FieldsOK, Fields
    <3>2. q.then \in { "sum", "save", "find" }
      BY <1>7, <2>2 DEF FieldsOK
    <3>3. FieldsOK(n)
      BY <1>6, <1>7, <3>1, <3>2 DEF FieldsOK, Fields, Phases
    <3>4. PhaseOK(n)
      BY <1>6, <1>7, <3>1, <3>2 DEF PhaseOK, LinePhases, Fields
    <3>5. FulfillmentOK(n, DOMAIN d.fulfillment)
      BY <1>6, <1>7, <1>9, <3>1, <3>2 DEF FulfillmentOK, Fields
    <3>6. QED
      BY <1>5, <2>2, <3>3, <3>4, <3>5 DEF RequestOK
  <2>3. QED
    BY <2>1, <2>2
<1>11. calls' \in 0 .. MaxCalls /\ DOMAIN holds' = Workers
  BY <1>6 DEF Typing
<1>12. QED
  BY <1>6, <1>8, <1>9, <1>10, <1>11, NoWritesOK, DbStepTyped

LEMMA FailsTyped ==
    ASSUME Typing, NEW w \in Workers, Fails(w)
    PROVE  Typing'
<1>1. CASE request[w].phase \in SavepointPhases
  <2>1. LineFails(w) /\ request[w].phase \in LinePhases
    BY <1>1 DEF Fails, SavepointPhases
  <2>2. QED
    BY <2>1, LineFailsTyped
<1>2. CASE request[w].phase \notin SavepointPhases
  <2>1. CallFails(w)
    BY <1>2 DEF Fails
  <2>2. QED
    BY <2>1, CallFailsTyped
<1>3. QED
  BY <1>1, <1>2

LEMMA StepKeepsTypes ==
    ASSUME Typing, NEW w \in Workers, Step(w)
    PROVE  Typing'
<1>1. CASE NotAllocated(w) \/ TooMany(w)
  BY <1>1, CallFailsTyped DEF NotAllocated, TooMany
<1>2. CASE NotEnough(w)
  <2>1. request[w].phase \in LinePhases /\ LineFails(w)
    BY <1>2 DEF NotEnough, At, LinePhases
  <2>2. QED
    BY <2>1, LineFailsTyped
<1>3. CASE \/ Lock(w) \/ Commit(w) \/ SaveDraft(w) \/ SumAllocations(w) \/ AllocateStock(w)
           \/ CleanLines(w)
  BY <1>3, LockTyped, CommitTyped, SaveDraftTyped, SumAllocationsTyped, AllocateStockTyped,
     CleanLinesTyped
<1>4. CASE \/ FulfillLine(w) \/ Deallocate(w) \/ TooFewAllocated(w) \/ ZeroAllocations(w)
           \/ DecreaseStock(w) \/ FulfillOrderLine(w) \/ CreateFulfillment(w)
  BY <1>4, FulfillLineTyped, DeallocateTyped, TooFewAllocatedTyped, ZeroAllocationsTyped,
     DecreaseStockTyped, FulfillOrderLineTyped, CreateFulfillmentTyped
<1>5. CASE \/ UpdateOrderStatus(w) \/ SaveOrder(w) \/ ReadFulfillment(w) \/ RestockLine(w)
           \/ IncreaseStock(w) \/ RestockedAll(w)
  BY <1>5, UpdateOrderStatusTyped, SaveOrderTyped, ReadFulfillmentTyped, RestockLineTyped,
     IncreaseStockTyped, RestockedAllTyped
<1>6. CASE \/ Unfulfill(w) \/ SaveFulfillment(w) \/ FindAllocations(w) \/ ReleaseAllocations(w)
  BY <1>6, UnfulfillTyped, SaveFulfillmentTyped, FindAllocationsTyped, ReleaseAllocationsTyped
<1>7. QED
  BY <1>1, <1>2, <1>3, <1>4, <1>5, <1>6 DEF Step

LEMMA InitTyped == Init => Typing
<1> SUFFICES ASSUME Init PROVE Typing
  OBVIOUS
<1>2. /\ db.quantity = Initial /\ DOMAIN db.allocated = {} /\ DOMAIN db.fulfillment = {}
      /\ db.fulfilled = [ l \in Lines |-> 0 ] /\ DOMAIN db = Tables
      /\ db.status = [ o \in Orders |-> IF o \in Drafts THEN "draft" ELSE "absent" ]
  BY DEF Init, NoRows, Tables
<1>3. DbOK(db)
  <2>1. WritesOK(db)
    <3>1. TableOK("quantity", db.quantity)
      BY <1>2, StockAssumption DEF TableOK
    <3>2. TableOK("fulfilled", db.fulfilled)
      BY <1>2 DEF TableOK
    <3>3. TableOK("status", db.status)
      BY <1>2 DEF TableOK, OrderStatus
    <3>4. TableOK("allocated", db.allocated) /\ TableOK("fulfillment", db.fulfillment)
      BY <1>2 DEF TableOK
    <3>5. QED
      BY <1>2, <3>1, <3>2, <3>3, <3>4 DEF WritesOK, Tables
  <2>2. QED
    BY <1>2, <2>1, StockAssumption DEF DbOK, OrderStatus
<1>4. \A w \in Workers : WritesOK(txn[w]) /\ RequestOK(request[w], DOMAIN db.fulfillment)
  <2>1. \A w \in Workers : txn[w] = NoWrites /\ request[w] = Idle
    BY DEF Init
  <2>2. QED
    BY <2>1, NoWritesOK, IdleOK
<1>5. /\ DOMAIN txn = Workers /\ DOMAIN request = Workers /\ DOMAIN holds = Workers
      /\ calls \in 0 .. MaxCalls
  BY StockAssumption DEF Init
<1>6. QED
  BY <1>3, <1>4, <1>5 DEF Typing

LEMMA NextTyped == Typing /\ [ Next ]_vars => Typing'
<1> SUFFICES ASSUME Typing, [ Next ]_vars PROVE Typing'
  OBVIOUS
<1>2. CASE Next
  <2>1. PICK w \in Workers :
          \/ \E o \in Orders :
               \/ CheckoutOrder(w, o)
               \/ DraftOrderComplete(w, o)
               \/ \E s \in Stocks : \E items \in Requested(o, WarehouseOf[s]) :
                    \E status \in Given : OrderFulfill(w, o, items, status)
               \/ OrderCancel(w, o)
          \/ \E f \in DOMAIN db.fulfillment :
               \/ \E s \in Stocks : FulfillmentCancel(w, f, WarehouseOf[s])
               \/ \E s \in Stocks : CancelledByCustomer(w, f, WarehouseOf[s])
               \/ \E status \in { "shipped", "cancellation processed" } :
                    UpdateFulfillment(w, f, status)
          \/ Step(w)
          \/ DeadlockDetected(w)
    BY <1>2 DEF Next
  <2>2. ASSUME NEW o \in Orders,
               \/ CheckoutOrder(w, o) \/ DraftOrderComplete(w, o) \/ OrderCancel(w, o)
        PROVE  Typing'
    BY <2>2, CheckoutOrderTyped, DraftOrderCompleteTyped, OrderCancelTyped
  <2>3. ASSUME NEW o \in Orders, NEW s \in Stocks, NEW items \in Requested(o, WarehouseOf[s]),
               NEW status \in Given, OrderFulfill(w, o, items, status)
        PROVE  Typing'
    <3>1. PICK h : h = WarehouseOf[s]
      OBVIOUS
    <3>2. items \in Requested(o, h)
      BY <3>1
    <3>3. QED
      BY <2>3, <3>2, OrderFulfillTyped
  <2>4. ASSUME NEW f \in DOMAIN db.fulfillment, NEW s \in Stocks,
               FulfillmentCancel(w, f, WarehouseOf[s]) \/ CancelledByCustomer(w, f, WarehouseOf[s])
        PROVE  Typing'
    <3>1. PICK h : h = WarehouseOf[s]
      OBVIOUS
    <3>2. FulfillmentCancel(w, f, h) \/ CancelledByCustomer(w, f, h)
      BY <2>4, <3>1
    <3>3. QED
      BY <3>2, FulfillmentCancelTyped, CancelledByCustomerTyped
  <2>5. ASSUME NEW f \in DOMAIN db.fulfillment,
               NEW status \in { "shipped", "cancellation processed" },
               UpdateFulfillment(w, f, status)
        PROVE  Typing'
    <3>1. status \in FulfillmentStatus
      BY DEF FulfillmentStatus
    <3>2. QED
      BY <2>5, <3>1, UpdateFulfillmentTyped
  <2>6. CASE Step(w) \/ DeadlockDetected(w)
    BY <2>6, StepKeepsTypes, FailsTyped DEF DeadlockDetected
  <2>7. QED
    BY <2>1, <2>2, <2>3, <2>4, <2>5, <2>6
<1>3. CASE UNCHANGED vars
  BY <1>3 DEF vars, Typing, DbOK, WritesOK, TableOK, RequestOK, FieldsOK, PhaseOK, FulfillmentOK
<1>4. QED
  BY <1>2, <1>3

\* The rows that are committed have their columns' types, whatever the calls
\* write, interleave and roll back: the quantity of a stock and an allocation
\* are never negative, which a PositiveIntegerField would refuse to save.
THEOREM TypesOK == Spec => []TypeOK
<1>1. Typing => TypeOK
  <2> SUFFICES ASSUME Typing PROVE TypeOK
    OBVIOUS
  <2>2. DbOK(db) /\ WritesOK(db)
    BY DEF Typing, DbOK
  <2>3. \A k \in DOMAIN db.allocated : k \in Lines \X Stocks /\ db.allocated[k] \in Nat
    BY <2>2 DEF WritesOK, TableOK, Tables
  <2>4. \A f \in DOMAIN db.fulfillment : db.fulfillment[f] \in FulfillmentRow
    BY <2>2 DEF WritesOK, TableOK, Tables
  <2>5. \A w \in Workers : DOMAIN txn[w] = Tables /\ request[w].phase \in Phases
    BY DEF Typing, WritesOK, RequestOK, FieldsOK
  <2>6. QED
    BY <2>2, <2>3, <2>4, <2>5 DEF TypeOK, DbOK, Typing
<1>2. QED
  BY <1>1, InitTyped, NextTyped, PTL DEF Spec

-----------------------------------------------------------------------------
(* The order in which rows are locked.                                     *)

LEMMA Greatest ==
    ASSUME NEW S, IsFiniteSet(S), S # {}, NEW number, \A x \in S : number[x] \in Nat
    PROVE  \E m \in S : \A x \in S : number[x] <= number[m]
<1>1. PICK good : good = { T \in SUBSET S :
                             T # {} => \E m \in T : \A x \in T : number[x] <= number[m] }
  OBVIOUS
<1>2. {} \in good
  BY <1>1
<1>3. ASSUME NEW T \in SUBSET S, NEW x \in S \ T, T \in good
      PROVE  T \cup { x } \in good
  <2>1. CASE T = {}
    BY <1>1, <2>1
  <2>2. CASE T # {}
    <3>1. PICK m \in T : \A y \in T : number[y] <= number[m]
      BY <1>1, <1>3, <2>2
    <3>2. number[m] <= number[x] \/ number[x] <= number[m]
      BY <3>1
    <3>3. CASE number[m] <= number[x]
      <4>1. \A y \in T \cup { x } : number[y] <= number[x]
        BY <3>1, <3>3
      <4>2. QED
        BY <1>1, <4>1
    <3>4. CASE number[x] <= number[m]
      <4>1. \A y \in T \cup { x } : number[y] <= number[m]
        BY <3>1, <3>4
      <4>2. QED
        BY <1>1, <4>1
    <3>5. QED
      BY <3>2, <3>3, <3>4
  <2>3. QED
    BY <2>1, <2>2
<1>4. S \in good
  BY <1>2, <1>3, SubsetInduction
<1>5. QED
  BY <1>1, <1>4

\* Finitely many rows can be put in the order of the numbers they have.
LEMMA Enumerated ==
    ASSUME NEW S, IsFiniteSet(S), NEW number, \A x \in S : number[x] \in Nat
    PROVE  \E q \in [ 1 .. Cardinality(S) -> S ] :
             \A i, j \in 1 .. Cardinality(S) :
               i < j => q[i] # q[j] /\ number[q[i]] <= number[q[j]]
<1>1. PICK good : good = { n \in Nat : \A T \in SUBSET S : Cardinality(T) = n =>
                             \E q \in [ 1 .. n -> T ] :
                               \A i, j \in 1 .. n :
                                 i < j => q[i] # q[j] /\ number[q[i]] <= number[q[j]] }
  OBVIOUS
<1>2. 0 \in good
  <2>1. ASSUME NEW T \in SUBSET S
        PROVE  \E q \in [ 1 .. 0 -> T ] :
                 \A i, j \in 1 .. 0 : i < j => q[i] # q[j] /\ number[q[i]] <= number[q[j]]
    <3>1. PICK q : q = [ i \in 1 .. 0 |-> 0 ]
      OBVIOUS
    <3>2. q \in [ 1 .. 0 -> T ]
      BY <3>1
    <3>3. \A i \in 1 .. 0 : FALSE
      OBVIOUS
    <3>4. \A i, j \in 1 .. 0 : i < j => q[i] # q[j] /\ number[q[i]] <= number[q[j]]
      BY <3>3
    <3>5. QED
      BY <3>2, <3>4
  <2>2. QED
    BY <1>1, <2>1
<1>3. ASSUME NEW n \in Nat, n \in good
      PROVE  n + 1 \in good
  <2>1. SUFFICES ASSUME NEW T \in SUBSET S, Cardinality(T) = n + 1
                 PROVE  \E q \in [ 1 .. n + 1 -> T ] :
                          \A i, j \in 1 .. n + 1 :
                            i < j => q[i] # q[j] /\ number[q[i]] <= number[q[j]]
    BY <1>1
  <2>2. IsFiniteSet(T)
    BY FS_Subset
  <2>3. T # {}
    BY <2>1, FS_EmptySet
  <2>4. PICK m \in T : \A x \in T : number[x] <= number[m]
    BY <2>2, <2>3, Greatest
  <2>5. Cardinality(T \ { m }) = n
    <3>1. Cardinality(T \ { m }) = Cardinality(T) - 1
      BY <2>2, FS_RemoveElement
    <3>2. QED
      BY <2>1, <3>1
  <2>6. PICK q \in [ 1 .. n -> T \ { m } ] :
          \A i, j \in 1 .. n : i < j => q[i] # q[j] /\ number[q[i]] <= number[q[j]]
    BY <1>1, <1>3, <2>5
  <2>7. PICK p : p = [ i \in 1 .. n + 1 |-> IF i = n + 1 THEN m ELSE q[i] ]
    OBVIOUS
  <2>8. p[n + 1] = m /\ \A i \in 1 .. n : p[i] = q[i] /\ q[i] \in T \ { m }
    BY <2>7
  <2>9. p \in [ 1 .. n + 1 -> T ]
    BY <2>6, <2>7
  <2>10. ASSUME NEW i \in 1 .. n + 1, NEW j \in 1 .. n + 1, i < j
         PROVE  p[i] # p[j] /\ number[p[i]] <= number[p[j]]
    <3>1. i \in 1 .. n
      BY <2>10
    <3>2. CASE j = n + 1
      BY <2>4, <2>8, <3>1, <3>2
    <3>3. CASE j # n + 1
      <4>1. j \in 1 .. n
        BY <3>3
      <4>2. QED
        BY <2>6, <2>8, <2>10, <3>1, <4>1
    <3>4. QED
      BY <3>2, <3>3
  <2>11. QED
    BY <2>9, <2>10
<1>4. Nat \subseteq good
  BY <1>2, <1>3, NumberInduction
<1>5. Cardinality(S) \in Nat
  BY FS_CardinalityType
<1>6. QED
  BY <1>1, <1>4, <1>5

LEMMA InOrderIs ==
    ASSUME NEW S, IsFiniteSet(S), NEW number, \A x \in S : number[x] \in Nat
    PROVE  /\ InOrder(S, number) \in Seq(S)
           /\ Len(InOrder(S, number)) = Cardinality(S)
           /\ DOMAIN InOrder(S, number) = 1 .. Cardinality(S)
           /\ Cardinality(S) \in Nat
           /\ \A x \in S : \E i \in 1 .. Cardinality(S) : InOrder(S, number)[i] = x
<1>1. PICK n : n = Cardinality(S) /\ n \in Nat
  BY FS_CardinalityType
<1>2. PICK q : q = InOrder(S, number)
  OBVIOUS
<1>3. /\ q \in [ 1 .. n -> S ]
      /\ \A i, j \in 1 .. n : i < j => q[i] # q[j] /\ number[q[i]] <= number[q[j]]
  <2>1. /\ q \in [ 1 .. Cardinality(S) -> S ]
        /\ \A i, j \in 1 .. Cardinality(S) :
             i < j => q[i] # q[j] /\ number[q[i]] <= number[q[j]]
    <3>1. \E p \in [ 1 .. Cardinality(S) -> S ] :
             \A i, j \in 1 .. Cardinality(S) :
               i < j => p[i] # p[j] /\ number[p[i]] <= number[p[j]]
      BY Enumerated
    <3>2. QED
      BY <1>2, <3>1, Zenon DEF InOrder
  <2>2. QED
    BY <1>1, <2>1
<1>4. \A i, j \in 1 .. n : q[i] = q[j] => i = j
  <2>1. ASSUME NEW i \in 1 .. n, NEW j \in 1 .. n, q[i] = q[j]
        PROVE  i = j
    <3>1. ~(i < j) /\ ~(j < i)
      BY <1>3, <2>1
    <3>2. QED
      BY <3>1
  <2>2. QED
    BY <2>1
<1>5. q \in Injection(1 .. n, S)
  BY <1>3, <1>4 DEF Injection, IsInjective
<1>6. Cardinality(1 .. n) = n
  BY <1>1, FS_Interval
<1>7. q \in Surjection(1 .. n, S)
  BY <1>1, <1>5, <1>6, FS_Injection
<1>8. \A x \in S : \E i \in 1 .. n : q[i] = x
  BY <1>7 DEF Surjection
<1>9. q \in Seq(S) /\ Len(q) = n /\ DOMAIN q = 1 .. n
  BY <1>1, <1>3
<1>10. QED
  BY <1>1, <1>2, <1>8, <1>9

-----------------------------------------------------------------------------
(* Orders are placed, fulfilled and canceled: what the locks protect.      *)

Ours == Operations \subseteq { "checkout", "fulfill", "cancel order" }

LockRows ==
    { StockLock(s) : s \in Stocks } \cup { AllocationLock(k) : k \in Lines \X Stocks }
    \cup { LineLock(l) : l \in Lines } \cup { OrderLock(o) : o \in Orders }

\* The call r, among the rows d, is the one that places its order.
Placing(r, d) == r.phase # "idle" /\ d.status[r.order] = "absent"

\* The course a call takes.
CourseOK(r, d) ==
    /\ r.then = "idle"
    /\ r.phase \in { "idle", "commit", "sum", "allocate", "clean", "line", "update", "order",
                     "find", "release" } \cup LinePhases
    /\ r.phase \in { "find", "release" } => r.fulfillment = None
    /\ r.phase \in { "sum", "allocate", "clean", "line" } \cup LinePhases =>
         \A i \in DOMAIN r.items : OrderOf[r.items[i].line] = r.order
    /\ r.phase \in { "sum", "allocate" } => Placing(r, d)
    /\ Placing(r, d) => r.phase \in { "sum", "allocate", "commit" } /\ r.order \notin Drafts
    /\ r.phase = "order" => r.status # "absent"
    /\ r.want \in Seq(LockRows)

\* What its transaction has written, x, and the locks it had for that.  An
\* order that is being placed is locked with the stocks it takes from; any
\* other call lowers allocations that are there, each locked.
WritesLocked(r, x, locked, d) ==
    /\ \A k \in DOMAIN x.allocated : OrderOf[k[1]] = r.order
    /\ \A o \in DOMAIN x.status : o = r.order /\ x.status[o] # "absent"
    /\ Placing(r, d) =>
         /\ OrderLock(r.order) \in locked
         /\ r.order \in DOMAIN x.status
         /\ DOMAIN x.quantity = {}
         /\ \A k \in DOMAIN x.allocated : StockLock(k[2]) \in locked
    /\ ~Placing(r, d) =>
         /\ \A k \in DOMAIN x.allocated :
              /\ k \in DOMAIN d.allocated /\ x.allocated[k] <= d.allocated[k]
              /\ AllocationLock(k) \in locked
         /\ \A s \in DOMAIN x.quantity : StockLock(s) \in locked
         /\ DOMAIN x.status # {} => r.phase = "commit"
    /\ r.phase \in { "idle", "find", "release" } => x = NoWrites

\* It waits for the locks it needs, or has them.
Waits(r, locked) == locked \cup { r.want[i] : i \in DOMAIN r.want }

Covered(r, locked, d) ==
    /\ r.phase \in { "deallocate", "zero" } =>
         \A k \in DOMAIN d.allocated :
           k[1] = r.items[1].line => AllocationLock(k) \in Waits(r, locked)
    /\ r.phase = "ship" => StockLock(r.items[1].stock) \in Waits(r, locked)
    /\ r.phase = "allocate" => \A s \in DOMAIN r.sums : StockLock(s) \in Waits(r, locked)
    /\ r.phase \in { "idle", "find" } => locked = {} /\ r.want = << >>
    /\ r.phase = "release" =>
         /\ \A k \in DOMAIN d.allocated :
              OrderOf[k[1]] = r.order =>
                d.allocated[k] = 0 \/ AllocationLock(k) \in Waits(r, locked)
         /\ \A k \in Lines \X Stocks :
              AllocationLock(k) \in Waits(r, locked) => OrderOf[k[1]] = r.order

\* The stock suffices for what is allocated of it.
Suffices(x, d) ==
    \A s \in Stocks :
      AllocatedIn(s, Over(x.allocated, d.allocated)) <= Over(x.quantity, d.quantity)[s]

\* When the stocks are locked no more of them is allocated than was summed.
FreshSums ==
    \A w \in Workers : At(w, "allocate") =>
      \A s \in DOMAIN request[w].sums : AllocatedIn(s, Seen(w, "allocated")) <= request[w].sums[s]

\* A call about to cancel its order has freed all the allocations.
Cancels(r, x) ==
    \/ r.phase = "order" /\ r.status = "canceled"
    \/ \E o \in DOMAIN x.status : x.status[o] = "canceled"

Freed(r, x, d) ==
    Cancels(r, x) =>
      /\ ~Placing(r, d)
      /\ \A k \in DOMAIN x.allocated : x.allocated[k] = 0
      /\ \A k \in DOMAIN d.allocated \ DOMAIN x.allocated :
           OrderOf[k[1]] = r.order => d.allocated[k] = 0

\* To which rows and locks a line that fails goes back.  Here and below,
\* sure: the sums are fresh, and stocks suffice.
Savepoint(sure, r, x, locked, d) ==
    /\ r.phase \in LinePhases =>
         /\ r.kept \subseteq locked
         /\ WritesLocked(r, r.base, r.kept, d)
         /\ sure => Suffices(r.base, d)
    /\ r.phase \in LinePhases => DOMAIN r.base.status = {}
    /\ r.phase = "deallocate" => x = r.base

CallOK(sure, r, x, locked, d) ==
    /\ CourseOK(r, d)
    /\ WritesLocked(r, x, locked, d)
    /\ Covered(r, locked, d)
    /\ Savepoint(sure, r, x, locked, d)
    /\ Freed(r, x, d)
    /\ sure => Suffices(x, d)

RowsOK(sure, d) ==
    /\ \A k \in DOMAIN d.allocated : d.status[OrderOf[k[1]]] # "absent"
    /\ \A k \in DOMAIN d.allocated :
         d.status[OrderOf[k[1]]] = "canceled" => d.allocated[k] = 0
    /\ sure => \A s \in Stocks : AllocatedIn(s, d.allocated) <= d.quantity[s]

Discipline(sure) ==
    /\ \A v, w \in Workers : v # w => holds[v] \cap holds[w] = {}
    /\ RowsOK(sure, db)
    /\ \A w \in Workers : CallOK(sure, request[w], txn[w], holds[w], db)

\* One worker's step, among the rows as they are then.
LEMMA Keeps ==
    ASSUME NEW sure, NEW w \in Workers, NEW r, NEW x, NEW h, NEW d, db' = d, RowsOK(sure, d),
           \A v \in Workers : request'[v] = IF v = w THEN r ELSE request[v],
           \A v \in Workers : txn'[v] = IF v = w THEN x ELSE txn[v],
           \A v \in Workers : holds'[v] = IF v = w THEN h ELSE holds[v],
           \A v, u \in Workers : v # u => holds[v] \cap holds[u] = {},
           \A v \in Workers \ { w } : h \cap holds[v] = {},
           CallOK(sure, r, x, h, d),
           \A v \in Workers \ { w } : CallOK(sure, request[v], txn[v], holds[v], d)
    PROVE  Discipline(sure)'
<1>1. RowsOK(sure, db)'
  BY DEF RowsOK
<1>2. (\A v, u \in Workers : v # u => holds[v] \cap holds[u] = {})'
  OBVIOUS
<1>3. (\A v \in Workers : CallOK(sure, request[v], txn[v], holds[v], db))'
  <2>1. SUFFICES ASSUME NEW v \in Workers PROVE CallOK(sure, request[v], txn[v], holds[v], db)'
    OBVIOUS
  <2>2. PICK q, y, g : /\ q = request'[v] /\ y = txn'[v] /\ g = holds'[v]
                       /\ CallOK(sure, q, y, g, d)
    <3>1. CASE v = w
      BY <3>1
    <3>2. CASE v # w
      BY <3>2
    <3>3. QED
      BY <3>1, <3>2
  <2>3. CourseOK(request[v], db)'
    BY <2>2 DEF CallOK, CourseOK, Placing
  <2>4. WritesLocked(request[v], txn[v], holds[v], db)'
    BY <2>2 DEF CallOK, WritesLocked, Placing
  <2>5. Covered(request[v], holds[v], db)'
    BY <2>2 DEF CallOK, Covered, Waits
  <2>6. Savepoint(sure, request[v], txn[v], holds[v], db)'
    BY <2>2 DEF CallOK, Savepoint, WritesLocked, Placing, Suffices
  <2>7. Freed(request[v], txn[v], db)'
    BY <2>2 DEF CallOK, Freed, Cancels, Placing
  <2>8. sure => Suffices(txn[v], db)'
    BY <2>2 DEF CallOK, Suffices
  <2>9. QED
    BY <2>3, <2>4, <2>5, <2>6, <2>7, <2>8 DEF CallOK
<1>4. QED
  BY <1>1, <1>2, <1>3 DEF Discipline

\* One that leaves the committed rows alone.
LEMMA LocalStep ==
    ASSUME NEW sure, Typing, Discipline(sure), NEW w \in Workers, NEW r, NEW x, NEW h, db' = db,
           request' = [ request EXCEPT ![w] = r ],
           txn' = [ txn EXCEPT ![w] = x ] \/ (txn' = txn /\ x = txn[w]),
           holds' = [ holds EXCEPT ![w] = h ] \/ (holds' = holds /\ h = holds[w]),
           h \subseteq holds[w] \/ \A v \in Workers \ { w } : h \cap holds[v] = {},
           CallOK(sure, r, x, h, db)
    PROVE  Discipline(sure)'
<1>1. DOMAIN request = Workers /\ DOMAIN txn = Workers /\ DOMAIN holds = Workers
  BY DEF Typing
<1>2. /\ \A v \in Workers : request'[v] = IF v = w THEN r ELSE request[v]
      /\ \A v \in Workers : txn'[v] = IF v = w THEN x ELSE txn[v]
      /\ \A v \in Workers : holds'[v] = IF v = w THEN h ELSE holds[v]
  BY <1>1
<1>3. /\ RowsOK(sure, db)
      /\ \A v, u \in Workers : v # u => holds[v] \cap holds[u] = {}
      /\ \A v \in Workers : CallOK(sure, request[v], txn[v], holds[v], db)
  BY DEF Discipline
<1>4. \A v \in Workers \ { w } : h \cap holds[v] = {}
  BY <1>3
<1>5. QED
  BY <1>2, <1>3, <1>4, Keeps

\* What is known of a call at each of its steps.
LEMMA OfCall ==
    ASSUME NEW sure, Typing, Discipline(sure), NEW w \in Workers, NEW q, q = request[w]
    PROVE  /\ FieldsOK(q) /\ PhaseOK(q) /\ CourseOK(q, db)
           /\ WritesLocked(q, txn[w], holds[w], db) /\ Covered(q, holds[w], db)
           /\ Savepoint(sure, q, txn[w], holds[w], db) /\ Freed(q, txn[w], db)
           /\ sure => Suffices(txn[w], db)
           /\ WritesOK(txn[w]) /\ DbOK(db) /\ RowsOK(sure, db)
  BY DEF Typing, RequestOK, Discipline, CallOK

LEMMA AllocatedAtMost ==
    ASSUME NEW rows, TableOK("allocated", rows), NEW more, TableOK("allocated", more), NEW s,
           \A k \in DOMAIN rows : k[2] = s => k \in DOMAIN more /\ rows[k] <= more[k]
    PROVE  AllocatedIn(s, rows) <= AllocatedIn(s, more)
<1>1. PICK S : S = AtStock(s, rows)
  OBVIOUS
<1>2. PICK T : T = AtStock(s, more)
  OBVIOUS
<1>3. /\ IsFiniteSet(S) /\ IsFiniteSet(T)
      /\ AllocatedIn(s, rows) = SumFunctionOnSet(rows, S)
      /\ AllocatedIn(s, more) = SumFunctionOnSet(more, T)
  BY <1>1, <1>2, AllocatedInNat
<1>4. /\ S \subseteq T /\ \A k \in T : more[k] \in Nat
      /\ \A k \in S : rows[k] \in Nat /\ more[k] \in Nat /\ rows[k] <= more[k]
  BY <1>1, <1>2, AllocationRows DEF AtStock
<1>5. SumFunctionOnSet(rows, S) <= SumFunctionOnSet(more, S)
  BY <1>3, <1>4, SumAtMost
<1>6. SumFunctionOnSet(more, S) <= SumFunctionOnSet(more, T)
  BY <1>3, <1>4, SumOfSubset
<1>7. /\ SumFunctionOnSet(rows, S) \in Nat /\ SumFunctionOnSet(more, S) \in Nat
      /\ SumFunctionOnSet(more, T) \in Nat
  BY <1>3, <1>4, SumNat
<1>8. QED
  BY <1>3, <1>5, <1>6, <1>7

\* The rows of a table as a transaction sees them.
LEMMA Sees ==
    ASSUME NEW x, WritesOK(x), NEW d, DbOK(d)
    PROVE  /\ TableOK("allocated", Over(x.allocated, d.allocated))
           /\ TableOK("allocated", x.allocated) /\ TableOK("allocated", d.allocated)
           /\ DOMAIN x.quantity \subseteq Stocks /\ \A s \in DOMAIN x.quantity : x.quantity[s] \in Nat
           /\ Over(x.quantity, d.quantity) \in [ Stocks -> Nat ]
           /\ \A s \in Stocks : Over(x.quantity, d.quantity)[s] =
                                  IF s \in DOMAIN x.quantity THEN x.quantity[s] ELSE d.quantity[s]
<1>1. TableOK("allocated", x.allocated) /\ TableOK("allocated", d.allocated)
      /\ TableOK("quantity", x.quantity)
  BY DEF WritesOK, DbOK, Tables
<1>2. DOMAIN x.quantity \subseteq Stocks /\ \A s \in DOMAIN x.quantity : x.quantity[s] \in Nat
  BY <1>1 DEF TableOK
<1>3. d.quantity \in [ Stocks -> Nat ]
  BY DEF DbOK
<1>4. /\ Over(x.quantity, d.quantity) \in [ Stocks -> Nat ]
      /\ \A s \in Stocks : Over(x.quantity, d.quantity)[s] =
                             IF s \in DOMAIN x.quantity THEN x.quantity[s] ELSE d.quantity[s]
  BY <1>2, <1>3 DEF Over
<1>5. QED
  BY <1>1, <1>2, <1>4, OverTyped

LEMMA NoWritesAre ==
    /\ DOMAIN NoWrites = Tables
    /\ DOMAIN NoWrites.allocated = {} /\ DOMAIN NoWrites.quantity = {} /\ DOMAIN NoWrites.status = {}
  BY DEF NoWrites, NoRows, Tables

LEMMA EndsOK ==
    ASSUME NEW sure, NEW d, DbOK(d), RowsOK(sure, d), NEW h, h = {}
    PROVE  CallOK(sure, Idle, NoWrites, h, d) /\ ~Placing(Idle, d)
<1>1. /\ Idle.phase = "idle" /\ Idle.then = "idle" /\ Idle.want = << >>
  BY DEF Idle
<1>2. ~Placing(Idle, d)
  BY <1>1 DEF Placing
<1>3. CourseOK(Idle, d)
  <2>1. << >> \in Seq(LockRows)
    OBVIOUS
  <2>2. QED
    BY <1>1, <1>2, <2>1 DEF CourseOK, LinePhases
<1>4. WritesLocked(Idle, NoWrites, h, d)
  BY <1>1, <1>2, NoWritesAre DEF WritesLocked
<1>5. Covered(Idle, h, d) /\ Savepoint(sure, Idle, NoWrites, h, d)
  BY <1>1 DEF Covered, Savepoint, LinePhases
<1>6. Freed(Idle, NoWrites, d)
  BY <1>1, NoWritesAre DEF Freed, Cancels
<1>7. ASSUME sure PROVE Suffices(NoWrites, d)
  <2>1. SUFFICES ASSUME NEW s \in Stocks
                 PROVE  AllocatedIn(s, Over(NoWrites.allocated, d.allocated))
                          <= Over(NoWrites.quantity, d.quantity)[s]
    BY DEF Suffices
  <2>2. PICK rows : rows = Over(NoWrites.allocated, d.allocated)
    OBVIOUS
  <2>3. DOMAIN rows = DOMAIN d.allocated /\ \A k \in DOMAIN rows : rows[k] = d.allocated[k]
    BY <2>2, NoWritesAre DEF Over
  <2>4. TableOK("allocated", rows) /\ TableOK("allocated", d.allocated)
        /\ Over(NoWrites.quantity, d.quantity)[s] = d.quantity[s] /\ d.quantity[s] \in Nat
    BY <2>2, Sees, NoWritesOK, NoWritesAre DEF DbOK
  <2>5. \A k \in DOMAIN rows : k[2] = s => k \in DOMAIN d.allocated /\ rows[k] <= d.allocated[k]
    BY <2>3, <2>4 DEF TableOK
  <2>6. AllocatedIn(s, rows) <= AllocatedIn(s, d.allocated)
    BY <2>4, <2>5, AllocatedAtMost
  <2>7. AllocatedIn(s, d.allocated) <= d.quantity[s]
    BY <1>7 DEF RowsOK
  <2>8. AllocatedIn(s, rows) \in Nat /\ AllocatedIn(s, d.allocated) \in Nat
    BY <2>4, AllocatedInNat
  <2>9. QED
    BY <2>2, <2>4, <2>6, <2>7, <2>8
<1>8. QED
  BY <1>2, <1>3, <1>4, <1>5, <1>6, <1>7 DEF CallOK

\* The call goes on with its order: what it wrote stays locked.
LEMMA StaysLocked ==
    ASSUME NEW q, NEW r, NEW x, NEW g, NEW h, NEW d, WritesLocked(q, x, g, d), g \subseteq h,
           q.phase # "idle", r.phase # "idle", r.order = q.order,
           r.phase \in { "find", "release" } => q.phase = "find",
           Placing(q, d) \/ DOMAIN x.status = {} \/ r.phase = "commit"
    PROVE  WritesLocked(r, x, h, d)
<1>1. Placing(r, d) = Placing(q, d)
  BY DEF Placing
<1>2. QED
  BY <1>1 DEF WritesLocked

-----------------------------------------------------------------------------
(* Each action keeps to it.                                                *)

LEMMA LockKeeps ==
    ASSUME NEW sure, Typing, Discipline(sure), NEW w \in Workers, Lock(w)
    PROVE  Discipline(sure)'
<1>1. PICK q : q = request[w]
  OBVIOUS
<1>2. PICK r : r = [ q EXCEPT !.want = Tail(@) ]
  OBVIOUS
<1>3. PICK h : h = holds[w] \cup { Head(q.want) }
  OBVIOUS
<1>4. /\ q.want # << >> /\ \A v \in Workers \ { w } : Head(q.want) \notin holds[v]
      /\ request' = [ request EXCEPT ![w] = r ] /\ holds' = [ holds EXCEPT ![w] = h ]
      /\ db' = db /\ txn' = txn
  BY <1>1, <1>2, <1>3 DEF Lock, Free
<1>5. /\ FieldsOK(q) /\ CourseOK(q, db)
      /\ WritesLocked(q, txn[w], holds[w], db) /\ Covered(q, holds[w], db)
      /\ Savepoint(sure, q, txn[w], holds[w], db) /\ Freed(q, txn[w], db)
      /\ sure => Suffices(txn[w], db)
  BY <1>1, OfCall
<1>6. DOMAIN r = Fields /\ \A field \in Fields \ { "want" } : r[field] = q[field]
  BY <1>2, <1>5 DEF FieldsOK
<1>7. r.want = Tail(q.want) /\ q.want \in Seq(LockRows)
  BY <1>2, <1>5 DEF FieldsOK, Fields, CourseOK
<1>8. r.want \in Seq(LockRows) /\ Waits(r, h) = Waits(q, holds[w])
  <2>1. /\ r.want \in Seq(LockRows) /\ Head(q.want) = q.want[1] /\ 1 \in DOMAIN q.want
        /\ \A i \in DOMAIN r.want : i + 1 \in DOMAIN q.want /\ r.want[i] = q.want[i + 1]
        /\ \A i \in DOMAIN q.want : i = 1 \/ (i - 1 \in DOMAIN r.want /\ r.want[i - 1] = q.want[i])
    BY <1>4, <1>7
  <2>2. { q.want[i] : i \in DOMAIN q.want } = { Head(q.want) } \cup { r.want[i] : i \in DOMAIN r.want }
    BY <2>1
  <2>3. QED
    BY <1>3, <2>1, <2>2 DEF Waits
<1>9. Placing(r, db) = Placing(q, db)
  BY <1>6 DEF Placing, Fields
<1>10. CallOK(sure, r, txn[w], h, db)
  <2>1. CourseOK(r, db)
    BY <1>5, <1>6, <1>8, <1>9 DEF CourseOK, Fields
  <2>2. WritesLocked(r, txn[w], h, db)
    BY <1>3, <1>5, <1>6, <1>9 DEF WritesLocked, Fields
  <2>3. Covered(r, h, db)
    BY <1>4, <1>5, <1>6, <1>8 DEF Covered, Fields
  <2>4. Savepoint(sure, r, txn[w], h, db)
    <3>1. ASSUME r.phase \in LinePhases PROVE WritesLocked(r, r.base, r.kept, db)
      BY <1>5, <1>6, <1>9, <3>1 DEF Savepoint, WritesLocked, Fields
    <3>2. QED
      BY <1>3, <1>5, <1>6, <3>1 DEF Savepoint, Fields
  <2>5. Freed(r, txn[w], db)
    BY <1>5, <1>6, <1>9 DEF Freed, Cancels, Fields
  <2>6. sure => Suffices(txn[w], db)
    BY <1>5, <1>6 DEF Fields
  <2>7. QED
    BY <2>1, <2>2, <2>3, <2>4, <2>5, <2>6 DEF CallOK
<1>11. \A v \in Workers \ { w } : h \cap holds[v] = {}
  BY <1>3, <1>4 DEF Discipline
<1>12. QED
  BY <1>4, <1>5, <1>9, <1>10, <1>11, LocalStep

LEMMA CallFailsKeeps ==
    ASSUME NEW sure, Typing, Discipline(sure), NEW w \in Workers, CallFails(w)
    PROVE  Discipline(sure)'
<1>1. /\ request' = [ request EXCEPT ![w] = Idle ] /\ txn' = [ txn EXCEPT ![w] = NoWrites ]
      /\ holds' = [ holds EXCEPT ![w] = {} ] /\ db' = db
  BY DEF CallFails, Continue
<1>2. DbOK(db) /\ RowsOK(sure, db)
  BY DEF Typing, Discipline
<1>3. CallOK(sure, Idle, NoWrites, {}, db) /\ ~Placing(Idle, db)
  BY <1>2, EndsOK
<1>4. {} \subseteq holds[w]
  OBVIOUS
<1>5. QED
  BY <1>1, <1>3, <1>4, LocalStep

LEMMA LineFailsKeeps ==
    ASSUME NEW sure, Typing, Discipline(sure),
           NEW w \in Workers, request[w].phase \in LinePhases, LineFails(w)
    PROVE  Discipline(sure)'
<1>1. PICK q : q = request[w]
  OBVIOUS
<1>2. PICK r : r = [ q EXCEPT !.phase = "line", !.items = Tail(@), !.want = << >> ]
  OBVIOUS
<1>3. /\ q.phase \in LinePhases /\ request' = [ request EXCEPT ![w] = r ]
      /\ txn' = [ txn EXCEPT ![w] = q.base ] /\ holds' = [ holds EXCEPT ![w] = q.kept ] /\ db' = db
  BY <1>1, <1>2 DEF LineFails, Continue
<1>4. /\ FieldsOK(q) /\ PhaseOK(q) /\ CourseOK(q, db) /\ Savepoint(sure, q, txn[w], holds[w], db)
  BY <1>1, OfCall
<1>5. /\ DOMAIN r = Fields /\ r.phase = "line" /\ r.items = Tail(q.items) /\ r.want = << >>
      /\ \A field \in Fields \ { "phase", "items", "want" } : r[field] = q[field]
  BY <1>2, <1>4 DEF FieldsOK, Fields
<1>6. q.phase \notin { "idle", "sum", "allocate", "commit" }
  BY <1>3 DEF LinePhases
<1>7. ~Placing(q, db) /\ ~Placing(r, db)
  BY <1>4, <1>5, <1>6 DEF CourseOK, Placing, Fields
<1>8. CourseOK(r, db)
  <2>1. q.items \in Seq(Item) /\ q.items # << >>
    BY <1>3, <1>4 DEF FieldsOK, PhaseOK
  <2>2. \A i \in DOMAIN r.items : i + 1 \in DOMAIN q.items /\ r.items[i] = q.items[i + 1]
    BY <1>5, <2>1, FirstItem
  <2>3. \A i \in DOMAIN r.items : OrderOf[r.items[i].line] = q.order
    BY <1>3, <1>4, <2>2 DEF CourseOK
  <2>4. r.want \in Seq(LockRows)
    BY <1>5
  <2>5. QED
    BY <1>4, <1>5, <1>7, <2>3, <2>4 DEF CourseOK, LinePhases, Fields
<1>9. WritesLocked(r, q.base, q.kept, db)
  <2>1. WritesLocked(q, q.base, q.kept, db) /\ DOMAIN q.base.status = {}
    BY <1>3, <1>4 DEF Savepoint
  <2>2. r.order = q.order
    BY <1>5 DEF Fields
  <2>3. QED
    BY <1>5, <1>6, <2>1, <2>2, StaysLocked
<1>10. Covered(r, q.kept, db) /\ Savepoint(sure, r, q.base, q.kept, db)
  BY <1>5 DEF Covered, Savepoint, LinePhases
<1>11. Freed(r, q.base, db)
  BY <1>3, <1>4, <1>5 DEF Freed, Cancels, Savepoint
<1>12. sure => Suffices(q.base, db)
  BY <1>3, <1>4, <1>5 DEF Savepoint
<1>13. CallOK(sure, r, q.base, q.kept, db)
  BY <1>8, <1>9, <1>10, <1>11, <1>12 DEF CallOK
<1>14. q.kept \subseteq holds[w]
  BY <1>3, <1>4 DEF Savepoint
<1>15. QED
  BY <1>3, <1>7, <1>13, <1>14, LocalStep

LEMMA WrittenIs ==
    ASSUME Typing, NEW w \in Workers, NEW table \in Tables, NEW rows, Writes(w, table, rows)
    PROVE  \E x : /\ txn' = [ txn EXCEPT ![w] = x ]
                  /\ DOMAIN x = Tables /\ x[table] = Over(rows, txn[w][table])
                  /\ \A t \in Tables \ { table } : x[t] = txn[w][t]
<1>1. PICK x : x = [ txn[w] EXCEPT ![table] = Over(rows, txn[w][table]) ]
  OBVIOUS
<1>2. txn' = [ txn EXCEPT ![w] = x ]
  BY <1>1 DEF Writes
<1>3. DOMAIN txn[w] = Tables
  BY DEF Typing, WritesOK
<1>4. QED
  BY <1>1, <1>2, <1>3

\* A call begins: nothing is written.
LEMMA AtIdle ==
    ASSUME NEW sure, Typing, Discipline(sure), NEW w \in Workers, request[w].phase = "idle"
    PROVE  txn[w] = NoWrites /\ holds[w] = {} /\ DOMAIN Idle = Fields
  BY IdleOK, OfCall DEF WritesLocked, Covered, RequestOK, FieldsOK

LEMMA CheckoutOrderKeeps ==
    ASSUME NEW sure, Typing, Discipline(sure), NEW w \in Workers, NEW o \in Orders, CheckoutOrder(w, o)
    PROVE  Discipline(sure)'
<1>1. PICK r : r = [ Idle EXCEPT !.phase = "sum", !.order = o, !.items = ToAllocate(o) ]
  OBVIOUS
<1>2. PICK h : h = { OrderLock(o) }
  OBVIOUS
<1>3. /\ request[w].phase = "idle" /\ request' = [ request EXCEPT ![w] = r ]
      /\ Writes(w, "status", Row(o, "unfulfilled"))
      /\ db' = db /\ holds' = [ holds EXCEPT ![w] = h ]
      /\ w \in Placers /\ o \notin Drafts /\ db.status[o] = "absent"
      /\ \A v \in Workers \ { w } : OrderLock(o) \notin holds[v]
  BY <1>1, <1>2 DEF CheckoutOrder, Call, Continue, Free
<1>4. txn[w] = NoWrites /\ DOMAIN Idle = Fields /\ DbOK(db) /\ RowsOK(sure, db)
  BY <1>3, AtIdle, OfCall
<1>5. PICK x : /\ txn' = [ txn EXCEPT ![w] = x ]
               /\ DOMAIN x = Tables /\ x.status = Over(Row(o, "unfulfilled"), NoWrites.status)
               /\ \A t \in Tables \ { "status" } : x[t] = NoWrites[t]
  BY <1>3, <1>4, WrittenIs DEF Tables
<1>6. /\ DOMAIN x.allocated = {} /\ DOMAIN x.quantity = {}
      /\ DOMAIN x.status = { o } /\ x.status[o] = "unfulfilled"
  <2>1. DOMAIN x.allocated = {} /\ DOMAIN x.quantity = {}
    BY <1>5, NoWritesAre DEF Tables
  <2>2. DOMAIN x.status = { o } /\ x.status[o] = "unfulfilled"
    BY <1>5, NoWritesAre DEF Over, Row
  <2>3. QED
    BY <2>1, <2>2
<1>7. /\ DOMAIN r = Fields /\ r.phase = "sum" /\ r.order = o /\ r.items = ToAllocate(o)
      /\ r.then = "idle" /\ r.want = << >>
  BY <1>1, <1>4 DEF Fields, Idle
<1>8. Placing(r, db)
  BY <1>3, <1>7 DEF Placing
<1>9. CourseOK(r, db)
  <2>1. \A i \in DOMAIN r.items : OrderOf[r.items[i].line] = o
    BY <1>7, ToAllocateIs DEF LinesOf
  <2>2. r.want \in Seq(LockRows)
    BY <1>7
  <2>3. QED
    BY <1>3, <1>7, <1>8, <2>1, <2>2 DEF CourseOK, LinePhases
<1>10. WritesLocked(r, x, h, db)
  BY <1>2, <1>6, <1>7, <1>8 DEF WritesLocked
<1>11. Covered(r, h, db) /\ Savepoint(sure, r, x, h, db)
  BY <1>7 DEF Covered, Savepoint, LinePhases
<1>12. Freed(r, x, db)
  BY <1>6, <1>7 DEF Freed, Cancels
<1>13. sure => Suffices(x, db)
  <2>1. sure => Suffices(NoWrites, db)
    BY <1>4, EndsOK DEF CallOK
  <2>2. x.allocated = NoWrites.allocated /\ x.quantity = NoWrites.quantity
    BY <1>5 DEF Tables
  <2>3. QED
    BY <1>7, <2>1, <2>2 DEF Suffices
<1>14. CallOK(sure, r, x, h, db)
  BY <1>9, <1>10, <1>11, <1>12, <1>13 DEF CallOK
<1>15. \A v \in Workers \ { w } : h \cap holds[v] = {}
  BY <1>2, <1>3
<1>16. QED
  BY <1>3, <1>5, <1>14, <1>15, LocalStep

\* The calls that begin by looking at an order that is placed.
LEMMA BeginsOK ==
    ASSUME NEW sure, Typing, Discipline(sure), NEW w \in Workers, request[w].phase = "idle", NEW r, NEW o,
           DOMAIN r = Fields, r.phase \in { "clean", "find" }, r.then = "idle", r.want = << >>,
           r.order = o, db.status[o] # "absent", r.phase = "find" => r.fulfillment = None,
           r.phase = "clean" => \A i \in DOMAIN r.items : OrderOf[r.items[i].line] = o,
           request' = [ request EXCEPT ![w] = r ], UNCHANGED << db, txn, holds >>
    PROVE  Discipline(sure)'
<1>1. txn[w] = NoWrites /\ holds[w] = {} /\ DbOK(db) /\ RowsOK(sure, db)
  BY AtIdle, OfCall
<1>2. ~Placing(r, db)
  BY DEF Placing
<1>3. CourseOK(r, db)
  <2>1. r.want \in Seq(LockRows)
    OBVIOUS
  <2>2. QED
    BY <1>2, <2>1 DEF CourseOK, LinePhases
<1>4. WritesLocked(r, NoWrites, holds[w], db)
  BY <1>2, NoWritesAre DEF WritesLocked
<1>5. Covered(r, holds[w], db) /\ Savepoint(sure, r, NoWrites, holds[w], db)
      /\ Freed(r, NoWrites, db)
  BY <1>1, NoWritesAre DEF Covered, Savepoint, Freed, Cancels, LinePhases
<1>6. sure => Suffices(NoWrites, db)
  BY <1>1, EndsOK DEF CallOK
<1>7. CallOK(sure, r, NoWrites, holds[w], db)
  BY <1>3, <1>4, <1>5, <1>6 DEF CallOK
<1>8. QED
  BY <1>1, <1>2, <1>7, LocalStep

LEMMA OrderFulfillKeeps ==
    ASSUME NEW sure, Typing, Discipline(sure), NEW w \in Workers, NEW o \in Orders, NEW p,
           NEW items \in Requested(o, p), NEW status \in Given,
           OrderFulfill(w, o, items, status)
    PROVE  Discipline(sure)'
<1>1. PICK r : r = [ Idle EXCEPT !.phase = "clean", !.order = o, !.items = items,
                                 !.status = db.status[o], !.final = status ]
  OBVIOUS
<1>2. /\ request[w].phase = "idle" /\ request' = [ request EXCEPT ![w] = r ]
      /\ UNCHANGED << db, txn, holds >> /\ db.status[o] # "absent"
  BY <1>1 DEF OrderFulfill, Call, Continue
<1>3. DOMAIN Idle = Fields
  BY <1>2, AtIdle
<1>4. /\ DOMAIN r = Fields /\ r.phase = "clean" /\ r.order = o /\ r.items = items
      /\ r.then = "idle" /\ r.want = << >>
  BY <1>1, <1>3 DEF Fields, Idle
<1>5. \A i \in DOMAIN r.items : OrderOf[r.items[i].line] = o
  BY <1>4, RequestedIs DEF LinesOf
<1>6. QED
  BY <1>2, <1>4, <1>5, BeginsOK

LEMMA OrderCancelKeeps ==
    ASSUME NEW sure, Typing, Discipline(sure), NEW w \in Workers, NEW o \in Orders, OrderCancel(w, o)
    PROVE  Discipline(sure)'
<1>1. PICK r : r = [ Idle EXCEPT !.phase = "find", !.order = o ]
  OBVIOUS
<1>2. /\ request[w].phase = "idle" /\ request' = [ request EXCEPT ![w] = r ]
      /\ UNCHANGED << db, txn, holds >> /\ db.status[o] # "absent"
  BY <1>1 DEF OrderCancel, Call, Continue, can_cancel
<1>3. DOMAIN Idle = Fields
  BY <1>2, AtIdle
<1>4. /\ DOMAIN r = Fields /\ r.phase = "find" /\ r.order = o
      /\ r.then = "idle" /\ r.want = << >> /\ r.fulfillment = None
  BY <1>1, <1>3 DEF Fields, Idle
<1>5. QED
  BY <1>2, <1>4, BeginsOK

\* A row each: what a statement that locks them waits for.
LEMMA WaitsForRows ==
    ASSUME NEW n \in Nat, NEW f, NEW want, want = [ i \in 1 .. n |-> f[i] ],
           \A i \in 1 .. n : f[i] \in LockRows
    PROVE  want \in Seq(LockRows) /\ DOMAIN want = 1 .. n /\ \A i \in 1 .. n : want[i] = f[i]
  OBVIOUS

\* It has them all.
LEMMA WaitsNoMore ==
    ASSUME NEW r, NEW locked, r.want = << >>
    PROVE  Waits(r, locked) = locked
<1>1. DOMAIN r.want = {}
  OBVIOUS
<1>2. QED
  BY <1>1 DEF Waits

LEMMA SumAllocationsKeeps ==
    ASSUME NEW sure, Typing, Discipline(sure), NEW w \in Workers, SumAllocations(w)
    PROVE  Discipline(sure)'
<1>1. PICK q : q = request[w]
  OBVIOUS
<1>2. PICK stocks : stocks = StocksOf[Head(q.items).line]
  OBVIOUS
<1>3. PICK sums : sums = [ s \in stocks |-> AllocatedIn(s, Seen(w, "allocated")) ]
  OBVIOUS
<1>4. PICK keys : keys = Ascending(stocks)
  OBVIOUS
<1>5. PICK want : want = Locking(StockLock, keys)
  OBVIOUS
<1>6. PICK r : r = [ q EXCEPT !.phase = "allocate", !.sums = sums, !.want = want ]
  OBVIOUS
<1>7. /\ q.phase = "sum" /\ request' = [ request EXCEPT ![w] = r ]
      /\ db' = db /\ txn' = txn /\ holds' = holds
  BY <1>1, <1>2, <1>3, <1>4, <1>5, <1>6 DEF SumAllocations, At, Continue
<1>8. /\ FieldsOK(q) /\ CourseOK(q, db)
      /\ WritesLocked(q, txn[w], holds[w], db) /\ Freed(q, txn[w], db)
      /\ sure => Suffices(txn[w], db)
  BY <1>1, OfCall
<1>9. /\ DOMAIN r = Fields /\ r.phase = "allocate" /\ r.sums = sums /\ r.want = want
      /\ \A field \in Fields \ { "phase", "sums", "want" } : r[field] = q[field]
  BY <1>6, <1>8 DEF FieldsOK, Fields
<1>10. Placing(q, db) /\ Placing(r, db) /\ r.order = q.order
  BY <1>7, <1>8, <1>9 DEF CourseOK, Placing, Fields
<1>11. stocks \subseteq Stocks
  BY <1>1, <1>2, <1>7, WorkItem, StockAssumption
<1>12. PICK n \in Nat : /\ DOMAIN keys = 1 .. n /\ keys \in Seq(stocks)
                        /\ \A s \in stocks : \E i \in 1 .. n : keys[i] = s
  <2>1. PICK number : number = [ s \in stocks |-> s ]
    OBVIOUS
  <2>2. IsFiniteSet(stocks) /\ \A s \in stocks : number[s] \in Nat
    BY <1>11, <2>1, FS_Subset, StockAssumption
  <2>3. keys = InOrder(stocks, number)
    BY <1>4, <2>1 DEF Ascending
  <2>4. QED
    BY <2>2, <2>3, InOrderIs
<1>13. want \in Seq(LockRows) /\ \A s \in stocks : \E i \in DOMAIN want : want[i] = StockLock(s)
  <2>1. PICK f : f = [ i \in 1 .. n |-> StockLock(keys[i]) ]
    OBVIOUS
  <2>2. \A i \in 1 .. n : keys[i] \in Stocks /\ f[i] = StockLock(keys[i])
    BY <1>11, <1>12, <2>1
  <2>3. \A i \in 1 .. n : f[i] \in LockRows
    BY <2>2 DEF LockRows
  <2>4. want = [ i \in 1 .. n |-> f[i] ]
    BY <1>5, <1>12, <2>1 DEF Locking
  <2>5. QED
    BY <1>12, <2>2, <2>3, <2>4, WaitsForRows
<1>14. CourseOK(r, db)
  BY <1>7, <1>8, <1>9, <1>10, <1>13 DEF CourseOK, Fields, LinePhases
<1>15. WritesLocked(r, txn[w], holds[w], db)
  BY <1>7, <1>8, <1>9, <1>10, StaysLocked
<1>16. Covered(r, holds[w], db) /\ Savepoint(sure, r, txn[w], holds[w], db)
  BY <1>3, <1>9, <1>13 DEF Covered, Waits, Savepoint, LinePhases
<1>17. Freed(r, txn[w], db)
  BY <1>8, <1>9, <1>10 DEF Freed, Cancels
<1>18. CallOK(sure, r, txn[w], holds[w], db)
  BY <1>8, <1>14, <1>15, <1>16, <1>17 DEF CallOK
<1>19. QED
  BY <1>7, <1>8, <1>10, <1>18, LocalStep

\* The stock suffices for what is taken of it, when the sums are fresh.
LEMMA AllocatesWithin ==
    ASSUME NEW sure, Typing, Discipline(sure),
           NEW w \in Workers, At(w, "allocate"), CanAllocate(w),
           sure, FreshSums,
           NEW x, WritesOK(x), x.quantity = txn[w].quantity,
           x.allocated = Over(NewAllocations(w), txn[w].allocated)
    PROVE  Suffices(x, db)
<1>1. PICK q : q = request[w]
  OBVIOUS
<1>2. PICK l : l = Head(request[w].items).line
  OBVIOUS
<1>3. PICK taken : taken = Taken(w)
  OBVIOUS
<1>4. PICK new : new = NewAllocations(w)
  OBVIOUS
<1>5. PICK old : old = Seen(w, "allocated")
  OBVIOUS
<1>6. PICK rows : rows = Over(x.allocated, db.allocated)
  OBVIOUS
<1>7. /\ DOMAIN new = { << l, s >> : s \in { t \in DOMAIN taken : taken[t] > 0 } }
      /\ \A k \in DOMAIN new : k = << l, k[2] >> /\ new[k] = taken[k[2]]
      /\ DOMAIN new \cap DOMAIN old = {}
  <2>1. /\ DOMAIN NewAllocations(w) = { << l, s >> : s \in { t \in DOMAIN taken : taken[t] > 0 } }
        /\ \A k \in DOMAIN NewAllocations(w) :
             k = << l, k[2] >> /\ NewAllocations(w)[k] = taken[k[2]]
    BY <1>2, <1>3, NewAllocationsAre
  <2>2. DOMAIN NewAllocations(w) \cap DOMAIN Seen(w, "allocated") = {}
    BY DEF CanAllocate
  <2>3. QED
    BY <1>4, <1>5, <2>1, <2>2
<1>8. /\ DOMAIN taken = DOMAIN q.sums
      /\ \A s \in DOMAIN taken :
           taken[s] \in Nat /\ taken[s] <= Positive(Seen(w, "quantity")[s] - q.sums[s])
  BY <1>1, <1>3, TakenIs
<1>9. FieldsOK(q) /\ Suffices(txn[w], db)
      /\ DbOK(db) /\ WritesOK(txn[w])
  BY <1>1, OfCall
<1>10. TableOK("allocated", old) /\ TableOK("allocated", rows)
  BY <1>5, <1>6, <1>9, SeenRows, Sees
<1>11. /\ DOMAIN rows = DOMAIN new \cup DOMAIN old
       /\ \A k \in DOMAIN new : rows[k] = new[k]
       /\ \A k \in DOMAIN old : rows[k] = old[k]
  BY <1>4, <1>5, <1>6, <1>7 DEF Seen, Over
<1>12. SUFFICES ASSUME NEW s \in Stocks
                PROVE  AllocatedIn(s, rows) <= Over(x.quantity, db.quantity)[s]
  BY <1>6 DEF Suffices
<1>13. PICK quantity : quantity = Seen(w, "quantity")[s] /\ quantity \in Nat
  BY SeenRows
<1>14. Over(x.quantity, db.quantity)[s] = quantity
  BY <1>13 DEF Seen
<1>15. /\ AllocatedIn(s, old) <= quantity /\ AllocatedIn(s, old) \in Nat
       /\ AllocatedIn(s, rows) \in Nat
  BY <1>5, <1>9, <1>10, <1>13, AllocatedInNat DEF Suffices, Seen
<1>16. CASE s \in DOMAIN taken /\ taken[s] > 0
  <2>1. PICK k : k = << l, s >>
    OBVIOUS
  <2>2. k \in DOMAIN new /\ k \notin DOMAIN old /\ rows[k] = taken[s] /\ k[2] = s
    BY <1>7, <1>11, <1>16, <2>1
  <2>3. PICK S : S = AtStock(s, old)
    OBVIOUS
  <2>4. AtStock(s, rows) = S \cup { k } /\ k \notin S
    <3>1. \A j \in DOMAIN new : j[2] = s => j = k
      BY <1>7, <2>1
    <3>2. QED
      BY <1>11, <2>2, <2>3, <3>1 DEF AtStock
  <2>5. /\ IsFiniteSet(S) /\ AllocatedIn(s, old) = SumFunctionOnSet(old, S)
        /\ AllocatedIn(s, rows) = SumFunctionOnSet(rows, S \cup { k })
    BY <1>10, <2>3, <2>4, AllocatedInNat
  <2>6. \A j \in S \cup { k } : rows[j] \in Int
    BY <1>10, <1>11, <2>2, <2>3, AllocationRows DEF AtStock
  <2>7. \A j \in S : rows[j] \in Int /\ rows[j] = old[j]
    BY <1>11, <2>3, <2>6 DEF AtStock
  <2>8. SumFunctionOnSet(rows, S) = SumFunctionOnSet(old, S)
    BY <2>5, <2>7, SumSame
  <2>9. SumFunctionOnSet(rows, S \cup { k }) = rows[k] + SumFunctionOnSet(rows, S)
    BY <2>4, <2>5, <2>6, SumAdd
  <2>10. AllocatedIn(s, rows) = taken[s] + AllocatedIn(s, old)
    BY <2>2, <2>5, <2>8, <2>9
  <2>11. AllocatedIn(s, old) <= q.sums[s] /\ q.sums[s] \in Nat
    BY <1>1, <1>5, <1>8, <1>9, <1>16 DEF FreshSums, FieldsOK
  <2>12. taken[s] <= quantity - q.sums[s] /\ taken[s] \in Nat
    BY <1>8, <1>13, <1>16, <2>11 DEF Positive
  <2>13. QED
    BY <1>13, <1>14, <1>15, <2>10, <2>11, <2>12
<1>17. CASE ~(s \in DOMAIN taken /\ taken[s] > 0)
  <2>1. \A k \in DOMAIN new : k[2] # s
    BY <1>7, <1>17
  <2>2. \A k \in DOMAIN rows : k[2] = s => k \in DOMAIN old /\ rows[k] = old[k]
    BY <1>11, <2>1
  <2>3. \A k \in DOMAIN old : old[k] \in Nat
    BY <1>10, AllocationRows
  <2>4. \A k \in DOMAIN rows : k[2] = s => k \in DOMAIN old /\ rows[k] <= old[k]
    BY <2>2, <2>3
  <2>5. AllocatedIn(s, rows) <= AllocatedIn(s, old)
    BY <1>10, <2>4, AllocatedAtMost
  <2>6. QED
    BY <1>13, <1>14, <1>15, <2>5
<1>18. QED
  BY <1>16, <1>17

LEMMA AllocateStockKeeps ==
    ASSUME NEW sure, Typing, Discipline(sure), sure => FreshSums, NEW w \in Workers, AllocateStock(w)
    PROVE  Discipline(sure)'
<1>1. PICK q : q = request[w]
  OBVIOUS
<1>2. PICK phase, then :
        /\ phase = IF Tail(q.items) = << >> \/ q.order \in Drafts THEN "commit" ELSE "sum"
        /\ then = IF Tail(q.items) # << >> /\ q.order \in Drafts THEN "sum" ELSE "idle"
  OBVIOUS
<1>3. PICK r : r = [ q EXCEPT !.items = Tail(q.items), !.phase = phase, !.then = then ]
  OBVIOUS
<1>4. /\ At(w, "allocate") /\ q.phase = "allocate" /\ q.want = << >> /\ CanAllocate(w)
      /\ request' = [ request EXCEPT ![w] = r ]
      /\ Writes(w, "allocated", NewAllocations(w)) /\ db' = db /\ holds' = holds
  BY <1>1, <1>2, <1>3 DEF AllocateStock, At, Continue
<1>5. /\ FieldsOK(q) /\ CourseOK(q, db)
      /\ WritesLocked(q, txn[w], holds[w], db) /\ Covered(q, holds[w], db) /\ Freed(q, txn[w], db)
  BY <1>1, OfCall
<1>6. PICK l : l = Head(request[w].items).line
  OBVIOUS
<1>7. PICK taken : taken = Taken(w)
  OBVIOUS
<1>8. PICK new : new = NewAllocations(w)
  OBVIOUS
<1>9. /\ DOMAIN taken = DOMAIN q.sums /\ TableOK("allocated", new)
      /\ \A k \in DOMAIN new : k[1] = l /\ k[2] \in DOMAIN taken
  <2>0. At(w, "allocate")
    BY <1>4
  <2>1. /\ TableOK("allocated", NewAllocations(w))
        /\ \A k \in DOMAIN NewAllocations(w) : k = << l, k[2] >> /\ k[2] \in DOMAIN taken
    BY <1>6, <1>7, <2>0, NewAllocationsAre
  <2>2. DOMAIN taken = DOMAIN q.sums
    BY <1>1, <1>4, <1>7, TakenIs
  <2>3. \A k \in DOMAIN NewAllocations(w) : k[1] = l
    BY <2>1
  <2>4. QED
    BY <1>8, <2>1, <2>2, <2>3
<1>10. PICK x : /\ txn' = [ txn EXCEPT ![w] = x ]
                /\ DOMAIN x = Tables /\ x.allocated = Over(new, txn[w].allocated)
                /\ \A t \in Tables \ { "allocated" } : x[t] = txn[w][t]
  BY <1>4, <1>8, WrittenIs DEF Tables
<1>11. WritesOK(x)
  <2>1. \A t \in Tables : TableOK(t, txn[w][t])
    BY DEF Typing, WritesOK
  <2>2. TableOK("allocated", x.allocated)
    BY <1>9, <1>10, <2>1, OverTyped DEF Tables
  <2>3. QED
    BY <1>10, <2>1, <2>2 DEF WritesOK
<1>12. Placing(q, db) /\ q.order \notin Drafts
  BY <1>4, <1>5 DEF CourseOK
<1>13. /\ DOMAIN r = Fields /\ r.phase \in { "commit", "sum" } /\ r.then = "idle"
       /\ r.items = Tail(q.items)
       /\ \A field \in Fields \ { "phase", "then", "items" } : r[field] = q[field]
  BY <1>2, <1>3, <1>5, <1>12 DEF FieldsOK, Fields
<1>14. Placing(r, db) /\ r.order = q.order
  BY <1>12, <1>13 DEF Placing, Fields
<1>15. /\ q.items \in Seq(Item) /\ q.items # << >> /\ Head(q.items) = q.items[1]
       /\ 1 \in DOMAIN q.items
  BY <1>1, <1>4, WorkItem
<1>16. CourseOK(r, db)
  <2>1. \A i \in DOMAIN r.items : OrderOf[r.items[i].line] = q.order
    BY <1>4, <1>5, <1>13, <1>15, FirstItem DEF CourseOK
  <2>2. r.want \in Seq(LockRows)
    BY <1>5, <1>13 DEF CourseOK, Fields
  <2>3. QED
    BY <1>5, <1>12, <1>13, <1>14, <2>1, <2>2 DEF CourseOK, LinePhases, Fields
<1>17. DOMAIN x.allocated = DOMAIN new \cup DOMAIN txn[w].allocated
  BY <1>10 DEF Over
<1>18. x.quantity = txn[w].quantity /\ x.status = txn[w].status
  BY <1>10 DEF Tables
<1>19. WritesLocked(r, x, holds[w], db)
  <2>1. \A s \in DOMAIN q.sums : StockLock(s) \in holds[w]
    BY <1>4, <1>5, WaitsNoMore DEF Covered
  <2>2. OrderOf[l] = q.order
    BY <1>1, <1>4, <1>5, <1>6, <1>15 DEF CourseOK
  <2>3. \A k \in DOMAIN x.allocated : OrderOf[k[1]] = r.order /\ StockLock(k[2]) \in holds[w]
    BY <1>5, <1>9, <1>12, <1>14, <1>17, <2>1, <2>2 DEF WritesLocked
  <2>4. QED
    BY <1>5, <1>12, <1>13, <1>14, <1>18, <2>3 DEF WritesLocked
<1>20. Covered(r, holds[w], db) /\ Savepoint(sure, r, x, holds[w], db)
  BY <1>13 DEF Covered, Savepoint, LinePhases
<1>21. Freed(r, x, db)
  BY <1>5, <1>12, <1>13, <1>18 DEF Freed, Cancels
<1>22. ASSUME sure PROVE Suffices(x, db)
  BY <1>4, <1>8, <1>10, <1>11, <1>18, <1>22, AllocatesWithin
<1>23. CallOK(sure, r, x, holds[w], db)
  BY <1>16, <1>19, <1>20, <1>21, <1>22 DEF CallOK
<1>24. QED
  BY <1>4, <1>5, <1>10, <1>12, <1>23, LocalStep

\* A step of a call whose order is placed: it has written no status yet, the
\* rows and the locks stay.
LEMMA GoesOn ==
    ASSUME NEW sure, Typing, Discipline(sure), NEW w \in Workers, NEW q, q = request[w], NEW r,
           q.phase \notin { "idle", "sum", "allocate", "commit" },
           r.phase \notin { "idle", "sum", "allocate" }, r.order = q.order,
           r.phase \in { "find", "release" } => q.phase = "find",
           ~(r.phase = "order" /\ r.status = "canceled"),
           CourseOK(r, db), Covered(r, holds[w], db), Savepoint(sure, r, txn[w], holds[w], db),
           request' = [ request EXCEPT ![w] = r ], db' = db, txn' = txn, holds' = holds
    PROVE  Discipline(sure)'
<1>1. /\ CourseOK(q, db) /\ WritesLocked(q, txn[w], holds[w], db)
      /\ sure => Suffices(txn[w], db)
  BY OfCall
<1>2. ~Placing(q, db) /\ ~Placing(r, db)
  BY <1>1 DEF CourseOK, Placing
<1>3. DOMAIN txn[w].status = {}
  BY <1>1, <1>2 DEF WritesLocked
<1>4. WritesLocked(r, txn[w], holds[w], db)
  BY <1>1, <1>3, StaysLocked
<1>5. Freed(r, txn[w], db)
  BY <1>3 DEF Freed, Cancels
<1>6. CallOK(sure, r, txn[w], holds[w], db)
  BY <1>1, <1>4, <1>5 DEF CallOK
<1>7. QED
  BY <1>2, <1>6, LocalStep

LEMMA CleanLinesKeeps ==
    ASSUME NEW sure, Typing, Discipline(sure), NEW w \in Workers, CleanLines(w)
    PROVE  Discipline(sure)'
<1>1. PICK q : q = request[w]
  OBVIOUS
<1>2. PICK r : request' = [ request EXCEPT ![w] = r ]
               /\ \E f, loaded : r = [ q EXCEPT !.phase = "line", !.fulfillment = f,
                                                !.loaded = loaded ]
  BY <1>1 DEF CleanLines, Continue
<1>3. q.phase = "clean" /\ db' = db /\ txn' = txn /\ holds' = holds
  BY <1>1 DEF CleanLines, At
<1>4. FieldsOK(q) /\ CourseOK(q, db)
  BY <1>1, OfCall
<1>5. /\ DOMAIN r = Fields /\ r.phase = "line"
      /\ \A field \in Fields \ { "phase", "fulfillment", "loaded" } : r[field] = q[field]
  BY <1>2, <1>4 DEF FieldsOK, Fields
<1>6. ~Placing(r, db) /\ r.order = q.order
  BY <1>3, <1>4, <1>5 DEF CourseOK, Placing, Fields
<1>7. CourseOK(r, db)
  BY <1>3, <1>4, <1>5, <1>6 DEF CourseOK, LinePhases, Fields
<1>8. Covered(r, holds[w], db) /\ Savepoint(sure, r, txn[w], holds[w], db)
  BY <1>5 DEF Covered, Savepoint, LinePhases
<1>9. QED
  <2>1. /\ q.phase \notin { "idle", "sum", "allocate", "commit" }
        /\ r.phase \notin { "idle", "sum", "allocate", "order", "find", "release" }
        /\ request' = [ request EXCEPT ![w] = r ]
    BY <1>2, <1>3, <1>5
  <2>2. QED
    BY <1>1, <1>3, <1>6, <1>7, <1>8, <2>1, GoesOn

\* The allocations that a statement locks, one by one.
LEMMA ByStockIs ==
    ASSUME NEW rows, TableOK("allocated", rows), NEW S, S \subseteq DOMAIN rows
    PROVE  /\ Len(ByStock(S)) \in Nat
           /\ DOMAIN ByStock(S) = 1 .. Len(ByStock(S))
           /\ \A i \in 1 .. Len(ByStock(S)) : ByStock(S)[i] \in S /\ ByStock(S)[i] \in Lines \X Stocks
           /\ \A k \in S : \E i \in 1 .. Len(ByStock(S)) : ByStock(S)[i] = k
<1>1. PICK number : number = [ k \in S |-> k[2] ]
  OBVIOUS
<1>2. IsFiniteSet(S) /\ \A k \in S : k \in Lines \X Stocks /\ number[k] \in Nat
  <2>1. IsFiniteSet(DOMAIN rows)
        /\ \A k \in DOMAIN rows : k[1] \in Lines /\ k[2] \in Stocks /\ k = << k[1], k[2] >>
    BY AllocationRows
  <2>2. IsFiniteSet(S)
    BY <2>1, FS_Subset
  <2>3. \A s \in Stocks : s \in Nat
    BY StockAssumption
  <2>4. \A k \in S : k \in Lines \X Stocks /\ k[2] \in Stocks
    BY <2>1
  <2>5. QED
    BY <1>1, <2>2, <2>3, <2>4
<1>3. PICK keys : keys = InOrder(S, number)
  OBVIOUS
<1>4. PICK n : n = Cardinality(S)
  OBVIOUS
<1>5. /\ keys \in Seq(S) /\ Len(keys) = n /\ n \in Nat /\ DOMAIN keys = 1 .. n
      /\ \A k \in S : \E i \in 1 .. n : keys[i] = k
  BY <1>2, <1>3, <1>4, InOrderIs
<1>6. ByStock(S) = keys
  BY <1>1, <1>3 DEF ByStock
<1>7. \A i \in 1 .. n : keys[i] \in S
  BY <1>5
<1>8. QED
  BY <1>2, <1>5, <1>6, <1>7

LEMMA LocksAllocations ==
    ASSUME NEW rows, TableOK("allocated", rows), NEW S, S \subseteq DOMAIN rows,
           NEW want, want = [ i \in DOMAIN ByStock(S) |-> AllocationLock(ByStock(S)[i]) ]
    PROVE  /\ want \in Seq(LockRows)
           /\ \A k \in S : \E i \in DOMAIN want : want[i] = AllocationLock(k)
           /\ \A i \in DOMAIN want : \E k \in S : want[i] = AllocationLock(k)
<1>1. PICK keys : keys = ByStock(S)
  OBVIOUS
<1>2. PICK n : n = Len(keys)
  OBVIOUS
<1>3. /\ n \in Nat /\ DOMAIN keys = 1 .. n
      /\ \A i \in 1 .. n : keys[i] \in S /\ keys[i] \in Lines \X Stocks
      /\ \A k \in S : \E i \in 1 .. n : keys[i] = k
  BY <1>1, <1>2, ByStockIs
<1>4. PICK f : f = [ i \in 1 .. n |-> AllocationLock(keys[i]) ]
  OBVIOUS
<1>5. \A i \in 1 .. n : f[i] = AllocationLock(keys[i]) /\ f[i] \in LockRows
  BY <1>3, <1>4 DEF LockRows
<1>6. want = [ i \in 1 .. n |-> f[i] ]
  BY <1>1, <1>3, <1>4
<1>7. want \in Seq(LockRows) /\ DOMAIN want = 1 .. n /\ \A i \in 1 .. n : want[i] = f[i]
  BY <1>3, <1>5, <1>6, WaitsForRows
<1>8. \A k \in S : \E i \in DOMAIN want : want[i] = AllocationLock(k)
  <2>1. SUFFICES ASSUME NEW k \in S PROVE \E i \in DOMAIN want : want[i] = AllocationLock(k)
    OBVIOUS
  <2>2. PICK i \in 1 .. n : keys[i] = k
    BY <1>3
  <2>3. i \in DOMAIN want /\ want[i] = AllocationLock(k)
    <3>1. want[i] = f[i] /\ i \in DOMAIN want
      BY <1>7
    <3>2. f[i] = AllocationLock(keys[i])
      BY <1>5
    <3>3. QED
      BY <2>2, <3>1, <3>2
  <2>4. QED
    BY <2>3
<1>9. \A i \in DOMAIN want : \E k \in S : want[i] = AllocationLock(k)
  BY <1>3, <1>5, <1>7
<1>10. QED
  BY <1>7, <1>8, <1>9

LEMMA FulfillLineKeeps ==
    ASSUME NEW sure, Typing, Discipline(sure), NEW w \in Workers, FulfillLine(w)
    PROVE  Discipline(sure)'
<1>1. PICK q : q = request[w]
  OBVIOUS
<1>2. PICK rows : rows = Seen(w, "allocated")
  OBVIOUS
<1>3. PICK S : S = RowsOf({ Head(q.items).line }, rows)
  OBVIOUS
<1>4. PICK keys : keys = ByStock(S)
  OBVIOUS
<1>5. PICK n : n = Len(keys)
  OBVIOUS
<1>6. PICK want : want = [ i \in 1 .. 2 * n |->
                             IF i % 2 = 1 THEN AllocationLock(keys[(i + 1) \div 2])
                             ELSE StockLock(keys[(i + 1) \div 2][2]) ]
  OBVIOUS
<1>7. PICK r : r = [ q EXCEPT !.phase = "deallocate", !.base = txn[w], !.kept = holds[w],
                              !.want = want ]
  OBVIOUS
<1>8. /\ q.phase = "line" /\ q.items # << >> /\ request' = [ request EXCEPT ![w] = r ]
      /\ db' = db /\ txn' = txn /\ holds' = holds
  BY <1>1, <1>2, <1>3, <1>4, <1>5, <1>6, <1>7 DEF FulfillLine, At, Continue
<1>9. /\ FieldsOK(q) /\ CourseOK(q, db) /\ WritesLocked(q, txn[w], holds[w], db)
      /\ sure => Suffices(txn[w], db)
  BY <1>1, OfCall
<1>10. /\ DOMAIN r = Fields /\ r.phase = "deallocate" /\ r.base = txn[w] /\ r.kept = holds[w]
       /\ r.want = want
       /\ \A field \in Fields \ { "phase", "base", "kept", "want" } : r[field] = q[field]
  BY <1>7, <1>9 DEF FieldsOK, Fields
<1>11. ~Placing(q, db) /\ ~Placing(r, db) /\ r.order = q.order /\ r.items = q.items
  BY <1>8, <1>9, <1>10 DEF CourseOK, Placing, Fields
<1>12. TableOK("allocated", rows) /\ S \subseteq DOMAIN rows
  BY <1>2, <1>3, SeenRows DEF RowsOf
<1>13. /\ n \in Nat /\ DOMAIN keys = 1 .. n
       /\ \A i \in 1 .. n : keys[i] \in S /\ keys[i] \in Lines \X Stocks
       /\ \A k \in S : \E i \in 1 .. n : keys[i] = k
  BY <1>4, <1>5, <1>12, ByStockIs
<1>14. want \in Seq(LockRows)
  <2>1. \A i \in 1 .. 2 * n : (i + 1) \div 2 \in 1 .. n
    BY <1>13
  <2>2. \A i \in 1 .. 2 * n : want[i] \in LockRows
    BY <1>6, <1>13, <2>1 DEF LockRows
  <2>3. 2 * n \in Nat /\ DOMAIN want = 1 .. 2 * n /\ want = [ i \in 1 .. 2 * n |-> want[i] ]
    BY <1>6, <1>13
  <2>4. QED
    BY <2>2, <2>3, WaitsForRows
<1>15. \A k \in S : \E i \in DOMAIN want : want[i] = AllocationLock(k)
  <2>1. SUFFICES ASSUME NEW k \in S PROVE \E i \in DOMAIN want : want[i] = AllocationLock(k)
    OBVIOUS
  <2>2. PICK i \in 1 .. n : keys[i] = k
    BY <1>13
  <2>3. PICK j : j = 2 * i - 1
    OBVIOUS
  <2>4. j \in 1 .. 2 * n /\ j % 2 = 1 /\ (j + 1) \div 2 = i
    BY <1>13, <2>3
  <2>5. QED
    BY <1>6, <2>2, <2>4
<1>16. CourseOK(r, db)
  BY <1>8, <1>9, <1>10, <1>11, <1>14 DEF CourseOK, LinePhases, Fields
<1>17. Covered(r, holds[w], db)
  <2>1. Head(q.items) = q.items[1]
    BY <1>8, <1>9, FirstItem DEF FieldsOK
  <2>2. \A k \in DOMAIN db.allocated : k[1] = q.items[1].line => k \in S
    BY <1>2, <1>3, <2>1 DEF RowsOf, Seen, Over
  <2>3. QED
    BY <1>10, <1>11, <1>15, <2>2 DEF Covered, Waits
<1>18. Savepoint(sure, r, txn[w], holds[w], db)
  <2>1. DOMAIN txn[w].status = {}
    BY <1>8, <1>9, <1>11 DEF WritesLocked
  <2>2. WritesLocked(r, txn[w], holds[w], db)
    BY <1>8, <1>9, <1>10, <1>11, <2>1, StaysLocked
  <2>3. QED
    BY <1>9, <1>10, <2>1, <2>2 DEF Savepoint
<1>19. QED
  <2>1. /\ q.phase \notin { "idle", "sum", "allocate", "commit" }
        /\ r.phase \notin { "idle", "sum", "allocate", "order", "find", "release" }
    BY <1>8, <1>10
  <2>2. QED
    BY <1>1, <1>8, <1>11, <1>16, <1>17, <1>18, <2>1, GoesOn

LEMMA SavepointStays ==
    ASSUME NEW sure,
           NEW q, NEW y, NEW locked, NEW d, Savepoint(sure, q, y, locked, d), q.phase \in LinePhases,
           NEW r, NEW x, r.phase \in { "zero", "ship", "mark" },
           r.order = q.order, r.kept = q.kept, r.base = q.base
    PROVE  Savepoint(sure, r, x, locked, d)
<1>1. PICK b, kept : b = q.base /\ kept = q.kept
  OBVIOUS
<1>2. /\ kept \subseteq locked /\ WritesLocked(q, b, kept, d)
      /\ DOMAIN b.status = {}
      /\ sure => Suffices(b, d)
  BY <1>1 DEF Savepoint
<1>3. q.phase # "idle" /\ r.phase \notin { "idle", "find", "release" } /\ r.phase # "deallocate"
  BY DEF LinePhases
<1>4. WritesLocked(r, b, kept, d)
  BY <1>2, <1>3, StaysLocked
<1>5. QED
  BY <1>1, <1>2, <1>3, <1>4 DEF Savepoint

\* The allocations of the line in hand are lowered, each of them locked.
LEMMA LowersKeeps ==
    ASSUME NEW sure, Typing, Discipline(sure), NEW w \in Workers, NEW q, q = request[w],
           q.phase \in { "deallocate", "zero" }, q.want = << >>,
           NEW new, TableOK("allocated", new),
           \A k \in DOMAIN new : /\ k \in DOMAIN Seen(w, "allocated") /\ k[1] = Head(q.items).line
                                 /\ new[k] <= Seen(w, "allocated")[k],
           Writes(w, "allocated", new), NEW r,
           r = [ q EXCEPT !.phase = "ship", !.want = << StockLock(Head(q.items).stock) >> ],
           request' = [ request EXCEPT ![w] = r ], db' = db, holds' = holds
    PROVE  Discipline(sure)'
<1>1. PICK old : old = Seen(w, "allocated")
  OBVIOUS
<1>2. /\ FieldsOK(q) /\ CourseOK(q, db) /\ WritesLocked(q, txn[w], holds[w], db)
      /\ Covered(q, holds[w], db) /\ Savepoint(sure, q, txn[w], holds[w], db)
      /\ sure => Suffices(txn[w], db)
      /\ DbOK(db) /\ WritesOK(txn[w])
  BY OfCall
<1>3. q.phase \in LinePhases
  BY DEF LinePhases
<1>4. /\ q.items # << >> /\ q.items \in Seq(Item) /\ Head(q.items) = q.items[1]
      /\ 1 \in DOMAIN q.items /\ q.items[1].stock \in Stocks
  BY <1>3, WorkItem
<1>5. PICK x : /\ txn' = [ txn EXCEPT ![w] = x ]
               /\ DOMAIN x = Tables /\ x.allocated = Over(new, txn[w].allocated)
               /\ \A t \in Tables \ { "allocated" } : x[t] = txn[w][t]
  BY WrittenIs DEF Tables
<1>6. /\ DOMAIN r = Fields /\ r.phase = "ship" /\ r.want = << StockLock(q.items[1].stock) >>
      /\ \A field \in Fields \ { "phase", "want" } : r[field] = q[field]
  BY <1>2, <1>4 DEF FieldsOK, Fields
<1>7. ~Placing(q, db) /\ ~Placing(r, db) /\ r.order = q.order /\ r.items = q.items
  BY <1>2, <1>6 DEF CourseOK, Placing, Fields
<1>8. x.quantity = txn[w].quantity /\ x.status = txn[w].status
      /\ DOMAIN x.allocated = DOMAIN new \cup DOMAIN txn[w].allocated
  BY <1>5 DEF Tables, Over
<1>9. WritesOK(x)
  <2>1. \A t \in Tables : TableOK(t, txn[w][t])
    BY <1>2 DEF WritesOK
  <2>2. TableOK("allocated", x.allocated)
    BY <1>5, <2>1, OverTyped DEF Tables
  <2>3. QED
    BY <1>5, <2>1, <2>2 DEF WritesOK
<1>10. /\ DOMAIN txn[w].allocated \subseteq DOMAIN db.allocated /\ DOMAIN old = DOMAIN db.allocated
       /\ \A k \in DOMAIN old : old[k] \in Nat /\ db.allocated[k] \in Nat
                                /\ old[k] <= db.allocated[k]
  <2>1. \A k \in DOMAIN txn[w].allocated :
          k \in DOMAIN db.allocated /\ txn[w].allocated[k] <= db.allocated[k]
    BY <1>2, <1>7 DEF WritesLocked
  <2>2. TableOK("allocated", old) /\ TableOK("allocated", db.allocated)
    BY <1>1, <1>2, SeenRows, Sees
  <2>3. DOMAIN old = DOMAIN db.allocated
    BY <1>1, <2>1 DEF Seen, Over
  <2>4. \A k \in DOMAIN old : old[k] \in Nat /\ db.allocated[k] \in Nat
    BY <2>2, <2>3, AllocationRows
  <2>5. \A k \in DOMAIN old :
          \/ old[k] = db.allocated[k]
          \/ k \in DOMAIN txn[w].allocated /\ old[k] = txn[w].allocated[k]
    BY <1>1 DEF Seen, Over
  <2>6. \A k \in DOMAIN old : old[k] <= db.allocated[k]
    BY <2>1, <2>4, <2>5
  <2>7. QED
    BY <2>1, <2>3, <2>4, <2>6
<1>11. \A k \in DOMAIN new : /\ k \in DOMAIN old /\ k[1] = q.items[1].line
                             /\ new[k] \in Nat /\ new[k] <= old[k]
  <2>1. \A k \in DOMAIN new : new[k] \in Nat
    BY DEF TableOK
  <2>2. QED
    BY <1>1, <1>4, <2>1
<1>12. CourseOK(r, db)
  <2>1. r.want \in Seq(LockRows)
    BY <1>4, <1>6 DEF LockRows
  <2>2. QED
    BY <1>2, <1>3, <1>6, <1>7, <2>1 DEF CourseOK, LinePhases, Fields
<1>13. DOMAIN txn[w].status = {}
  BY <1>2, <1>7 DEF WritesLocked
<1>14. WritesLocked(r, x, holds[w], db)
  <2>1. \A k \in DOMAIN new : /\ OrderOf[k[1]] = q.order /\ k \in DOMAIN db.allocated
                              /\ new[k] <= db.allocated[k] /\ AllocationLock(k) \in holds[w]
    <3>1. SUFFICES ASSUME NEW k \in DOMAIN new
                   PROVE  /\ OrderOf[k[1]] = q.order /\ k \in DOMAIN db.allocated
                          /\ new[k] <= db.allocated[k] /\ AllocationLock(k) \in holds[w]
      OBVIOUS
    <3>2. OrderOf[k[1]] = q.order
      BY <1>2, <1>3, <1>4, <1>11 DEF CourseOK
    <3>3. k \in DOMAIN db.allocated /\ new[k] <= db.allocated[k]
      BY <1>10, <1>11
    <3>4. AllocationLock(k) \in holds[w]
      BY <1>2, <1>11, <3>3, WaitsNoMore DEF Covered
    <3>5. QED
      BY <3>2, <3>3, <3>4
  <2>2. \A k \in DOMAIN x.allocated :
          \/ k \in DOMAIN new /\ x.allocated[k] = new[k]
          \/ k \in DOMAIN txn[w].allocated /\ x.allocated[k] = txn[w].allocated[k]
    BY <1>5 DEF Over
  <2>3. \A k \in DOMAIN x.allocated :
          /\ OrderOf[k[1]] = q.order /\ k \in DOMAIN db.allocated
          /\ x.allocated[k] <= db.allocated[k] /\ AllocationLock(k) \in holds[w]
    BY <1>2, <1>7, <2>1, <2>2 DEF WritesLocked
  <2>4. QED
    BY <1>2, <1>6, <1>7, <1>8, <1>13, <2>3 DEF WritesLocked
<1>15. Covered(r, holds[w], db)
  <2>1. r.want[1] = StockLock(r.items[1].stock) /\ 1 \in DOMAIN r.want
    BY <1>6, <1>7
  <2>2. QED
    BY <1>6, <2>1 DEF Covered, Waits
<1>16. Savepoint(sure, r, x, holds[w], db)
  <2>1. r.kept = q.kept /\ r.base = q.base
    BY <1>6 DEF Fields
  <2>2. Savepoint(sure, q, txn[w], holds[w], db) /\ r.phase \in { "zero", "ship", "mark" }
    BY <1>2, <1>6
  <2>3. r.order = q.order
    BY <1>7
  <2>4. PICK old_x, locked : old_x = txn[w] /\ locked = holds[w]
    OBVIOUS
  <2>5. Savepoint(sure, q, old_x, locked, db)
    BY <2>2, <2>4
  <2>6. Savepoint(sure, r, x, locked, db)
    BY ONLY <1>3, <2>1, <2>2, <2>3, <2>5, SavepointStays
  <2>7. QED
    BY <2>4, <2>6
<1>17. Freed(r, x, db)
  BY <1>6, <1>8, <1>13 DEF Freed, Cancels
<1>18. ASSUME sure PROVE Suffices(x, db)
  <2>1. SUFFICES ASSUME NEW s \in Stocks
                 PROVE  AllocatedIn(s, Over(x.allocated, db.allocated))
                          <= Over(x.quantity, db.quantity)[s]
    BY DEF Suffices
  <2>2. PICK rows : rows = Over(x.allocated, db.allocated)
    OBVIOUS
  <2>3. TableOK("allocated", rows) /\ TableOK("allocated", old)
    BY <1>1, <1>2, <1>9, <2>2, SeenRows, Sees
  <2>4. \A k \in DOMAIN rows : \/ k \in DOMAIN new /\ rows[k] = new[k]
                               \/ k \in DOMAIN old /\ rows[k] = old[k]
    BY <1>1, <1>5, <2>2 DEF Over, Seen
  <2>5. \A k \in DOMAIN rows : k[2] = s => k \in DOMAIN old /\ rows[k] <= old[k]
    BY <1>10, <1>11, <2>4
  <2>6. AllocatedIn(s, rows) <= AllocatedIn(s, old)
    BY <2>3, <2>5, AllocatedAtMost
  <2>7. PICK quantity : quantity = Over(x.quantity, db.quantity)[s] /\ quantity \in Nat
    BY <1>2, <1>9, Sees
  <2>8. AllocatedIn(s, old) <= quantity
    BY <1>1, <1>2, <1>8, <1>18, <2>7 DEF Suffices, Seen
  <2>9. AllocatedIn(s, rows) \in Nat /\ AllocatedIn(s, old) \in Nat
    BY <2>3, AllocatedInNat
  <2>10. QED
    BY <2>2, <2>6, <2>7, <2>8, <2>9
<1>19. CallOK(sure, r, x, holds[w], db)
  BY <1>12, <1>14, <1>15, <1>16, <1>17, <1>18 DEF CallOK
<1>20. QED
  BY <1>5, <1>7, <1>19, LocalStep

LEMMA DeallocateKeeps ==
    ASSUME NEW sure, Typing, Discipline(sure), NEW w \in Workers, Deallocate(w)
    PROVE  Discipline(sure)'
<1>1. PICK q : q = request[w]
  OBVIOUS
<1>2. PICK item : item = Head(q.items)
  OBVIOUS
<1>3. PICK mine : mine = AllocatedTo(w)
  OBVIOUS
<1>4. PICK released : released = Share(item.quantity, mine)
  OBVIOUS
<1>5. PICK kept : kept = [ k \in { item.line } \X DOMAIN mine |-> mine[k[2]] - released[k[2]] ]
  OBVIOUS
<1>6. PICK r : r = [ q EXCEPT !.phase = "ship", !.want = << StockLock(item.stock) >> ]
  OBVIOUS
<1>7. /\ q.phase = "deallocate" /\ q.want = << >> /\ request' = [ request EXCEPT ![w] = r ]
      /\ Writes(w, "allocated", kept) /\ db' = db /\ holds' = holds
  BY <1>1, <1>2, <1>3, <1>4, <1>5, <1>6 DEF Deallocate, At, Continue
<1>8. PICK rows : rows = Seen(w, "allocated")
  OBVIOUS
<1>9. PICK l : l = Head(request[w].items).line
  OBVIOUS
<1>10. \A s \in DOMAIN mine : << l, s >> \in DOMAIN rows /\ mine[s] = rows[<< l, s >>]
  BY <1>3, <1>8, <1>9, AllocatedToIs
<1>11. TableOK("allocated", kept) /\ \A k \in DOMAIN kept : kept[k] <= mine[k[2]]
  <2>1. /\ request[w].phase \in LinePhases
        /\ released = Share(Head(request[w].items).quantity, mine)
        /\ kept = [ k \in { l } \X DOMAIN mine |-> mine[k[2]] - released[k[2]] ]
    BY <1>1, <1>2, <1>4, <1>5, <1>7, <1>9 DEF LinePhases
  <2>2. QED
    BY <1>3, <1>9, <2>1, KeptAllocations
<1>12. \A k \in DOMAIN kept : /\ k \in DOMAIN rows /\ k[1] = l /\ kept[k] <= rows[k]
  <2>1. \A k \in DOMAIN kept : k[1] = l /\ k[2] \in DOMAIN mine /\ k = << l, k[2] >>
    BY <1>1, <1>2, <1>5, <1>9
  <2>2. QED
    BY <1>10, <1>11, <2>1
<1>13. QED
  <2>1. \A k \in DOMAIN kept : /\ k \in DOMAIN Seen(w, "allocated") /\ k[1] = Head(q.items).line
                               /\ kept[k] <= Seen(w, "allocated")[k]
    BY <1>1, <1>8, <1>9, <1>12
  <2>2. q.phase \in { "deallocate", "zero" }
        /\ r = [ q EXCEPT !.phase = "ship", !.want = << StockLock(Head(q.items).stock) >> ]
    BY <1>2, <1>6, <1>7
  <2>3. QED
    BY <1>1, <1>7, <1>11, <2>1, <2>2, LowersKeeps

LEMMA ZeroAllocationsKeeps ==
    ASSUME NEW sure, Typing, Discipline(sure), NEW w \in Workers, ZeroAllocations(w)
    PROVE  Discipline(sure)'
<1>1. PICK q : q = request[w]
  OBVIOUS
<1>2. PICK rows : rows = Seen(w, "allocated")
  OBVIOUS
<1>3. PICK zeros : zeros = [ k \in RowsOf({ Head(q.items).line }, rows) |-> 0 ]
  OBVIOUS
<1>4. PICK r : r = [ q EXCEPT !.phase = "ship", !.want = << StockLock(Head(q.items).stock) >> ]
  OBVIOUS
<1>5. /\ q.phase = "zero" /\ q.want = << >> /\ request' = [ request EXCEPT ![w] = r ]
      /\ Writes(w, "allocated", zeros) /\ db' = db /\ holds' = holds
  BY <1>1, <1>2, <1>3, <1>4 DEF ZeroAllocations, At, Continue
<1>6. \A k \in DOMAIN zeros : /\ k \in DOMAIN rows /\ k[1] = Head(q.items).line
                              /\ zeros[k] = 0
  BY <1>3 DEF RowsOf
<1>7. TableOK("allocated", rows) /\ \A k \in DOMAIN rows : rows[k] \in Nat /\ k \in Lines \X Stocks
  BY <1>2, SeenRows DEF TableOK
<1>8. TableOK("allocated", zeros)
  BY <1>6, <1>7 DEF TableOK
<1>9. QED
  <2>1. \A k \in DOMAIN zeros : /\ k \in DOMAIN Seen(w, "allocated") /\ k[1] = Head(q.items).line
                                /\ zeros[k] <= Seen(w, "allocated")[k]
    BY <1>2, <1>6, <1>7
  <2>2. q.phase \in { "deallocate", "zero" }
    BY <1>5
  <2>3. QED
    BY <1>1, <1>4, <1>5, <1>8, <2>1, <2>2, LowersKeeps

LEMMA TooFewAllocatedKeeps ==
    ASSUME NEW sure, Typing, Discipline(sure), NEW w \in Workers, TooFewAllocated(w)
    PROVE  Discipline(sure)'
<1>1. PICK q : q = request[w]
  OBVIOUS
<1>2. PICK rows : rows = Seen(w, "allocated")
  OBVIOUS
<1>3. PICK S : S = RowsOf({ Head(q.items).line }, rows)
  OBVIOUS
<1>4. PICK want : want = Locking(AllocationLock, ByStock(S))
  OBVIOUS
<1>5. PICK r : r = [ q EXCEPT !.phase = "zero", !.want = want ]
  OBVIOUS
<1>6. /\ q.phase = "deallocate" /\ request' = [ request EXCEPT ![w] = r ]
      /\ db' = db /\ txn' = txn /\ holds' = [ holds EXCEPT ![w] = q.kept ]
  BY <1>1, <1>2, <1>3, <1>4, <1>5 DEF TooFewAllocated, At, Continue
<1>7. /\ FieldsOK(q) /\ CourseOK(q, db) /\ Savepoint(sure, q, txn[w], holds[w], db)
      /\ sure => Suffices(txn[w], db)
  BY <1>1, OfCall
<1>8. q.phase \in LinePhases
  BY <1>6 DEF LinePhases
<1>9. /\ DOMAIN r = Fields /\ r.phase = "zero" /\ r.want = want
      /\ \A field \in Fields \ { "phase", "want" } : r[field] = q[field]
  BY <1>5, <1>7 DEF FieldsOK, Fields
<1>10. ~Placing(q, db) /\ ~Placing(r, db) /\ r.order = q.order /\ r.items = q.items
       /\ r.kept = q.kept /\ r.base = q.base
  BY <1>6, <1>7, <1>9 DEF CourseOK, Placing, Fields
<1>11. /\ want \in Seq(LockRows)
       /\ \A k \in S : \E i \in DOMAIN want : want[i] = AllocationLock(k)
  <2>1. TableOK("allocated", rows) /\ S \subseteq DOMAIN rows
    BY <1>2, <1>3, SeenRows DEF RowsOf
  <2>2. want = [ i \in DOMAIN ByStock(S) |-> AllocationLock(ByStock(S)[i]) ]
    BY <1>4 DEF Locking
  <2>3. QED
    BY <2>1, <2>2, LocksAllocations
<1>12. CourseOK(r, db)
  BY <1>7, <1>8, <1>9, <1>10, <1>11 DEF CourseOK, LinePhases, Fields
<1>13. /\ WritesLocked(r, txn[w], q.kept, db) /\ DOMAIN txn[w].status = {}
       /\ txn[w] = q.base
  <2>1. WritesLocked(q, q.base, q.kept, db) /\ DOMAIN q.base.status = {} /\ txn[w] = q.base
    BY <1>6, <1>7, <1>8 DEF Savepoint
  <2>2. QED
    BY <1>6, <1>9, <1>10, <2>1, StaysLocked
<1>14. Covered(r, q.kept, db)
  <2>1. Head(q.items) = q.items[1]
    BY <1>1, <1>8, WorkItem
  <2>2. \A k \in DOMAIN db.allocated : k[1] = q.items[1].line => k \in S
    BY <1>2, <1>3, <2>1 DEF RowsOf, Seen, Over
  <2>3. QED
    BY <1>9, <1>10, <1>11, <2>2 DEF Covered, Waits
<1>15. Savepoint(sure, r, txn[w], q.kept, db)
  BY <1>7, <1>9, <1>10, <1>13 DEF Savepoint
<1>16. Freed(r, txn[w], db)
  BY <1>9, <1>13 DEF Freed, Cancels
<1>17. CallOK(sure, r, txn[w], q.kept, db)
  BY <1>7, <1>12, <1>13, <1>14, <1>15, <1>16 DEF CallOK
<1>18. q.kept \subseteq holds[w]
  BY <1>7, <1>8 DEF Savepoint
<1>19. QED
  BY <1>6, <1>10, <1>17, <1>18, LocalStep

LEMMA DecreaseStockKeeps ==
    ASSUME NEW sure, Typing, Discipline(sure), NEW w \in Workers, DecreaseStock(w)
    PROVE  Discipline(sure)'
<1>1. PICK q : q = request[w]
  OBVIOUS
<1>2. PICK item : item = Head(q.items)
  OBVIOUS
<1>3. PICK left : left = Seen(w, "quantity")[item.stock] - item.quantity
  OBVIOUS
<1>4. PICK r : r = [ q EXCEPT !.phase = "mark", !.want = << LineLock(item.line) >> ]
  OBVIOUS
<1>5. /\ q.phase = "ship" /\ q.want = << >> /\ request' = [ request EXCEPT ![w] = r ]
      /\ Enough(w) /\ Writes(w, "quantity", Row(item.stock, left)) /\ db' = db /\ holds' = holds
  BY <1>1, <1>2, <1>3, <1>4 DEF DecreaseStock, At, Continue
<1>6. /\ FieldsOK(q) /\ CourseOK(q, db) /\ WritesLocked(q, txn[w], holds[w], db)
      /\ Covered(q, holds[w], db) /\ Savepoint(sure, q, txn[w], holds[w], db)
      /\ sure => Suffices(txn[w], db)
      /\ DbOK(db) /\ WritesOK(txn[w])
  BY <1>1, OfCall
<1>7. q.phase \in LinePhases
  BY <1>5 DEF LinePhases
<1>8. /\ item = q.items[1] /\ item.stock \in Stocks /\ item.quantity \in Nat /\ item.line \in Lines
  BY <1>1, <1>2, <1>7, WorkItem
<1>9. PICK x : /\ txn' = [ txn EXCEPT ![w] = x ]
               /\ DOMAIN x = Tables /\ x.quantity = Over(Row(item.stock, left), txn[w].quantity)
               /\ \A t \in Tables \ { "quantity" } : x[t] = txn[w][t]
  BY <1>5, WrittenIs DEF Tables
<1>10. /\ x.allocated = txn[w].allocated /\ x.status = txn[w].status
       /\ DOMAIN x.quantity = { item.stock } \cup DOMAIN txn[w].quantity
       /\ x.quantity[item.stock] = left
       /\ \A s \in DOMAIN txn[w].quantity \ { item.stock } : x.quantity[s] = txn[w].quantity[s]
  BY <1>9 DEF Tables, Over, Row
<1>11. /\ DOMAIN r = Fields /\ r.phase = "mark" /\ r.want = << LineLock(item.line) >>
       /\ \A field \in Fields \ { "phase", "want" } : r[field] = q[field]
  BY <1>4, <1>6 DEF FieldsOK, Fields
<1>12. ~Placing(q, db) /\ ~Placing(r, db) /\ r.order = q.order /\ r.items = q.items
       /\ r.kept = q.kept /\ r.base = q.base
  BY <1>5, <1>6, <1>11 DEF CourseOK, Placing, Fields
<1>13. CourseOK(r, db)
  <2>1. r.want \in Seq(LockRows)
    BY <1>8, <1>11 DEF LockRows
  <2>2. QED
    BY <1>6, <1>7, <1>11, <1>12, <2>1 DEF CourseOK, LinePhases, Fields
<1>14. WritesLocked(r, x, holds[w], db) /\ DOMAIN x.status = {}
  <2>1. StockLock(item.stock) \in holds[w]
    BY <1>5, <1>6, <1>8, WaitsNoMore DEF Covered
  <2>2. DOMAIN txn[w].status = {}
    BY <1>5, <1>6, <1>12 DEF WritesLocked
  <2>3. QED
    BY <1>6, <1>10, <1>11, <1>12, <2>1, <2>2 DEF WritesLocked
<1>15. Covered(r, holds[w], db) /\ Freed(r, x, db)
  BY <1>11, <1>14 DEF Covered, Freed, Cancels
<1>16. Savepoint(sure, r, x, holds[w], db)
  BY <1>6, <1>7, <1>11, <1>12, SavepointStays
<1>17. ASSUME sure PROVE Suffices(x, db)
  <2>1. SUFFICES ASSUME NEW s \in Stocks
                 PROVE  AllocatedIn(s, Over(x.allocated, db.allocated))
                          <= Over(x.quantity, db.quantity)[s]
    BY DEF Suffices
  <2>2. AllocatedIn(s, Seen(w, "allocated")) <= Seen(w, "quantity")[s]
    BY <1>6, <1>17 DEF Suffices, Seen
  <2>3. AllocatedIn(s, Over(x.allocated, db.allocated)) = AllocatedIn(s, Seen(w, "allocated"))
    BY <1>10 DEF Seen
  <2>4. CASE s = item.stock
    <3>1. Over(x.quantity, db.quantity)[s] = left
      BY <1>10, <2>4 DEF Over
    <3>2. Seen(w, "quantity")[s] - AllocatedIn(s, Seen(w, "allocated")) >= item.quantity
      BY <1>1, <1>2, <1>5, <2>4 DEF Enough
    <3>3. Seen(w, "quantity")[s] \in Nat /\ AllocatedIn(s, Seen(w, "allocated")) \in Nat
      BY SeenRows, AllocatedInNat
    <3>4. QED
      BY <1>3, <1>8, <2>3, <2>4, <3>1, <3>2, <3>3
  <2>5. CASE s # item.stock
    <3>1. Over(x.quantity, db.quantity)[s] = Seen(w, "quantity")[s]
      <4>1. DOMAIN db.quantity = Stocks
        BY <1>6 DEF DbOK
      <4>2. QED
        BY <1>10, <2>5, <4>1 DEF Over, Seen
    <3>2. QED
      BY <2>2, <2>3, <3>1
  <2>6. QED
    BY <2>4, <2>5
<1>18. CallOK(sure, r, x, holds[w], db)
  BY <1>13, <1>14, <1>15, <1>16, <1>17 DEF CallOK
<1>19. QED
  BY <1>5, <1>9, <1>12, <1>18, LocalStep

\* The call writes something that is neither stock nor status.
LEMMA WritesOtherKeeps ==
    ASSUME NEW sure, Typing, Discipline(sure), NEW w \in Workers, NEW q, q = request[w], NEW r,
           q.phase \notin { "idle", "sum", "allocate", "commit" }, NEW x,
           txn' = [ txn EXCEPT ![w] = x ], x.allocated = txn[w].allocated,
           x.quantity = txn[w].quantity, x.status = txn[w].status,
           r.phase \in { "line", "update" }, r.order = q.order, CourseOK(r, db),
           request' = [ request EXCEPT ![w] = r ], db' = db, holds' = holds
    PROVE  Discipline(sure)'
<1>1. /\ CourseOK(q, db) /\ WritesLocked(q, txn[w], holds[w], db)
      /\ sure => Suffices(txn[w], db)
  BY OfCall
<1>2. ~Placing(q, db) /\ ~Placing(r, db)
  BY <1>1 DEF CourseOK, Placing
<1>3. DOMAIN x.status = {}
  BY <1>1, <1>2 DEF WritesLocked
<1>4. WritesLocked(r, x, holds[w], db)
  BY <1>1, <1>2, <1>3 DEF WritesLocked
<1>5. Freed(r, x, db) /\ Covered(r, holds[w], db)
      /\ Savepoint(sure, r, x, holds[w], db)
  BY <1>3 DEF Freed, Cancels, Covered, Savepoint, LinePhases
<1>6. sure => Suffices(x, db)
  BY <1>1, <1>3 DEF Suffices
<1>7. CallOK(sure, r, x, holds[w], db)
  BY <1>4, <1>5, <1>6 DEF CallOK
<1>8. QED
  BY <1>2, <1>7, LocalStep

LEMMA FulfillOrderLineKeeps ==
    ASSUME NEW sure, Typing, Discipline(sure), NEW w \in Workers, FulfillOrderLine(w)
    PROVE  Discipline(sure)'
<1>1. PICK q : q = request[w]
  OBVIOUS
<1>2. PICK item : item = Head(q.items)
  OBVIOUS
<1>3. PICK r : r = [ q EXCEPT !.phase = "line", !.items = Tail(@), !.done = Append(@, item) ]
  OBVIOUS
<1>4. /\ q.phase = "mark" /\ q.want = << >> /\ request' = [ request EXCEPT ![w] = r ]
      /\ Writes(w, "fulfilled", Row(item.line, q.loaded[item.line] + item.quantity))
      /\ db' = db /\ holds' = holds
  BY <1>1, <1>2, <1>3 DEF FulfillOrderLine, At, Continue
<1>5. FieldsOK(q) /\ CourseOK(q, db)
  BY <1>1, OfCall
<1>6. q.phase \in LinePhases
  BY <1>4 DEF LinePhases
<1>7. /\ DOMAIN r = Fields /\ r.phase = "line" /\ r.items = Tail(q.items)
      /\ \A field \in Fields \ { "phase", "items", "done" } : r[field] = q[field]
  BY <1>3, <1>5 DEF FieldsOK, Fields
<1>8. ~Placing(r, db) /\ r.order = q.order
  BY <1>4, <1>5, <1>7 DEF CourseOK, Placing, Fields
<1>9. CourseOK(r, db)
  <2>1. q.items # << >> /\ q.items \in Seq(Item)
    BY <1>1, <1>6, WorkItem
  <2>2. \A i \in DOMAIN r.items : OrderOf[r.items[i].line] = q.order
    BY <1>5, <1>6, <1>7, <2>1, FirstItem DEF CourseOK
  <2>3. QED
    BY <1>5, <1>6, <1>7, <1>8, <2>2 DEF CourseOK, LinePhases, Fields
<1>10. QED
  <2>1. q.phase \notin { "idle", "sum", "allocate", "commit" } /\ r.phase \in { "line", "update" }
    BY <1>4, <1>7
  <2>2. PICK x : /\ txn' = [ txn EXCEPT ![w] = x ] /\ x.allocated = txn[w].allocated
                 /\ x.quantity = txn[w].quantity /\ x.status = txn[w].status
    BY <1>4, WrittenIs DEF Tables
  <2>3. QED
    BY <1>1, <1>4, <1>7, <1>8, <1>9, <2>1, <2>2, WritesOtherKeeps

LEMMA CreateFulfillmentKeeps ==
    ASSUME NEW sure, Typing, Discipline(sure), NEW w \in Workers, CreateFulfillment(w)
    PROVE  Discipline(sure)'
<1>1. PICK q : q = request[w]
  OBVIOUS
<1>2. PICK row : row = [ order |-> q.order, status |-> q.final, lines |-> q.done ]
  OBVIOUS
<1>3. PICK r : r = [ q EXCEPT !.phase = "update" ]
  OBVIOUS
<1>4. /\ q.phase = "line" /\ request' = [ request EXCEPT ![w] = r ]
      /\ Writes(w, "fulfillment", Row(q.fulfillment, row)) /\ db' = db /\ holds' = holds
  BY <1>1, <1>2, <1>3 DEF CreateFulfillment, At, Continue
<1>5. FieldsOK(q) /\ CourseOK(q, db)
  BY <1>1, OfCall
<1>6. /\ DOMAIN r = Fields /\ r.phase = "update"
      /\ \A field \in Fields \ { "phase" } : r[field] = q[field]
  BY <1>3, <1>5 DEF FieldsOK, Fields
<1>7. ~Placing(r, db) /\ r.order = q.order
  BY <1>4, <1>5, <1>6 DEF CourseOK, Placing, Fields
<1>8. CourseOK(r, db)
  BY <1>4, <1>5, <1>6, <1>7 DEF CourseOK, LinePhases, Fields
<1>9. QED
  <2>1. q.phase \notin { "idle", "sum", "allocate", "commit" } /\ r.phase \in { "line", "update" }
    BY <1>4, <1>6
  <2>2. PICK x : /\ txn' = [ txn EXCEPT ![w] = x ] /\ x.allocated = txn[w].allocated
                 /\ x.quantity = txn[w].quantity /\ x.status = txn[w].status
    BY <1>4, WrittenIs DEF Tables
  <2>3. QED
    BY <1>1, <1>4, <1>7, <1>8, <2>1, <2>2, WritesOtherKeeps

LEMMA UpdateOrderStatusKeeps ==
    ASSUME NEW sure, Typing, Discipline(sure), NEW w \in Workers, UpdateOrderStatus(w)
    PROVE  Discipline(sure)'
<1>1. PICK q : q = request[w]
  OBVIOUS
<1>2. PICK status : status = StatusFor(q.order, Seen(w, "fulfilled"))
  OBVIOUS
<1>3. status \in { "unfulfilled", "partially fulfilled", "fulfilled" }
  BY <1>2 DEF StatusFor
<1>4. PICK r : r = IF status = q.status THEN [ q EXCEPT !.phase = "commit" ]
                   ELSE [ q EXCEPT !.phase = "order", !.status = status,
                                   !.want = << OrderLock(q.order) >> ]
  OBVIOUS
<1>5. /\ q.phase = "update" /\ request' = [ request EXCEPT ![w] = r ]
      /\ txn' = txn /\ db' = db /\ holds' = holds
  BY <1>1, <1>2, <1>4 DEF UpdateOrderStatus, At, Continue
<1>6. FieldsOK(q) /\ CourseOK(q, db)
  BY <1>1, OfCall
<1>7. /\ DOMAIN r = Fields /\ r.order = q.order /\ r.then = q.then
      /\ \/ r.phase = "commit" /\ r.want = q.want
         \/ r.phase = "order" /\ r.status = status /\ r.want = << OrderLock(q.order) >>
  BY <1>4, <1>6 DEF FieldsOK, Fields
<1>8. ~Placing(r, db)
  BY <1>5, <1>6, <1>7 DEF CourseOK, Placing
<1>9. CourseOK(r, db)
  <2>1. r.want \in Seq(LockRows)
    <3>1. OrderLock(q.order) \in LockRows
      BY <1>5, <1>6 DEF FieldsOK, LockRows
    <3>2. CASE r.want = q.want
      BY <1>6, <3>2 DEF CourseOK
    <3>3. CASE r.want = << OrderLock(q.order) >>
      BY <3>1, <3>3
    <3>4. QED
      BY <1>7, <3>2, <3>3
  <2>2. QED
    BY <1>3, <1>6, <1>7, <1>8, <2>1 DEF CourseOK, LinePhases
<1>10. Covered(r, holds[w], db) /\ Savepoint(sure, r, txn[w], holds[w], db)
  BY <1>7 DEF Covered, Savepoint, LinePhases
<1>11. QED
  <2>1. /\ q.phase \notin { "idle", "sum", "allocate", "commit" }
        /\ r.phase \notin { "idle", "sum", "allocate", "find", "release" }
        /\ ~(r.phase = "order" /\ r.status = "canceled")
    BY <1>3, <1>5, <1>7
  <2>2. QED
    BY <1>1, <1>5, <1>7, <1>9, <1>10, <2>1, GoesOn

LEMMA SaveOrderKeeps ==
    ASSUME NEW sure, Typing, Discipline(sure), NEW w \in Workers, SaveOrder(w)
    PROVE  Discipline(sure)'
<1>1. PICK q : q = request[w]
  OBVIOUS
<1>2. PICK r : r = [ q EXCEPT !.phase = "commit" ]
  OBVIOUS
<1>3. /\ q.phase = "order" /\ request' = [ request EXCEPT ![w] = r ]
      /\ Writes(w, "status", Row(q.order, q.status)) /\ db' = db /\ holds' = holds
  BY <1>1, <1>2 DEF SaveOrder, At
<1>4. /\ FieldsOK(q) /\ CourseOK(q, db) /\ WritesLocked(q, txn[w], holds[w], db)
      /\ Freed(q, txn[w], db)
      /\ sure => Suffices(txn[w], db)
  BY <1>1, OfCall
<1>5. /\ DOMAIN r = Fields /\ r.phase = "commit"
      /\ \A field \in Fields \ { "phase" } : r[field] = q[field]
  BY <1>2, <1>4 DEF FieldsOK, Fields
<1>6. ~Placing(q, db) /\ ~Placing(r, db) /\ r.order = q.order
  BY <1>3, <1>4, <1>5 DEF CourseOK, Placing, Fields
<1>7. PICK x : /\ txn' = [ txn EXCEPT ![w] = x ]
               /\ DOMAIN x = Tables /\ x.status = Over(Row(q.order, q.status), txn[w].status)
               /\ \A t \in Tables \ { "status" } : x[t] = txn[w][t]
  BY <1>3, WrittenIs DEF Tables
<1>8. x.allocated = txn[w].allocated /\ x.quantity = txn[w].quantity
  BY <1>7 DEF Tables
<1>9. DOMAIN x.status = { q.order } /\ x.status[q.order] = q.status
  <2>1. DOMAIN txn[w].status = {}
    BY <1>3, <1>4, <1>6 DEF WritesLocked
  <2>2. QED
    BY <1>7, <2>1 DEF Over, Row
<1>10. CourseOK(r, db)
  BY <1>3, <1>4, <1>5, <1>6 DEF CourseOK, LinePhases, Fields
<1>11. WritesLocked(r, x, holds[w], db)
  <2>1. q.status # "absent"
    BY <1>3, <1>4 DEF CourseOK
  <2>2. QED
    BY <1>4, <1>5, <1>6, <1>8, <1>9, <2>1 DEF WritesLocked
<1>12. Covered(r, holds[w], db) /\ Savepoint(sure, r, x, holds[w], db)
  BY <1>5 DEF Covered, Savepoint, LinePhases
<1>13. Freed(r, x, db)
  BY <1>3, <1>4, <1>5, <1>6, <1>8, <1>9 DEF Freed, Cancels
<1>14. sure => Suffices(x, db)
  BY <1>4, <1>8 DEF Suffices
<1>15. CallOK(sure, r, x, holds[w], db)
  BY <1>10, <1>11, <1>12, <1>13, <1>14 DEF CallOK
<1>16. QED
  BY <1>3, <1>6, <1>7, <1>15, LocalStep

LEMMA FindAllocationsKeeps ==
    ASSUME NEW sure, Typing, Discipline(sure), NEW w \in Workers, FindAllocations(w)
    PROVE  Discipline(sure)'
<1>1. PICK q : q = request[w]
  OBVIOUS
<1>2. PICK S : S = { k \in RowsOf(LinesOf(q.order), db.allocated) : db.allocated[k] > 0 }
  OBVIOUS
<1>3. q.phase = "find" /\ q.fulfillment = None
  <2>1. q.phase = "find"
    BY <1>1 DEF FindAllocations, At
  <2>2. QED
    BY <1>1, <2>1, OfCall DEF CourseOK
<1>4. PICK want : want = Locking(AllocationLock, ByStock(S))
  OBVIOUS
<1>5. PICK r : r = [ q EXCEPT !.phase = "release", !.want = want ]
  OBVIOUS
<1>6. /\ request' = [ request EXCEPT ![w] = r ] /\ db' = db /\ txn' = txn /\ holds' = holds
  BY <1>1, <1>2, <1>3, <1>4, <1>5 DEF FindAllocations, Continue
<1>7. FieldsOK(q) /\ CourseOK(q, db) /\ Covered(q, holds[w], db) /\ DbOK(db)
  BY <1>1, OfCall
<1>8. /\ DOMAIN r = Fields /\ r.phase = "release" /\ r.want = want
      /\ \A field \in Fields \ { "phase", "want" } : r[field] = q[field]
  BY <1>5, <1>7 DEF FieldsOK, Fields
<1>9. ~Placing(r, db) /\ r.order = q.order /\ r.fulfillment = None /\ r.then = "idle"
  BY <1>3, <1>7, <1>8 DEF CourseOK, Placing, Fields
<1>10. TableOK("allocated", db.allocated)
  BY <1>7 DEF DbOK, WritesOK, Tables
<1>11. /\ want \in Seq(LockRows)
       /\ \A k \in S : \E i \in DOMAIN want : want[i] = AllocationLock(k)
       /\ \A i \in DOMAIN want : \E k \in S : want[i] = AllocationLock(k)
  <2>1. S \subseteq DOMAIN db.allocated
    BY <1>2 DEF RowsOf
  <2>2. want = [ i \in DOMAIN ByStock(S) |-> AllocationLock(ByStock(S)[i]) ]
    BY <1>4 DEF Locking
  <2>3. QED
    BY <1>10, <2>1, <2>2, LocksAllocations
<1>12. CourseOK(r, db)
  BY <1>8, <1>9, <1>11 DEF CourseOK, LinePhases
<1>13. Covered(r, holds[w], db)
  <2>1. holds[w] = {}
    BY <1>3, <1>7 DEF Covered
  <2>2. ASSUME NEW k \in DOMAIN db.allocated, OrderOf[k[1]] = q.order
        PROVE  db.allocated[k] = 0 \/ AllocationLock(k) \in Waits(r, holds[w])
    <3>1. db.allocated[k] \in Nat /\ k[1] \in Lines
      BY <1>10, AllocationRows
    <3>2. db.allocated[k] # 0 => k \in S
      BY <1>2, <2>2, <3>1 DEF RowsOf, LinesOf
    <3>3. QED
      BY <1>8, <1>11, <3>2 DEF Waits
  <2>3. ASSUME NEW k \in Lines \X Stocks, AllocationLock(k) \in Waits(r, holds[w])
        PROVE  OrderOf[k[1]] = q.order
    <3>1. PICK i \in DOMAIN want : want[i] = AllocationLock(k)
      BY <1>8, <2>1, <2>3 DEF Waits
    <3>2. PICK j \in S : want[i] = AllocationLock(j)
      BY <1>11
    <3>3. k[1] = j[1]
      BY <3>1, <3>2 DEF AllocationLock
    <3>4. QED
      BY <1>2, <3>3 DEF RowsOf, LinesOf
  <2>4. QED
    BY <1>8, <1>9, <2>2, <2>3 DEF Covered
<1>14. Savepoint(sure, r, txn[w], holds[w], db)
  BY <1>8 DEF Savepoint, LinePhases
<1>15. QED
  <2>1. /\ q.phase \notin { "idle", "sum", "allocate", "commit" }
        /\ r.phase \notin { "idle", "sum", "allocate" }
        /\ ~(r.phase = "order" /\ r.status = "canceled")
        /\ r.phase \in { "find", "release" } => q.phase = "find"
    BY <1>3, <1>8
  <2>2. QED
    BY <1>1, <1>6, <1>9, <1>12, <1>13, <1>14, <2>1, GoesOn

LEMMA ReleaseAllocationsKeeps ==
    ASSUME NEW sure, Typing, Discipline(sure), NEW w \in Workers, ReleaseAllocations(w)
    PROVE  Discipline(sure)'
<1>1. PICK q : q = request[w]
  OBVIOUS
<1>2. PICK zeros :
        zeros = [ k \in { j \in DOMAIN db.allocated : AllocationLock(j) \in holds[w] } |-> 0 ]
  OBVIOUS
<1>3. q.phase = "release" /\ q.want = << >> /\ q.fulfillment = None
  <2>1. q.phase = "release" /\ q.want = << >>
    BY <1>1 DEF ReleaseAllocations, At
  <2>2. QED
    BY <1>1, <2>1, OfCall DEF CourseOK
<1>4. PICK r : r = [ q EXCEPT !.phase = "order", !.status = "canceled",
                              !.want = << OrderLock(q.order) >> ]
  OBVIOUS
<1>5. /\ request' = [ request EXCEPT ![w] = r ] /\ Writes(w, "allocated", zeros)
      /\ db' = db /\ holds' = holds
  BY <1>1, <1>2, <1>3, <1>4 DEF ReleaseAllocations, Continue
<1>6. /\ FieldsOK(q) /\ CourseOK(q, db) /\ Covered(q, holds[w], db) /\ DbOK(db) /\ RowsOK(sure, db)
      /\ txn[w] = NoWrites
  BY <1>1, <1>3, OfCall DEF WritesLocked
<1>7. /\ DOMAIN r = Fields /\ r.phase = "order" /\ r.status = "canceled"
      /\ r.want = << OrderLock(q.order) >>
      /\ \A field \in Fields \ { "phase", "status", "want" } : r[field] = q[field]
  BY <1>4, <1>6 DEF FieldsOK, Fields
<1>8. ~Placing(q, db) /\ ~Placing(r, db) /\ r.order = q.order /\ r.then = "idle"
  BY <1>3, <1>6, <1>7 DEF CourseOK, Placing, Fields
<1>9. PICK x : /\ txn' = [ txn EXCEPT ![w] = x ]
               /\ DOMAIN x = Tables /\ x.allocated = Over(zeros, NoWrites.allocated)
               /\ \A t \in Tables \ { "allocated" } : x[t] = NoWrites[t]
  BY <1>5, <1>6, WrittenIs DEF Tables
<1>10. /\ DOMAIN x.quantity = {} /\ DOMAIN x.status = {}
       /\ DOMAIN x.allocated = { j \in DOMAIN db.allocated : AllocationLock(j) \in holds[w] }
       /\ \A k \in DOMAIN x.allocated : x.allocated[k] = 0
  <2>1. DOMAIN x.quantity = {} /\ DOMAIN x.status = {}
    BY <1>9, NoWritesAre DEF Tables
  <2>2. DOMAIN x.allocated = DOMAIN zeros /\ \A k \in DOMAIN zeros : x.allocated[k] = zeros[k]
    BY <1>9, NoWritesAre DEF Over
  <2>3. QED
    BY <1>2, <2>1, <2>2
<1>11. /\ TableOK("allocated", db.allocated)
       /\ \A k \in DOMAIN db.allocated : db.allocated[k] \in Nat /\ k \in Lines \X Stocks
  BY <1>6 DEF DbOK, WritesOK, Tables, TableOK
<1>12. TableOK("allocated", x.allocated)
  BY <1>10, <1>11 DEF TableOK
<1>13. CourseOK(r, db)
  <2>1. r.want \in Seq(LockRows)
    BY <1>3, <1>6, <1>7 DEF FieldsOK, LockRows
  <2>2. QED
    BY <1>7, <1>8, <2>1 DEF CourseOK, LinePhases
<1>14. WritesLocked(r, x, holds[w], db)
  <2>1. \A k \in DOMAIN x.allocated : OrderOf[k[1]] = q.order
    BY <1>3, <1>6, <1>10, <1>11, WaitsNoMore DEF Covered
  <2>2. \A k \in DOMAIN x.allocated : x.allocated[k] <= db.allocated[k]
    BY <1>10, <1>11
  <2>3. QED
    BY <1>7, <1>8, <1>10, <2>1, <2>2 DEF WritesLocked
<1>15. Covered(r, holds[w], db) /\ Savepoint(sure, r, x, holds[w], db)
  BY <1>7 DEF Covered, Savepoint, LinePhases
<1>16. Freed(r, x, db)
  <2>1. \A k \in DOMAIN db.allocated \ DOMAIN x.allocated :
          OrderOf[k[1]] = q.order => db.allocated[k] = 0
    BY <1>3, <1>6, <1>10, WaitsNoMore DEF Covered
  <2>2. QED
    BY <1>8, <1>10, <2>1 DEF Freed
<1>17. ASSUME sure PROVE Suffices(x, db)
  <2>1. SUFFICES ASSUME NEW s \in Stocks
                 PROVE  AllocatedIn(s, Over(x.allocated, db.allocated))
                          <= Over(x.quantity, db.quantity)[s]
    BY DEF Suffices
  <2>2. PICK rows : rows = Over(x.allocated, db.allocated)
    OBVIOUS
  <2>3. TableOK("allocated", rows)
    BY <1>11, <1>12, <2>2, OverTyped
  <2>4. \A k \in DOMAIN rows : k \in DOMAIN db.allocated
                               /\ (rows[k] = 0 \/ rows[k] = db.allocated[k])
    BY <1>10, <2>2 DEF Over
  <2>5. \A k \in DOMAIN rows : k[2] = s => k \in DOMAIN db.allocated /\ rows[k] <= db.allocated[k]
    BY <1>11, <2>4
  <2>6. AllocatedIn(s, rows) <= AllocatedIn(s, db.allocated)
    BY <1>11, <2>3, <2>5, AllocatedAtMost
  <2>7. AllocatedIn(s, db.allocated) <= db.quantity[s] /\ db.quantity[s] \in Nat
        /\ Over(x.quantity, db.quantity)[s] = db.quantity[s]
    BY <1>6, <1>10, <1>17 DEF RowsOK, DbOK, Over
  <2>8. AllocatedIn(s, rows) \in Nat /\ AllocatedIn(s, db.allocated) \in Nat
    BY <1>11, <2>3, AllocatedInNat
  <2>9. QED
    BY <2>2, <2>6, <2>7, <2>8
<1>18. CallOK(sure, r, x, holds[w], db)
  BY <1>13, <1>14, <1>15, <1>16, <1>17 DEF CallOK
<1>19. QED
  BY <1>5, <1>8, <1>9, <1>18, LocalStep

-----------------------------------------------------------------------------
(* A transaction is committed.                                             *)

\* What the rows e differ in from the rows d: a call placing its order adds
\* allocations of stocks it has locked; any other lowers what it has locked.
Changed(r, h, d, e) ==
    /\ DOMAIN d.allocated \subseteq DOMAIN e.allocated
    /\ \A k \in DOMAIN d.allocated :
         \/ e.allocated[k] = d.allocated[k]
         \/ ~Placing(r, d) /\ AllocationLock(k) \in h /\ e.allocated[k] <= d.allocated[k]
    /\ \A k \in DOMAIN e.allocated \ DOMAIN d.allocated :
         OrderOf[k[1]] = r.order /\ Placing(r, d) /\ StockLock(k[2]) \in h
    /\ \A s \in Stocks :
         \/ e.quantity[s] = d.quantity[s]
         \/ ~Placing(r, d) /\ StockLock(s) \in h
    /\ \A o \in Orders :
         \/ e.status[o] = d.status[o]
         \/ o = r.order /\ e.status[o] # "absent"
    /\ Placing(r, d) => OrderLock(r.order) \in h

LEMMA Changes ==
    ASSUME NEW sure,
           NEW r, NEW x, NEW h, NEW d, NEW e, WritesLocked(r, x, h, d), WritesOK(x), DbOK(d),
           RowsOK(sure, d), e.allocated = Over(x.allocated, d.allocated),
           e.quantity = Over(x.quantity, d.quantity), e.status = Over(x.status, d.status)
    PROVE  Changed(r, h, d, e)
<1>1. /\ TableOK("allocated", x.allocated) /\ TableOK("allocated", d.allocated)
      /\ TableOK("status", x.status) /\ d.status \in [ Orders -> OrderStatus ]
      /\ DOMAIN x.quantity \subseteq Stocks
      /\ \A s \in Stocks : e.quantity[s] = IF s \in DOMAIN x.quantity THEN x.quantity[s]
                                           ELSE d.quantity[s]
  BY Sees DEF WritesOK, DbOK, Tables
<1>2. /\ DOMAIN e.allocated = DOMAIN x.allocated \cup DOMAIN d.allocated
      /\ \A k \in DOMAIN e.allocated :
           e.allocated[k] = IF k \in DOMAIN x.allocated THEN x.allocated[k] ELSE d.allocated[k]
  BY DEF Over
<1>3. \A k \in DOMAIN d.allocated : d.status[OrderOf[k[1]]] # "absent"
  BY DEF RowsOK
<1>4. CASE Placing(r, d)
  <2>1. /\ OrderLock(r.order) \in h /\ DOMAIN x.quantity = {} /\ d.status[r.order] = "absent"
        /\ \A k \in DOMAIN x.allocated : StockLock(k[2]) \in h /\ OrderOf[k[1]] = r.order
    BY <1>4 DEF WritesLocked, Placing
  <2>2. DOMAIN x.allocated \cap DOMAIN d.allocated = {}
    BY <1>3, <2>1
  <2>3. \A k \in DOMAIN d.allocated : e.allocated[k] = d.allocated[k]
    BY <1>2, <2>2
  <2>4. \A k \in DOMAIN e.allocated \ DOMAIN d.allocated :
          OrderOf[k[1]] = r.order /\ StockLock(k[2]) \in h
    BY <1>2, <2>1
  <2>5. \A s \in Stocks : e.quantity[s] = d.quantity[s]
    BY <1>1, <2>1
  <2>6. \A o \in Orders : \/ e.status[o] = d.status[o]
                          \/ o = r.order /\ e.status[o] # "absent"
    BY <1>1 DEF WritesLocked, Over
  <2>7. QED
    BY <1>2, <1>4, <2>1, <2>3, <2>4, <2>5, <2>6 DEF Changed
<1>5. CASE ~Placing(r, d)
  <2>1. /\ \A k \in DOMAIN x.allocated :
             /\ k \in DOMAIN d.allocated /\ x.allocated[k] <= d.allocated[k]
             /\ AllocationLock(k) \in h
        /\ \A s \in DOMAIN x.quantity : StockLock(s) \in h
    BY <1>5 DEF WritesLocked
  <2>2. \A k \in DOMAIN d.allocated : \/ e.allocated[k] = d.allocated[k]
                                      \/ AllocationLock(k) \in h /\ e.allocated[k] <= d.allocated[k]
    BY <1>2, <2>1
  <2>3. DOMAIN e.allocated = DOMAIN d.allocated
    BY <1>2, <2>1
  <2>4. \A s \in Stocks : e.quantity[s] = d.quantity[s] \/ StockLock(s) \in h
    BY <1>1, <2>1
  <2>5. \A o \in Orders : \/ e.status[o] = d.status[o]
                          \/ o = r.order /\ e.status[o] # "absent"
    BY <1>1 DEF WritesLocked, Over
  <2>6. QED
    BY <1>5, <2>2, <2>3, <2>4, <2>5 DEF Changed
<1>6. QED
  BY <1>4, <1>5

\* The rows that are committed are as the call says they are.
LEMMA CommittedOK ==
    ASSUME NEW sure, NEW r, NEW x, NEW h, NEW d, NEW e, WritesLocked(r, x, h, d), Freed(r, x, d),
           sure => Suffices(x, d), WritesOK(x), DbOK(d), RowsOK(sure, d),
           Changed(r, h, d, e), e.allocated = Over(x.allocated, d.allocated),
           e.quantity = Over(x.quantity, d.quantity), e.status = Over(x.status, d.status)
    PROVE  RowsOK(sure, e)
<1>1. /\ TableOK("allocated", x.allocated) /\ TableOK("allocated", d.allocated)
      /\ d.status \in [ Orders -> OrderStatus ]
      /\ \A k \in DOMAIN d.allocated : d.status[OrderOf[k[1]]] # "absent"
      /\ \A k \in DOMAIN d.allocated : d.status[OrderOf[k[1]]] = "canceled" => d.allocated[k] = 0
  BY Sees DEF DbOK, RowsOK
<1>2. /\ DOMAIN e.allocated = DOMAIN x.allocated \cup DOMAIN d.allocated
      /\ \A k \in DOMAIN e.allocated :
           e.allocated[k] = IF k \in DOMAIN x.allocated THEN x.allocated[k] ELSE d.allocated[k]
      /\ \A o \in Orders : e.status[o] = IF o \in DOMAIN x.status THEN x.status[o] ELSE d.status[o]
  BY <1>1 DEF Over
<1>3. /\ \A k \in DOMAIN x.allocated :
           /\ OrderOf[k[1]] \in Orders /\ OrderOf[k[1]] = r.order /\ x.allocated[k] \in Nat
      /\ \A k \in DOMAIN d.allocated : OrderOf[k[1]] \in Orders /\ d.allocated[k] \in Nat
      /\ \A o \in DOMAIN x.status : o = r.order /\ x.status[o] # "absent"
  BY <1>1, AllocationRows, StockAssumption DEF WritesLocked
<1>4. ASSUME NEW k \in DOMAIN e.allocated
      PROVE  /\ e.status[OrderOf[k[1]]] # "absent"
             /\ e.status[OrderOf[k[1]]] = "canceled" => e.allocated[k] = 0
  <2>1. PICK o \in Orders : o = OrderOf[k[1]]
    BY <1>2, <1>3
  <2>2. CASE Placing(r, d) /\ k \in DOMAIN x.allocated
    <3>1. o \in DOMAIN x.status /\ e.status[o] = x.status[o]
      BY <1>2, <1>3, <2>1, <2>2 DEF WritesLocked
    <3>2. x.status[o] # "absent" /\ (x.status[o] = "canceled" => FALSE)
      BY <1>3, <2>2, <3>1 DEF Freed, Cancels
    <3>3. QED
      BY <2>1, <3>1, <3>2
  <2>3. CASE k \in DOMAIN d.allocated /\ ~ (Placing(r, d) /\ k \in DOMAIN x.allocated)
    <3>1. e.status[o] # "absent"
      BY <1>1, <1>2, <1>3, <2>1, <2>3
    <3>2. e.allocated[k] <= d.allocated[k] /\ e.allocated[k] \in Nat
      <4>1. CASE k \in DOMAIN x.allocated
        BY <1>2, <1>3, <2>3, <4>1 DEF WritesLocked
      <4>2. CASE k \notin DOMAIN x.allocated
        BY <1>2, <1>3, <2>3, <4>2
      <4>3. QED
        BY <4>1, <4>2
    <3>3. ASSUME e.status[o] = "canceled" PROVE e.allocated[k] = 0
      <4>1. CASE o \in DOMAIN x.status
        <5>1. x.status[o] = "canceled" /\ o = r.order
          BY <1>2, <1>3, <3>3, <4>1
        <5>2. /\ \A j \in DOMAIN x.allocated : x.allocated[j] = 0
              /\ \A j \in DOMAIN d.allocated \ DOMAIN x.allocated :
                   OrderOf[j[1]] = r.order => d.allocated[j] = 0
          BY <4>1, <5>1 DEF Freed, Cancels
        <5>3. QED
          BY <1>2, <2>1, <2>3, <5>1, <5>2
      <4>2. CASE o \notin DOMAIN x.status
        BY <1>1, <1>2, <1>3, <2>1, <2>3, <3>2, <3>3, <4>2
      <4>3. QED
        BY <4>1, <4>2
    <3>4. QED
      BY <2>1, <3>1, <3>3
  <2>4. k \in DOMAIN x.allocated /\ k \notin DOMAIN d.allocated => Placing(r, d)
    BY DEF WritesLocked
  <2>5. QED
    BY <1>2, <2>2, <2>3, <2>4
<1>5. sure => \A s \in Stocks : AllocatedIn(s, e.allocated) <= e.quantity[s]
  BY DEF Suffices
<1>6. QED
  BY <1>4, <1>5 DEF RowsOK

\* The other calls go on: they are placing their orders, or not, as before ...
LEMMA OthersPlace ==
    ASSUME NEW r, NEW h, NEW d, NEW e, Changed(r, h, d, e), r.phase # "idle",
           NEW q, NEW y, NEW g, WritesLocked(q, y, g, d), g \cap h = {},
           q.phase # "idle" => q.order \in Orders
    PROVE  Placing(q, e) = Placing(q, d)
<1>1. CASE Placing(q, d)
  <2>1. q.phase # "idle" /\ d.status[q.order] = "absent" /\ OrderLock(q.order) \in g
        /\ q.order \in Orders
    BY <1>1 DEF Placing, WritesLocked
  <2>2. CASE q.order = r.order
    <3>1. Placing(r, d)
      BY <2>1, <2>2 DEF Placing
    <3>2. OrderLock(r.order) \in h
      BY <3>1 DEF Changed
    <3>3. QED
      BY <2>1, <2>2, <3>2
  <2>3. QED
    BY <1>1, <2>1, <2>2 DEF Changed, Placing
<1>2. CASE ~Placing(q, d)
  BY <1>2 DEF Changed, Placing
<1>3. QED
  BY <1>1, <1>2

\* ... what they wrote is still theirs, and sufficed for ...
LEMMA OthersLocked ==
    ASSUME NEW sure, NEW r, NEW h, NEW d, NEW e, Changed(r, h, d, e), NEW q, NEW y, NEW g,
           WritesLocked(q, y, g, d), g \cap h = {}, Placing(q, e) = Placing(q, d), RowsOK(sure, d)
    PROVE  WritesLocked(q, y, g, e)
<1>1. ASSUME ~Placing(q, d), NEW k \in DOMAIN y.allocated
      PROVE  /\ k \in DOMAIN e.allocated /\ y.allocated[k] <= e.allocated[k]
             /\ AllocationLock(k) \in g
  BY <1>1 DEF WritesLocked, Changed
<1>2. QED
  BY <1>1 DEF WritesLocked

LEMMA OthersSuffice ==
    ASSUME NEW sure, NEW r, NEW h, NEW d, NEW e, Changed(r, h, d, e), NEW q, NEW y, NEW g,
           WritesLocked(q, y, g, d), WritesLocked(q, y, g, e), g \cap h = {}, RowsOK(sure, e),
           DbOK(d), DbOK(e), WritesOK(y), Suffices(y, d), sure, Placing(q, e) = Placing(q, d)
    PROVE  Suffices(y, e)
<1>1. SUFFICES ASSUME NEW s \in Stocks
               PROVE  AllocatedIn(s, Over(y.allocated, e.allocated))
                        <= Over(y.quantity, e.quantity)[s]
  BY DEF Suffices
<1>2. PICK rows : rows = Over(y.allocated, e.allocated)
  OBVIOUS
<1>3. PICK had : had = Over(y.allocated, d.allocated)
  OBVIOUS
<1>4. PICK n : n = Over(y.quantity, e.quantity)[s]
  OBVIOUS
<1>5. PICK m : m = Over(y.quantity, d.quantity)[s]
  OBVIOUS
<1>6. /\ TableOK("allocated", rows) /\ TableOK("allocated", had)
      /\ TableOK("allocated", d.allocated) /\ TableOK("allocated", e.allocated)
      /\ TableOK("allocated", y.allocated) /\ n \in Nat /\ m \in Nat
      /\ n = (IF s \in DOMAIN y.quantity THEN y.quantity[s] ELSE e.quantity[s])
      /\ m = (IF s \in DOMAIN y.quantity THEN y.quantity[s] ELSE d.quantity[s])
  BY <1>2, <1>3, <1>4, <1>5, Sees
<1>7. /\ \A k \in DOMAIN d.allocated : d.allocated[k] \in Nat
      /\ \A k \in DOMAIN e.allocated : e.allocated[k] \in Nat
      /\ \A k \in DOMAIN y.allocated : y.allocated[k] \in Nat
  BY <1>6, AllocationRows
<1>8. /\ DOMAIN rows = DOMAIN y.allocated \cup DOMAIN e.allocated
      /\ \A k \in DOMAIN rows :
           rows[k] = IF k \in DOMAIN y.allocated THEN y.allocated[k] ELSE e.allocated[k]
  BY <1>2 DEF Over
<1>9. CASE StockLock(s) \in g
  <2>1. /\ DOMAIN had = DOMAIN y.allocated \cup DOMAIN d.allocated
        /\ \A k \in DOMAIN had :
             had[k] = IF k \in DOMAIN y.allocated THEN y.allocated[k] ELSE d.allocated[k]
    BY <1>3 DEF Over
  <2>2. StockLock(s) \notin h
    BY <1>9
  <2>3. \A k \in DOMAIN rows : k[2] = s => k \in DOMAIN had /\ rows[k] <= had[k]
    BY <1>7, <1>8, <2>1, <2>2 DEF Changed
  <2>4. AllocatedIn(s, rows) <= AllocatedIn(s, had)
    BY <1>6, <2>3, AllocatedAtMost
  <2>5. n = m
    BY <1>6, <2>2 DEF Changed
  <2>6. AllocatedIn(s, had) <= m
    BY <1>3, <1>5 DEF Suffices
  <2>7. AllocatedIn(s, rows) \in Nat /\ AllocatedIn(s, had) \in Nat
    BY <1>6, AllocatedInNat
  <2>8. QED
    BY <1>2, <1>4, <1>6, <2>4, <2>5, <2>6, <2>7
<1>10. CASE StockLock(s) \notin g
  <2>1. s \notin DOMAIN y.quantity
    BY <1>10 DEF WritesLocked
  <2>2. \A k \in DOMAIN rows : k[2] = s => k \in DOMAIN e.allocated /\ rows[k] <= e.allocated[k]
    BY <1>7, <1>8, <1>10 DEF WritesLocked
  <2>3. AllocatedIn(s, rows) <= AllocatedIn(s, e.allocated)
    BY <1>6, <2>2, AllocatedAtMost
  <2>4. AllocatedIn(s, e.allocated) <= e.quantity[s]
    BY DEF RowsOK
  <2>5. n = e.quantity[s]
    BY <1>6, <2>1
  <2>6. AllocatedIn(s, rows) \in Nat /\ AllocatedIn(s, e.allocated) \in Nat
    BY <1>6, AllocatedInNat
  <2>7. QED
    BY <1>2, <1>4, <1>6, <2>3, <2>4, <2>5, <2>6
<1>11. QED
  BY <1>9, <1>10

\* ... and the rows they have locked, or are about to, are as they were.
LEMMA OthersOK ==
    ASSUME NEW sure, NEW r, NEW h, NEW d, NEW e, Changed(r, h, d, e), r.phase # "idle",
           NEW q, NEW y, NEW g, CallOK(sure, q, y, g, d), FieldsOK(q), PhaseOK(q), WritesOK(y),
           g \cap h = {}, RowsOK(sure, d), RowsOK(sure, e), DbOK(d), DbOK(e)
    PROVE  CallOK(sure, q, y, g, e) /\ Placing(q, e) = Placing(q, d)
<1>1. /\ CourseOK(q, d) /\ WritesLocked(q, y, g, d) /\ Covered(q, g, d)
      /\ Savepoint(sure, q, y, g, d) /\ Freed(q, y, d)
      /\ sure => Suffices(y, d)
  BY DEF CallOK
<1>2. Placing(q, e) = Placing(q, d)
  <2>1. q.phase # "idle" => q.order \in Orders
    BY DEF FieldsOK
  <2>2. QED
    BY <1>1, <2>1, OthersPlace
<1>3. CourseOK(q, e)
  BY <1>1, <1>2 DEF CourseOK
<1>4. WritesLocked(q, y, g, e)
  BY <1>1, <1>2, OthersLocked
<1>5. /\ \A k \in DOMAIN e.allocated :
           \/ k \in DOMAIN d.allocated /\ e.allocated[k] <= d.allocated[k]
           \/ k \notin DOMAIN d.allocated /\ OrderOf[k[1]] = r.order /\ d.status[r.order] = "absent"
      /\ \A k \in DOMAIN e.allocated : e.allocated[k] \in Nat /\ k[1] \in Lines
      /\ \A k \in DOMAIN d.allocated : d.allocated[k] \in Nat
  <2>1. /\ \A k \in DOMAIN e.allocated : e.allocated[k] \in Nat /\ k[1] \in Lines
        /\ \A k \in DOMAIN d.allocated : d.allocated[k] \in Nat
    <3>1. TableOK("allocated", e.allocated) /\ TableOK("allocated", d.allocated)
      BY DEF DbOK, WritesOK, Tables
    <3>2. QED
      BY <3>1, AllocationRows
  <2>2. QED
    BY <2>1 DEF Changed, Placing
<1>6. q.phase \notin { "idle", "sum", "allocate", "commit" } => d.status[q.order] # "absent"
  BY <1>1 DEF CourseOK, Placing
<1>7. Covered(q, g, e)
  <2>1. ASSUME q.phase \in { "deallocate", "zero" }, NEW k \in DOMAIN e.allocated,
               k[1] = q.items[1].line
        PROVE  AllocationLock(k) \in Waits(q, g)
    <3>1. q.phase \in LinePhases
      BY <2>1 DEF LinePhases
    <3>2. 1 \in DOMAIN q.items /\ OrderOf[k[1]] = q.order
      BY <1>1, <2>1, <3>1 DEF CourseOK, FieldsOK, PhaseOK
    <3>3. k \in DOMAIN d.allocated
      BY <1>5, <1>6, <2>1, <3>2
    <3>4. QED
      BY <1>1, <2>1, <3>3 DEF Covered
  <2>2. ASSUME q.phase = "release", NEW k \in DOMAIN e.allocated, OrderOf[k[1]] = q.order
        PROVE  e.allocated[k] = 0 \/ AllocationLock(k) \in Waits(q, g)
    <3>1. k \in DOMAIN d.allocated /\ e.allocated[k] <= d.allocated[k]
      BY <1>5, <1>6, <2>2
    <3>2. d.allocated[k] = 0 \/ AllocationLock(k) \in Waits(q, g)
      BY <1>1, <2>2, <3>1 DEF Covered
    <3>3. QED
      BY <1>5, <3>1, <3>2
  <2>3. QED
    BY <1>1, <2>1, <2>2 DEF Covered
<1>8. Savepoint(sure, q, y, g, e)
  <2>1. CASE q.phase \in LinePhases
    <3>1. PICK b, kept : b = q.base /\ kept = q.kept
      OBVIOUS
    <3>2. /\ kept \subseteq g /\ WritesLocked(q, b, kept, d) /\ WritesOK(b)
          /\ sure => Suffices(b, d)
      BY <1>1, <2>1, <3>1 DEF Savepoint, FieldsOK
    <3>3. kept \cap h = {}
      BY <3>2
    <3>4. WritesLocked(q, b, kept, e)
      BY <1>2, <3>2, <3>3, OthersLocked
    <3>5. sure => Suffices(b, e)
      BY <1>2, <3>2, <3>3, <3>4, OthersSuffice
    <3>6. QED
      BY <1>1, <2>1, <3>1, <3>2, <3>4, <3>5 DEF Savepoint
  <2>2. CASE q.phase \notin LinePhases
    BY <2>2 DEF Savepoint, LinePhases
  <2>3. QED
    BY <2>1, <2>2
<1>9. Freed(q, y, e)
  <2>1. ASSUME Cancels(q, y), NEW k \in DOMAIN e.allocated \ DOMAIN y.allocated,
               OrderOf[k[1]] = q.order
        PROVE  e.allocated[k] = 0
    <3>1. q.phase # "idle"
      BY <1>1, <2>1, NoWritesAre DEF Cancels, WritesLocked
    <3>2. d.status[q.order] # "absent"
      BY <1>1, <2>1, <3>1 DEF Freed, Placing
    <3>3. k \in DOMAIN d.allocated /\ e.allocated[k] <= d.allocated[k]
      BY <1>5, <2>1, <3>2
    <3>4. d.allocated[k] = 0
      BY <1>1, <2>1, <3>3 DEF Freed
    <3>5. QED
      BY <1>5, <3>3, <3>4
  <2>2. QED
    BY <1>1, <1>2, <2>1 DEF Freed
<1>10. ASSUME sure PROVE Suffices(y, e)
  BY <1>1, <1>2, <1>4, <1>10, OthersSuffice
<1>11. QED
  BY <1>2, <1>3, <1>4, <1>7, <1>8, <1>9, <1>10 DEF CallOK

LEMMA CommitKeeps ==
    ASSUME NEW sure, Typing, Discipline(sure), NEW w \in Workers, Commit(w)
    PROVE  Discipline(sure)'
<1>1. PICK q, x, h : q = request[w] /\ x = txn[w] /\ h = holds[w]
  OBVIOUS
<1>2. PICK e : e = [ table \in Tables |-> Seen(w, table) ]
  OBVIOUS
<1>3. PICK d : d = db
  OBVIOUS
<1>4. /\ FieldsOK(q) /\ CourseOK(q, d) /\ WritesLocked(q, x, h, d) /\ Freed(q, x, d)
      /\ sure => Suffices(x, d)
      /\ WritesOK(x) /\ DbOK(d) /\ RowsOK(sure, d)
  BY <1>1, <1>3, OfCall
<1>5. q.phase = "commit" /\ q.then = "idle"
  BY <1>1, <1>4 DEF Commit, At, CourseOK
<1>6. /\ db' = e /\ txn' = [ txn EXCEPT ![w] = NoWrites ]
      /\ holds' = [ holds EXCEPT ![w] = {} ] /\ request' = [ request EXCEPT ![w] = Idle ]
  BY <1>1, <1>2, <1>5 DEF Commit, Continue
<1>7. /\ e.allocated = Over(x.allocated, d.allocated) /\ e.status = Over(x.status, d.status)
      /\ e.quantity = Over(x.quantity, d.quantity)
  BY <1>1, <1>2, <1>3 DEF Seen, Tables
<1>8. DbOK(e)
  <2>1. Typing'
    BY CommitTyped
  <2>2. DbOK(db)'
    BY <2>1 DEF Typing
  <2>3. QED
    BY <1>6, <2>2 DEF DbOK, WritesOK, TableOK
<1>9. Changed(q, h, d, e)
  BY <1>4, <1>7, Changes
<1>10. RowsOK(sure, e)
  BY <1>4, <1>7, <1>9, CommittedOK
<1>11. CallOK(sure, Idle, NoWrites, {}, e) /\ ~Placing(Idle, e)
  BY <1>8, <1>10, EndsOK
<1>12. ASSUME NEW v \in Workers \ { w }
       PROVE  CallOK(sure, request[v], txn[v], holds[v], e)
  <2>1. PICK p, y, g : p = request[v] /\ y = txn[v] /\ g = holds[v]
    OBVIOUS
  <2>2. /\ FieldsOK(p) /\ PhaseOK(p) /\ WritesOK(y) /\ CallOK(sure, p, y, g, d)
        /\ g \cap h = {}
    BY <1>1, <1>3, <2>1 DEF Typing, RequestOK, Discipline
  <2>3. CallOK(sure, p, y, g, e)
    BY <1>4, <1>5, <1>8, <1>9, <1>10, <2>2, OthersOK
  <2>4. QED
    BY <2>1, <2>3
<1>13. DOMAIN request = Workers /\ DOMAIN txn = Workers /\ DOMAIN holds = Workers
  BY DEF Typing
<1>14. /\ \A v \in Workers : request'[v] = IF v = w THEN Idle ELSE request[v]
       /\ \A v \in Workers : txn'[v] = IF v = w THEN NoWrites ELSE txn[v]
       /\ \A v \in Workers : holds'[v] = IF v = w THEN {} ELSE holds[v]
  BY <1>6, <1>13
<1>15. \A v, u \in Workers : v # u => holds[v] \cap holds[u] = {}
  BY DEF Discipline
<1>16. PICK none : none = {}
  OBVIOUS
<1>17. QED
  BY <1>6, <1>10, <1>11, <1>12, <1>14, <1>15, Keeps

LEMMA FailsKeeps ==
    ASSUME NEW sure, Typing, Discipline(sure), NEW w \in Workers, Fails(w)
    PROVE  Discipline(sure)'
<1>1. CASE request[w].phase \in SavepointPhases
  BY <1>1, LineFailsKeeps DEF Fails, SavepointPhases
<1>2. CASE request[w].phase \notin SavepointPhases
  BY <1>2, CallFailsKeeps DEF Fails
<1>3. QED
  BY <1>1, <1>2

LEMMA StepKeeps ==
    ASSUME NEW sure, Typing, Discipline(sure), sure => FreshSums, NEW w \in Workers, Step(w)
    PROVE  Discipline(sure)'
<1>1. CASE \/ ReadFulfillment(w) \/ RestockLine(w) \/ IncreaseStock(w) \/ RestockedAll(w)
           \/ Unfulfill(w) \/ SaveFulfillment(w) \/ SaveDraft(w)
  <2>1. request[w].phase \in { "place", "read", "restock", "increase", "unfulfill", "save" }
    BY <1>1 DEF ReadFulfillment, RestockLine, IncreaseStock, RestockedAll, Unfulfill,
                SaveFulfillment, SaveDraft, At
  <2>2. CourseOK(request[w], db)
    BY OfCall
  <2>3. QED
    BY <2>1, <2>2 DEF CourseOK, LinePhases
<1>2. CASE \/ Lock(w) \/ Commit(w) \/ SumAllocations(w) \/ AllocateStock(w) \/ CleanLines(w)
           \/ FulfillLine(w) \/ Deallocate(w) \/ TooFewAllocated(w)
  BY <1>2, LockKeeps, CommitKeeps, SumAllocationsKeeps, AllocateStockKeeps, CleanLinesKeeps,
     FulfillLineKeeps, DeallocateKeeps, TooFewAllocatedKeeps
<1>3. CASE \/ ZeroAllocations(w) \/ DecreaseStock(w) \/ FulfillOrderLine(w) \/ CreateFulfillment(w)
           \/ UpdateOrderStatus(w) \/ SaveOrder(w) \/ FindAllocations(w) \/ ReleaseAllocations(w)
  BY <1>3, ZeroAllocationsKeeps, DecreaseStockKeeps, FulfillOrderLineKeeps,
     CreateFulfillmentKeeps, UpdateOrderStatusKeeps, SaveOrderKeeps, FindAllocationsKeeps,
     ReleaseAllocationsKeeps
<1>4. CASE NotAllocated(w) \/ TooMany(w)
  BY <1>4, CallFailsKeeps DEF NotAllocated, TooMany
<1>5. CASE NotEnough(w)
  <2>1. request[w].phase \in LinePhases /\ LineFails(w)
    BY <1>5 DEF NotEnough, At, LinePhases
  <2>2. QED
    BY <2>1, LineFailsKeeps
<1>6. QED
  BY <1>1, <1>2, <1>3, <1>4, <1>5 DEF Step

LEMMA InitKeeps ==
    ASSUME NEW sure, Init
    PROVE  Discipline(sure)
<1>1. DbOK(db)
  BY InitTyped DEF Typing
<1>2. DOMAIN db.allocated = {} /\ db.quantity = Initial
  BY DEF Init, NoRows
<1>3. RowsOK(sure, db)
  <2>1. SUFFICES ASSUME NEW s \in Stocks PROVE AllocatedIn(s, db.allocated) <= db.quantity[s]
    BY <1>2 DEF RowsOK
  <2>2. AtStock(s, db.allocated) = {}
    BY <1>2 DEF AtStock
  <2>3. TableOK("allocated", db.allocated)
    BY <1>1 DEF DbOK, WritesOK, Tables
  <2>4. AllocatedIn(s, db.allocated) = 0
    BY <2>2, <2>3, AllocatedInNat, SumEmpty
  <2>5. QED
    BY <1>2, <2>4, StockAssumption
<1>4. \A w \in Workers : request[w] = Idle /\ txn[w] = NoWrites /\ holds[w] = {}
  BY DEF Init
<1>5. CallOK(sure, Idle, NoWrites, {}, db) /\ ~Placing(Idle, db)
  BY <1>1, <1>3, EndsOK
<1>6. QED
  BY <1>3, <1>4, <1>5 DEF Discipline

LEMMA NextKeeps ==
    ASSUME NEW sure, Ours, Typing, Discipline(sure), sure => FreshSums, [ Next ]_vars
    PROVE  Discipline(sure)'
<1>1. CASE Next
  <2>1. PICK w \in Workers :
          \/ \E o \in Orders :
               \/ CheckoutOrder(w, o)
               \/ DraftOrderComplete(w, o)
               \/ \E s \in Stocks : \E items \in Requested(o, WarehouseOf[s]) :
                    \E status \in Given : OrderFulfill(w, o, items, status)
               \/ OrderCancel(w, o)
          \/ \E f \in DOMAIN db.fulfillment :
               \/ \E s \in Stocks : FulfillmentCancel(w, f, WarehouseOf[s])
               \/ \E s \in Stocks : CancelledByCustomer(w, f, WarehouseOf[s])
               \/ \E status \in { "shipped", "cancellation processed" } :
                    UpdateFulfillment(w, f, status)
          \/ Step(w)
          \/ DeadlockDetected(w)
    BY <1>1 DEF Next
  <2>2. ASSUME NEW o \in Orders, CheckoutOrder(w, o) \/ OrderCancel(w, o)
        PROVE  Discipline(sure)'
    BY <2>2, CheckoutOrderKeeps, OrderCancelKeeps
  <2>3. ASSUME NEW o \in Orders, NEW s \in Stocks, NEW items \in Requested(o, WarehouseOf[s]),
               NEW status \in Given, OrderFulfill(w, o, items, status)
        PROVE  Discipline(sure)'
    <3>1. PICK p : p = WarehouseOf[s]
      OBVIOUS
    <3>2. items \in Requested(o, p)
      BY <3>1
    <3>3. QED
      BY <2>3, <3>2, OrderFulfillKeeps
  <2>4. /\ \A o \in Orders : ~DraftOrderComplete(w, o)
        /\ \A f \in DOMAIN db.fulfillment :
             /\ \A s \in Stocks : ~FulfillmentCancel(w, f, WarehouseOf[s])
             /\ \A s \in Stocks : ~CancelledByCustomer(w, f, WarehouseOf[s])
             /\ \A status \in { "shipped", "cancellation processed" } :
                  ~UpdateFulfillment(w, f, status)
    BY DEF DraftOrderComplete, FulfillmentCancel, CancelledByCustomer, UpdateFulfillment, Call, Ours
  <2>5. CASE Step(w) \/ DeadlockDetected(w)
    BY <2>5, StepKeeps, FailsKeeps DEF DeadlockDetected
  <2>6. QED
    BY <2>1, <2>2, <2>3, <2>4, <2>5
<1>2. CASE UNCHANGED vars
  BY <1>2 DEF vars, Discipline, RowsOK, CallOK, CourseOK, WritesLocked, Covered, Savepoint,
              Freed, Cancels, Suffices, Placing, Waits
<1>3. QED
  BY <1>1, <1>2

LEMMA Disciplined ==
    ASSUME Ours
    PROVE  Spec => [](Typing /\ Discipline(FALSE))
<1>1. Init => Typing /\ Discipline(FALSE)
  BY InitTyped, InitKeeps
<1>2. Typing /\ Discipline(FALSE) /\ [ Next ]_vars => (Typing /\ Discipline(FALSE))'
  BY NextTyped, NextKeeps
<1>3. QED
  BY <1>1, <1>2, PTL DEF Spec

\* A stock is only promised twice by a sum that was out of date when
\* allocate_stock got the stocks' locks: while the sums are fresh, any workers
\* place orders, fulfill and cancel them, and what is allocated of a stock is
\* not more than the stock has, whatever they lock, write and roll back.
THEOREM NoOverAllocationOK ==
    ASSUME Ours
    PROVE  Spec /\ []FreshSums => []NoOverAllocation
<1>1. Init => Typing /\ Discipline(TRUE)
  BY InitTyped, InitKeeps
<1>2. Typing /\ Discipline(TRUE) /\ FreshSums /\ [ Next ]_vars => (Typing /\ Discipline(TRUE))'
  BY NextTyped, NextKeeps
<1>3. Typing /\ Discipline(TRUE) => NoOverAllocation
  BY DEF Discipline, RowsOK, NoOverAllocation
<1>4. QED
  BY <1>1, <1>2, <1>3, PTL DEF Spec

\* An order that orderCancel canceled keeps no allocation, even if a line of it
\* was being fulfilled, or the cancellation was rolled back before.
THEOREM CanceledHoldsNothingOK ==
    ASSUME Ours
    PROVE  Spec => []CanceledHoldsNothing
<1>1. Typing /\ Discipline(FALSE) => CanceledHoldsNothing
  <2> SUFFICES ASSUME Typing, Discipline(FALSE), NEW o \in Orders, db.status[o] = "canceled",
                      NEW l \in LinesOf(o)
               PROVE  Reserved(l) = 0
    BY DEF CanceledHoldsNothing
  <2>1. PICK S : S = RowsOf({ l }, db.allocated)
    OBVIOUS
  <2>2. TableOK("allocated", db.allocated)
    BY DEF Typing, DbOK, WritesOK, Tables
  <2>3. IsFiniteSet(S) /\ S \subseteq DOMAIN db.allocated
    BY <2>1, <2>2, AllocationRows, FS_Subset DEF RowsOf
  <2>4. \A k \in S : db.allocated[k] = 0
    BY <2>1, <2>3 DEF Discipline, RowsOK, RowsOf, LinesOf
  <2>5. SumFunctionOnSet(db.allocated, S) = 0
    BY <2>3, <2>4, SumWithoutZeros, SumEmpty
  <2>6. QED
    BY <2>1, <2>5 DEF Reserved
<1>2. QED
  BY <1>1, Disciplined, PTL

-----------------------------------------------------------------------------
(* What is shipped: each call accounts for what it took from the stocks    *)
(* and from the allocations.                                               *)

\* The quantity of the items with a line or a stock, and that of the lines of
\* the fulfillments.
By(field, v, items) ==
    SumFunctionOnSet([ i \in DOMAIN items |-> items[i].quantity ],
                     { i \in DOMAIN items : items[i][field] = v })

Sent(rows) == UNION { { f } \X DOMAIN rows[f].lines : f \in DOMAIN rows }

SentBy(field, v, rows) ==
    SumFunctionOnSet([ p \in Sent(rows) |-> rows[p[1]].lines[p[2]].quantity ],
                     { p \in Sent(rows) : rows[p[1]].lines[p[2]][field] = v })

\* What is allocated to a line.
OfLine(l, rows) == SumFunctionOnSet(rows, RowsOf({ l }, rows))

\* The items are those x took from the stocks.
Paid(x, d, items) ==
    \A s \in Stocks :
      \/ s \in DOMAIN x.quantity /\ x.quantity[s] + By("stock", s, items) = d.quantity[s]
      \/ s \notin DOMAIN x.quantity /\ By("stock", s, items) = 0

\* The allocations of the lines of the items are lowered by so much, or gone;
\* those of the other lines of the order, o, are as they were.
Lowered(o, x, d, items) ==
    \A l \in LinesOf(o) :
      \/ By("line", l, items) = 0 /\ \A k \in DOMAIN x.allocated : k[1] # l
      \/ /\ \A k \in DOMAIN d.allocated : k[1] = l => k \in DOMAIN x.allocated
         /\ \/ OfLine(l, x.allocated) = 0
            \/ OfLine(l, x.allocated) + By("line", l, items) = OfLine(l, d.allocated)

\* The lines of an order that is placed are allocated one after the other.
Allocated(r, x) ==
    /\ r.phase = "commit" => r.items = << >>
    /\ \A i \in DOMAIN r.items : r.items[i].quantity = Ordered[r.items[i].line]
    /\ \A i, j \in DOMAIN r.items : r.items[i].line = r.items[j].line => i = j
    /\ \A l \in LinesOf(r.order) :
         IF \E i \in DOMAIN r.items : r.items[i].line = l
           THEN \A k \in DOMAIN x.allocated : k[1] # l
           ELSE OfLine(l, x.allocated) = Ordered[l]

\* The item in hand, once its allocations are lowered or its stock is.
Taking(r, phases) == IF r.phase \in phases THEN Append(r.done, Head(r.items)) ELSE r.done

Account(r, x, d) ==
    /\ \A i \in DOMAIN r.done : OrderOf[r.done[i].line] = r.order
    /\ r.fulfillment \in Nat \ DOMAIN d.fulfillment
    /\ r.phase \in { "line" } \cup LinePhases => r.fulfillment # None
    /\ \/ DOMAIN x.fulfillment = {} /\ (r.done = << >> \/ r.phase \in { "line" } \cup LinePhases)
       \/ /\ DOMAIN x.fulfillment = { r.fulfillment } /\ r.fulfillment # None
          /\ r.phase \in { "update", "order", "commit" }
          /\ \E status \in Standing :
               x.fulfillment[r.fulfillment] =
                 [ order |-> r.order, status |-> status, lines |-> r.done ]
    /\ Paid(x, d, Taking(r, { "mark" }))
    /\ r.phase # "idle" /\ ~Placing(r, d) /\ ~Cancels(r, x) =>
         Lowered(r.order, x, d, Taking(r, { "ship", "mark" }))
    /\ Placing(r, d) => Allocated(r, x) /\ r.done = << >> /\ DOMAIN x.fulfillment = {}
    /\ Cancels(r, x) => r.done = << >> /\ DOMAIN x.fulfillment = {}
    /\ r.phase \in LinePhases =>
         /\ DOMAIN r.base.fulfillment = {}
         /\ Paid(r.base, d, r.done)
         /\ Lowered(r.order, r.base, d, r.done)

\* The fulfillments account for what the committed rows have lost.
Balanced(d) ==
    /\ DOMAIN d.fulfillment \subseteq Nat \ { None }
    /\ IsFiniteSet(DOMAIN d.fulfillment) /\ IsFiniteSet(Sent(d.fulfillment))
    /\ \A f \in DOMAIN d.fulfillment : d.fulfillment[f].status \in Standing
    /\ \A s \in Stocks : d.quantity[s] + SentBy("stock", s, d.fulfillment) = Initial[s]
    /\ \A l \in Lines :
         \/ d.status[OrderOf[l]] = "absent" /\ SentBy("line", l, d.fulfillment) = 0
         \/ d.status[OrderOf[l]] # "absent" /\ OfLine(l, d.allocated) = 0
         \/ /\ d.status[OrderOf[l]] # "absent"
            /\ OfLine(l, d.allocated) + SentBy("line", l, d.fulfillment) = Ordered[l]

Accounts ==
    /\ Balanced(db)
    /\ \A w \in Workers : Account(request[w], txn[w], db)
    /\ \A v, w \in Workers :
         v # w /\ request[v].fulfillment = request[w].fulfillment => request[v].fulfillment = None

LEMMA ByEmpty ==
    ASSUME NEW field, NEW v
    PROVE  By(field, v, << >>) = 0
<1>1. { i \in DOMAIN << >> : << >>[i][field] = v } = {}
  OBVIOUS
<1>2. QED
  BY <1>1, SumEmpty DEF By

LEMMA ByNat ==
    ASSUME NEW field, NEW v, NEW items \in Seq(Item)
    PROVE  By(field, v, items) \in Nat
<1>1. PICK f : f = [ i \in DOMAIN items |-> items[i].quantity ]
  OBVIOUS
<1>2. PICK S : S = { i \in DOMAIN items : items[i][field] = v }
  OBVIOUS
<1>3. IsFiniteSet(S) /\ \A i \in S : f[i] \in Nat
  <2>1. IsFiniteSet(DOMAIN items)
    <3>1. Len(items) \in Nat /\ DOMAIN items = 1 .. Len(items)
      OBVIOUS
    <3>2. QED
      BY <3>1, FS_Interval
  <2>2. \A i \in DOMAIN items : items[i].quantity \in Nat
    <3>1. \A i \in DOMAIN items : items[i] \in Item
      OBVIOUS
    <3>2. QED
      BY <3>1 DEF Item
  <2>3. QED
    BY <1>1, <1>2, <2>1, <2>2, FS_Subset
<1>4. QED
  BY <1>1, <1>2, <1>3, SumNat DEF By

LEMMA ByOthers ==
    ASSUME NEW field, NEW v, NEW items, \A i \in DOMAIN items : items[i][field] # v
    PROVE  By(field, v, items) = 0
<1>1. { i \in DOMAIN items : items[i][field] = v } = {}
  OBVIOUS
<1>2. QED
  BY <1>1, SumEmpty DEF By

LEMMA ByAppend ==
    ASSUME NEW field, NEW v, NEW items \in Seq(Item), NEW item \in Item
    PROVE  By(field, v, Append(items, item))
             = By(field, v, items) + (IF item[field] = v THEN item.quantity ELSE 0)
<1>1. PICK f : f = [ i \in DOMAIN items |-> items[i].quantity ]
  OBVIOUS
<1>2. PICK S : S = { i \in DOMAIN items : items[i][field] = v }
  OBVIOUS
<1>3. PICK more : more = Append(items, item)
  OBVIOUS
<1>4. PICK g : g = [ i \in DOMAIN more |-> more[i].quantity ]
  OBVIOUS
<1>5. PICK T : T = { i \in DOMAIN more : more[i][field] = v }
  OBVIOUS
<1>6. PICK n : n = Len(items) + 1 /\ n \in Nat
  OBVIOUS
<1>7. /\ DOMAIN more = DOMAIN items \cup { n } /\ n \notin DOMAIN items
      /\ more[n] = item /\ \A i \in DOMAIN items : more[i] = items[i]
      /\ more \in Seq(Item)
  BY <1>3, <1>6
<1>8. /\ IsFiniteSet(S) /\ n \notin S
      /\ \A i \in S : f[i] \in Nat /\ g[i] = f[i]
      /\ g[n] = item.quantity /\ item.quantity \in Nat
  <2>1. IsFiniteSet(DOMAIN items)
    <3>1. Len(items) \in Nat /\ DOMAIN items = 1 .. Len(items)
      OBVIOUS
    <3>2. QED
      BY <3>1, FS_Interval
  <2>2. \A i \in DOMAIN items : items[i].quantity \in Nat
    <3>1. \A i \in DOMAIN items : items[i] \in Item
      OBVIOUS
    <3>2. QED
      BY <3>1 DEF Item
  <2>3. item.quantity \in Nat
    BY DEF Item
  <2>4. QED
    BY <1>1, <1>2, <1>4, <1>7, <2>1, <2>2, <2>3, FS_Subset
<1>9. SumFunctionOnSet(g, S) = SumFunctionOnSet(f, S) /\ SumFunctionOnSet(f, S) \in Nat
  BY <1>8, SumSame, SumNat
<1>10. /\ By(field, v, items) = SumFunctionOnSet(f, S)
       /\ By(field, v, more) = SumFunctionOnSet(g, T)
  BY <1>1, <1>2, <1>4, <1>5 DEF By
<1>11. CASE item[field] = v
  <2>1. T = S \cup { n }
    BY <1>2, <1>5, <1>7, <1>11
  <2>2. SumFunctionOnSet(g, S \cup { n }) = g[n] + SumFunctionOnSet(g, S)
    BY <1>8, SumAdd
  <2>3. QED
    BY <1>3, <1>8, <1>9, <1>10, <1>11, <2>1, <2>2
<1>12. CASE item[field] # v
  <2>1. T = S
    BY <1>2, <1>5, <1>7, <1>12
  <2>2. QED
    BY <1>3, <1>9, <1>10, <1>12, <2>1
<1>13. QED
  BY <1>11, <1>12

LEMMA OfLineNat ==
    ASSUME NEW rows, TableOK("allocated", rows), NEW l
    PROVE  /\ IsFiniteSet(RowsOf({ l }, rows))
           /\ OfLine(l, rows) \in Nat
           /\ (\A k \in RowsOf({ l }, rows) : rows[k] = 0) <=> OfLine(l, rows) = 0
<1>1. PICK S : S = RowsOf({ l }, rows)
  OBVIOUS
<1>2. IsFiniteSet(S) /\ \A k \in S : rows[k] \in Nat
  BY <1>1, AllocationRows, FS_Subset DEF RowsOf
<1>3. QED
  BY <1>1, <1>2, SumNat DEF OfLine

LEMMA OfLineSame ==
    ASSUME NEW rows, TableOK("allocated", rows), NEW more, NEW l,
           \A k \in DOMAIN rows : k[1] = l => k \in DOMAIN more /\ more[k] = rows[k],
           \A k \in DOMAIN more : k[1] = l => k \in DOMAIN rows
    PROVE  OfLine(l, more) = OfLine(l, rows)
<1>1. PICK S : S = RowsOf({ l }, rows)
  OBVIOUS
<1>2. IsFiniteSet(S) /\ \A k \in S : rows[k] \in Nat /\ more[k] = rows[k]
  BY <1>1, AllocationRows, FS_Subset DEF RowsOf
<1>3. RowsOf({ l }, more) = S
  BY <1>1 DEF RowsOf
<1>4. QED
  BY <1>1, <1>2, <1>3, SumSame DEF OfLine

LEMMA SentSame ==
    ASSUME NEW rows, TableOK("fulfillment", rows), IsFiniteSet(Sent(rows)), NEW more,
           DOMAIN more = DOMAIN rows, \A f \in DOMAIN rows : more[f] = rows[f], NEW field, NEW v
    PROVE  Sent(more) = Sent(rows) /\ SentBy(field, v, more) = SentBy(field, v, rows)
<1>1. PICK S : S = { p \in Sent(rows) : rows[p[1]].lines[p[2]][field] = v }
  OBVIOUS
<1>2. PICK g : g = [ p \in Sent(rows) |-> rows[p[1]].lines[p[2]].quantity ]
  OBVIOUS
<1>3. PICK h : h = [ p \in Sent(more) |-> more[p[1]].lines[p[2]].quantity ]
  OBVIOUS
<1>4. Sent(more) = Sent(rows)
  BY DEF Sent
<1>5. \A p \in Sent(rows) : /\ p[1] \in DOMAIN rows /\ p[2] \in DOMAIN rows[p[1]].lines
                            /\ rows[p[1]].lines[p[2]] \in Item
  BY DEF Sent, TableOK, FulfillmentRow
<1>6. { p \in Sent(more) : more[p[1]].lines[p[2]][field] = v } = S
  BY <1>1, <1>4, <1>5
<1>7. IsFiniteSet(S) /\ \A p \in S : g[p] \in Int /\ g[p] = h[p]
  BY <1>1, <1>2, <1>3, <1>4, <1>5, FS_Subset DEF Item
<1>8. SentBy(field, v, rows) = SumFunctionOnSet(g, S)
  BY <1>1, <1>2 DEF SentBy
<1>9. SentBy(field, v, more) = SumFunctionOnSet(h, S)
  BY <1>3, <1>6 DEF SentBy
<1>10. QED
  BY <1>4, <1>7, <1>8, <1>9, SumSame

\* One more fulfillment accounts for its own lines.
LEMMA SentAdds ==
    ASSUME NEW rows, TableOK("fulfillment", rows), IsFiniteSet(Sent(rows)), NEW more,
           NEW f, f \notin DOMAIN rows, NEW lines \in Seq(Item), more[f].lines = lines,
           DOMAIN more = DOMAIN rows \cup { f }, \A e \in DOMAIN rows : more[e] = rows[e],
           NEW field, NEW v
    PROVE  /\ IsFiniteSet(Sent(more))
           /\ SentBy(field, v, more) = SentBy(field, v, rows) + By(field, v, lines)
<1>1. PICK S : S = { p \in Sent(rows) : rows[p[1]].lines[p[2]][field] = v }
  OBVIOUS
<1>2. PICK g : g = [ p \in Sent(rows) |-> rows[p[1]].lines[p[2]].quantity ]
  OBVIOUS
<1>3. PICK h : h = [ p \in Sent(more) |-> more[p[1]].lines[p[2]].quantity ]
  OBVIOUS
<1>4. PICK M : M = { i \in DOMAIN lines : lines[i][field] = v }
  OBVIOUS
<1>5. PICK a : a = [ i \in DOMAIN lines |-> lines[i].quantity ]
  OBVIOUS
<1>6. PICK name : name = [ i \in DOMAIN lines |-> << f, i >> ]
  OBVIOUS
<1>7. PICK T : T = { name[i] : i \in M }
  OBVIOUS
<1>8. PICK new : new = { name[i] : i \in DOMAIN lines }
  OBVIOUS
<1>9. IsFiniteSet(DOMAIN lines) /\ \A i \in DOMAIN lines : lines[i].quantity \in Nat
  <2>1. /\ Len(lines) \in Nat /\ DOMAIN lines = 1 .. Len(lines)
        /\ \A i \in DOMAIN lines : lines[i] \in Item
    OBVIOUS
  <2>2. IsFiniteSet(DOMAIN lines)
    BY <2>1, FS_Interval
  <2>3. QED
    BY <2>1, <2>2 DEF Item
<1>10. Sent(more) = Sent(rows) \cup new
  <2>1. { f } \X DOMAIN lines = new
    BY <1>6, <1>8
  <2>2. \A p : p \in Sent(more) <=> \E e \in DOMAIN more : p \in { e } \X DOMAIN more[e].lines
    BY DEF Sent
  <2>3. \A p : p \in Sent(rows) <=> \E e \in DOMAIN rows : p \in { e } \X DOMAIN rows[e].lines
    BY DEF Sent
  <2>4. \A p : p \in Sent(more) <=> p \in Sent(rows) \/ p \in new
    BY <2>1, <2>2, <2>3
  <2>5. QED
    BY <2>4
<1>11. \A p \in Sent(rows) : /\ p[1] \in DOMAIN rows /\ p[1] # f
                             /\ p[2] \in DOMAIN rows[p[1]].lines
                             /\ rows[p[1]].lines[p[2]].quantity \in Nat
  <2>1. SUFFICES ASSUME NEW p \in Sent(rows)
                 PROVE  /\ p[1] \in DOMAIN rows /\ p[1] # f
                        /\ p[2] \in DOMAIN rows[p[1]].lines
                        /\ rows[p[1]].lines[p[2]].quantity \in Nat
    OBVIOUS
  <2>2. p[1] \in DOMAIN rows /\ p[1] # f /\ p[2] \in DOMAIN rows[p[1]].lines
    BY DEF Sent
  <2>3. rows[p[1]].lines \in Seq(Item)
    BY <2>2 DEF TableOK, FulfillmentRow
  <2>4. rows[p[1]].lines[p[2]] \in Item
    BY <2>2, <2>3
  <2>5. QED
    BY <2>2, <2>4 DEF Item
<1>12. /\ \A i \in DOMAIN lines : /\ name[i] \in Sent(more) /\ name[i][1] = f /\ name[i][2] = i
                                  /\ h[name[i]] = a[i] /\ name[i] \notin Sent(rows)
       /\ \A p \in Sent(rows) : p \in Sent(more) /\ h[p] = g[p]
  BY <1>2, <1>3, <1>5, <1>6, <1>8, <1>10, <1>11
<1>13. IsFiniteSet(M) /\ \A i \in M : a[i] \in Int
  BY <1>4, <1>5, <1>9, FS_Subset
<1>14. IsFiniteSet(T) /\ SumFunctionOnSet(h, T) = SumFunctionOnSet(a, M)
  <2>1. \A x, y \in M : name[x] = name[y] => x = y
    BY <1>4, <1>12
  <2>2. \A x \in M : a[x] \in Int /\ h[name[x]] = a[x]
    BY <1>4, <1>12, <1>13
  <2>3. QED
    BY ONLY <1>7, <1>13, <2>1, <2>2, SumRenamed
<1>15. IsFiniteSet(new)
  <2>1. \A x, y \in DOMAIN lines : name[x] = name[y] => x = y
    BY <1>12
  <2>2. \A x \in DOMAIN lines : a[x] \in Int /\ h[name[x]] = a[x]
    BY <1>5, <1>9, <1>12
  <2>3. PICK D : D = DOMAIN lines
    OBVIOUS
  <2>4. IsFiniteSet(D) /\ new = { name[i] : i \in D }
    BY <1>8, <1>9, <2>3
  <2>5. \A x, y \in D : name[x] = name[y] => x = y
    BY <2>1, <2>3
  <2>6. \A x \in D : a[x] \in Int /\ h[name[x]] = a[x]
    BY <2>2, <2>3
  <2>7. IsFiniteSet(new) /\ SumFunctionOnSet(h, new) = SumFunctionOnSet(a, D)
    BY ONLY <2>4, <2>5, <2>6, SumRenamed
  <2>8. QED
    BY <2>7
<1>16. IsFiniteSet(S) /\ \A p \in S : g[p] \in Int /\ g[p] = h[p]
  BY <1>1, <1>2, <1>11, <1>12, FS_Subset
<1>17. SumFunctionOnSet(h, S) = SumFunctionOnSet(g, S)
  BY <1>16, SumSame
<1>18. { p \in Sent(more) : more[p[1]].lines[p[2]][field] = v } = S \cup T
  <2>1. \A p \in Sent(rows) : more[p[1]].lines[p[2]] = rows[p[1]].lines[p[2]]
    BY <1>11
  <2>2. \A i \in DOMAIN lines : more[name[i][1]].lines[name[i][2]] = lines[i]
    BY <1>12
  <2>3. QED
    BY <1>1, <1>4, <1>7, <1>8, <1>10, <2>1, <2>2
<1>19. SumFunctionOnSet(h, S \cup T) = SumFunctionOnSet(h, S) + SumFunctionOnSet(h, T)
  <2>1. S \cap T = {}
    BY <1>1, <1>4, <1>7, <1>12
  <2>2. \A p \in S \cup T : h[p] \in Int
    BY <1>4, <1>7, <1>12, <1>13, <1>16
  <2>3. QED
    BY <1>14, <1>16, <2>1, <2>2, SumUnion
<1>20. SentBy(field, v, more) = SumFunctionOnSet(h, S \cup T)
  BY <1>3, <1>18 DEF SentBy
<1>21. SentBy(field, v, rows) = SumFunctionOnSet(g, S)
  BY <1>1, <1>2 DEF SentBy
<1>22. By(field, v, lines) = SumFunctionOnSet(a, M)
  BY <1>4, <1>5 DEF By
<1>23. IsFiniteSet(Sent(more))
  <2>1. IsFiniteSet(Sent(rows) \cup new)
    BY <1>15, FS_Union
  <2>2. QED
    BY <1>10, <2>1
<1>24. QED
  BY <1>14, <1>17, <1>19, <1>20, <1>21, <1>22, <1>23

-----------------------------------------------------------------------------
(* Each action keeps the accounts.                                         *)

LEMMA AccountsLocal ==
    ASSUME Typing, Accounts, NEW w \in Workers, NEW r, NEW x, db' = db,
           request' = [ request EXCEPT ![w] = r ],
           txn' = [ txn EXCEPT ![w] = x ] \/ (txn' = txn /\ x = txn[w]),
           Account(r, x, db),
           \A v \in Workers \ { w } : request[v].fulfillment = r.fulfillment => r.fulfillment = None
    PROVE  Accounts'
<1>1. DOMAIN request = Workers /\ DOMAIN txn = Workers
  BY DEF Typing
<1>2. /\ \A v \in Workers : request'[v] = IF v = w THEN r ELSE request[v]
      /\ \A v \in Workers : txn'[v] = IF v = w THEN x ELSE txn[v]
  BY <1>1
<1>3. Balanced(db)'
  BY DEF Accounts, Balanced, OfLine, RowsOf
<1>4. (\A v \in Workers : Account(request[v], txn[v], db))'
  <2>1. SUFFICES ASSUME NEW v \in Workers PROVE Account(request[v], txn[v], db)'
    OBVIOUS
  <2>2. PICK q, y, d : q = request'[v] /\ y = txn'[v] /\ d = db /\ Account(q, y, d)
    <3>1. CASE v = w
      BY <1>2, <3>1
    <3>2. CASE v # w
      BY <1>2, <3>2 DEF Accounts
    <3>3. QED
      BY <3>1, <3>2
  <2>3. /\ Paid(txn[v], db, Taking(request[v], { "mark" }))'
        /\ (request[v].phase \in LinePhases => Paid(request[v].base, db, request[v].done))'
    BY <2>2 DEF Account, Paid, Taking
  <2>4. /\ (request[v].phase # "idle" /\ ~Placing(request[v], db) /\ ~Cancels(request[v], txn[v]) =>
             Lowered(request[v].order, txn[v], db, Taking(request[v], { "ship", "mark" })))'
        /\ (request[v].phase \in LinePhases =>
             Lowered(request[v].order, request[v].base, db, request[v].done))'
    BY <2>2 DEF Account, Lowered, Taking, Placing, Cancels
  <2>5. (Placing(request[v], db) => Allocated(request[v], txn[v]))'
    BY <2>2 DEF Account, Allocated, Placing
  <2>6. QED
    BY <2>2, <2>3, <2>4, <2>5 DEF Account, Placing, Cancels
<1>5. (\A v, u \in Workers :
         v # u /\ request[v].fulfillment = request[u].fulfillment
           => request[v].fulfillment = None)'
  BY <1>2 DEF Accounts
<1>6. QED
  BY <1>3, <1>4, <1>5 DEF Accounts

LEMMA AccountIdle ==
    ASSUME NEW d, Balanced(d)
    PROVE  Account(Idle, NoWrites, d) /\ Idle.fulfillment = None
<1>1. /\ Idle.phase = "idle" /\ Idle.done = << >> /\ Idle.fulfillment = None
  BY DEF Idle
<1>2. DOMAIN NoWrites.fulfillment = {} /\ DOMAIN NoWrites.quantity = {}
      /\ DOMAIN NoWrites.status = {}
  BY DEF NoWrites, NoRows, Tables
<1>3. Taking(Idle, { "mark" }) = << >>
  BY <1>1 DEF Taking
<1>4. Paid(NoWrites, d, << >>)
  BY <1>2, ByEmpty DEF Paid
<1>5. ~Placing(Idle, d) /\ ~Cancels(Idle, NoWrites)
  BY <1>1, <1>2 DEF Placing, Cancels
<1>6. Idle.fulfillment \in Nat \ DOMAIN d.fulfillment
  BY <1>1 DEF Balanced, None
<1>7. QED
  BY <1>1, <1>2, <1>3, <1>4, <1>5, <1>6 DEF Account, LinePhases

\* A call begins with nothing taken.
LEMMA AccountBegins ==
    ASSUME Accounts, NEW r, r.phase \in { "clean", "find" }, r.done = << >>,
           r.fulfillment = None, NEW d, d = db, ~Placing(r, d)
    PROVE  Account(r, NoWrites, d)
<1>1. DOMAIN NoWrites.fulfillment = {} /\ DOMAIN NoWrites.quantity = {}
      /\ DOMAIN NoWrites.status = {} /\ DOMAIN NoWrites.allocated = {}
  BY DEF NoWrites, NoRows, Tables
<1>2. Taking(r, { "mark" }) = << >> /\ Taking(r, { "ship", "mark" }) = << >>
  BY DEF Taking
<1>3. Paid(NoWrites, d, << >>) /\ Lowered(r.order, NoWrites, d, << >>)
  BY <1>1, ByEmpty DEF Paid, Lowered
<1>4. r.fulfillment \in Nat \ DOMAIN d.fulfillment
  BY DEF Accounts, Balanced, None
<1>5. ~Cancels(r, NoWrites)
  BY <1>1 DEF Cancels
<1>6. QED
  BY <1>1, <1>2, <1>3, <1>4, <1>5 DEF Account, LinePhases

\* A step that takes nothing from an order that is placed.
LEMMA AccountStays ==
    ASSUME NEW q, NEW r, NEW x, NEW y, NEW d, Account(q, x, d), q.phase # "idle",
           ~Placing(q, d), ~Placing(r, d), r.order = q.order, r.done = q.done,
           r.fulfillment = q.fulfillment, y.quantity = x.quantity,
           y.allocated = x.allocated, y.fulfillment = x.fulfillment,
           Cancels(r, y) = Cancels(q, x),
           Taking(r, { "mark" }) = Taking(q, { "mark" }),
           Taking(r, { "ship", "mark" }) = Taking(q, { "ship", "mark" }),
           r.phase \in { "line" } \cup LinePhases <=> q.phase \in { "line" } \cup LinePhases,
           r.phase \in LinePhases => q.phase \in LinePhases /\ r.base = q.base,
           q.phase \in { "update", "order", "commit" } => r.phase \in { "update", "order", "commit" }
    PROVE  Account(r, y, d)
<1>1. Paid(y, d, Taking(r, { "mark" }))
  BY DEF Account, Paid
<1>2. ~Cancels(r, y) => Lowered(r.order, y, d, Taking(r, { "ship", "mark" }))
  BY DEF Account, Lowered
<1>3. QED
  BY <1>1, <1>2 DEF Account

LEMMA LockAccounts ==
    ASSUME NEW sure, Typing, Discipline(sure), Accounts, NEW w \in Workers, Lock(w)
    PROVE  Accounts'
<1>1. PICK q : q = request[w]
  OBVIOUS
<1>2. PICK r : r = [ q EXCEPT !.want = Tail(@) ]
  OBVIOUS
<1>3. request' = [ request EXCEPT ![w] = r ] /\ db' = db /\ txn' = txn
  BY <1>1, <1>2 DEF Lock
<1>4. FieldsOK(q) /\ Account(q, txn[w], db)
  BY <1>1, OfCall DEF Accounts
<1>5. \A field \in Fields \ { "want" } : r[field] = q[field]
  BY <1>2, <1>4 DEF FieldsOK
<1>6. /\ r.phase = q.phase /\ r.items = q.items /\ r.done = q.done /\ r.order = q.order
      /\ r.fulfillment = q.fulfillment /\ r.base = q.base /\ r.status = q.status
  BY <1>5 DEF Fields
<1>7. /\ Placing(r, db) = Placing(q, db) /\ Cancels(r, txn[w]) = Cancels(q, txn[w])
      /\ Allocated(r, txn[w]) = Allocated(q, txn[w])
      /\ \A phases : Taking(r, phases) = Taking(q, phases)
  BY <1>6 DEF Placing, Cancels, Allocated, Taking
<1>8. Account(r, txn[w], db)
  BY <1>4, <1>6, <1>7 DEF Account
<1>9. \A v \in Workers \ { w } : request[v].fulfillment = r.fulfillment => r.fulfillment = None
  BY <1>1, <1>6 DEF Accounts
<1>10. QED
  BY <1>3, <1>8, <1>9, AccountsLocal

LEMMA CallFailsAccounts ==
    ASSUME NEW sure, Typing, Discipline(sure), Accounts, NEW w \in Workers, CallFails(w)
    PROVE  Accounts'
<1>1. /\ request' = [ request EXCEPT ![w] = Idle ] /\ txn' = [ txn EXCEPT ![w] = NoWrites ]
      /\ db' = db
  BY DEF CallFails, Continue
<1>2. Account(Idle, NoWrites, db) /\ Idle.fulfillment = None
  BY AccountIdle DEF Accounts
<1>3. QED
  BY <1>1, <1>2, AccountsLocal

LEMMA LineFailsAccounts ==
    ASSUME NEW sure, Typing, Discipline(sure),
           Accounts, NEW w \in Workers, request[w].phase \in LinePhases,
           LineFails(w)
    PROVE  Accounts'
<1>1. PICK q : q = request[w]
  OBVIOUS
<1>2. PICK r : r = [ q EXCEPT !.phase = "line", !.items = Tail(@), !.want = << >> ]
  OBVIOUS
<1>3. /\ q.phase \in LinePhases /\ request' = [ request EXCEPT ![w] = r ]
      /\ txn' = [ txn EXCEPT ![w] = q.base ] /\ db' = db
  BY <1>1, <1>2 DEF LineFails, Continue
<1>4. /\ FieldsOK(q) /\ CourseOK(q, db) /\ Account(q, txn[w], db)
      /\ Savepoint(sure, q, txn[w], holds[w], db)
  BY <1>1, OfCall DEF Accounts
<1>5. /\ DOMAIN r = Fields /\ r.phase = "line"
      /\ \A field \in Fields \ { "phase", "items", "want" } : r[field] = q[field]
  BY <1>2, <1>4 DEF FieldsOK, Fields
<1>6. /\ r.done = q.done /\ r.order = q.order /\ r.fulfillment = q.fulfillment
  BY <1>5 DEF Fields
<1>7. q.phase \notin { "idle", "sum", "allocate", "commit" }
  BY <1>3 DEF LinePhases
<1>8. ~Placing(r, db) /\ ~Cancels(r, q.base)
  BY <1>3, <1>4, <1>5, <1>6, <1>7 DEF CourseOK, Placing, Cancels, Savepoint
<1>9. /\ Taking(r, { "mark" }) = q.done /\ Taking(r, { "ship", "mark" }) = q.done
  BY <1>5, <1>6 DEF Taking
<1>10. Account(r, q.base, db)
  BY <1>3, <1>4, <1>5, <1>6, <1>8, <1>9 DEF Account, LinePhases
<1>11. \A v \in Workers \ { w } : request[v].fulfillment = r.fulfillment => r.fulfillment = None
  BY <1>1, <1>6 DEF Accounts
<1>12. QED
  BY <1>3, <1>10, <1>11, AccountsLocal

LEMMA OrderFulfillAccounts ==
    ASSUME NEW sure, Typing, Discipline(sure), Accounts, NEW w \in Workers, NEW o \in Orders, NEW items,
           NEW status \in Given,
           OrderFulfill(w, o, items, status)
    PROVE  Accounts'
<1>1. PICK r : r = [ Idle EXCEPT !.phase = "clean", !.order = o, !.items = items,
                                 !.status = db.status[o], !.final = status ]
  OBVIOUS
<1>2. /\ request[w].phase = "idle" /\ request' = [ request EXCEPT ![w] = r ]
      /\ db' = db /\ txn' = txn /\ db.status[o] # "absent"
  BY <1>1 DEF OrderFulfill, Call, Continue
<1>3. r.phase = "clean" /\ r.order = o /\ r.done = << >> /\ r.fulfillment = None
  BY <1>1 DEF Idle
<1>4. r.phase \in { "clean", "find" } /\ ~Placing(r, db)
  BY <1>2, <1>3 DEF Placing
<1>5. txn[w] = NoWrites
  BY <1>2, AtIdle
<1>6. Account(r, NoWrites, db)
  BY <1>3, <1>4, AccountBegins
<1>7. QED
  BY <1>2, <1>3, <1>5, <1>6, AccountsLocal

LEMMA OrderCancelAccounts ==
    ASSUME NEW sure, Typing, Discipline(sure),
           Accounts, NEW w \in Workers, NEW o \in Orders, OrderCancel(w, o)
    PROVE  Accounts'
<1>1. PICK r : r = [ Idle EXCEPT !.phase = "find", !.order = o ]
  OBVIOUS
<1>2. /\ request[w].phase = "idle" /\ request' = [ request EXCEPT ![w] = r ]
      /\ db' = db /\ txn' = txn /\ db.status[o] # "absent"
  BY <1>1 DEF OrderCancel, Call, Continue, can_cancel
<1>3. r.phase = "find" /\ r.order = o /\ r.done = << >> /\ r.fulfillment = None
  BY <1>1 DEF Idle
<1>4. r.phase \in { "clean", "find" } /\ ~Placing(r, db)
  BY <1>2, <1>3 DEF Placing
<1>5. txn[w] = NoWrites
  BY <1>2, AtIdle
<1>6. Account(r, NoWrites, db)
  BY <1>3, <1>4, AccountBegins
<1>7. QED
  BY <1>2, <1>3, <1>5, <1>6, AccountsLocal

\* A call that places its order has taken nothing from the stocks yet.
LEMMA AccountPlaces ==
    ASSUME NEW r, NEW x, NEW d, Placing(r, d), r.phase \in { "sum", "allocate", "commit" },
           r.done = << >>, r.fulfillment \in Nat \ DOMAIN d.fulfillment,
           DOMAIN x.quantity = {}, DOMAIN x.fulfillment = {}, Allocated(r, x)
    PROVE  Account(r, x, d)
<1>1. Taking(r, { "mark" }) = << >>
  BY DEF Taking
<1>2. Paid(x, d, << >>)
  BY ByEmpty DEF Paid
<1>3. QED
  BY <1>1, <1>2 DEF Account, LinePhases

LEMMA CheckoutOrderAccounts ==
    ASSUME NEW sure, Typing, Discipline(sure), Accounts, NEW w \in Workers, NEW o \in Orders,
           CheckoutOrder(w, o)
    PROVE  Accounts'
<1>1. PICK r : r = [ Idle EXCEPT !.phase = "sum", !.order = o, !.items = ToAllocate(o) ]
  OBVIOUS
<1>2. /\ request[w].phase = "idle" /\ request' = [ request EXCEPT ![w] = r ]
      /\ Writes(w, "status", Row(o, "unfulfilled")) /\ db' = db /\ db.status[o] = "absent"
  BY <1>1 DEF CheckoutOrder, Call, Continue
<1>3. txn[w] = NoWrites
  BY <1>2, AtIdle
<1>4. PICK x : /\ txn' = [ txn EXCEPT ![w] = x ]
               /\ \A t \in Tables \ { "status" } : x[t] = NoWrites[t]
  BY <1>2, <1>3, WrittenIs DEF Tables
<1>5. DOMAIN x.quantity = {} /\ DOMAIN x.allocated = {} /\ DOMAIN x.fulfillment = {}
  BY <1>4 DEF Tables, NoWrites, NoRows
<1>6. /\ r.phase = "sum" /\ r.order = o /\ r.items = ToAllocate(o)
      /\ r.done = << >> /\ r.fulfillment = None
  BY <1>1 DEF Idle
<1>7. Allocated(r, x)
  BY <1>5, <1>6, ToAllocateIs DEF Allocated
<1>8. r.fulfillment \in Nat \ DOMAIN db.fulfillment
  BY <1>6 DEF Accounts, Balanced, None
<1>9. Account(r, x, db)
  <2>1. Placing(r, db)
    BY <1>2, <1>6 DEF Placing
  <2>2. QED
    BY <1>5, <1>6, <1>7, <1>8, <2>1, AccountPlaces
<1>10. QED
  BY <1>2, <1>4, <1>6, <1>9, AccountsLocal

LEMMA SumAllocationsAccounts ==
    ASSUME NEW sure, Typing, Discipline(sure), Accounts, NEW w \in Workers, SumAllocations(w)
    PROVE  Accounts'
<1>1. PICK q : q = request[w]
  OBVIOUS
<1>2. PICK sums, want :
        /\ sums = [ s \in StocksOf[Head(q.items).line] |-> AllocatedIn(s, Seen(w, "allocated")) ]
        /\ want = Locking(StockLock, Ascending(StocksOf[Head(q.items).line]))
  OBVIOUS
<1>3. PICK r : r = [ q EXCEPT !.phase = "allocate", !.sums = sums, !.want = want ]
  OBVIOUS
<1>4. /\ q.phase = "sum" /\ request' = [ request EXCEPT ![w] = r ]
      /\ db' = db /\ txn' = txn
  BY <1>1, <1>2, <1>3 DEF SumAllocations, At, Continue
<1>5. /\ FieldsOK(q) /\ CourseOK(q, db) /\ WritesLocked(q, txn[w], holds[w], db)
      /\ Account(q, txn[w], db)
  BY <1>1, OfCall DEF Accounts
<1>6. /\ DOMAIN r = Fields /\ r.phase = "allocate"
      /\ \A field \in Fields \ { "phase", "sums", "want" } : r[field] = q[field]
  BY <1>3, <1>5 DEF FieldsOK, Fields
<1>7. /\ r.order = q.order /\ r.items = q.items /\ r.done = q.done
      /\ r.fulfillment = q.fulfillment
  BY <1>6 DEF Fields
<1>8. Placing(q, db) /\ Placing(r, db)
  BY <1>4, <1>5, <1>6, <1>7 DEF CourseOK, Placing
<1>9. Allocated(r, txn[w])
  BY <1>5, <1>6, <1>7, <1>8 DEF Account, Allocated
<1>10. Account(r, txn[w], db)
  <2>1. /\ q.done = << >> /\ q.fulfillment \in Nat \ DOMAIN db.fulfillment
        /\ DOMAIN txn[w].fulfillment = {} /\ DOMAIN txn[w].quantity = {}
    BY <1>5, <1>8 DEF Account, WritesLocked
  <2>2. QED
    BY <1>6, <1>7, <1>8, <1>9, <2>1, AccountPlaces
<1>11. \A v \in Workers \ { w } : request[v].fulfillment = r.fulfillment => r.fulfillment = None
  BY <1>1, <1>7 DEF Accounts
<1>12. QED
  BY <1>4, <1>10, <1>11, AccountsLocal

\* The rows that are inserted for a line are of the quantity that is ordered.
LEMMA AllocatesLine ==
    ASSUME Typing, NEW w \in Workers, At(w, "allocate"), CanAllocate(w),
           NEW l, l = Head(request[w].items).line, NEW old, \A k \in DOMAIN old : k[1] # l,
           NEW rows, rows = Over(NewAllocations(w), old)
    PROVE  OfLine(l, rows) = Head(request[w].items).quantity
<1>1. PICK taken : taken = Taken(w)
  OBVIOUS
<1>2. PICK new : new = NewAllocations(w)
  OBVIOUS
<1>3. PICK S : S = { t \in DOMAIN taken : taken[t] > 0 }
  OBVIOUS
<1>4. PICK name : name = [ s \in S |-> << l, s >> ]
  OBVIOUS
<1>5. PICK T : T = { name[s] : s \in S }
  OBVIOUS
<1>6. /\ DOMAIN new = { << l, s >> : s \in { t \in DOMAIN taken : taken[t] > 0 } }
      /\ \A k \in DOMAIN new : k = << l, k[2] >> /\ new[k] = taken[k[2]]
  BY <1>1, <1>2, NewAllocationsAre
<1>7. /\ IsFiniteSet(DOMAIN taken) /\ \A s \in DOMAIN taken : taken[s] \in Nat
  BY <1>1, TakenIs, FS_Subset, StockAssumption
<1>8. IsFiniteSet(S) /\ S \subseteq DOMAIN taken /\ \A s \in DOMAIN taken \ S : taken[s] = 0
  BY <1>3, <1>7, FS_Subset
<1>9. DOMAIN new = T
  BY <1>3, <1>4, <1>5, <1>6
<1>10. RowsOf({ l }, rows) = T
  <2>1. DOMAIN rows = T \cup DOMAIN old
    BY <1>2, <1>9 DEF Over
  <2>2. \A k \in T : k[1] = l
    BY <1>4, <1>5
  <2>3. QED
    BY <2>1, <2>2 DEF RowsOf
<1>11. SumFunctionOnSet(rows, T) = SumFunctionOnSet(taken, S)
  <2>1. \A s, t \in S : name[s] = name[t] => s = t
    BY <1>4
  <2>2. \A s \in S : taken[s] \in Int /\ rows[name[s]] = taken[s]
    <3>1. \A s \in S : name[s] \in DOMAIN new /\ name[s][2] = s
      BY <1>4, <1>5, <1>9
    <3>2. \A s \in S : rows[name[s]] = new[name[s]]
      BY <1>2, <3>1 DEF Over
    <3>3. QED
      BY <1>6, <1>7, <1>8, <3>1, <3>2
  <2>3. IsFiniteSet(T) /\ SumFunctionOnSet(rows, T) = SumFunctionOnSet(taken, S)
    <3>1. IsFiniteSet(S)
      BY <1>8
    <3>2. QED
      BY ONLY <1>5, <3>1, <2>1, <2>2, SumRenamed
  <2>4. QED
    BY <2>3
<1>12. SumFunctionOnSet(taken, DOMAIN taken) = SumFunctionOnSet(taken, S)
  <2>1. PICK D : D = DOMAIN taken
    OBVIOUS
  <2>2. IsFiniteSet(D) /\ S \subseteq D /\ (\A s \in D : taken[s] \in Int)
        /\ \A s \in D \ S : taken[s] = 0
    BY <1>7, <1>8, <2>1
  <2>3. SumFunctionOnSet(taken, D) = SumFunctionOnSet(taken, S)
    BY <2>2, SumWithoutZeros
  <2>4. QED
    BY <2>1, <2>3
<1>13. Total(taken) = Head(request[w].items).quantity
  BY <1>1 DEF CanAllocate
<1>14. QED
  BY <1>10, <1>11, <1>12, <1>13 DEF OfLine, Total

LEMMA AllocateStockAccounts ==
    ASSUME NEW sure, Typing, Discipline(sure), Accounts, NEW w \in Workers, AllocateStock(w)
    PROVE  Accounts'
<1>1. PICK q : q = request[w]
  OBVIOUS
<1>2. PICK phase, then :
        /\ phase = IF Tail(q.items) = << >> \/ q.order \in Drafts THEN "commit" ELSE "sum"
        /\ then = IF Tail(q.items) # << >> /\ q.order \in Drafts THEN "sum" ELSE "idle"
  OBVIOUS
<1>3. PICK r : r = [ q EXCEPT !.items = Tail(q.items), !.phase = phase, !.then = then ]
  OBVIOUS
<1>4. /\ At(w, "allocate") /\ q.phase = "allocate" /\ CanAllocate(w)
      /\ request' = [ request EXCEPT ![w] = r ]
      /\ Writes(w, "allocated", NewAllocations(w)) /\ db' = db
  BY <1>1, <1>2, <1>3 DEF AllocateStock, At, Continue
<1>5. /\ FieldsOK(q) /\ CourseOK(q, db) /\ WritesLocked(q, txn[w], holds[w], db)
      /\ Account(q, txn[w], db) /\ WritesOK(txn[w])
  BY <1>1, OfCall DEF Accounts
<1>6. PICK l : l = Head(request[w].items).line
  OBVIOUS
<1>7. PICK new : new = NewAllocations(w)
  OBVIOUS
<1>8. PICK old : old = txn[w].allocated
  OBVIOUS
<1>9. PICK x : /\ txn' = [ txn EXCEPT ![w] = x ]
               /\ x.allocated = Over(new, old)
               /\ \A t \in Tables \ { "allocated" } : x[t] = txn[w][t]
  BY <1>4, <1>7, <1>8, WrittenIs DEF Tables
<1>10. x.quantity = txn[w].quantity /\ x.fulfillment = txn[w].fulfillment
  BY <1>9 DEF Tables
<1>11. Placing(q, db) /\ q.order \notin Drafts
  BY <1>4, <1>5 DEF CourseOK
<1>12. /\ DOMAIN r = Fields /\ r.items = Tail(q.items)
       /\ r.phase = IF Tail(q.items) = << >> THEN "commit" ELSE "sum"
       /\ \A field \in Fields \ { "phase", "then", "items" } : r[field] = q[field]
  BY <1>2, <1>3, <1>5, <1>11 DEF FieldsOK, Fields
<1>13. r.order = q.order /\ r.done = q.done /\ r.fulfillment = q.fulfillment
  BY <1>12 DEF Fields
<1>14. Placing(r, db)
  BY <1>11, <1>12, <1>13 DEF Placing
<1>15. /\ q.items \in Seq(Item) /\ q.items # << >> /\ Head(q.items) = q.items[1]
       /\ 1 \in DOMAIN q.items /\ l = q.items[1].line /\ l \in Lines
  BY <1>1, <1>4, <1>6, WorkItem
<1>16. /\ \A i \in DOMAIN r.items : i + 1 \in DOMAIN q.items /\ r.items[i] = q.items[i + 1]
       /\ \A i \in DOMAIN q.items : i = 1 \/ (i - 1 \in DOMAIN r.items /\ r.items[i - 1] = q.items[i])
       /\ \A i \in DOMAIN r.items : i \in Nat
       /\ \A i \in DOMAIN q.items : i \in Nat
  BY <1>12, <1>15
<1>17. Allocated(q, txn[w])
  BY <1>5, <1>11 DEF Account
<1>18. q.items[1].quantity = Ordered[l] /\ OrderOf[l] = q.order
  BY <1>4, <1>5, <1>15, <1>17 DEF Allocated, CourseOK
<1>19. \A k \in DOMAIN new : k[1] = l
  <2>1. PICK taken : taken = Taken(w)
    OBVIOUS
  <2>2. At(w, "allocate")
    BY <1>4
  <2>3. \A k \in DOMAIN NewAllocations(w) : k = << l, k[2] >> /\ k[2] \in DOMAIN taken
    BY <1>6, <2>1, <2>2, NewAllocationsAre
  <2>4. QED
    BY <1>7, <2>3
<1>20. \A k \in DOMAIN old : k[1] # l
  BY <1>8, <1>15, <1>17, <1>18 DEF Allocated, LinesOf
<1>21. OfLine(l, x.allocated) = Ordered[l]
  <2>1. PICK rows : rows = Over(NewAllocations(w), old)
    OBVIOUS
  <2>2. OfLine(l, rows) = Head(request[w].items).quantity
    BY <1>4, <1>6, <1>20, <2>1, AllocatesLine
  <2>3. QED
    BY <1>1, <1>7, <1>9, <1>15, <1>18, <2>1, <2>2
<1>22. Allocated(r, x)
  <2>1. r.phase = "commit" => r.items = << >>
    BY <1>12
  <2>2. \A i \in DOMAIN r.items : r.items[i].quantity = Ordered[r.items[i].line]
    BY <1>16, <1>17 DEF Allocated
  <2>3. ASSUME NEW i \in DOMAIN r.items, NEW j \in DOMAIN r.items,
               r.items[i].line = r.items[j].line
        PROVE  i = j
    <3>1. i + 1 = j + 1
      BY <1>16, <1>17, <2>3 DEF Allocated
    <3>2. QED
      BY <1>16, <3>1
  <2>4. ASSUME NEW m \in LinesOf(r.order)
        PROVE  IF \E i \in DOMAIN r.items : r.items[i].line = m
                 THEN \A k \in DOMAIN x.allocated : k[1] # m
                 ELSE OfLine(m, x.allocated) = Ordered[m]
    <3>1. IF \E i \in DOMAIN q.items : q.items[i].line = m
            THEN \A k \in DOMAIN old : k[1] # m
            ELSE OfLine(m, old) = Ordered[m]
      BY <1>8, <1>13, <1>17, <2>4 DEF Allocated
    <3>2. CASE m = l
      <4>1. ASSUME NEW i \in DOMAIN r.items, r.items[i].line = m PROVE FALSE
        <5>1. i + 1 = 1
          <6>1. \A j, k \in DOMAIN q.items : q.items[j].line = q.items[k].line => j = k
            BY <1>17 DEF Allocated
          <6>2. i + 1 \in DOMAIN q.items /\ q.items[i + 1].line = q.items[1].line
            BY <1>15, <1>16, <3>2, <4>1
          <6>3. QED
            BY <1>15, <6>1, <6>2
        <5>2. i # 0
          BY <1>12, <1>15
        <5>3. QED
          BY <1>16, <5>1, <5>2
      <4>2. QED
        BY <1>21, <3>2, <4>1
    <3>3. CASE m # l
      <4>1. (\E i \in DOMAIN r.items : r.items[i].line = m)
              <=> \E i \in DOMAIN q.items : q.items[i].line = m
        BY <1>15, <1>16, <3>3
      <4>2. CASE \E i \in DOMAIN r.items : r.items[i].line = m
        BY <1>9, <1>19, <3>1, <3>3, <4>1, <4>2 DEF Over
      <4>3. CASE ~\E i \in DOMAIN r.items : r.items[i].line = m
        <5>1. PICK rows : rows = x.allocated
          OBVIOUS
        <5>2. TableOK("allocated", old)
          BY <1>5, <1>8 DEF WritesOK, Tables
        <5>3. /\ \A k \in DOMAIN old : k[1] = m => k \in DOMAIN rows /\ rows[k] = old[k]
              /\ \A k \in DOMAIN rows : k[1] = m => k \in DOMAIN old
          BY <1>9, <1>19, <3>3, <5>1 DEF Over
        <5>4. OfLine(m, rows) = OfLine(m, old)
          BY <5>2, <5>3, OfLineSame
        <5>5. QED
          BY <3>1, <4>1, <4>3, <5>1, <5>4
      <4>4. QED
        BY <4>2, <4>3
    <3>4. QED
      BY <3>2, <3>3
  <2>5. QED
    BY <2>1, <2>2, <2>3, <2>4 DEF Allocated
<1>23. Account(r, x, db)
  <2>1. /\ q.done = << >> /\ q.fulfillment \in Nat \ DOMAIN db.fulfillment
        /\ DOMAIN txn[w].fulfillment = {} /\ DOMAIN txn[w].quantity = {}
    BY <1>5, <1>11 DEF Account, WritesLocked
  <2>2. r.phase \in { "sum", "allocate", "commit" }
    BY <1>12
  <2>3. QED
    BY <1>10, <1>13, <1>14, <1>22, <2>1, <2>2, AccountPlaces
<1>24. \A v \in Workers \ { w } : request[v].fulfillment = r.fulfillment => r.fulfillment = None
  BY <1>1, <1>13 DEF Accounts
<1>25. QED
  BY <1>4, <1>9, <1>23, <1>24, AccountsLocal

LEMMA ImageFinite ==
    ASSUME NEW S, IsFiniteSet(S), NEW f
    PROVE  IsFiniteSet({ f[x] : x \in S })
<1>1. PICK good : good = { T \in SUBSET S : IsFiniteSet({ f[x] : x \in T }) }
  OBVIOUS
<1>2. {} \in good
  <2>1. { f[x] : x \in {} } = {}
    OBVIOUS
  <2>2. QED
    BY <1>1, <2>1, FS_EmptySet
<1>3. ASSUME NEW T \in SUBSET S, NEW x \in S \ T, T \in good
      PROVE  T \cup { x } \in good
  <2>1. PICK image : image = { f[y] : y \in T }
    OBVIOUS
  <2>2. IsFiniteSet(image)
    BY <1>1, <1>3, <2>1
  <2>3. IsFiniteSet(image \cup { f[x] })
    BY <2>2, FS_AddElement
  <2>4. { f[y] : y \in T \cup { x } } = image \cup { f[x] }
    BY <2>1
  <2>5. QED
    BY <1>1, <2>3, <2>4
<1>4. S \in good
  BY <1>2, <1>3, SubsetInduction
<1>5. QED
  BY <1>1, <1>4

\* The number of a fulfillment that begins is new.
LEMMA NewFulfillment ==
    ASSUME Accounts, NEW w \in Workers, NEW f,
           f = Max(DOMAIN db.fulfillment \cup { request[v].fulfillment : v \in Workers }) + 1
    PROVE  /\ f \in Nat \ DOMAIN db.fulfillment /\ f # None
           /\ \A v \in Workers : request[v].fulfillment # f
<1>1. PICK number : number = [ v \in Workers |-> request[v].fulfillment ]
  OBVIOUS
<1>2. PICK S : S = DOMAIN db.fulfillment \cup { number[v] : v \in Workers }
  OBVIOUS
<1>3. \A v \in Workers : number[v] = request[v].fulfillment /\ number[v] \in Nat
  BY <1>1 DEF Accounts, Account
<1>4. S \subseteq Nat /\ DOMAIN db.fulfillment \subseteq S
  BY <1>2, <1>3 DEF Accounts, Balanced
<1>5. IsFiniteSet(S)
  <2>1. IsFiniteSet(DOMAIN db.fulfillment)
    BY DEF Accounts, Balanced
  <2>2. IsFiniteSet({ number[v] : v \in Workers })
    BY ImageFinite, StockAssumption
  <2>3. IsFiniteSet(DOMAIN db.fulfillment \cup { number[v] : v \in Workers })
    BY <2>1, <2>2, FS_Union
  <2>4. QED
    BY <1>2, <2>3
<1>6. f = Max(S) + 1
  <2>1. { request[v].fulfillment : v \in Workers } = { number[v] : v \in Workers }
    BY <1>3
  <2>2. QED
    BY <1>2, <2>1
<1>7. PICK m : m = Max(S) /\ m \in S /\ \A n \in S : m >= n
  <2>1. S # {}
    BY <1>2
  <2>2. PICK self : self = [ n \in S |-> n ]
    OBVIOUS
  <2>3. \A n \in S : self[n] = n /\ self[n] \in Nat
    BY <1>4, <2>2
  <2>4. PICK g \in S : \A n \in S : self[n] <= self[g]
    BY <1>5, <2>1, <2>3, Greatest
  <2>5. \A n \in S : g >= n
    BY <1>4, <2>3, <2>4
  <2>6. QED
    BY <2>5 DEF Max
<1>8. /\ f \in Nat /\ \A n \in S : n < f
  <2>1. m \in Nat /\ f = m + 1
    BY <1>4, <1>6, <1>7
  <2>2. \A n \in S : n \in Nat /\ m >= n
    BY <1>4, <1>7
  <2>3. QED
    BY ONLY <2>1, <2>2
<1>9. \A v \in Workers : request[v].fulfillment \in S
  BY <1>2, <1>3
<1>10. \A n \in S : n # f
  <2>1. \A n \in S : n \in Nat /\ n < f
    BY <1>4, <1>8
  <2>2. QED
    BY ONLY <1>8, <2>1
<1>11. f # None
  <2>1. request[w].fulfillment \in Nat /\ request[w].fulfillment < f
    BY <1>4, <1>8, <1>9
  <2>2. QED
    BY <1>8, <2>1 DEF None
<1>12. QED
  BY <1>4, <1>8, <1>9, <1>10, <1>11

LEMMA CleanLinesAccounts ==
    ASSUME NEW sure, Typing, Discipline(sure), Accounts, NEW w \in Workers, CleanLines(w)
    PROVE  Accounts'
<1>1. PICK q : q = request[w]
  OBVIOUS
<1>2. PICK f : f = Max(DOMAIN db.fulfillment \cup { request[v].fulfillment : v \in Workers }) + 1
  OBVIOUS
<1>3. PICK loaded :
        loaded = [ l \in { q.items[i].line : i \in DOMAIN q.items } |-> db.fulfilled[l] ]
  OBVIOUS
<1>4. PICK r : r = [ q EXCEPT !.phase = "line", !.fulfillment = f, !.loaded = loaded ]
  OBVIOUS
<1>5. /\ q.phase = "clean" /\ request' = [ request EXCEPT ![w] = r ]
      /\ db' = db /\ txn' = txn
  BY <1>1, <1>2, <1>3, <1>4 DEF CleanLines, At, Continue
<1>6. FieldsOK(q) /\ CourseOK(q, db) /\ Account(q, txn[w], db)
  BY <1>1, OfCall DEF Accounts
<1>7. /\ DOMAIN r = Fields /\ r.phase = "line" /\ r.fulfillment = f
      /\ \A field \in Fields \ { "phase", "fulfillment", "loaded" } : r[field] = q[field]
  BY <1>4, <1>6 DEF FieldsOK, Fields
<1>8. r.order = q.order /\ r.done = q.done
  BY <1>7 DEF Fields
<1>9. /\ f \in Nat \ DOMAIN db.fulfillment /\ f # None
      /\ \A v \in Workers : request[v].fulfillment # f
  BY <1>2, NewFulfillment
<1>10. ~Placing(q, db) /\ ~Placing(r, db) /\ Cancels(r, txn[w]) = Cancels(q, txn[w])
  BY <1>5, <1>6, <1>7, <1>8 DEF CourseOK, Placing, Cancels
<1>11. q.done = << >> /\ DOMAIN txn[w].fulfillment = {}
  BY <1>5, <1>6 DEF Account, LinePhases
<1>12. /\ \A phases : r.phase \notin phases => Taking(r, phases) = q.done
       /\ \A phases : q.phase \notin phases => Taking(q, phases) = q.done
  BY <1>8 DEF Taking
<1>13. /\ Taking(r, { "mark" }) = q.done /\ Taking(r, { "ship", "mark" }) = q.done
       /\ Taking(q, { "mark" }) = q.done /\ Taking(q, { "ship", "mark" }) = q.done
  BY <1>5, <1>7, <1>12
<1>14. Account(r, txn[w], db)
  BY <1>5, <1>6, <1>7, <1>8, <1>9, <1>10, <1>11, <1>13 DEF Account, LinePhases
<1>15. \A v \in Workers \ { w } : request[v].fulfillment = r.fulfillment => r.fulfillment = None
  BY <1>7, <1>9
<1>16. QED
  BY <1>5, <1>14, <1>15, AccountsLocal

\* A call between two lines of its order, or in the middle of one.
LEMMA LineCall ==
    ASSUME NEW sure, Typing, Discipline(sure), Accounts, NEW w \in Workers, NEW q, q = request[w],
           NEW phases, phases = { "line" } \cup LinePhases, q.phase \in phases
    PROVE  /\ FieldsOK(q) /\ ~Placing(q, db) /\ q.done \in Seq(Item)
           /\ \A i \in DOMAIN q.done : OrderOf[q.done[i].line] = q.order
           /\ q.fulfillment \in Nat \ DOMAIN db.fulfillment /\ q.fulfillment # None
           /\ DOMAIN txn[w].fulfillment = {} /\ DOMAIN txn[w].status = {}
           /\ Paid(txn[w], db, Taking(q, { "mark" }))
           /\ Lowered(q.order, txn[w], db, Taking(q, { "ship", "mark" }))
           /\ q.phase \in LinePhases => /\ DOMAIN q.base.fulfillment = {}
                                        /\ Paid(q.base, db, q.done)
                                        /\ Lowered(q.order, q.base, db, q.done)
<1>1. /\ FieldsOK(q) /\ CourseOK(q, db) /\ WritesLocked(q, txn[w], holds[w], db)
      /\ Account(q, txn[w], db)
  BY OfCall DEF Accounts
<1>2. q.phase \notin { "idle", "sum", "allocate", "update", "order", "commit" }
  BY DEF LinePhases
<1>3. ~Placing(q, db)
  BY <1>1, <1>2 DEF CourseOK, Placing
<1>4. DOMAIN txn[w].status = {} /\ ~Cancels(q, txn[w])
  BY <1>1, <1>2, <1>3 DEF WritesLocked, Cancels
<1>5. q.done \in Seq(Item)
  BY <1>1 DEF FieldsOK
<1>6. QED
  BY <1>1, <1>2, <1>3, <1>4, <1>5 DEF Account

LEMMA LineStep ==
    ASSUME NEW sure, Typing, Discipline(sure), Accounts, NEW w \in Workers, NEW q, q = request[w],
           NEW phases, phases = { "line" } \cup LinePhases, q.phase \in phases,
           NEW r, r.phase \in phases, r.order = q.order, r.fulfillment = q.fulfillment,
           \A i \in DOMAIN r.done : OrderOf[r.done[i].line] = q.order,
           NEW x, DOMAIN x.fulfillment = {}, DOMAIN x.status = {},
           db' = db, request' = [ request EXCEPT ![w] = r ],
           txn' = [ txn EXCEPT ![w] = x ] \/ (txn' = txn /\ x = txn[w]),
           Paid(x, db, Taking(r, { "mark" })),
           Lowered(q.order, x, db, Taking(r, { "ship", "mark" })),
           r.phase \in LinePhases => /\ DOMAIN r.base.fulfillment = {}
                                     /\ Paid(r.base, db, r.done)
                                     /\ Lowered(q.order, r.base, db, r.done)
    PROVE  Accounts'
<1>1. ~Placing(q, db) /\ q.fulfillment \in Nat \ DOMAIN db.fulfillment /\ q.fulfillment # None
  BY LineCall
<1>2. q.phase # "idle" /\ r.phase \notin { "idle", "order" }
  BY DEF LinePhases
<1>3. ~Placing(r, db) /\ ~Cancels(r, x)
  BY <1>1, <1>2 DEF Placing, Cancels
<1>4. Account(r, x, db)
  BY <1>1, <1>3 DEF Account
<1>5. \A v \in Workers \ { w } : request[v].fulfillment = r.fulfillment => r.fulfillment = None
  BY DEF Accounts
<1>6. QED
  BY <1>4, <1>5, AccountsLocal

LEMMA FulfillLineAccounts ==
    ASSUME NEW sure, Typing, Discipline(sure), Accounts, NEW w \in Workers, FulfillLine(w)
    PROVE  Accounts'
<1>1. PICK q : q = request[w]
  OBVIOUS
<1>2. PICK keys : keys = ByStock(RowsOf({ Head(q.items).line }, Seen(w, "allocated")))
  OBVIOUS
<1>3. PICK want : want = [ i \in 1 .. 2 * Len(keys) |->
                             IF i % 2 = 1 THEN AllocationLock(keys[(i + 1) \div 2])
                             ELSE StockLock(keys[(i + 1) \div 2][2]) ]
  OBVIOUS
<1>4. PICK r : r = [ q EXCEPT !.phase = "deallocate", !.base = txn[w], !.kept = holds[w],
                              !.want = want ]
  OBVIOUS
<1>5. /\ q.phase = "line" /\ request' = [ request EXCEPT ![w] = r ] /\ db' = db /\ txn' = txn
  BY <1>1, <1>2, <1>3, <1>4 DEF FulfillLine, At, Continue
<1>6. PICK phases : phases = { "line" } \cup LinePhases
  OBVIOUS
<1>7. q.phase \in phases /\ q.phase \notin LinePhases
  BY <1>5, <1>6 DEF LinePhases
<1>8. /\ FieldsOK(q)
      /\ \A i \in DOMAIN q.done : OrderOf[q.done[i].line] = q.order
      /\ DOMAIN txn[w].fulfillment = {} /\ DOMAIN txn[w].status = {}
      /\ Paid(txn[w], db, Taking(q, { "mark" }))
      /\ Lowered(q.order, txn[w], db, Taking(q, { "ship", "mark" }))
  BY <1>1, <1>6, <1>7, LineCall
<1>9. /\ DOMAIN r = Fields /\ r.phase = "deallocate" /\ r.base = txn[w]
      /\ \A field \in Fields \ { "phase", "base", "kept", "want" } : r[field] = q[field]
  BY <1>4, <1>8 DEF FieldsOK, Fields
<1>10. r.order = q.order /\ r.fulfillment = q.fulfillment /\ r.done = q.done
  BY <1>9 DEF Fields
<1>11. /\ Taking(q, { "mark" }) = q.done /\ Taking(q, { "ship", "mark" }) = q.done
       /\ Taking(r, { "mark" }) = q.done /\ Taking(r, { "ship", "mark" }) = q.done
  BY <1>5, <1>9, <1>10 DEF Taking
<1>12. r.phase \in phases
  BY <1>6, <1>9 DEF LinePhases
<1>13. /\ DOMAIN r.base.fulfillment = {}
       /\ Paid(r.base, db, r.done) /\ Lowered(q.order, r.base, db, r.done)
       /\ Paid(txn[w], db, Taking(r, { "mark" }))
       /\ Lowered(q.order, txn[w], db, Taking(r, { "ship", "mark" }))
  BY <1>8, <1>9, <1>10, <1>11
<1>14. QED
  BY <1>1, <1>5, <1>6, <1>7, <1>8, <1>10, <1>12, <1>13, LineStep

LEMMA TooFewAllocatedAccounts ==
    ASSUME NEW sure, Typing, Discipline(sure), Accounts, NEW w \in Workers, TooFewAllocated(w)
    PROVE  Accounts'
<1>1. PICK q : q = request[w]
  OBVIOUS
<1>2. PICK want : want = Locking(AllocationLock,
                                 ByStock(RowsOf({ Head(q.items).line }, Seen(w, "allocated"))))
  OBVIOUS
<1>3. PICK r : r = [ q EXCEPT !.phase = "zero", !.want = want ]
  OBVIOUS
<1>4. /\ q.phase = "deallocate" /\ request' = [ request EXCEPT ![w] = r ]
      /\ db' = db /\ txn' = txn
  BY <1>1, <1>2, <1>3 DEF TooFewAllocated, At, Continue
<1>5. PICK phases : phases = { "line" } \cup LinePhases
  OBVIOUS
<1>6. q.phase \in phases /\ q.phase \in LinePhases
  BY <1>4, <1>5 DEF LinePhases
<1>7. /\ FieldsOK(q)
      /\ \A i \in DOMAIN q.done : OrderOf[q.done[i].line] = q.order
      /\ DOMAIN txn[w].fulfillment = {} /\ DOMAIN txn[w].status = {}
      /\ Paid(txn[w], db, Taking(q, { "mark" }))
      /\ Lowered(q.order, txn[w], db, Taking(q, { "ship", "mark" }))
      /\ DOMAIN q.base.fulfillment = {}
      /\ Paid(q.base, db, q.done) /\ Lowered(q.order, q.base, db, q.done)
  BY <1>1, <1>5, <1>6, LineCall
<1>8. /\ DOMAIN r = Fields /\ r.phase = "zero"
      /\ \A field \in Fields \ { "phase", "want" } : r[field] = q[field]
  BY <1>3, <1>7 DEF FieldsOK, Fields
<1>9. /\ r.order = q.order /\ r.fulfillment = q.fulfillment /\ r.done = q.done
      /\ r.base = q.base
  BY <1>8 DEF Fields
<1>10. /\ Taking(q, { "mark" }) = q.done /\ Taking(q, { "ship", "mark" }) = q.done
       /\ Taking(r, { "mark" }) = q.done /\ Taking(r, { "ship", "mark" }) = q.done
  BY <1>4, <1>8, <1>9 DEF Taking
<1>11. r.phase \in phases
  BY <1>5, <1>8 DEF LinePhases
<1>12. QED
  BY <1>1, <1>4, <1>5, <1>6, <1>7, <1>8, <1>9, <1>10, <1>11, LineStep

\* The allocations of a line are lowered, and the item is to be shipped.
LEMMA LowersLine ==
    ASSUME NEW o, NEW y, NEW d, TableOK("allocated", y.allocated),
           TableOK("allocated", d.allocated), NEW items \in Seq(Item), Lowered(o, y, d, items),
           NEW item \in Item, NEW l \in LinesOf(o), l = item.line,
           NEW seen, seen = Over(y.allocated, d.allocated),
           NEW rows, TableOK("allocated", rows), DOMAIN rows = RowsOf({ l }, seen),
           \/ OfLine(l, rows) = 0
           \/ OfLine(l, rows) + item.quantity = OfLine(l, seen),
           NEW x, x.allocated = Over(rows, y.allocated)
    PROVE  Lowered(o, x, d, Append(items, item))
<1>1. PICK old, base, new : old = y.allocated /\ base = d.allocated /\ new = x.allocated
  OBVIOUS
<1>2. /\ DOMAIN rows = { k \in DOMAIN old \cup DOMAIN base : k[1] = l }
      /\ DOMAIN new = DOMAIN rows \cup DOMAIN old
      /\ \A k \in DOMAIN rows : new[k] = rows[k]
      /\ \A k \in DOMAIN old \ DOMAIN rows : new[k] = old[k]
      /\ DOMAIN seen = DOMAIN old \cup DOMAIN base
      /\ \A k \in DOMAIN old : seen[k] = old[k]
      /\ \A k \in DOMAIN base \ DOMAIN old : seen[k] = base[k]
  BY <1>1 DEF RowsOf, Over
<1>3. \A m : By("line", m, items) \in Nat
  BY ByNat
<1>4. item.quantity \in Nat
  BY DEF Item
<1>5. \A m : By("line", m, Append(items, item))
               = By("line", m, items) + (IF l = m THEN item.quantity ELSE 0)
  BY ByAppend
<1>6. OfLine(l, new) = OfLine(l, rows)
  BY <1>2, OfLineSame
<1>7. SUFFICES ASSUME NEW m \in LinesOf(o)
               PROVE  \/ /\ By("line", m, Append(items, item)) = 0
                         /\ \A k \in DOMAIN new : k[1] # m
                      \/ /\ \A k \in DOMAIN base : k[1] = m => k \in DOMAIN new
                         /\ \/ OfLine(m, new) = 0
                            \/ OfLine(m, new) + By("line", m, Append(items, item))
                                 = OfLine(m, base)
  BY <1>1 DEF Lowered
<1>8. \/ By("line", m, items) = 0 /\ \A k \in DOMAIN old : k[1] # m
      \/ /\ \A k \in DOMAIN base : k[1] = m => k \in DOMAIN old
         /\ \/ OfLine(m, old) = 0
            \/ OfLine(m, old) + By("line", m, items) = OfLine(m, base)
  BY <1>1, <1>7 DEF Lowered
<1>9. CASE m = l
  <2>1. \A k \in DOMAIN base : k[1] = l => k \in DOMAIN new
    BY <1>2
  <2>2. CASE OfLine(l, rows) = 0
    BY <1>6, <1>9, <2>1, <2>2
  <2>3. CASE OfLine(l, rows) + item.quantity = OfLine(l, seen)
    <3>1. OfLine(l, rows) \in Nat /\ OfLine(l, old) \in Nat /\ OfLine(l, base) \in Nat
      BY <1>1, OfLineNat
    <3>2. CASE By("line", l, items) = 0 /\ \A k \in DOMAIN old : k[1] # l
      <4>1. OfLine(l, seen) = OfLine(l, base)
        BY <1>1, <1>2, <3>2, OfLineSame
      <4>2. QED
        BY <1>3, <1>4, <1>5, <1>6, <1>9, <2>1, <2>3, <3>1, <3>2, <4>1
    <3>3. CASE \A k \in DOMAIN base : k[1] = l => k \in DOMAIN old
      <4>1. OfLine(l, seen) = OfLine(l, old)
        BY <1>1, <1>2, <3>3, OfLineSame
      <4>2. CASE OfLine(l, old) = 0
        <5>1. OfLine(l, rows) = 0
          BY <1>4, <2>3, <3>1, <4>1, <4>2
        <5>2. QED
          BY <1>6, <1>9, <2>1, <5>1
      <4>3. CASE OfLine(l, old) + By("line", l, items) = OfLine(l, base)
        BY <1>3, <1>4, <1>5, <1>6, <1>9, <2>1, <2>3, <3>1, <4>1, <4>3
      <4>4. QED
        BY <1>8, <1>9, <3>2, <4>2, <4>3
    <3>4. QED
      BY <1>8, <1>9, <3>2, <3>3
  <2>4. QED
    BY <2>2, <2>3
<1>10. CASE m # l
  <2>1. By("line", m, Append(items, item)) = By("line", m, items)
    BY <1>3, <1>5, <1>10
  <2>2. OfLine(m, new) = OfLine(m, old)
    <3>1. TableOK("allocated", old)
      BY <1>1
    <3>2. /\ \A k \in DOMAIN old : k[1] = m => k \in DOMAIN new /\ new[k] = old[k]
          /\ \A k \in DOMAIN new : k[1] = m => k \in DOMAIN old
      <4>1. \A k \in DOMAIN rows : k[1] = l
        BY <1>2
      <4>2. /\ DOMAIN new = DOMAIN rows \cup DOMAIN old
            /\ \A k \in DOMAIN old \ DOMAIN rows : new[k] = old[k]
        BY <1>2
      <4>3. QED
        BY ONLY <1>10, <4>1, <4>2
    <3>3. QED
      BY <3>1, <3>2, OfLineSame
  <2>3. /\ (\A k \in DOMAIN old : k[1] # m) => \A k \in DOMAIN new : k[1] # m
        /\ (\A k \in DOMAIN base : k[1] = m => k \in DOMAIN old)
             => \A k \in DOMAIN base : k[1] = m => k \in DOMAIN new
    BY <1>2, <1>10
  <2>4. QED
    BY <1>8, <2>1, <2>2, <2>3
<1>11. QED
  BY <1>9, <1>10

LEMMA ReleasesLine ==
    ASSUME NEW sure, Typing, Discipline(sure), Accounts, NEW w \in Workers, NEW q, q = request[w],
           q.phase \in { "deallocate", "zero" }, NEW item, item = Head(q.items),
           NEW l, l = item.line, NEW seen, seen = Seen(w, "allocated"),
           NEW rows, TableOK("allocated", rows), DOMAIN rows = RowsOf({ l }, seen),
           \/ OfLine(l, rows) = 0
           \/ OfLine(l, rows) + item.quantity = OfLine(l, seen),
           NEW r, r = [ q EXCEPT !.phase = "ship", !.want = << StockLock(item.stock) >> ],
           request' = [ request EXCEPT ![w] = r ],
           Writes(w, "allocated", rows), db' = db
    PROVE  Accounts'
<1>3. PICK phases : phases = { "line" } \cup LinePhases
  OBVIOUS
<1>4. q.phase \in phases /\ q.phase \in LinePhases
  BY <1>3 DEF LinePhases
<1>5. PICK y : y = txn[w]
  OBVIOUS
<1>6. /\ FieldsOK(q) /\ q.done \in Seq(Item)
      /\ \A i \in DOMAIN q.done : OrderOf[q.done[i].line] = q.order
      /\ DOMAIN y.fulfillment = {} /\ DOMAIN y.status = {}
      /\ Paid(y, db, Taking(q, { "mark" }))
      /\ Lowered(q.order, y, db, Taking(q, { "ship", "mark" }))
      /\ DOMAIN q.base.fulfillment = {}
      /\ Paid(q.base, db, q.done) /\ Lowered(q.order, q.base, db, q.done)
  BY <1>3, <1>4, <1>5, LineCall
<1>7. PICK x : /\ txn' = [ txn EXCEPT ![w] = x ]
               /\ x.allocated = Over(rows, y.allocated)
               /\ \A t \in Tables \ { "allocated" } : x[t] = y[t]
  BY <1>5, WrittenIs DEF Tables
<1>8. /\ x.quantity = y.quantity /\ x.fulfillment = y.fulfillment /\ x.status = y.status
  BY <1>7 DEF Tables
<1>9. /\ DOMAIN r = Fields /\ r.phase = "ship"
      /\ \A field \in Fields \ { "phase", "want" } : r[field] = q[field]
  BY <1>6 DEF FieldsOK, Fields
<1>10. /\ r.order = q.order /\ r.fulfillment = q.fulfillment /\ r.done = q.done
       /\ r.base = q.base /\ r.items = q.items
  BY <1>9 DEF Fields
<1>11. /\ Taking(q, { "mark" }) = q.done /\ Taking(q, { "ship", "mark" }) = q.done
       /\ Taking(r, { "mark" }) = q.done
       /\ Taking(r, { "ship", "mark" }) = Append(q.done, item)
  BY <1>9, <1>10 DEF Taking
<1>12. item \in Item /\ l \in LinesOf(q.order)
  <2>1. /\ item \in Item /\ item = q.items[1] /\ 1 \in DOMAIN q.items /\ l \in Lines
    BY <1>4, WorkItem
  <2>2. OrderOf[l] = q.order
    BY <1>4, <2>1, OfCall DEF CourseOK
  <2>3. QED
    BY <2>1, <2>2 DEF LinesOf
<1>13. Lowered(q.order, x, db, Append(q.done, item))
  <2>1. PICK d : d = db
    OBVIOUS
  <2>2. /\ TableOK("allocated", y.allocated) /\ TableOK("allocated", d.allocated)
        /\ seen = Over(y.allocated, d.allocated)
    BY <1>5, <2>1 DEF Typing, DbOK, WritesOK, Tables, Seen
  <2>3. Lowered(q.order, y, d, q.done)
    BY <1>6, <1>11, <2>1
  <2>4. Lowered(q.order, x, d, Append(q.done, item))
    <3>1. PICK o, items : o = q.order /\ items = q.done
      OBVIOUS
    <3>2. /\ TableOK("allocated", rows) /\ DOMAIN rows = RowsOf({ l }, seen) /\ l = item.line
          /\ \/ OfLine(l, rows) = 0
             \/ OfLine(l, rows) + item.quantity = OfLine(l, seen)
      OBVIOUS
    <3>3. /\ items \in Seq(Item) /\ Lowered(o, y, d, items) /\ item \in Item /\ l \in LinesOf(o)
          /\ x.allocated = Over(rows, y.allocated)
      BY <1>6, <1>7, <1>12, <2>3, <3>1
    <3>4. Lowered(o, x, d, Append(items, item))
      BY ONLY <2>2, <3>2, <3>3, LowersLine
    <3>5. QED
      BY <3>1, <3>4
  <2>5. QED
    BY <2>1, <2>4
<1>14. Paid(x, db, q.done)
  BY <1>6, <1>8, <1>11 DEF Paid
<1>15. r.phase \in phases
  BY <1>3, <1>9 DEF LinePhases
<1>16. /\ DOMAIN x.fulfillment = {} /\ DOMAIN x.status = {}
       /\ DOMAIN r.base.fulfillment = {}
       /\ Paid(r.base, db, r.done) /\ Lowered(q.order, r.base, db, r.done)
       /\ Paid(x, db, Taking(r, { "mark" }))
       /\ Lowered(q.order, x, db, Taking(r, { "ship", "mark" }))
       /\ \A i \in DOMAIN r.done : OrderOf[r.done[i].line] = q.order
  BY <1>6, <1>8, <1>10, <1>11, <1>13, <1>14
<1>17. txn' = [ txn EXCEPT ![w] = x ] \/ (txn' = txn /\ x = txn[w])
  BY <1>7
<1>18. r.order = q.order /\ r.fulfillment = q.fulfillment /\ q.phase \in phases
       /\ request' = [ request EXCEPT ![w] = r ] /\ db' = db
  BY <1>4, <1>10
<1>19. QED
  BY ONLY Typing, Discipline(sure), Accounts, w \in Workers, q = request[w], <1>3, <1>15, <1>16, <1>17, <1>18,
          LineStep

LEMMA DeallocateAccounts ==
    ASSUME NEW sure, Typing, Discipline(sure), Accounts, NEW w \in Workers, Deallocate(w)
    PROVE  Accounts'
<1>1. PICK q : q = request[w]
  OBVIOUS
<1>2. PICK item : item = Head(q.items)
  OBVIOUS
<1>3. PICK mine : mine = AllocatedTo(w)
  OBVIOUS
<1>4. PICK released : released = Share(item.quantity, mine)
  OBVIOUS
<1>5. PICK kept : kept = [ k \in { item.line } \X DOMAIN mine |-> mine[k[2]] - released[k[2]] ]
  OBVIOUS
<1>6. PICK r : r = [ q EXCEPT !.phase = "ship", !.want = << StockLock(item.stock) >> ]
  OBVIOUS
<1>7. /\ q.phase = "deallocate" /\ request' = [ request EXCEPT ![w] = r ]
      /\ Writes(w, "allocated", kept) /\ db' = db /\ Total(released) = item.quantity
  BY <1>1, <1>2, <1>3, <1>4, <1>5, <1>6 DEF Deallocate, At, Continue
<1>8. PICK seen : seen = Seen(w, "allocated")
  OBVIOUS
<1>9. PICK l : l = item.line
  OBVIOUS
<1>10. PICK S : S = DOMAIN mine
  OBVIOUS
<1>11. /\ S \subseteq Stocks
       /\ \A s \in S : << l, s >> \in DOMAIN seen /\ mine[s] = seen[<< l, s >>] /\ mine[s] \in Nat
       /\ \A k \in DOMAIN seen : k[1] = l => k[2] \in S
  BY <1>1, <1>2, <1>3, <1>8, <1>9, <1>10, AllocatedToIs
<1>12. /\ DOMAIN released = S
       /\ \A s \in S : released[s] \in Nat /\ released[s] <= mine[s]
       /\ TableOK("allocated", kept)
  <2>1. /\ request[w].phase \in LinePhases
        /\ released = Share(Head(request[w].items).quantity, mine)
        /\ l = Head(request[w].items).line
        /\ kept = [ k \in { l } \X DOMAIN mine |-> mine[k[2]] - released[k[2]] ]
    BY <1>1, <1>2, <1>4, <1>5, <1>7, <1>9 DEF LinePhases
  <2>2. /\ DOMAIN released = DOMAIN mine
        /\ \A s \in DOMAIN mine : released[s] \in Nat /\ released[s] <= mine[s]
        /\ TableOK("allocated", kept)
    BY ONLY Typing, w \in Workers, <1>3, <2>1, KeptAllocations
  <2>3. QED
    BY <1>10, <2>2
<1>13. \A s \in S : mine[s] \in Int /\ released[s] \in Int
  <2>1. \A s \in S : mine[s] \in Nat
    BY <1>11
  <2>2. \A s \in S : released[s] \in Nat
    BY <1>12
  <2>3. QED
    BY ONLY <2>1, <2>2
<1>14. PICK name : name = [ s \in S |-> << l, s >> ]
  OBVIOUS
<1>15. PICK T : T = { name[s] : s \in S }
  OBVIOUS
<1>16. DOMAIN kept = T /\ \A s \in S : kept[name[s]] = mine[s] - released[s]
  BY <1>5, <1>9, <1>10, <1>14, <1>15
<1>17. RowsOf({ l }, seen) = T
  <2>1. TableOK("allocated", seen)
    BY <1>8, SeenRows
  <2>2. \A k \in DOMAIN seen : k = << k[1], k[2] >>
    BY <2>1, AllocationRows
  <2>3. \A k \in DOMAIN seen : k[1] = l => k \in T
    <3>1. \A s \in S : name[s] = << l, s >> /\ name[s] \in T
      BY <1>14, <1>15
    <3>2. QED
      BY <1>11, <2>2, <3>1
  <2>4. \A k \in T : k \in DOMAIN seen /\ k[1] = l
    BY <1>11, <1>14, <1>15
  <2>5. QED
    BY <2>3, <2>4 DEF RowsOf
<1>18. PICK left : left = [ s \in S |-> mine[s] - released[s] ]
  OBVIOUS
<1>19. IsFiniteSet(S)
  BY <1>11, FS_Subset, StockAssumption
<1>20. \A s, t \in S : name[s] = name[t] => s = t
  BY <1>14
<1>21. SumFunctionOnSet(seen, T) = SumFunctionOnSet(mine, S)
  <2>1. \A s \in S : mine[s] \in Int /\ seen[name[s]] = mine[s]
    BY <1>11, <1>14
  <2>2. IsFiniteSet(T) /\ SumFunctionOnSet(seen, T) = SumFunctionOnSet(mine, S)
    BY ONLY <1>15, <1>19, <1>20, <2>1, SumRenamed
  <2>3. QED
    BY <2>2
<1>22. SumFunctionOnSet(kept, T) = SumFunctionOnSet(left, S)
  <2>1. \A s \in S : left[s] \in Int /\ kept[name[s]] = left[s]
    <3>1. \A s \in S : mine[s] \in Int /\ released[s] \in Int
      BY <1>13
    <3>2. \A s \in S : left[s] = mine[s] - released[s] /\ kept[name[s]] = mine[s] - released[s]
      BY <1>16, <1>18
    <3>3. QED
      BY ONLY <3>1, <3>2
  <2>2. IsFiniteSet(T) /\ SumFunctionOnSet(kept, T) = SumFunctionOnSet(left, S)
    BY ONLY <1>15, <1>19, <1>20, <2>1, SumRenamed
  <2>3. QED
    BY <2>2
<1>23. SumFunctionOnSet(left, S) = SumFunctionOnSet(mine, S) - SumFunctionOnSet(released, S)
  <2>1. \A s \in S : mine[s] \in Int /\ released[s] \in Int /\ left[s] = mine[s] - released[s]
    <3>1. \A s \in S : mine[s] \in Int /\ released[s] \in Int
      BY <1>13
    <3>2. QED
      BY <1>18, <3>1
  <2>2. QED
    BY ONLY <1>19, <2>1, SumDifference
<1>24. /\ OfLine(l, seen) = SumFunctionOnSet(seen, T)
       /\ OfLine(l, kept) = SumFunctionOnSet(kept, T)
  <2>1. RowsOf({ l }, kept) = T
    BY <1>16, <1>17 DEF RowsOf
  <2>2. QED
    BY <1>17, <2>1 DEF OfLine
<1>25. SumFunctionOnSet(released, S) = item.quantity
  BY <1>7, <1>12 DEF Total
<1>26. OfLine(l, kept) + item.quantity = OfLine(l, seen)
  <2>1. SumFunctionOnSet(mine, S) \in Nat /\ SumFunctionOnSet(released, S) \in Nat
    BY <1>11, <1>12, <1>19, SumNat
  <2>2. QED
    BY <1>21, <1>22, <1>23, <1>24, <1>25, <2>1
<1>27. QED
  <2>1. q.phase \in { "deallocate", "zero" } /\ DOMAIN kept = RowsOf({ l }, seen)
    BY <1>7, <1>16, <1>17
  <2>2. QED
    BY <1>1, <1>2, <1>6, <1>7, <1>8, <1>9, <1>12, <1>26, <2>1, ReleasesLine

LEMMA ZeroAllocationsAccounts ==
    ASSUME NEW sure, Typing, Discipline(sure), Accounts, NEW w \in Workers, ZeroAllocations(w)
    PROVE  Accounts'
<1>1. PICK q : q = request[w]
  OBVIOUS
<1>2. PICK item : item = Head(q.items)
  OBVIOUS
<1>3. PICK seen : seen = Seen(w, "allocated")
  OBVIOUS
<1>4. PICK l : l = item.line
  OBVIOUS
<1>5. PICK zeros : zeros = [ k \in RowsOf({ l }, seen) |-> 0 ]
  OBVIOUS
<1>6. PICK r : r = [ q EXCEPT !.phase = "ship", !.want = << StockLock(item.stock) >> ]
  OBVIOUS
<1>7. /\ q.phase = "zero" /\ request' = [ request EXCEPT ![w] = r ]
      /\ Writes(w, "allocated", zeros) /\ db' = db
  BY <1>1, <1>2, <1>3, <1>4, <1>5, <1>6 DEF ZeroAllocations, At, Continue
<1>8. DOMAIN zeros = RowsOf({ l }, seen) /\ \A k \in DOMAIN zeros : zeros[k] = 0
  BY <1>5
<1>9. TableOK("allocated", zeros)
  <2>1. TableOK("allocated", seen)
    BY <1>3, SeenRows
  <2>2. QED
    BY <1>8, <2>1 DEF TableOK, RowsOf
<1>10. OfLine(l, zeros) = 0
  BY <1>8, <1>9, OfLineNat DEF RowsOf
<1>11. QED
  <2>1. q.phase \in { "deallocate", "zero" }
    BY <1>7
  <2>2. QED
    BY <1>1, <1>2, <1>3, <1>4, <1>6, <1>7, <1>8, <1>9, <1>10, <2>1, ReleasesLine

LEMMA DecreaseStockAccounts ==
    ASSUME NEW sure, Typing, Discipline(sure), Accounts, NEW w \in Workers, DecreaseStock(w)
    PROVE  Accounts'
<1>1. PICK q : q = request[w]
  OBVIOUS
<1>2. PICK item : item = Head(q.items)
  OBVIOUS
<1>3. PICK t, left : t = item.stock /\ left = Seen(w, "quantity")[t] - item.quantity
  OBVIOUS
<1>4. PICK r : r = [ q EXCEPT !.phase = "mark", !.want = << LineLock(item.line) >> ]
  OBVIOUS
<1>5. /\ q.phase = "ship" /\ request' = [ request EXCEPT ![w] = r ]
      /\ Writes(w, "quantity", Row(t, left)) /\ db' = db
  BY <1>1, <1>2, <1>3, <1>4 DEF DecreaseStock, At, Continue
<1>6. PICK phases : phases = { "line" } \cup LinePhases
  OBVIOUS
<1>7. q.phase \in phases /\ q.phase \in LinePhases
  BY <1>5, <1>6 DEF LinePhases
<1>8. PICK y : y = txn[w]
  OBVIOUS
<1>9. /\ FieldsOK(q) /\ q.done \in Seq(Item)
      /\ \A i \in DOMAIN q.done : OrderOf[q.done[i].line] = q.order
      /\ DOMAIN y.fulfillment = {} /\ DOMAIN y.status = {}
      /\ Paid(y, db, Taking(q, { "mark" }))
      /\ Lowered(q.order, y, db, Taking(q, { "ship", "mark" }))
      /\ DOMAIN q.base.fulfillment = {}
      /\ Paid(q.base, db, q.done) /\ Lowered(q.order, q.base, db, q.done)
  BY <1>1, <1>6, <1>7, <1>8, LineCall
<1>10. PICK x : /\ txn' = [ txn EXCEPT ![w] = x ]
                /\ x.quantity = Over(Row(t, left), y.quantity)
                /\ \A table \in Tables \ { "quantity" } : x[table] = y[table]
  BY <1>5, <1>8, WrittenIs DEF Tables
<1>11. /\ x.allocated = y.allocated /\ x.fulfillment = y.fulfillment /\ x.status = y.status
  BY <1>10 DEF Tables
<1>12. /\ DOMAIN r = Fields /\ r.phase = "mark"
       /\ \A field \in Fields \ { "phase", "want" } : r[field] = q[field]
  BY <1>4, <1>9 DEF FieldsOK, Fields
<1>13. /\ r.order = q.order /\ r.fulfillment = q.fulfillment /\ r.done = q.done
       /\ r.base = q.base /\ r.items = q.items
  BY <1>12 DEF Fields
<1>14. /\ Taking(q, { "mark" }) = q.done
       /\ Taking(q, { "ship", "mark" }) = Append(q.done, item)
       /\ Taking(r, { "mark" }) = Append(q.done, item)
       /\ Taking(r, { "ship", "mark" }) = Append(q.done, item)
  BY <1>2, <1>5, <1>12, <1>13 DEF Taking
<1>15. item \in Item /\ t \in Stocks /\ item.quantity \in Nat
  BY <1>1, <1>2, <1>3, <1>7, WorkItem
<1>16. /\ DOMAIN x.quantity = { t } \cup DOMAIN y.quantity /\ x.quantity[t] = left
       /\ \A s \in DOMAIN y.quantity \ { t } : x.quantity[s] = y.quantity[s]
  BY <1>10 DEF Over, Row
<1>17. Paid(x, db, Append(q.done, item))
  <2>1. SUFFICES ASSUME NEW s \in Stocks
                 PROVE  \/ /\ s \in DOMAIN x.quantity
                           /\ x.quantity[s] + By("stock", s, Append(q.done, item)) = db.quantity[s]
                        \/ /\ s \notin DOMAIN x.quantity
                           /\ By("stock", s, Append(q.done, item)) = 0
    BY DEF Paid
  <2>2. PICK paid : paid = By("stock", s, q.done) /\ paid \in Nat
    BY <1>9, ByNat
  <2>3. By("stock", s, Append(q.done, item)) = paid + (IF t = s THEN item.quantity ELSE 0)
    BY <1>3, <1>9, <1>15, <2>2, ByAppend
  <2>4. \/ s \in DOMAIN y.quantity /\ y.quantity[s] + paid = db.quantity[s]
        \/ s \notin DOMAIN y.quantity /\ paid = 0
    BY <1>9, <1>14, <2>2 DEF Paid
  <2>5. CASE s = t
    <3>1. left = Over(y.quantity, db.quantity)[t] - item.quantity
      BY <1>3, <1>8 DEF Seen
    <3>2. /\ Over(y.quantity, db.quantity)[t] =
               IF t \in DOMAIN y.quantity THEN y.quantity[t] ELSE db.quantity[t]
          /\ db.quantity[t] \in Nat
          /\ t \in DOMAIN y.quantity => y.quantity[t] \in Nat
      <4>1. WritesOK(y) /\ DbOK(db)
        BY <1>8 DEF Typing
      <4>2. QED
        BY <1>15, <4>1, Sees DEF DbOK
    <3>3. left + (paid + item.quantity) = db.quantity[t]
      BY <1>15, <2>2, <2>4, <2>5, <3>1, <3>2
    <3>4. QED
      BY <1>16, <2>3, <2>5, <3>3
  <2>6. CASE s # t
    BY <1>16, <2>2, <2>3, <2>4, <2>6
  <2>7. QED
    BY <2>5, <2>6
<1>18. Lowered(q.order, x, db, Append(q.done, item))
  BY <1>9, <1>11, <1>14 DEF Lowered
<1>19. r.phase \in phases
  BY <1>6, <1>12 DEF LinePhases
<1>20. /\ DOMAIN x.fulfillment = {} /\ DOMAIN x.status = {}
       /\ DOMAIN r.base.fulfillment = {}
       /\ Paid(r.base, db, r.done) /\ Lowered(q.order, r.base, db, r.done)
       /\ Paid(x, db, Taking(r, { "mark" }))
       /\ Lowered(q.order, x, db, Taking(r, { "ship", "mark" }))
       /\ \A i \in DOMAIN r.done : OrderOf[r.done[i].line] = q.order
  BY <1>9, <1>11, <1>13, <1>14, <1>17, <1>18
<1>21. txn' = [ txn EXCEPT ![w] = x ] \/ (txn' = txn /\ x = txn[w])
  BY <1>10
<1>22. r.order = q.order /\ r.fulfillment = q.fulfillment /\ q.phase \in phases
       /\ request' = [ request EXCEPT ![w] = r ] /\ db' = db
  BY <1>5, <1>7, <1>13
<1>23. QED
  BY ONLY Typing, Discipline(sure), Accounts, w \in Workers, <1>1, <1>6, <1>19, <1>20, <1>21, <1>22,
          LineStep

LEMMA FulfillOrderLineAccounts ==
    ASSUME NEW sure, Typing, Discipline(sure), Accounts, NEW w \in Workers, FulfillOrderLine(w)
    PROVE  Accounts'
<1>1. PICK q : q = request[w]
  OBVIOUS
<1>2. PICK item : item = Head(q.items)
  OBVIOUS
<1>3. PICK row : row = Row(item.line, q.loaded[item.line] + item.quantity)
  OBVIOUS
<1>4. PICK r : r = [ q EXCEPT !.phase = "line", !.items = Tail(@), !.done = Append(@, item) ]
  OBVIOUS
<1>5. /\ q.phase = "mark" /\ request' = [ request EXCEPT ![w] = r ]
      /\ Writes(w, "fulfilled", row) /\ db' = db
  BY <1>1, <1>2, <1>3, <1>4 DEF FulfillOrderLine, At, Continue
<1>6. PICK phases : phases = { "line" } \cup LinePhases
  OBVIOUS
<1>7. q.phase \in phases /\ q.phase \in LinePhases
  BY <1>5, <1>6 DEF LinePhases
<1>8. PICK y : y = txn[w]
  OBVIOUS
<1>9. /\ FieldsOK(q) /\ q.done \in Seq(Item)
      /\ \A i \in DOMAIN q.done : OrderOf[q.done[i].line] = q.order
      /\ DOMAIN y.fulfillment = {} /\ DOMAIN y.status = {}
      /\ Paid(y, db, Taking(q, { "mark" }))
      /\ Lowered(q.order, y, db, Taking(q, { "ship", "mark" }))
  BY <1>1, <1>6, <1>7, <1>8, LineCall
<1>10. PICK x : /\ txn' = [ txn EXCEPT ![w] = x ]
                /\ \A table \in Tables \ { "fulfilled" } : x[table] = y[table]
  BY <1>5, <1>8, WrittenIs DEF Tables
<1>11. /\ x.allocated = y.allocated /\ x.fulfillment = y.fulfillment /\ x.status = y.status
       /\ x.quantity = y.quantity
  BY <1>10 DEF Tables
<1>12. /\ DOMAIN r = Fields /\ r.phase = "line" /\ r.done = Append(q.done, item)
       /\ \A field \in Fields \ { "phase", "items", "done" } : r[field] = q[field]
  BY <1>4, <1>9 DEF FieldsOK, Fields
<1>13. r.order = q.order /\ r.fulfillment = q.fulfillment
  BY <1>12 DEF Fields
<1>14. /\ Taking(q, { "mark" }) = r.done /\ Taking(q, { "ship", "mark" }) = r.done
       /\ Taking(r, { "mark" }) = r.done /\ Taking(r, { "ship", "mark" }) = r.done
  BY <1>2, <1>5, <1>12 DEF Taking
<1>15. \A i \in DOMAIN r.done : OrderOf[r.done[i].line] = q.order
  <2>1. item = q.items[1] /\ 1 \in DOMAIN q.items
    BY <1>1, <1>2, <1>7, WorkItem
  <2>2. OrderOf[item.line] = q.order
    BY <1>1, <1>7, <2>1, OfCall DEF CourseOK
  <2>3. \A i \in DOMAIN r.done : r.done[i] = item \/ (i \in DOMAIN q.done /\ r.done[i] = q.done[i])
    BY <1>9, <1>12
  <2>4. QED
    BY <1>9, <2>2, <2>3
<1>16. Paid(x, db, r.done) /\ Lowered(q.order, x, db, r.done)
  BY <1>9, <1>11, <1>14 DEF Paid, Lowered
<1>17. r.phase \in phases /\ r.phase \notin LinePhases
  BY <1>6, <1>12 DEF LinePhases
<1>18. /\ DOMAIN x.fulfillment = {} /\ DOMAIN x.status = {}
       /\ Paid(x, db, Taking(r, { "mark" }))
       /\ Lowered(q.order, x, db, Taking(r, { "ship", "mark" }))
  BY <1>9, <1>11, <1>14, <1>16
<1>19. txn' = [ txn EXCEPT ![w] = x ] \/ (txn' = txn /\ x = txn[w])
  BY <1>10
<1>20. r.order = q.order /\ r.fulfillment = q.fulfillment /\ q.phase \in phases
       /\ request' = [ request EXCEPT ![w] = r ] /\ db' = db
  BY <1>5, <1>7, <1>13
<1>21. QED
  BY ONLY Typing, Discipline(sure), Accounts, w \in Workers, <1>1, <1>6, <1>15, <1>17, <1>18, <1>19, <1>20,
          LineStep

LEMMA CreateFulfillmentAccounts ==
    ASSUME NEW sure, Typing, Discipline(sure), Accounts, NEW w \in Workers, CreateFulfillment(w)
    PROVE  Accounts'
<1>1. PICK q : q = request[w]
  OBVIOUS
<1>2. PICK row : row = [ order |-> q.order, status |-> q.final, lines |-> q.done ]
  OBVIOUS
<1>3. PICK r : r = [ q EXCEPT !.phase = "update" ]
  OBVIOUS
<1>4. /\ q.phase = "line" /\ request' = [ request EXCEPT ![w] = r ]
      /\ Writes(w, "fulfillment", Row(q.fulfillment, row)) /\ db' = db
  BY <1>1, <1>2, <1>3 DEF CreateFulfillment, At, Continue
<1>5. PICK phases : phases = { "line" } \cup LinePhases
  OBVIOUS
<1>6. q.phase \in phases
  BY <1>4, <1>5
<1>7. PICK y : y = txn[w]
  OBVIOUS
<1>8. /\ FieldsOK(q) /\ ~Placing(q, db)
      /\ \A i \in DOMAIN q.done : OrderOf[q.done[i].line] = q.order
      /\ q.fulfillment \in Nat \ DOMAIN db.fulfillment /\ q.fulfillment # None
      /\ DOMAIN y.fulfillment = {} /\ DOMAIN y.status = {}
      /\ Paid(y, db, Taking(q, { "mark" }))
      /\ Lowered(q.order, y, db, Taking(q, { "ship", "mark" }))
  BY <1>1, <1>5, <1>6, <1>7, LineCall
<1>9. PICK x : /\ txn' = [ txn EXCEPT ![w] = x ]
               /\ x.fulfillment = Over(Row(q.fulfillment, row), y.fulfillment)
               /\ \A table \in Tables \ { "fulfillment" } : x[table] = y[table]
  BY <1>4, <1>7, WrittenIs DEF Tables
<1>10. /\ x.allocated = y.allocated /\ x.status = y.status /\ x.quantity = y.quantity
  BY <1>9 DEF Tables
<1>11. DOMAIN x.fulfillment = { q.fulfillment } /\ x.fulfillment[q.fulfillment] = row
  BY <1>8, <1>9 DEF Over, Row
<1>12. /\ DOMAIN r = Fields /\ r.phase = "update"
       /\ \A field \in Fields \ { "phase" } : r[field] = q[field]
  BY <1>3, <1>8 DEF FieldsOK, Fields
<1>13. r.order = q.order /\ r.fulfillment = q.fulfillment /\ r.done = q.done
  BY <1>12 DEF Fields
<1>14. /\ Taking(q, { "mark" }) = q.done /\ Taking(q, { "ship", "mark" }) = q.done
       /\ Taking(r, { "mark" }) = q.done /\ Taking(r, { "ship", "mark" }) = q.done
  BY <1>4, <1>12, <1>13 DEF Taking
<1>15. Paid(x, db, q.done) /\ Lowered(q.order, x, db, q.done)
  BY <1>8, <1>10, <1>14 DEF Paid, Lowered
<1>16. ~Placing(r, db) /\ ~Cancels(r, x)
  BY <1>4, <1>8, <1>10, <1>12, <1>13 DEF Placing, Cancels
<1>17. Account(r, x, db)
  <2>1. /\ x.fulfillment[r.fulfillment] =
             [ order |-> r.order, status |-> q.final, lines |-> r.done ]
        /\ q.final \in Standing
    BY <1>1, <1>2, <1>4, <1>11, <1>13 DEF Typing, RequestOK, PhaseOK
  <2>2. r.phase \notin { "line" } \cup LinePhases
    BY <1>12 DEF LinePhases
  <2>3. QED
    BY <1>8, <1>11, <1>12, <1>13, <1>14, <1>15, <1>16, <2>1, <2>2 DEF Account
<1>18. \A v \in Workers \ { w } : request[v].fulfillment = r.fulfillment => r.fulfillment = None
  BY <1>1, <1>13 DEF Accounts
<1>19. QED
  BY <1>4, <1>9, <1>17, <1>18, AccountsLocal

LEMMA UpdateOrderStatusAccounts ==
    ASSUME NEW sure, Typing, Discipline(sure), Accounts, NEW w \in Workers, UpdateOrderStatus(w)
    PROVE  Accounts'
<1>1. PICK q : q = request[w]
  OBVIOUS
<1>2. PICK status : status = StatusFor(q.order, Seen(w, "fulfilled"))
  OBVIOUS
<1>3. status # "canceled"
  BY <1>2 DEF StatusFor
<1>4. PICK r : r = IF status = q.status THEN [ q EXCEPT !.phase = "commit" ]
                   ELSE [ q EXCEPT !.phase = "order", !.status = status,
                                   !.want = << OrderLock(q.order) >> ]
  OBVIOUS
<1>5. /\ q.phase = "update" /\ request' = [ request EXCEPT ![w] = r ]
      /\ txn' = txn /\ db' = db
  BY <1>1, <1>2, <1>4 DEF UpdateOrderStatus, At, Continue
<1>6. PICK y : y = txn[w]
  OBVIOUS
<1>7. /\ FieldsOK(q) /\ CourseOK(q, db) /\ WritesLocked(q, y, holds[w], db)
      /\ Account(q, y, db)
  BY <1>1, <1>6, OfCall DEF Accounts
<1>8. /\ DOMAIN r = Fields /\ r.phase \in { "order", "commit" }
      /\ r.phase = "order" => r.status = status
      /\ \A field \in Fields \ { "phase", "status", "want" } : r[field] = q[field]
  BY <1>4, <1>7 DEF FieldsOK, Fields
<1>9. r.order = q.order /\ r.fulfillment = q.fulfillment /\ r.done = q.done
  BY <1>8 DEF Fields
<1>10. ~Placing(q, db) /\ ~Placing(r, db)
  BY <1>5, <1>7, <1>9 DEF CourseOK, Placing
<1>11. Cancels(r, y) = Cancels(q, y)
  <2>1. DOMAIN y.status = {}
    BY <1>5, <1>7, <1>10 DEF WritesLocked
  <2>2. QED
    BY <1>3, <1>5, <1>8, <2>1 DEF Cancels
<1>12. /\ Taking(q, { "mark" }) = Taking(r, { "mark" })
       /\ Taking(q, { "ship", "mark" }) = Taking(r, { "ship", "mark" })
  BY <1>5, <1>8, <1>9 DEF Taking
<1>13. /\ q.phase \notin { "idle", "line" } \cup LinePhases
       /\ r.phase \notin { "idle", "line" } \cup LinePhases
       /\ r.phase \in { "update", "order", "commit" }
  BY <1>5, <1>8 DEF LinePhases
<1>14. Account(r, y, db)
  BY <1>7, <1>9, <1>10, <1>11, <1>12, <1>13, AccountStays
<1>15. \A v \in Workers \ { w } : request[v].fulfillment = r.fulfillment => r.fulfillment = None
  BY <1>1, <1>9 DEF Accounts
<1>16. QED
  BY <1>5, <1>6, <1>14, <1>15, AccountsLocal

LEMMA SaveOrderAccounts ==
    ASSUME NEW sure, Typing, Discipline(sure), Accounts, NEW w \in Workers, SaveOrder(w)
    PROVE  Accounts'
<1>1. PICK q : q = request[w]
  OBVIOUS
<1>2. PICK r : r = [ q EXCEPT !.phase = "commit" ]
  OBVIOUS
<1>3. /\ q.phase = "order" /\ request' = [ request EXCEPT ![w] = r ]
      /\ Writes(w, "status", Row(q.order, q.status)) /\ db' = db
  BY <1>1, <1>2 DEF SaveOrder, At
<1>4. PICK y : y = txn[w]
  OBVIOUS
<1>5. /\ FieldsOK(q) /\ CourseOK(q, db) /\ WritesLocked(q, y, holds[w], db)
      /\ Account(q, y, db)
  BY <1>1, <1>4, OfCall DEF Accounts
<1>6. PICK x : /\ txn' = [ txn EXCEPT ![w] = x ]
               /\ x.status = Over(Row(q.order, q.status), y.status)
               /\ \A table \in Tables \ { "status" } : x[table] = y[table]
  BY <1>3, <1>4, WrittenIs DEF Tables
<1>7. x.allocated = y.allocated /\ x.quantity = y.quantity /\ x.fulfillment = y.fulfillment
  BY <1>6 DEF Tables
<1>8. /\ DOMAIN r = Fields /\ r.phase = "commit"
      /\ \A field \in Fields \ { "phase" } : r[field] = q[field]
  BY <1>2, <1>5 DEF FieldsOK, Fields
<1>9. r.order = q.order /\ r.fulfillment = q.fulfillment /\ r.done = q.done
  BY <1>8 DEF Fields
<1>10. ~Placing(q, db) /\ ~Placing(r, db)
  BY <1>3, <1>5, <1>9 DEF CourseOK, Placing
<1>11. Cancels(r, x) = Cancels(q, y)
  <2>1. DOMAIN y.status = {}
    BY <1>3, <1>5, <1>10 DEF WritesLocked
  <2>2. DOMAIN x.status = { q.order } /\ x.status[q.order] = q.status
    BY <1>6, <2>1 DEF Over, Row
  <2>3. QED
    BY <1>3, <1>8, <2>1, <2>2 DEF Cancels
<1>12. /\ Taking(q, { "mark" }) = Taking(r, { "mark" })
       /\ Taking(q, { "ship", "mark" }) = Taking(r, { "ship", "mark" })
  BY <1>3, <1>8, <1>9 DEF Taking
<1>13. /\ q.phase \notin { "idle", "line" } \cup LinePhases
       /\ r.phase \notin { "idle", "line" } \cup LinePhases
       /\ r.phase \in { "update", "order", "commit" }
  BY <1>3, <1>8 DEF LinePhases
<1>14. Account(r, x, db)
  BY <1>5, <1>7, <1>9, <1>10, <1>11, <1>12, <1>13, AccountStays
<1>15. \A v \in Workers \ { w } : request[v].fulfillment = r.fulfillment => r.fulfillment = None
  BY <1>1, <1>9 DEF Accounts
<1>16. QED
  BY <1>3, <1>6, <1>14, <1>15, AccountsLocal

LEMMA FindAllocationsAccounts ==
    ASSUME NEW sure, Typing, Discipline(sure), Accounts, NEW w \in Workers, FindAllocations(w)
    PROVE  Accounts'
<1>1. PICK q : q = request[w]
  OBVIOUS
<1>2. PICK want : want = Locking(AllocationLock,
          ByStock({ k \in RowsOf(LinesOf(q.order), db.allocated) : db.allocated[k] > 0 }))
  OBVIOUS
<1>3. q.phase = "find" /\ q.fulfillment = None
  <2>1. q.phase = "find"
    BY <1>1 DEF FindAllocations, At
  <2>2. QED
    BY <1>1, <2>1, OfCall DEF CourseOK
<1>4. PICK r : r = [ q EXCEPT !.phase = "release", !.want = want ]
  OBVIOUS
<1>5. request' = [ request EXCEPT ![w] = r ] /\ txn' = txn /\ db' = db
  BY <1>1, <1>2, <1>3, <1>4 DEF FindAllocations, Continue
<1>6. PICK y : y = txn[w]
  OBVIOUS
<1>7. /\ FieldsOK(q) /\ CourseOK(q, db) /\ Account(q, y, db)
  BY <1>1, <1>6, OfCall DEF Accounts
<1>8. /\ DOMAIN r = Fields /\ r.phase = "release"
      /\ \A field \in Fields \ { "phase", "want" } : r[field] = q[field]
  BY <1>4, <1>7 DEF FieldsOK, Fields
<1>9. r.order = q.order /\ r.fulfillment = q.fulfillment /\ r.done = q.done
  BY <1>8 DEF Fields
<1>10. ~Placing(q, db) /\ ~Placing(r, db)
  BY <1>3, <1>7, <1>9 DEF CourseOK, Placing
<1>11. Cancels(r, y) = Cancels(q, y)
  BY <1>3, <1>8 DEF Cancels
<1>12. /\ Taking(q, { "mark" }) = Taking(r, { "mark" })
       /\ Taking(q, { "ship", "mark" }) = Taking(r, { "ship", "mark" })
  BY <1>3, <1>8, <1>9 DEF Taking
<1>13. /\ q.phase \notin { "idle", "line", "update", "order", "commit" } \cup LinePhases
       /\ r.phase \notin { "idle", "line" } \cup LinePhases
  BY <1>3, <1>8 DEF LinePhases
<1>14. Account(r, y, db)
  BY <1>7, <1>9, <1>10, <1>11, <1>12, <1>13, AccountStays
<1>15. \A v \in Workers \ { w } : request[v].fulfillment = r.fulfillment => r.fulfillment = None
  BY <1>1, <1>9 DEF Accounts
<1>16. QED
  BY <1>5, <1>6, <1>14, <1>15, AccountsLocal

LEMMA ReleaseAllocationsAccounts ==
    ASSUME NEW sure, Typing, Discipline(sure), Accounts, NEW w \in Workers, ReleaseAllocations(w)
    PROVE  Accounts'
<1>1. PICK q : q = request[w]
  OBVIOUS
<1>2. PICK zeros :
        zeros = [ k \in { j \in DOMAIN db.allocated : AllocationLock(j) \in holds[w] } |-> 0 ]
  OBVIOUS
<1>3. q.phase = "release" /\ q.fulfillment = None
  <2>1. q.phase = "release"
    BY <1>1 DEF ReleaseAllocations, At
  <2>2. QED
    BY <1>1, <2>1, OfCall DEF CourseOK
<1>4. PICK r : r = [ q EXCEPT !.phase = "order", !.status = "canceled",
                              !.want = << OrderLock(q.order) >> ]
  OBVIOUS
<1>5. /\ request' = [ request EXCEPT ![w] = r ] /\ Writes(w, "allocated", zeros) /\ db' = db
  BY <1>1, <1>2, <1>3, <1>4 DEF ReleaseAllocations, Continue
<1>6. PICK y : y = txn[w]
  OBVIOUS
<1>7. /\ FieldsOK(q) /\ CourseOK(q, db) /\ Account(q, y, db)
  BY <1>1, <1>6, OfCall DEF Accounts
<1>8. PICK x : /\ txn' = [ txn EXCEPT ![w] = x ]
               /\ \A table \in Tables \ { "allocated" } : x[table] = y[table]
  BY <1>5, <1>6, WrittenIs DEF Tables
<1>9. x.quantity = y.quantity /\ x.fulfillment = y.fulfillment
  BY <1>8 DEF Tables
<1>10. /\ DOMAIN r = Fields /\ r.phase = "order" /\ r.status = "canceled"
       /\ \A field \in Fields \ { "phase", "status", "want" } : r[field] = q[field]
  BY <1>4, <1>7 DEF FieldsOK, Fields
<1>11. r.order = q.order /\ r.fulfillment = q.fulfillment /\ r.done = q.done
  BY <1>10 DEF Fields
<1>12. ~Placing(r, db) /\ Cancels(r, x)
  BY <1>3, <1>7, <1>10, <1>11 DEF CourseOK, Placing, Cancels
<1>13. r.done = << >> /\ DOMAIN x.fulfillment = {}
  BY <1>3, <1>7, <1>9, <1>11 DEF Account, LinePhases
<1>14. Paid(x, db, r.done)
  BY <1>3, <1>7, <1>9, <1>11 DEF Account, Paid, Taking
<1>15. Taking(r, { "mark" }) = r.done
  BY <1>10 DEF Taking
<1>16. Account(r, x, db)
  <2>1. r.phase \notin { "line" } \cup LinePhases
    BY <1>10 DEF LinePhases
  <2>2. /\ \A i \in DOMAIN r.done : OrderOf[r.done[i].line] = r.order
        /\ r.fulfillment \in Nat \ DOMAIN db.fulfillment
    BY <1>7, <1>11 DEF Account
  <2>3. QED
    BY <1>12, <1>13, <1>14, <1>15, <2>1, <2>2 DEF Account
<1>17. \A v \in Workers \ { w } : request[v].fulfillment = r.fulfillment => r.fulfillment = None
  BY <1>1, <1>11 DEF Accounts
<1>18. QED
  BY <1>5, <1>8, <1>16, <1>17, AccountsLocal

-----------------------------------------------------------------------------
(* What is committed is accounted for.                                     *)

LEMMA SentNat ==
    ASSUME NEW rows, TableOK("fulfillment", rows), IsFiniteSet(Sent(rows)), NEW field, NEW v
    PROVE  SentBy(field, v, rows) \in Nat
<1>1. PICK S : S = { p \in Sent(rows) : rows[p[1]].lines[p[2]][field] = v }
  OBVIOUS
<1>2. PICK g : g = [ p \in Sent(rows) |-> rows[p[1]].lines[p[2]].quantity ]
  OBVIOUS
<1>3. \A p \in Sent(rows) : /\ p[1] \in DOMAIN rows /\ p[2] \in DOMAIN rows[p[1]].lines
                            /\ rows[p[1]].lines[p[2]] \in Item
  BY DEF Sent, TableOK, FulfillmentRow
<1>4. IsFiniteSet(S) /\ \A p \in S : g[p] \in Nat
  BY <1>1, <1>2, <1>3, FS_Subset DEF Item
<1>5. SentBy(field, v, rows) = SumFunctionOnSet(g, S)
  BY <1>1, <1>2 DEF SentBy
<1>6. QED
  BY <1>4, <1>5, SumNat

LEMMA CommittedSent ==
    ASSUME NEW r, NEW x, NEW d, NEW rows, FieldsOK(r), r.phase = "commit", Balanced(d), DbOK(d),
           Account(r, x, d), rows = Over(x.fulfillment, d.fulfillment)
    PROVE  /\ DOMAIN rows \subseteq DOMAIN d.fulfillment \cup { r.fulfillment }
           /\ DOMAIN rows \subseteq Nat \ { None }
           /\ IsFiniteSet(DOMAIN rows) /\ IsFiniteSet(Sent(rows))
           /\ \A f \in DOMAIN rows : rows[f].status \in Standing
           /\ \A field, v : SentBy(field, v, rows) = SentBy(field, v, d.fulfillment)
                                                       + By(field, v, r.done)
<1>1. PICK had : had = d.fulfillment
  OBVIOUS
<1>2. /\ TableOK("fulfillment", had) /\ IsFiniteSet(DOMAIN had) /\ IsFiniteSet(Sent(had))
      /\ DOMAIN had \subseteq Nat \ { None } /\ \A f \in DOMAIN had : had[f].status \in Standing
  BY <1>1 DEF DbOK, WritesOK, Tables, Balanced
<1>3. r.phase \notin { "line" } \cup LinePhases
  BY DEF LinePhases
<1>4. CASE DOMAIN x.fulfillment = {}
  <2>1. r.done = << >>
    BY <1>3, <1>4 DEF Account
  <2>2. DOMAIN rows = DOMAIN had /\ \A f \in DOMAIN had : rows[f] = had[f]
    BY <1>1, <1>4 DEF Over
  <2>3. Sent(rows) = Sent(had)
    BY <2>2 DEF Sent
  <2>4. ASSUME NEW field, NEW v
        PROVE  SentBy(field, v, rows) = SentBy(field, v, had) + By(field, v, r.done)
    <3>1. By(field, v, r.done) = 0
      BY <2>1, ByEmpty
    <3>2. SentBy(field, v, rows) = SentBy(field, v, had)
      BY <1>2, <2>2, SentSame
    <3>3. SentBy(field, v, had) \in Nat
      BY <1>2, SentNat
    <3>4. QED
      BY <3>1, <3>2, <3>3
  <2>5. QED
    BY <1>1, <1>2, <2>2, <2>3, <2>4
<1>5. CASE DOMAIN x.fulfillment # {}
  <2>1. PICK f : f = r.fulfillment
    OBVIOUS
  <2>2. PICK lines : lines = r.done
    OBVIOUS
  <2>3. /\ DOMAIN x.fulfillment = { f } /\ f # None /\ f \in Nat /\ f \notin DOMAIN had
        /\ \E status \in Standing :
             x.fulfillment[f] = [ order |-> r.order, status |-> status, lines |-> lines ]
    BY <1>1, <1>5, <2>1, <2>2 DEF Account
  <2>4. lines \in Seq(Item)
    BY <2>2 DEF FieldsOK
  <2>5. /\ DOMAIN rows = DOMAIN had \cup { f } /\ \A g \in DOMAIN had : rows[g] = had[g]
        /\ rows[f].lines = lines /\ rows[f].status \in Standing
    BY <1>1, <2>3 DEF Over
  <2>6. ASSUME NEW field, NEW v
        PROVE  /\ IsFiniteSet(Sent(rows))
               /\ SentBy(field, v, rows) = SentBy(field, v, had) + By(field, v, lines)
    <3>1. /\ TableOK("fulfillment", had) /\ IsFiniteSet(Sent(had)) /\ f \notin DOMAIN had
          /\ lines \in Seq(Item) /\ rows[f].lines = lines
          /\ DOMAIN rows = DOMAIN had \cup { f } /\ \A e \in DOMAIN had : rows[e] = had[e]
      BY <1>2, <2>3, <2>4, <2>5
    <3>2. QED
      BY ONLY <3>1, SentAdds
  <2>7. IsFiniteSet(DOMAIN rows)
    BY <1>2, <2>5, FS_AddElement
  <2>8. QED
    BY <1>1, <1>2, <2>1, <2>2, <2>3, <2>5, <2>6, <2>7
<1>6. QED
  BY <1>4, <1>5

\* A line of the order of the call that commits, and any other line.
LEMMA CommittedLine ==
    ASSUME NEW sure, NEW r, NEW x, NEW h, NEW d, NEW rows, NEW l \in Lines, FieldsOK(r),
           r.phase = "commit", WritesLocked(r, x, h, d), Freed(r, x, d), WritesOK(x), DbOK(d),
           RowsOK(sure, d), Balanced(d), Account(r, x, d), rows = Over(x.allocated, d.allocated),
           NEW had, had = SentBy("line", l, d.fulfillment),
           NEW more, more = By("line", l, r.done)
    PROVE  /\ had \in Nat /\ more \in Nat
           /\ OrderOf[l] # r.order => OfLine(l, rows) = OfLine(l, d.allocated) /\ more = 0
           /\ OrderOf[l] = r.order => \/ OfLine(l, rows) = 0 /\ ~Placing(r, d)
                                      \/ OfLine(l, rows) + had + more = Ordered[l]
<1>1. /\ TableOK("allocated", x.allocated) /\ TableOK("allocated", d.allocated)
      /\ TableOK("fulfillment", d.fulfillment)
      /\ TableOK("allocated", rows)
  BY Sees DEF DbOK, WritesOK, Tables
<1>2. /\ \A k \in DOMAIN x.allocated : OrderOf[k[1]] = r.order
      /\ DOMAIN rows = DOMAIN x.allocated \cup DOMAIN d.allocated
      /\ \A k \in DOMAIN rows :
           rows[k] = IF k \in DOMAIN x.allocated THEN x.allocated[k] ELSE d.allocated[k]
  BY DEF WritesLocked, Over
<1>3. had \in Nat
  BY <1>1, SentNat DEF Balanced
<1>4. r.done \in Seq(Item) /\ \A i \in DOMAIN r.done : OrderOf[r.done[i].line] = r.order
  BY DEF FieldsOK, Account
<1>5. more \in Nat
  BY <1>4, ByNat
<1>6. PICK m, n, p : m = OfLine(l, rows) /\ n = OfLine(l, d.allocated) /\ p = OfLine(l, x.allocated)
  OBVIOUS
<1>7. m \in Nat /\ n \in Nat /\ p \in Nat
  BY <1>1, <1>6, OfLineNat
<1>8. (\A k \in DOMAIN x.allocated : k[1] # l) => m = n
  <2>1. SUFFICES ASSUME \A k \in DOMAIN x.allocated : k[1] # l PROVE m = n
    OBVIOUS
  <2>2. /\ \A k \in DOMAIN d.allocated : k[1] = l => k \in DOMAIN rows /\ rows[k] = d.allocated[k]
        /\ \A k \in DOMAIN rows : k[1] = l => k \in DOMAIN d.allocated
    BY <1>2, <2>1
  <2>3. QED
    BY <1>1, <1>6, <2>2, OfLineSame
<1>9. (\A k \in DOMAIN d.allocated : k[1] = l => k \in DOMAIN x.allocated) => m = p
  <2>1. SUFFICES ASSUME \A k \in DOMAIN d.allocated : k[1] = l => k \in DOMAIN x.allocated
                 PROVE  m = p
    OBVIOUS
  <2>2. /\ \A k \in DOMAIN x.allocated : k[1] = l => k \in DOMAIN rows /\ rows[k] = x.allocated[k]
        /\ \A k \in DOMAIN rows : k[1] = l => k \in DOMAIN x.allocated
    BY <1>2, <2>1
  <2>3. QED
    BY <1>1, <1>6, <2>2, OfLineSame
<1>10. Taking(r, { "ship", "mark" }) = r.done
  BY DEF Taking
<1>11. CASE OrderOf[l] # r.order
  <2>1. more = 0
    BY <1>4, <1>11, ByOthers
  <2>2. m = n
    BY <1>2, <1>8, <1>11
  <2>3. QED
    BY <1>3, <1>6, <1>11, <2>1, <2>2
<1>12. CASE OrderOf[l] = r.order /\ Placing(r, d)
  <2>1. d.status[OrderOf[l]] = "absent"
    BY <1>12 DEF Placing
  <2>2. had = 0
    BY <2>1 DEF Balanced
  <2>3. \A k \in DOMAIN d.allocated : k[1] # l
    BY <2>1 DEF RowsOK
  <2>4. m = p
    BY <1>9, <2>3
  <2>5. Allocated(r, x) /\ r.done = << >>
    BY <1>12 DEF Account
  <2>6. r.items = << >> /\ l \in LinesOf(r.order)
    BY <1>12, <2>5 DEF Allocated, LinesOf
  <2>7. p = Ordered[l]
    BY <1>6, <2>5, <2>6 DEF Allocated
  <2>8. more = 0
    BY <2>5, ByEmpty
  <2>9. QED
    BY <1>3, <1>5, <1>6, <1>7, <1>12, <2>2, <2>4, <2>7, <2>8
<1>13. CASE OrderOf[l] = r.order /\ Cancels(r, x)
  <2>1. \A k \in RowsOf({ l }, rows) : rows[k] = 0
    BY <1>2, <1>13 DEF RowsOf, Freed
  <2>2. m = 0
    BY <1>1, <1>6, <2>1, OfLineNat
  <2>3. ~Placing(r, d)
    BY <1>13 DEF Freed
  <2>4. QED
    BY <1>3, <1>5, <1>6, <1>13, <2>2, <2>3
<1>14. CASE OrderOf[l] = r.order /\ ~Placing(r, d) /\ ~Cancels(r, x)
  <2>1. d.status[OrderOf[l]] # "absent"
    BY <1>14 DEF Placing
  <2>2. n = 0 \/ n + had = Ordered[l]
    BY <1>6, <2>1 DEF Balanced
  <2>3. l \in LinesOf(r.order) /\ Lowered(r.order, x, d, r.done)
    BY <1>10, <1>14 DEF Account, LinesOf
  <2>4. \/ more = 0 /\ \A k \in DOMAIN x.allocated : k[1] # l
        \/ /\ \A k \in DOMAIN d.allocated : k[1] = l => k \in DOMAIN x.allocated
           /\ \/ p = 0
              \/ p + more = n
    BY <1>6, <2>3 DEF Lowered
  <2>5. (more = 0 /\ m = n) \/ (m = p /\ (p = 0 \/ p + more = n))
    BY <1>8, <1>9, <2>4
  <2>6. m = 0 \/ m + had + more = Ordered[l]
    BY ONLY <1>3, <1>5, <1>7, <2>2, <2>5
  <2>7. QED
    BY <1>3, <1>5, <1>6, <1>14, <2>6
<1>15. QED
  BY <1>11, <1>12, <1>13, <1>14

LEMMA CommittedBalances ==
    ASSUME NEW sure, NEW r, NEW x, NEW h, NEW d, NEW e, FieldsOK(r), r.phase = "commit",
           WritesLocked(r, x, h, d), Freed(r, x, d), WritesOK(x), DbOK(d), RowsOK(sure, d),
           Balanced(d), Account(r, x, d), e.allocated = Over(x.allocated, d.allocated),
           e.quantity = Over(x.quantity, d.quantity), e.status = Over(x.status, d.status),
           e.fulfillment = Over(x.fulfillment, d.fulfillment)
    PROVE  Balanced(e)
<1>1. /\ DOMAIN e.fulfillment \subseteq Nat \ { None }
      /\ IsFiniteSet(DOMAIN e.fulfillment) /\ IsFiniteSet(Sent(e.fulfillment))
      /\ \A f \in DOMAIN e.fulfillment : e.fulfillment[f].status \in Standing
      /\ \A field, v : SentBy(field, v, e.fulfillment) = SentBy(field, v, d.fulfillment)
                                                           + By(field, v, r.done)
  <2>1. PICK rows : rows = e.fulfillment
    OBVIOUS
  <2>2. rows = Over(x.fulfillment, d.fulfillment)
    BY <2>1
  <2>3. /\ DOMAIN rows \subseteq Nat \ { None }
        /\ IsFiniteSet(DOMAIN rows) /\ IsFiniteSet(Sent(rows))
        /\ \A f \in DOMAIN rows : rows[f].status \in Standing
        /\ \A field, v : SentBy(field, v, rows) = SentBy(field, v, d.fulfillment)
                                                    + By(field, v, r.done)
    BY <2>2, CommittedSent
  <2>4. QED
    BY <2>1, <2>3
<1>2. TableOK("fulfillment", d.fulfillment) /\ IsFiniteSet(Sent(d.fulfillment))
  BY DEF DbOK, WritesOK, Tables, Balanced
<1>3. r.done \in Seq(Item)
  BY DEF FieldsOK
<1>4. ASSUME NEW s \in Stocks
      PROVE  e.quantity[s] + SentBy("stock", s, e.fulfillment) = Initial[s]
  <2>1. PICK had, more : had = SentBy("stock", s, d.fulfillment) /\ more = By("stock", s, r.done)
    OBVIOUS
  <2>2. had \in Nat /\ more \in Nat
    BY <1>2, <1>3, <2>1, SentNat, ByNat
  <2>3. SentBy("stock", s, e.fulfillment) = had + more
    BY <1>1, <2>1
  <2>4. d.quantity[s] + had = Initial[s]
    BY <2>1 DEF Balanced
  <2>5. PICK n, m : n = e.quantity[s] /\ m = d.quantity[s]
    OBVIOUS
  <2>6. n \in Nat /\ m \in Nat
    <3>1. e.quantity \in [ Stocks -> Nat ]
      BY Sees
    <3>2. d.quantity \in [ Stocks -> Nat ]
      BY DEF DbOK
    <3>3. QED
      BY <2>5, <3>1, <3>2
  <2>7. n = IF s \in DOMAIN x.quantity THEN x.quantity[s] ELSE m
    BY <2>5, Sees
  <2>8. Taking(r, { "mark" }) = r.done
    BY DEF Taking
  <2>9. \/ s \in DOMAIN x.quantity /\ x.quantity[s] + more = m
        \/ s \notin DOMAIN x.quantity /\ more = 0
    BY <2>1, <2>5, <2>8 DEF Account, Paid
  <2>10. n + more = m
    BY <2>2, <2>6, <2>7, <2>9
  <2>11. n + (had + more) = m + had
    BY ONLY <2>2, <2>6, <2>10
  <2>12. QED
    BY <2>3, <2>4, <2>5, <2>11
<1>5. ASSUME NEW l \in Lines
      PROVE  \/ e.status[OrderOf[l]] = "absent" /\ SentBy("line", l, e.fulfillment) = 0
             \/ e.status[OrderOf[l]] # "absent" /\ OfLine(l, e.allocated) = 0
             \/ /\ e.status[OrderOf[l]] # "absent"
                /\ OfLine(l, e.allocated) + SentBy("line", l, e.fulfillment) = Ordered[l]
  <2>1. PICK had, more : had = SentBy("line", l, d.fulfillment) /\ more = By("line", l, r.done)
    OBVIOUS
  <2>2. PICK m, n : m = OfLine(l, e.allocated) /\ n = OfLine(l, d.allocated)
    OBVIOUS
  <2>3. /\ had \in Nat /\ more \in Nat
        /\ OrderOf[l] # r.order => m = n /\ more = 0
        /\ OrderOf[l] = r.order => \/ m = 0 /\ ~Placing(r, d)
                                   \/ m + had + more = Ordered[l]
    BY <2>1, <2>2, CommittedLine
  <2>4. SentBy("line", l, e.fulfillment) = had + more
    BY <1>1, <2>1
  <2>5. PICK o \in Orders : o = OrderOf[l]
    BY StockAssumption
  <2>6. e.status[o] = IF o \in DOMAIN x.status THEN x.status[o] ELSE d.status[o]
    BY DEF Over, DbOK
  <2>7. /\ \A p \in DOMAIN x.status : p = r.order /\ x.status[p] # "absent"
        /\ Placing(r, d) => r.order \in DOMAIN x.status
    BY DEF WritesLocked
  <2>8. m \in Nat
    BY <2>2, Sees, OfLineNat
  <2>9. CASE o = r.order
    <3>1. e.status[o] # "absent"
      BY <2>6, <2>7, <2>9 DEF Placing
    <3>2. m = 0 \/ m + (had + more) = Ordered[l]
      BY <2>3, <2>5, <2>8, <2>9
    <3>3. QED
      BY <2>2, <2>4, <2>5, <3>1, <3>2
  <2>10. CASE o # r.order
    <3>1. e.status[o] = d.status[o] /\ m = n /\ had + more = had
      BY <2>3, <2>5, <2>6, <2>7, <2>10
    <3>2. \/ d.status[o] = "absent" /\ had = 0
          \/ d.status[o] # "absent" /\ n = 0
          \/ d.status[o] # "absent" /\ n + had = Ordered[l]
      BY <2>1, <2>2, <2>5 DEF Balanced
    <3>3. QED
      BY <2>2, <2>4, <2>5, <3>1, <3>2
  <2>11. QED
    BY <2>9, <2>10
<1>6. QED
  BY <1>1, <1>4, <1>5 DEF Balanced

\* What the others took they still account for: nobody else wrote those rows.
LEMMA OthersPaid ==
    ASSUME NEW r, NEW h, NEW d, NEW e, Changed(r, h, d, e), NEW q, NEW y, NEW g,
           WritesLocked(q, y, g, d), g \cap h = {}, NEW items, Paid(y, d, items)
    PROVE  Paid(y, e, items)
<1>1. \A s \in Stocks : s \in DOMAIN y.quantity => e.quantity[s] = d.quantity[s]
  BY DEF Changed, WritesLocked
<1>2. QED
  BY <1>1 DEF Paid

LEMMA OthersLowered ==
    ASSUME NEW r, NEW h, NEW d, NEW e, Changed(r, h, d, e), NEW q, NEW y, NEW g,
           WritesLocked(q, y, g, d), g \cap h = {}, q.phase # "idle", ~Placing(q, d),
           DbOK(d), NEW items, Lowered(q.order, y, d, items)
    PROVE  Lowered(q.order, y, e, items)
<1>1. SUFFICES ASSUME NEW l \in LinesOf(q.order)
      PROVE  \/ By("line", l, items) = 0 /\ \A k \in DOMAIN y.allocated : k[1] # l
             \/ /\ \A k \in DOMAIN e.allocated : k[1] = l => k \in DOMAIN y.allocated
                /\ \/ OfLine(l, y.allocated) = 0
                   \/ OfLine(l, y.allocated) + By("line", l, items) = OfLine(l, e.allocated)
  BY DEF Lowered
<1>2. CASE \A k \in DOMAIN d.allocated : k[1] = l => k \in DOMAIN y.allocated
  <2>1. OrderOf[l] = q.order /\ d.status[q.order] # "absent"
    BY DEF LinesOf, Placing
  <2>2. \A k \in DOMAIN e.allocated : k[1] = l => k \in DOMAIN d.allocated
    BY <2>1 DEF Changed, Placing
  <2>3. \A k \in DOMAIN y.allocated : AllocationLock(k) \in g
    BY DEF WritesLocked
  <2>4. \A k \in DOMAIN d.allocated :
          k[1] = l => k \in DOMAIN e.allocated /\ e.allocated[k] = d.allocated[k]
    BY <1>2, <2>3 DEF Changed
  <2>5. TableOK("allocated", d.allocated)
    BY DEF DbOK, WritesOK, Tables
  <2>6. OfLine(l, e.allocated) = OfLine(l, d.allocated)
    BY <2>2, <2>4, <2>5, OfLineSame
  <2>7. QED
    BY <1>2, <2>2, <2>6 DEF Lowered
<1>3. CASE ~ \A k \in DOMAIN d.allocated : k[1] = l => k \in DOMAIN y.allocated
  BY <1>3 DEF Lowered
<1>4. QED
  BY <1>2, <1>3

LEMMA OthersAccount ==
    ASSUME NEW sure, NEW r, NEW h, NEW d, NEW e, Changed(r, h, d, e), NEW q, NEW y, NEW g,
           WritesLocked(q, y, g, d), Savepoint(sure, q, y, g, d), CourseOK(q, d), g \cap h = {},
           DbOK(d), Placing(q, e) = Placing(q, d), Account(q, y, d),
           q.fulfillment \in Nat \ DOMAIN e.fulfillment
    PROVE  Account(q, y, e)
<1>1. Paid(y, e, Taking(q, { "mark" }))
  <2>1. Paid(y, d, Taking(q, { "mark" }))
    BY DEF Account
  <2>2. QED
    BY <2>1, OthersPaid
<1>2. ASSUME q.phase # "idle", ~Placing(q, e), ~Cancels(q, y)
      PROVE  Lowered(q.order, y, e, Taking(q, { "ship", "mark" }))
  <2>1. ~Placing(q, d) /\ Lowered(q.order, y, d, Taking(q, { "ship", "mark" }))
    BY <1>2 DEF Account
  <2>2. QED
    BY <1>2, <2>1, OthersLowered
<1>3. ASSUME q.phase \in LinePhases
      PROVE  /\ DOMAIN q.base.fulfillment = {}
             /\ Paid(q.base, e, q.done)
             /\ Lowered(q.order, q.base, e, q.done)
  <2>1. PICK b, kept : b = q.base /\ kept = q.kept
    OBVIOUS
  <2>2. PICK done : done = q.done
    OBVIOUS
  <2>3. /\ WritesLocked(q, b, kept, d) /\ kept \subseteq g
        /\ DOMAIN b.fulfillment = {} /\ Paid(b, d, done) /\ Lowered(q.order, b, d, done)
    BY <1>3, <2>1, <2>2 DEF Savepoint, Account
  <2>4. kept \cap h = {}
    BY <2>3
  <2>5. q.phase # "idle" /\ q.phase \notin { "sum", "allocate", "commit" }
    BY <1>3 DEF LinePhases
  <2>6. ~Placing(q, d)
    BY <2>5 DEF CourseOK
  <2>7. Paid(b, e, done)
    BY <2>3, <2>4, OthersPaid
  <2>8. Lowered(q.order, b, e, done)
    BY <2>3, <2>4, <2>5, <2>6, OthersLowered
  <2>9. QED
    BY <2>1, <2>2, <2>3, <2>7, <2>8
<1>4. QED
  BY <1>1, <1>2, <1>3 DEF Account

LEMMA CommitAccounts ==
    ASSUME NEW sure, Typing, Discipline(sure), Accounts, NEW w \in Workers, Commit(w)
    PROVE  Accounts'
<1>1. PICK q, x, h : q = request[w] /\ x = txn[w] /\ h = holds[w]
  OBVIOUS
<1>2. PICK e : e = [ table \in Tables |-> Seen(w, table) ]
  OBVIOUS
<1>3. PICK d : d = db
  OBVIOUS
<1>4. /\ FieldsOK(q) /\ CourseOK(q, d) /\ WritesLocked(q, x, h, d) /\ Freed(q, x, d)
      /\ WritesOK(x) /\ DbOK(d) /\ RowsOK(sure, d)
  BY <1>1, <1>3, OfCall
<1>5. Balanced(d) /\ Account(q, x, d)
  BY <1>1, <1>3 DEF Accounts
<1>6. q.phase = "commit" /\ q.then = "idle"
  BY <1>1, <1>4 DEF Commit, At, CourseOK
<1>7. /\ db' = e /\ txn' = [ txn EXCEPT ![w] = NoWrites ]
      /\ request' = [ request EXCEPT ![w] = Idle ]
  BY <1>1, <1>2, <1>6 DEF Commit, Continue
<1>8. /\ e.allocated = Over(x.allocated, d.allocated) /\ e.status = Over(x.status, d.status)
      /\ e.quantity = Over(x.quantity, d.quantity)
      /\ e.fulfillment = Over(x.fulfillment, d.fulfillment)
  BY <1>1, <1>2, <1>3 DEF Seen, Tables
<1>9. Changed(q, h, d, e)
  BY <1>4, <1>8, Changes
<1>10. Balanced(e)
  BY <1>4, <1>5, <1>6, <1>8, CommittedBalances
<1>11. Account(Idle, NoWrites, e) /\ Idle.fulfillment = None
  BY <1>10, AccountIdle
<1>12. DOMAIN e.fulfillment \subseteq DOMAIN d.fulfillment \cup { q.fulfillment }
       /\ DOMAIN e.fulfillment \subseteq Nat \ { None }
  <2>1. PICK rows : rows = e.fulfillment
    OBVIOUS
  <2>2. rows = Over(x.fulfillment, d.fulfillment)
    BY <1>8, <2>1
  <2>3. DOMAIN rows \subseteq DOMAIN d.fulfillment \cup { q.fulfillment }
    BY <1>4, <1>5, <1>6, <2>2, CommittedSent
  <2>4. QED
    BY <1>10, <2>1, <2>3 DEF Balanced
<1>13. ASSUME NEW v \in Workers \ { w }
       PROVE  Account(request[v], txn[v], e)
  <2>1. PICK p, y, g : p = request[v] /\ y = txn[v] /\ g = holds[v]
    OBVIOUS
  <2>2. /\ FieldsOK(p) /\ CourseOK(p, d) /\ WritesLocked(p, y, g, d) /\ Savepoint(sure, p, y, g, d)
        /\ g \cap h = {} /\ Account(p, y, d)
    BY <1>1, <1>3, <2>1 DEF Typing, RequestOK, Discipline, CallOK, Accounts
  <2>3. p.phase # "idle" => p.order \in Orders
    BY <2>2 DEF FieldsOK
  <2>4. q.phase # "idle"
    BY <1>6
  <2>5. Placing(p, e) = Placing(p, d)
    BY <1>9, <2>2, <2>3, <2>4, OthersPlace
  <2>6. p.fulfillment \in Nat \ DOMAIN d.fulfillment
    BY <2>2 DEF Account
  <2>7. p.fulfillment = q.fulfillment => p.fulfillment = None
    BY <1>1, <2>1 DEF Accounts
  <2>8. p.fulfillment \in Nat \ DOMAIN e.fulfillment
    BY <1>12, <2>6, <2>7
  <2>9. Account(p, y, e)
    BY <1>4, <1>9, <2>2, <2>5, <2>8, OthersAccount
  <2>10. QED
    BY <2>1, <2>9
<1>14. DOMAIN request = Workers /\ DOMAIN txn = Workers
  BY DEF Typing
<1>15. /\ \A v \in Workers : request'[v] = IF v = w THEN Idle ELSE request[v]
       /\ \A v \in Workers : txn'[v] = IF v = w THEN NoWrites ELSE txn[v]
  BY <1>7, <1>14
<1>16. Balanced(db)'
  BY <1>7, <1>10 DEF Balanced, OfLine, RowsOf
<1>17. (\A v \in Workers : Account(request[v], txn[v], db))'
  <2>1. SUFFICES ASSUME NEW v \in Workers PROVE Account(request[v], txn[v], db)'
    OBVIOUS
  <2>2. PICK p, y : p = request'[v] /\ y = txn'[v] /\ Account(p, y, e)
    <3>1. CASE v = w
      BY <1>11, <1>15, <3>1
    <3>2. CASE v # w
      BY <1>13, <1>15, <3>2
    <3>3. QED
      BY <3>1, <3>2
  <2>3. /\ Paid(txn[v], db, Taking(request[v], { "mark" }))'
        /\ (request[v].phase \in LinePhases => Paid(request[v].base, db, request[v].done))'
    BY <1>7, <2>2 DEF Account, Paid, Taking
  <2>4. /\ (request[v].phase # "idle" /\ ~Placing(request[v], db) /\ ~Cancels(request[v], txn[v]) =>
             Lowered(request[v].order, txn[v], db, Taking(request[v], { "ship", "mark" })))'
        /\ (request[v].phase \in LinePhases =>
             Lowered(request[v].order, request[v].base, db, request[v].done))'
    BY <1>7, <2>2 DEF Account, Lowered, Taking, Placing, Cancels
  <2>5. (Placing(request[v], db) => Allocated(request[v], txn[v]))'
    BY <1>7, <2>2 DEF Account, Allocated, Placing
  <2>6. QED
    BY <1>7, <2>2, <2>3, <2>4, <2>5 DEF Account, Placing, Cancels
<1>18. (\A v, u \in Workers :
          v # u /\ request[v].fulfillment = request[u].fulfillment
            => request[v].fulfillment = None)'
  BY <1>11, <1>15 DEF Accounts
<1>19. QED
  BY <1>16, <1>17, <1>18 DEF Accounts

LEMMA StepAccounts ==
    ASSUME NEW sure, Typing, Discipline(sure), Accounts, NEW w \in Workers, Step(w)
    PROVE  Accounts'
<1>1. CASE \/ ReadFulfillment(w) \/ RestockLine(w) \/ IncreaseStock(w) \/ RestockedAll(w)
           \/ Unfulfill(w) \/ SaveFulfillment(w) \/ SaveDraft(w)
  <2>1. request[w].phase \in { "place", "read", "restock", "increase", "unfulfill", "save" }
    BY <1>1 DEF ReadFulfillment, RestockLine, IncreaseStock, RestockedAll, Unfulfill,
                SaveFulfillment, SaveDraft, At
  <2>2. CourseOK(request[w], db)
    BY OfCall
  <2>3. QED
    BY <2>1, <2>2 DEF CourseOK, LinePhases
<1>2. CASE \/ Lock(w) \/ Commit(w) \/ SumAllocations(w) \/ AllocateStock(w) \/ CleanLines(w)
           \/ FulfillLine(w) \/ Deallocate(w) \/ TooFewAllocated(w)
  BY <1>2, LockAccounts, CommitAccounts, SumAllocationsAccounts, AllocateStockAccounts,
     CleanLinesAccounts, FulfillLineAccounts, DeallocateAccounts, TooFewAllocatedAccounts
<1>3. CASE \/ ZeroAllocations(w) \/ DecreaseStock(w) \/ FulfillOrderLine(w) \/ CreateFulfillment(w)
           \/ UpdateOrderStatus(w) \/ SaveOrder(w) \/ FindAllocations(w) \/ ReleaseAllocations(w)
  BY <1>3, ZeroAllocationsAccounts, DecreaseStockAccounts, FulfillOrderLineAccounts,
     CreateFulfillmentAccounts, UpdateOrderStatusAccounts, SaveOrderAccounts,
     FindAllocationsAccounts, ReleaseAllocationsAccounts
<1>4. CASE NotAllocated(w) \/ TooMany(w)
  BY <1>4, CallFailsAccounts DEF NotAllocated, TooMany
<1>5. CASE NotEnough(w)
  <2>1. request[w].phase \in LinePhases /\ LineFails(w)
    BY <1>5 DEF NotEnough, At, LinePhases
  <2>2. QED
    BY <2>1, LineFailsAccounts
<1>6. QED
  BY <1>1, <1>2, <1>3, <1>4, <1>5 DEF Step

LEMMA InitAccounts == Init => Accounts
<1> SUFFICES ASSUME Init PROVE Accounts
  OBVIOUS
<1>1. PICK d : d = db
  OBVIOUS
<1>2. /\ d.quantity = Initial /\ DOMAIN d.allocated = {} /\ DOMAIN d.fulfillment = {}
  BY <1>1 DEF Init, NoRows
<1>3. \A o \in Orders : d.status[o] = IF o \in Drafts THEN "draft" ELSE "absent"
  BY <1>1 DEF Init
<1>4. Sent(d.fulfillment) = {}
  BY <1>2 DEF Sent
<1>5. IsFiniteSet(DOMAIN d.fulfillment) /\ IsFiniteSet(Sent(d.fulfillment))
  BY <1>2, <1>4, FS_EmptySet
<1>6. \A field, v : SentBy(field, v, d.fulfillment) = 0
  <2>1. SUFFICES ASSUME NEW field, NEW v PROVE SentBy(field, v, d.fulfillment) = 0
    OBVIOUS
  <2>2. { p \in Sent(d.fulfillment) : d.fulfillment[p[1]].lines[p[2]][field] = v } = {}
    BY <1>4
  <2>3. QED
    BY <2>2, SumEmpty DEF SentBy
<1>7. \A l : OfLine(l, d.allocated) = 0
  <2>1. SUFFICES ASSUME NEW l PROVE OfLine(l, d.allocated) = 0
    OBVIOUS
  <2>2. RowsOf({ l }, d.allocated) = {}
    BY <1>2 DEF RowsOf
  <2>3. QED
    BY <2>2, SumEmpty DEF OfLine
<1>8. \A s \in Stocks : d.quantity[s] + SentBy("stock", s, d.fulfillment) = Initial[s]
  <2>1. SUFFICES ASSUME NEW s \in Stocks
                 PROVE  d.quantity[s] + SentBy("stock", s, d.fulfillment) = Initial[s]
    OBVIOUS
  <2>2. d.quantity[s] = Initial[s] /\ Initial[s] \in Nat
    BY <1>2, StockAssumption
  <2>3. QED
    BY <1>6, <2>2
<1>9. Balanced(d)
  BY <1>2, <1>5, <1>6, <1>7, <1>8 DEF Balanced
<1>10. Account(Idle, NoWrites, d) /\ Idle.fulfillment = None
  BY <1>9, AccountIdle
<1>11. \A w \in Workers : request[w] = Idle /\ txn[w] = NoWrites
  BY DEF Init
<1>12. QED
  BY <1>1, <1>9, <1>10, <1>11 DEF Accounts

LEMMA NextAccounts ==
    ASSUME NEW sure, Ours, Typing, Discipline(sure), Accounts, [ Next ]_vars
    PROVE  Accounts'
<1>1. CASE Next
  <2>1. PICK w \in Workers :
          \/ \E o \in Orders :
               \/ CheckoutOrder(w, o)
               \/ DraftOrderComplete(w, o)
               \/ \E s \in Stocks : \E items \in Requested(o, WarehouseOf[s]) :
                    \E status \in Given : OrderFulfill(w, o, items, status)
               \/ OrderCancel(w, o)
          \/ \E f \in DOMAIN db.fulfillment :
               \/ \E s \in Stocks : FulfillmentCancel(w, f, WarehouseOf[s])
               \/ \E s \in Stocks : CancelledByCustomer(w, f, WarehouseOf[s])
               \/ \E status \in { "shipped", "cancellation processed" } :
                    UpdateFulfillment(w, f, status)
          \/ Step(w)
          \/ DeadlockDetected(w)
    BY <1>1 DEF Next
  <2>2. ASSUME NEW o \in Orders, CheckoutOrder(w, o) \/ OrderCancel(w, o)
        PROVE  Accounts'
    BY <2>2, CheckoutOrderAccounts, OrderCancelAccounts
  <2>3. ASSUME NEW o \in Orders, NEW s \in Stocks, NEW items \in Requested(o, WarehouseOf[s]),
               NEW status \in Given, OrderFulfill(w, o, items, status)
        PROVE  Accounts'
    BY <2>3, OrderFulfillAccounts
  <2>4. /\ \A o \in Orders : ~DraftOrderComplete(w, o)
        /\ \A f \in DOMAIN db.fulfillment :
             /\ \A s \in Stocks : ~FulfillmentCancel(w, f, WarehouseOf[s])
             /\ \A s \in Stocks : ~CancelledByCustomer(w, f, WarehouseOf[s])
             /\ \A status \in { "shipped", "cancellation processed" } :
                  ~UpdateFulfillment(w, f, status)
    BY DEF DraftOrderComplete, FulfillmentCancel, CancelledByCustomer, UpdateFulfillment, Call, Ours
  <2>5. CASE DeadlockDetected(w)
    <3>1. CASE request[w].phase \in SavepointPhases
      BY <2>5, <3>1, LineFailsAccounts DEF DeadlockDetected, Fails, SavepointPhases
    <3>2. CASE request[w].phase \notin SavepointPhases
      BY <2>5, <3>2, CallFailsAccounts DEF DeadlockDetected, Fails
    <3>3. QED
      BY <3>1, <3>2
  <2>6. CASE Step(w)
    BY <2>6, StepAccounts
  <2>7. QED
    BY <2>1, <2>2, <2>3, <2>4, <2>5, <2>6
<1>2. CASE UNCHANGED vars
  <2>1. db' = db /\ txn' = txn /\ request' = request
    BY <1>2 DEF vars
  <2>2. Balanced(db)'
    BY <2>1 DEF Accounts, Balanced, OfLine, RowsOf
  <2>3. (\A w \in Workers : Account(request[w], txn[w], db))'
    <3>1. SUFFICES ASSUME NEW w \in Workers PROVE Account(request[w], txn[w], db)'
      OBVIOUS
    <3>2. Account(request[w], txn[w], db)
      BY DEF Accounts
    <3>3. QED
      BY <2>1, <3>2 DEF Account, Paid, Lowered, Allocated, Taking, Placing, Cancels
  <2>4. QED
    BY <2>1, <2>2, <2>3 DEF Accounts
<1>3. QED
  BY <1>1, <1>2

LEMMA Accounted ==
    ASSUME Ours
    PROVE  Spec => [](Typing /\ Discipline(FALSE) /\ Accounts)
<1>1. Init => Typing /\ Discipline(FALSE) /\ Accounts
  BY InitTyped, InitKeeps, InitAccounts
<1>2. Typing /\ Discipline(FALSE) /\ Accounts /\ [ Next ]_vars
        => (Typing /\ Discipline(FALSE) /\ Accounts)'
  BY NextTyped, NextKeeps, NextAccounts
<1>3. QED
  BY <1>1, <1>2, PTL DEF Spec

\* What the fulfillments hold are all the shipments.
LEMMA ShipmentsAre ==
    ASSUME Accounts
    PROVE  /\ \A s : ShippedFrom(s) = SentBy("stock", s, db.fulfillment)
           /\ \A l : Shipped(l) = SentBy("line", l, db.fulfillment)
<1>1. \A f \in DOMAIN db.fulfillment : db.fulfillment[f].status \in Standing
  BY DEF Accounts, Balanced
<1>2. Shipments = Sent(db.fulfillment)
  BY <1>1 DEF Shipments, Sent
<1>3. QED
  BY <1>2 DEF ShippedFrom, Shipped, SentBy, ItemOf

\* While nothing is returned, each stock and the fulfillments always add up to
\* what the stock was: for any orders and lines, whoever fulfills at the same
\* time, and whatever is rolled back in between.
THEOREM ShippedFromStockOK ==
    ASSUME Ours
    PROVE  Spec => []ShippedFromStock
<1>1. Typing /\ Discipline(FALSE) /\ Accounts => ShippedFromStock
  BY ShipmentsAre DEF Accounts, Balanced, ShippedFromStock
<1>2. QED
  BY <1>1, Accounted, PTL

\* A line of a placed order has allocated what is still to be shipped of it, or
\* nothing: no two calls lower its allocations for one shipment, and none ships
\* without lowering them or finding them gone.
THEOREM ReservedUntilShippedOK ==
    ASSUME Ours
    PROVE  Spec => []ReservedUntilShipped
<1>1. Typing /\ Discipline(FALSE) /\ Accounts => ReservedUntilShipped
  <2> SUFFICES ASSUME Typing, Discipline(FALSE), Accounts, NEW l \in Lines,
                      db.status[OrderOf[l]] # "absent"
               PROVE  Reserved(l) \in { 0, Positive(Ordered[l] - Shipped(l)) }
    BY DEF ReservedUntilShipped
  <2>1. PICK m, n : m = OfLine(l, db.allocated) /\ n = SentBy("line", l, db.fulfillment)
    OBVIOUS
  <2>2. /\ TableOK("allocated", db.allocated) /\ TableOK("fulfillment", db.fulfillment)
        /\ IsFiniteSet(Sent(db.fulfillment))
    BY DEF Typing, DbOK, WritesOK, Tables, Accounts, Balanced
  <2>3. m \in Nat /\ n \in Nat
    BY <2>1, <2>2, OfLineNat, SentNat
  <2>4. m = 0 \/ m + n = Ordered[l]
    BY <2>1 DEF Accounts, Balanced
  <2>5. Reserved(l) = m /\ Shipped(l) = n
    BY <2>1, ShipmentsAre DEF Reserved, OfLine
  <2>6. m + n = Ordered[l] => Positive(Ordered[l] - n) = m
    BY <2>3 DEF Positive
  <2>7. QED
    BY <2>4, <2>5, <2>6
<1>2. QED
  BY <1>1, Accounted, PTL
=============================================================================
