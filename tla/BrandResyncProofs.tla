-------------------------- MODULE BrandResyncProofs --------------------------
(***************************************************************************)
(* Proofs about BrandResync, for any workers, variants, contents of the    *)
(* shop and bounds: the types, and what metadata["instock"] says.          *)
(***************************************************************************)
EXTENDS BrandResync, FunctionSums

-----------------------------------------------------------------------------
(* The inductive invariant                                                 *)

Variant == [ listed : BOOLEAN, quantity : Int, track_inventory : BOOLEAN ]

DbRows ==
    [ quantity : [ Variants -> Nat ], track_inventory : [ Variants -> BOOLEAN ],
      allocated : [ Variants -> Nat ], product : Product ]

Calls ==
    [ task : Task, seen : Feed, variant : Nat, resyncs : BOOLEAN,
      rows : SUBSET Variants, db : DbRows, clean : BOOLEAN ]

Done == [ { "change", "order", "publish", "crash" } -> Nat ]

\* The stocks as the others will see them when c commits.
Merged(c) ==
    [ quantity |-> [ v \in Variants |-> IF v \in c.rows THEN c.db.quantity[v] ELSE db.quantity[v] ],
      track_inventory |->
        [ v \in Variants |-> IF v \in c.rows THEN c.db.track_inventory[v] ELSE db.track_inventory[v] ],
      allocated |-> [ v \in Variants |-> IF v \in c.rows THEN c.db.allocated[v] ELSE db.allocated[v] ] ]

\* The resync saves the stock of a variant that is there.
Updates(c) == c.task = "stock" => c.variant \in Variants

\* A save that no other write has overlapped writes the right flag; one that
\* publishes writes back the flag that is there.
Saves(c) ==
    /\ Updates(c)
    /\ c.task \in { "saving", "removing" } =>
         c.rows # {} /\ (c.clean => c.db.product.instock = InStock(Merged(c)))

Publishes(c) ==
    c.task = "publishing" /\ c.clean => c.db.product.instock = db.product.instock

Typed == feed \in Feed /\ db \in DbRows /\ call \in [ Workers -> Calls ]
           /\ shown \in BOOLEAN /\ done \in Done

Inv ==
    /\ Typed
    /\ \A w \in Workers : Saves(call[w]) /\ Publishes(call[w])
    /\ InstockRight

-----------------------------------------------------------------------------
(* Rows                                                                    *)

LEMMA RowsTyped ==
    ASSUME NEW r \in DbRows
    PROVE  /\ r.quantity \in [ Variants -> Nat ] /\ r.track_inventory \in [ Variants -> BOOLEAN ]
           /\ r.allocated \in [ Variants -> Nat ] /\ r.product \in Product
           /\ r.product.is_published \in BOOLEAN /\ r.product.instock \in BOOLEAN
BY DEF DbRows, Product

LEMMA CallTyped ==
    ASSUME NEW c \in Calls
    PROVE  /\ c.task \in Task /\ c.seen \in Feed /\ c.variant \in Nat /\ c.resyncs \in BOOLEAN
           /\ c.rows \in SUBSET Variants /\ c.db \in DbRows /\ c.clean \in BOOLEAN
BY DEF Calls

LEMMA SeenTyped ==
    ASSUME NEW f \in Feed, NEW v \in Variants
    PROVE  /\ f.active \in BOOLEAN /\ f.variants[v] \in Variant
           /\ f.variants[v].listed \in BOOLEAN /\ f.variants[v].quantity \in Int
           /\ f.variants[v].track_inventory \in BOOLEAN
<1>1. f.active \in BOOLEAN /\ f.variants \in [ Variants -> Variant ]
  BY DEF Feed, Variant
<1>2. f.variants[v] \in Variant
  BY <1>1
<1> QED
  BY <1>1, <1>2 DEF Variant

LEMMA IdleTyped ==
    /\ Start \in DbRows /\ Idle \in Calls /\ Idle.task = "idle" /\ Idle.db = Start
    /\ Absent \in Variant
<1>1. Start.product \in Product
  BY DEF Start, Product
<1>2. Start \in DbRows
  BY <1>1 DEF Start, DbRows
<1>3. Absent \in Variant
  BY DEF Absent, Variant
<1>4. [ active |-> FALSE, empty |-> FALSE, variants |-> [ v \in Variants |-> Absent ] ] \in Feed
  BY <1>3 DEF Feed, Variant
<1>5. Idle \in Calls
  BY <1>2, <1>4 DEF Idle, Calls, Task
<1> QED
  BY <1>2, <1>3, <1>5 DEF Idle

\* The flag is computed from quantities, tracking and allocations.
LEMMA SameStocks ==
    ASSUME NEW r, NEW s, r.quantity = s.quantity, r.track_inventory = s.track_inventory,
           r.allocated = s.allocated
    PROVE  InStock(r) = InStock(s)
BY Zenon DEF InStock

LEMMA InStockTyped == ASSUME NEW r PROVE InStock(r) \in BOOLEAN
BY DEF InStock

LEMMA RowsReplaced ==
    ASSUME NEW r \in DbRows, NEW q \in [ Variants -> Nat ], NEW t \in [ Variants -> BOOLEAN ],
           NEW a \in [ Variants -> Nat ], NEW p \in Product
    PROVE  /\ [ quantity |-> q, track_inventory |-> t, allocated |-> a, product |-> p ] \in DbRows
           /\ [ r EXCEPT !.product = p ] \in DbRows
           /\ [ r EXCEPT !.quantity = q, !.track_inventory = t, !.allocated = a ] \in DbRows
BY DEF DbRows

LEMMA ProductReplaced ==
    ASSUME NEW p \in Product, NEW b \in BOOLEAN
    PROVE  /\ [ p EXCEPT !.is_published = b ] \in Product
           /\ [ p EXCEPT !.is_published = b ].instock = p.instock
           /\ [ p EXCEPT !.instock = b ] \in Product
           /\ [ p EXCEPT !.instock = b ].instock = b
<1>1. [ p EXCEPT !.is_published = b ] \in Product /\ [ p EXCEPT !.instock = b ] \in Product
  BY Zenon DEF Product
<1>2. DOMAIN p = { "is_published", "instock" }
  BY DEF Product
<1> QED
  BY <1>1, <1>2, Zenon

LEMMA RecomputedRows ==
    ASSUME NEW r \in DbRows
    PROVE  /\ Recomputed(r) \in DbRows
           /\ Recomputed(r).product.instock = InStock(r)
           /\ Recomputed(r).quantity = r.quantity
           /\ Recomputed(r).track_inventory = r.track_inventory
           /\ Recomputed(r).allocated = r.allocated
<1>1. PICK p, b : b = InStock(r) /\ p = [ r.product EXCEPT !.instock = b ]
  OBVIOUS
<1>2. p \in Product /\ p.instock = b
  <2>1. r.product \in Product /\ b \in BOOLEAN
    BY <1>1, RowsTyped, InStockTyped
  <2> QED
    BY <1>1, <2>1, ProductReplaced, Zenon
<1>3. Recomputed(r) = [ r EXCEPT !.product = p ]
  BY <1>1 DEF Recomputed, DbRows
<1>4. Recomputed(r) \in DbRows
  BY <1>2, <1>3 DEF DbRows
<1> QED
  BY <1>1, <1>2, <1>3, <1>4 DEF DbRows

\* A save of rows that differ from the database in its locked stocks only.
LEMMA SaveTyped ==
    ASSUME db \in DbRows, NEW c \in Calls, NEW task \in Task, NEW locks \in SUBSET Variants,
           NEW r \in DbRows,
           \A v \in Variants \ locks : /\ r.quantity[v] = db.quantity[v]
                                       /\ r.track_inventory[v] = db.track_inventory[v]
                                       /\ r.allocated[v] = db.allocated[v],
           NEW k, k = SaveStocks(c, task, locks, Recomputed(r))
    PROVE  /\ k \in Calls /\ k.task = task /\ k.rows = locks
           /\ k.db.product.instock = InStock(Merged(k))
<1>1. PICK s : s = Recomputed(r)
  OBVIOUS
<1>2. /\ s \in DbRows /\ s.product.instock = InStock(r) /\ s.quantity = r.quantity
      /\ s.track_inventory = r.track_inventory /\ s.allocated = r.allocated
  BY <1>1, RecomputedRows
<1>3. PICK q, t, a :
        /\ q = [ v \in Variants |-> IF v \in locks THEN s.quantity[v] ELSE Start.quantity[v] ]
        /\ t = [ v \in Variants |-> IF v \in locks THEN s.track_inventory[v]
                                    ELSE Start.track_inventory[v] ]
        /\ a = [ v \in Variants |-> IF v \in locks THEN s.allocated[v] ELSE Start.allocated[v] ]
  OBVIOUS
<1>4. q \in [ Variants -> Nat ] /\ t \in [ Variants -> BOOLEAN ] /\ a \in [ Variants -> Nat ]
  BY <1>2, <1>3, IdleTyped, RowsTyped
<1>5. PICK d : d = [ quantity |-> q, track_inventory |-> t, allocated |-> a, product |-> s.product ]
  OBVIOUS
<1>6. d \in DbRows
  BY <1>2, <1>4, <1>5, RowsTyped, RowsReplaced
<1>7. k = [ c EXCEPT !.task = task, !.rows = locks, !.clean = TRUE, !.db = d ]
  BY <1>1, <1>3, <1>5 DEF SaveStocks
<1>8. k \in Calls
  BY <1>6, <1>7, Zenon DEF Calls
<1>9. k.task = task /\ k.rows = locks /\ k.db = d
  BY <1>7 DEF Calls
<1>10. /\ Merged(k).quantity = r.quantity /\ Merged(k).track_inventory = r.track_inventory
       /\ Merged(k).allocated = r.allocated
  <2>1. PICK mq, mt, ma :
          /\ mq = [ v \in Variants |-> IF v \in locks THEN q[v] ELSE db.quantity[v] ]
          /\ mt = [ v \in Variants |-> IF v \in locks THEN t[v] ELSE db.track_inventory[v] ]
          /\ ma = [ v \in Variants |-> IF v \in locks THEN a[v] ELSE db.allocated[v] ]
    OBVIOUS
  <2>2. Merged(k) = [ quantity |-> mq, track_inventory |-> mt, allocated |-> ma ]
    BY <1>5, <1>9, <2>1 DEF Merged
  <2>3. mq = r.quantity
    BY <1>2, <1>3, <2>1, RowsTyped
  <2>4. mt = r.track_inventory
    BY <1>2, <1>3, <2>1, RowsTyped
  <2>5. ma = r.allocated
    BY <1>2, <1>3, <2>1, RowsTyped
  <2> QED
    BY <2>2, <2>3, <2>4, <2>5
<1>11. InStock(Merged(k)) = InStock(r)
  BY <1>10, SameStocks
<1> QED
  BY <1>2, <1>5, <1>8, <1>9, <1>11

-----------------------------------------------------------------------------
(* What a step leaves of the other calls                                   *)

\* What the invariant says of a call, and of its copy of the product.
CallOK(c) == c \in Calls /\ Saves(c) /\ Publishes(c)

LEMMA CallsOK ==
    ASSUME Inv, NEW w \in Workers
    PROVE  CallOK(call[w])
BY DEF Inv, Typed, CallOK

\* A copy that is known to be stale.
LEMMA OutdatedOK ==
    ASSUME NEW c \in Calls, Saves(c), NEW k, k = [ c EXCEPT !.clean = FALSE ]
    PROVE  k \in Calls /\ Saves(k)' /\ Publishes(k)'
<1>1. k \in Calls
  BY Zenon DEF Calls
<1>2. k.task = c.task /\ k.rows = c.rows /\ k.clean = FALSE /\ k.variant = c.variant
  BY DEF Calls
<1>3. Updates(c) /\ (c.task \in { "saving", "removing" } => c.rows # {})
  BY DEF Saves
<1>4. Publishes(k)'
  BY <1>2 DEF Publishes
<1>5. Saves(k)'
  BY <1>2, <1>3 DEF Saves, Updates
<1> QED
  BY <1>1, <1>4, <1>5

LEMMA SameDbOK ==
    ASSUME db' = db, NEW c, Saves(c), Publishes(c)
    PROVE  Saves(c)' /\ Publishes(c)'
<1>1. Merged(c)' = Merged(c)
  BY DEF Merged
<1>2. InStock(Merged(c))' = InStock(Merged(c))
  BY <1>1 DEF InStock
<1> QED
  BY <1>2 DEF Saves, Publishes, Updates

\* A call that saves nothing.
LEMMA HarmlessOK ==
    ASSUME NEW c, c.task \notin { "saving", "removing", "publishing" }, Updates(c)
    PROVE  Saves(c)' /\ Publishes(c)'
BY DEF Saves, Publishes, Updates

LEMMA OthersOK ==
    ASSUME Inv, NEW w \in Workers, NEW c \in Calls, NEW writes \in BOOLEAN, GoesOn(w, c, writes),
           Saves(c)', Publishes(c)', ~writes => db' = db
    PROVE  /\ call' \in [ Workers -> Calls ]
           /\ \A u \in Workers : (Saves(call[u]) /\ Publishes(call[u]))'
<1>1. ASSUME NEW u \in Workers
      PROVE  \E k \in Calls : k = call'[u] /\ Saves(k)' /\ Publishes(k)'
  <2>1. PICK k, o : k = call'[u] /\ o = call[u]
    OBVIOUS
  <2>2. o \in Calls /\ Saves(o) /\ Publishes(o)
    BY <2>1, CallsOK DEF CallOK
  <2>3. k = IF u = w THEN c
            ELSE IF writes /\ o.task \in { "saving", "removing", "publishing" }
            THEN [ o EXCEPT !.clean = FALSE ] ELSE o
    BY <2>1 DEF GoesOn
  <2>4. CASE u = w
    BY <2>1, <2>3, <2>4
  <2>5. CASE u # w /\ ~writes
    BY <2>1, <2>2, <2>3, <2>5, SameDbOK
  <2>6. CASE u # w /\ writes /\ o.task \in { "saving", "removing", "publishing" }
    <3>1. k = [ o EXCEPT !.clean = FALSE ]
      BY <2>3, <2>6
    <3>2. k \in Calls /\ Saves(k)' /\ Publishes(k)'
      BY <2>2, <3>1, OutdatedOK
    <3> QED
      BY <2>1, <3>2
  <2>7. CASE u # w /\ o.task \notin { "saving", "removing", "publishing" }
    <3>1. k = o
      BY <2>3, <2>7
    <3>2. Saves(o)' /\ Publishes(o)'
      BY <2>2, <2>7, HarmlessOK DEF Saves
    <3> QED
      BY <2>1, <2>2, <3>1, <3>2
  <2> QED
    BY <2>4, <2>5, <2>6, <2>7
<1>2. call' = [ u \in Workers |-> call'[u] ]
  BY DEF GoesOn
<1>3. call' \in [ Workers -> Calls ]
  BY <1>1, <1>2
<1>4. ASSUME NEW u \in Workers PROVE (Saves(call[u]) /\ Publishes(call[u]))'
  <2>1. PICK k \in Calls : k = call'[u] /\ Saves(k)' /\ Publishes(k)'
    BY <1>1
  <2> QED
    BY <2>1 DEF Saves, Publishes, Merged, Updates
<1> QED
  BY <1>3, <1>4

\* A step that leaves the rows alone.
LEMMA ReadsInv ==
    ASSUME Inv, NEW w \in Workers, NEW c \in Calls, GoesOn(w, c, FALSE),
           Saves(c), Publishes(c), feed' \in Feed, db' = db, shown' = shown, done' \in Done
    PROVE  Inv'
<1>1. Saves(c)' /\ Publishes(c)'
  BY SameDbOK
<1>2. /\ call' \in [ Workers -> Calls ]
      /\ \A u \in Workers : (Saves(call[u]) /\ Publishes(call[u]))'
  BY <1>1, OthersOK
<1>3. InStock(db)' = InStock(db)
  BY DEF InStock
<1>4. InstockRight'
  BY <1>3 DEF Inv, InstockRight
<1> QED
  BY <1>2, <1>4 DEF Inv, Typed

-----------------------------------------------------------------------------
(* The actions that write                                                  *)

LEMMA HappensTyped ==
    ASSUME done \in Done, NEW event \in { "change", "order", "publish", "crash" }, NEW max,
           Happens(event, max)
    PROVE  done' \in Done
BY DEF Happens, Done

\* Once written, every other copy is known to be stale.
LEMMA WritesInv ==
    ASSUME Inv, NEW w \in Workers, NEW c \in Calls, GoesOn(w, c, TRUE),
           c.task \notin { "saving", "removing", "publishing" }, Updates(c),
           feed' \in Feed, db' \in DbRows, shown' \in BOOLEAN, done' \in Done, InstockRight'
    PROVE  Inv'
<1>1. Saves(c)' /\ Publishes(c)'
  BY HarmlessOK
<1>2. /\ call' \in [ Workers -> Calls ]
      /\ \A u \in Workers : (Saves(call[u]) /\ Publishes(call[u]))'
  BY <1>1, OthersOK
<1> QED
  BY <1>2 DEF Inv, Typed

LEMMA WrittenTyped ==
    ASSUME db \in DbRows, NEW c \in Calls
    PROVE  Written(c) \in DbRows
<1>1. PICK q, t, a :
        /\ q = [ v \in Variants |-> IF v \in c.rows THEN c.db.quantity[v] ELSE db.quantity[v] ]
        /\ t = [ v \in Variants |-> IF c.task = "removing" /\ v \in c.rows
                                    THEN TRUE ELSE db.track_inventory[v] ]
        /\ a = [ v \in Variants |-> IF v \in c.rows THEN c.db.allocated[v] ELSE db.allocated[v] ]
  OBVIOUS
<1>2. c.db \in DbRows
  BY CallTyped
<1>3. q \in [ Variants -> Nat ] /\ t \in [ Variants -> BOOLEAN ] /\ a \in [ Variants -> Nat ]
  BY <1>1, <1>2, RowsTyped
<1>4. c.db.product \in Product
  BY <1>2, RowsTyped
<1> QED
  BY <1>1, <1>3, <1>4, RowsReplaced DEF Written

LEMMA CommitInv ==
    ASSUME Inv, NEW w \in Workers, Commit(w)
    PROVE  Inv'
<1>1. PICK c, next, after :
        /\ c = call[w]
        /\ next = IF c.task = "removing" THEN "hide" ELSE IF c.resyncs THEN "variant" ELSE "idle"
        /\ after = IF c.resyncs
                   THEN [ c EXCEPT !.task = next, !.rows = {}, !.db = Start, !.clean = TRUE,
                                   !.variant = IF next = "variant" THEN @ + 1 ELSE @ ]
                   ELSE Idle
        /\ c.task \in { "saving", "removing" }
        /\ db' = Written(c)
        /\ shown' = (c.clean /\ \A v \in c.rows :
                                  Written(c).track_inventory[v] = c.db.track_inventory[v])
        /\ GoesOn(w, after, TRUE)
        /\ UNCHANGED << feed, done >>
  BY DEF Commit
<1>2. c \in Calls /\ Saves(c)
  BY <1>1, CallsOK DEF CallOK
<1>3. Written(c) \in DbRows
  BY <1>2, WrittenTyped DEF Inv, Typed
<1>4. after \in Calls /\ after.task \in { "hide", "variant", "idle" }
  <2>1. CASE c.resyncs
    <3>1. PICK n : n = IF next = "variant" THEN c.variant + 1 ELSE c.variant
      OBVIOUS
    <3>2. n \in Nat /\ {} \in SUBSET Variants /\ TRUE \in BOOLEAN
      BY <1>2, <3>1, CallTyped
    <3>3. next \in { "hide", "variant" } /\ next \in Task
      BY <1>1, <2>1 DEF Task
    <3>4. after = [ c EXCEPT !.task = next, !.rows = {}, !.db = Start, !.clean = TRUE, !.variant = n ]
      BY <1>1, <1>2, <2>1, <3>1 DEF Calls
    <3>5. after \in Calls
      BY <1>2, <3>2, <3>3, <3>4, IdleTyped, Zenon DEF Calls
    <3>6. after.task = next
      BY <1>2, <3>4 DEF Calls
    <3> QED
      BY <3>3, <3>5, <3>6
  <2>2. CASE ~c.resyncs
    BY <1>1, <2>2, IdleTyped
  <2> QED
    BY <2>1, <2>2
<1>5. shown' \in BOOLEAN
  BY <1>1, <1>2, CallTyped
<1>6. ASSUME shown' PROVE db'.product.instock = InStock(db')
  <2>1. c.clean /\ \A v \in c.rows : Written(c).track_inventory[v] = c.db.track_inventory[v]
    BY <1>1, <1>6
  <2>2. c.db.product.instock = InStock(Merged(c))
    BY <1>1, <1>2, <2>1 DEF Saves
  <2>3. /\ Written(c).quantity = Merged(c).quantity
        /\ Written(c).allocated = Merged(c).allocated
        /\ Written(c).product = c.db.product
    BY DEF Written, Merged
  <2>4. Written(c).track_inventory = Merged(c).track_inventory
    <3>1. PICK t, m : t = Written(c).track_inventory /\ m = Merged(c).track_inventory
      OBVIOUS
    <3>2. /\ t = [ v \in Variants |-> IF c.task = "removing" /\ v \in c.rows
                                      THEN TRUE ELSE db.track_inventory[v] ]
          /\ m = [ v \in Variants |-> IF v \in c.rows THEN c.db.track_inventory[v]
                                      ELSE db.track_inventory[v] ]
      BY <3>1 DEF Written, Merged
    <3>3. \A v \in c.rows : t[v] = c.db.track_inventory[v]
      BY <2>1, <3>1
    <3>4. \A v \in Variants : t[v] = m[v]
      BY <3>2, <3>3
    <3> QED
      BY <3>1, <3>2, <3>4
  <2>5. InStock(Written(c)) = InStock(Merged(c))
    BY <2>3, <2>4, SameStocks
  <2> QED
    BY <1>1, <2>2, <2>3, <2>5
<1>7. InstockRight'
  BY <1>6 DEF InstockRight
<1> QED
  BY <1>1, <1>3, <1>4, <1>5, <1>7, WritesInv DEF Inv, Typed, Updates

LEMMA SaveProductInv ==
    ASSUME Inv, NEW w \in Workers, SaveProduct(w)
    PROVE  Inv'
<1>1. PICK c : /\ c = call[w] /\ c.task = "publishing"
               /\ db' = [ db EXCEPT !.product = c.db.product ]
               /\ shown' = (shown /\ c.clean)
               /\ GoesOn(w, Idle, TRUE) /\ UNCHANGED << feed, done >>
  BY DEF SaveProduct
<1>2. c \in Calls /\ Publishes(c) /\ db \in DbRows /\ shown \in BOOLEAN
  BY <1>1, CallsOK DEF CallOK, Inv, Typed
<1>3. c.db.product \in Product
  BY <1>2, CallTyped, RowsTyped
<1>4. /\ db' \in DbRows /\ db'.product = c.db.product /\ db'.quantity = db.quantity
      /\ db'.track_inventory = db.track_inventory /\ db'.allocated = db.allocated
  BY <1>1, <1>2, <1>3 DEF DbRows
<1>5. InStock(db') = InStock(db)
  BY <1>4, SameStocks
<1>6. ASSUME shown' PROVE db'.product.instock = InStock(db')
  <2>1. shown /\ c.clean
    BY <1>1, <1>6
  <2>2. c.db.product.instock = db.product.instock
    BY <1>1, <1>2, <2>1 DEF Publishes
  <2>3. db.product.instock = InStock(db)
    BY <2>1 DEF Inv, InstockRight
  <2> QED
    BY <1>4, <1>5, <2>2, <2>3
<1>7. InstockRight' /\ shown' \in BOOLEAN
  BY <1>1, <1>2, <1>6, CallTyped DEF InstockRight
<1> QED
  BY <1>1, <1>4, <1>7, IdleTyped, WritesInv DEF Inv, Typed, Updates

-----------------------------------------------------------------------------
(* The actions that read, or write a part                                  *)

LEMMA ReadsHarmless ==
    ASSUME Inv, NEW w \in Workers, NEW c \in Calls, GoesOn(w, c, FALSE),
           c.task \notin { "saving", "removing", "publishing" }, Updates(c),
           db' = db, shown' = shown, feed' \in Feed, done' \in Done
    PROVE  Inv'
<1>1. Saves(c) /\ Publishes(c)
  BY DEF Saves, Publishes
<1> QED
  BY <1>1, ReadsInv

LEMMA StartResyncInv ==
    ASSUME Inv, NEW w \in Workers, StartResync(w)
    PROVE  Inv'
<1>1. PICK c : /\ c = IF feed.active
                      THEN [ Idle EXCEPT !.task = "remove", !.resyncs = TRUE, !.seen = feed ]
                      ELSE IF feed.empty THEN call[w]
                      ELSE [ Idle EXCEPT !.task = "hide", !.resyncs = TRUE ]
               /\ GoesOn(w, c, FALSE) /\ UNCHANGED << feed, db, shown, done >>
  BY DEF StartResync
<1>2. Idle \in Calls /\ "remove" \in Task /\ "hide" \in Task /\ TRUE \in BOOLEAN /\ feed \in Feed
  BY IdleTyped DEF Task, Inv, Typed
<1>3. c \in Calls
  <2>1. /\ [ Idle EXCEPT !.task = "remove", !.resyncs = TRUE, !.seen = feed ] \in Calls
        /\ [ Idle EXCEPT !.task = "hide", !.resyncs = TRUE ] \in Calls
    BY <1>2, Zenon DEF Calls
  <2> QED
    BY <1>1, <2>1, CallsOK DEF CallOK
<1>4. c.task \in { "idle", "remove", "hide" }
  BY <1>1, <1>2 DEF Calls, StartResync
<1> QED
  BY <1>1, <1>3, <1>4, ReadsHarmless DEF Inv, Typed, Updates

\* c goes on with another task, or another variant.
LEMMA Steps ==
    ASSUME NEW c \in Calls, NEW task \in Task, NEW n \in Nat
    PROVE  /\ [ c EXCEPT !.task = task ] \in Calls
           /\ [ c EXCEPT !.task = task ].task = task
           /\ [ c EXCEPT !.variant = n ] \in Calls
           /\ [ c EXCEPT !.variant = n ].task = c.task
           /\ [ c EXCEPT !.task = task, !.variant = n ] \in Calls
           /\ [ c EXCEPT !.task = task, !.variant = n ].task = task
<1>1. /\ [ c EXCEPT !.task = task ] \in Calls
      /\ [ c EXCEPT !.variant = n ] \in Calls
      /\ [ c EXCEPT !.task = task, !.variant = n ] \in Calls
  BY Zenon DEF Calls
<1> QED
  BY <1>1 DEF Calls

\* The stocks are locked and written; nothing is committed yet.
LEMMA SaveStocksInv ==
    ASSUME Inv, NEW w \in Workers, NEW c \in Calls, NEW task \in { "saving", "removing" },
           NEW locks \in SUBSET Variants, locks # {}, NEW r \in DbRows,
           \A v \in Variants \ locks : /\ r.quantity[v] = db.quantity[v]
                                       /\ r.track_inventory[v] = db.track_inventory[v]
                                       /\ r.allocated[v] = db.allocated[v],
           NEW k, k = SaveStocks(c, task, locks, Recomputed(r)), GoesOn(w, k, FALSE),
           feed' = feed, db' = db, shown' = shown, done' = done
    PROVE  Inv'
<1>1. task \in Task /\ db \in DbRows
  BY DEF Task, Inv, Typed
<1>2. /\ k \in Calls /\ k.task = task /\ k.rows = locks
      /\ k.db.product.instock = InStock(Merged(k))
  BY <1>1, SaveTyped
<1>3. Saves(k) /\ Publishes(k)
  BY <1>2 DEF Saves, Publishes, Updates
<1> QED
  BY <1>2, <1>3, ReadsInv DEF Inv, Typed

LEMMA ZeroedTyped ==
    ASSUME db \in DbRows, NEW R \in SUBSET Variants
    PROVE  /\ Zeroed(R) \in DbRows
           /\ \A v \in Variants \ R : /\ Zeroed(R).quantity[v] = db.quantity[v]
                                      /\ Zeroed(R).track_inventory[v] = db.track_inventory[v]
                                      /\ Zeroed(R).allocated[v] = db.allocated[v]
<1>1. PICK q, t :
        /\ q = [ v \in Variants |-> IF v \in R THEN 0 ELSE db.quantity[v] ]
        /\ t = [ v \in Variants |-> IF v \in R \ { Max(R) } THEN TRUE ELSE db.track_inventory[v] ]
  OBVIOUS
<1>2. q \in [ Variants -> Nat ] /\ t \in [ Variants -> BOOLEAN ]
  BY <1>1, RowsTyped
<1>3. Zeroed(R) = [ db EXCEPT !.quantity = q, !.track_inventory = t ]
  BY <1>1 DEF Zeroed, DbRows
<1>4. Zeroed(R) \in DbRows
  BY <1>2, <1>3 DEF DbRows
<1>5. /\ Zeroed(R).quantity = q /\ Zeroed(R).track_inventory = t
      /\ Zeroed(R).allocated = db.allocated
  BY <1>3 DEF DbRows
<1> QED
  BY <1>1, <1>4, <1>5

LEMMA RemoveVariantsInv ==
    ASSUME Inv, NEW w \in Workers, RemoveVariants(w)
    PROVE  Inv'
<1>1. PICK c : c = call[w]
  OBVIOUS
<1>2. /\ IF Removed(c) = {}
         THEN GoesOn(w, [ c EXCEPT !.task = "variant" ], FALSE)
         ELSE GoesOn(w, SaveStocks(c, "removing", Removed(c), Recomputed(Zeroed(Removed(c)))), FALSE)
      /\ UNCHANGED << feed, db, shown, done >>
  BY <1>1 DEF RemoveVariants
<1>3. c \in Calls /\ db \in DbRows
  BY <1>1, CallsOK DEF CallOK, Inv, Typed
<1>4. CASE Removed(c) = {}
  <2>1. "variant" \in Task /\ 0 \in Nat
    BY DEF Task
  <2>2. /\ [ c EXCEPT !.task = "variant" ] \in Calls
        /\ [ c EXCEPT !.task = "variant" ].task = "variant"
    BY <1>3, <2>1, Steps
  <2>3. GoesOn(w, [ c EXCEPT !.task = "variant" ], FALSE)
    BY <1>2, <1>4
  <2> QED
    BY <1>2, <2>2, <2>3, ReadsHarmless DEF Inv, Typed, Updates
<1>5. CASE Removed(c) # {}
  <2>1. PICK R : R = Removed(c)
    OBVIOUS
  <2>2. R \in SUBSET Variants
    BY <2>1 DEF Removed
  <2>3. PICK r, k : /\ r = Zeroed(R) /\ k = SaveStocks(c, "removing", R, Recomputed(r))
    OBVIOUS
  <2>4. /\ r \in DbRows
        /\ \A v \in Variants \ R : /\ r.quantity[v] = db.quantity[v]
                                   /\ r.track_inventory[v] = db.track_inventory[v]
                                   /\ r.allocated[v] = db.allocated[v]
    BY <1>3, <2>2, <2>3, ZeroedTyped
  <2>5. GoesOn(w, k, FALSE) /\ R # {}
    BY <1>2, <1>5, <2>1, <2>3
  <2> QED
    BY <1>2, <1>3, <2>2, <2>3, <2>4, <2>5, SaveStocksInv
<1> QED
  BY <1>4, <1>5

LEMMA HideInv ==
    ASSUME Inv, NEW w \in Workers, Hide(w)
    PROVE  Inv'
<1>1. PICK c, k :
        /\ c = call[w]
        /\ k = IF c.seen.active THEN [ c EXCEPT !.task = "variant" ] ELSE Idle
        /\ db' = IF Hides(c) THEN [ db EXCEPT !.product.is_published = FALSE ] ELSE db
        /\ GoesOn(w, k, db' # db)
        /\ UNCHANGED << feed, shown, done >>
  BY DEF Hide
<1>2. c \in Calls /\ db \in DbRows
  BY <1>1, CallsOK DEF CallOK, Inv, Typed
<1>3. k \in Calls /\ k.task \in { "variant", "idle" }
  <2>1. "variant" \in Task /\ 0 \in Nat
    BY DEF Task
  <2>2. /\ [ c EXCEPT !.task = "variant" ] \in Calls
        /\ [ c EXCEPT !.task = "variant" ].task = "variant"
    BY <1>2, <2>1, Steps
  <2> QED
    BY <1>1, <2>2, IdleTyped
<1>4. CASE db' = db
  <2>1. GoesOn(w, k, FALSE)
    BY <1>1, <1>4
  <2> QED
    BY <1>1, <1>3, <1>4, <2>1, ReadsHarmless DEF Inv, Typed, Updates
<1>5. CASE db' # db
  <2>1. GoesOn(w, k, TRUE)
    BY <1>1, <1>5
  <2>2. PICK p : p = [ db.product EXCEPT !.is_published = FALSE ]
    OBVIOUS
  <2>3. db' = [ db EXCEPT !.product = p ]
    BY <1>1, <1>2, <1>5, <2>2 DEF DbRows
  <2>4. p \in Product /\ p.instock = db.product.instock
    <3>1. db.product \in Product /\ FALSE \in BOOLEAN
      BY <1>2, RowsTyped
    <3> QED
      BY <2>2, <3>1, ProductReplaced, Zenon
  <2>5. /\ db' \in DbRows /\ db'.product = p /\ db'.quantity = db.quantity
        /\ db'.track_inventory = db.track_inventory /\ db'.allocated = db.allocated
    BY <1>2, <2>3, <2>4 DEF DbRows
  <2>6. InStock(db') = InStock(db)
    BY <2>5, SameStocks
  <2>7. InstockRight'
    BY <1>1, <2>4, <2>5, <2>6 DEF Inv, InstockRight
  <2> QED
    BY <1>1, <1>3, <2>1, <2>5, <2>7, WritesInv DEF Inv, Typed, Updates
<1> QED
  BY <1>4, <1>5

LEMMA UpdateVariantInv ==
    ASSUME Inv, NEW w \in Workers, UpdateVariant(w)
    PROVE  Inv'
<1>1. PICK c, v : c = call[w] /\ v = c.variant /\ v \in Variants
  BY DEF UpdateVariant
<1>2. c \in Calls /\ db \in DbRows /\ c.task = "variant" /\ v \in Nat
  BY <1>1, CallsOK, CallTyped DEF CallOK, Inv, Typed, UpdateVariant
<1>3. UNCHANGED << feed, done >>
  BY DEF UpdateVariant
<1>4. PICK t : t = c.seen.variants[v].track_inventory
  OBVIOUS
<1>5. t \in BOOLEAN
  BY <1>1, <1>2, <1>4, CallTyped, SeenTyped
<1>6. CASE c.seen.variants[v].listed
  <2>1. PICK k : /\ k = [ c EXCEPT !.task = "stock" ]
                 /\ db' = [ db EXCEPT !.track_inventory[v] = t ]
                 /\ shown' = (shown /\ db' = db)
                 /\ GoesOn(w, k, db' # db)
    BY <1>1, <1>4, <1>6 DEF UpdateVariant
  <2>2. "stock" \in Task
    BY DEF Task
  <2>3. k \in Calls /\ k.task = "stock" /\ Updates(k)
    <3>1. k \in Calls /\ k.task = "stock"
      BY <1>2, <2>1, <2>2, Steps
    <3>2. k.variant = v
      BY <1>1, <1>2, <2>1 DEF Calls
    <3> QED
      BY <1>1, <3>1, <3>2 DEF Updates
  <2>4. CASE db' = db
    <3>1. GoesOn(w, k, FALSE) /\ shown' = shown
      BY <2>1, <2>4 DEF Inv, Typed
    <3> QED
      BY <1>3, <2>3, <2>4, <3>1, ReadsHarmless DEF Inv, Typed
  <2>5. CASE db' # db
    <3>1. GoesOn(w, k, TRUE) /\ shown' = FALSE
      BY <2>1, <2>5
    <3>2. PICK f : f = [ db.track_inventory EXCEPT ![v] = t ]
      OBVIOUS
    <3>3. f \in [ Variants -> BOOLEAN ]
      BY <1>2, <1>5, <3>2, RowsTyped
    <3>4. db' = [ db EXCEPT !.track_inventory = f ]
      BY <2>1, <3>2
    <3>5. db' \in DbRows
      BY <1>2, <3>3, <3>4 DEF DbRows
    <3>6. InstockRight'
      BY <3>1 DEF InstockRight
    <3>7. shown' \in BOOLEAN
      BY <3>1
    <3> QED
      BY <1>3, <2>3, <3>1, <3>5, <3>6, <3>7, WritesInv DEF Inv, Typed
  <2> QED
    BY <2>4, <2>5
<1>7. CASE ~c.seen.variants[v].listed
  <2>1. PICK n, k : n = v + 1 /\ k = [ c EXCEPT !.variant = n ]
    OBVIOUS
  <2>2. GoesOn(w, k, FALSE) /\ UNCHANGED << db, shown >>
    BY <1>1, <1>7, <2>1 DEF UpdateVariant
  <2>3. n \in Nat /\ "variant" \in Task
    BY <1>2, <2>1 DEF Task
  <2>4. k \in Calls /\ k.task = "variant"
    BY <1>2, <2>1, <2>3, Steps
  <2> QED
    BY <1>3, <2>2, <2>4, ReadsHarmless DEF Inv, Typed, Updates
<1> QED
  BY <1>6, <1>7

LEMMA ResyncEndsInv ==
    ASSUME Inv, NEW w \in Workers, ResyncEnds(w)
    PROVE  Inv'
<1>1. GoesOn(w, Idle, FALSE) /\ UNCHANGED << feed, db, shown, done >>
  BY DEF ResyncEnds
<1> QED
  BY <1>1, IdleTyped, ReadsHarmless DEF Inv, Typed, Updates

LEMMA UpdateStockInv ==
    ASSUME Inv, NEW w \in Workers, UpdateStock(w)
    PROVE  Inv'
<1>1. PICK c, v, x, r :
        /\ c = call[w] /\ v = c.variant
        /\ x = Clean(c.seen.variants[v].quantity)
        /\ r = [ db EXCEPT !.quantity[v] = x ]
        /\ c.task = "stock"
        /\ GoesOn(w, IF StockDiffers(c)
                     THEN SaveStocks(c, "saving", { v }, Recomputed(r))
                     ELSE [ c EXCEPT !.task = "variant", !.variant = v + 1 ], FALSE)
        /\ UNCHANGED << feed, db, shown, done >>
  BY DEF UpdateStock
<1>2. c \in Calls /\ db \in DbRows /\ v \in Nat /\ v \in Variants
  <2>1. CallOK(c)
    BY <1>1, CallsOK
  <2>2. v \in Variants
    BY <1>1, <2>1 DEF CallOK, Saves, Updates
  <2> QED
    BY <1>1, <2>1, <2>2, CallTyped DEF CallOK, Inv, Typed
<1>3. CASE StockDiffers(c)
  <2>1. x \in Nat
    <3>1. c.seen.variants[v].quantity \in Int
      BY <1>2, <1>3, CallTyped, SeenTyped
    <3> QED
      BY <1>1, <3>1 DEF Clean
  <2>2. PICK q : q = [ db.quantity EXCEPT ![v] = x ]
    OBVIOUS
  <2>3. q \in [ Variants -> Nat ]
    BY <1>2, <2>1, <2>2, RowsTyped
  <2>4. r = [ db EXCEPT !.quantity = q ]
    BY <1>1, <2>2
  <2>5. /\ r \in DbRows /\ r.quantity = q /\ r.track_inventory = db.track_inventory
        /\ r.allocated = db.allocated
    BY <1>2, <2>3, <2>4 DEF DbRows
  <2>6. \A u \in Variants \ { v } : /\ r.quantity[u] = db.quantity[u]
                                    /\ r.track_inventory[u] = db.track_inventory[u]
                                    /\ r.allocated[u] = db.allocated[u]
    BY <1>2, <2>2, <2>5, RowsTyped
  <2>7. GoesOn(w, SaveStocks(c, "saving", { v }, Recomputed(r)), FALSE)
    BY <1>1, <1>3
  <2>8. PICK locks, k : locks = { v } /\ k = SaveStocks(c, "saving", locks, Recomputed(r))
    OBVIOUS
  <2>9. locks \in SUBSET Variants /\ locks # {}
    BY <1>2, <2>8
  <2>10. GoesOn(w, k, FALSE)
    BY <2>7, <2>8
  <2>11. \A u \in Variants \ locks : /\ r.quantity[u] = db.quantity[u]
                                      /\ r.track_inventory[u] = db.track_inventory[u]
                                      /\ r.allocated[u] = db.allocated[u]
    BY <2>6, <2>8
  <2>12. feed' = feed /\ db' = db /\ shown' = shown /\ done' = done
    BY <1>1
  <2> QED
    BY <1>2, <2>5, <2>8, <2>9, <2>10, <2>11, <2>12, SaveStocksInv
<1>4. CASE ~StockDiffers(c)
  <2>1. PICK n, k : n = v + 1 /\ k = [ c EXCEPT !.task = "variant", !.variant = n ]
    OBVIOUS
  <2>2. n \in Nat /\ "variant" \in Task
    BY <1>2, <2>1 DEF Task
  <2>3. k \in Calls /\ k.task = "variant"
    <3>1. k \in Calls
      BY <1>2, <2>1, <2>2, Zenon DEF Calls
    <3>2. k.task = "variant"
      BY <1>2, <2>1 DEF Calls
    <3> QED
      BY <3>1, <3>2
  <2>4. GoesOn(w, k, FALSE)
    BY <1>1, <1>4, <2>1
  <2> QED
    BY <1>1, <2>3, <2>4, ReadsHarmless DEF Inv, Typed, Updates
<1> QED
  BY <1>3, <1>4

LEMMA ShipInv ==
    ASSUME Inv, NEW w \in Workers, NEW v \in Variants, Ship(w, v)
    PROVE  Inv'
<1>1. PICK n, m, q, a, r :
        /\ n = db.quantity[v] - 1 /\ m = db.allocated[v] - 1
        /\ q = [ db.quantity EXCEPT ![v] = n ] /\ a = [ db.allocated EXCEPT ![v] = m ]
        /\ r = [ db EXCEPT !.quantity = q, !.allocated = a ]
  OBVIOUS
<1>2. db.allocated[v] > 0 /\ db.quantity[v] > 0
  BY DEF Ship
<1>3. GoesOn(w, SaveStocks(Idle, "saving", { v }, Recomputed(Shipped(v))), FALSE)
  BY DEF Ship
<1>4. feed' = feed /\ db' = db /\ shown' = shown /\ done' = done
  BY DEF Ship
<1>5. db \in DbRows /\ db.quantity[v] \in Nat /\ db.allocated[v] \in Nat
  BY RowsTyped DEF Inv, Typed
<1>6. n \in Nat /\ m \in Nat
  BY <1>1, <1>2, <1>5
<1>7. q \in [ Variants -> Nat ] /\ a \in [ Variants -> Nat ]
  BY <1>1, <1>5, <1>6, RowsTyped
<1>8. r = Shipped(v)
  BY <1>1, <1>5 DEF Shipped, DbRows
<1>9. /\ r \in DbRows /\ r.quantity = q /\ r.allocated = a
      /\ r.track_inventory = db.track_inventory
  BY <1>1, <1>5, <1>7 DEF DbRows
<1>10. PICK locks, k : locks = { v } /\ k = SaveStocks(Idle, "saving", locks, Recomputed(r))
  OBVIOUS
<1>11. \A u \in Variants \ locks : /\ r.quantity[u] = db.quantity[u]
                                   /\ r.track_inventory[u] = db.track_inventory[u]
                                   /\ r.allocated[u] = db.allocated[u]
  BY <1>1, <1>5, <1>9, <1>10, RowsTyped
<1>12. locks \in SUBSET Variants /\ locks # {}
  BY <1>10
<1>13. GoesOn(w, k, FALSE)
  BY <1>3, <1>8, <1>10
<1> QED
  BY <1>4, <1>9, <1>10, <1>11, <1>12, <1>13, IdleTyped, SaveStocksInv

LEMMA ReadProductInv ==
    ASSUME Inv, NEW w \in Workers, NEW to_publish \in BOOLEAN, ReadProduct(w, to_publish)
    PROVE  Inv'
<1>1. PICK p, d, c :
        /\ p = [ db.product EXCEPT !.is_published = to_publish ]
        /\ d = [ Start EXCEPT !.product = p ]
        /\ c = [ Idle EXCEPT !.task = "publishing", !.db = d ]
  OBVIOUS
<1>2. p \in Product /\ p.instock = db.product.instock
  <2>1. db.product \in Product
    BY RowsTyped DEF Inv, Typed
  <2> QED
    BY <1>1, <2>1, ProductReplaced, Zenon
<1>3. d \in DbRows /\ d.product = p
  BY <1>1, <1>2, IdleTyped DEF DbRows
<1>4. "publishing" \in Task
  BY DEF Task
<1>5. c \in Calls
  BY <1>1, <1>3, <1>4, IdleTyped, Zenon DEF Calls
<1>6. c.task = "publishing" /\ c.db = d
  BY <1>1, IdleTyped DEF Calls
<1>7. GoesOn(w, c, FALSE)
  <2>1. c = [ Idle EXCEPT !.task = "publishing", !.db.product =
                [ db.product EXCEPT !.is_published = to_publish ] ]
    BY <1>1, IdleTyped DEF Calls
  <2> QED
    BY <2>1 DEF ReadProduct
<1>8. Saves(c) /\ Publishes(c)
  BY <1>2, <1>3, <1>6 DEF Saves, Publishes, Updates
<1>9. feed' = feed /\ db' = db /\ shown' = shown /\ done' \in Done
  BY HappensTyped DEF ReadProduct, Inv, Typed
<1> QED
  BY <1>5, <1>7, <1>8, <1>9, ReadsInv DEF Inv, Typed

\* An order makes every save of a stock that is under way stale.
LEMMA AllocateInv ==
    ASSUME Inv, NEW v \in Variants, Allocate(v)
    PROVE  Inv'
<1>1. PICK n, a : /\ n = db.allocated[v] + 1
                  /\ a = [ db.allocated EXCEPT ![v] = n ]
  OBVIOUS
<1>2. /\ db' = [ db EXCEPT !.allocated = a ]
      /\ shown' = FALSE /\ feed' = feed
      /\ call' = [ w \in Workers |-> [ call[w] EXCEPT !.clean = @ /\ call[w].rows = {} ] ]
  BY <1>1 DEF Allocate
<1>3. done' \in Done
  BY HappensTyped DEF Allocate, Inv, Typed
<1>4. db \in DbRows /\ db.allocated[v] \in Nat
  BY RowsTyped DEF Inv, Typed
<1>5. a \in [ Variants -> Nat ]
  BY <1>1, <1>4, RowsTyped
<1>6. db' \in DbRows /\ db'.product = db.product
  BY <1>2, <1>4, <1>5 DEF DbRows
<1>7. ASSUME NEW w \in Workers
      PROVE  \E k \in Calls : k = call'[w] /\ Saves(k)' /\ Publishes(k)'
  <2>1. PICK c, b, k : /\ c = call[w] /\ b = (c.clean /\ c.rows = {})
                       /\ k = [ c EXCEPT !.clean = b ]
    OBVIOUS
  <2>2. c \in Calls /\ Saves(c) /\ Publishes(c)
    BY <2>1, CallsOK DEF CallOK
  <2>3. b \in BOOLEAN
    BY <2>1, <2>2, CallTyped
  <2>4. k \in Calls
    BY <2>1, <2>2, <2>3, Zenon DEF Calls
  <2>5. k = call'[w]
    BY <1>2, <2>1, <2>2 DEF Calls
  <2>6. /\ k.task = c.task /\ k.rows = c.rows /\ k.clean = b /\ k.variant = c.variant
        /\ k.db = c.db
    BY <2>1, <2>2 DEF Calls
  <2>7. c.task \in { "saving", "removing" } => ~b
    BY <2>1, <2>2 DEF Saves
  <2>8. Saves(k)'
    BY <2>2, <2>6, <2>7 DEF Saves, Updates
  <2>9. Publishes(k)'
    BY <1>6, <2>1, <2>2, <2>6 DEF Publishes
  <2> QED
    BY <2>4, <2>5, <2>8, <2>9
<1>8. call' \in [ Workers -> Calls ]
  <2>1. call' = [ w \in Workers |-> call'[w] ]
    BY <1>2
  <2> QED
    BY <1>7, <2>1
<1>9. ASSUME NEW w \in Workers PROVE (Saves(call[w]) /\ Publishes(call[w]))'
  <2>1. PICK k \in Calls : k = call'[w] /\ Saves(k)' /\ Publishes(k)'
    BY <1>7
  <2> QED
    BY <2>1 DEF Saves, Publishes, Merged, Updates
<1>10. InstockRight' /\ shown' \in BOOLEAN
  BY <1>2 DEF InstockRight
<1> QED
  BY <1>2, <1>3, <1>6, <1>8, <1>9, <1>10 DEF Inv, Typed

\* Nothing of Zaamo's changes, but that a call may be gone.
LEMMA RowsStayInv ==
    ASSUME Inv, db' = db, shown' = shown, feed' \in Feed, done' \in Done,
           call' \in [ Workers -> Calls ],
           \A w \in Workers : call'[w] = call[w] \/ call'[w] = Idle
    PROVE  Inv'
<1>1. ASSUME NEW w \in Workers PROVE (Saves(call[w]) /\ Publishes(call[w]))'
  <2>1. PICK k : k = call'[w]
    OBVIOUS
  <2>2. Saves(k) /\ Publishes(k)
    <3>1. CASE k = call[w]
      BY <3>1, CallsOK DEF CallOK
    <3>2. CASE k = Idle
      BY <3>2, IdleTyped DEF Saves, Publishes, Updates
    <3> QED
      BY <2>1, <3>1, <3>2
  <2>3. Saves(k)' /\ Publishes(k)'
    BY <2>2, SameDbOK
  <2> QED
    BY <2>1, <2>3 DEF Saves, Publishes, Merged, Updates
<1>2. InStock(db)' = InStock(db)
  BY DEF InStock
<1>3. InstockRight'
  BY <1>2 DEF Inv, InstockRight
<1> QED
  BY <1>1, <1>3 DEF Inv, Typed

LEMMA CrashInv ==
    ASSUME Inv, NEW w \in Workers, Crash(w)
    PROVE  Inv'
<1>1. call' = [ call EXCEPT ![w] = Idle ] /\ UNCHANGED << feed, db, shown >>
  BY DEF Crash
<1>2. done' \in Done
  BY HappensTyped DEF Crash, Inv, Typed
<1>3. call' \in [ Workers -> Calls ] /\ \A u \in Workers : call'[u] = call[u] \/ call'[u] = Idle
  BY <1>1, IdleTyped DEF Inv, Typed
<1> QED
  BY <1>1, <1>2, <1>3, RowsStayInv DEF Inv, Typed

LEMMA BrandChangesInv ==
    ASSUME Inv, BrandChanges
    PROVE  Inv'
<1>1. done' \in Done
  BY HappensTyped DEF BrandChanges, Inv, Typed
<1>2. UNCHANGED << db, call, shown >>
  BY DEF BrandChanges
<1>3. feed \in Feed
  BY DEF Inv, Typed
<1>4. feed' \in Feed
  <2>1. ASSUME NEW active \in BOOLEAN, NEW empty \in BOOLEAN,
               feed' = [ feed EXCEPT !.active = active, !.empty = empty ]
        PROVE  feed' \in Feed
    BY <1>3, <2>1, Zenon DEF Feed
  <2>2. ASSUME NEW v \in Variants, NEW f \in FeedVariants, feed' = [ feed EXCEPT !.variants[v] = f ]
        PROVE  feed' \in Feed
    <3>1. PICK g : g = [ feed.variants EXCEPT ![v] = f ]
      OBVIOUS
    <3>2. f \in Variant /\ feed.variants \in [ Variants -> Variant ]
      BY <1>3, ResyncAssumption DEF Variant, Feed
    <3>3. g \in [ Variants -> Variant ]
      BY <3>1, <3>2
    <3>4. feed' = [ feed EXCEPT !.variants = g ]
      BY <2>2, <3>1
    <3> QED
      BY <1>3, <3>3, <3>4, Zenon DEF Feed, Variant
  <2> QED
    BY <2>1, <2>2 DEF BrandChanges
<1> QED
  BY <1>1, <1>2, <1>4, RowsStayInv DEF Inv, Typed

-----------------------------------------------------------------------------
(* The sum of the query                                                    *)

\* Numbers that are added once are not more than all of them.
LEMMA DistinctAtMost ==
    ASSUME NEW f, NEW S, IsFiniteSet(S), \A v \in S : f[v] \in Nat,
           NEW distinct, distinct = { f[v] : v \in S }
    PROVE  /\ IsFiniteSet(distinct)
           /\ SumFunctionOnSet([ n \in distinct |-> n ], distinct) <= SumFunctionOnSet(f, S)
<1>1. PICK one : one = [ n \in distinct |-> CHOOSE v \in S : f[v] = n ]
  OBVIOUS
<1>2. \A n \in distinct : one[n] \in S /\ f[one[n]] = n
  <2>1. ASSUME NEW n \in distinct PROVE one[n] \in S /\ f[one[n]] = n
    <3>1. \E v \in S : f[v] = n
      OBVIOUS
    <3> QED
      BY <1>1, <3>1
  <2> QED
    BY <2>1
<1>3. PICK name : name = [ v \in { one[n] : n \in distinct } |-> f[v] ]
  OBVIOUS
<1>4. PICK T : T = { one[n] : n \in distinct }
  OBVIOUS
<1>5. T \subseteq S /\ IsFiniteSet(T)
  BY <1>2, <1>4, FS_Subset
<1>6. \A v \in T : one[f[v]] = v /\ name[v] = f[v] /\ f[v] \in Int
  BY <1>2, <1>3, <1>4, <1>5
<1>7. distinct = { name[v] : v \in T }
  BY <1>2, <1>4, <1>6
<1>8. PICK g : g = [ n \in distinct |-> n ]
  OBVIOUS
<1>9. \A v, u \in T : name[v] = name[u] => v = u
  BY <1>6
<1>10. \A v \in T : f[v] \in Int /\ g[name[v]] = f[v]
  BY <1>6, <1>7, <1>8
<1>11. IsFiniteSet(distinct) /\ SumFunctionOnSet(g, distinct) = SumFunctionOnSet(f, T)
  BY ONLY <1>5, <1>7, <1>9, <1>10, SumRenamed
<1>12. SumFunctionOnSet(f, T) <= SumFunctionOnSet(f, S)
  BY <1>5, SumOfSubset
<1> QED
  BY <1>8, <1>11, <1>12

\* A product that the query counts in stock has a variant with some stock that
\* is not allocated, or one that is not tracked.
LEMMA InStockMeans ==
    ASSUME NEW r \in DbRows, InStock(r)
    PROVE  \E v \in Variants : CanOrder(r, v)
<1>1. PICK tracked : tracked = { v \in Variants : r.track_inventory[v] }
  OBVIOUS
<1>2. CASE tracked # Variants
  BY <1>1, <1>2 DEF CanOrder
<1>3. CASE tracked = Variants
  <2>1. PICK q, a : q = r.quantity /\ a = r.allocated
    OBVIOUS
  <2>2. PICK distinct : distinct = { q[v] : v \in tracked }
    OBVIOUS
  <2>3. PICK total, taken : /\ total = SumFunctionOnSet([ n \in distinct |-> n ], distinct)
                            /\ taken = SumFunctionOnSet(a, tracked)
    OBVIOUS
  <2>4. total - taken > 0
    BY <1>1, <1>3, <2>1, <2>2, <2>3 DEF InStock, SumOf
  <2>5. IsFiniteSet(tracked)
    BY <1>3, ResyncAssumption
  <2>6. \A v \in tracked : q[v] \in Nat /\ a[v] \in Nat
    BY <1>3, <2>1, RowsTyped
  <2>7. IsFiniteSet(distinct) /\ total <= SumFunctionOnSet(q, tracked)
    BY <2>2, <2>3, <2>5, <2>6, DistinctAtMost
  <2>8. /\ SumFunctionOnSet(q, tracked) \in Nat /\ taken \in Nat
    BY <2>3, <2>5, <2>6, SumNat
  <2>9. total \in Nat
    BY <2>2, <2>3, <2>6, <2>7, SumNat
  <2>10. ~(SumFunctionOnSet(q, tracked) <= taken)
    BY <2>4, <2>7, <2>8, <2>9
  <2>11. ~ \A v \in tracked : q[v] \in Int /\ a[v] \in Int /\ q[v] <= a[v]
    BY <2>3, <2>5, <2>10, SumAtMost
  <2>12. PICK v \in tracked : q[v] > a[v]
    BY <2>6, <2>11
  <2> QED
    BY <1>3, <2>1, <2>12 DEF CanOrder
<1> QED
  BY <1>2, <1>3

-----------------------------------------------------------------------------
(* The theorems                                                            *)

LEMMA InitInv == Init => Inv
<1> SUFFICES ASSUME Init PROVE Inv
  OBVIOUS
<1>1. /\ db = [ Start EXCEPT !.product.instock = InStock(Start) ]
      /\ call = [ w \in Workers |-> Idle ] /\ shown = TRUE
  BY DEF Init
<1>2. feed \in Feed
  <2>1. PICK f : f = [ listed |-> TRUE, quantity |-> 0, track_inventory |-> TRUE ]
    OBVIOUS
  <2>2. f \in Variant
    BY <2>1 DEF Variant
  <2>3. feed = [ active |-> TRUE, empty |-> FALSE, variants |-> [ v \in Variants |-> f ] ]
    BY <2>1 DEF Init
  <2> QED
    BY <2>2, <2>3 DEF Feed, Variant
<1>3. done \in Done
  BY DEF Init, Done
<1>4. db \in DbRows /\ InstockRight
  <2>1. db = Recomputed(Start)
    BY <1>1 DEF Recomputed
  <2>2. Start \in DbRows
    BY IdleTyped
  <2>3. InStock(Recomputed(Start)) = InStock(Start)
    BY <2>2, RecomputedRows, SameStocks
  <2> QED
    BY <2>1, <2>2, <2>3, RecomputedRows DEF InstockRight
<1>5. ASSUME NEW w \in Workers PROVE Saves(call[w]) /\ Publishes(call[w])
  <2>1. call[w].task = "idle"
    BY <1>1, IdleTyped
  <2> QED
    BY <2>1 DEF Saves, Publishes, Updates
<1> QED
  BY <1>1, <1>2, <1>3, <1>4, <1>5, IdleTyped DEF Inv, Typed

LEMMA NextInv == Inv /\ [Next]_vars => Inv'
<1> SUFFICES ASSUME Inv, [Next]_vars PROVE Inv'
  OBVIOUS
<1>1. CASE UNCHANGED vars
  <2>1. feed' = feed /\ db' = db /\ call' = call /\ shown' = shown /\ done' = done
    BY <1>1 DEF vars
  <2> QED
    BY <2>1, RowsStayInv DEF Inv, Typed
<1>2. CASE BrandChanges
  BY <1>2, BrandChangesInv
<1>3. ASSUME NEW v \in Variants, Allocate(v) PROVE Inv'
  BY <1>3, AllocateInv
<1>4. ASSUME NEW w \in Workers, StartResync(w) PROVE Inv'
  BY <1>4, StartResyncInv
<1>5. ASSUME NEW w \in Workers, Step(w) PROVE Inv'
  BY <1>5, RemoveVariantsInv, HideInv, UpdateVariantInv, UpdateStockInv, CommitInv,
     ResyncEndsInv, SaveProductInv DEF Step
<1>6. ASSUME NEW w \in Workers, Crash(w) PROVE Inv'
  BY <1>6, CrashInv
<1>7. ASSUME NEW w \in Workers, NEW v \in Variants, Ship(w, v) PROVE Inv'
  BY <1>7, ShipInv
<1>8. ASSUME NEW w \in Workers, NEW to_publish \in BOOLEAN, ReadProduct(w, to_publish) PROVE Inv'
  BY <1>8, ReadProductInv
<1> QED
  BY <1>1, <1>2, <1>3, <1>4, <1>5, <1>6, <1>7, <1>8 DEF Next

LEMMA InvHolds == Spec => []Inv
BY InitInv, NextInv, PTL DEF Spec

\* Whatever the shop shows, also negative quantities: the rows of the product
\* and its stocks, and the copies that the calls have of them, have their types;
\* no stock and no allocation falls below zero (shopify_impl.py, warehouse/models.py).
THEOREM TypesHold == Spec => []TypeOK
<1>1. Inv => TypeOK
  <2> SUFFICES ASSUME Inv PROVE TypeOK
    OBVIOUS
  <2>1. /\ feed \in Feed /\ db \in DbRows /\ call \in [ Workers -> Calls ]
        /\ shown \in BOOLEAN /\ done \in Done
    BY DEF Inv, Typed
  <2> QED
    BY <2>1, RowsTyped DEF TypeOK, Calls, DbRows, Done
<1> QED
  BY <1>1, InvHolds, PTL

\* metadata["instock"] is what set_product_metadata_instock computes from the
\* committed rows, for any number of variants and of saves that overlap, unless
\* one of the three things that never look at it has happened since: an
\* overlapping save, an allocation, or a change of tracking.  What that
\* sum says of the stock is ShownCanBeOrdered.
THEOREM InstockSaysTheStock == Spec => []InstockRight
<1>1. Inv => InstockRight
  BY DEF Inv
<1> QED
  BY <1>1, InvHolds, PTL

\* Although it adds equal quantities of two variants once, the query never
\* shows a product in stock that is sold out: for any quantities, as long as
\* nothing has outdated the flag, one of the variants can be ordered.
THEOREM ShownCanBeOrdered == Spec => []InstockCanBeOrdered
<1>1. Inv => InstockCanBeOrdered
  <2> SUFFICES ASSUME Inv, shown, db.product.instock
               PROVE  \E v \in Variants : CanOrder(db, v)
    BY DEF InstockCanBeOrdered
  <2>1. db \in DbRows /\ InStock(db)
    BY DEF Inv, Typed, InstockRight
  <2> QED
    BY <2>1, InStockMeans
<1> QED
  BY <1>1, InvHolds, PTL
=============================================================================
