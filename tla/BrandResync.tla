----------------------------- MODULE BrandResync -----------------------------
(***************************************************************************)
(* A product that Zaamo sells for a brand, kept in step with the brand's   *)
(* own Shopify shop.  The periodic resync reads the shop once, zeroes the  *)
(* stock of the variants it no longer has, copies the quantities of the    *)
(* others and unpublishes what is not active any more.  A brand whose shop *)
(* shows nothing at all is skipped.  Meanwhile orders are shipped and      *)
(* staff publish or hide the product.                                      *)
(*                                                                         *)
(* Each of them saves the whole product row from a copy it read before:    *)
(* Stock.save() through set_product_metadata_instock, which recomputes     *)
(* metadata["instock"], and pdpPublishProduct, which sets is_published.    *)
(* Such a save is two actions, one that reads and one that writes.         *)
(***************************************************************************)
EXTENDS Integers, FiniteSetsExt, Functions

CONSTANTS
    Workers,         \* celery and web workers
    Variants,        \* the product's variants, 1 .. n in the order of their pk
    FeedVariants,    \* bound: what the brand's shop may show of a variant
    MaxFeedChanges,  \* bound: times the brand changes its shop
    MaxOrders,       \* bound: units customers order
    MaxPublications, \* bound: calls of pdpPublishProduct
    MaxCrashes       \* bound: workers that die

\* A variant that the shop does not have (any more).
Absent == [ listed |-> FALSE, quantity |-> 0, track_inventory |-> TRUE ]

ASSUME ResyncAssumption ==
    /\ IsFiniteSet(Variants) /\ Variants # {} /\ Variants = 1 .. Cardinality(Variants)
    /\ FeedVariants \subseteq
         [ listed : BOOLEAN, quantity : Int, track_inventory : BOOLEAN ]
    /\ \A f \in FeedVariants : f.listed \/ f = Absent
    /\ MaxFeedChanges \in Nat /\ MaxOrders \in Nat
    /\ MaxPublications \in Nat /\ MaxCrashes \in Nat

VARIABLES
    feed,     \* external: the product in the brand's shop, or that it is empty
    db,       \* the rows of the product, its variants, stocks and allocations
    call,     \* what each worker is doing
    shown,    \* history: nothing has outdated product.metadata["instock"]
    done      \* history: bounded events that have happened

vars == << feed, db, call, shown, done >>

Feed ==
    [ active : BOOLEAN, empty : BOOLEAN,
      variants : [ Variants -> [ listed : BOOLEAN, quantity : Int, track_inventory : BOOLEAN ] ] ]

Product == [ is_published : BOOLEAN, instock : BOOLEAN ]

Task == { "idle", "remove", "hide", "variant", "stock", "saving", "removing", "publishing" }

TypeOK ==
    /\ feed \in Feed
    /\ db.quantity \in [ Variants -> Nat ]
    /\ db.track_inventory \in [ Variants -> BOOLEAN ]
    /\ db.allocated \in [ Variants -> Nat ]
    /\ db.product \in Product
    /\ call \in [ Workers ->
          [ task : Task, seen : Feed, variant : Nat, resyncs : BOOLEAN,
            rows : SUBSET Variants, db : [ quantity : [ Variants -> Nat ],
            track_inventory : [ Variants -> BOOLEAN ],
            allocated : [ Variants -> Nat ], product : Product ],
            clean : BOOLEAN ] ]
    /\ shown \in BOOLEAN
    /\ done \in [ { "change", "order", "publish", "crash" } -> Nat ]

\* Mutant: an oversold variant keeps its sign.
CleanSigned(q) == q

\* Quantities below zero (oversold) become zero.
Clean(q) == IF q < 0 THEN 0 ELSE q

-----------------------------------------------------------------------------
(* metadata["instock"]                                                     *)

SumOf(f, S) == SumFunctionOnSet(f, S)

\* Mutant: what is allocated still counts as there.
InStockUnallocated(rows) ==
    \E v \in Variants : ~rows.track_inventory[v] \/ rows.quantity[v] > 0

\* The query of set_product_metadata_instock groups the product's stocks by
\* track_inventory and adds Sum(quantity, distinct=True): equal quantities
\* of two variants count once.
InStock(rows) ==
    LET tracked  == { v \in Variants : rows.track_inventory[v] }
        distinct == { rows.quantity[v] : v \in tracked }
        total    == SumOf([ n \in distinct |-> n ], distinct)
    IN  tracked # Variants \/ total - SumOf(rows.allocated, tracked) > 0

\* What a customer can still order.
CanOrder(rows, v) == ~rows.track_inventory[v] \/ rows.quantity[v] > rows.allocated[v]

-----------------------------------------------------------------------------
Start ==
    [ quantity |-> [ v \in Variants |-> 0 ],
      track_inventory |-> [ v \in Variants |-> TRUE ],
      allocated |-> [ v \in Variants |-> 0 ],
      product |-> [ is_published |-> TRUE, instock |-> FALSE ] ]

Idle ==
    [ task |-> "idle",
      seen |-> [ active |-> FALSE, empty |-> FALSE, variants |-> [ v \in Variants |-> Absent ] ],
      variant |-> 1, resyncs |-> FALSE, rows |-> {}, db |-> Start, clean |-> TRUE ]

\* The product was imported, and its stocks saved, when the shop had it with
\* no stock.
Init ==
    /\ feed = [ active |-> TRUE, empty |-> FALSE, variants |-> [ v \in Variants |->
                  [ listed |-> TRUE, quantity |-> 0, track_inventory |-> TRUE ] ] ]
    /\ db = [ Start EXCEPT !.product.instock = InStock(Start) ]
    /\ call = [ w \in Workers |-> Idle ]
    /\ shown = TRUE
    /\ done = [ e \in { "change", "order", "publish", "crash" } |-> 0 ]

Happens(event, max) ==
    /\ done[event] < max
    /\ done' = [ done EXCEPT ![event] = @ + 1 ]

\* Row locks of stocks, held from the read to the commit of a save.
Locked(v) == \E w \in Workers : v \in call[w].rows

\* w goes on with c; what it wrote makes the copies of other calls stale.
GoesOn(w, c, writes) ==
    call' = [ u \in Workers |->
                IF u = w THEN c
                ELSE IF writes /\ call[u].task \in { "saving", "removing", "publishing" }
                THEN [ call[u] EXCEPT !.clean = FALSE ] ELSE call[u] ]

-----------------------------------------------------------------------------
(* Stock.save(): the stock rows are locked and written, instock is         *)
(* computed from them and what others have committed, the product is read; *)
(* then the product is written whole, and all of it is committed.          *)

\* Mutant: instock is computed before the stock is written.
RecomputedEarly(rows) ==
    [ rows EXCEPT !.product.instock = InStock([ rows EXCEPT !.quantity = db.quantity ]) ]

Recomputed(rows) == [ rows EXCEPT !.product.instock = InStock(rows) ]

\* c holds the locks of some stocks, what it wrote to them and the product.
SaveStocks(c, task, locks, rows) ==
    LET Own(f, g) == [ v \in Variants |-> IF v \in locks THEN f[v] ELSE g[v] ]
    IN  [ c EXCEPT !.task = task, !.rows = locks, !.clean = TRUE,
            !.db = [ quantity |-> Own(rows.quantity, Start.quantity),
                     track_inventory |-> Own(rows.track_inventory, Start.track_inventory),
                     allocated |-> Own(rows.allocated, Start.allocated),
                     product |-> rows.product ] ]

Written(c) ==
    [ quantity |-> [ v \in Variants |-> IF v \in c.rows THEN c.db.quantity[v] ELSE db.quantity[v] ],
      track_inventory |->
        [ v \in Variants |-> IF c.task = "removing" /\ v \in c.rows
                             THEN TRUE ELSE db.track_inventory[v] ],
      allocated |-> [ v \in Variants |-> IF v \in c.rows THEN c.db.allocated[v] ELSE db.allocated[v] ],
      product |-> c.db.product ]

\* Tracking that is switched on after instock was computed may leave it wrong.
Commit(w) ==
    LET c == call[w]
        next == IF c.task = "removing" THEN "hide"
                ELSE IF c.resyncs THEN "variant" ELSE "idle"
        after == IF c.resyncs
                 THEN [ c EXCEPT !.task = next, !.rows = {}, !.db = Start, !.clean = TRUE,
                                 !.variant = IF next = "variant" THEN @ + 1 ELSE @ ]
                 ELSE Idle
    IN  /\ c.task \in { "saving", "removing" }
        /\ db' = Written(c)
        /\ shown' = (c.clean /\ \A v \in c.rows : Written(c).track_inventory[v] = c.db.track_inventory[v])
        /\ GoesOn(w, after, TRUE)
        /\ UNCHANGED << feed, done >>

-----------------------------------------------------------------------------
(* The resync of the brand                                                 *)
Removed(c) == { v \in Variants : ~c.seen.variants[v].listed }

\* resync_price_and_inventory works through what it fetched once.  A feed
\* without any product is taken for a failure, and the brand is skipped.
StartResync(w) ==
    /\ call[w].task = "idle"
    /\ GoesOn(w, IF feed.active
                 THEN [ Idle EXCEPT !.task = "remove", !.resyncs = TRUE, !.seen = feed ]
                 ELSE IF feed.empty THEN call[w]
                 ELSE [ Idle EXCEPT !.task = "hide", !.resyncs = TRUE ], FALSE)
    /\ UNCHANGED << feed, db, shown, done >>

\* The quantities of removed variants are zeroed one after the other; each
\* is tracked only after its save, so the last counts as it was.
Zeroed(R) ==
    LET last == Max(R)
    IN  [ db EXCEPT !.quantity = [ v \in Variants |-> IF v \in R THEN 0 ELSE @[v] ],
                    !.track_inventory =
                        [ v \in Variants |-> IF v \in R \ { last } THEN TRUE ELSE @[v] ] ]

RemoveVariants(w) ==
    LET c == call[w]
    IN  /\ c.task = "remove"
        /\ IF Removed(c) = {}
           THEN GoesOn(w, [ c EXCEPT !.task = "variant" ], FALSE)
           ELSE /\ \A v \in Removed(c) : ~Locked(v)
                /\ GoesOn(w, SaveStocks(c, "removing", Removed(c), Recomputed(Zeroed(Removed(c)))), FALSE)
        /\ UNCHANGED << feed, db, shown, done >>

\* Mutant: only a product without variants is unpublished.
HidesEmptyOnly(c) == c.seen.active /\ Removed(c) = Variants

\* The product is unpublished, its row locked from the read to the write, when
\* the shop has none of its variants left, or does not have it active.
Hides(c) == ~c.seen.active \/ Removed(c) = Variants

Hide(w) ==
    LET c == call[w]
    IN  /\ c.task = "hide"
        /\ db' = IF Hides(c) THEN [ db EXCEPT !.product.is_published = FALSE ] ELSE db
        /\ GoesOn(w, IF c.seen.active THEN [ c EXCEPT !.task = "variant" ] ELSE Idle, db' # db)
        /\ UNCHANGED << feed, shown, done >>

\* The variant's row is saved when its tracking (or price) has changed; that
\* does not look at instock.
UpdateVariant(w) ==
    LET c == call[w]
        v == c.variant
    IN  /\ c.task = "variant"
        /\ v \in Variants
        /\ IF c.seen.variants[v].listed
           THEN /\ db' = [ db EXCEPT !.track_inventory[v] = c.seen.variants[v].track_inventory ]
                /\ shown' = (shown /\ db' = db)
                /\ GoesOn(w, [ c EXCEPT !.task = "stock" ], db' # db)
           ELSE /\ GoesOn(w, [ c EXCEPT !.variant = v + 1 ], FALSE)
                /\ UNCHANGED << db, shown >>
        /\ UNCHANGED << feed, done >>

ResyncEnds(w) ==
    /\ call[w].task = "variant" /\ call[w].variant \notin Variants
    /\ GoesOn(w, Idle, FALSE)
    /\ UNCHANGED << feed, db, shown, done >>

\* Mutant: a stock that has fallen is left alone.
StockDiffersUp(c) == db.quantity[c.variant] < Clean(c.seen.variants[c.variant].quantity)

StockDiffers(c) == db.quantity[c.variant] # Clean(c.seen.variants[c.variant].quantity)

UpdateStock(w) ==
    LET c == call[w]
        v == c.variant
        rows == [ db EXCEPT !.quantity[v] = Clean(c.seen.variants[v].quantity) ]
    IN  /\ c.task = "stock"
        /\ ~Locked(v)
        /\ GoesOn(w, IF StockDiffers(c)
                     THEN SaveStocks(c, "saving", { v }, Recomputed(rows))
                     ELSE [ c EXCEPT !.task = "variant", !.variant = v + 1 ], FALSE)
        /\ UNCHANGED << feed, db, shown, done >>

-----------------------------------------------------------------------------
(* Orders: a unit is allocated when it is ordered, which saves no stock;   *)
(* shipping it decreases the stock.                                        *)
Allocate(v) ==
    /\ db.track_inventory[v] /\ CanOrder(db, v) /\ ~Locked(v)
    /\ Happens("order", MaxOrders)
    /\ db' = [ db EXCEPT !.allocated[v] = @ + 1 ]
    /\ shown' = FALSE
    /\ call' = [ w \in Workers |-> [ call[w] EXCEPT !.clean = @ /\ call[w].rows = {} ] ]
    /\ UNCHANGED feed

\* Mutant: the allocation of what is shipped is kept.
ShippedKept(v) == [ db EXCEPT !.quantity[v] = @ - 1 ]

Shipped(v) == [ db EXCEPT !.quantity[v] = @ - 1, !.allocated[v] = @ - 1 ]

Ship(w, v) ==
    /\ call[w].task = "idle"
    /\ ~Locked(v)
    /\ db.track_inventory[v] /\ db.allocated[v] > 0 /\ db.quantity[v] > 0
    /\ GoesOn(w, SaveStocks(Idle, "saving", { v }, Recomputed(Shipped(v))), FALSE)
    /\ UNCHANGED << feed, db, shown, done >>

\* pdpPublishProduct reads the product, sets is_published and saves it all.
ReadProduct(w, to_publish) ==
    /\ call[w].task = "idle"
    /\ Happens("publish", MaxPublications)
    /\ GoesOn(w, [ Idle EXCEPT !.task = "publishing", !.db.product =
                    [ db.product EXCEPT !.is_published = to_publish ] ], FALSE)
    /\ UNCHANGED << feed, db, shown >>

SaveProduct(w) ==
    /\ call[w].task = "publishing"
    /\ db' = [ db EXCEPT !.product = call[w].db.product ]
    /\ shown' = (shown /\ call[w].clean)
    /\ GoesOn(w, Idle, TRUE)
    /\ UNCHANGED << feed, done >>

-----------------------------------------------------------------------------
\* The brand shows the product, or something else, or empties its shop.
BrandChanges ==
    /\ Happens("change", MaxFeedChanges)
    /\ \/ \E active, empty \in BOOLEAN :
            /\ ~(active /\ empty)
            /\ feed' = [ feed EXCEPT !.active = active, !.empty = empty ]
       \/ \E v \in Variants, f \in FeedVariants : feed' = [ feed EXCEPT !.variants[v] = f ]
    /\ UNCHANGED << db, call, shown >>

\* The transaction of a dead worker is rolled back.  Its task, acknowledged
\* late, is delivered again: a resync that starts.
Crash(w) ==
    /\ call[w].task # "idle"
    /\ Happens("crash", MaxCrashes)
    /\ call' = [ call EXCEPT ![w] = Idle ]
    /\ UNCHANGED << feed, db, shown >>

Step(w) ==
    \/ RemoveVariants(w) \/ Hide(w) \/ UpdateVariant(w) \/ UpdateStock(w)
    \/ Commit(w) \/ ResyncEnds(w) \/ SaveProduct(w)

Next ==
    \/ BrandChanges
    \/ \E v \in Variants : Allocate(v)
    \/ \E w \in Workers :
        \/ StartResync(w) \/ Step(w) \/ Crash(w)
        \/ \E v \in Variants : Ship(w, v)
        \/ \E to_publish \in BOOLEAN : ReadProduct(w, to_publish)

Spec == Init /\ [][Next]_vars

\* Celery beat starts the resync again and again, and workers go on; a shop
\* that cannot be read is skipped, but not for ever.
FairSpec ==
    /\ Spec
    /\ WF_vars(\E w \in Workers : StartResync(w))
    /\ \A w \in Workers : WF_vars(Step(w))

-----------------------------------------------------------------------------
\* metadata["instock"] is what the query computes from the rows, unless a
\* save overlapped another one, an order was allocated or tracking was changed
\* since: none of these looks at instock again (warehouse/models.py:102).
InstockRight == shown => db.product.instock = InStock(db)

\* A product that is rightly shown in stock has a variant that can be ordered,
\* although equal quantities are added up once (warehouse/models.py:108).
InstockCanBeOrdered ==
    shown /\ db.product.instock => \E v \in Variants : CanOrder(db, v)

\* When the brand leaves its shop alone and customers their orders, the
\* stocks end up as the shop has them, and stay so: what overlapping resyncs
\* read of an older shop is put right by a later one (shopify_impl.py:1506).
Matches(v) ==
    LET f == feed.variants[v]
    IN  db.quantity[v] = Clean(f.quantity) /\ db.track_inventory[v] = f.track_inventory

StocksSettle ==
    <>[]feed.active => <>[](\A v \in Variants : Matches(v))

\* A product that the brand has taken out of its shop for good, while the shop
\* still shows another one, ends up unpublished and stays so, whatever copies
\* of it were saved in between (shopify_impl.py:1467).
DelistedIsHidden ==
    <>[](~feed.active /\ ~feed.empty) => <>[]~db.product.is_published

\* The same of a shop that shows nothing any more: the resync skips the brand
\* (shopify_impl.py:1543), what it had published stays published.
EmptiedIsHidden == <>[]feed.empty => <>[]~db.product.is_published

\* Once the product's instock flag is outdated, a later save of a stock
\* repairs it; a resync that finds no difference never does.
InstockFollows ==
    (\A w \in Workers : call[w].task = "idle") => db.product.instock = InStock(db)

\* A product of which something can be ordered is shown in stock.
CanBeOrderedIsInstock ==
    shown /\ (\E v \in Variants : CanOrder(db, v)) => db.product.instock
=============================================================================
