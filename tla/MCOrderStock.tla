---------------------------- MODULE MCOrderStock ----------------------------
(***************************************************************************)
(* OrderStock for TLC: two lines of one variant, kept in two warehouses,   *)
(* in two orders or in one.                                                *)
(***************************************************************************)
EXTENDS OrderStock

CONSTANTS l1, l2, o1, o2, north, south

TwoOrders == l1 :> o1 @@ l2 :> o2
OneOrder  == l1 :> o1 @@ l2 :> o1

TwoAndOne == l1 :> 2 @@ l2 :> 1
OneEach   == l1 :> 1 @@ l2 :> 1

BothStocks == l1 :> { 1, 2 } @@ l2 :> { 1, 2 }
OwnStock   == l1 :> { 1 } @@ l2 :> { 2 }

Warehouses   == 1 :> north @@ 2 :> south
OneWarehouse == 1 :> north @@ 2 :> north

TwoAndOneInStock == 1 :> 2 @@ 2 :> 1
OneInStock       == 1 :> 1 @@ 2 :> 0
OneInEach        == 1 :> 1 @@ 2 :> 1
=============================================================================
