---------------------------- MODULE OrderPlacement ----------------------------
(***************************************************************************)
(* What completing a checkout promises, whatever requests, webhooks and    *)
(* failures there are in between: a checkout becomes an order at most      *)
(* once, only when its payment is booked, the checkout is gone the moment  *)
(* the order is there, and the order is handed to the brands at most once. *)
(***************************************************************************)
EXTENDS Naturals

CONSTANT Checkouts

VARIABLES
    open,         \* the checkouts that can still be completed
    booked,       \* the checkouts for which a capture is in the books
    orders,       \* how many orders were made from each checkout
    dispatched    \* how often its order was handed to the brands

vars == << open, booked, orders, dispatched >>

Init ==
    /\ open = Checkouts
    /\ booked = {}
    /\ orders = [ c \in Checkouts |-> 0 ]
    /\ dispatched = [ c \in Checkouts |-> 0 ]

\* The customer's money is booked, but the checkout is not completed.
Book(c) ==
    /\ c \in open
    /\ booked' = booked \cup { c }
    /\ UNCHANGED << open, orders, dispatched >>

\* A capture of a checkout that is not completed can drop out of the books
\* again; one of an order never does.
Unbook(c) ==
    /\ c \in open
    /\ booked' = booked \ { c }
    /\ UNCHANGED << open, orders, dispatched >>

\* The checkout is completed: its capture is booked now or was before.
PlaceOrder(c) ==
    /\ c \in open
    /\ orders[c] = 0
    /\ open' = open \ { c }
    /\ booked' = booked \cup { c }
    /\ orders' = [ orders EXCEPT ![c] = 1 ]
    /\ UNCHANGED dispatched

Dispatch(c) ==
    /\ orders[c] = 1
    /\ dispatched[c] = 0
    /\ dispatched' = [ dispatched EXCEPT ![c] = 1 ]
    /\ UNCHANGED << open, booked, orders >>

Next == \E c \in Checkouts : Book(c) \/ Unbook(c) \/ PlaceOrder(c) \/ Dispatch(c)

Spec == Init /\ [][Next]_vars
=============================================================================
