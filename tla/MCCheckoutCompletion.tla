------------------------- MODULE MCCheckoutCompletion -------------------------
(***************************************************************************)
(* CheckoutCompletion for TLC: up to three checkouts, workers that are      *)
(* interchangeable.                                                        *)
(***************************************************************************)
EXTENDS CheckoutCompletion, TLC

CONSTANTS c1, c2, c3, ann, bob

WorkerSymmetry == Permutations(Requests)

\* ann has two browser windows open, bob one.
Customers == c1 :> ann @@ c2 :> ann @@ c3 :> bob
=============================================================================
