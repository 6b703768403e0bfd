-------------------------- MODULE MCPaymentGateway --------------------------
(***************************************************************************)
(* PaymentGateway for TLC: workers are interchangeable, which the safety   *)
(* runs use and the liveness run does not.                                 *)
(***************************************************************************)
EXTENDS PaymentGateway, TLC

WorkerSymmetry == Permutations(Requests)

\* What staff may ask for, while the customer may open another payment.
StaffOperations == { "authorize", "capture", "refund", "void", "cancel" }
=============================================================================
