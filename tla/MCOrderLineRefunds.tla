-------------------------- MODULE MCOrderLineRefunds --------------------------
(***************************************************************************)
(* OrderLineRefunds for TLC.                                               *)
(***************************************************************************)
EXTENDS OrderLineRefunds

CONSTANTS l1, l2, l3, w1, w2
=============================================================================
