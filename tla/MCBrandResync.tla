---------------------------- MODULE MCBrandResync ----------------------------
(***************************************************************************)
(* BrandResync for TLC.                                                    *)
(***************************************************************************)
EXTENDS BrandResync, TLC

OneVariant == { 1 }
TwoVariants == { 1, 2 }

Tracked(q) == [ listed |-> TRUE, quantity |-> q, track_inventory |-> TRUE ]
Untracked(q) == [ listed |-> TRUE, quantity |-> q, track_inventory |-> FALSE ]

\* Gone, oversold (a negative quantity, for 0), in stock and not tracked.
SomeOfEach == { Absent, Tracked(-1), Tracked(1), Untracked(1) }
UpToTwo == { Tracked(0), Tracked(1), Tracked(2) }

WorkerSymmetry == Permutations(Workers)
=============================================================================
