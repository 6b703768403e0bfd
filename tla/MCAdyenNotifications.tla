------------------------ MODULE MCAdyenNotifications ------------------------
(***************************************************************************)
(* AdyenNotifications for TLC.                                             *)
(***************************************************************************)
EXTENDS AdyenNotifications, TLC

\* Staff capture, Adyen does, or Saleor does.
Capturing(adyen, saleor) == [ adyen_auto_capture |-> adyen, auto_capture |-> saleor ]

StaffCapture == { Capturing(FALSE, FALSE) }
AnyCapture == { Capturing(FALSE, FALSE), Capturing(TRUE, FALSE), Capturing(FALSE, TRUE) }

\* Where Saleor captures there are most notifications to come.
Redeliveries == [ c \in AnyCapture |-> IF c.auto_capture THEN 0 ELSE 1 ]
StaffRedeliveries == [ c \in StaffCapture |-> 1 ]

WorkerSymmetry == Permutations(Workers)
=============================================================================
