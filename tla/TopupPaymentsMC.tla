---------------------------- MODULE TopupPaymentsMC ----------------------------
(* The instance of TopupPayments that TLC checks: one pack through each of the *)
(* two gateways.  The processes are interchangeable, but the run has liveness  *)
(* properties and so does without symmetry.                                    *)
EXTENDS TopupPayments

CONSTANTS tc, tl   \* the top-up paid through ChmabaPay, and the one through CutLuy

ProviderMC == [t \in Topups |-> IF t = tc THEN "chmaba" ELSE "cutluy"]
===============================================================================
