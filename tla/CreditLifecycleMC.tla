--------------------------- MODULE CreditLifecycleMC ---------------------------
(* The instance of CreditLifecycle that TLC checks.  Processes, charges and *)
(* top-ups are interchangeable, and no property tells them apart.           *)
EXTENDS CreditLifecycle, TLC

Symmetry == Permutations(Procs) \cup Permutations(Charges) \cup Permutations(Topups)
===============================================================================
