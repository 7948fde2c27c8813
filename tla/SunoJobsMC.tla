------------------------------ MODULE SunoJobsMC ------------------------------
(* The instance of SunoJobs that TLC checks: two jobs of one user, who may have *)
(* one at a time, the first inline and the second through the queue; and jobs   *)
(* of no user, which only the global ceiling bounds.                            *)
EXTENDS SunoJobs

CONSTANTS inline, queued, user, system

OwnerMC   == [j \in Jobs |-> IF j \in Crowd THEN system ELSE user]
UserCapMC == [o \in {Owner[j] : j \in Jobs} |-> IF o = system THEN 9 ELSE 1]
===============================================================================
