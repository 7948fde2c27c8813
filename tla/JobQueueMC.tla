------------------------------ MODULE JobQueueMC ------------------------------
(* The instance of JobQueue that TLC checks: two workers that drain all job  *)
(* types, an image drain that is enqueued if absent, and a song generation   *)
(* that is enqueued directly and outranks it.                                *)
EXTENDS JobQueue

CONSTANTS song, images

MCPriority == [k \in Kinds |-> IF k = song THEN 16 ELSE 12]
MCServes   == [w \in Workers |-> Kinds]
===============================================================================
