------------------------------ MODULE WebSongsMC ------------------------------
(* The instance of WebSongs that TLC checks: every song has the same priority, *)
(* every worker serves them all.                                               *)
EXTENDS WebSongs, TLC

MCPriority == [s \in Songs |-> 16]
MCServes   == [w \in Workers |-> Songs]

Symmetry == Permutations(Workers) \cup Permutations(Songs) \cup Permutations(Hooks)

(* At most two of a lock that goes stale, a crash and a lost id in a behaviour: *)
(* any two of them together, but not all three.                                *)
FewTroubles == overruns + crashes + Cardinality({s \in Songs : lost[s] > 0}) <= 2
===============================================================================
