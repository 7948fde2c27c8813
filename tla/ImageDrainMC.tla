----------------------------- MODULE ImageDrainMC -----------------------------
(* The instance of ImageDrain that TLC checks: a background and the thumbnail *)
(* made from it, which only the drains of their batch touch.                  *)
EXTENDS ImageDrain

CONSTANTS images, background, thumbnail

MCPriority == [k \in Kinds |-> 12]
MCServes   == [w \in Workers |-> Kinds]
MCSource   == [i \in Images |-> IF i = thumbnail THEN background ELSE NoImage]
===============================================================================
