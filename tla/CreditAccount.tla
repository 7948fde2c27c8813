----------------------------- MODULE CreditAccount -----------------------------
(***************************************************************************)
(* What the billing code promises about a wallet, whatever services run on *)
(* it and however they interleave or crash: credits come in only under a   *)
(* key that is honoured once, or as a manual credit that leaves a row of   *)
(* its own; everything else only takes credits out, and never more than    *)
(* there are.                                                              *)
(***************************************************************************)
EXTENDS Integers

CONSTANTS
  Cap,        \* no wallet holds more
  Allowance   \* the balance a free month tops up to

VARIABLES
  funds,      \* credits in the account
  honoured,   \* keys of the grants and refunds made
  manual      \* the manual credits made

account == <<funds, honoured, manual>>

Open == funds = 0 /\ honoured = {} /\ manual = << >>

(* A grant or a refund under a fresh key. *)
Honour ==
  /\ \E key \in honoured' : key \notin honoured /\ honoured' = honoured \cup {key}
  /\ funds' \in 0..Cap
  /\ funds' > funds \/ funds' = Allowance
  /\ UNCHANGED manual

Adjust ==
  /\ funds' \in 0..Cap /\ funds' > funds
  /\ manual' # manual
  /\ UNCHANGED honoured

Withdraw ==
  /\ funds' \in 0..Cap /\ funds' < funds
  /\ UNCHANGED <<honoured, manual>>

Move == Honour \/ Adjust \/ Withdraw

AccountSpec == Open /\ [][Move]_account
===============================================================================
