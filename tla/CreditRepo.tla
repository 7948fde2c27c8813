------------------------------- MODULE CreditRepo -------------------------------
(***************************************************************************)
(* The wallet of one user and the transactions of CreditRepository on it.  *)
(* Every method opens one database transaction that first locks the wallet *)
(* row, so each is one atomic action here.  The rows of other users are    *)
(* never touched by a transaction, so one wallet shows all interleavings.  *)
(* An action is parameterised by the method's arguments; the modules that  *)
(* extend this one say which callers pass which arguments.                 *)
(***************************************************************************)
EXTENDS CreditLots, FiniteSetsExt

CONSTANTS
  MaxBalance,   \* MAX_WALLET_BALANCE, in credits
  NoRef         \* ref_id = None

ASSUME MaxBalanceAssumption == MaxBalance \in Nat

VARIABLES
  balance,   \* credit_wallets.balance
  lots,      \* the user's credit_wallet_lots, oldest first
  txns,      \* credit_transactions: how many equal rows there are of each row
  claims,    \* credit_grant_claims: the <<reason, ref_id>> already granted
  now        \* the day of the database clock

repoVars == <<balance, lots, txns, claims, now>>

-------------------------------------------------------------------------------
(* created_at matters only to the sum of today's music charges: the day of any *)
(* other row is left at 0.                                                     *)
Row(direction, reason, ref, units) ==
  [direction |-> direction, reason |-> reason, ref |-> ref, units |-> units,
   day |-> IF reason = "v3_music" THEN now ELSE 0]

Rows == DOMAIN txns

(* INSERT INTO credit_transactions *)
AddRow(rows, row) ==
  IF row \in DOMAIN rows
  THEN [rows EXCEPT ![row] = @ + 1]
  ELSE [r \in DOMAIN rows \cup {row} |-> IF r = row THEN 1 ELSE rows[r]]

Record(row) == txns' = AddRow(txns, row)

RefundsOf(reason, ref) ==
  {r \in Rows : r.direction = "refund" /\ r.reason = reason /\ r.ref = ref}

HasTransactionRef(ref) == \E r \in Rows : r.ref = ref

UnitsOf(S) == MapThenSumSet(LAMBDA r : r.units * txns[r], S)

(* music_credits_spent_today: gross debits of the day, refunds not subtracted. *)
SpentToday(reason) ==
  UnitsOf({r \in Rows : r.direction = "debit" /\ r.reason = reason /\ r.day = now})

-------------------------------------------------------------------------------
(* Mutant: the UPDATE of the wallet has no WHERE balance >= amount. *)
DeductUnguarded(units, reason, ref) ==
  /\ balance' = balance - units
  /\ lots' = ConsumeLots(lots, now, units)
  /\ Record(Row("debit", reason, ref, units))
  /\ UNCHANGED <<claims, now>>

(* atomic_deduct, where the conditional UPDATE finds enough. *)
Deduct(units, reason, ref) ==
  /\ balance >= units
  /\ balance' = balance - units
  /\ lots' = ConsumeLots(lots, now, units)
  /\ Record(Row("debit", reason, ref, units))
  /\ UNCHANGED <<claims, now>>

(* Mutant: the claim is inserted without looking at a conflict. *)
AlwaysClaimable(reason, ref) == ref # NoRef

(* INSERT INTO credit_grant_claims ... ON CONFLICT DO NOTHING finds no row. *)
Claimable(reason, ref) == ref # NoRef /\ <<reason, ref>> \notin claims

(* add_credits without a lot: the claim, the wallet and the ledger row commit  *)
(* together, and a claim already there or a full wallet leaves all three alone. *)
Grant(units, reason, ref) ==
  /\ Claimable(reason, ref)
  /\ balance + units <= MaxBalance
  /\ balance' = balance + units
  /\ claims' = claims \cup {<<reason, ref>>}
  /\ Record(Row("credit", reason, ref, units))
  /\ UNCHANGED <<lots, now>>

(* add_credits with create_lot and no ref_id, as admin_adjust calls it. *)
GrantWithLot(units, reason, tag, expires) ==
  /\ balance + units <= MaxBalance
  /\ balance' = balance + units
  /\ lots' = Append(lots, NewLot(tag, units, expires, Never))
  /\ Record(Row("credit", reason, NoRef, units))
  /\ UNCHANGED <<claims, now>>

(* Mutant: the lookup of an earlier refund is dropped. *)
NeverRefunded(reason, ref) == FALSE

RefundedBefore(reason, ref) == ref # NoRef /\ RefundsOf(reason, ref) # {}

(* refund_once under the wallet lock: an earlier refund with the same reason *)
(* and ref_id, or a wallet that would pass the cap, leaves everything alone. *)
RefundOnce(units, reason, ref) ==
  /\ ~RefundedBefore(reason, ref)
  /\ balance + units <= MaxBalance
  /\ balance' = balance + units
  /\ lots' = RestoreLots(lots, now, units)
  /\ Record(Row("refund", reason, ref, units))
  /\ UNCHANGED <<claims, now>>

-------------------------------------------------------------------------------
RepoInit ==
  /\ balance = 0
  /\ lots = << >>
  /\ txns = << >>
  /\ claims = {}
  /\ now = 0

(* The columns of a ledger row, given the reasons and ref_ids in use. *)
TxnRows(Reasons, Refs) ==
  [direction : {"debit", "credit", "refund"}, reason : Reasons, ref : Refs,
   units : Nat, day : Nat]
===============================================================================
