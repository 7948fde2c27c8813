------------------------------ MODULE CreditLots ------------------------------
(***************************************************************************)
(* The lot ledger of one wallet: the rows of credit_wallet_lots of a user, *)
(* in the order of created_at, and what the SQL of CreditRepository and    *)
(* V3BillingStore does to them.  A lot's index stands for its id and for   *)
(* its created_at.  One unit here is one credit.                           *)
(***************************************************************************)
EXTENDS Integers, Sequences, FiniteSets

CONSTANT Never   \* the NULL of expires_at and of a free lot's period

ASSUME NeverAssumption == Never \notin Int

Tags == {"grant", "pack", "admin", "referral"}

(* period is the month a free_monthly lot stands for (period_start and ref_id), *)
(* Never for every other lot.                                                   *)
Lot == [tag       : Tags,
        amount    : Nat,
        remaining : Nat,
        expires   : Nat \cup {Never},
        period    : Nat \cup {Never}]

NewLot(tag, units, expires, period) ==
  [tag |-> tag, amount |-> units, remaining |-> units,
   expires |-> expires, period |-> period]

Spent(lot) == lot.remaining = 0

(* expires_at IS NULL OR expires_at > NOW(), with something left. *)
Live(lot, now) ==
  /\ ~Spent(lot)
  /\ lot.expires = Never \/ lot.expires > now

Lapsed(lot, now) ==
  /\ ~Spent(lot)
  /\ lot.expires # Never
  /\ lot.expires <= now

LiveLots(lots, now)   == {i \in DOMAIN lots : Live(lots[i], now)}
LapsedLots(lots, now) == {i \in DOMAIN lots : Lapsed(lots[i], now)}

(* The units left in a set of lots, each unit as a pair of its lot and its number. *)
Units(lots, S) == UNION {{i} \X (1..lots[i].remaining) : i \in S}

(* SUM(remaining_units) *)
Remaining(lots, S) == Cardinality(Units(lots, S))

(* What the invariant report of the code sums: the live lots of a wallet. *)
LiveUnits(lots, now) == Remaining(lots, LiveLots(lots, now))

-------------------------------------------------------------------------------
(* expires_at ASC NULLS LAST, created_at ASC *)
ExpiresBefore(e, f) == e # Never /\ (f = Never \/ e < f)

SpentBefore(lots, i, j) ==
  \/ ExpiresBefore(lots[i].expires, lots[j].expires)
  \/ lots[i].expires = lots[j].expires /\ i < j

(* Mutant: the debit walks the lots in the order they were created. *)
UnitsTakenOldestFirst(lots, now, i, amount) ==
  LET ahead == Remaining(lots, {j \in LiveLots(lots, now) : j < i})
  IN  Cardinality({u \in 1..lots[i].remaining : ahead + u <= amount})

(* _consume_lots: the debit takes each live lot in turn until it is covered; *)
(* what no live lot covers is only logged.  Unit u of lot i is taken when    *)
(* the lots before i and the first u units of i fit in the debit.            *)
UnitsTaken(lots, now, i, amount) ==
  LET ahead == Remaining(lots, {j \in LiveLots(lots, now) : SpentBefore(lots, j, i)})
  IN  Cardinality({u \in 1..lots[i].remaining : ahead + u <= amount})

(* Mutant: a debit leaves the lot ledger alone. *)
ConsumeNothing(lots, now, amount) == lots

ConsumeLots(lots, now, amount) ==
  [i \in DOMAIN lots |->
     IF Live(lots[i], now)
     THEN [lots[i] EXCEPT !.remaining = @ - UnitsTaken(lots, now, i, amount)]
     ELSE lots[i]]

-------------------------------------------------------------------------------
(* (tag = 'pack') DESC, expires_at DESC NULLS LAST, created_at DESC *)
ExpiresLater(e, f) == e # Never /\ (f = Never \/ e > f)

RestoredBefore(lots, i, j) ==
  LET a == lots[i]  b == lots[j]
  IN  \/ a.tag = "pack" /\ b.tag # "pack"
      \/ /\ (a.tag = "pack") = (b.tag = "pack")
         /\ \/ ExpiresLater(a.expires, b.expires)
            \/ a.expires = b.expires /\ i > j

(* The live lot a refund goes back to, as a set of at most one index. *)
RestoreTarget(lots, now) ==
  {i \in LiveLots(lots, now) :
     \A j \in LiveLots(lots, now) \ {i} : RestoredBefore(lots, i, j)}

(* Mutant: the whole refund goes into the lot, whatever room it has. *)
IntoLotWhole(lot, units) == units

(* _restore_split: a lot never holds more than it was granted. *)
IntoLot(lot, units) ==
  LET room == lot.amount - lot.remaining
  IN  IF units <= room THEN units ELSE room

(* _restore_lots: fill the target up, and put what is left in a new lot  *)
(* that never expires.                                                   *)
RestoreLots(lots, now, units) ==
  LET target == RestoreTarget(lots, now)
      i      == CHOOSE i \in target : TRUE
      into   == IF target = {} THEN 0 ELSE IntoLot(lots[i], units)
      filled == IF target = {} THEN lots
                ELSE [lots EXCEPT ![i].remaining = @ + into]
  IN  IF into = units THEN filled
      ELSE Append(filled, NewLot("grant", units - into, Never, Never))

-------------------------------------------------------------------------------
(* restamp_live_lots: the WHERE clause asks for units left and an earlier or *)
(* no expiry; it does not ask whether the lot has already lapsed.            *)
RestampLots(lots, expires) ==
  [i \in DOMAIN lots |->
     IF ~Spent(lots[i]) /\ (lots[i].expires = Never \/ lots[i].expires < expires)
     THEN [lots[i] EXCEPT !.expires = expires]
     ELSE lots[i]]

(* zero_lot_remaining, for a set of lots. *)
ZeroLots(lots, S) ==
  [i \in DOMAIN lots |->
     IF i \in S THEN [lots[i] EXCEPT !.remaining = 0] ELSE lots[i]]

HasLivePack(lots, now) == \E i \in LiveLots(lots, now) : lots[i].tag = "pack"

(* The invariant CHECK of the table: 0 <= remaining_units <= amount_units. *)
LotsWithinAmount(lots) == \A i \in DOMAIN lots : lots[i].remaining <= lots[i].amount
===============================================================================
