---------------------------- MODULE CreditLifecycle ----------------------------
(***************************************************************************)
(* How credits come into one wallet, are spent, given back and expire.     *)
(* Several processes (API workers, the hourly maintenance loop, webhook    *)
(* and poll handlers) run the services of credits-only billing on the      *)
(* wallet at once.  A service is a sequence of awaited database calls, so  *)
(* a process holds, between two calls, what it has read: job[p] says which *)
(* call comes next and what the process remembers.  A crash forgets it.    *)
(***************************************************************************)
EXTENDS CreditRepo

CONSTANTS
  Procs,      \* processes that run the billing services
  Charges,    \* ref_ids of music generations that are charged and refunded
  Topups,     \* paid top-ups, by their pack reference
  Price,      \* credits of one music generation
  DailyCap,   \* music_daily_credit_cap
  PackUnits,  \* credits of a pack
  PackDays,   \* PACK_CREDIT_VALIDITY
  FreeUnits,  \* FREE_MONTHLY_UNITS
  MonthDays,  \* days of a billing month
  AdminUnits, \* credits of an admin adjustment
  AdminDays,  \* the expiry admin_adjust stamps
  NoLot,      \* a process that is at no lot
  MaxDay,     \* bound: days the clock runs
  MaxOps,     \* bound: charges, refunds, top-ups and adjustments issued, and crashes
  MaxCrashes  \* bound: crashes

ASSUME LifecycleAssumption ==
  /\ Price \in Nat \ {0} /\ DailyCap \in Nat \ {0}
  /\ PackUnits \in Nat \ {0} /\ PackDays \in Nat \ {0}
  /\ FreeUnits \in Nat \ {0} /\ MonthDays \in Nat \ {0}
  /\ AdminUnits \in Nat \ {0} /\ AdminDays \in Nat \ {0}
  /\ MaxDay \in Nat /\ MaxOps \in Nat /\ MaxCrashes \in Nat
  /\ FreeUnits <= MaxBalance

(* Some API workers and threads serve the wallet, as many as are started. *)
ASSUME ProcsAssumption == IsFiniteSet(Procs) /\ Procs # {}

(* The references of charges, of top-ups and of months are different texts. *)
ASSUME RefAssumption ==
  /\ NoRef \notin Charges \cup Topups
  /\ (Topups \cup {NoRef}) \cap ({"free_monthly"} \X Nat) = {}

VARIABLES
  job,      \* what each process is doing
  ops,      \* operations and crashes so far, for MaxOps
  crashes   \* crashes so far, for MaxCrashes

vars == <<balance, lots, txns, claims, now, job, ops, crashes>>

-------------------------------------------------------------------------------
(* at     : the next database call                                          *)
(* sweeps : expire_lapsed_lots calls left; then : what follows the last one *)
(* todo   : lapsed lots read, with the units read; lot, units : the current *)
(*          lot and its clawback; between the calls of a mint, units is     *)
(*          the expiry the pack is stamped with                             *)
(* ref    : the charge or top-up; month : billing_month_start()             *)
NewJob(at, sweeps, then, ref) ==
  [at |-> at, sweeps |-> sweeps, then |-> then, todo |-> {}, lot |-> NoLot,
   units |-> 0, ref |-> ref, month |-> 0]

Idle == NewJob("idle", 0, "idle", NoRef)

At(p, stage)   == job[p].at = stage
GoTo(p, stage) == job' = [job EXCEPT ![p].at = stage]
Finish(p)      == job' = [job EXCEPT ![p] = Idle]

Month == now \div MonthDays

Issue == ops < MaxOps /\ ops' = ops + 1

(* A service starts with so many sweeps and goes on with stage `then`. *)
Begin(p, sweeps, then, ref) ==
  /\ At(p, "idle")
  /\ job' = [job EXCEPT ![p] =
                NewJob(IF sweeps = 0 THEN then ELSE "sweep", sweeps, then, ref)]
  /\ UNCHANGED <<balance, lots, txns, claims, now, crashes>>

(* run_grant_maintenance: ensure_period_grant, then the monthly allowance. *)
BeginMaintenance(p) == Begin(p, 1, "free", NoRef) /\ UNCHANGED ops

(* WebMusicChargeBridge.charge sweeps twice (daily, period) before it charges; *)
(* the studio charges through the billing service alone.                       *)
BeginWebCharge(p, ref) == Begin(p, 2, "charge", ref) /\ Issue
BeginCharge(p, ref)    == Begin(p, 0, "charge", ref) /\ Issue

(* A webhook or a status poll hands a paid top-up to after_topup_fulfill. *)
BeginTopup(p, t) == Begin(p, 0, "mint", t) /\ Issue

-------------------------------------------------------------------------------
(* expire_lapsed_lots.  What follows a pass: the next pass, or the service. *)
AfterPass(j) ==
  IF j.sweeps > 1 THEN NewJob("sweep", j.sweeps - 1, j.then, j.ref)
  ELSE NewJob(j.then, 0, j.then, j.ref)

(* expired_lots: the lapsed lots and their units, as they are now. *)
SweepRead(p) ==
  LET found == {[lot |-> i, units |-> lots[i].remaining] : i \in LapsedLots(lots, now)}
  IN  /\ At(p, "sweep")
      /\ job' = IF found = {} THEN [job EXCEPT ![p] = AfterPass(@)]
                ELSE [job EXCEPT ![p] = [@ EXCEPT !.at = "quote", !.todo = found]]
      /\ UNCHANGED <<balance, lots, txns, claims, now, ops, crashes>>

(* get_balance, and the clawback it allows for one of the lots read. *)
SweepQuote(p) ==
  /\ At(p, "quote")
  /\ \E row \in job[p].todo :
       LET clawback == IF row.units <= balance THEN row.units ELSE balance
       IN  job' = [job EXCEPT ![p] =
                     [@ EXCEPT !.at = IF clawback > 0 THEN "claw" ELSE "zero",
                               !.todo = job[p].todo \ {row},
                               !.lot = row.lot, !.units = clawback]]
  /\ UNCHANGED <<balance, lots, txns, claims, now, ops, crashes>>

(* The clawback is a debit like any other: it consumes live lots.  A balance *)
(* that has fallen since it was read makes it return False, which is ignored. *)
SweepClaw(p) ==
  /\ At(p, "claw")
  /\ IF balance >= job[p].units
     THEN Deduct(job[p].units, "v3_grant_expire", <<"lot", job[p].lot>>)
     ELSE UNCHANGED repoVars
  /\ GoTo(p, "zero")
  /\ UNCHANGED <<ops, crashes>>

(* zero_lot_remaining, a statement of its own. *)
SweepZero(p) ==
  /\ At(p, "zero")
  /\ lots' = ZeroLots(lots, {job[p].lot})
  /\ IF job[p].todo = {} THEN job' = [job EXCEPT ![p] = AfterPass(@)]
     ELSE GoTo(p, "quote")
  /\ UNCHANGED <<balance, txns, claims, now, ops, crashes>>

-------------------------------------------------------------------------------
(* ensure_free_monthly_grant.  The tier and the lot of this month are read   *)
(* before the wallet row is locked.                                          *)
FreeRef(month) == <<"free_monthly", month>>

FreeLots == {i \in DOMAIN lots : lots[i].period # Never /\ ~Spent(lots[i])}

(* Mutant: a lot that has been spent no longer counts for its month. *)
HasUnspentLotOf(month) == \E i \in DOMAIN lots : lots[i].period = month /\ ~Spent(lots[i])

HasLotOf(month) == \E i \in DOMAIN lots : lots[i].period = month

(* Mutant: the allowance comes on top of what is there. *)
FullAllowance(other) == FreeUnits

(* What tops the rest of the wallet up to the allowance. *)
TopUpTo(other) == FreeUnits - other

(* Mutant: the free lots are swept without a ledger row. *)
UnrecordedReset(month, left) == txns

(* The ledger after the free lots were swept. *)
RecordReset(month, left) ==
  IF left > 0 THEN AddRow(txns, Row("debit", "v3_grant_expire", FreeRef(month), left))
  ELSE txns

FreeCheck(p) ==
  /\ At(p, "free")
  /\ IF HasLivePack(lots, now) \/ HasLotOf(Month) THEN Finish(p)
     ELSE job' = [job EXCEPT ![p] = [@ EXCEPT !.at = "freeLock", !.month = Month]]
  /\ UNCHANGED <<balance, lots, txns, claims, now, ops, crashes>>

(* The rest of the transaction, under the lock.  Two things roll it back: a  *)
(* balance below the free lots (the CHECK on balance) and a lot of the month *)
(* that came in since (the unique index on user and period).                 *)
FreeApply(p) ==
  LET month  == job[p].month
      left   == Remaining(lots, FreeLots)
      other  == IF balance >= left THEN balance - left ELSE 0
      reset  == RecordReset(month, left)
      grant  == TopUpTo(other)
      swept  == ZeroLots(lots, FreeLots)
  IN  /\ At(p, "freeLock")
      /\ \/ /\ left > balance \/ (other < FreeUnits /\ HasLotOf(month))
            /\ UNCHANGED <<balance, lots, txns, claims>>
         \/ /\ left <= balance /\ other >= FreeUnits
            /\ balance' = other
            /\ lots' = swept
            /\ txns' = reset
            /\ claims' = claims \cup {<<"free_monthly", FreeRef(month)>>}
         \/ /\ left <= balance /\ other < FreeUnits /\ ~HasLotOf(month)
            /\ balance' = other + grant
            /\ lots' = Append(swept, NewLot("grant", grant, (Month + 1) * MonthDays, month))
            /\ txns' = AddRow(reset, Row("credit", "free_monthly_grant", FreeRef(month), grant))
            /\ UNCHANGED claims
      /\ Finish(p)
      /\ UNCHANGED <<now, ops, crashes>>

-------------------------------------------------------------------------------
(* _existing_debit: the repository has no has_transaction, so the lookup that *)
(* should make a charge idempotent answers no.                                *)
ExistingDebit(ref) == FALSE

(* Mutant: the price of the song to come is left out of the sum. *)
CapPassed == SpentToday("v3_music") > DailyCap

(* _assert_daily_music_cap *)
OverDailyCap == SpentToday("v3_music") + Price > DailyCap

(* CreditsOnlyBillingService.charge: the daily cap is read, ... *)
ChargeCheck(p) ==
  /\ At(p, "charge")
  /\ IF ExistingDebit(job[p].ref) \/ OverDailyCap
     THEN Finish(p)
     ELSE GoTo(p, "deduct")
  /\ UNCHANGED <<balance, lots, txns, claims, now, ops, crashes>>

(* ... and the debit follows in a transaction of its own. *)
ChargeDeduct(p) ==
  /\ At(p, "deduct")
  /\ IF balance >= Price THEN Deduct(Price, "v3_music", job[p].ref)
     ELSE UNCHANGED repoVars
  /\ Finish(p)
  /\ UNCHANGED <<ops, crashes>>

Charged(ref) == \E r \in Rows : r.direction = "debit" /\ r.reason = "v3_music" /\ r.ref = ref

(* CreditsOnlyBillingService.refund of a generation that was charged and  *)
(* failed.  Retried callers may ask again; refund_once then does nothing. *)
RefundCharge(ref) ==
  /\ Charged(ref)
  /\ RefundOnce(Price, "v3_refund_music", ref)
  /\ Issue
  /\ UNCHANGED <<job, crashes>>

-------------------------------------------------------------------------------
(* after_topup_fulfill: four database calls, none in a common transaction. *)
MintCheck(p) ==
  /\ At(p, "mint")
  /\ IF HasTransactionRef(job[p].ref) THEN Finish(p) ELSE GoTo(p, "mintGrant")
  /\ UNCHANGED <<balance, lots, txns, claims, now, ops, crashes>>

(* CreditLedger.grant: granted, already claimed, or over the wallet's cap *)
(* (sync_topup_pack swallows the exception).                              *)
MintGrant(p) ==
  LET ref == job[p].ref
  IN  /\ At(p, "mintGrant")
      /\ \/ Grant(PackUnits, "v3_pack", ref) /\ GoTo(p, "mintLot")
         \/ <<"v3_pack", ref>> \in claims /\ UNCHANGED repoVars /\ GoTo(p, "mintLot")
         \/ /\ <<"v3_pack", ref>> \notin claims /\ balance + PackUnits > MaxBalance
            /\ UNCHANGED repoVars /\ Finish(p)
      /\ UNCHANGED <<ops, crashes>>

MintLot(p) ==
  LET expires == now + PackDays
  IN  /\ At(p, "mintLot")
      /\ lots' = Append(lots, NewLot("pack", PackUnits, expires, Never))
      /\ job' = [job EXCEPT ![p] = [@ EXCEPT !.at = "mintStamp", !.units = expires]]
      /\ UNCHANGED <<balance, txns, claims, now, ops, crashes>>

MintStamp(p) ==
  /\ At(p, "mintStamp")
  /\ lots' = RestampLots(lots, job[p].units)
  /\ Finish(p)
  /\ UNCHANGED <<balance, txns, claims, now, ops, crashes>>

-------------------------------------------------------------------------------
(* admin_adjust, up and down. *)
AdminAdd ==
  /\ GrantWithLot(AdminUnits, "admin_adjustment", "admin", now + AdminDays)
  /\ Issue
  /\ UNCHANGED <<job, crashes>>

AdminDeduct ==
  /\ Deduct(AdminUnits, "admin_adjustment", NoRef)
  /\ Issue
  /\ UNCHANGED <<job, crashes>>

(* A deploy, an OOM kill or a lost connection ends a service between two calls. *)
Crash(p) ==
  /\ ~At(p, "idle")
  /\ crashes < MaxCrashes
  /\ crashes' = crashes + 1
  /\ Issue
  /\ Finish(p)
  /\ UNCHANGED <<balance, lots, txns, claims, now>>

Tick ==
  /\ now < MaxDay
  /\ now' = now + 1
  /\ UNCHANGED <<balance, lots, txns, claims, job, ops, crashes>>

-------------------------------------------------------------------------------
Init ==
  /\ RepoInit
  /\ job = [p \in Procs |-> Idle]
  /\ ops = 0
  /\ crashes = 0

Sweep(p) == SweepRead(p) \/ SweepQuote(p) \/ SweepClaw(p) \/ SweepZero(p)
Free(p)  == FreeCheck(p) \/ FreeApply(p)
Spend(p) == ChargeCheck(p) \/ ChargeDeduct(p)
Mint(p)  == MintCheck(p) \/ MintGrant(p) \/ MintLot(p) \/ MintStamp(p)

(* A process goes on with the service it has begun. *)
Step(p) == Sweep(p) \/ Free(p) \/ Spend(p) \/ Mint(p)

Next ==
  \/ \E p \in Procs :
       \/ BeginMaintenance(p)
       \/ \E ref \in Charges : BeginWebCharge(p, ref) \/ BeginCharge(p, ref)
       \/ \E t \in Topups : BeginTopup(p, t)
       \/ Step(p)
       \/ Crash(p)
  \/ \E ref \in Charges : RefundCharge(ref)
  \/ AdminAdd
  \/ AdminDeduct
  \/ Tick

Spec == Init /\ [][Next]_vars
-------------------------------------------------------------------------------
(* Every ref_id that reaches the ledger of this wallet. *)
Months  == 0..(MaxDay \div MonthDays)
Refs    == Charges \cup Topups \cup {NoRef}
           \cup ({"free_monthly"} \X Nat) \cup ({"lot"} \X Nat)
Reasons == {"v3_music", "v3_refund_music", "v3_pack", "v3_grant_expire",
            "free_monthly_grant", "admin_adjustment"}
Stages  == {"idle", "sweep", "quote", "claw", "zero", "free", "freeLock", "charge",
            "deduct", "mint", "mintGrant", "mintLot", "mintStamp"}
Services == {"idle", "free", "charge", "mint"}

Job == [at : Stages, sweeps : 0..2, then : Services, todo : SUBSET [lot : Nat, units : Nat],
        lot : Nat \cup {NoLot}, units : Nat, ref : Refs, month : Nat]

(* The types of the wallet, the lots, the ledger and the processes: in       *)
(* particular the wallet stays within the CHECK of credit_wallets, 0 to the  *)
(* maximum, though nothing but atomic_deduct's WHERE clause and the caps of  *)
(* the other methods keep it there.                                          *)
TypeOK ==
  /\ balance \in 0..MaxBalance
  /\ lots \in Seq(Lot)
  /\ Rows \subseteq TxnRows(Reasons, Refs) /\ txns \in [Rows -> Nat \ {0}]
  /\ claims \subseteq (Reasons \cup {"free_monthly"}) \X Refs
  /\ now \in 0..MaxDay
  /\ job \in [Procs -> Job]
  /\ \A p \in Procs :
       /\ \A found \in job[p].todo : found.lot \in DOMAIN lots
       /\ job[p].at \in {"claw", "zero"} => job[p].lot \in DOMAIN lots
  /\ ops \in 0..MaxOps /\ crashes \in 0..MaxCrashes

(* No lot ever holds more than it was granted, however refunds, clawbacks,   *)
(* restamps and resets follow each other: _restore_split splits a refund so  *)
(* that the CHECK of credit_wallet_lots cannot fail it.                      *)
LotsNeverOverfilled == LotsWithinAmount(lots)

(* The ledger explains the wallet: every change of the balance left a row of *)
(* the same amount, also the monthly reset and a clawback cut to the balance.*)
LedgerExplainsBalance ==
  LET total(direction) == UnitsOf({r \in Rows : r.direction = direction})
  IN  balance = total("credit") + total("refund") - total("debit")

(* A generation is refunded at most once under refund_once, and never for    *)
(* more than its debits took, however often refund and charge are retried.   *)
RefundWithinCharge ==
  \A ref \in Charges :
    LET refunds == RefundsOf("v3_refund_music", ref)
    IN  /\ \A r, s \in refunds : r = s
        /\ \A r \in refunds :
             /\ txns[r] = 1
             /\ \E d \in Rows : d.direction = "debit" /\ d.ref = ref /\ r.units <= d.units

(* A paid top-up reaches the wallet at most once although the webhook, the   *)
(* poll and their retries may all be past the has_transaction_ref check, and *)
(* its claim and its ledger row are there together or not at all.            *)
PackCreditedOnce ==
  \A t \in Topups :
    LET credits == {r \in Rows : r.ref = t /\ r.direction = "credit"}
    IN  /\ \A r, s \in credits : r = s
        /\ \A r \in credits : txns[r] = 1
        /\ <<"v3_pack", t>> \in claims <=> credits # {}

(* The free allowance of a month is credited at most once, although the tier *)
(* and the lot of the month are read before the wallet is locked.            *)
FreeOncePerMonth ==
  \A m \in Months :
    LET credits == {r \in Rows : r.ref = FreeRef(m) /\ r.direction = "credit"}
    IN  /\ \A r, s \in credits : r = s
        /\ \A r \in credits : txns[r] = 1

(* The allowance tops the wallet up to 50 credits and never stacks on what   *)
(* is there: the step that mints a month's lot leaves exactly the allowance. *)
FreeTopsUp ==
  [][\A m \in Months :
       (~HasLotOf(m) /\ HasLotOf(m)') => balance' = FreeUnits]_vars

(* The daily cap is read before the debit and not under its lock, so charges *)
(* that run at once can pass it together; they pass it by at most one song   *)
(* for each process beyond the first.                                        *)
CapOvershootBounded ==
  SpentToday("v3_music") <= DailyCap + (Cardinality(Procs) - 1) * Price

(* Spend order (earliest expiry first, then oldest): a step that lowers a    *)
(* live lot for a debit leaves nothing in the live lots that burn before it. *)
EarliestExpiryFirst ==
  [][balance' < balance /\ Len(lots') = Len(lots) =>
       \A i, j \in LiveLots(lots, now) :
         /\ SpentBefore(lots, i, j)
         /\ lots'[j].remaining < lots[j].remaining
         /\ lots[j].period = Never
         => lots'[i].remaining = 0]_vars

(* Until a pack is bought or a lot can lapse, wallet and lots move in        *)
(* lockstep: the balance is the sum of the live lots after every debit,      *)
(* refund, admin credit and monthly grant.                                   *)
LockstepUntilExpiry ==
  (now < MonthDays /\ now < AdminDays /\ claims \cap ({"v3_pack"} \X Topups) = {})
    => balance = LiveUnits(lots, now)

-------------------------------------------------------------------------------
(* The abstract account: what came in under a key, and the manual credits. *)
Keyed    == {r \in Rows : r.direction # "debit" /\ r.ref # NoRef}
Unkeyed  == {r \in Rows : r.direction # "debit" /\ r.ref = NoRef}

Account == INSTANCE CreditAccount WITH
             Cap <- MaxBalance, Allowance <- FreeUnits, funds <- balance,
             honoured <- {<<r.reason, r.ref>> : r \in Keyed},
             manual <- [r \in Unkeyed |-> txns[r]]

(* All services together, with their crashes and races, implement the        *)
(* abstract account: a key is honoured once, and nothing else adds credits.  *)
ImplementsAccount == Account!AccountSpec

-------------------------------------------------------------------------------
(* What the design document states of the wallet: with no service under way *)
(* and every lapsed lot swept, the balance is the sum of the live lots.     *)
SettledLockstep ==
  (\A p \in Procs : At(p, "idle")) /\ LapsedLots(lots, now) = {}
    => balance = LiveUnits(lots, now)
===============================================================================
