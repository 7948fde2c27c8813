--------------------------- MODULE CreditKeys_proofs ---------------------------
(***************************************************************************)
(* Every grant and every refund happens once: a paid top-up, the free      *)
(* allowance of a month and the refund of a charge, each under its own     *)
(* key, for any number of processes that race, repeat themselves or crash. *)
(* Then what a step does to the balance and the lots at once: how the      *)
(* allowance tops up, the order of spending, and the lockstep of the two.  *)
(***************************************************************************)
EXTENDS CreditLifecycle_proofs

-------------------------------------------------------------------------------
(* A process that mints a pack, or will after its sweeps, mints a top-up's. *)
MintStages == {"mint", "mintGrant", "mintLot", "mintStamp"}

MintRef(j) == (j.at \in MintStages \/ j.then = "mint") => j.ref \in Topups

MintRefs == \A p \in Procs : MintRef(job[p])

LEMMA NewJobMintRef ==
  ASSUME NEW at, NEW sweeps, NEW then, NEW ref,
         (at \in MintStages \/ then = "mint") => ref \in Topups
  PROVE  MintRef(NewJob(at, sweeps, then, ref))
BY DEF MintRef, NewJob

LEMMA AfterPassMintRef ==
  ASSUME NEW j \in Job, MintRef(j)
  PROVE  MintRef(AfterPass(j))
<1>1. j.then \in Services
  BY DEF Job
<1>2. CASE j.sweeps > 1
  BY <1>2, NewJobMintRef DEF AfterPass, MintRef, MintStages
<1>3. CASE ~(j.sweeps > 1)
  BY <1>1, <1>3, NewJobMintRef DEF AfterPass, MintRef, MintStages, Services
<1>4. QED
  BY <1>2, <1>3

LEMMA MintRefMoved ==
  ASSUME JobsOK, MintRefs, NEW p \in Procs, NEW j, MintRef(j), job' = [job EXCEPT ![p] = j]
  PROVE  MintRefs'
BY DEF MintRefs, JobsOK

LEMMA MintRefFinished ==
  ASSUME JobsOK, MintRefs, NEW p \in Procs, Finish(p)
  PROVE  MintRefs'
<1>1. MintRef(Idle)
  BY NewJobMintRef DEF Idle, MintStages
<1>2. QED
  BY <1>1, MintRefMoved DEF Finish

LEMMA MintRefWentTo ==
  ASSUME JobsOK, MintRefs, NEW p \in Procs, NEW stage,
         stage \in MintStages => job[p].at \in MintStages, GoTo(p, stage)
  PROVE  MintRefs'
<1> DEFINE j == [job[p] EXCEPT !.at = stage]
<1>1. job[p] \in Job /\ MintRef(job[p])
  BY DEF JobsOK, JobFits, MintRefs
<1>2. MintRef(j)
  BY <1>1 DEF MintRef, Job
<1>3. job' = [job EXCEPT ![p] = j]
  BY DEF GoTo
<1> HIDE DEF j
<1>4. QED
  BY <1>2, <1>3, MintRefMoved

LEMMA StepMintRefs ==
  ASSUME Sound, MintRefs, [Next]_vars
  PROVE  MintRefs'
<1>1. JobsOK
  BY SoundParts
<1>2. ASSUME NEW p \in Procs PROVE job[p] \in Job /\ MintRef(job[p])
  BY <1>1 DEF JobsOK, JobFits, MintRefs
<1>3. ASSUME NEW p \in Procs, NEW sweeps \in 0..2, NEW then \in Services, NEW ref \in Refs,
             then = "mint" => ref \in Topups, Begin(p, sweeps, then, ref)
      PROVE  MintRefs'
  <2> DEFINE at == IF sweeps = 0 THEN then ELSE "sweep"
  <2>1. (at \in MintStages \/ then = "mint") => ref \in Topups
    BY <1>3 DEF MintStages, Services
  <2>2. job' = [job EXCEPT ![p] = NewJob(at, sweeps, then, ref)]
    BY <1>3 DEF Begin
  <2> HIDE DEF at
  <2>3. QED
    BY <1>1, <2>1, <2>2, NewJobMintRef, MintRefMoved
<1>4. ASSUME NEW p \in Procs, Sweep(p) PROVE MintRefs'
  <2>1. CASE SweepRead(p)
    <3> DEFINE found == {[lot |-> i, units |-> lots[i].remaining] : i \in LapsedLots(lots, now)}
               read  == [job[p] EXCEPT !.at = "quote", !.todo = found]
    <3>1. job' = [job EXCEPT ![p] = AfterPass(job[p])] \/ job' = [job EXCEPT ![p] = read]
      BY <2>1 DEF SweepRead
    <3> HIDE DEF found
    <3>2. MintRef(read)
      BY <1>2 DEF MintRef, MintStages, Job
    <3> HIDE DEF read
    <3>3. QED
      BY <1>1, <1>2, <3>1, <3>2, AfterPassMintRef, MintRefMoved
  <2>2. CASE SweepQuote(p)
    <3>1. \E at \in {"claw", "zero"} : \E todo, lot, units :
            job' = [job EXCEPT ![p] = [job[p] EXCEPT !.at = at, !.todo = todo,
                                                     !.lot = lot, !.units = units]]
      BY <2>2 DEF SweepQuote
    <3>2. PICK at \in {"claw", "zero"} : \E todo, lot, units :
            job' = [job EXCEPT ![p] = [job[p] EXCEPT !.at = at, !.todo = todo,
                                                     !.lot = lot, !.units = units]]
      BY <3>1
    <3>3. PICK todo, lot, units :
            job' = [job EXCEPT ![p] = [job[p] EXCEPT !.at = at, !.todo = todo,
                                                     !.lot = lot, !.units = units]]
      BY <3>2
    <3> DEFINE quoted == [job[p] EXCEPT !.at = at, !.todo = todo, !.lot = lot, !.units = units]
    <3>4. quoted.at = at /\ quoted.then = job[p].then /\ quoted.ref = job[p].ref
      BY <1>2 DEF Job
    <3>5. job' = [job EXCEPT ![p] = quoted]
      BY <3>3
    <3> HIDE DEF quoted
    <3>6. MintRef(quoted)
      BY <1>2, <3>4 DEF MintRef, MintStages
    <3>7. QED
      BY <1>1, <3>5, <3>6, MintRefMoved
  <2>3. CASE SweepClaw(p)
    BY <1>1, <2>3, MintRefWentTo DEF SweepClaw, MintStages
  <2>4. CASE SweepZero(p)
    BY <1>1, <1>2, <2>4, AfterPassMintRef, MintRefMoved, MintRefWentTo DEF SweepZero, MintStages
  <2>5. QED
    BY <1>4, <2>1, <2>2, <2>3, <2>4 DEF Sweep
<1>5. ASSUME NEW p \in Procs, Free(p) PROVE MintRefs'
  <2> DEFINE read == [job[p] EXCEPT !.at = "freeLock", !.month = Month]
  <2>1. Finish(p) \/ job' = [job EXCEPT ![p] = read]
    BY <1>5 DEF Free, FreeCheck, FreeApply
  <2> HIDE DEF Month
  <2>2. MintRef(read)
    BY <1>2 DEF MintRef, MintStages, Job
  <2> HIDE DEF read
  <2>3. QED
    BY <1>1, <2>1, <2>2, MintRefFinished, MintRefMoved
<1>6. ASSUME NEW p \in Procs, Spend(p) PROVE MintRefs'
  <2>1. Finish(p) \/ GoTo(p, "deduct")
    BY <1>6 DEF Spend, ChargeCheck, ChargeDeduct
  <2>2. QED
    BY <1>1, <2>1, MintRefFinished, MintRefWentTo DEF MintStages
<1>7. ASSUME NEW p \in Procs, Mint(p) PROVE MintRefs'
  <2>1. job[p].at \in MintStages
    BY <1>7 DEF Mint, MintCheck, MintGrant, MintLot, MintStamp, At, MintStages
  <2> DEFINE read == [job[p] EXCEPT !.at = "mintStamp", !.units = now + PackDays]
  <2>2. \/ Finish(p) \/ GoTo(p, "mintGrant") \/ GoTo(p, "mintLot")
        \/ job' = [job EXCEPT ![p] = read]
    BY <1>7 DEF Mint, MintCheck, MintGrant, MintLot, MintStamp
  <2>3. MintRef(read)
    BY <1>2, <2>1 DEF MintRef, Job
  <2> HIDE DEF read
  <2>4. QED
    BY <1>1, <2>1, <2>2, <2>3, MintRefFinished, MintRefMoved, MintRefWentTo
<1>8. CASE UNCHANGED job
  BY <1>8 DEF MintRefs
<1>9. CASE \E p \in Procs : Crash(p)
  BY <1>1, <1>9, MintRefFinished DEF Crash
<1>10. CASE \E p \in Procs :
              \/ BeginMaintenance(p)
              \/ \E ref \in Charges : BeginWebCharge(p, ref) \/ BeginCharge(p, ref)
              \/ \E t \in Topups : BeginTopup(p, t)
  <2>1. \E p \in Procs, sweeps \in 0..2, then \in Services, ref \in Refs :
          (then = "mint" => ref \in Topups) /\ Begin(p, sweeps, then, ref)
    BY <1>10 DEF BeginMaintenance, BeginWebCharge, BeginCharge, BeginTopup, Services, Refs
  <2>2. QED
    BY <2>1, <1>3
<1>11. QED
  BY <1>4, <1>5, <1>6, <1>7, <1>8, <1>9, <1>10
     DEF Next, Step, vars, RefundCharge, AdminAdd, AdminDeduct, Tick

-------------------------------------------------------------------------------
(* What a step of the system does to the ledger of transactions and to the  *)
(* wallet: it adds some rows, each counted once more, and it is one of five *)
(* kinds of step.                                                           *)
Adds(S) ==
  /\ Rows' = Rows \cup S
  /\ \A r \in S \ Rows : txns'[r] = 1
  /\ \A r \in S \cap Rows : txns'[r] = txns[r] + 1
  /\ \A r \in Rows \ S : txns'[r] = txns[r]

(* Debits, sweeps and all that leaves the ledger alone. *)
Quiet(S) ==
  /\ \A r \in S : r.direction = "debit" /\ (r.reason = "v3_music" => r.units = Price)
  /\ balance' <= balance
  /\ claims \subseteq claims' /\ claims' \ claims \subseteq {"free_monthly"} \X Refs
  /\ KeepsPeriods(lots, lots')

MintsPack(S) ==
  \E t \in Topups :
    /\ S = {Row("credit", "v3_pack", t, PackUnits)}
    /\ <<"v3_pack", t>> \notin claims
    /\ claims' = claims \cup {<<"v3_pack", t>>}
    /\ balance' = balance + PackUnits
    /\ lots' = lots

MintsMonth(S) ==
  \E month \in Nat, units \in Nat :
    /\ Row("credit", "free_monthly_grant", FreeRef(month), units) \in S
    /\ \A r \in S \ {Row("credit", "free_monthly_grant", FreeRef(month), units)} :
         r.direction = "debit" /\ r.reason # "v3_music"
    /\ ~HasLotOf(month) /\ HasLotOf(month)'
    /\ balance' = FreeUnits
    /\ claims' = claims
    /\ KeepsPeriods(lots, lots')

AddsManually(S) ==
  /\ S = {Row("credit", "admin_adjustment", NoRef, AdminUnits)}
  /\ balance' = balance + AdminUnits
  /\ claims' = claims
  /\ KeepsPeriods(lots, lots')

Refunds(S) ==
  \E ref \in Charges :
    /\ S = {Row("refund", "v3_refund_music", ref, Price)}
    /\ Charged(ref)
    /\ RefundsOf("v3_refund_music", ref) = {}
    /\ balance' = balance + Price
    /\ claims' = claims
    /\ KeepsPeriods(lots, lots')

Effect(S) ==
  Adds(S) /\ (Quiet(S) \/ MintsPack(S) \/ MintsMonth(S) \/ AddsManually(S) \/ Refunds(S))

LEMMA RecordAdds ==
  ASSUME LedgerOK, NEW row, Record(row)
  PROVE  Adds({row})
<1>1. txns \in [Rows -> Nat \ {0}] /\ txns' = AddRow(txns, row)
  BY DEF LedgerOK, Record
<1>2. txns' \in [Rows \cup {row} -> Nat \ {0}]
  BY <1>1, AddRowEffect
<1>3. Rows' = Rows \cup {row}
  BY <1>2 DEF Rows
<1>4. /\ row \notin Rows => AddRow(txns, row)[row] = 1
      /\ row \in Rows => AddRow(txns, row)[row] = txns[row] + 1
      /\ \A r \in Rows \ {row} : AddRow(txns, row)[r] = txns[r]
  <2>1. row \notin Rows => AddRow(txns, row)[row] = 1
    BY <1>1, AddRowEffect
  <2>2. row \in Rows => AddRow(txns, row)[row] = txns[row] + 1
    BY <1>1, AddRowEffect
  <2>3. ASSUME NEW r \in Rows \ {row} PROVE AddRow(txns, row)[r] = txns[r]
    BY <1>1, AddRowOthers
  <2>4. QED
    BY <2>1, <2>2, <2>3
<1>5. /\ row \notin Rows => txns'[row] = 1
      /\ row \in Rows => txns'[row] = txns[row] + 1
      /\ \A r \in Rows \ {row} : txns'[r] = txns[r]
  BY <1>1, <1>4
<1>6. QED
  BY <1>3, <1>5 DEF Adds

LEMMA NothingAdded == ASSUME txns' = txns PROVE Adds({})
BY DEF Adds, Rows

LEMMA PeriodsStay == KeepsPeriods(lots, lots)
BY DEF KeepsPeriods

LEMMA DeductEffect ==
  ASSUME WalletOK, NEW units \in Nat, NEW reason, NEW ref, reason = "v3_music" => units = Price,
         Deduct(units, reason, ref)
  PROVE  \E S : Adds(S) /\ Quiet(S)
<1> DEFINE row == Row("debit", reason, ref, units)
<1>1. Adds({row})
  BY RecordAdds DEF WalletOK, Deduct
<1>2. row.direction = "debit" /\ row.reason = reason /\ row.units = units
  BY DEF Row
<1>3. balance' <= balance
  BY MaxBalanceAssumption DEF Deduct, WalletOK
<1>4. KeepsPeriods(lots, lots') /\ claims' = claims
  BY ConsumeLotsKeepsPeriods DEF Deduct, WalletOK
<1> HIDE DEF row
<1>5. Quiet({row})
  BY <1>2, <1>3, <1>4 DEF Quiet
<1>6. QED
  BY <1>1, <1>5

LEMMA StillEffect ==
  ASSUME WalletOK, UNCHANGED <<balance, txns, claims>>, KeepsPeriods(lots, lots')
  PROVE  Adds({}) /\ Quiet({})
<1>1. balance' <= balance
  BY MaxBalanceAssumption DEF WalletOK
<1>2. QED
  BY <1>1, NothingAdded DEF Quiet

(* A sweep debits or leaves the ledger alone; a restamp or a new pack lot too. *)
LEMMA SweepEffect ==
  ASSUME Sound, NEW p \in Procs, Sweep(p)
  PROVE  \E S : Adds(S) /\ Quiet(S)
<1>1. WalletOK /\ JobsOK
  BY SoundParts
<1>2. CASE SweepRead(p) \/ SweepQuote(p)
  BY <1>1, <1>2, StillEffect, PeriodsStay DEF SweepRead, SweepQuote
<1>3. CASE SweepZero(p)
  <2>1. KeepsPeriods(lots, lots')
    BY <1>1, <1>3, ZeroLotsKeepsPeriods DEF SweepZero, WalletOK
  <2>2. QED
    BY <1>1, <1>3, <2>1, StillEffect DEF SweepZero
<1>4. CASE SweepClaw(p)
  <2>1. job[p].units \in Nat
    BY <1>1 DEF JobsOK, JobFits, Job
  <2>2. \/ Deduct(job[p].units, "v3_grant_expire", <<"lot", job[p].lot>>)
        \/ UNCHANGED repoVars
    BY <1>4 DEF SweepClaw
  <2>3. QED
    BY <1>1, <2>1, <2>2, DeductEffect, StillEffect, PeriodsStay DEF repoVars
<1>5. QED
  BY <1>2, <1>3, <1>4 DEF Sweep

LEMMA SpendEffect ==
  ASSUME Sound, NEW p \in Procs, Spend(p)
  PROVE  \E S : Adds(S) /\ Quiet(S)
<1>1. WalletOK
  BY SoundParts
<1>2. Deduct(Price, "v3_music", job[p].ref) \/ UNCHANGED repoVars
  BY DEF Spend, ChargeCheck, ChargeDeduct, repoVars
<1>3. QED
  BY <1>1, <1>2, LifecycleAssumption, DeductEffect, StillEffect, PeriodsStay DEF repoVars

LEMMA MintEffect ==
  ASSUME Sound, MintRefs, NEW p \in Procs, Mint(p)
  PROVE  \E S : Adds(S) /\ (Quiet(S) \/ MintsPack(S))
<1>1. WalletOK /\ JobsOK /\ MintRef(job[p])
  BY SoundParts DEF MintRefs
<1>2. job[p].units \in Nat /\ PackUnits \in Nat /\ now + PackDays \in Nat
  BY <1>1, LifecycleAssumption DEF JobsOK, JobFits, Job, WalletOK
<1>3. CASE MintGrant(p) /\ Grant(PackUnits, "v3_pack", job[p].ref)
  <2> DEFINE row == Row("credit", "v3_pack", job[p].ref, PackUnits)
  <2>1. job[p].ref \in Topups
    BY <1>1, <1>3 DEF MintGrant, At, MintRef, MintStages
  <2>2. Adds({row})
    BY <1>1, <1>3, RecordAdds DEF WalletOK, Grant
  <2>3. MintsPack({row})
    BY <1>3, <2>1 DEF MintsPack, Grant, Claimable
  <2>4. QED
    BY <2>2, <2>3
<1>4. CASE UNCHANGED repoVars
  BY <1>1, <1>4, StillEffect, PeriodsStay DEF repoVars
<1>5. CASE MintLot(p)
  <2> DEFINE lot == NewLot("pack", PackUnits, now + PackDays, Never)
  <2>1. lot \in SoundLot
    BY <1>2, NewLotSound DEF Tags
  <2>2. lots' = Append(lots, lot) /\ UNCHANGED <<balance, txns, claims>>
    BY <1>5 DEF MintLot
  <2> HIDE DEF lot
  <2>3. KeepsPeriods(lots, lots')
    BY <1>1, <2>1, <2>2, AppendKeepsPeriods DEF WalletOK
  <2>4. QED
    BY <1>1, <2>2, <2>3, StillEffect
<1>6. CASE MintStamp(p)
  <2>1. KeepsPeriods(lots, lots')
    BY <1>1, <1>2, <1>6, RestampLotsKeepsPeriods DEF MintStamp, WalletOK
  <2>2. QED
    BY <1>1, <1>6, <2>1, StillEffect DEF MintStamp
<1>7. QED
  BY <1>3, <1>4, <1>5, <1>6 DEF Mint, MintCheck, MintGrant, repoVars

LEMMA ManualEffect ==
  ASSUME Sound, (\E ref \in Charges : RefundCharge(ref)) \/ AdminAdd \/ AdminDeduct
  PROVE  \E S : Effect(S)
<1>1. WalletOK
  BY SoundParts
<1>2. AdminUnits \in Nat /\ Price \in Nat /\ now + AdminDays \in Nat
  BY <1>1, LifecycleAssumption DEF WalletOK
<1>3. CASE AdminDeduct
  BY <1>1, <1>2, <1>3, DeductEffect DEF AdminDeduct, Effect
<1>4. CASE AdminAdd
  <2> DEFINE row == Row("credit", "admin_adjustment", NoRef, AdminUnits)
             lot == NewLot("admin", AdminUnits, now + AdminDays, Never)
  <2>1. GrantWithLot(AdminUnits, "admin_adjustment", "admin", now + AdminDays)
    BY <1>4 DEF AdminAdd
  <2>2. Adds({row})
    BY <1>1, <2>1, RecordAdds DEF WalletOK, GrantWithLot
  <2>3. lot \in SoundLot
    BY <1>2, NewLotSound DEF Tags
  <2>4. lots' = Append(lots, lot)
    BY <2>1 DEF GrantWithLot
  <2> HIDE DEF lot
  <2>5. KeepsPeriods(lots, lots')
    BY <1>1, <2>3, <2>4, AppendKeepsPeriods DEF WalletOK
  <2>6. AddsManually({row})
    BY <2>1, <2>5 DEF AddsManually, GrantWithLot
  <2>7. QED
    BY <2>2, <2>6 DEF Effect
<1>5. ASSUME NEW ref \in Charges, RefundCharge(ref) PROVE \E S : Effect(S)
  <2> DEFINE row == Row("refund", "v3_refund_music", ref, Price)
  <2>1. RefundOnce(Price, "v3_refund_music", ref) /\ Charged(ref)
    BY <1>5 DEF RefundCharge
  <2>2. Adds({row})
    BY <1>1, <2>1, RecordAdds DEF WalletOK, RefundOnce
  <2>3. KeepsPeriods(lots, lots')
    BY <1>1, <1>2, <2>1, RestoreLotsKeepsPeriods DEF RefundOnce, WalletOK
  <2>4. RefundsOf("v3_refund_music", ref) = {}
    BY <2>1, RefAssumption DEF RefundOnce, RefundedBefore
  <2>5. Refunds({row})
    BY <2>1, <2>3, <2>4 DEF Refunds, RefundOnce
  <2>6. QED
    BY <2>2, <2>5 DEF Effect
<1>6. QED
  BY <1>3, <1>4, <1>5

(* Two rows recorded in one transaction, the first perhaps not at all. *)
LEMMA BothAdds ==
  ASSUME LedgerOK, NEW first, NEW second, first # second, NEW reset,
         reset = txns \/ reset = AddRow(txns, first), txns' = AddRow(reset, second)
  PROVE  Adds({second}) \/ Adds({first, second})
<1>1. txns \in [Rows -> Nat \ {0}]
  BY DEF LedgerOK
<1>2. CASE reset = txns
  BY <1>2, RecordAdds DEF Record
<1>3. CASE reset = AddRow(txns, first)
  <2> DEFINE S == Rows \cup {first}
  <2>1. /\ reset \in [S -> Nat \ {0}]
        /\ first \notin Rows => reset[first] = 1
        /\ first \in Rows => reset[first] = txns[first] + 1
    BY <1>1, <1>3, AddRowEffect
  <2>2. ASSUME NEW r \in Rows, r # first PROVE reset[r] = txns[r]
    BY <1>1, <1>3, <2>2, AddRowOthers
  <2> HIDE DEF S
  <2>3. /\ txns' \in [S \cup {second} -> Nat \ {0}]
        /\ second \notin S => txns'[second] = 1
        /\ second \in S => txns'[second] = reset[second] + 1
    BY <2>1, AddRowEffect
  <2>4. ASSUME NEW r \in S, r # second PROVE txns'[r] = reset[r]
    BY <2>1, <2>4, AddRowOthers
  <2>5. Rows' = Rows \cup {first, second}
    BY <2>3 DEF Rows, S
  <2>6. /\ first \notin Rows => txns'[first] = 1
        /\ first \in Rows => txns'[first] = txns[first] + 1
    BY <2>1, <2>4 DEF S
  <2>7. /\ second \notin Rows => txns'[second] = 1
        /\ second \in Rows => txns'[second] = txns[second] + 1
    BY <2>2, <2>3 DEF S
  <2>8. ASSUME NEW r \in Rows, r \notin {first, second} PROVE txns'[r] = txns[r]
    BY <2>2, <2>4, <2>8 DEF S
  <2>9. QED
    BY <2>5, <2>6, <2>7, <2>8 DEF Adds
<1>4. QED
  BY <1>2, <1>3

LEMMA FreeEffect ==
  ASSUME Sound, NEW p \in Procs, Free(p)
  PROVE  \E S : Adds(S) /\ (Quiet(S) \/ MintsMonth(S))
<1>1. WalletOK /\ JobsOK
  BY SoundParts
<1>2. CASE FreeCheck(p)
  BY <1>1, <1>2, StillEffect, PeriodsStay DEF FreeCheck
<1>3. CASE FreeApply(p)
  <2>0. PICK month \in Nat : month = job[p].month
    BY <1>1 DEF JobsOK, JobFits, Job
  <2> DEFINE left  == Remaining(lots, FreeLots)
             other == IF balance >= left THEN balance - left ELSE 0
             debit == Row("debit", "v3_grant_expire", FreeRef(month), left)
             reset == RecordReset(month, left)
             grant == TopUpTo(other)
             swept == ZeroLots(lots, FreeLots)
             lot   == NewLot("grant", grant, (Month + 1) * MonthDays, month)
             row   == Row("credit", "free_monthly_grant", FreeRef(month), grant)
  <2>1. \/ UNCHANGED <<balance, lots, txns, claims>>
        \/ /\ left <= balance
           /\ balance' = other /\ lots' = swept /\ txns' = reset
           /\ claims' = claims \cup {<<"free_monthly", FreeRef(month)>>}
        \/ /\ other < FreeUnits /\ ~HasLotOf(month)
           /\ balance' = other + grant /\ lots' = Append(swept, lot)
           /\ txns' = AddRow(reset, row) /\ UNCHANGED claims
    BY <1>3, <2>0 DEF FreeApply
  <2>2. /\ month \in Nat /\ FreeRef(month) \in Refs
        /\ left \in Nat /\ balance \in Nat /\ Month \in Nat /\ (Month + 1) * MonthDays \in Nat
    BY <1>1, RemainingIsNat, MonthIsNat, MaxBalanceAssumption
       DEF Refs, FreeRef, WalletOK, FreeLots
  <2>3. reset = txns \/ reset = AddRow(txns, debit)
    BY DEF RecordReset
  <2>4. swept \in Ledger /\ DOMAIN swept = DOMAIN lots /\ KeepsPeriods(lots, swept)
    BY <1>1, ZeroLotsLedger, ZeroLotsKeepsPeriods DEF WalletOK
  <2>5. debit.direction = "debit" /\ debit.reason = "v3_grant_expire"
    BY DEF Row
  <2>6. row.direction = "credit"
    BY DEF Row
  <2> HIDE DEF left, debit, reset, swept, row
  <2>7. CASE UNCHANGED <<balance, lots, txns, claims>>
    BY <1>1, <2>7, StillEffect, PeriodsStay
  <2>8. CASE /\ left <= balance
             /\ balance' = other /\ lots' = swept /\ txns' = reset
             /\ claims' = claims \cup {<<"free_monthly", FreeRef(month)>>}
    <3>1. Adds({}) \/ Adds({debit})
      BY <1>1, <2>3, <2>8, RecordAdds, NothingAdded DEF WalletOK, Record
    <3>2. balance' <= balance
      BY <2>2, <2>8
    <3>3. Quiet({}) /\ Quiet({debit})
      BY <2>2, <2>4, <2>5, <2>8, <3>2 DEF Quiet
    <3>4. QED
      BY <3>1, <3>3
  <2>9. CASE /\ other < FreeUnits /\ ~HasLotOf(month)
             /\ balance' = other + grant /\ lots' = Append(swept, lot)
             /\ txns' = AddRow(reset, row) /\ UNCHANGED claims
    <3>1. Adds({row}) \/ Adds({debit, row})
      BY <1>1, <2>3, <2>5, <2>6, <2>9, BothAdds DEF WalletOK
    <3>2. other \in Nat
      BY <2>2
    <3> HIDE DEF other
    <3>3. grant \in Nat /\ balance' = FreeUnits
      BY <2>9, <3>2, LifecycleAssumption DEF TopUpTo
    <3> HIDE DEF grant
    <3>4. lot \in SoundLot /\ lot.period = month
      BY <2>2, <3>3, NewLotSound DEF Tags, NewLot
    <3> HIDE DEF lot
    <3>5. /\ KeepsPeriods(swept, lots') /\ Len(swept) + 1 \in DOMAIN lots'
          /\ lots'[Len(swept) + 1] = lot
      BY <2>4, <2>9, <3>4, AppendKeepsPeriods
    <3>6. KeepsPeriods(lots, lots')
      BY <2>4, <3>5 DEF KeepsPeriods
    <3>7. HasLotOf(month)'
      BY <3>4, <3>5 DEF HasLotOf
    <3>8. row = Row("credit", "free_monthly_grant", FreeRef(month), grant)
      BY DEF row
    <3>9. ASSUME NEW S, row \in S, S \subseteq {debit, row} PROVE MintsMonth(S)
      BY <2>2, <2>5, <2>9, <3>3, <3>6, <3>7, <3>8, <3>9 DEF MintsMonth
    <3>10. QED
      BY <3>1, <3>9
  <2>10. QED
    BY <2>1, <2>7, <2>8, <2>9
<1>4. QED
  BY <1>2, <1>3 DEF Free

LEMMA StepEffect ==
  ASSUME Sound, MintRefs, [Next]_vars
  PROVE  \E S : Effect(S)
<1>1. WalletOK
  BY SoundParts
<1>2. CASE \E p \in Procs : Step(p)
  BY <1>2, SweepEffect, FreeEffect, SpendEffect, MintEffect DEF Step, Effect
<1>3. CASE (\E ref \in Charges : RefundCharge(ref)) \/ AdminAdd \/ AdminDeduct
  BY <1>3, ManualEffect
<1>4. CASE UNCHANGED <<balance, lots, txns, claims>>
  BY <1>1, <1>4, StillEffect, PeriodsStay DEF Effect
<1>5. QED
  BY <1>2, <1>3, <1>4
     DEF Next, Begin, BeginMaintenance, BeginWebCharge, BeginCharge, BeginTopup, Crash, Tick, vars

-------------------------------------------------------------------------------
(* The inductive invariant on keys. *)
CreditsOf(ref) == {r \in Rows : r.ref = ref /\ r.direction = "credit"}

(* A month that was credited, once, has its lot: that lot is what stops the next. *)
MonthCredited(month) ==
  /\ \A r, s \in CreditsOf(FreeRef(month)) : r = s
  /\ \A r \in CreditsOf(FreeRef(month)) : txns[r] = 1
  /\ CreditsOf(FreeRef(month)) # {} => HasLotOf(month)

(* What the reason of a row says about it. *)
RowKinds ==
  \A r \in Rows :
    /\ r.direction \in {"debit", "credit", "refund"}
    /\ r.direction = "refund" => r.reason = "v3_refund_music"
    /\ r.direction = "credit" => r.reason # "v3_refund_music"
    /\ r.direction = "debit" /\ r.reason = "v3_music" => r.units = Price

PackCredited(t) ==
  /\ \A r, s \in CreditsOf(t) : r = s
  /\ \A r \in CreditsOf(t) : txns[r] = 1
  /\ <<"v3_pack", t>> \in claims <=> CreditsOf(t) # {}

ChargeRefunded(ref) ==
  /\ \A r, s \in RefundsOf("v3_refund_music", ref) : r = s
  /\ \A r \in RefundsOf("v3_refund_music", ref) :
       /\ txns[r] = 1
       /\ \E d \in Rows : d.direction = "debit" /\ d.ref = ref /\ r.units <= d.units

KeyInv ==
  /\ RowKinds
  /\ \A t \in Topups : PackCredited(t)
  /\ \A month \in Nat : MonthCredited(month)
  /\ \A ref \in Charges : ChargeRefunded(ref)

LEMMA RowFields ==
  ASSUME NEW direction, NEW reason, NEW ref, NEW units
  PROVE  /\ Row(direction, reason, ref, units).direction = direction
         /\ Row(direction, reason, ref, units).reason = reason
         /\ Row(direction, reason, ref, units).ref = ref
         /\ Row(direction, reason, ref, units).units = units
BY DEF Row

LEMMA RefsDiffer ==
  ASSUME NEW t \in Topups \cup {NoRef}, NEW month \in Nat
  PROVE  t # FreeRef(month)
<1>1. FreeRef(month) \in {"free_monthly"} \X Nat
  BY DEF FreeRef
<1>2. QED
  BY <1>1, RefAssumption

(* The rows that each kind of step adds. *)
LEMMA RowsOfEffect ==
  ASSUME NEW S, NEW r \in S
  PROVE  /\ Quiet(S) => r.direction = "debit"
         /\ MintsPack(S) => r.direction = "credit" /\ r.reason = "v3_pack" /\ r.ref \in Topups
         /\ MintsMonth(S) =>
              \/ r.direction = "debit" /\ r.reason # "v3_music"
              \/ /\ r.direction = "credit" /\ r.reason = "free_monthly_grant"
                 /\ \E month \in Nat : r.ref = FreeRef(month)
         /\ AddsManually(S) =>
              r.direction = "credit" /\ r.reason = "admin_adjustment" /\ r.ref = NoRef
         /\ Refunds(S) => r.direction = "refund" /\ r.reason = "v3_refund_music"
<1>1. Quiet(S) => r.direction = "debit"
  BY DEF Quiet
<1>2. ASSUME MintsPack(S)
      PROVE  r.direction = "credit" /\ r.reason = "v3_pack" /\ r.ref \in Topups
  BY <1>2, RowFields DEF MintsPack
<1>3. ASSUME MintsMonth(S)
      PROVE  \/ r.direction = "debit" /\ r.reason # "v3_music"
             \/ /\ r.direction = "credit" /\ r.reason = "free_monthly_grant"
                /\ \E month \in Nat : r.ref = FreeRef(month)
  <2>1. PICK month \in Nat, units \in Nat :
          \A s \in S \ {Row("credit", "free_monthly_grant", FreeRef(month), units)} :
            s.direction = "debit" /\ s.reason # "v3_music"
    BY <1>3 DEF MintsMonth
  <2>2. CASE r = Row("credit", "free_monthly_grant", FreeRef(month), units)
    BY <2>2, RowFields
  <2>3. CASE r # Row("credit", "free_monthly_grant", FreeRef(month), units)
    BY <2>1, <2>3
  <2>4. QED
    BY <2>2, <2>3
<1>4. ASSUME AddsManually(S)
      PROVE  r.direction = "credit" /\ r.reason = "admin_adjustment" /\ r.ref = NoRef
  BY <1>4, RowFields DEF AddsManually
<1>5. ASSUME Refunds(S) PROVE r.direction = "refund" /\ r.reason = "v3_refund_music"
  BY <1>5, RowFields DEF Refunds
<1>6. QED
  BY <1>1, <1>2, <1>3, <1>4, <1>5

LEMMA KindsKept ==
  ASSUME RowKinds, NEW S, Effect(S)
  PROVE  RowKinds'
<1>1. ASSUME NEW r \in S
      PROVE  /\ r.direction \in {"debit", "credit", "refund"}
             /\ r.direction = "refund" => r.reason = "v3_refund_music"
             /\ r.direction = "credit" => r.reason # "v3_refund_music"
             /\ r.direction = "debit" /\ r.reason = "v3_music" => r.units = Price
  <2>1. Quiet(S) => (r.reason = "v3_music" => r.units = Price)
    BY DEF Quiet
  <2>2. QED
    BY <2>1, RowsOfEffect DEF Effect
<1>2. QED
  BY <1>1 DEF RowKinds, Effect, Adds

(* Rows that are not credits to a reference leave its credits alone. *)
LEMMA CreditsKept ==
  ASSUME NEW S, Adds(S), NEW ref, \A r \in S : r.direction = "credit" => r.ref # ref
  PROVE  CreditsOf(ref)' = CreditsOf(ref) /\ \A r \in CreditsOf(ref) : txns'[r] = txns[r]
<1>1. Rows' = Rows \cup S /\ \A r \in Rows \ S : txns'[r] = txns[r]
  BY DEF Adds
<1>2. QED
  BY <1>1 DEF CreditsOf

LEMMA PackKept ==
  ASSUME NEW t \in Topups, PackCredited(t), NEW S, Effect(S)
  PROVE  PackCredited(t)'
<1>1. Adds(S) /\ t # NoRef /\ \A month \in Nat : t # FreeRef(month)
  BY RefAssumption, RefsDiffer DEF Effect
<1>2. CASE Quiet(S) \/ MintsMonth(S) \/ AddsManually(S) \/ Refunds(S)
  <2>1. ASSUME NEW r \in S, r.direction = "credit" PROVE r.ref # t
    BY <1>1, <1>2, <2>1, RowsOfEffect
  <2>2. <<"v3_pack", t>> \in claims' <=> <<"v3_pack", t>> \in claims
    BY <1>2 DEF Quiet, MintsMonth, AddsManually, Refunds
  <2>3. QED
    BY <1>1, <2>1, <2>2, CreditsKept DEF PackCredited
<1>3. CASE MintsPack(S)
  <2>1. PICK u \in Topups : /\ S = {Row("credit", "v3_pack", u, PackUnits)}
                            /\ <<"v3_pack", u>> \notin claims
                            /\ claims' = claims \cup {<<"v3_pack", u>>}
    BY <1>3 DEF MintsPack
  <2> DEFINE row == Row("credit", "v3_pack", u, PackUnits)
  <2>2. row.direction = "credit" /\ row.ref = u
    BY DEF Row
  <2> HIDE DEF row
  <2>3. CASE u = t
    <3>1. CreditsOf(t) = {}
      BY <2>1, <2>3 DEF PackCredited
    <3>2. row \notin Rows
      BY <2>2, <2>3, <3>1 DEF CreditsOf
    <3>3. CreditsOf(t)' = {row} /\ txns'[row] = 1
      BY <1>1, <2>1, <2>2, <2>3, <3>1, <3>2 DEF CreditsOf, Adds, row
    <3>4. QED
      BY <2>1, <2>3, <3>3 DEF PackCredited
  <2>4. CASE u # t
    <3>1. \A r \in S : r.direction = "credit" => r.ref # t
      BY <2>1, <2>2, <2>4 DEF row
    <3>2. <<"v3_pack", t>> \in claims' <=> <<"v3_pack", t>> \in claims
      BY <2>1, <2>4
    <3>3. QED
      BY <1>1, <3>1, <3>2, CreditsKept DEF PackCredited
  <2>5. QED
    BY <2>3, <2>4
<1>4. QED
  BY <1>2, <1>3 DEF Effect

LEMMA MonthKept ==
  ASSUME NEW month \in Nat, MonthCredited(month), NEW S, Effect(S)
  PROVE  MonthCredited(month)'
<1>1. /\ Adds(S) /\ KeepsPeriods(lots, lots')
      /\ FreeRef(month) # NoRef /\ FreeRef(month) \notin Topups
  BY RefsDiffer, PeriodsStay DEF Effect, Quiet, MintsPack, MintsMonth, AddsManually, Refunds
<1>2. HasLotOf(month) => HasLotOf(month)'
  BY <1>1 DEF KeepsPeriods, HasLotOf
<1>3. CASE Quiet(S) \/ MintsPack(S) \/ AddsManually(S) \/ Refunds(S)
  <2>1. \A r \in S : r.direction = "credit" => r.ref # FreeRef(month)
    <3>1. ASSUME NEW r \in S, r.direction = "credit" PROVE r.ref # FreeRef(month)
      BY <1>1, <1>3, <3>1, RowsOfEffect
    <3>2. QED
      BY <3>1
  <2>2. QED
    BY <1>1, <1>2, <2>1, CreditsKept DEF MonthCredited
<1>4. CASE MintsMonth(S)
  <2>1. PICK m \in Nat, units \in Nat :
          /\ Row("credit", "free_monthly_grant", FreeRef(m), units) \in S
          /\ \A r \in S \ {Row("credit", "free_monthly_grant", FreeRef(m), units)} :
               r.direction = "debit"
          /\ ~HasLotOf(m) /\ HasLotOf(m)'
    BY <1>4 DEF MintsMonth
  <2> DEFINE row == Row("credit", "free_monthly_grant", FreeRef(m), units)
  <2>2. row.direction = "credit" /\ row.ref = FreeRef(m)
    BY DEF Row
  <2> HIDE DEF row
  <2>3. CASE m = month
    <3>1. CreditsOf(FreeRef(month)) = {}
      BY <2>1, <2>3 DEF MonthCredited
    <3>2. row \notin Rows
      BY <2>2, <2>3, <3>1 DEF CreditsOf
    <3>3. row \in S /\ \A r \in S \ {row} : r.direction = "debit"
      BY <2>1 DEF row
    <3>4. CreditsOf(FreeRef(month))' = {row} /\ txns'[row] = 1
      BY <1>1, <2>2, <2>3, <3>1, <3>2, <3>3 DEF CreditsOf, Adds
    <3>5. QED
      BY <2>1, <2>3, <3>4 DEF MonthCredited
  <2>4. CASE m # month
    <3>1. FreeRef(m) # FreeRef(month)
      BY <2>4 DEF FreeRef
    <3>2. \A r \in S : r.direction = "credit" => r.ref # FreeRef(month)
      BY <2>1, <2>2, <3>1 DEF row
    <3>3. QED
      BY <1>1, <1>2, <3>2, CreditsKept DEF MonthCredited
  <2>5. QED
    BY <2>3, <2>4
<1>5. QED
  BY <1>3, <1>4 DEF Effect

LEMMA RefundKept ==
  ASSUME RowKinds, NEW ref \in Charges, ChargeRefunded(ref), NEW S, Effect(S)
  PROVE  ChargeRefunded(ref)'
<1> DEFINE refunds == RefundsOf("v3_refund_music", ref)
<1>1. Rows' = Rows \cup S /\ \A r \in Rows \ S : txns'[r] = txns[r]
  BY DEF Effect, Adds
<1>2. ASSUME \A r \in S : r.direction = "refund" => r.ref # ref
      PROVE  ChargeRefunded(ref)'
  <2>1. refunds' = refunds /\ \A r \in refunds : txns'[r] = txns[r]
    BY <1>1, <1>2 DEF RefundsOf
  <2>2. \A d \in Rows : d \in Rows'
    BY <1>1
  <2>3. QED
    BY <2>1, <2>2 DEF ChargeRefunded
<1>3. CASE Quiet(S) \/ MintsPack(S) \/ MintsMonth(S) \/ AddsManually(S)
  <2>1. ASSUME NEW r \in S, r.direction = "refund" PROVE r.ref # ref
    BY <1>3, <2>1, RowsOfEffect
  <2>2. QED
    BY <1>2, <2>1
<1>4. CASE Refunds(S)
  <2>1. PICK other \in Charges : /\ S = {Row("refund", "v3_refund_music", other, Price)}
                                 /\ Charged(other)
                                 /\ RefundsOf("v3_refund_music", other) = {}
    BY <1>4 DEF Refunds
  <2> DEFINE row == Row("refund", "v3_refund_music", other, Price)
  <2>2. /\ row.direction = "refund" /\ row.reason = "v3_refund_music"
        /\ row.ref = other /\ row.units = Price
    BY RowFields
  <2> HIDE DEF row
  <2>3. CASE other # ref
    BY <1>2, <2>1, <2>2, <2>3 DEF row
  <2>4. CASE other = ref
    <3>1. row \notin Rows
      BY <2>1, <2>2, <2>4 DEF RefundsOf
    <3>2. refunds' = {row} /\ txns'[row] = 1
      BY <1>1, <2>1, <2>2, <2>4, <3>1 DEF RefundsOf, Effect, Adds, row
    <3>3. PICK d \in Rows : d.direction = "debit" /\ d.reason = "v3_music" /\ d.ref = ref
      BY <2>1, <2>4 DEF Charged
    <3>4. d \in Rows' /\ Price <= d.units
      BY <1>1, <3>3, LifecycleAssumption DEF RowKinds
    <3>5. QED
      BY <2>2, <3>2, <3>3, <3>4 DEF ChargeRefunded
  <2>5. QED
    BY <2>3, <2>4
<1>5. QED
  BY <1>3, <1>4 DEF Effect

LEMMA StepKeys ==
  ASSUME Sound, MintRefs, KeyInv, [Next]_vars
  PROVE  KeyInv'
<1>1. PICK S : Effect(S)
  BY StepEffect
<1>2. RowKinds'
  BY <1>1, KindsKept DEF KeyInv
<1>3. ASSUME NEW t \in Topups PROVE PackCredited(t)'
  BY <1>1, PackKept DEF KeyInv
<1>4. ASSUME NEW month \in Nat PROVE MonthCredited(month)'
  BY <1>1, MonthKept DEF KeyInv
<1>5. ASSUME NEW ref \in Charges PROVE ChargeRefunded(ref)'
  BY <1>1, RefundKept DEF KeyInv
<1>6. QED
  BY <1>2, <1>3, <1>4, <1>5 DEF KeyInv

LEMMA InitKeys == Init => MintRefs /\ KeyInv
<1> SUFFICES ASSUME Init PROVE MintRefs /\ KeyInv
  OBVIOUS
<1>1. MintRef(Idle)
  BY NewJobMintRef DEF Idle, MintStages
<1>2. MintRefs
  BY <1>1 DEF Init, MintRefs
<1>3. Rows = {} /\ claims = {}
  BY DEF Init, RepoInit, Rows
<1>4. KeyInv
  BY <1>3 DEF KeyInv, RowKinds, PackCredited, MonthCredited, ChargeRefunded, CreditsOf, RefundsOf
<1>5. QED
  BY <1>2, <1>4

LEMMA AlwaysKeys == Spec => [](Sound /\ MintRefs /\ KeyInv)
<1>1. Init => Sound /\ MintRefs /\ KeyInv
  BY InitSound, InitKeys
<1>2. Sound /\ MintRefs /\ KeyInv /\ [Next]_vars => (Sound /\ MintRefs /\ KeyInv)'
  BY StepSound, StepMintRefs, StepKeys
<1>3. QED
  BY <1>1, <1>2, PTL DEF Spec

(* A paid top-up reaches the wallet at most once, and its claim and its row  *)
(* are there together, however many webhooks and polls run at once.          *)
THEOREM PackCreditedOnceAlways == Spec => []PackCreditedOnce
<1>1. KeyInv => PackCreditedOnce
  BY DEF KeyInv, PackCredited, CreditsOf, PackCreditedOnce
<1>2. QED
  BY <1>1, AlwaysKeys, PTL

(* The allowance of a month is credited at most once, though two processes   *)
(* may both have found the month without a lot.                              *)
THEOREM FreeOncePerMonthAlways == Spec => []FreeOncePerMonth
<1>1. KeyInv => FreeOncePerMonth
  <2>1. Months \subseteq Nat
    BY DEF Months
  <2>2. QED
    BY <2>1 DEF KeyInv, MonthCredited, CreditsOf, FreeOncePerMonth
<1>2. QED
  BY <1>1, AlwaysKeys, PTL

(* A charge is refunded at most once and never beyond a debit of its own,    *)
(* however often charge and refund are repeated.                             *)
THEOREM RefundWithinChargeAlways == Spec => []RefundWithinCharge
<1>1. KeyInv => RefundWithinCharge
  BY DEF KeyInv, ChargeRefunded, RefundWithinCharge
<1>2. QED
  BY <1>1, AlwaysKeys, PTL

-------------------------------------------------------------------------------
(* The refinement: the keys honoured and the manual credits of the account.  *)
Honoured      == {<<r.reason, r.ref>> : r \in Keyed}
ManualCredits == [r \in Unkeyed |-> txns[r]]

LEMMA DebitsAreInvisible ==
  ASSUME NEW S, Adds(S), \A r \in S : r.direction = "debit"
  PROVE  Honoured' = Honoured /\ ManualCredits' = ManualCredits
<1>1. Rows' = Rows \cup S /\ \A r \in Rows \ S : txns'[r] = txns[r]
  BY DEF Adds
<1>2. Keyed' = Keyed /\ Unkeyed' = Unkeyed
  BY <1>1 DEF Keyed, Unkeyed
<1>3. \A r \in Unkeyed : txns'[r] = txns[r]
  BY <1>1 DEF Unkeyed
<1>4. QED
  BY <1>2, <1>3 DEF Honoured, ManualCredits

(* A row under a key is that key honoured, and nothing else. *)
LEMMA KeyedRowHonours ==
  ASSUME NEW S, Adds(S), NEW row \in S, row.direction # "debit", row.ref # NoRef,
         \A r \in S \ {row} : r.direction = "debit"
  PROVE  /\ Honoured' = Honoured \cup {<<row.reason, row.ref>>}
         /\ ManualCredits' = ManualCredits
<1>1. Rows' = Rows \cup S /\ \A r \in Rows \ S : txns'[r] = txns[r]
  BY DEF Adds
<1>2. Keyed' = Keyed \cup {row} /\ Unkeyed' = Unkeyed
  BY <1>1 DEF Keyed, Unkeyed
<1>3. \A r \in Unkeyed : txns'[r] = txns[r]
  BY <1>1 DEF Unkeyed
<1>4. Honoured' = Honoured \cup {<<row.reason, row.ref>>}
  BY <1>2 DEF Honoured
<1>5. QED
  BY <1>2, <1>3, <1>4 DEF ManualCredits

LEMMA FreshKeyHonours ==
  ASSUME NEW key, key \notin Honoured, Honoured' = Honoured \cup {key},
         ManualCredits' = ManualCredits, balance' \in 0..MaxBalance,
         balance' > balance \/ balance' = FreeUnits
  PROVE  Account!Honour
<1>1. key \in Honoured'
  OBVIOUS
<1>2. \E k \in Honoured' : k \notin Honoured /\ Honoured' = Honoured \cup {k}
  BY <1>1
<1>3. QED
  BY <1>2 DEF Account!Honour, Honoured, ManualCredits

(* A key is fresh when no row of its kind has its reference. *)
LEMMA FreshKey ==
  ASSUME RowKinds, NEW reason, NEW ref,
         \A r \in Rows : r.ref = ref /\ r.reason = reason => r.direction = "debit"
  PROVE  <<reason, ref>> \notin Honoured
BY DEF Honoured, Keyed

LEMMA EffectRefines ==
  ASSUME Sound, Sound', KeyInv, NEW S, Effect(S)
  PROVE  [Account!Move]_(Account!account)
<1>1. /\ Adds(S) /\ RowKinds
      /\ balance \in 0..MaxBalance /\ balance' \in 0..MaxBalance /\ MaxBalance \in Nat
  BY MaxBalanceAssumption DEF Effect, KeyInv, Sound, TypeOK
<1>2. CASE Quiet(S)
  <2>1. Honoured' = Honoured /\ ManualCredits' = ManualCredits
    BY <1>1, <1>2, DebitsAreInvisible DEF Quiet
  <2>2. balance' < balance \/ balance' = balance
    BY <1>1, <1>2 DEF Quiet
  <2>3. QED
    BY <1>1, <2>1, <2>2
       DEF Account!Move, Account!Withdraw, Account!account, Honoured, ManualCredits
<1>3. CASE MintsPack(S)
  <2>1. PICK t \in Topups : /\ S = {Row("credit", "v3_pack", t, PackUnits)}
                            /\ <<"v3_pack", t>> \notin claims
                            /\ balance' = balance + PackUnits
    BY <1>3 DEF MintsPack
  <2> DEFINE row == Row("credit", "v3_pack", t, PackUnits)
  <2>2. row.direction = "credit" /\ row.reason = "v3_pack" /\ row.ref = t /\ t # NoRef
    BY RowFields, RefAssumption
  <2> HIDE DEF row
  <2>3. Honoured' = Honoured \cup {<<"v3_pack", t>>} /\ ManualCredits' = ManualCredits
    BY <1>1, <2>1, <2>2, KeyedRowHonours DEF row
  <2>4. <<"v3_pack", t>> \notin Honoured
    <3>1. CreditsOf(t) = {}
      BY <2>1 DEF KeyInv, PackCredited
    <3>2. QED
      BY <1>1, <3>1, FreshKey DEF RowKinds, CreditsOf
  <2>5. balance' > balance
    BY <1>1, <2>1, LifecycleAssumption
  <2>6. QED
    BY <1>1, <2>3, <2>4, <2>5, FreshKeyHonours DEF Account!Move
<1>4. CASE MintsMonth(S)
  <2>1. PICK month \in Nat, units \in Nat :
          /\ Row("credit", "free_monthly_grant", FreeRef(month), units) \in S
          /\ \A r \in S \ {Row("credit", "free_monthly_grant", FreeRef(month), units)} :
               r.direction = "debit"
          /\ ~HasLotOf(month)
          /\ balance' = FreeUnits
    BY <1>4 DEF MintsMonth
  <2> DEFINE row == Row("credit", "free_monthly_grant", FreeRef(month), units)
             key == <<"free_monthly_grant", FreeRef(month)>>
  <2>2. /\ row.direction = "credit" /\ row.reason = "free_monthly_grant"
        /\ row.ref = FreeRef(month) /\ FreeRef(month) # NoRef
    BY RowFields, RefsDiffer
  <2>3. row \in S /\ \A r \in S \ {row} : r.direction = "debit"
    BY <2>1
  <2> HIDE DEF row
  <2>4. Honoured' = Honoured \cup {key} /\ ManualCredits' = ManualCredits
    BY <1>1, <2>2, <2>3, KeyedRowHonours
  <2>5. key \notin Honoured
    <3>1. CreditsOf(FreeRef(month)) = {}
      BY <2>1 DEF KeyInv, MonthCredited
    <3>2. QED
      BY <1>1, <3>1, FreshKey DEF RowKinds, CreditsOf
  <2> HIDE DEF key
  <2>6. QED
    BY <1>1, <2>1, <2>4, <2>5, FreshKeyHonours DEF Account!Move
<1>5. CASE AddsManually(S)
  <2> DEFINE row == Row("credit", "admin_adjustment", NoRef, AdminUnits)
  <2>1. row.direction = "credit" /\ row.ref = NoRef
    BY RowFields
  <2>2. S = {row}
    BY <1>5 DEF AddsManually
  <2> HIDE DEF row
  <2>3. Keyed' = Keyed /\ row \in Unkeyed'
    BY <1>1, <2>1, <2>2 DEF Keyed, Unkeyed, Adds
  <2>4. ManualCredits' # ManualCredits
    <3>1. CASE row \in Rows
      <4>1. txns[row] \in Nat /\ txns'[row] = txns[row] + 1
        BY <1>1, <2>2, <3>1 DEF Adds, Sound, TypeOK
      <4>2. row \in Unkeyed
        BY <2>1, <3>1 DEF Unkeyed
      <4>3. ManualCredits[row] = txns[row] /\ ManualCredits'[row] = txns'[row]
        BY <2>3, <4>2 DEF ManualCredits
      <4>4. QED
        BY <4>1, <4>3
    <3>2. CASE row \notin Rows
      <4>1. row \notin DOMAIN ManualCredits /\ row \in DOMAIN ManualCredits'
        BY <2>3, <3>2 DEF ManualCredits, Unkeyed
      <4>2. QED
        BY <4>1
    <3>3. QED
      BY <3>1, <3>2
  <2>5. balance' > balance
    BY <1>1, <1>5, LifecycleAssumption DEF AddsManually
  <2>6. Honoured' = Honoured
    BY <2>3 DEF Honoured
  <2>7. QED
    BY <1>1, <2>4, <2>5, <2>6 DEF Account!Move, Account!Adjust, Honoured, ManualCredits
<1>6. CASE Refunds(S)
  <2>1. PICK ref \in Charges : /\ S = {Row("refund", "v3_refund_music", ref, Price)}
                               /\ RefundsOf("v3_refund_music", ref) = {}
                               /\ balance' = balance + Price
    BY <1>6 DEF Refunds
  <2> DEFINE row == Row("refund", "v3_refund_music", ref, Price)
  <2>2. /\ row.direction = "refund" /\ row.reason = "v3_refund_music"
        /\ row.ref = ref /\ ref # NoRef
    BY RowFields, RefAssumption
  <2> HIDE DEF row
  <2>3. Honoured' = Honoured \cup {<<"v3_refund_music", ref>>} /\ ManualCredits' = ManualCredits
    BY <1>1, <2>1, <2>2, KeyedRowHonours DEF row
  <2>4. <<"v3_refund_music", ref>> \notin Honoured
    BY <1>1, <2>1, FreshKey DEF RowKinds, RefundsOf
  <2>5. balance' > balance
    BY <1>1, <2>1, LifecycleAssumption
  <2>6. QED
    BY <1>1, <2>3, <2>4, <2>5, FreshKeyHonours DEF Account!Move
<1>7. QED
  BY <1>2, <1>3, <1>4, <1>5, <1>6 DEF Effect

(* All services on a wallet, with their races and crashes, implement the     *)
(* abstract account: a key brings credits in once, and nothing else does     *)
(* but a manual credit that leaves a row of its own.                         *)
THEOREM AccountImplemented == Spec => ImplementsAccount
<1>1. Init => Account!Open
  BY DEF Init, RepoInit, Account!Open, Keyed, Unkeyed, Rows
<1>2. Sound /\ MintRefs /\ KeyInv /\ [Next]_vars => [Account!Move]_(Account!account)
  BY StepSound, StepEffect, EffectRefines
<1>3. QED
  BY <1>1, <1>2, AlwaysKeys, PTL DEF Spec, ImplementsAccount, Account!AccountSpec

-------------------------------------------------------------------------------
(* What a step does to the balance and to the lots at once. *)
LeavesBoth == balance' = balance /\ lots' = lots

Spends ==
  \E units \in Nat :
    /\ balance >= units /\ balance' = balance - units
    /\ lots' = ConsumeLots(lots, now, units)

Restores ==
  \E units \in Nat : balance' = balance + units /\ lots' = RestoreLots(lots, now, units)

AddsAdminLot ==
  /\ balance' = balance + AdminUnits
  /\ lots' = Append(lots, NewLot("admin", AdminUnits, now + AdminDays, Never))

MintsPackUnits ==
  /\ balance' = balance + PackUnits /\ lots' = lots
  /\ \E t \in Topups : <<"v3_pack", t>> \in claims'

TouchesLapsedOrPack(p) ==
  /\ balance' = balance
  /\ \/ job[p].at = "mintLot" /\ lots' = Append(lots, NewLot("pack", PackUnits, now + PackDays, Never))
     \/ job[p].at = "mintStamp" /\ lots' = RestampLots(lots, job[p].units)
     \/ job[p].at = "zero" /\ lots' = ZeroLots(lots, {job[p].lot})

ResetsFree ==
  /\ Remaining(lots, FreeLots) <= balance
  /\ balance' = balance - Remaining(lots, FreeLots)
  /\ lots' = ZeroLots(lots, FreeLots)

GrantsFree ==
  LET other == balance - Remaining(lots, FreeLots)
  IN  /\ other \in Nat /\ other < FreeUnits /\ balance' = FreeUnits
      /\ \E month \in Nat :
           lots' = Append(ZeroLots(lots, FreeLots),
                          NewLot("grant", FreeUnits - other, (Month + 1) * MonthDays, month))

LotStep ==
  \/ LeavesBoth \/ Spends \/ Restores \/ AddsAdminLot \/ MintsPackUnits
  \/ \E p \in Procs : TouchesLapsedOrPack(p)
  \/ ResetsFree \/ GrantsFree

LEMMA FreeLotStep ==
  ASSUME Sound, NEW p \in Procs, Free(p)
  PROVE  LotStep
<1>1. WalletOK /\ JobsOK
  BY SoundParts
<1>2. CASE FreeCheck(p)
  BY <1>2 DEF FreeCheck, LotStep, LeavesBoth
<1>3. CASE FreeApply(p)
  <2>0. PICK month \in Nat : month = job[p].month
    BY <1>1 DEF JobsOK, JobFits, Job
  <2> DEFINE left  == Remaining(lots, FreeLots)
             other == IF balance >= left THEN balance - left ELSE 0
             swept == ZeroLots(lots, FreeLots)
             until == (Month + 1) * MonthDays
  <2>1. \/ UNCHANGED <<balance, lots>>
        \/ left <= balance /\ balance' = other /\ lots' = swept
        \/ /\ left <= balance /\ other < FreeUnits /\ balance' = other + TopUpTo(other)
           /\ lots' = Append(swept, NewLot("grant", TopUpTo(other), until, month))
    BY <1>3, <2>0 DEF FreeApply
  <2>2. left \in Nat /\ balance \in Nat /\ FreeUnits \in Nat
    BY <1>1, RemainingIsNat, MaxBalanceAssumption, LifecycleAssumption DEF WalletOK, FreeLots
  <2>3. LeavesBoth <=> UNCHANGED <<balance, lots>>
    BY DEF LeavesBoth
  <2>4. ResetsFree <=> left <= balance /\ balance' = balance - left /\ lots' = swept
    BY DEF ResetsFree
  <2>5. GrantsFree <=>
          /\ balance - left \in Nat /\ balance - left < FreeUnits /\ balance' = FreeUnits
          /\ \E m \in Nat :
               lots' = Append(swept, NewLot("grant", FreeUnits - (balance - left), until, m))
    BY DEF GrantsFree
  <2> HIDE DEF left, swept, until
  <2>6. left <= balance => other = balance - left /\ other \in Nat
    BY <2>2
  <2>7. left <= balance => other + TopUpTo(other) = FreeUnits /\ TopUpTo(other) = FreeUnits - other
    BY <2>2, <2>6 DEF TopUpTo
  <2> HIDE DEF other
  <2> QED
    BY <2>1, <2>3, <2>4, <2>5, <2>6, <2>7 DEF LotStep
<1> QED
  BY <1>2, <1>3 DEF Free

LEMMA ServiceLotStep ==
  ASSUME Sound, MintRefs, NEW p \in Procs, Sweep(p) \/ Spend(p) \/ Mint(p)
  PROVE  LotStep
<1>1. JobsOK /\ MintRef(job[p])
  BY SoundParts DEF MintRefs
<1>2. /\ job[p].units \in Nat /\ Price \in Nat
      /\ job[p].at = "mintGrant" => job[p].ref \in Topups
  BY <1>1, LifecycleAssumption DEF JobsOK, JobFits, Job, MintRef, MintStages
<1>3. CASE Sweep(p)
  <2>1. \/ UNCHANGED <<balance, lots>>
        \/ Deduct(job[p].units, "v3_grant_expire", <<"lot", job[p].lot>>)
        \/ /\ job[p].at = "zero" /\ lots' = ZeroLots(lots, {job[p].lot}) /\ balance' = balance
    BY <1>3 DEF Sweep, SweepRead, SweepQuote, SweepClaw, SweepZero, At, repoVars
  <2> QED
    BY <1>2, <2>1 DEF LotStep, LeavesBoth, Spends, Deduct, TouchesLapsedOrPack
<1>4. CASE Spend(p)
  <2>1. UNCHANGED <<balance, lots>> \/ Deduct(Price, "v3_music", job[p].ref)
    BY <1>4 DEF Spend, ChargeCheck, ChargeDeduct, repoVars
  <2> QED
    BY <1>2, <2>1 DEF LotStep, LeavesBoth, Spends, Deduct
<1>5. CASE Mint(p)
  <2>1. \/ UNCHANGED <<balance, lots>>
        \/ job[p].at = "mintGrant" /\ Grant(PackUnits, "v3_pack", job[p].ref)
        \/ /\ job[p].at = "mintLot" /\ balance' = balance
           /\ lots' = Append(lots, NewLot("pack", PackUnits, now + PackDays, Never))
        \/ /\ job[p].at = "mintStamp" /\ balance' = balance
           /\ lots' = RestampLots(lots, job[p].units)
    BY <1>5 DEF Mint, MintCheck, MintGrant, MintLot, MintStamp, At, repoVars
  <2>2. CASE job[p].at = "mintGrant" /\ Grant(PackUnits, "v3_pack", job[p].ref)
    BY <1>2, <2>2 DEF LotStep, MintsPackUnits, Grant
  <2> QED
    BY <2>1, <2>2 DEF LotStep, LeavesBoth, TouchesLapsedOrPack
<1> QED
  BY <1>3, <1>4, <1>5

LEMMA StepLots ==
  ASSUME Sound, MintRefs, [Next]_vars
  PROVE  LotStep
<1>1. Price \in Nat /\ AdminUnits \in Nat
  BY LifecycleAssumption
<1>2. CASE \E p \in Procs : Step(p)
  BY <1>2, FreeLotStep, ServiceLotStep DEF Step
<1>3. CASE AdminDeduct
  BY <1>1, <1>3 DEF AdminDeduct, Deduct, LotStep, Spends
<1>4. CASE AdminAdd
  BY <1>4 DEF AdminAdd, GrantWithLot, LotStep, AddsAdminLot
<1>5. ASSUME NEW ref \in Charges, RefundCharge(ref) PROVE LotStep
  BY <1>1, <1>5 DEF RefundCharge, RefundOnce, LotStep, Restores
<1>6. CASE UNCHANGED <<balance, lots>>
  BY <1>6 DEF LotStep, LeavesBoth
<1> QED
  BY <1>2, <1>3, <1>4, <1>5, <1>6
     DEF Next, Begin, BeginMaintenance, BeginWebCharge, BeginCharge, BeginTopup, Crash, Tick, vars

-------------------------------------------------------------------------------
(* Lots that stand for no month that had none. *)
OpensNone(old, new) ==
  \A i \in DOMAIN new :
    new[i].period = Never \/ \E j \in DOMAIN old : old[j].period = new[i].period

LEMMA SameLotsOpenNone ==
  ASSUME NEW old, NEW new, DOMAIN new = DOMAIN old, KeepsPeriods(old, new)
  PROVE  OpensNone(old, new)
BY DEF KeepsPeriods, OpensNone

LEMMA AppendOpensNone ==
  ASSUME NEW old \in Ledger, NEW lot \in SoundLot, lot.period = Never
  PROVE  OpensNone(old, Append(old, lot))
<1>1. old \in Seq(SoundLot) /\ DOMAIN old = 1..Len(old) /\ Len(old) \in Nat
  BY LedgerIsSeq, LedgerLots
<1>2. /\ DOMAIN Append(old, lot) = 1..Len(old) + 1
      /\ \A i \in 1..Len(old) : Append(old, lot)[i] = old[i]
      /\ Append(old, lot)[Len(old) + 1] = lot
  BY <1>1, AppendProperties
<1> DEFINE new == Append(old, lot)
<1> HIDE DEF new
<1>3. \A i \in DOMAIN new : (i \in DOMAIN old /\ new[i] = old[i]) \/ new[i] = lot
  BY <1>1, <1>2 DEF new
<1> QED
  BY <1>3 DEF OpensNone, new

LEMMA RestoreOpensNone ==
  ASSUME NEW old \in Ledger, NEW units \in Nat
  PROVE  OpensNone(old, RestoreLots(old, now, units))
<1> DEFINE new == RestoreLots(old, now, units)
<1>1. PICK filled \in Ledger, into \in 0..units : RestoresAs(old, units, new, filled, into)
  BY RestoreLotsShape
<1> HIDE DEF new
<1>2. /\ DOMAIN filled = DOMAIN old /\ \A k \in DOMAIN old : filled[k].period = old[k].period
      /\ new = filled \/ \E rest \in SoundLot : rest.period = Never /\ new = Append(filled, rest)
  BY <1>1 DEF RestoresAs
<1>3. new = filled \/ OpensNone(filled, new)
  BY <1>2, AppendOpensNone
<1> QED
  BY <1>2, <1>3 DEF OpensNone, new

LEMMA StepOpens ==
  ASSUME Sound, LotStep
  PROVE  OpensNone(lots, lots') \/ balance' = FreeUnits
<1>1. WalletOK /\ JobsOK /\ now \in Nat
  BY SoundParts, LifecycleAssumption DEF WalletOK
<1>2. lots \in Ledger /\ PackUnits \in Nat /\ AdminUnits \in Nat
      /\ now + PackDays \in Nat /\ now + AdminDays \in Nat
  BY <1>1, LifecycleAssumption DEF WalletOK
<1>3. CASE LeavesBoth \/ MintsPackUnits
  BY <1>3 DEF LeavesBoth, MintsPackUnits, OpensNone
<1>4. CASE Spends
  BY <1>2, <1>4, SameLotsOpenNone, ConsumeLotsLedger, ConsumeLotsKeepsPeriods DEF Spends
<1>5. CASE Restores
  BY <1>2, <1>5, RestoreOpensNone DEF Restores
<1>6. CASE AddsAdminLot
  <2> DEFINE lot == NewLot("admin", AdminUnits, now + AdminDays, Never)
  <2>1. lot \in SoundLot /\ lot.period = Never
    BY <1>2, NewLotSound DEF Tags, NewLot
  <2>2. lots' = Append(lots, lot)
    BY <1>6 DEF AddsAdminLot
  <2> HIDE DEF lot
  <2> QED
    BY <1>2, <2>1, <2>2, AppendOpensNone
<1>7. ASSUME NEW p \in Procs, TouchesLapsedOrPack(p) PROVE OpensNone(lots, lots')
  <2> DEFINE lot == NewLot("pack", PackUnits, now + PackDays, Never)
  <2>1. lot \in SoundLot /\ lot.period = Never
    BY <1>2, NewLotSound DEF Tags, NewLot
  <2>2. \/ lots' = Append(lots, lot) \/ lots' = RestampLots(lots, job[p].units)
        \/ lots' = ZeroLots(lots, {job[p].lot})
    BY <1>7 DEF TouchesLapsedOrPack
  <2>3. job[p].units \in Nat
    BY <1>1 DEF JobsOK, JobFits, Job
  <2> HIDE DEF lot
  <2> QED
    BY <1>2, <2>1, <2>2, <2>3, AppendOpensNone, SameLotsOpenNone, RestampLotsLedger,
       RestampLotsKeepsPeriods, ZeroLotsLedger, ZeroLotsKeepsPeriods
<1>8. CASE ResetsFree
  BY <1>2, <1>8, SameLotsOpenNone, ZeroLotsLedger, ZeroLotsKeepsPeriods DEF ResetsFree
<1>9. CASE GrantsFree
  BY <1>9 DEF GrantsFree
<1> QED
  BY <1>3, <1>4, <1>5, <1>6, <1>7, <1>8, <1>9 DEF LotStep

(* The step that opens a month with its lot leaves exactly the allowance:    *)
(* the free grant tops the wallet up and never stacks on what is there.      *)
THEOREM FreeTopsUpAlways == Spec => FreeTopsUp
<1>1. Sound /\ MintRefs /\ [Next]_vars =>
        [\A m \in Months : (~HasLotOf(m) /\ HasLotOf(m)') => balance' = FreeUnits]_vars
  <2> SUFFICES ASSUME Sound, MintRefs, [Next]_vars, NEW m \in Months,
                      ~HasLotOf(m), HasLotOf(m)'
               PROVE  balance' = FreeUnits
    OBVIOUS
  <2>1. LotStep
    BY StepLots
  <2>2. m # Never
    BY NeverAssumption DEF Months
  <2>3. ~OpensNone(lots, lots')
    BY <2>2 DEF OpensNone, HasLotOf
  <2> QED
    BY <2>1, <2>3, StepOpens
<1> QED
  BY <1>1, AlwaysKeys, PTL DEF Spec, FreeTopsUp

-------------------------------------------------------------------------------
(* The order of spending. *)
LEMMA SpendsInOrder ==
  ASSUME Sound, LotStep, balance' < balance, Len(lots') = Len(lots),
         NEW i \in LiveLots(lots, now), NEW j \in LiveLots(lots, now), SpentBefore(lots, i, j),
         lots'[j].remaining < lots[j].remaining, lots[j].period = Never
  PROVE  lots'[i].remaining = 0
<1>1. /\ lots \in Ledger /\ balance \in Nat /\ PackUnits \in Nat /\ AdminUnits \in Nat
      /\ Len(lots) \in Nat /\ j \in DOMAIN lots
      /\ lots[j].remaining \in Nat
  BY LotsAreLedger, LifecycleAssumption, MaxBalanceAssumption, LedgerLots
     DEF Sound, TypeOK, LiveLots, SoundLot, Lot
<1>2. ~LeavesBoth /\ ~Restores /\ ~AddsAdminLot /\ ~MintsPackUnits
      /\ \A p \in Procs : ~TouchesLapsedOrPack(p)
  BY <1>1 DEF LeavesBoth, Restores, AddsAdminLot, MintsPackUnits, TouchesLapsedOrPack
<1>3. CASE Spends
  BY <1>1, <1>3, EarlierEmptied DEF Spends
<1>4. ~ResetsFree
  <2>1. j \notin FreeLots
    BY DEF FreeLots
  <2>2. ZeroLots(lots, FreeLots)[j].remaining = lots[j].remaining
    BY <1>1, <2>1, ZeroedLot
  <2> QED
    BY <1>1, <2>2 DEF ResetsFree
<1>5. ~GrantsFree
  <2> DEFINE swept == ZeroLots(lots, FreeLots)
  <2>1. swept \in Ledger /\ DOMAIN swept = DOMAIN lots
    BY <1>1, ZeroLotsLedger
  <2> HIDE DEF swept
  <2>2. swept \in Seq(SoundLot) /\ Len(swept) = Len(lots)
    BY <1>1, <2>1, LedgerIsSeq, LedgerLots
  <2>3. \A lot : Len(Append(swept, lot)) = Len(swept) + 1
    <3>1. swept \in Seq(SoundLot) /\ Len(swept) \in Nat /\ DOMAIN swept = 1..Len(swept)
      BY <2>1, <2>2, LedgerLots
    <3> QED
      BY <3>1
  <2> QED
    BY <1>1, <2>2, <2>3 DEF GrantsFree, swept
<1> QED
  BY <1>2, <1>3, <1>4, <1>5 DEF LotStep

(* A debit that takes from a lot leaves nothing in a live lot that burns     *)
(* before it: the earliest expiry goes first, then the oldest lot.           *)
THEOREM EarliestExpiryFirstAlways == Spec => EarliestExpiryFirst
<1>1. Sound /\ MintRefs /\ [Next]_vars =>
        [balance' < balance /\ Len(lots') = Len(lots) =>
           \A i, j \in LiveLots(lots, now) :
             /\ SpentBefore(lots, i, j)
             /\ lots'[j].remaining < lots[j].remaining
             /\ lots[j].period = Never
             => lots'[i].remaining = 0]_vars
  BY StepLots, SpendsInOrder
<1> QED
  BY <1>1, AlwaysKeys, PTL DEF Spec, EarliestExpiryFirst

-------------------------------------------------------------------------------
(* Until a pack is bought or a lot can lapse no lot lapses, no process sweeps *)
(* or mints, and the lots hold the balance.                                   *)
Young ==
  now < MonthDays /\ now < AdminDays /\ claims \cap ({"v3_pack"} \X Topups) = {}

LongLived(lot) == lot.expires = Never \/ lot.expires >= MonthDays \/ lot.expires >= AdminDays

Lasting(ledger) == \A i \in DOMAIN ledger : LongLived(ledger[i])

AllUnits(ledger) == Remaining(ledger, DOMAIN ledger)

SweepsNothing ==
  \A p \in Procs : /\ job[p].todo = {}
                   /\ job[p].at \notin {"quote", "claw", "zero", "mintLot", "mintStamp"}

YoungInv == Young => balance = AllUnits(lots) /\ Lasting(lots) /\ SweepsNothing

(* Then the lots that are not live are spent. *)
LEMMA YoungLots ==
  ASSUME Sound, Young, Lasting(lots)
  PROVE  /\ \A i \in DOMAIN lots \ LiveLots(lots, now) : lots[i].remaining = 0
         /\ LapsedLots(lots, now) = {}
         /\ LiveUnits(lots, now) = AllUnits(lots)
<1>1. lots \in Ledger /\ now \in Nat
  BY LotsAreLedger, LifecycleAssumption DEF Sound, TypeOK
<1>2. ASSUME NEW i \in DOMAIN lots
      PROVE  /\ lots[i].expires = Never \/ (lots[i].expires \in Nat /\ lots[i].expires > now)
             /\ lots[i].expires = Never => ~(lots[i].expires \in Nat)
             /\ lots[i].remaining \in Nat
  <2>1. lots[i] \in Lot
    BY <1>1, LedgerLots DEF SoundLot
  <2>2. LongLived(lots[i])
    BY DEF Lasting
  <2> QED
    BY <1>1, <2>1, <2>2, LifecycleAssumption, NeverAssumption DEF Lot, LongLived, Young
<1>3. \A i \in DOMAIN lots \ LiveLots(lots, now) : lots[i].remaining = 0
  BY <1>2 DEF LiveLots, Live, Spent
<1>4. LapsedLots(lots, now) = {}
  BY <1>1, <1>2 DEF LapsedLots, Lapsed
<1>5. LiveUnits(lots, now) = AllUnits(lots)
  <2>1. LiveLots(lots, now) \in SUBSET DOMAIN lots
    BY DEF LiveLots
  <2> QED
    BY <1>1, <1>3, <2>1, RemainingUnspent DEF LiveUnits, AllUnits
<1> QED
  BY <1>3, <1>4, <1>5

LEMMA YoungBefore ==
  ASSUME Sound, MintRefs, [Next]_vars, Young'
  PROVE  Young
<1>1. now \in Nat /\ MonthDays \in Nat /\ AdminDays \in Nat
  BY LifecycleAssumption DEF Sound, TypeOK
<1>2. now' = now \/ now' = now + 1
  BY OnlyTick DEF Tick
<1>3. claims \subseteq claims'
  BY StepEffect DEF Effect, Quiet, MintsPack, MintsMonth, AddsManually, Refunds
<1> QED
  BY <1>1, <1>2, <1>3 DEF Young

LEMMA AppendLasting ==
  ASSUME NEW old \in Ledger, NEW lot \in SoundLot, Lasting(old), LongLived(lot)
  PROVE  Lasting(Append(old, lot))
<1>1. old \in Seq(SoundLot) /\ DOMAIN old = 1..Len(old) /\ Len(old) \in Nat
  BY LedgerIsSeq, LedgerLots
<1>2. /\ DOMAIN Append(old, lot) = 1..Len(old) + 1
      /\ \A i \in 1..Len(old) : Append(old, lot)[i] = old[i]
      /\ Append(old, lot)[Len(old) + 1] = lot
  BY <1>1, AppendProperties
<1> DEFINE new == Append(old, lot)
<1> HIDE DEF new
<1>3. \A i \in DOMAIN new : (i \in DOMAIN old /\ new[i] = old[i]) \/ new[i] = lot
  BY <1>1, <1>2 DEF new
<1> QED
  BY <1>3 DEF Lasting, new

LEMMA SameLasting ==
  ASSUME NEW old, NEW new, DOMAIN new = DOMAIN old, Lasting(old),
         \A i \in DOMAIN old : new[i].expires = old[i].expires
  PROVE  Lasting(new)
BY DEF Lasting, LongLived

LEMMA YoungLotStep ==
  ASSUME Sound, LotStep, Young, Young', YoungInv
  PROVE  balance' = AllUnits(lots') /\ Lasting(lots')
<1>1. /\ lots \in Ledger /\ now \in Nat /\ balance \in Nat
      /\ FreeUnits \in Nat /\ AdminUnits \in Nat /\ AdminDays \in Nat
      /\ now + AdminDays \in Nat
  BY LotsAreLedger, LifecycleAssumption, MaxBalanceAssumption DEF Sound, TypeOK
<1>2. balance = AllUnits(lots) /\ Lasting(lots) /\ SweepsNothing
  BY DEF YoungInv
<1>3. \A i \in DOMAIN lots \ LiveLots(lots, now) : lots[i].remaining = 0
  BY <1>2, YoungLots
<1>4. CASE LeavesBoth
  BY <1>2, <1>4 DEF LeavesBoth
<1>5. CASE Spends
  <2>1. PICK units \in Nat :
          /\ balance >= units /\ balance' = balance - units
          /\ lots' = ConsumeLots(lots, now, units)
    BY <1>5 DEF Spends
  <2>2. DOMAIN lots' = DOMAIN lots
    BY <1>1, <2>1, ConsumeLotsLedger
  <2>3. AllUnits(lots') = LeftAfter(AllUnits(lots), units)
    BY <1>1, <1>3, <2>1, <2>2, ConsumedTotal DEF AllUnits
  <2>4. balance' = AllUnits(lots')
    BY <1>1, <1>2, <2>1, <2>3 DEF LeftAfter
  <2>5. Lasting(lots')
    BY <1>1, <1>2, <2>1, <2>2, ConsumedLot, SameLasting
  <2> QED
    BY <2>4, <2>5
<1>6. CASE Restores
  <2>1. PICK units \in Nat : balance' = balance + units /\ lots' = RestoreLots(lots, now, units)
    BY <1>6 DEF Restores
  <2>2. balance' = AllUnits(lots')
    BY <1>1, <1>2, <2>1, RestoredTotal DEF AllUnits
  <2>3. PICK filled \in Ledger, into \in 0..units : RestoresAs(lots, units, lots', filled, into)
    BY <1>1, <2>1, RestoreLotsShape
  <2>4. /\ DOMAIN filled = DOMAIN lots /\ \A k \in DOMAIN lots : filled[k].expires = lots[k].expires
        /\ lots' = filled \/ \E rest \in SoundLot : rest.expires = Never /\ lots' = Append(filled, rest)
    BY <2>3 DEF RestoresAs
  <2>5. Lasting(filled)
    BY <1>2, <2>4, SameLasting
  <2>6. Lasting(lots')
    BY <2>4, <2>5, AppendLasting DEF LongLived
  <2> QED
    BY <2>2, <2>6
<1>7. CASE AddsAdminLot
  <2> DEFINE lot == NewLot("admin", AdminUnits, now + AdminDays, Never)
  <2>1. lot \in SoundLot
    BY <1>1, NewLotSound DEF Tags
  <2>2. lot.remaining = AdminUnits /\ lot.expires = now + AdminDays
    BY DEF NewLot
  <2>3. lots' = Append(lots, lot) /\ balance' = balance + AdminUnits
    BY <1>7 DEF AddsAdminLot
  <2> HIDE DEF lot
  <2>4. LongLived(lot)
    BY <1>1, <2>2 DEF LongLived
  <2> QED
    <3>1. AllUnits(lots') = AllUnits(lots) + lot.remaining
      BY <1>1, <2>1, <2>3, AppendedTotal DEF AllUnits
    <3>2. Lasting(lots')
      BY <1>1, <1>2, <2>1, <2>3, <2>4, AppendLasting
    <3> QED
      BY <1>2, <2>2, <2>3, <3>1, <3>2
<1>8. ~MintsPackUnits
  <2>1. SUFFICES ASSUME MintsPackUnits PROVE FALSE
    OBVIOUS
  <2>2. PICK t \in Topups : <<"v3_pack", t>> \in claims'
    BY <2>1 DEF MintsPackUnits
  <2>3. <<"v3_pack", t>> \in {"v3_pack"} \X Topups
    OBVIOUS
  <2> QED
    BY <2>2, <2>3 DEF Young
<1>9. \A p \in Procs : ~TouchesLapsedOrPack(p)
  BY <1>2 DEF SweepsNothing, TouchesLapsedOrPack
<1> DEFINE swept == ZeroLots(lots, FreeLots)
           left  == Remaining(lots, FreeLots)
<1>10. /\ swept \in Ledger /\ DOMAIN swept = DOMAIN lots /\ Lasting(swept)
       /\ AllUnits(lots) = AllUnits(swept) + left /\ left \in Nat /\ AllUnits(swept) \in Nat
  <2>1. swept \in Ledger /\ DOMAIN swept = DOMAIN lots
    BY <1>1, ZeroLotsLedger
  <2>2. \A i \in DOMAIN lots : swept[i].expires = lots[i].expires
    BY <1>1, ZeroedLot
  <2>3. FreeLots \in SUBSET DOMAIN lots
    BY DEF FreeLots
  <2>4. Remaining(lots, DOMAIN lots) = Remaining(swept, DOMAIN lots) + left
    BY <1>1, <2>3, ZeroedTotal
  <2>5. left \in Nat
    BY <1>1, <2>3, RemainingIsNat
  <2> HIDE DEF swept, left
  <2>6. Remaining(swept, DOMAIN swept) \in Nat
    BY <2>1, RemainingIsNat
  <2>7. Lasting(swept)
    BY <1>2, <2>1, <2>2, SameLasting
  <2> QED
    BY <2>1, <2>4, <2>5, <2>6, <2>7 DEF AllUnits
<1>11. CASE ResetsFree
  <2>1. balance' = balance - left /\ lots' = swept
    BY <1>11 DEF ResetsFree
  <2> HIDE DEF swept, left
  <2> QED
    BY <1>2, <1>10, <2>1
<1>12. CASE GrantsFree
  <2> DEFINE other == balance - left
             until == (Month + 1) * MonthDays
  <2>1. /\ other \in Nat /\ other < FreeUnits /\ balance' = FreeUnits
        /\ \E month \in Nat : lots' = Append(swept, NewLot("grant", FreeUnits - other, until, month))
    BY <1>12 DEF GrantsFree
  <2>2. until \in Nat /\ until >= MonthDays
    <3>1. now \in Nat /\ MonthDays \in Nat /\ MonthDays > 0
      BY <1>1, LifecycleAssumption
    <3>2. Month \in Nat
      BY <3>1 DEF Month
    <3> HIDE DEF Month
    <3>3. \A m, d \in Nat : (m + 1) * d = m * d + d /\ m * d \in Nat
      OBVIOUS
    <3> QED
      BY <3>1, <3>2, <3>3
  <2> HIDE DEF swept, left, until
  <2>3. PICK month \in Nat : lots' = Append(swept, NewLot("grant", FreeUnits - other, until, month))
    BY <2>1
  <2> DEFINE lot == NewLot("grant", FreeUnits - other, until, month)
  <2>4. FreeUnits - other \in Nat
    BY <1>1, <2>1
  <2>5. AllUnits(swept) = other
    BY <1>2, <1>10
  <2> HIDE DEF other
  <2>6. lot \in SoundLot
    BY <2>2, <2>4, NewLotSound DEF Tags
  <2>7. lot.remaining = FreeUnits - other /\ lot.expires = until
    BY DEF NewLot
  <2>8. lots' = Append(swept, lot)
    BY <2>3
  <2> HIDE DEF lot
  <2>9. LongLived(lot)
    BY <2>2, <2>7 DEF LongLived
  <2>10. AllUnits(lots') = other + (FreeUnits - other)
    BY <1>10, <2>5, <2>6, <2>7, <2>8, AppendedTotal DEF AllUnits
  <2>11. AllUnits(lots') = FreeUnits
    BY <1>1, <2>1, <2>10
  <2> QED
    BY <1>10, <2>1, <2>6, <2>8, <2>9, <2>11, AppendLasting
<1> QED
  BY <1>4, <1>5, <1>6, <1>7, <1>8, <1>9, <1>11, <1>12 DEF LotStep

LEMMA YoungJobs ==
  ASSUME Sound, MintRefs, [Next]_vars, Young, Young', YoungInv
  PROVE  SweepsNothing'
<1>1. SweepsNothing /\ LapsedLots(lots, now) = {}
  BY YoungLots DEF YoungInv
<1>2. CASE job' = job
  BY <1>1, <1>2 DEF SweepsNothing
<1>3. ASSUME NEW p \in Procs, Moves(p) PROVE SweepsNothing'
  <2>1. PICK j : job' = [job EXCEPT ![p] = j] /\ Follows(p, j)
    BY <1>3 DEF Moves
  <2>2. job = [q \in Procs |-> job[q]]
    BY SoundParts DEF JobsOK
  <2>3. job'[p] = j /\ \A q \in Procs \ {p} : job'[q] = job[q]
    BY <2>1, <2>2
  <2>4. /\ job[p].todo = {}
        /\ job[p].at \notin {"quote", "claw", "zero", "mintLot", "mintStamp"}
    BY <1>1 DEF SweepsNothing
  <2>5. job[p].at = "mintGrant" => job[p].ref \in Topups
    BY DEF MintRefs, MintRef, MintStages
  <2>6. ~(job[p].at = "mintGrant" /\ <<"v3_pack", job[p].ref>> \in claims')
    BY <2>5 DEF Young
  <2>7. \/ j.at \in PlainStages /\ j.todo = {}
        \/ j.at = "deduct" /\ j.todo = {}
    BY <1>1, <2>1, <2>4, <2>6 DEF Follows
  <2> QED
    BY <1>1, <2>3, <2>7 DEF SweepsNothing, PlainStages
<1> QED
  BY <1>2, <1>3, StepFollows

LEMMA StepYoung ==
  ASSUME Sound, MintRefs, YoungInv, [Next]_vars
  PROVE  YoungInv'
<1> SUFFICES ASSUME Young'
             PROVE  balance' = AllUnits(lots') /\ Lasting(lots') /\ SweepsNothing'
  BY DEF YoungInv, AllUnits, Lasting, LongLived
<1>1. Young /\ LotStep
  BY YoungBefore, StepLots
<1> QED
  BY <1>1, YoungLotStep, YoungJobs

LEMMA InitYoung == Init => YoungInv
<1> SUFFICES ASSUME Init PROVE YoungInv
  OBVIOUS
<1>1. lots = << >> /\ balance = 0 /\ DOMAIN lots = {}
  BY DEF Init, RepoInit
<1>2. Idle.at = "idle" /\ Idle.todo = {}
  BY NewJobFields DEF Idle
<1>3. SweepsNothing
  BY <1>2 DEF Init, SweepsNothing
<1> QED
  BY <1>1, <1>3, RemainingNone DEF YoungInv, AllUnits, Lasting

(* Until a pack is bought or a lot can lapse, the balance is the sum of the  *)
(* live lots: the debits, refunds, admin credits and grants that write both  *)
(* tables keep them level, whoever runs and crashes in between.              *)
THEOREM LockstepAlways == Spec => []LockstepUntilExpiry
<1>1. Sound /\ YoungInv => LockstepUntilExpiry
  BY YoungLots DEF YoungInv, Young, LockstepUntilExpiry
<1>2. Init => YoungInv
  BY InitYoung
<1>3. Sound /\ MintRefs /\ YoungInv /\ [Next]_vars => YoungInv'
  BY StepYoung
<1> QED
  BY <1>1, <1>2, <1>3, AlwaysKeys, PTL DEF Spec
===============================================================================
