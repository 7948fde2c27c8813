------------------------- MODULE CreditLifecycle_proofs -------------------------
(***************************************************************************)
(* What holds of the wallet for any number of processes, charges, top-ups, *)
(* days, operations and crashes, and for any prices and limits: its types, *)
(* that the ledger explains the balance, and the bound on the daily cap.   *)
(***************************************************************************)
EXTENDS CreditLifecycle, CreditLots_proofs

(* The inductive part on types: the ledger of lots is one the table admits. *)
Sound == TypeOK /\ LotsNeverOverfilled

LEMMA LotsAreLedger == Sound => lots \in Ledger
BY DEF Sound, TypeOK, LotsNeverOverfilled, Ledger

-------------------------------------------------------------------------------
(* A row added to the ledger: it is there, counted once more, and the others *)
(* are as they were.                                                         *)
LEMMA AddRowEffect ==
  ASSUME NEW rows, NEW S, rows \in [S -> Nat \ {0}], NEW row
  PROVE  /\ AddRow(rows, row) \in [S \cup {row} -> Nat \ {0}]
         /\ row \notin S => AddRow(rows, row)[row] = 1
         /\ row \in S => AddRow(rows, row)[row] = rows[row] + 1
<1>1. CASE row \in S
  <2>1. AddRow(rows, row) = [rows EXCEPT ![row] = rows[row] + 1]
    BY <1>1 DEF AddRow
  <2>2. rows[row] + 1 \in Nat \ {0}
    BY <1>1
  <2> HIDE DEF AddRow
  <2>3. QED
    BY <1>1, <2>1, <2>2
<1>2. CASE row \notin S
  BY <1>2 DEF AddRow
<1>3. QED
  BY <1>1, <1>2

LEMMA AddRowOthers ==
  ASSUME NEW rows, NEW S, rows \in [S -> Nat \ {0}], NEW row, NEW r \in S, r # row
  PROVE  AddRow(rows, row)[r] = rows[r]
BY DEF AddRow

LEMMA AddRowType ==
  ASSUME NEW rows, NEW row \in TxnRows(Reasons, Refs),
         DOMAIN rows \subseteq TxnRows(Reasons, Refs), rows \in [DOMAIN rows -> Nat \ {0}]
  PROVE  /\ DOMAIN AddRow(rows, row) \subseteq TxnRows(Reasons, Refs)
         /\ AddRow(rows, row) \in [DOMAIN AddRow(rows, row) -> Nat \ {0}]
<1>1. AddRow(rows, row) \in [DOMAIN rows \cup {row} -> Nat \ {0}]
  BY AddRowEffect
<1>2. QED
  BY <1>1

LEMMA RowType ==
  ASSUME now \in Nat, NEW direction \in {"debit", "credit", "refund"},
         NEW reason \in Reasons, NEW ref \in Refs, NEW units \in Nat
  PROVE  Row(direction, reason, ref, units) \in TxnRows(Reasons, Refs)
BY DEF Row, TxnRows

(* The ledger of credit_transactions is well typed. *)
LedgerOK ==
  /\ Rows \subseteq TxnRows(Reasons, Refs)
  /\ txns \in [Rows -> Nat \ {0}]

LEMMA RecordType ==
  ASSUME LedgerOK, NEW row \in TxnRows(Reasons, Refs), Record(row)
  PROVE  LedgerOK'
BY AddRowType DEF LedgerOK, Record, Rows

-------------------------------------------------------------------------------
(* The wallet after each of the transactions of CreditRepository. *)
WalletOK ==
  /\ balance \in 0..MaxBalance
  /\ lots \in Ledger
  /\ LedgerOK
  /\ claims \subseteq (Reasons \cup {"free_monthly"}) \X Refs
  /\ now \in 0..MaxDay

LEMMA DeductType ==
  ASSUME WalletOK, NEW units \in Nat, NEW reason \in Reasons, NEW ref \in Refs,
         Deduct(units, reason, ref)
  PROVE  WalletOK' /\ DOMAIN lots' = DOMAIN lots
<1>1. now \in Nat
  BY LifecycleAssumption DEF WalletOK
<1>2. LedgerOK'
  BY <1>1, RowType, RecordType DEF WalletOK, Deduct
<1>3. lots' \in Ledger /\ DOMAIN lots' = DOMAIN lots
  BY ConsumeLotsLedger DEF WalletOK, Deduct
<1>4. balance' \in 0..MaxBalance
  BY MaxBalanceAssumption DEF WalletOK, Deduct
<1>5. QED
  BY <1>2, <1>3, <1>4 DEF WalletOK, Deduct

LEMMA GrantType ==
  ASSUME WalletOK, NEW units \in Nat, NEW reason \in Reasons, NEW ref \in Refs,
         Grant(units, reason, ref)
  PROVE  WalletOK' /\ DOMAIN lots' = DOMAIN lots
<1>1. now \in Nat
  BY LifecycleAssumption DEF WalletOK
<1>2. LedgerOK'
  BY <1>1, RowType, RecordType DEF WalletOK, Grant
<1>3. balance' \in 0..MaxBalance
  BY MaxBalanceAssumption DEF WalletOK, Grant
<1>4. QED
  BY <1>2, <1>3 DEF WalletOK, Grant

LEMMA GrantWithLotType ==
  ASSUME WalletOK, NEW units \in Nat, NEW reason \in Reasons, NEW tag \in Tags,
         NEW expires \in Nat, GrantWithLot(units, reason, tag, expires)
  PROVE  WalletOK' /\ DOMAIN lots \subseteq DOMAIN lots'
<1>1. now \in Nat
  BY LifecycleAssumption DEF WalletOK
<1>2. LedgerOK'
  BY <1>1, RowType, RecordType DEF WalletOK, GrantWithLot, Refs
<1>3. balance' \in 0..MaxBalance
  BY MaxBalanceAssumption DEF WalletOK, GrantWithLot
<1>4. lots' \in Ledger /\ DOMAIN lots \subseteq DOMAIN lots'
  BY NewLotSound, AppendLedger DEF WalletOK, GrantWithLot
<1>5. QED
  BY <1>2, <1>3, <1>4 DEF WalletOK, GrantWithLot

LEMMA RefundOnceType ==
  ASSUME WalletOK, NEW units \in Nat, NEW reason \in Reasons, NEW ref \in Refs,
         RefundOnce(units, reason, ref)
  PROVE  WalletOK' /\ DOMAIN lots \subseteq DOMAIN lots'
<1>1. now \in Nat
  BY LifecycleAssumption DEF WalletOK
<1>2. LedgerOK'
  BY <1>1, RowType, RecordType DEF WalletOK, RefundOnce
<1>3. balance' \in 0..MaxBalance
  BY MaxBalanceAssumption DEF WalletOK, RefundOnce
<1>4. lots' \in Ledger /\ DOMAIN lots \subseteq DOMAIN lots'
  BY RestoreLotsLedger DEF WalletOK, RefundOnce
<1>5. QED
  BY <1>2, <1>3, <1>4 DEF WalletOK, RefundOnce

-------------------------------------------------------------------------------
(* What a process holds: a job whose lots are rows of the ledger. *)
JobFits(j, ids) ==
  /\ j \in Job
  /\ \A found \in j.todo : found.lot \in ids
  /\ j.at \in {"claw", "zero"} => j.lot \in ids

JobsOK ==
  /\ job = [p \in Procs |-> job[p]]
  /\ \A p \in Procs : JobFits(job[p], DOMAIN lots)

CountersOK == ops \in 0..MaxOps /\ crashes \in 0..MaxCrashes

LEMMA SoundParts == Sound <=> WalletOK /\ JobsOK /\ CountersOK
<1>1. ASSUME Sound PROVE WalletOK /\ JobsOK /\ CountersOK
  BY <1>1, LotsAreLedger
     DEF Sound, TypeOK, WalletOK, LedgerOK, JobsOK, JobFits, CountersOK
<1>2. ASSUME WalletOK, JobsOK, CountersOK PROVE Sound
  BY <1>2 DEF Sound, TypeOK, LotsNeverOverfilled, Ledger, WalletOK, LedgerOK, JobsOK,
              JobFits, CountersOK
<1>3. QED
  BY <1>1, <1>2

LEMMA SoundAfter == ASSUME WalletOK', JobsOK', CountersOK' PROVE Sound'
BY SoundParts, PTL

LEMMA NewJobFits ==
  ASSUME NEW at \in Stages \ {"claw", "zero"}, NEW sweeps \in 0..2, NEW then \in Services,
         NEW ref \in Refs, NEW ids
  PROVE  JobFits(NewJob(at, sweeps, then, ref), ids)
BY DEF JobFits, NewJob, Job

LEMMA IdleFits == \A ids : JobFits(Idle, ids)
BY NewJobFits DEF Idle, Stages, Services, Refs

LEMMA StageFits ==
  ASSUME NEW ids, NEW j, JobFits(j, ids), NEW stage \in Stages,
         stage \in {"claw", "zero"} => j.lot \in ids
  PROVE  JobFits([j EXCEPT !.at = stage], ids)
BY DEF JobFits, Job

LEMMA AfterPassFits ==
  ASSUME NEW ids, NEW j, JobFits(j, ids)
  PROVE  JobFits(AfterPass(j), ids)
<1>1. j \in Job
  BY DEF JobFits
<1>2. j.then \in Services /\ j.sweeps \in 0..2 /\ j.ref \in Refs
  BY <1>1 DEF Job
<1>3. "sweep" \in Stages \ {"claw", "zero"} /\ j.then \in Stages \ {"claw", "zero"}
  BY <1>2 DEF Services, Stages
<1>4. CASE j.sweeps > 1
  BY <1>2, <1>3, <1>4, NewJobFits DEF AfterPass
<1>5. CASE ~(j.sweeps > 1)
  <2>1. AfterPass(j) = NewJob(j.then, 0, j.then, j.ref)
    BY <1>5 DEF AfterPass
  <2>2. QED
    BY <1>2, <1>3, <2>1, NewJobFits
<1>6. QED
  BY <1>4, <1>5

(* The lots a process holds stay rows of the ledger, which only grows. *)
LEMMA JobsKept ==
  ASSUME JobsOK, job' = job, DOMAIN lots \subseteq DOMAIN lots'
  PROVE  JobsOK'
BY DEF JobsOK, JobFits

LEMMA JobsMoved ==
  ASSUME JobsOK, DOMAIN lots \subseteq DOMAIN lots', NEW p \in Procs, NEW j,
         JobFits(j, DOMAIN lots'), job' = [job EXCEPT ![p] = j]
  PROVE  JobsOK'
BY DEF JobsOK, JobFits

LEMMA Finished ==
  ASSUME JobsOK, DOMAIN lots \subseteq DOMAIN lots', NEW p \in Procs, Finish(p)
  PROVE  JobsOK'
BY JobsMoved, IdleFits DEF Finish

LEMMA WentTo ==
  ASSUME JobsOK, DOMAIN lots \subseteq DOMAIN lots', NEW p \in Procs, NEW stage \in Stages,
         stage \in {"claw", "zero"} => job[p].lot \in DOMAIN lots', GoTo(p, stage)
  PROVE  JobsOK'
<1>1. JobFits(job[p], DOMAIN lots')
  BY DEF JobsOK, JobFits
<1>2. job' = [job EXCEPT ![p] = [job[p] EXCEPT !.at = stage]]
  BY DEF GoTo
<1>3. QED
  BY <1>1, <1>2, StageFits, JobsMoved

LEMMA WalletKept == ASSUME WalletOK, UNCHANGED repoVars PROVE WalletOK'
BY DEF WalletOK, LedgerOK, Rows, repoVars

-------------------------------------------------------------------------------
(* One lemma for each service: its steps keep wallet and processes sound. *)
LEMMA BeginSound ==
  ASSUME Sound, NEW p \in Procs, NEW sweeps \in 0..2, NEW then \in Services \ {"idle"},
         NEW ref \in Refs, Begin(p, sweeps, then, ref), CountersOK'
  PROVE  Sound'
<1>1. WalletOK /\ JobsOK
  BY SoundParts
<1>2. UNCHANGED repoVars
  BY DEF Begin, repoVars
<1>3. WalletOK'
  BY <1>1, <1>2, WalletKept
<1>4. (IF sweeps = 0 THEN then ELSE "sweep") \in Stages \ {"claw", "zero"}
  BY DEF Services, Stages
<1>5. JobFits(NewJob(IF sweeps = 0 THEN then ELSE "sweep", sweeps, then, ref), DOMAIN lots')
  BY <1>4, NewJobFits
<1>6. JobsOK'
  BY <1>1, <1>2, <1>5, JobsMoved DEF Begin, repoVars
<1>7. QED
  BY <1>3, <1>6, SoundAfter

LEMMA SweepSound ==
  ASSUME Sound, NEW p \in Procs, Sweep(p)
  PROVE  Sound'
<1>1. WalletOK /\ JobsOK /\ CountersOK
  BY SoundParts
<1>2. JobFits(job[p], DOMAIN lots) /\ job[p] \in Job
  BY <1>1 DEF JobsOK, JobFits
<1>3. /\ DOMAIN lots = 1..Len(lots) /\ Len(lots) \in Nat
      /\ \A i \in DOMAIN lots : lots[i].remaining \in Nat
  BY <1>1, LedgerLots DEF WalletOK, SoundLot, Lot
<1>4. CASE SweepRead(p)
  <2> DEFINE found == {[lot |-> i, units |-> lots[i].remaining] : i \in LapsedLots(lots, now)}
             read  == [job[p] EXCEPT !.at = "quote", !.todo = found]
  <2>1. UNCHANGED <<repoVars, ops, crashes>> /\ lots' = lots
    BY <1>4 DEF SweepRead, repoVars
  <2>2. found \subseteq [lot : Nat, units : Nat] /\ \A f \in found : f.lot \in DOMAIN lots
    BY <1>3 DEF LapsedLots
  <2>3. \/ job' = [job EXCEPT ![p] = AfterPass(job[p])]
        \/ job' = [job EXCEPT ![p] = read]
    BY <1>4 DEF SweepRead
  <2> HIDE DEF found
  <2>4. JobFits(read, DOMAIN lots')
    BY <1>2, <2>1, <2>2 DEF JobFits, Job, Stages
  <2> HIDE DEF read
  <2>5. JobsOK'
    BY <1>1, <1>2, <2>1, <2>3, <2>4, AfterPassFits, JobsMoved
  <2>6. QED
    BY <1>1, <2>1, <2>5, WalletKept, SoundAfter DEF CountersOK
<1>5. CASE SweepQuote(p)
  <2>1. UNCHANGED <<repoVars, ops, crashes>> /\ lots' = lots
    BY <1>5 DEF SweepQuote, repoVars
  <2>2. PICK row \in job[p].todo :
          LET clawback == IF row.units <= balance THEN row.units ELSE balance
          IN  job' = [job EXCEPT ![p] =
                        [job[p] EXCEPT !.at = IF clawback > 0 THEN "claw" ELSE "zero",
                                       !.todo = job[p].todo \ {row},
                                       !.lot = row.lot, !.units = clawback]]
    BY <1>5 DEF SweepQuote
  <2> DEFINE clawback == IF row.units <= balance THEN row.units ELSE balance
             stage    == IF clawback > 0 THEN "claw" ELSE "zero"
             rest     == job[p].todo \ {row}
             left     == [job[p] EXCEPT !.todo = rest, !.at = stage]
             quoted   == [left EXCEPT !.lot = row.lot, !.units = clawback]
  <2>3. row \in [lot : Nat, units : Nat] /\ row.lot \in DOMAIN lots
    BY <1>2, <2>2 DEF JobFits, Job
  <2>4. balance \in Nat
    BY <1>1, MaxBalanceAssumption DEF WalletOK
  <2>5. clawback \in Nat /\ row.lot \in Nat
    BY <2>3, <2>4
  <2>6. stage \in Stages /\ rest \subseteq job[p].todo
    BY DEF Stages
  <2>7. job' = [job EXCEPT ![p] = [job[p] EXCEPT !.at = stage, !.todo = rest,
                                                 !.lot = row.lot, !.units = clawback]]
    BY <2>2
  <2> HIDE DEF clawback, stage, rest
  <2>8. left \in Job /\ left.todo = rest
    BY <1>2, <2>6 DEF Job
  <2>9. quoted = [job[p] EXCEPT !.at = stage, !.todo = rest, !.lot = row.lot, !.units = clawback]
    BY <1>2 DEF Job
  <2> HIDE DEF left
  <2>10. quoted \in Job /\ quoted.todo = rest /\ quoted.lot = row.lot
    BY <2>5, <2>8 DEF Job
  <2> HIDE DEF quoted
  <2>11. JobFits(quoted, DOMAIN lots')
    BY <1>2, <2>1, <2>3, <2>6, <2>10 DEF JobFits
  <2>12. JobsOK'
    BY <1>1, <2>1, <2>7, <2>9, <2>11, JobsMoved
  <2>13. QED
    BY <1>1, <2>1, <2>12, WalletKept, SoundAfter DEF CountersOK
<1>6. CASE SweepClaw(p)
  <2>1. job[p].units \in Nat /\ <<"lot", job[p].lot>> \in Refs
    BY <1>2, <1>3, <1>6 DEF SweepClaw, At, JobFits, Job, Refs
  <2>2. "v3_grant_expire" \in Reasons
    BY DEF Reasons
  <2>3. WalletOK' /\ DOMAIN lots' = DOMAIN lots
    BY <1>1, <1>6, <2>1, <2>2, DeductType, WalletKept DEF SweepClaw, repoVars
  <2>4. job[p].lot \in DOMAIN lots'
    BY <1>2, <1>6, <2>3 DEF SweepClaw, At, JobFits
  <2>5. JobsOK'
    BY <1>1, <1>6, <2>3, <2>4, WentTo DEF SweepClaw, Stages
  <2>6. QED
    BY <1>1, <1>6, <2>3, <2>5, SoundAfter DEF SweepClaw, CountersOK
<1>7. CASE SweepZero(p)
  <2>1. lots' \in Ledger /\ DOMAIN lots' = DOMAIN lots
    BY <1>1, <1>7, ZeroLotsLedger DEF SweepZero, WalletOK
  <2>2. WalletOK'
    BY <1>1, <1>7, <2>1 DEF SweepZero, WalletOK, LedgerOK, Rows
  <2>3. JobsOK'
    BY <1>1, <1>2, <1>7, <2>1, AfterPassFits, JobsMoved, WentTo DEF SweepZero, Stages
  <2>4. QED
    BY <1>1, <1>7, <2>2, <2>3, SoundAfter DEF SweepZero, CountersOK
<1>8. QED
  BY <1>4, <1>5, <1>6, <1>7 DEF Sweep

LEMMA MonthIsNat == ASSUME WalletOK PROVE Month \in Nat /\ (Month + 1) * MonthDays \in Nat
<1>1. now \in Nat /\ MonthDays \in Nat /\ MonthDays > 0
  BY LifecycleAssumption DEF WalletOK
<1>2. Month \in Nat
  BY <1>1 DEF Month
<1> HIDE DEF Month
<1>3. QED
  BY <1>1, <1>2 DEF Month

LEMMA FreeSound ==
  ASSUME Sound, NEW p \in Procs, Free(p)
  PROVE  Sound'
<1>1. WalletOK /\ JobsOK /\ CountersOK
  BY SoundParts
<1>2. JobFits(job[p], DOMAIN lots) /\ job[p] \in Job
  BY <1>1 DEF JobsOK, JobFits
<1>3. Month \in Nat /\ (Month + 1) * MonthDays \in Nat /\ now \in Nat
  BY <1>1, MonthIsNat, LifecycleAssumption DEF WalletOK
<1>4. CASE FreeCheck(p)
  <2> DEFINE read == [job[p] EXCEPT !.at = "freeLock", !.month = Month]
  <2>1. UNCHANGED <<repoVars, ops, crashes>> /\ DOMAIN lots \subseteq DOMAIN lots'
    BY <1>4 DEF FreeCheck, repoVars
  <2>2. Finish(p) \/ job' = [job EXCEPT ![p] = read]
    BY <1>4 DEF FreeCheck
  <2> HIDE DEF Month
  <2>3. JobFits(read, DOMAIN lots')
    BY <1>2, <1>3, <2>1 DEF JobFits, Job, Stages, repoVars
  <2> HIDE DEF read
  <2>4. JobsOK'
    BY <1>1, <2>1, <2>2, <2>3, Finished, JobsMoved
  <2>5. QED
    BY <1>1, <2>1, <2>4, WalletKept, SoundAfter DEF CountersOK
<1>5. CASE FreeApply(p)
  <2> DEFINE month == job[p].month
             left  == Remaining(lots, FreeLots)
             other == IF balance >= left THEN balance - left ELSE 0
             reset == RecordReset(month, left)
             grant == TopUpTo(other)
             swept == ZeroLots(lots, FreeLots)
             lot   == NewLot("grant", grant, (Month + 1) * MonthDays, month)
             row   == Row("credit", "free_monthly_grant", FreeRef(month), grant)
  <2>1. month \in Nat /\ FreeRef(month) \in Refs
    BY <1>2 DEF Job, Refs, FreeRef
  <2>2. left \in Nat
    BY <1>1, RemainingIsNat DEF WalletOK, FreeLots
  <2>3. swept \in Ledger /\ DOMAIN swept = DOMAIN lots
    BY <1>1, ZeroLotsLedger DEF WalletOK
  <2>4. DOMAIN reset \subseteq TxnRows(Reasons, Refs) /\ reset \in [DOMAIN reset -> Nat \ {0}]
    <3> HIDE DEF month, left
    <3>1. Row("debit", "v3_grant_expire", FreeRef(month), left) \in TxnRows(Reasons, Refs)
      BY <1>3, <2>1, <2>2, RowType DEF Reasons
    <3> HIDE DEF LedgerOK
    <3>2. DOMAIN txns \subseteq TxnRows(Reasons, Refs) /\ txns \in [DOMAIN txns -> Nat \ {0}]
      BY <1>1 DEF WalletOK, LedgerOK, Rows
    <3>3. QED
      BY <3>1, <3>2, AddRowType DEF RecordReset
  <2>5. UNCHANGED <<now, ops, crashes>> /\ Finish(p)
    BY <1>5 DEF FreeApply
  <2>6. \/ UNCHANGED <<balance, lots, txns, claims>>
        \/ /\ left <= balance
           /\ balance' = other /\ lots' = swept /\ txns' = reset
           /\ claims' = claims \cup {<<"free_monthly", FreeRef(month)>>}
        \/ /\ other < FreeUnits
           /\ balance' = other + grant /\ lots' = Append(swept, lot)
           /\ txns' = AddRow(reset, row) /\ UNCHANGED claims
    BY <1>5 DEF FreeApply
  <2> HIDE DEF month, left, reset, swept, row
  <2>7. other \in Nat /\ other <= MaxBalance
    BY <1>1, <2>2, MaxBalanceAssumption DEF WalletOK
  <2>8. CASE UNCHANGED <<balance, lots, txns, claims>>
    <3>1. UNCHANGED repoVars
      BY <2>5, <2>8 DEF repoVars
    <3>2. QED
      BY <1>1, <2>5, <3>1, WalletKept, Finished, SoundAfter DEF CountersOK, repoVars
  <2>9. CASE /\ balance' = other /\ lots' = swept /\ txns' = reset
             /\ claims' = claims \cup {<<"free_monthly", FreeRef(month)>>}
    <3>1. WalletOK'
      BY <1>1, <2>1, <2>3, <2>4, <2>5, <2>7, <2>9 DEF WalletOK, LedgerOK, Rows
    <3>2. QED
      BY <1>1, <2>3, <2>5, <2>9, <3>1, Finished, SoundAfter DEF CountersOK
  <2>10. CASE /\ other < FreeUnits
              /\ balance' = other + grant /\ lots' = Append(swept, lot)
              /\ txns' = AddRow(reset, row) /\ UNCHANGED claims
    <3> HIDE DEF other
    <3>1. grant \in Nat /\ balance' = FreeUnits /\ balance' \in 0..MaxBalance
      BY <2>7, <2>10, LifecycleAssumption, MaxBalanceAssumption DEF TopUpTo
    <3> HIDE DEF grant
    <3>2. lot \in SoundLot
      BY <1>3, <2>1, <3>1, NewLotSound DEF Tags
    <3> HIDE DEF lot
    <3>3. lots' \in Ledger /\ DOMAIN lots \subseteq DOMAIN lots'
      BY <2>3, <2>10, <3>2, AppendLedger
    <3>4. row \in TxnRows(Reasons, Refs)
      BY <1>3, <2>1, <3>1, RowType DEF Reasons, row
    <3>5. LedgerOK'
      BY <2>4, <2>10, <3>4, AddRowType DEF LedgerOK, Rows
    <3>6. WalletOK'
      BY <1>1, <2>5, <2>10, <3>1, <3>3, <3>5 DEF WalletOK
    <3>7. QED
      BY <1>1, <2>5, <3>3, <3>6, Finished, SoundAfter DEF CountersOK
  <2>11. QED
    BY <2>6, <2>8, <2>9, <2>10
<1>6. QED
  BY <1>4, <1>5 DEF Free

LEMMA SpendSound ==
  ASSUME Sound, NEW p \in Procs, Spend(p)
  PROVE  Sound'
<1>1. WalletOK /\ JobsOK /\ CountersOK
  BY SoundParts
<1>2. job[p].ref \in Refs
  BY <1>1 DEF JobsOK, JobFits, Job
<1>3. UNCHANGED <<ops, crashes>>
  BY DEF Spend, ChargeCheck, ChargeDeduct
<1>4. WalletOK' /\ DOMAIN lots' = DOMAIN lots
  <2>1. Price \in Nat /\ "v3_music" \in Reasons
    BY LifecycleAssumption DEF Reasons
  <2>2. Deduct(Price, "v3_music", job[p].ref) \/ UNCHANGED repoVars
    BY DEF Spend, ChargeCheck, ChargeDeduct, repoVars
  <2>3. QED
    BY <1>1, <1>2, <2>1, <2>2, DeductType, WalletKept DEF repoVars
<1>5. JobsOK'
  <2>1. Finish(p) \/ GoTo(p, "deduct")
    BY DEF Spend, ChargeCheck, ChargeDeduct
  <2>2. QED
    BY <1>1, <1>4, <2>1, Finished, WentTo DEF Stages
<1>6. QED
  BY <1>1, <1>3, <1>4, <1>5, SoundAfter DEF CountersOK

LEMMA MintSound ==
  ASSUME Sound, NEW p \in Procs, Mint(p)
  PROVE  Sound'
<1>1. WalletOK /\ JobsOK /\ CountersOK
  BY SoundParts
<1>2. JobFits(job[p], DOMAIN lots) /\ job[p] \in Job
  BY <1>1 DEF JobsOK, JobFits
<1>3. /\ job[p].ref \in Refs /\ job[p].units \in Nat /\ "v3_pack" \in Reasons
      /\ PackUnits \in Nat /\ now + PackDays \in Nat
  BY <1>1, <1>2, LifecycleAssumption DEF Job, Reasons, WalletOK
<1>4. UNCHANGED <<ops, crashes>>
  BY DEF Mint, MintCheck, MintGrant, MintLot, MintStamp
<1>5. WalletOK' /\ DOMAIN lots \subseteq DOMAIN lots'
  <2>1. CASE MintCheck(p) \/ MintGrant(p)
    <3>1. UNCHANGED repoVars \/ Grant(PackUnits, "v3_pack", job[p].ref)
      BY <2>1 DEF MintCheck, MintGrant, repoVars
    <3>2. QED
      BY <1>1, <1>3, <3>1, GrantType, WalletKept DEF repoVars
  <2>2. CASE MintLot(p)
    <3> DEFINE lot == NewLot("pack", PackUnits, now + PackDays, Never)
    <3>1. lot \in SoundLot
      BY <1>3, NewLotSound DEF Tags
    <3>2. lots' = Append(lots, lot) /\ UNCHANGED <<balance, txns, claims, now>>
      BY <2>2 DEF MintLot
    <3> HIDE DEF lot
    <3>3. lots' \in Ledger /\ DOMAIN lots \subseteq DOMAIN lots'
      BY <1>1, <3>1, <3>2, AppendLedger DEF WalletOK
    <3>4. QED
      BY <1>1, <3>2, <3>3 DEF WalletOK, LedgerOK, Rows
  <2>3. CASE MintStamp(p)
    <3>1. lots' \in Ledger /\ DOMAIN lots' = DOMAIN lots
      BY <1>1, <1>3, <2>3, RestampLotsLedger DEF MintStamp, WalletOK
    <3>2. QED
      BY <1>1, <2>3, <3>1 DEF MintStamp, WalletOK, LedgerOK, Rows
  <2>4. QED
    BY <2>1, <2>2, <2>3 DEF Mint
<1>6. JobsOK'
  <2>1. CASE MintLot(p)
    <3> DEFINE read == [job[p] EXCEPT !.at = "mintStamp", !.units = now + PackDays]
    <3>1. job' = [job EXCEPT ![p] = read]
      BY <2>1 DEF MintLot
    <3>2. JobFits(read, DOMAIN lots')
      BY <1>2, <1>3, <1>5 DEF JobFits, Job, Stages
    <3> HIDE DEF read
    <3>3. QED
      BY <1>1, <1>5, <3>1, <3>2, JobsMoved
  <2>2. CASE ~MintLot(p)
    <3>1. Finish(p) \/ GoTo(p, "mintGrant") \/ GoTo(p, "mintLot")
      BY <2>2 DEF Mint, MintCheck, MintGrant, MintStamp
    <3>2. QED
      BY <1>1, <1>5, <3>1, Finished, WentTo DEF Stages
  <2>3. QED
    BY <2>1, <2>2
<1>7. QED
  BY <1>1, <1>4, <1>5, <1>6, SoundAfter DEF CountersOK

(* The first call of every service. *)
LEMMA BeginsSound ==
  ASSUME Sound, NEW p \in Procs,
         \/ BeginMaintenance(p)
         \/ \E ref \in Charges : BeginWebCharge(p, ref) \/ BeginCharge(p, ref)
         \/ \E t \in Topups : BeginTopup(p, t)
  PROVE  Sound'
<1>1. CountersOK
  BY SoundParts
<1>2. \E sweeps \in 0..2, then \in Services \ {"idle"}, ref \in Refs :
        Begin(p, sweeps, then, ref)
  BY DEF BeginMaintenance, BeginWebCharge, BeginCharge, BeginTopup, Services, Refs
<1>3. ops' = ops \/ Issue
  BY DEF BeginMaintenance, BeginWebCharge, BeginCharge, BeginTopup
<1>4. CountersOK'
  BY <1>1, <1>2, <1>3, LifecycleAssumption DEF CountersOK, Issue, Begin
<1>5. QED
  BY <1>2, <1>4, BeginSound

(* The operations that are one transaction. *)
LEMMA ManualSound ==
  ASSUME Sound, (\E ref \in Charges : RefundCharge(ref)) \/ AdminAdd \/ AdminDeduct
  PROVE  Sound'
<1>1. WalletOK /\ JobsOK /\ CountersOK
  BY SoundParts
<1>2. job' = job /\ CountersOK'
  BY <1>1, LifecycleAssumption DEF RefundCharge, AdminAdd, AdminDeduct, Issue, CountersOK
<1>3. /\ Price \in Nat /\ AdminUnits \in Nat /\ now + AdminDays \in Nat
      /\ {"v3_refund_music", "admin_adjustment"} \subseteq Reasons
      /\ NoRef \in Refs /\ Charges \subseteq Refs /\ "admin" \in Tags
  BY <1>1, LifecycleAssumption DEF WalletOK, Reasons, Refs, Tags
<1>4. \/ \E ref \in Charges : RefundOnce(Price, "v3_refund_music", ref)
      \/ GrantWithLot(AdminUnits, "admin_adjustment", "admin", now + AdminDays)
      \/ Deduct(AdminUnits, "admin_adjustment", NoRef)
  BY DEF RefundCharge, AdminAdd, AdminDeduct
<1>5. WalletOK' /\ DOMAIN lots \subseteq DOMAIN lots'
  BY <1>1, <1>3, <1>4, RefundOnceType, GrantWithLotType, DeductType
<1>6. QED
  BY <1>1, <1>2, <1>5, JobsKept, SoundAfter

LEMMA StepSound == Sound /\ [Next]_vars => Sound'
<1> SUFFICES ASSUME Sound, [Next]_vars PROVE Sound'
  OBVIOUS
<1>1. WalletOK /\ JobsOK /\ CountersOK
  BY SoundParts
<1>2. CASE \E p \in Procs : Step(p)
  BY <1>2, SweepSound, FreeSound, SpendSound, MintSound DEF Step
<1>3. CASE \E p \in Procs : Crash(p)
  <2>1. UNCHANGED repoVars /\ CountersOK'
    BY <1>1, <1>3, LifecycleAssumption DEF Crash, Issue, CountersOK, repoVars
  <2>2. JobsOK'
    BY <1>1, <1>3, Finished DEF Crash
  <2>3. QED
    BY <1>1, <2>1, <2>2, WalletKept, SoundAfter
<1>4. CASE Tick
  <2>1. WalletOK'
    BY <1>1, <1>4, LifecycleAssumption DEF Tick, WalletOK, LedgerOK, Rows
  <2>2. JobsOK' /\ CountersOK'
    BY <1>1, <1>4, JobsKept DEF Tick, CountersOK
  <2>3. QED
    BY <2>1, <2>2, SoundAfter
<1>5. CASE UNCHANGED vars
  <2>1. UNCHANGED repoVars /\ JobsOK' /\ CountersOK'
    BY <1>1, <1>5, JobsKept DEF vars, repoVars, CountersOK
  <2>2. QED
    BY <1>1, <2>1, WalletKept, SoundAfter
<1>6. QED
  BY <1>2, <1>3, <1>4, <1>5, BeginsSound, ManualSound DEF Next

LEMMA InitSound == Init => Sound
<1> SUFFICES ASSUME Init PROVE Sound
  OBVIOUS
<1>1. WalletOK
  BY LifecycleAssumption, MaxBalanceAssumption
     DEF Init, RepoInit, WalletOK, LedgerOK, Rows, Ledger, LotsWithinAmount
<1>2. JobsOK
  BY IdleFits DEF Init, JobsOK
<1>3. CountersOK
  BY LifecycleAssumption DEF Init, CountersOK
<1>4. QED
  BY <1>1, <1>2, <1>3, SoundParts

LEMMA AlwaysSound == Spec => []Sound
BY InitSound, StepSound, PTL DEF Spec

(* The wallet stays within 0 and the maximum, and ledger, claims and the     *)
(* processes are well typed, whatever services run at once or crash.         *)
THEOREM TypeCorrect == Spec => []TypeOK
BY AlwaysSound, PTL DEF Sound

(* No lot ever holds more than it was granted, so the CHECK of the table     *)
(* fails no refund, clawback, restamp or reset.                              *)
THEOREM LotsNeverOverfilledAlways == Spec => []LotsNeverOverfilled
BY AlwaysSound, PTL DEF Sound

-------------------------------------------------------------------------------
(* The units of the rows of a ledger that lie in K; the ledger counts equal rows. *)
UnitsIn(t, K) == MapThenSumSet(LAMBDA r : r.units * t[r], DOMAIN t \cap K)

LEMMA UnitsAreTotal ==
  ASSUME NEW t, NEW K, IsFiniteSet(DOMAIN t)
  PROVE  UnitsIn(t, K) = Total([r \in DOMAIN t |-> r.units * t[r]], DOMAIN t \cap K)
<1> DEFINE S == DOMAIN t \cap K
           w == [r \in DOMAIN t |-> r.units * t[r]]
           Sums(f) == f = [s \in SUBSET S |-> IF s = {} THEN 0
                             ELSE First(s).units * t[First(s)] + f[s \ {First(s)}]]
           c == CHOOSE f : Sums(f)
<1>1. IsFiniteSet(S)
  BY FS_Subset
<1>2. UnitsIn(t, K) = c[S]
  BY DEF UnitsIn, MapThenSumSet, MapThenFoldSet, First
<1>3. \A s \in SUBSET S : s # {} => w[First(s)] = First(s).units * t[First(s)]
  BY FirstIn
<1> HIDE DEF w
<1>4. \A f : Sums(f) <=> SumsTo(f, w, S)
  BY <1>3 DEF SumsTo
<1>5. \E f : SumsTo(f, w, S)
  BY <1>1, SumsExist
<1>6. Sums(c)
  BY <1>4, <1>5
<1> HIDE DEF c
<1>7. SumsTo(c, w, S)
  BY <1>4, <1>6
<1> HIDE DEF S, Sums
<1>8. Total(w, S) = c[S]
  BY <1>1, <1>7, TotalSums
<1> QED
  BY <1>2, <1>8 DEF S, w

LEMMA UnitsInType ==
  ASSUME NEW t, NEW K, IsFiniteSet(DOMAIN t),
         \A r \in DOMAIN t : r.units \in Nat /\ t[r] \in Nat
  PROVE  UnitsIn(t, K) \in Nat
<1> DEFINE w == [r \in DOMAIN t |-> r.units * t[r]]
           S == DOMAIN t \cap K
<1>1. \A r \in S : w[r] \in Nat
  <2> SUFFICES ASSUME NEW r \in S PROVE r.units * t[r] \in Nat
    OBVIOUS
  <2>1. \A m, n \in Nat : m * n \in Nat
    OBVIOUS
  <2> QED
    BY <2>1
<1>2. IsFiniteSet(S) /\ UnitsIn(t, K) = Total(w, S)
  BY UnitsAreTotal, FS_Subset
<1> HIDE DEF w, S
<1> QED
  BY <1>1, <1>2, TotalType

LEMMA UnitsInEmpty ==
  ASSUME NEW t, NEW K, IsFiniteSet(DOMAIN t), DOMAIN t \cap K = {}
  PROVE  UnitsIn(t, K) = 0
BY UnitsAreTotal, TotalEmpty

(* Rows outside K do not count. *)
LEMMA UnitsInSame ==
  ASSUME NEW t, NEW u, NEW K, IsFiniteSet(DOMAIN t), IsFiniteSet(DOMAIN u),
         DOMAIN t \cap K = DOMAIN u \cap K, \A r \in DOMAIN t \cap K : t[r] = u[r]
  PROVE  UnitsIn(t, K) = UnitsIn(u, K)
<1> DEFINE v == [r \in DOMAIN t |-> r.units * t[r]]
           w == [r \in DOMAIN u |-> r.units * u[r]]
           S == DOMAIN t \cap K
<1>1. \A r \in S : v[r] = w[r]
  OBVIOUS
<1>2. IsFiniteSet(S) /\ UnitsIn(t, K) = Total(v, S) /\ UnitsIn(u, K) = Total(w, S)
  BY UnitsAreTotal, FS_Subset
<1> HIDE DEF v, w, S
<1> QED
  BY <1>1, <1>2, TotalSame

(* A row that is inserted counts its units, whether an equal one was there or not. *)
LEMMA UnitsInInserted ==
  ASSUME NEW t, NEW u, NEW row, NEW K, IsFiniteSet(DOMAIN t),
         \A r \in DOMAIN t : r.units \in Nat /\ t[r] \in Nat,
         row.units \in Nat, row \in K,
         DOMAIN u = DOMAIN t \cup {row},
         u[row] = IF row \in DOMAIN t THEN t[row] + 1 ELSE 1,
         \A r \in DOMAIN t \ {row} : u[r] = t[r]
  PROVE  UnitsIn(u, K) = UnitsIn(t, K) + row.units
<1> DEFINE v == [r \in DOMAIN t |-> r.units * t[r]]
           w == [r \in DOMAIN u |-> r.units * u[r]]
           S == DOMAIN t \cap K
           R == DOMAIN u \cap K
           n == row.units
<1>1. IsFiniteSet(DOMAIN u)
  BY FS_AddElement
<1>2. IsFiniteSet(S) /\ IsFiniteSet(R)
  BY <1>1, FS_Subset
<1>3. UnitsIn(t, K) = Total(v, S) /\ UnitsIn(u, K) = Total(w, R)
  BY <1>1, UnitsAreTotal
<1>4. \A m, k \in Nat : m * k \in Nat
  OBVIOUS
<1>5. \A r \in S : v[r] \in Nat
  BY <1>4
<1>6. w[row] = n * u[row] /\ row \in R
  OBVIOUS
<1>7. \A r \in R : w[r] \in Nat
  BY <1>4
<1>8. \A r \in S \ {row} : w[r] = v[r]
  OBVIOUS
<1>9. R \ {row} = S \ {row} /\ IsFiniteSet(S \ {row})
  BY <1>2, FS_Subset
<1>10. Total(w, R) = w[row] + Total(w, R \ {row})
  <2> HIDE DEF w, R
  <2> QED
    BY <1>2, <1>6, <1>7, TotalRemove
<1>11. Total(w, R \ {row}) = Total(v, S \ {row})
  <2> HIDE DEF v, w, R, S
  <2> QED
    BY <1>8, <1>9, TotalSame
<1>12. Total(v, S \ {row}) \in Nat
  <2> HIDE DEF v, S
  <2> QED
    BY <1>5, <1>9, TotalType
<1>13. CASE row \in DOMAIN t
  <2>1. row \in S /\ v[row] = n * t[row] /\ w[row] = n * (t[row] + 1) /\ t[row] \in Nat
    BY <1>13
  <2>2. Total(v, S) = v[row] + Total(v, S \ {row})
    <3> HIDE DEF v, S
    <3> QED
      BY <1>2, <1>5, <2>1, TotalRemove
  <2> HIDE DEF v, w, S, R
  <2>3. \A k \in Nat : n * (k + 1) = n * k + n /\ n * k \in Nat
    OBVIOUS
  <2> QED
    BY <1>3, <1>10, <1>11, <1>12, <2>1, <2>2, <2>3
<1>14. CASE row \notin DOMAIN t
  <2>1. S \ {row} = S /\ w[row] = n
    BY <1>14
  <2> HIDE DEF v, w, S, R
  <2>2. Total(v, S \ {row}) = Total(v, S)
    BY <2>1
  <2>3. Total(w, R) = n + Total(v, S) /\ Total(v, S) \in Nat /\ n \in Nat
    BY <1>10, <1>11, <1>12, <2>1, <2>2
  <2> QED
    BY <1>3, <2>3
<1> QED
  BY <1>13, <1>14

-------------------------------------------------------------------------------
(* A ledger that can be summed. *)
Summable(t) ==
  /\ IsFiniteSet(DOMAIN t)
  /\ t \in [DOMAIN t -> Nat \ {0}]
  /\ \A r \in DOMAIN t : r.units \in Nat

LEMMA AddRowUnits ==
  ASSUME NEW t, Summable(t), NEW row, row.units \in Nat
  PROVE  /\ Summable(AddRow(t, row))
         /\ DOMAIN AddRow(t, row) = DOMAIN t \cup {row}
         /\ \A K : UnitsIn(AddRow(t, row), K) =
                     IF row \in K THEN UnitsIn(t, K) + row.units ELSE UnitsIn(t, K)
<1> DEFINE u == AddRow(t, row)
           S == DOMAIN t
<1>1. t \in [S -> Nat \ {0}] /\ IsFiniteSet(S)
  BY DEF Summable
<1>2. \A r \in S : r.units \in Nat /\ t[r] \in Nat
  BY DEF Summable
<1> HIDE DEF S
<1>3. u \in [S \cup {row} -> Nat \ {0}] /\ u[row] = IF row \in S THEN t[row] + 1 ELSE 1
  BY <1>1, AddRowEffect
<1>4. \A r \in S \ {row} : u[r] = t[r]
  BY <1>1, AddRowOthers
<1> HIDE DEF u
<1>5. DOMAIN u = S \cup {row} /\ IsFiniteSet(DOMAIN u) /\ u \in [DOMAIN u -> Nat \ {0}]
  BY <1>1, <1>3, FS_AddElement
<1>6. Summable(u)
  BY <1>2, <1>5 DEF Summable
<1>7. ASSUME NEW K
      PROVE  UnitsIn(u, K) = IF row \in K THEN UnitsIn(t, K) + row.units ELSE UnitsIn(t, K)
  <2>1. CASE row \in K
    <3>1. UnitsIn(u, K) = UnitsIn(t, K) + row.units
      BY <1>1, <1>2, <1>3, <1>4, <1>5, <2>1, UnitsInInserted DEF S
    <3> QED
      BY <2>1, <3>1
  <2>2. CASE row \notin K
    <3>1. DOMAIN t \cap K = DOMAIN u \cap K /\ \A r \in DOMAIN t \cap K : t[r] = u[r]
      BY <1>4, <1>5, <2>2 DEF S
    <3>2. IsFiniteSet(DOMAIN t)
      BY <1>1 DEF S
    <3>3. UnitsIn(t, K) = UnitsIn(u, K)
      BY <1>5, <3>1, <3>2, UnitsInSame
    <3> QED
      BY <2>2, <3>3
  <2> QED
    BY <2>1, <2>2
<1> QED
  BY <1>5, <1>6, <1>7 DEF u, S

LEMMA SummableType ==
  ASSUME NEW t, Summable(t), NEW K
  PROVE  UnitsIn(t, K) \in Nat
<1>1. IsFiniteSet(DOMAIN t) /\ \A r \in DOMAIN t : r.units \in Nat /\ t[r] \in Nat
  BY DEF Summable
<1> QED
  BY <1>1, UnitsInType

-------------------------------------------------------------------------------
(* What a row of the ledger brings to the wallet. *)
Brings(row) == IF row.direction = "debit" THEN 0 - row.units ELSE row.units

(* The rows of a direction. *)
Directed(d) == {r \in TxnRows(Reasons, Refs) : r.direction = d}

(* What the ledger says of the wallet. *)
Net(t) == UnitsIn(t, Directed("credit")) + UnitsIn(t, Directed("refund"))
          - UnitsIn(t, Directed("debit"))

LEMMA NetAdded ==
  ASSUME NEW t, Summable(t), NEW row \in TxnRows(Reasons, Refs)
  PROVE  /\ Summable(AddRow(t, row))
         /\ Net(AddRow(t, row)) = Net(t) + Brings(row)
<1>1. /\ row.units \in Nat /\ row.direction \in {"debit", "credit", "refund"}
      /\ \A d : row \in Directed(d) <=> row.direction = d
  BY DEF TxnRows, Directed
<1> DEFINE u == AddRow(t, row)
<1>2. Summable(u) /\ \A K : UnitsIn(u, K) =
        IF row \in K THEN UnitsIn(t, K) + row.units ELSE UnitsIn(t, K)
  BY <1>1, AddRowUnits
<1> HIDE DEF u
<1>3. \A d : UnitsIn(u, Directed(d)) =
        IF row.direction = d THEN UnitsIn(t, Directed(d)) + row.units
        ELSE UnitsIn(t, Directed(d))
  BY <1>1, <1>2
<1>4. \A d : UnitsIn(t, Directed(d)) \in Nat
  BY SummableType
<1>5. Net(u) = Net(t) + Brings(row)
  <2> DEFINE c == UnitsIn(t, Directed("credit"))
             r == UnitsIn(t, Directed("refund"))
             d == UnitsIn(t, Directed("debit"))
             c2 == UnitsIn(u, Directed("credit"))
             r2 == UnitsIn(u, Directed("refund"))
             d2 == UnitsIn(u, Directed("debit"))
  <2>1. c \in Nat /\ r \in Nat /\ d \in Nat
    BY <1>4
  <2>2. /\ c2 = IF row.direction = "credit" THEN c + row.units ELSE c
        /\ r2 = IF row.direction = "refund" THEN r + row.units ELSE r
        /\ d2 = IF row.direction = "debit" THEN d + row.units ELSE d
    BY <1>3
  <2> HIDE DEF c, r, d, c2, r2, d2
  <2>3. c2 + r2 - d2 = c + r - d + Brings(row)
    BY <1>1, <2>1, <2>2 DEF Brings
  <2> QED
    BY <2>3 DEF Net, c, r, d, c2, r2, d2
<1> QED
  BY <1>2, <1>5 DEF u

(* The rows a step can add: those of the day, charges of a song or not. *)
Today   == {r \in TxnRows(Reasons, Refs) : r.day = IF r.reason = "v3_music" THEN now ELSE 0}
Songs   == {r \in Today : r.direction = "debit" /\ r.reason = "v3_music" /\ r.units = Price}
NoSongs == {r \in Today : ~(r.direction = "debit" /\ r.reason = "v3_music")}

(* What a step leaves in the ledger is what it does to the balance. *)
Nothing == txns' = txns /\ balance' = balance

OneRow(S) == \E row \in S : txns' = AddRow(txns, row) /\ balance' = balance + Brings(row)

TwoRows(S) ==
  \E first, second \in S :
    /\ txns' = AddRow(AddRow(txns, first), second)
    /\ balance' = (balance + Brings(first)) + Brings(second)

Recorded(S) == Nothing \/ OneRow(S) \/ TwoRows(S)

LEMMA RowIsToday ==
  ASSUME WalletOK, NEW direction \in {"debit", "credit", "refund"},
         NEW reason \in Reasons, NEW ref \in Refs, NEW units \in Nat
  PROVE  /\ Row(direction, reason, ref, units) \in Today
         /\ ~(direction = "debit" /\ reason = "v3_music") =>
              Row(direction, reason, ref, units) \in NoSongs
         /\ Brings(Row(direction, reason, ref, units)) =
              IF direction = "debit" THEN 0 - units ELSE units
<1> DEFINE row == Row(direction, reason, ref, units)
<1>1. row \in TxnRows(Reasons, Refs)
  BY RowType, LifecycleAssumption DEF WalletOK
<1>2. /\ row.direction = direction /\ row.reason = reason /\ row.units = units
      /\ row.day = IF row.reason = "v3_music" THEN now ELSE 0
  BY DEF Row
<1> HIDE DEF row
<1> QED
  BY <1>1, <1>2 DEF Today, NoSongs, Brings, row

LEMMA DeductRecords ==
  ASSUME WalletOK, NEW units \in Nat, NEW reason \in Reasons, NEW ref \in Refs,
         Deduct(units, reason, ref)
  PROVE  /\ reason # "v3_music" => OneRow(NoSongs)
         /\ reason = "v3_music" /\ units = Price => OneRow(Songs)
<1> DEFINE row == Row("debit", reason, ref, units)
<1>1. row \in Today /\ (reason # "v3_music" => row \in NoSongs) /\ Brings(row) = 0 - units
  BY RowIsToday
<1>2. reason = "v3_music" /\ units = Price => row \in Songs
  BY <1>1 DEF Songs, Row
<1>3. balance' = balance + (0 - units) /\ txns' = AddRow(txns, row)
  BY MaxBalanceAssumption DEF Deduct, WalletOK, Record
<1> HIDE DEF row
<1> QED
  BY <1>1, <1>2, <1>3 DEF OneRow

(* Credits and refunds. *)
LEMMA CreditRecords ==
  ASSUME WalletOK, NEW units \in Nat, NEW direction \in {"credit", "refund"},
         NEW reason \in Reasons, NEW ref \in Refs,
         Record(Row(direction, reason, ref, units)), balance' = balance + units
  PROVE  OneRow(NoSongs)
<1> DEFINE row == Row(direction, reason, ref, units)
<1>1. row \in NoSongs /\ Brings(row) = units
  BY RowIsToday
<1>2. balance' = balance + units /\ txns' = AddRow(txns, row)
  BY DEF Record
<1> HIDE DEF row
<1> QED
  BY <1>1, <1>2 DEF OneRow

LEMMA SweepRecords ==
  ASSUME Sound, NEW p \in Procs, Sweep(p)
  PROVE  Recorded(NoSongs)
<1>1. WalletOK /\ JobsOK
  BY SoundParts
<1>2. CASE SweepClaw(p)
  <2>1. /\ job[p].units \in Nat /\ <<"lot", job[p].lot>> \in Refs
        /\ "v3_grant_expire" \in Reasons
    BY <1>1, <1>2, LedgerLots DEF JobsOK, JobFits, SweepClaw, At, Job, Refs, Reasons, WalletOK
  <2>2. Deduct(job[p].units, "v3_grant_expire", <<"lot", job[p].lot>>) \/ UNCHANGED repoVars
    BY <1>2 DEF SweepClaw
  <2> QED
    BY <1>1, <2>1, <2>2, DeductRecords DEF Recorded, Nothing, repoVars
<1>3. CASE SweepRead(p) \/ SweepQuote(p) \/ SweepZero(p)
  BY <1>3 DEF SweepRead, SweepQuote, SweepZero, Recorded, Nothing
<1> QED
  BY <1>2, <1>3 DEF Sweep

LEMMA SpendRecords ==
  ASSUME Sound, NEW p \in Procs, Spend(p)
  PROVE  Nothing \/ (At(p, "deduct") /\ Finish(p) /\ now' = now /\ OneRow(Songs))
<1>1. WalletOK /\ JobsOK
  BY SoundParts
<1>2. Price \in Nat /\ job[p].ref \in Refs /\ "v3_music" \in Reasons
  BY <1>1, LifecycleAssumption DEF JobsOK, JobFits, Job, Reasons
<1>3. \/ UNCHANGED <<balance, txns>>
      \/ At(p, "deduct") /\ Finish(p) /\ Deduct(Price, "v3_music", job[p].ref)
  BY DEF Spend, ChargeCheck, ChargeDeduct, repoVars
<1> QED
  BY <1>1, <1>2, <1>3, DeductRecords DEF Nothing, Deduct

LEMMA MintRecords ==
  ASSUME Sound, NEW p \in Procs, Mint(p)
  PROVE  Recorded(NoSongs)
<1>1. WalletOK /\ JobsOK
  BY SoundParts
<1>2. PackUnits \in Nat /\ job[p].ref \in Refs /\ "v3_pack" \in Reasons
  BY <1>1, LifecycleAssumption DEF JobsOK, JobFits, Job, Reasons
<1>3. Grant(PackUnits, "v3_pack", job[p].ref) \/ UNCHANGED <<balance, txns>>
  BY DEF Mint, MintCheck, MintGrant, MintLot, MintStamp, repoVars
<1>4. CASE Grant(PackUnits, "v3_pack", job[p].ref)
  BY <1>1, <1>2, <1>4, CreditRecords DEF Grant, Recorded
<1> QED
  BY <1>3, <1>4 DEF Recorded, Nothing

LEMMA FreeRecords ==
  ASSUME Sound, NEW p \in Procs, Free(p)
  PROVE  Recorded(NoSongs)
<1>1. WalletOK /\ JobsOK
  BY SoundParts
<1>2. CASE FreeCheck(p)
  BY <1>2 DEF FreeCheck, Recorded, Nothing
<1>3. CASE FreeApply(p)
  <2>0. PICK month \in Nat : month = job[p].month
    BY <1>1 DEF JobsOK, JobFits, Job
  <2> DEFINE left  == Remaining(lots, FreeLots)
             other == IF balance >= left THEN balance - left ELSE 0
             debit == Row("debit", "v3_grant_expire", FreeRef(month), left)
             grant == TopUpTo(other)
             row   == Row("credit", "free_monthly_grant", FreeRef(month), grant)
  <2>1. \/ UNCHANGED <<balance, txns>>
        \/ left <= balance /\ balance' = other /\ txns' = RecordReset(month, left)
        \/ /\ left <= balance /\ other < FreeUnits
           /\ balance' = other + grant /\ txns' = AddRow(RecordReset(month, left), row)
    BY <1>3, <2>0 DEF FreeApply
  <2>2. left \in Nat /\ balance \in Nat
    BY <1>1, RemainingIsNat, MaxBalanceAssumption DEF WalletOK, FreeLots
  <2> HIDE DEF left
  <2>3. FreeRef(month) \in Refs /\ now \in Nat
    BY <1>1, LifecycleAssumption DEF Refs, FreeRef, WalletOK
  <2>4. debit \in NoSongs /\ Brings(debit) = 0 - left
    BY <1>1, <2>2, <2>3, RowIsToday DEF Reasons
  <2>6. RecordReset(month, left) = IF left > 0 THEN AddRow(txns, debit) ELSE txns
    BY DEF RecordReset
  <2>7. left <= balance => other \in Nat /\ other = balance + (0 - left)
    BY <2>2
  <2> HIDE DEF debit, other
  <2>8. CASE UNCHANGED <<balance, txns>>
    BY <2>8 DEF Recorded, Nothing
  <2>9. CASE left <= balance /\ balance' = other /\ txns' = RecordReset(month, left)
    <3>1. CASE left > 0
      BY <2>4, <2>6, <2>7, <2>9, <3>1 DEF Recorded, OneRow
    <3>2. CASE ~(left > 0)
      BY <2>2, <2>6, <2>7, <2>9, <3>2 DEF Recorded, Nothing
    <3> QED
      BY <3>1, <3>2
  <2>10. CASE /\ left <= balance /\ other < FreeUnits
              /\ balance' = other + grant /\ txns' = AddRow(RecordReset(month, left), row)
    <3>1. grant \in Nat
      BY <2>7, <2>10, LifecycleAssumption DEF TopUpTo
    <3> HIDE DEF grant
    <3>2. row \in NoSongs /\ Brings(row) = grant
      BY <1>1, <2>3, <3>1, RowIsToday DEF Reasons
    <3> HIDE DEF row
    <3>4. CASE left > 0
      BY <2>4, <2>6, <2>7, <2>10, <3>2, <3>4 DEF Recorded, TwoRows
    <3>5. CASE ~(left > 0)
      <4>1. other = balance
        BY <2>2, <2>7, <2>10, <3>5
      <4> QED
        BY <2>6, <2>10, <3>2, <3>5, <4>1 DEF Recorded, OneRow
    <3> QED
      BY <3>4, <3>5
  <2> QED
    BY <2>1, <2>8, <2>9, <2>10
<1> QED
  BY <1>2, <1>3 DEF Free

LEMMA ManualRecords ==
  ASSUME Sound, (\E ref \in Charges : RefundCharge(ref)) \/ AdminAdd \/ AdminDeduct
  PROVE  Recorded(NoSongs)
<1>1. WalletOK
  BY SoundParts
<1>2. /\ Price \in Nat /\ AdminUnits \in Nat
      /\ {"v3_refund_music", "admin_adjustment"} \subseteq Reasons
      /\ NoRef \in Refs /\ Charges \subseteq Refs
  BY LifecycleAssumption DEF Reasons, Refs
<1>3. CASE AdminDeduct
  BY <1>1, <1>2, <1>3, DeductRecords DEF AdminDeduct, Recorded
<1>4. CASE AdminAdd
  BY <1>1, <1>2, <1>4, CreditRecords DEF AdminAdd, GrantWithLot, Recorded
<1>5. ASSUME NEW ref \in Charges, RefundCharge(ref) PROVE Recorded(NoSongs)
  BY <1>1, <1>2, <1>5, CreditRecords DEF RefundCharge, RefundOnce, Recorded
<1> QED
  BY <1>3, <1>4, <1>5

(* A step that charges a song leaves the stage of a debit; the others record *)
(* no song.                                                                  *)
LEMMA StepRecords ==
  ASSUME Sound, [Next]_vars
  PROVE  \/ Recorded(NoSongs)
         \/ /\ now' = now /\ OneRow(Songs)
            /\ \E p \in Procs : At(p, "deduct") /\ Finish(p)
<1>1. CASE \E p \in Procs : Step(p)
  BY <1>1, SweepRecords, FreeRecords, SpendRecords, MintRecords DEF Step, Recorded
<1>2. CASE (\E ref \in Charges : RefundCharge(ref)) \/ AdminAdd \/ AdminDeduct
  BY <1>2, ManualRecords
<1>3. CASE UNCHANGED <<balance, txns>>
  BY <1>3 DEF Recorded, Nothing
<1> QED
  BY <1>1, <1>2, <1>3
     DEF Next, Begin, BeginMaintenance, BeginWebCharge, BeginCharge, BeginTopup, Crash, Tick, vars

(* The ledger explains the wallet. *)
Explains(t, b) == Summable(t) /\ b = Net(t)

Explained == Explains(txns, balance)

LEMMA StepExplained ==
  ASSUME Sound, Explained, [Next]_vars
  PROVE  Explained'
<1>0. Summable(txns) /\ balance = Net(txns)
  BY DEF Explained, Explains
<1>1. Recorded(TxnRows(Reasons, Refs))
  BY StepRecords DEF Recorded, OneRow, TwoRows, Songs, NoSongs, Today
<1>2. Summable(txns') /\ balance' = Net(txns')
  <2>1. CASE Nothing
    BY <1>0, <1>1, <2>1 DEF Nothing
  <2>2. CASE OneRow(TxnRows(Reasons, Refs))
    BY <1>0, <1>1, <2>2, NetAdded DEF OneRow
  <2>3. CASE TwoRows(TxnRows(Reasons, Refs))
    <3>1. PICK first, second \in TxnRows(Reasons, Refs) :
            /\ txns' = AddRow(AddRow(txns, first), second)
            /\ balance' = (balance + Brings(first)) + Brings(second)
      BY <2>3 DEF TwoRows
    <3> DEFINE t == AddRow(txns, first)
    <3>2. Summable(t) /\ Net(t) = Net(txns) + Brings(first)
      BY <1>0, <1>1, NetAdded
    <3>3. txns' = AddRow(t, second)
      BY <3>1
    <3> HIDE DEF t
    <3>4. Summable(txns') /\ Net(txns') = Net(t) + Brings(second)
      BY <3>2, <3>3, NetAdded
    <3> QED
      BY <1>0, <1>1, <3>1, <3>2, <3>4
  <2> QED
    BY <1>0, <1>1, <2>1, <2>2, <2>3 DEF Recorded
<1> QED
  BY <1>2 DEF Explained, Explains

LEMMA InitExplained == Init => Explained
<1> SUFFICES ASSUME Init PROVE Explained
  OBVIOUS
<1>1. txns = << >> /\ balance = 0 /\ DOMAIN txns = {}
  BY DEF Init, RepoInit
<1>2. IsFiniteSet(DOMAIN txns)
  BY <1>1, FS_EmptySet
<1>3. \A K : UnitsIn(txns, K) = 0
  BY <1>1, <1>2, UnitsInEmpty
<1>4. Summable(txns)
  BY <1>1, <1>2 DEF Summable
<1> QED
  BY <1>1, <1>3, <1>4 DEF Explained, Explains, Net

LEMMA AlwaysExplained == Spec => [](Sound /\ Explained)
<1>1. Init => Sound /\ Explained
  BY InitSound, InitExplained
<1>2. Sound /\ Explained /\ [Next]_vars => (Sound /\ Explained)'
  BY StepSound, StepExplained
<1> QED
  BY <1>1, <1>2, PTL DEF Spec

(* Credits and refunds less debits are the balance, after every step of any  *)
(* process and any crash: each call that moves the wallet writes its row in  *)
(* the same transaction, and for the units it moved and no others.           *)
THEOREM LedgerExplainsBalanceAlways == Spec => []LedgerExplainsBalance
<1>1. Sound /\ Explained => LedgerExplainsBalance
  <2> SUFFICES ASSUME Sound, Explained PROVE LedgerExplainsBalance
    OBVIOUS
  <2>1. Rows \subseteq TxnRows(Reasons, Refs)
    BY DEF Sound, TypeOK
  <2>2. \A d : {r \in Rows : r.direction = d} = DOMAIN txns \cap Directed(d)
    BY <2>1 DEF Directed, Rows
  <2>3. \A d : UnitsOf({r \in Rows : r.direction = d}) = UnitsIn(txns, Directed(d))
    BY <2>2 DEF UnitsOf, UnitsIn
  <2> QED
    BY <2>3 DEF Explained, Explains, Net, LedgerExplainsBalance
<1> QED
  BY <1>1, AlwaysExplained, PTL

-------------------------------------------------------------------------------
(* What a process can come to with a step: to a stage that asks for nothing, *)
(* or to one that only certain steps lead to.                                *)
PlainStages == {"idle", "sweep", "free", "freeLock", "charge", "mint", "mintGrant"}

Follows(p, j) ==
  \/ j.at \in PlainStages /\ (j.todo = {} \/ j.todo = job[p].todo)
  \/ j.at = "deduct" /\ ~OverDailyCap /\ UNCHANGED <<txns, now>> /\ j.todo = job[p].todo
  \/ j.at = "quote" /\ (LapsedLots(lots, now) # {} \/ job[p].todo # {})
  \/ j.at \in {"claw", "zero"} /\ job[p].todo # {}
  \/ j.at = "zero" /\ job[p].at = "claw" /\ j.todo = job[p].todo
  \/ j.at = "mintLot" /\ job[p].at = "mintGrant" /\ <<"v3_pack", job[p].ref>> \in claims'
       /\ j.todo = job[p].todo /\ j.ref = job[p].ref
  \/ j.at = "mintStamp" /\ job[p].at = "mintLot" /\ j.todo = job[p].todo /\ j.ref = job[p].ref

Moves(p) == \E j : job' = [job EXCEPT ![p] = j] /\ Follows(p, j)

LEMMA NewJobFields ==
  ASSUME NEW at, NEW sweeps, NEW then, NEW ref
  PROVE  /\ NewJob(at, sweeps, then, ref).at = at
         /\ NewJob(at, sweeps, then, ref).todo = {}
BY DEF NewJob

LEMMA FinishFollows == ASSUME NEW p \in Procs, Finish(p) PROVE Moves(p)
<1>1. Idle.at = "idle" /\ Idle.todo = {}
  BY NewJobFields DEF Idle
<1> QED
  BY <1>1 DEF Moves, Follows, Finish, PlainStages

LEMMA AfterPassFollows ==
  ASSUME NEW p \in Procs, job[p] \in Job, job' = [job EXCEPT ![p] = AfterPass(job[p])]
  PROVE  Moves(p)
<1>1. job[p].then \in Services
  BY DEF Job
<1>2. AfterPass(job[p]).at \in PlainStages /\ AfterPass(job[p]).todo = {}
  <2>1. CASE job[p].sweeps > 1
    BY <2>1, NewJobFields DEF AfterPass, PlainStages
  <2>2. CASE ~(job[p].sweeps > 1)
    BY <1>1, <2>2, NewJobFields DEF AfterPass, PlainStages, Services
  <2> QED
    BY <2>1, <2>2
<1> HIDE DEF AfterPass
<1> QED
  BY <1>2 DEF Moves, Follows

LEMMA GoToForm ==
  ASSUME NEW p \in Procs, job[p] \in Job, NEW stage, GoTo(p, stage)
  PROVE  \E j : /\ job' = [job EXCEPT ![p] = j]
                /\ j.at = stage /\ j.todo = job[p].todo /\ j.ref = job[p].ref
<1> DEFINE j == [job[p] EXCEPT !.at = stage]
<1>1. j.at = stage /\ j.todo = job[p].todo /\ j.ref = job[p].ref
  BY DEF Job
<1>2. job' = [job EXCEPT ![p] = j]
  BY DEF GoTo
<1> HIDE DEF j
<1> QED
  BY <1>1, <1>2

LEMMA SweepFollows ==
  ASSUME Sound, NEW p \in Procs, Sweep(p)
  PROVE  Moves(p)
<1>1. job[p] \in Job
  BY SoundParts DEF JobsOK, JobFits
<1>2. CASE SweepRead(p)
  <2> DEFINE found == {[lot |-> i, units |-> lots[i].remaining] : i \in LapsedLots(lots, now)}
             read  == [job[p] EXCEPT !.at = "quote", !.todo = found]
  <2>1. \/ job' = [job EXCEPT ![p] = AfterPass(job[p])]
        \/ found # {} /\ job' = [job EXCEPT ![p] = read]
    BY <1>2 DEF SweepRead
  <2>2. found # {} => LapsedLots(lots, now) # {}
    OBVIOUS
  <2> HIDE DEF found
  <2>3. read.at = "quote"
    BY <1>1 DEF Job
  <2> HIDE DEF read
  <2> QED
    BY <1>1, <2>1, <2>2, <2>3, AfterPassFollows DEF Moves, Follows
<1>3. CASE SweepQuote(p)
  <2>1. \E at \in {"claw", "zero"} : \E todo, lot, units :
          job' = [job EXCEPT ![p] = [job[p] EXCEPT !.at = at, !.todo = todo,
                                                   !.lot = lot, !.units = units]]
    BY <1>3 DEF SweepQuote
  <2>2. PICK at \in {"claw", "zero"} : \E todo, lot, units :
          job' = [job EXCEPT ![p] = [job[p] EXCEPT !.at = at, !.todo = todo,
                                                   !.lot = lot, !.units = units]]
    BY <2>1
  <2>3. PICK todo, lot, units :
          job' = [job EXCEPT ![p] = [job[p] EXCEPT !.at = at, !.todo = todo,
                                                   !.lot = lot, !.units = units]]
    BY <2>2
  <2> DEFINE quoted == [job[p] EXCEPT !.at = at, !.todo = todo, !.lot = lot, !.units = units]
  <2>4. quoted.at = at
    BY <1>1 DEF Job
  <2>5. job' = [job EXCEPT ![p] = quoted]
    BY <2>3
  <2> HIDE DEF quoted
  <2>6. job[p].todo # {}
    BY <1>3 DEF SweepQuote
  <2> QED
    BY <2>4, <2>5, <2>6 DEF Moves, Follows
<1>4. CASE SweepClaw(p)
  <2>1. GoTo(p, "zero") /\ job[p].at = "claw"
    BY <1>4 DEF SweepClaw, At
  <2> QED
    BY <1>1, <2>1, GoToForm DEF Moves, Follows
<1>5. CASE SweepZero(p)
  <2>1. \/ job' = [job EXCEPT ![p] = AfterPass(job[p])]
        \/ job[p].todo # {} /\ GoTo(p, "quote")
    BY <1>5 DEF SweepZero
  <2> QED
    BY <1>1, <2>1, AfterPassFollows, GoToForm DEF Moves, Follows
<1> QED
  BY <1>2, <1>3, <1>4, <1>5 DEF Sweep

LEMMA ServiceFollows ==
  ASSUME Sound, NEW p \in Procs, Free(p) \/ Spend(p) \/ Mint(p)
  PROVE  Moves(p)
<1>1. job[p] \in Job
  BY SoundParts DEF JobsOK, JobFits
<1>2. CASE Free(p)
  <2> DEFINE read == [job[p] EXCEPT !.at = "freeLock", !.month = Month]
  <2>1. Finish(p) \/ job' = [job EXCEPT ![p] = read]
    BY <1>2 DEF Free, FreeCheck, FreeApply
  <2> HIDE DEF Month
  <2>2. read.at = "freeLock" /\ read.todo = job[p].todo
    BY <1>1 DEF Job
  <2> HIDE DEF read
  <2> QED
    BY <2>1, <2>2, FinishFollows DEF Moves, Follows, PlainStages
<1>3. CASE Spend(p)
  <2>1. Finish(p) \/ (GoTo(p, "deduct") /\ ~OverDailyCap /\ UNCHANGED <<txns, now>>)
    BY <1>3 DEF Spend, ChargeCheck, ChargeDeduct
  <2> HIDE DEF OverDailyCap
  <2> QED
    BY <1>1, <2>1, FinishFollows, GoToForm DEF Moves, Follows
<1>4. CASE Mint(p)
  <2>1. CASE MintCheck(p)
    BY <1>1, <2>1, FinishFollows, GoToForm DEF MintCheck, Moves, Follows, PlainStages
  <2>2. CASE MintGrant(p)
    <3>1. \/ Finish(p)
          \/ /\ GoTo(p, "mintLot") /\ <<"v3_pack", job[p].ref>> \in claims'
             /\ job[p].at = "mintGrant"
      BY <2>2 DEF MintGrant, Grant, At, repoVars
    <3> QED
      BY <1>1, <3>1, FinishFollows, GoToForm DEF Moves, Follows
  <2>3. CASE MintLot(p)
    <3> DEFINE read == [job[p] EXCEPT !.at = "mintStamp", !.units = now + PackDays]
    <3>1. job' = [job EXCEPT ![p] = read] /\ job[p].at = "mintLot"
      BY <2>3 DEF MintLot, At
    <3>2. read.at = "mintStamp" /\ read.todo = job[p].todo /\ read.ref = job[p].ref
      BY <1>1 DEF Job
    <3> HIDE DEF read
    <3> QED
      BY <3>1, <3>2 DEF Moves, Follows
  <2>4. CASE MintStamp(p)
    BY <2>4, FinishFollows DEF MintStamp
  <2> QED
    BY <1>4, <2>1, <2>2, <2>3, <2>4 DEF Mint
<1> QED
  BY <1>2, <1>3, <1>4

LEMMA BeginFollows ==
  ASSUME NEW p \in Procs, NEW sweeps, NEW then \in Services, NEW ref, Begin(p, sweeps, then, ref)
  PROVE  Moves(p)
<1> DEFINE at == IF sweeps = 0 THEN then ELSE "sweep"
           j  == NewJob(at, sweeps, then, ref)
<1>1. at \in PlainStages
  BY DEF PlainStages, Services
<1>2. job' = [job EXCEPT ![p] = j]
  BY DEF Begin
<1> HIDE DEF at
<1>3. j.at = at /\ j.todo = {}
  BY NewJobFields
<1> HIDE DEF j
<1> QED
  BY <1>1, <1>2, <1>3 DEF Moves, Follows

LEMMA StepFollows ==
  ASSUME Sound, [Next]_vars
  PROVE  job' = job \/ \E p \in Procs : Moves(p)
<1>1. CASE \E p \in Procs : Step(p)
  BY <1>1, SweepFollows, ServiceFollows DEF Step
<1>2. CASE \E p \in Procs : Crash(p)
  BY <1>2, FinishFollows DEF Crash
<1>3. CASE \E p \in Procs :
             \/ BeginMaintenance(p)
             \/ \E ref \in Charges : BeginWebCharge(p, ref) \/ BeginCharge(p, ref)
             \/ \E t \in Topups : BeginTopup(p, t)
  BY <1>3, BeginFollows DEF BeginMaintenance, BeginWebCharge, BeginCharge, BeginTopup, Services
<1>4. CASE job' = job
  BY <1>4
<1> QED
  BY <1>1, <1>2, <1>3, <1>4 DEF Next, RefundCharge, AdminAdd, AdminDeduct, Tick, vars

-------------------------------------------------------------------------------
(* The daily cap. *)
Deducting == {p \in Procs : job[p].at = "deduct"}

SongsOn(day) ==
  {r \in TxnRows(Reasons, Refs) : r.direction = "debit" /\ r.reason = "v3_music" /\ r.day = day}

(* The songs of the day with those about to be debited pass the cap by at    *)
(* most one for each process beyond the first.                               *)
CapOn(t, day, some) ==
  UnitsIn(t, SongsOn(day)) + Cardinality(some) * Price
    <= DailyCap + (Cardinality(Procs) - 1) * Price

NotLater(t, day) == \A r \in DOMAIN t : r.day <= day

CapInv ==
  /\ CapOn(txns, now, Deducting)
  /\ NotLater(txns, now)
  /\ Deducting # {} => Price <= DailyCap

LEMMA SpentTodayIs ==
  ASSUME Sound
  PROVE  SpentToday("v3_music") = UnitsIn(txns, SongsOn(now))
<1>1. Rows \subseteq TxnRows(Reasons, Refs)
  BY DEF Sound, TypeOK
<1>2. {r \in Rows : r.direction = "debit" /\ r.reason = "v3_music" /\ r.day = now}
        = DOMAIN txns \cap SongsOn(now)
  BY <1>1 DEF SongsOn, Rows
<1> QED
  BY <1>2 DEF SpentToday, UnitsOf, UnitsIn

(* The arithmetic of a cap: n processes, k of them debiting. *)
LEMMA ProcsCount ==
  ASSUME NEW S, S \subseteq Procs
  PROVE  /\ IsFiniteSet(S) /\ Cardinality(S) \in Nat
         /\ Cardinality(Procs) \in Nat \ {0} /\ Cardinality(S) <= Cardinality(Procs)
<1>1. IsFiniteSet(Procs) /\ Procs # {}
  BY ProcsAssumption
<1> QED
  BY <1>1, FS_Subset, FS_CardinalityType, FS_EmptySet

LEMMA TimesMonotone ==
  ASSUME NEW k \in Nat, NEW n \in Nat, k <= n, NEW price \in Nat
  PROVE  k * price <= n * price /\ k * price \in Nat /\ n * price \in Nat
<1>1. PICK d \in Nat : n = k + d
  <2>1. n - k \in Nat /\ n = k + (n - k)
    OBVIOUS
  <2> QED
    BY <2>1
<1>2. (k + d) * price = k * price + d * price /\ k * price \in Nat /\ d * price \in Nat
  OBVIOUS
<1> QED
  BY <1>1, <1>2

LEMMA DeductingAfter ==
  ASSUME Sound, [Next]_vars
  PROVE  Deducting' \subseteq Deducting \/ (~OverDailyCap /\ UNCHANGED <<txns, now>>)
<1>1. job = [p \in Procs |-> job[p]]
  BY SoundParts DEF JobsOK
<1>2. CASE job' = job
  BY <1>2 DEF Deducting
<1>3. CASE \E p \in Procs : Moves(p)
  <2>0. PICK p \in Procs : Moves(p)
    BY <1>3
  <2>1. PICK j : job' = [job EXCEPT ![p] = j] /\ Follows(p, j)
    BY <2>0 DEF Moves
  <2>2. job'[p] = j /\ \A q \in Procs \ {p} : job'[q] = job[q]
    BY <1>1, <2>1
  <2>3. j.at # "deduct" \/ (~OverDailyCap /\ UNCHANGED <<txns, now>>)
    BY <2>1 DEF Follows, PlainStages
  <2> QED
    BY <2>2, <2>3 DEF Deducting
<1> QED
  BY <1>2, <1>3, StepFollows

LEMMA DeductingFinished ==
  ASSUME Sound, NEW p \in Procs, Finish(p)
  PROVE  Deducting' \subseteq Deducting \ {p}
<1>1. job = [q \in Procs |-> job[q]]
  BY SoundParts DEF JobsOK
<1>2. job'[p] = Idle /\ \A q \in Procs \ {p} : job'[q] = job[q]
  BY <1>1 DEF Finish
<1>3. Idle.at = "idle"
  BY NewJobFields DEF Idle
<1> QED
  BY <1>2, <1>3 DEF Deducting

(* Rows added: none of them later than today, and songs only if S has some. *)
LEMMA RowsToday ==
  ASSUME Sound, Summable(txns), NotLater(txns, now), NEW S \in SUBSET Today,
         OneRow(S) \/ TwoRows(S) \/ Nothing
  PROVE  NotLater(txns', now)
<1>1. now \in Nat
  BY LifecycleAssumption DEF Sound, TypeOK
<1>2. \A r \in Today : r.day <= now /\ r.units \in Nat
  BY <1>1 DEF Today, TxnRows
<1>3. CASE OneRow(S)
  <2>1. PICK row \in S : txns' = AddRow(txns, row)
    BY <1>3 DEF OneRow
  <2>2. DOMAIN txns' = DOMAIN txns \cup {row}
    BY <1>2, <2>1, AddRowUnits
  <2> QED
    BY <1>2, <2>2 DEF NotLater
<1>4. CASE TwoRows(S)
  <2>1. PICK first, second \in S : txns' = AddRow(AddRow(txns, first), second)
    BY <1>4 DEF TwoRows
  <2> DEFINE t == AddRow(txns, first)
  <2>2. Summable(t) /\ DOMAIN t = DOMAIN txns \cup {first}
    BY <1>2, AddRowUnits
  <2>3. txns' = AddRow(t, second)
    BY <2>1
  <2> HIDE DEF t
  <2>4. DOMAIN txns' = DOMAIN t \cup {second}
    BY <1>2, <2>2, <2>3, AddRowUnits
  <2> QED
    BY <1>2, <2>2, <2>4 DEF NotLater
<1>5. CASE Nothing
  BY <1>5 DEF Nothing, NotLater
<1> QED
  BY <1>3, <1>4, <1>5

LEMMA NoSongsAdded ==
  ASSUME Summable(txns), Recorded(NoSongs)
  PROVE  UnitsIn(txns', SongsOn(now)) = UnitsIn(txns, SongsOn(now))
<1>1. \A r \in NoSongs : r.units \in Nat /\ r \notin SongsOn(now)
  BY DEF NoSongs, SongsOn, Today, TxnRows
<1>2. CASE Nothing
  BY <1>2 DEF Nothing
<1>3. CASE OneRow(NoSongs)
  <2>1. PICK row \in NoSongs : txns' = AddRow(txns, row)
    BY <1>3 DEF OneRow
  <2> QED
    BY <1>1, <2>1, AddRowUnits
<1>4. CASE TwoRows(NoSongs)
  <2>1. PICK first, second \in NoSongs : txns' = AddRow(AddRow(txns, first), second)
    BY <1>4 DEF TwoRows
  <2> DEFINE t == AddRow(txns, first)
  <2>2. Summable(t) /\ UnitsIn(t, SongsOn(now)) = UnitsIn(txns, SongsOn(now))
    BY <1>1, AddRowUnits
  <2>3. txns' = AddRow(t, second)
    BY <2>1
  <2> HIDE DEF t
  <2> QED
    BY <1>1, <2>2, <2>3, AddRowUnits
<1> QED
  BY <1>2, <1>3, <1>4 DEF Recorded

LEMMA SongAdded ==
  ASSUME Summable(txns), OneRow(Songs)
  PROVE  UnitsIn(txns', SongsOn(now)) = UnitsIn(txns, SongsOn(now)) + Price
<1>1. \A r \in Songs : r.units \in Nat /\ r \in SongsOn(now) /\ r.units = Price
  BY DEF Songs, SongsOn, Today, TxnRows
<1>2. PICK row \in Songs : txns' = AddRow(txns, row)
  BY DEF OneRow
<1>3. row.units = Price /\ row.units \in Nat /\ row \in SongsOn(now)
  BY <1>1
<1>4. UnitsIn(AddRow(txns, row), SongsOn(now)) =
        IF row \in SongsOn(now) THEN UnitsIn(txns, SongsOn(now)) + row.units
        ELSE UnitsIn(txns, SongsOn(now))
  BY <1>3, AddRowUnits
<1> QED
  BY <1>2, <1>3, <1>4

(* Fewer processes that debit, or none that has passed the check. *)
LEMMA CapArithmetic ==
  ASSUME NEW S, S \subseteq Procs, NEW T, T \subseteq S, NEW spent \in Nat,
         spent + Cardinality(S) * Price <= DailyCap + (Cardinality(Procs) - 1) * Price
  PROVE  /\ spent + Cardinality(T) * Price <= DailyCap + (Cardinality(Procs) - 1) * Price
         /\ \A p \in S : T \subseteq S \ {p} =>
              (spent + Price) + Cardinality(T) * Price
                <= DailyCap + (Cardinality(Procs) - 1) * Price
<1> DEFINE k == Cardinality(S)
           l == Cardinality(T)
           n == Cardinality(Procs)
<1>1. /\ IsFiniteSet(S) /\ k \in Nat /\ l \in Nat /\ n \in Nat \ {0}
      /\ Price \in Nat /\ DailyCap \in Nat
  BY ProcsCount, LifecycleAssumption
<1>2. l <= k
  BY <1>1, FS_Subset
<1>3. ASSUME NEW p \in S, T \subseteq S \ {p} PROVE l + 1 <= k
  <2>1. IsFiniteSet(S \ {p}) /\ Cardinality(S \ {p}) = k - 1
    BY <1>1, FS_RemoveElement
  <2>2. l <= k - 1
    BY <1>3, <2>1, FS_Subset
  <2> QED
    BY <1>1, <2>2
<1>4. spent + k * Price <= DailyCap + (n - 1) * Price
  OBVIOUS
<1> HIDE DEF k, l, n
<1>5. l * Price <= k * Price /\ l * Price \in Nat /\ k * Price \in Nat
  BY <1>1, <1>2, TimesMonotone
<1>6. (n - 1) * Price \in Nat
  <2>1. n - 1 \in Nat
    BY <1>1
  <2> QED
    BY <1>1, <2>1, TimesMonotone
<1>7. spent + l * Price <= DailyCap + (n - 1) * Price
  BY <1>1, <1>4, <1>5, <1>6
<1>8. ASSUME NEW p \in S, T \subseteq S \ {p}
      PROVE  (spent + Price) + l * Price <= DailyCap + (n - 1) * Price
  <2>1. l + 1 \in Nat /\ l + 1 <= k
    BY <1>1, <1>3, <1>8
  <2>2. (l + 1) * Price <= k * Price
    BY <1>1, <2>1, TimesMonotone
  <2>3. (l + 1) * Price = l * Price + Price
    BY <1>1
  <2> QED
    BY <1>1, <1>4, <1>5, <1>6, <2>2, <2>3
<1> QED
  BY <1>7, <1>8 DEF k, l, n

LEMMA CapFresh ==
  ASSUME NEW T, T \subseteq Procs, NEW spent \in Nat,
         \/ spent + Price <= DailyCap
         \/ spent = 0 /\ (T # {} => Price <= DailyCap)
  PROVE  spent + Cardinality(T) * Price <= DailyCap + (Cardinality(Procs) - 1) * Price
<1> DEFINE l == Cardinality(T)
           n == Cardinality(Procs)
<1>1. l \in Nat /\ n \in Nat \ {0} /\ l <= n /\ Price \in Nat /\ DailyCap \in Nat
  BY ProcsCount, LifecycleAssumption
<1>2. T = {} => l = 0
  BY FS_EmptySet
<1> HIDE DEF l, n
<1>3. n - 1 \in Nat
  BY <1>1
<1>4. /\ l * Price <= n * Price /\ l * Price \in Nat /\ n * Price \in Nat
      /\ (n - 1) * Price \in Nat
  BY <1>1, <1>3, TimesMonotone
<1>5. n * Price = (n - 1) * Price + Price
  <2>1. n = (n - 1) + 1
    BY <1>1
  <2>2. \A m \in Nat : (m + 1) * Price = m * Price + Price
    BY <1>1
  <2> QED
    BY <1>3, <2>1, <2>2
<1>6. T = {} => l * Price = 0
  BY <1>1, <1>2
<1> QED
  BY <1>1, <1>4, <1>5, <1>6 DEF l, n

(* Time passes in steps of their own. *)
LEMMA OnlyTick == ASSUME [Next]_vars, now' # now PROVE Tick
BY DEF Next, Begin, BeginMaintenance, BeginWebCharge, BeginCharge, BeginTopup, Step,
       Sweep, SweepRead, SweepQuote, SweepClaw, SweepZero, Free, FreeCheck, FreeApply, Spend,
       ChargeCheck, ChargeDeduct, Mint, MintCheck, MintGrant, MintLot, MintStamp, Crash,
       RefundCharge, AdminAdd, AdminDeduct, vars, repoVars, Deduct, Grant,
       GrantWithLot, RefundOnce

LEMMA StepCap ==
  ASSUME Sound, Explained, CapInv, [Next]_vars
  PROVE  CapInv'
<1> DEFINE spent == UnitsIn(txns, SongsOn(now))
<1>1. /\ Summable(txns) /\ NotLater(txns, now) /\ now \in Nat
      /\ CapOn(txns, now, Deducting)
      /\ Deducting # {} => Price <= DailyCap
  BY LifecycleAssumption DEF Explained, Explains, CapInv, Sound, TypeOK
<1>2. spent \in Nat /\ Deducting \subseteq Procs /\ Deducting' \subseteq Procs
  BY <1>1, SummableType DEF Deducting
<1>3. OverDailyCap <=> spent + Price > DailyCap
  BY SpentTodayIs DEF OverDailyCap
<1>a. Price \in Nat /\ DailyCap \in Nat
  BY LifecycleAssumption
<1>4. ~OverDailyCap => Price <= DailyCap /\ spent + Price <= DailyCap
  BY <1>a, <1>2, <1>3
<1>5. /\ CapOn(txns', now', Deducting')
      /\ NotLater(txns', now')
      /\ Deducting' # {} => Price <= DailyCap
  <2>1. CASE now' # now
    <3>1. now' = now + 1 /\ txns' = txns /\ job' = job
      BY <2>1, OnlyTick DEF Tick
    <3>2. Deducting' = Deducting
      BY <3>1 DEF Deducting
    <3>3. \A r \in DOMAIN txns : r.day \in Nat
      BY DEF Sound, TypeOK, Rows, TxnRows
    <3>4. NotLater(txns, now + 1) /\ DOMAIN txns \cap SongsOn(now + 1) = {}
      BY <1>1, <3>3 DEF NotLater, SongsOn
    <3>5. UnitsIn(txns, SongsOn(now + 1)) = 0
      BY <1>1, <3>4, UnitsInEmpty DEF Summable
    <3>6. CapOn(txns, now + 1, Deducting)
      <4>1. 0 \in Nat /\ (Deducting # {} => Price <= DailyCap)
        BY <1>1
      <4>2. 0 + Cardinality(Deducting) * Price <= DailyCap + (Cardinality(Procs) - 1) * Price
        BY <1>2, <4>1, CapFresh
      <4> QED
        BY <3>5, <4>2 DEF CapOn
    <3> QED
      BY <1>1, <3>1, <3>2, <3>4, <3>6
  <2>2. CASE now' = now
    <3>1. NotLater(txns', now)
      <4>1. Recorded(NoSongs) \/ OneRow(Songs)
        BY StepRecords
      <4>2. NoSongs \in SUBSET Today /\ Songs \in SUBSET Today
        BY DEF NoSongs, Songs
      <4> QED
        BY <1>1, <4>1, <4>2, RowsToday DEF Recorded
    <3>2. CASE ~OverDailyCap /\ UNCHANGED <<txns, now>>
      <4>1. CapOn(txns, now, Deducting')
        BY <1>2, <1>4, <3>2, CapFresh DEF CapOn
      <4> QED
        BY <1>4, <2>2, <3>1, <3>2, <4>1
    <3>3. CASE Deducting' \subseteq Deducting /\ Recorded(NoSongs)
      <4>1. UnitsIn(txns', SongsOn(now)) = spent
        BY <1>1, <3>3, NoSongsAdded
      <4>2. CapOn(txns', now, Deducting')
        BY <1>1, <1>2, <3>3, <4>1, CapArithmetic DEF CapOn
      <4> QED
        BY <1>1, <2>2, <3>1, <3>3, <4>2
    <3>4. CASE OneRow(Songs) /\ \E p \in Procs : At(p, "deduct") /\ Finish(p)
      <4>1. PICK p \in Procs : At(p, "deduct") /\ Finish(p)
        BY <3>4
      <4>2. p \in Deducting /\ Deducting' \subseteq Deducting \ {p}
        BY <4>1, DeductingFinished DEF Deducting, At
      <4>3. UnitsIn(txns', SongsOn(now)) = spent + Price
        BY <1>1, <3>4, SongAdded
      <4>4. CapOn(txns', now, Deducting')
        <5>1. Deducting' \subseteq Deducting
          BY <4>2
        <5>2. spent + Cardinality(Deducting) * Price
                <= DailyCap + (Cardinality(Procs) - 1) * Price
          BY <1>1 DEF CapOn
        <5>3. (spent + Price) + Cardinality(Deducting') * Price
                <= DailyCap + (Cardinality(Procs) - 1) * Price
          BY <1>2, <4>2, <5>1, <5>2, CapArithmetic
        <5> QED
          BY <4>3, <5>3 DEF CapOn
      <4> QED
        BY <1>1, <2>2, <3>1, <4>2, <4>4
    <3> QED
      BY <3>2, <3>3, <3>4, DeductingAfter, StepRecords
  <2> QED
    BY <2>1, <2>2
<1> QED
  BY <1>5 DEF CapInv

LEMMA InitCap == Init => CapInv
<1> SUFFICES ASSUME Init PROVE CapInv
  OBVIOUS
<1>1. txns = << >> /\ DOMAIN txns = {} /\ now = 0
  BY DEF Init, RepoInit
<1>2. Idle.at = "idle"
  BY NewJobFields DEF Idle
<1>3. Deducting = {}
  BY <1>2 DEF Init, Deducting
<1>4. UnitsIn(txns, SongsOn(now)) = 0
  BY <1>1, FS_EmptySet, UnitsInEmpty
<1>5. CapOn(txns, now, Deducting)
  BY <1>3, <1>4, CapFresh DEF CapOn
<1> QED
  BY <1>1, <1>3, <1>5 DEF CapInv, NotLater

(* The songs of a day stay within the daily cap and one song for each        *)
(* process beyond the first: check_daily_spend reads the ledger outside the  *)
(* lock of the debit, so that many checks can pass before the last debit.    *)
THEOREM CapOvershootBoundedAlways == Spec => []CapOvershootBounded
<1>1. Init => Sound /\ Explained /\ CapInv
  BY InitSound, InitExplained, InitCap
<1>2. Sound /\ Explained /\ CapInv /\ [Next]_vars => (Sound /\ Explained /\ CapInv)'
  BY StepSound, StepExplained, StepCap
<1>3. Sound /\ Explained /\ CapInv => CapOvershootBounded
  <2> SUFFICES ASSUME Sound, Explained, CapInv PROVE CapOvershootBounded
    OBVIOUS
  <2> DEFINE spent == UnitsIn(txns, SongsOn(now))
             due   == Cardinality(Deducting) * Price
             limit == DailyCap + (Cardinality(Procs) - 1) * Price
  <2>1. spent = SpentToday("v3_music") /\ spent + due <= limit
    BY SpentTodayIs DEF CapInv, CapOn
  <2>2. spent \in Nat
    BY SummableType DEF Explained, Explains
  <2>3. Price \in Nat /\ DailyCap \in Nat
    BY LifecycleAssumption
  <2>4. Cardinality(Deducting) \in Nat /\ Cardinality(Procs) - 1 \in Nat
    <3>1. Deducting \subseteq Procs
      BY DEF Deducting
    <3> QED
      BY <3>1, ProcsCount
  <2>5. due \in Nat /\ limit \in Nat
    <3>1. due \in Nat /\ (Cardinality(Procs) - 1) * Price \in Nat
      BY <2>3, <2>4, TimesMonotone
    <3> QED
      BY <2>3, <3>1
  <2> HIDE DEF spent, due
  <2>6. spent <= limit
    <3> HIDE DEF limit
    <3> QED
      BY <2>1, <2>2, <2>5
  <2> QED
    BY <2>1, <2>6 DEF CapOvershootBounded
<1> QED
  BY <1>1, <1>2, <1>3, PTL DEF Spec
===============================================================================
