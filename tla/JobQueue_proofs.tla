---------------------------- MODULE JobQueue_proofs ----------------------------
(***************************************************************************)
(* Proofs about JobQueue for any set of workers, kinds and priorities, and *)
(* for every number of jobs, attempts, hangs, overruns and crashes.        *)
(***************************************************************************)
EXTENDS JobQueue, TLAPS, FiniteSetTheorems, SequenceTheorems

(* A worker that may still put its job back for a retry. *)
Retriers(id) == {w \in WorkersOn(id) : ~OutOfAttempts(worker[w].tries)}

(* A claim is ahead of the job. *)
Pending(row) == IF row.status \in {"queued", "delayed"} THEN 1 ELSE 0

(* The claims that may be put back: all but the last of the attempts. *)
Retriable(attempts) == IF attempts < MaxAttempts THEN attempts ELSE MaxAttempts - 1

(* A job's claims so far, the one ahead and those that its workers can still *)
(* bring about are paid for by the enqueue, the retriable claims and the     *)
(* reclaims.                                                                 *)
AttemptBudget ==
  \A id \in Ids :
    jobs[id].attempts + Pending(jobs[id]) + Cardinality(Retriers(id))
      <= 1 + Retriable(jobs[id].attempts) + jobs[id].reclaims

(* Before the first reclaim, the worker on a job is the holder of its lock. *)
HolderHandles ==
  \A w \in Workers :
    worker[w].at \in Busy /\ jobs[worker[w].id].reclaims = 0
    => jobs[worker[w].id].status = "running" /\ jobs[worker[w].id].holder = w

-------------------------------------------------------------------------------
(* What the columns of a row are after it was inserted, unlocked or requeued. *)
LEMMA NewRowFacts ==
  ASSUME NEW kind \in Kinds, NEW seen \in Nat
  PROVE  NewRow(kind, seen) \in Row
BY DEF Row, NewRow, Status, Locks

LEMMA UnlockedFacts ==
  ASSUME NEW row \in Row, NEW status \in Status
  PROVE  /\ Unlocked(row, status) \in Row
         /\ Unlocked(row, status).status = status
         /\ Unlocked(row, status).lock = "none"
         /\ Unlocked(row, status).holder = NoWorker
         /\ Unlocked(row, status).attempts = row.attempts
         /\ Unlocked(row, status).reclaims = row.reclaims
BY DEF Row, Unlocked, Locks

LEMMA RequeuedFacts ==
  ASSUME NEW row \in Row
  PROVE  /\ Requeued(row) \in Row
         /\ Requeued(row).status = "queued"
         /\ Requeued(row).lock = "none"
         /\ Requeued(row).holder = NoWorker
         /\ Requeued(row).attempts = row.attempts
         /\ Requeued(row).reclaims = row.reclaims + 1
<1> DEFINE free == Unlocked(row, "queued")
<1>1. /\ free \in Row /\ free.status = "queued" /\ free.lock = "none"
      /\ free.holder = NoWorker /\ free.attempts = row.attempts
      /\ free.reclaims = row.reclaims
  BY UnlockedFacts DEF Status
<1>2. Requeued(row) = [free EXCEPT !.due = TRUE, !.reclaims = row.reclaims + 1]
  BY <1>1 DEF Requeued
<1>3. row.reclaims + 1 \in Nat
  BY DEF Row
<1> HIDE DEF free
<1>4. QED
  BY <1>1, <1>2, <1>3 DEF Row

LEMMA PostponedFacts ==
  ASSUME NEW row \in Row
  PROVE  /\ Postponed(row) \in Row
         /\ Postponed(row).status = "delayed"
         /\ Postponed(row).lock = "none"
         /\ Postponed(row).holder = NoWorker
         /\ Postponed(row).attempts = row.attempts
         /\ Postponed(row).reclaims = row.reclaims
<1> DEFINE free == Unlocked(row, "delayed")
<1>1. /\ free \in Row /\ free.status = "delayed" /\ free.lock = "none"
      /\ free.holder = NoWorker /\ free.attempts = row.attempts
      /\ free.reclaims = row.reclaims
  BY UnlockedFacts DEF Status
<1>2. Postponed(row) = [free EXCEPT !.due = FALSE]
  BY DEF Postponed
<1> HIDE DEF free
<1>3. QED
  BY <1>1, <1>2 DEF Row

LEMMA ClaimedFacts ==
  ASSUME NEW row \in Row, NEW w \in Workers
  PROVE  /\ Claimed(row, w) \in Row
         /\ Claimed(row, w).status = "running"
         /\ Claimed(row, w).lock = "fresh"
         /\ Claimed(row, w).holder = w
         /\ Claimed(row, w).attempts = row.attempts + 1
         /\ Claimed(row, w).reclaims = row.reclaims
<1> DEFINE tried == [row EXCEPT !.status = "running", !.attempts = row.attempts + 1]
<1>1. /\ tried \in Row /\ tried.status = "running"
      /\ tried.attempts = row.attempts + 1 /\ tried.reclaims = row.reclaims
  <2>1. row.attempts + 1 \in Nat
    BY DEF Row
  <2>2. QED
    BY <2>1 DEF Row, Status
<1>2. Claimed(row, w) = [tried EXCEPT !.lock = "fresh", !.holder = w]
  BY DEF Claimed
<1> HIDE DEF tried
<1>3. QED
  BY <1>1, <1>2 DEF Row, Locks

(* The requeue keeps the table's size and rewrites stale rows only. *)
LEMMA RequeueFacts ==
  ASSUME NEW rows \in Seq(Row)
  PROVE  /\ RequeueStale(rows) \in Seq(Row)
         /\ Len(RequeueStale(rows)) = Len(rows)
         /\ \A id \in 1..Len(rows) :
              RequeueStale(rows)[id] =
                IF IsStale(rows[id]) THEN Requeued(rows[id]) ELSE rows[id]
<1> DEFINE new(id) == IF IsStale(rows[id]) THEN Requeued(rows[id]) ELSE rows[id]
<1>1. \A id \in 1..Len(rows) : new(id) \in Row
  BY RequeuedFacts
<1>2. RequeueStale(rows) = [id \in 1..Len(rows) |-> new(id)]
  BY DEF RequeueStale
<1> HIDE DEF new
<1>3. [id \in 1..Len(rows) |-> new(id)] \in Seq(Row)
  BY <1>1
<1>4. Len([id \in 1..Len(rows) |-> new(id)]) = Len(rows)
  OBVIOUS
<1>5. QED
  BY <1>2, <1>3, <1>4 DEF new

(* Appending a row keeps the rows there are. *)
LEMMA AppendFacts ==
  ASSUME NEW rows \in Seq(Row), NEW row \in Row
  PROVE  /\ Append(rows, row) \in Seq(Row)
         /\ Len(Append(rows, row)) = Len(rows) + 1
         /\ \A id \in 1..Len(rows) : Append(rows, row)[id] = rows[id]
         /\ Append(rows, row)[Len(rows) + 1] = row
OBVIOUS

-------------------------------------------------------------------------------
LEMMA InitTypeOK == Init => TypeOK
<1> SUFFICES ASSUME Init PROVE TypeOK
  OBVIOUS
<1> USE QueueAssumption
<1>1. jobs \in Seq(Row) /\ Ids = {}
  BY DEF Init, Ids
<1>2. worker \in [Workers -> [at : Stages, id : Nat, tries : Nat]]
  BY DEF Init, Down, Stages
<1>3. \A w \in Workers : worker[w].at \notin Busy
  BY DEF Init, Down, Busy
<1>4. intent \in [Callers -> [kind : Kinds, seen : Nat] \cup {NoIntent}]
  BY DEF Init
<1>5. overruns \in 0..MaxOverruns /\ crashes \in 0..MaxCrashes
  BY DEF Init
<1>6. QED
  BY <1>1, <1>2, <1>3, <1>4, <1>5 DEF TypeOK

(* Every row a step leaves behind is typed, and locked if and only if it runs. *)
LEMMA StepTypeOK == TypeOK /\ [Next]_vars => TypeOK'
<1> SUFFICES ASSUME TypeOK, [Next]_vars PROVE TypeOK'
  OBVIOUS
<1> USE QueueAssumption
<1> DEFINE Consistent(row) == /\ (row.status = "running") <=> (row.lock # "none")
                              /\ (row.status = "running") <=> (row.holder # NoWorker)
<1>a. /\ Ids = 1..Len(jobs) /\ Len(jobs) \in Nat
      /\ \A id \in Ids : jobs[id] \in Row /\ Consistent(jobs[id])
  BY LenProperties, ElementOfSeq DEF TypeOK, Ids
<1>b. ASSUME NEW id \in Ids, NEW row \in Row, Consistent(row),
             jobs' = [jobs EXCEPT ![id] = row]
      PROVE  /\ jobs' \in Seq(Row) /\ Ids' = Ids
             /\ \A i \in Ids' : Consistent(jobs'[i])
  <2>1. /\ jobs' \in Seq(Row) /\ Len(jobs') = Len(jobs)
        /\ \A i \in 1..Len(jobs) : jobs'[i] = IF i = id THEN row ELSE jobs[i]
    BY <1>a, <1>b, ExceptSeq DEF TypeOK
  <2>2. Ids' = Ids
    BY <2>1, <1>a, LenProperties DEF Ids
  <2>3. QED
    BY <2>1, <2>2, <1>a, <1>b
<1>c. ASSUME NEW row \in Row, Consistent(row), jobs' = Append(jobs, row)
      PROVE  /\ jobs' \in Seq(Row) /\ Ids \subseteq Ids'
             /\ \A i \in Ids' : Consistent(jobs'[i])
  <2>1. /\ jobs' \in Seq(Row) /\ Len(jobs') = Len(jobs) + 1
        /\ \A i \in 1..Len(jobs) : jobs'[i] = jobs[i]
        /\ jobs'[Len(jobs) + 1] = row
    BY <1>c, AppendFacts DEF TypeOK
  <2>2. Ids' = 1..(Len(jobs) + 1)
    BY <2>1, LenProperties DEF Ids
  <2>3. QED
    BY <2>1, <2>2, <1>a, <1>c
<1>d. ASSUME jobs' = RequeueStale(jobs)
      PROVE  /\ jobs' \in Seq(Row) /\ Ids' = Ids
             /\ \A i \in Ids' : Consistent(jobs'[i])
  <2>1. /\ jobs' \in Seq(Row) /\ Len(jobs') = Len(jobs)
        /\ \A i \in 1..Len(jobs) :
             jobs'[i] = IF IsStale(jobs[i]) THEN Requeued(jobs[i]) ELSE jobs[i]
    BY <1>d, RequeueFacts DEF TypeOK
  <2>2. Ids' = Ids
    BY <2>1, <1>a, LenProperties DEF Ids
  <2>3. QED
    BY <2>1, <2>2, <1>a, RequeuedFacts
<1>e. ASSUME NEW kind \in Kinds, NEW seen \in Nat PROVE Consistent(NewRow(kind, seen))
  BY DEF NewRow
<1> HIDE DEF Consistent
<1>1. ASSUME NEW kind \in Kinds, Enqueue(kind) PROVE TypeOK'
  BY <1>1, <1>a, <1>c, <1>e, NewRowFacts DEF Enqueue, TypeOK, Consistent
<1>2. ASSUME NEW c \in Callers, NEW kind \in Kinds, FindActive(c, kind) PROVE TypeOK'
  BY <1>2, <1>a DEF FindActive, TypeOK, Ids
<1>3. ASSUME NEW c \in Callers, InsertAbsent(c) PROVE TypeOK'
  <2>1. intent[c].kind \in Kinds /\ intent[c].seen \in Nat
    BY <1>3 DEF InsertAbsent, TypeOK
  <2>2. QED
    BY <2>1, <1>3, <1>c, <1>e, NewRowFacts DEF InsertAbsent, TypeOK, Consistent
<1>4. ASSUME NEW w \in Workers, Start(w) PROVE TypeOK'
  BY <1>4, <1>d DEF Start, Rest, Idle, At, Stages, Busy, TypeOK, Consistent
<1>5. ASSUME NEW w \in Workers, SweepStale(w) PROVE TypeOK'
  BY <1>5, <1>d DEF SweepStale, TypeOK, Consistent
<1>6. ASSUME NEW w \in Workers, Claim(w) PROVE TypeOK'
  <2>1. PICK id \in Candidates(w) :
          /\ jobs' = [jobs EXCEPT ![id] = Claimed(jobs[id], w)]
          /\ worker' = [worker EXCEPT ![w] =
               [at |-> "handling", id |-> id, tries |-> jobs[id].attempts + 1]]
    BY <1>6 DEF Claim
  <2>2. id \in Ids /\ jobs[id] \in Row /\ jobs[id].attempts \in Nat /\ id \in Nat
    BY <1>a DEF Candidates, Row
  <2>3. Claimed(jobs[id], w) \in Row /\ Consistent(Claimed(jobs[id], w))
    BY <2>2, ClaimedFacts DEF Consistent
  <2>4. /\ jobs' \in Seq(Row) /\ Ids' = Ids
        /\ \A i \in Ids' : Consistent(jobs'[i])
    BY <2>1, <2>2, <2>3, <1>b
  <2>5. QED
    BY <2>1, <2>2, <2>4, <1>6 DEF Claim, TypeOK, Consistent, Stages, Busy
<1>7. ASSUME NEW w \in Workers, Handler(w) \/ HandlerHangs(w) \/ MarkDoneFails(w)
      PROVE  TypeOK'
  <2>1. /\ worker[w].at \in Busy
        /\ UNCHANGED <<jobs, intent, overruns, crashes>>
        /\ \E stage \in Busy : worker' = [worker EXCEPT ![w].at = stage]
    BY <1>7 DEF Handler, HandlerReturns, HandlerRaises, HandlerHangs, MarkDoneFails, GoTo, At,
                Busy
  <2>2. PICK stage \in Busy : worker' = [worker EXCEPT ![w].at = stage]
    BY <2>1
  <2>3. worker' \in [Workers -> [at : Stages, id : Nat, tries : Nat]]
    BY <2>2 DEF TypeOK, Stages
  <2>4. \A v \in Workers : worker'[v].id = worker[v].id /\ (v # w => worker'[v] = worker[v])
    BY <2>2 DEF TypeOK
  <2>5. \A v \in Workers : worker'[v].at \in Busy => worker'[v].id \in Ids
    BY <2>1, <2>4 DEF TypeOK
  <2>6. QED
    BY <2>1, <2>3, <2>5 DEF TypeOK, Ids
<1>8. ASSUME NEW w \in Workers, MarkDone(w) PROVE TypeOK'
  <2> DEFINE id == worker[w].id
  <2>1. id \in Ids /\ jobs[id] \in Row
    BY <1>8, <1>a DEF MarkDone, At, TypeOK, Busy
  <2>2. Unlocked(jobs[id], "done") \in Row /\ Consistent(Unlocked(jobs[id], "done"))
    BY <2>1, UnlockedFacts DEF Status, Consistent
  <2>3. /\ jobs' \in Seq(Row) /\ Ids' = Ids
        /\ \A i \in Ids' : Consistent(jobs'[i])
    BY <2>1, <2>2, <1>8, <1>b DEF MarkDone
  <2>4. QED
    BY <2>3, <1>8 DEF MarkDone, Rest, Idle, TypeOK, Consistent, Stages, Busy
<1>9. ASSUME NEW w \in Workers, MarkFailedOrRetry(w) PROVE TypeOK'
  <2> DEFINE id  == worker[w].id
             row == IF OutOfAttempts(worker[w].tries) THEN Unlocked(jobs[id], "failed")
                    ELSE Postponed(jobs[id])
  <2>1. id \in Ids /\ jobs[id] \in Row
    BY <1>9, <1>a DEF MarkFailedOrRetry, At, TypeOK, Busy
  <2>2. row \in Row /\ Consistent(row)
    BY <2>1, UnlockedFacts, PostponedFacts DEF Status, Consistent
  <2>3. /\ jobs' \in Seq(Row) /\ Ids' = Ids
        /\ \A i \in Ids' : Consistent(jobs'[i])
    BY <2>1, <2>2, <1>9, <1>b DEF MarkFailedOrRetry
  <2>4. QED
    BY <2>3, <1>9 DEF MarkFailedOrRetry, Rest, Idle, TypeOK, Consistent, Stages, Busy
<1>10. ASSUME NEW w \in Workers, Crash(w) PROVE TypeOK'
  BY <1>10 DEF Crash, Down, TypeOK, Ids, Stages, Busy
<1>11. ASSUME NEW id \in Ids, BecomeDue(id) PROVE TypeOK'
  <2>1. jobs' = [jobs EXCEPT ![id] = [jobs[id] EXCEPT !.due = TRUE]]
    BY <1>11 DEF BecomeDue
  <2>2. [jobs[id] EXCEPT !.due = TRUE] \in Row /\ Consistent([jobs[id] EXCEPT !.due = TRUE])
    BY <1>a DEF Row, Consistent
  <2>3. /\ jobs' \in Seq(Row) /\ Ids' = Ids
        /\ \A i \in Ids' : Consistent(jobs'[i])
    BY <2>1, <2>2, <1>b
  <2>4. QED
    BY <2>3, <1>11 DEF BecomeDue, TypeOK, Consistent
<1>12. ASSUME NEW id \in Ids, LockAges(id) PROVE TypeOK'
  <2>1. jobs' = [jobs EXCEPT ![id] = [jobs[id] EXCEPT !.lock = "stale"]]
    BY <1>12 DEF LockAges
  <2>2. /\ [jobs[id] EXCEPT !.lock = "stale"] \in Row
        /\ Consistent([jobs[id] EXCEPT !.lock = "stale"])
    BY <1>a, <1>12 DEF Row, Locks, Consistent, LockAges
  <2>3. /\ jobs' \in Seq(Row) /\ Ids' = Ids
        /\ \A i \in Ids' : Consistent(jobs'[i])
    BY <2>1, <2>2, <1>b
  <2>4. overruns' \in 0..MaxOverruns
    BY <1>12 DEF LockAges, TypeOK
  <2>5. QED
    BY <2>3, <2>4, <1>12 DEF LockAges, TypeOK, Consistent
<1>13. CASE UNCHANGED vars
  BY <1>13 DEF vars, TypeOK, Ids
<1>14. QED
  BY <1>1, <1>2, <1>3, <1>4, <1>5, <1>6, <1>7, <1>8, <1>9, <1>10, <1>11, <1>12, <1>13
     DEF Next, Mark

(* The table and the workers keep their types; a lock and its holder are there *)
(* exactly while a job runs, whoever marks, requeues or claims it.             *)
THEOREM TypeCorrect == Spec => []TypeOK
BY InitTypeOK, StepTypeOK, PTL DEF Spec

-------------------------------------------------------------------------------
(* What a step can do to a row: nothing, a change of due or lock, ... *)
Touched(id) ==
  /\ jobs[id].status \in {"running", "delayed"}
  /\ jobs'[id].status = jobs[id].status /\ jobs'[id].holder = jobs[id].holder
  /\ jobs'[id].attempts = jobs[id].attempts /\ jobs'[id].reclaims = jobs[id].reclaims

(* ... the requeue of a stale row, ... *)
TakenBack(id) ==
  /\ jobs[id].status = "running" /\ jobs'[id].status = "queued"
  /\ jobs'[id].attempts = jobs[id].attempts /\ jobs'[id].reclaims = jobs[id].reclaims + 1

(* ... a claim by w, ... *)
ClaimedBy(id, w) ==
  /\ jobs[id].status \in {"queued", "delayed"} /\ worker[w].at = "idle"
  /\ jobs'[id].status = "running" /\ jobs'[id].holder = w
  /\ jobs'[id].attempts = jobs[id].attempts + 1 /\ jobs'[id].reclaims = jobs[id].reclaims
  /\ worker'[w].id = id /\ worker'[w].tries = jobs[id].attempts + 1

(* ... or a mark by w, which puts it back only while w remembers attempts left. *)
MarkedBy(id, w) ==
  /\ w \in WorkersOn(id) /\ worker'[w].at = "idle"
  /\ \/ jobs'[id].status \in {"done", "failed"}
     \/ jobs'[id].status = "delayed" /\ ~OutOfAttempts(worker[w].tries)
  /\ jobs'[id].attempts = jobs[id].attempts /\ jobs'[id].reclaims = jobs[id].reclaims

RowStep(id) ==
  \/ jobs'[id] = jobs[id]
  \/ Touched(id)
  \/ TakenBack(id)
  \/ \E w \in Workers : ClaimedBy(id, w) \/ MarkedBy(id, w)

(* A worker that is busy after a step had its copy before, or has just claimed. *)
CopyStep(w) ==
  worker'[w].at \in Busy =>
    \/ /\ worker[w].at \in Busy
       /\ worker'[w].id = worker[w].id /\ worker'[w].tries = worker[w].tries
    \/ worker'[w].id \in Ids /\ ClaimedBy(worker'[w].id, w)

FreshRow(id) ==
  /\ jobs'[id].status = "queued" /\ jobs'[id].attempts = 0 /\ jobs'[id].reclaims = 0

(* The effect of any step, row by row and worker by worker. *)
StepEffect ==
  /\ Ids \subseteq Ids'
  /\ \A id \in Ids : RowStep(id)
  /\ \A id \in Ids' \ Ids : FreshRow(id)
  /\ \A w \in Workers : CopyStep(w)

LEMMA NextEffect == TypeOK /\ [Next]_vars => StepEffect
<1> SUFFICES ASSUME TypeOK, [Next]_vars PROVE StepEffect
  OBVIOUS
<1> USE QueueAssumption
<1>a. /\ Ids = 1..Len(jobs) /\ Len(jobs) \in Nat
      /\ \A id \in Ids : jobs[id] \in Row
  BY LenProperties, ElementOfSeq DEF TypeOK, Ids
<1>b. ASSUME NEW id \in Ids, NEW row \in Row, jobs' = [jobs EXCEPT ![id] = row]
      PROVE  /\ Ids' = Ids /\ jobs'[id] = row
             /\ \A i \in Ids \ {id} : jobs'[i] = jobs[i]
  <2>1. /\ jobs' \in Seq(Row) /\ Len(jobs') = Len(jobs)
        /\ \A i \in 1..Len(jobs) : jobs'[i] = IF i = id THEN row ELSE jobs[i]
    BY <1>a, <1>b, ExceptSeq DEF TypeOK
  <2>2. QED
    BY <2>1, <1>a, LenProperties DEF Ids
<1>c. ASSUME NEW kind \in Kinds, NEW seen \in Nat, jobs' = Append(jobs, NewRow(kind, seen)),
             UNCHANGED worker
      PROVE  StepEffect
  <2>1. /\ jobs' \in Seq(Row) /\ Len(jobs') = Len(jobs) + 1
        /\ \A i \in 1..Len(jobs) : jobs'[i] = jobs[i]
        /\ jobs'[Len(jobs) + 1] = NewRow(kind, seen)
    BY <1>c, AppendFacts, NewRowFacts DEF TypeOK
  <2>2. Ids' = 1..(Len(jobs) + 1)
    BY <2>1, LenProperties DEF Ids
  <2>3. \A id \in Ids' \ Ids : FreshRow(id)
    BY <2>1, <2>2, <1>a DEF FreshRow, NewRow
  <2>4. QED
    BY <2>1, <2>2, <2>3, <1>a, <1>c DEF StepEffect, RowStep, CopyStep
<1>d. ASSUME jobs' = RequeueStale(jobs)
      PROVE  /\ Ids' = Ids
             /\ \A id \in Ids : RowStep(id)
  <2>1. /\ jobs' \in Seq(Row) /\ Len(jobs') = Len(jobs)
        /\ \A i \in 1..Len(jobs) :
             jobs'[i] = IF IsStale(jobs[i]) THEN Requeued(jobs[i]) ELSE jobs[i]
    BY <1>d, RequeueFacts DEF TypeOK
  <2>2. Ids' = Ids
    BY <2>1, <1>a, LenProperties DEF Ids
  <2>3. ASSUME NEW id \in Ids PROVE RowStep(id)
    BY <2>1, <1>a, RequeuedFacts DEF RowStep, TakenBack, IsStale
  <2>4. QED
    BY <2>2, <2>3
<1>e. ASSUME UNCHANGED jobs, \A w \in Workers : CopyStep(w)
      PROVE  StepEffect
  BY <1>e DEF StepEffect, RowStep, Ids
<1>f. ASSUME NEW w \in Workers, NEW row \in Row, worker[w].at \in Busy,
             jobs' = [jobs EXCEPT ![worker[w].id] = row], Rest(w),
             \/ row.status \in {"done", "failed"}
             \/ row.status = "delayed" /\ ~OutOfAttempts(worker[w].tries),
             row.attempts = jobs[worker[w].id].attempts,
             row.reclaims = jobs[worker[w].id].reclaims
      PROVE  StepEffect
  <2> DEFINE id == worker[w].id
  <2>1. id \in Ids /\ w \in WorkersOn(id)
    BY <1>f DEF TypeOK, WorkersOn
  <2>2. /\ Ids' = Ids /\ jobs'[id] = row
        /\ \A i \in Ids \ {id} : jobs'[i] = jobs[i]
    BY <2>1, <1>f, <1>b
  <2>3. worker'[w].at = "idle" /\ \A v \in Workers \ {w} : worker'[v] = worker[v]
    BY <1>f DEF Rest, Idle, TypeOK
  <2>4. MarkedBy(id, w)
    BY <2>1, <2>2, <2>3, <1>f DEF MarkedBy
  <2>5. \A i \in Ids : RowStep(i)
    BY <2>2, <2>4 DEF RowStep
  <2>6. \A v \in Workers : CopyStep(v)
    BY <2>3 DEF CopyStep, Busy
  <2>7. QED
    BY <2>2, <2>5, <2>6 DEF StepEffect
<1>g. ASSUME NEW id \in Ids, NEW row \in Row, UNCHANGED worker,
             jobs' = [jobs EXCEPT ![id] = row], jobs[id].status \in {"running", "delayed"},
             row.status = jobs[id].status, row.holder = jobs[id].holder,
             row.attempts = jobs[id].attempts, row.reclaims = jobs[id].reclaims
      PROVE  StepEffect
  <2>1. /\ Ids' = Ids /\ jobs'[id] = row
        /\ \A i \in Ids \ {id} : jobs'[i] = jobs[i]
    BY <1>g, <1>b
  <2>2. \A i \in Ids : RowStep(i)
    BY <2>1, <1>g DEF RowStep, Touched
  <2>3. QED
    BY <2>1, <2>2, <1>g DEF StepEffect, CopyStep
<1>1. ASSUME NEW kind \in Kinds, Enqueue(kind) PROVE StepEffect
  BY <1>1, <1>a, <1>c DEF Enqueue
<1>2. ASSUME NEW c \in Callers, NEW kind \in Kinds, FindActive(c, kind) PROVE StepEffect
  BY <1>2, <1>e DEF FindActive, CopyStep
<1>3. ASSUME NEW c \in Callers, InsertAbsent(c) PROVE StepEffect
  <2>1. intent[c].kind \in Kinds /\ intent[c].seen \in Nat
    BY <1>3 DEF InsertAbsent, TypeOK
  <2>2. QED
    BY <2>1, <1>3, <1>c DEF InsertAbsent
<1>4. ASSUME NEW w \in Workers, Start(w) PROVE StepEffect
  <2>1. \A v \in Workers : CopyStep(v)
    BY <1>4 DEF Start, Rest, Idle, CopyStep, Busy, TypeOK
  <2>2. QED
    BY <2>1, <1>4, <1>d DEF Start, StepEffect
<1>5. ASSUME NEW w \in Workers, SweepStale(w) PROVE StepEffect
  BY <1>5, <1>d DEF SweepStale, StepEffect, CopyStep
<1>6. ASSUME NEW w \in Workers, Claim(w) PROVE StepEffect
  <2>1. PICK id \in Candidates(w) :
          /\ jobs' = [jobs EXCEPT ![id] = Claimed(jobs[id], w)]
          /\ worker' = [worker EXCEPT ![w] =
               [at |-> "handling", id |-> id, tries |-> jobs[id].attempts + 1]]
    BY <1>6 DEF Claim
  <2>2. id \in Ids /\ jobs[id] \in Row /\ jobs[id].status \in {"queued", "delayed"}
    BY <1>a DEF Candidates, Claimable
  <2>3. /\ worker'[w].id = id /\ worker'[w].tries = jobs[id].attempts + 1
        /\ \A v \in Workers \ {w} : worker'[v] = worker[v]
    BY <2>1 DEF TypeOK
  <2>4. /\ Ids' = Ids /\ jobs'[id] = Claimed(jobs[id], w)
        /\ \A i \in Ids \ {id} : jobs'[i] = jobs[i]
    BY <2>1, <2>2, ClaimedFacts, <1>b
  <2>5. ClaimedBy(id, w)
    BY <2>2, <2>3, <2>4, ClaimedFacts, <1>6 DEF ClaimedBy, Claim, At
  <2>6. \A i \in Ids : RowStep(i)
    BY <2>4, <2>5 DEF RowStep
  <2>7. \A v \in Workers : CopyStep(v)
    BY <2>2, <2>3, <2>5 DEF CopyStep
  <2>8. QED
    BY <2>4, <2>6, <2>7 DEF StepEffect
<1>7. ASSUME NEW w \in Workers, Handler(w) \/ HandlerHangs(w) \/ MarkDoneFails(w)
      PROVE  StepEffect
  <2>1. /\ worker[w].at \in Busy /\ UNCHANGED jobs
        /\ \E stage \in Busy : worker' = [worker EXCEPT ![w].at = stage]
    BY <1>7 DEF Handler, HandlerReturns, HandlerRaises, HandlerHangs, MarkDoneFails, GoTo, At,
                Busy
  <2>2. \A v \in Workers : /\ worker'[v].id = worker[v].id /\ worker'[v].tries = worker[v].tries
                           /\ v # w => worker'[v] = worker[v]
    BY <2>1 DEF TypeOK
  <2>3. QED
    BY <2>1, <2>2, <1>e DEF CopyStep
<1>8. ASSUME NEW w \in Workers, MarkDone(w) PROVE StepEffect
  <2>1. jobs[worker[w].id] \in Row /\ worker[w].at \in Busy
    BY <1>8, <1>a DEF MarkDone, At, TypeOK, Busy
  <2>2. QED
    BY <2>1, <1>8, <1>f, UnlockedFacts DEF MarkDone, Status
<1>9. ASSUME NEW w \in Workers, MarkFailedOrRetry(w) PROVE StepEffect
  <2>1. jobs[worker[w].id] \in Row /\ worker[w].at \in Busy
    BY <1>9, <1>a DEF MarkFailedOrRetry, At, TypeOK, Busy
  <2>2. CASE OutOfAttempts(worker[w].tries)
    BY <2>1, <2>2, <1>9, <1>f, UnlockedFacts DEF MarkFailedOrRetry, Status
  <2>3. CASE ~OutOfAttempts(worker[w].tries)
    BY <2>1, <2>3, <1>9, <1>f, PostponedFacts DEF MarkFailedOrRetry
  <2>4. QED
    BY <2>2, <2>3
<1>10. ASSUME NEW w \in Workers, Crash(w) PROVE StepEffect
  BY <1>10, <1>e DEF Crash, Down, CopyStep, TypeOK, Busy
<1>11. ASSUME NEW id \in Ids, BecomeDue(id) PROVE StepEffect
  <2> DEFINE row == [jobs[id] EXCEPT !.due = TRUE]
  <2>1. /\ row \in Row /\ row.status = jobs[id].status /\ row.holder = jobs[id].holder
        /\ row.attempts = jobs[id].attempts /\ row.reclaims = jobs[id].reclaims
    BY <1>a DEF Row
  <2>2. jobs' = [jobs EXCEPT ![id] = row]
    BY <1>11 DEF BecomeDue
  <2> HIDE DEF row
  <2>3. QED
    BY <2>1, <2>2, <1>11, <1>g DEF BecomeDue
<1>12. ASSUME NEW id \in Ids, LockAges(id) PROVE StepEffect
  <2> DEFINE row == [jobs[id] EXCEPT !.lock = "stale"]
  <2>1. /\ row \in Row /\ row.status = jobs[id].status /\ row.holder = jobs[id].holder
        /\ row.attempts = jobs[id].attempts /\ row.reclaims = jobs[id].reclaims
    BY <1>a DEF Row, Locks
  <2>2. jobs' = [jobs EXCEPT ![id] = row]
    BY <1>12 DEF LockAges
  <2> HIDE DEF row
  <2>3. QED
    BY <2>1, <2>2, <1>12, <1>g DEF LockAges
<1>13. CASE UNCHANGED vars
  BY <1>13, <1>e DEF vars, CopyStep
<1>14. QED
  BY <1>1, <1>2, <1>3, <1>4, <1>5, <1>6, <1>7, <1>8, <1>9, <1>10, <1>11, <1>12, <1>13
     DEF Next, Mark

-------------------------------------------------------------------------------
(* Before the first reclaim the lock tells who has the job, so a claim cannot *)
(* find a claimable row that a worker is still on.                            *)
LEMMA StepHolderHandles == TypeOK /\ HolderHandles /\ StepEffect => HolderHandles'
<1> SUFFICES ASSUME TypeOK, HolderHandles, StepEffect,
                    NEW w \in Workers, worker'[w].at \in Busy,
                    jobs'[worker'[w].id].reclaims = 0
             PROVE  /\ jobs'[worker'[w].id].status = "running"
                    /\ jobs'[worker'[w].id].holder = w
  BY DEF HolderHandles, Busy
<1> DEFINE id == worker'[w].id
<1>1. CASE worker[w].at \notin Busy
  <2>1. id \in Ids /\ ClaimedBy(id, w)
    BY <1>1 DEF StepEffect, CopyStep
  <2>2. QED
    BY <2>1 DEF ClaimedBy
<1>2. CASE worker[w].at \in Busy
  <2>1. worker[w].id = id
    BY <1>2 DEF StepEffect, CopyStep, ClaimedBy, Busy
  <2>2. id \in Ids /\ RowStep(id) /\ jobs[id] \in Row
    BY <1>2, <2>1, LenProperties, ElementOfSeq DEF TypeOK, StepEffect, Ids
  <2>3. jobs[id].reclaims = 0
    BY <2>2 DEF RowStep, Touched, TakenBack, ClaimedBy, MarkedBy, Row
  <2>4. jobs[id].status = "running" /\ jobs[id].holder = w
    BY <1>2, <2>1, <2>3 DEF HolderHandles
  <2>5. ASSUME NEW v \in Workers, MarkedBy(id, v) PROVE FALSE
    <3>1. v # w
      BY <2>5 DEF MarkedBy, Busy
    <3>2. worker[v].at \in Busy /\ worker[v].id = id
      BY <2>5 DEF MarkedBy, WorkersOn
    <3>3. jobs[id].holder = v
      BY <2>3, <3>2 DEF HolderHandles
    <3>4. QED
      BY <2>4, <3>1, <3>3
  <2>6. jobs'[id] = jobs[id] \/ Touched(id)
    BY <2>2, <2>3, <2>4, <2>5 DEF RowStep, TakenBack, ClaimedBy, Row
  <2>7. QED
    BY <2>4, <2>6 DEF Touched
<1>3. QED
  BY <1>1, <1>2

LEMMA HolderHandlesAlways == Spec => []HolderHandles
<1>1. Init => HolderHandles
  BY DEF Init, HolderHandles, Down, Busy
<1>2. TypeOK /\ HolderHandles /\ [Next]_vars => HolderHandles'
  BY StepHolderHandles, NextEffect
<1>3. QED
  BY <1>1, <1>2, TypeCorrect, PTL DEF Spec

(* Two workers have a copy of one job only after a reclaim of its lock, for    *)
(* any number of workers, crashes and overruns.                                *)
THEOREM SoleHandlerAlways == Spec => []SoleHandler
<1>1. HolderHandles => SoleHandler
  <2> SUFFICES ASSUME HolderHandles, NEW id \in Ids, jobs[id].reclaims = 0
               PROVE  Cardinality(WorkersOn(id)) <= 1
    BY DEF SoleHandler
  <2>1. WorkersOn(id) \subseteq {jobs[id].holder}
    BY DEF HolderHandles, WorkersOn
  <2>2. /\ IsFiniteSet({jobs[id].holder})
        /\ Cardinality({jobs[id].holder}) = 1
    BY FS_Singleton
  <2>3. Cardinality(WorkersOn(id)) <= Cardinality({jobs[id].holder})
    BY <2>1, <2>2, FS_Subset
  <2>4. QED
    BY <2>2, <2>3
<1>2. QED
  BY <1>1, HolderHandlesAlways, PTL

(* A done or failed job that was never reclaimed is final: no worker is left   *)
(* that could mark it, and no claim or requeue takes it.                       *)
THEOREM FinalUnlessReclaimedAlways == Spec => FinalUnlessReclaimed
<1> DEFINE Final == \A id \in Ids :
                      jobs[id].status \in {"done", "failed"} /\ jobs[id].reclaims = 0
                      => jobs'[id] = jobs[id]
<1>1. ASSUME TypeOK, HolderHandles, StepEffect PROVE Final
  <2> SUFFICES ASSUME NEW id \in Ids, jobs[id].status \in {"done", "failed"},
                      jobs[id].reclaims = 0
               PROVE  jobs'[id] = jobs[id]
    OBVIOUS
  <2>1. RowStep(id)
    BY <1>1 DEF StepEffect
  <2>2. ASSUME NEW w \in Workers, MarkedBy(id, w) PROVE FALSE
    BY <1>1, <2>2 DEF MarkedBy, WorkersOn, HolderHandles
  <2>3. QED
    BY <2>1, <2>2 DEF RowStep, Touched, TakenBack, ClaimedBy
<1>2. TypeOK /\ HolderHandles /\ [Next]_vars => [Final]_vars
  BY <1>1, NextEffect
<1>3. QED
  BY <1>2, TypeCorrect, HolderHandlesAlways, PTL DEF Spec, FinalUnlessReclaimed

-------------------------------------------------------------------------------
(* The retriers of a job are finitely many workers. *)
LEMMA RetriersFinite ==
  ASSUME NEW id
  PROVE  /\ IsFiniteSet(Retriers(id)) /\ Cardinality(Retriers(id)) \in Nat
         /\ \A w : /\ Cardinality(Retriers(id) \cup {w}) <= Cardinality(Retriers(id)) + 1
                   /\ w \in Retriers(id)
                      => Cardinality(Retriers(id) \ {w}) = Cardinality(Retriers(id)) - 1
<1>1. IsFiniteSet(Retriers(id))
  BY QueueAssumption, FS_Subset DEF Retriers, WorkersOn
<1> DEFINE S == Retriers(id)
<1> HIDE DEF S
<1>2. IsFiniteSet(S) /\ Cardinality(S) \in Nat
  BY <1>1, FS_CardinalityType DEF S
<1>3. ASSUME NEW w
      PROVE  /\ Cardinality(S \cup {w}) <= Cardinality(S) + 1
             /\ w \in S => Cardinality(S \ {w}) = Cardinality(S) - 1
  BY <1>2, FS_AddElement, FS_RemoveElement
<1>4. QED
  BY <1>2, <1>3 DEF S

(* A set within the old retriers, one more, or one less. *)
LEMMA CardinalityWithin ==
  ASSUME NEW S, NEW T, IsFiniteSet(T), S \subseteq T
  PROVE  IsFiniteSet(S) /\ Cardinality(S) \in Nat /\ Cardinality(S) <= Cardinality(T)
BY FS_Subset, FS_CardinalityType

(* Each step pays for the claims it makes possible: a requeue with the reclaim *)
(* it counts, a retry with the worker that gives its copy up.                  *)
LEMMA StepAttemptBudget == TypeOK /\ TypeOK' /\ AttemptBudget /\ StepEffect => AttemptBudget'
<1> SUFFICES ASSUME TypeOK, TypeOK', AttemptBudget, StepEffect, NEW id \in Ids'
             PROVE  jobs'[id].attempts + Pending(jobs'[id]) + Cardinality(Retriers(id)')
                      <= 1 + Retriable(jobs'[id].attempts) + jobs'[id].reclaims
  BY DEF AttemptBudget, Retriers, WorkersOn
<1> USE QueueAssumption
<1> DEFINE old == Retriers(id)
           new == Retriers(id)'
<1>a. ASSUME NEW w \in Workers, w \in new, w \notin old
      PROVE  id \in Ids /\ ClaimedBy(id, w)
  BY <1>a DEF StepEffect, CopyStep, Retriers, WorkersOn, OutOfAttempts
<1>b. new \subseteq Workers /\ IsFiniteSet(old) /\ Cardinality(old) \in Nat
  BY RetriersFinite DEF Retriers, WorkersOn
<1>1. CASE id \notin Ids
  <2>1. FreshRow(id)
    BY <1>1 DEF StepEffect
  <2>2. old = {}
    BY <1>1 DEF Retriers, WorkersOn, TypeOK
  <2>3. new = {}
    BY <1>a, <1>b, <1>1, <2>2
  <2>4. QED
    BY <2>1, <2>3, FS_EmptySet DEF FreshRow, Pending, Retriable
<1>2. CASE id \in Ids
  <2> DEFINE a == jobs[id].attempts
             r == jobs[id].reclaims
  <2>1. /\ jobs[id] \in Row /\ a \in Nat /\ r \in Nat
        /\ Pending(jobs[id]) \in {0, 1} /\ Retriable(a) \in Nat
        /\ a + Pending(jobs[id]) + Cardinality(old) <= 1 + Retriable(a) + r
    <3>1. jobs[id] \in Row
      BY <1>2, LenProperties, ElementOfSeq DEF TypeOK, Ids
    <3>2. a \in Nat /\ r \in Nat
      BY <3>1 DEF Row
    <3>3. Pending(jobs[id]) \in {0, 1} /\ Retriable(a) \in Nat
      BY <3>2 DEF Pending, Retriable
    <3>4. QED
      BY <1>2, <3>1, <3>2, <3>3 DEF AttemptBudget
  <2>2. RowStep(id)
    BY <1>2 DEF StepEffect
  <2>3. ASSUME ~\E w \in Workers : ClaimedBy(id, w)
        PROVE  new \subseteq old
    BY <2>3, <1>a, <1>b
  <2>4. CASE \E w \in Workers : ClaimedBy(id, w)
    <3>1. PICK w \in Workers : ClaimedBy(id, w)
      BY <2>4
    <3>2. /\ jobs'[id].attempts = a + 1 /\ jobs'[id].reclaims = r
          /\ Pending(jobs[id]) = 1 /\ Pending(jobs'[id]) = 0
      BY <3>1 DEF ClaimedBy, Pending
    <3>3. new \subseteq old \cup {w}
      BY <1>a, <1>b, <3>1 DEF ClaimedBy
    <3>4. CASE a + 1 < MaxAttempts
      <4>1. Retriable(a) = a /\ Retriable(a + 1) = a + 1
        BY <3>4, <2>1 DEF Retriable
      <4>2. /\ Cardinality(new) \in Nat
            /\ Cardinality(new) <= Cardinality(old) + 1
        <5>1. IsFiniteSet(old \cup {w})
          BY <1>b, FS_AddElement
        <5>2. Cardinality(old \cup {w}) \in Nat /\ Cardinality(old \cup {w}) <= Cardinality(old) + 1
          BY <5>1, FS_CardinalityType, RetriersFinite
        <5>3. Cardinality(new) \in Nat /\ Cardinality(new) <= Cardinality(old \cup {w})
          BY <3>3, <5>1, CardinalityWithin
        <5>4. QED
          BY <5>2, <5>3, <1>b
      <4>3. QED
        BY <4>1, <4>2, <3>2, <2>1, <1>b
    <3>5. CASE a + 1 >= MaxAttempts
      <4>1. OutOfAttempts(worker'[w].tries)
        BY <3>1, <3>5 DEF ClaimedBy, OutOfAttempts
      <4>2. w \notin new
        BY <4>1 DEF Retriers
      <4>3. Cardinality(new) \in Nat /\ Cardinality(new) <= Cardinality(old)
        BY <3>3, <4>2, <1>b, CardinalityWithin
      <4>4. Retriable(a + 1) = MaxAttempts - 1 /\ Retriable(a) = MaxAttempts - 1
        BY <3>5, <2>1 DEF Retriable
      <4>5. QED
        BY <4>3, <4>4, <3>2, <2>1, <1>b
    <3>6. QED
      BY <3>4, <3>5, <2>1
  <2>5. CASE ~(\E w \in Workers : ClaimedBy(id, w)) /\ \E w \in Workers : MarkedBy(id, w)
    <3>1. PICK w \in Workers : MarkedBy(id, w)
      BY <2>5
    <3>2. /\ jobs'[id].attempts = a /\ jobs'[id].reclaims = r
      BY <3>1 DEF MarkedBy
    <3>3. w \notin new
      BY <3>1 DEF MarkedBy, Retriers, WorkersOn, Busy
    <3>4. CASE jobs'[id].status \in {"done", "failed"}
      <4>1. Pending(jobs'[id]) = 0
        BY <3>4 DEF Pending
      <4>2. Cardinality(new) \in Nat /\ Cardinality(new) <= Cardinality(old)
        BY <2>3, <2>5, <1>b, CardinalityWithin
      <4>3. QED
        BY <4>1, <4>2, <3>2, <2>1, <1>b
    <3>5. CASE jobs'[id].status = "delayed" /\ ~OutOfAttempts(worker[w].tries)
      <4>1. Pending(jobs'[id]) = 1
        BY <3>5 DEF Pending
      <4>2. w \in old
        BY <3>1, <3>5 DEF MarkedBy, Retriers
      <4>3. new \subseteq old \ {w}
        BY <2>3, <2>5, <3>3
      <4>4. Cardinality(old \ {w}) = Cardinality(old) - 1 /\ IsFiniteSet(old \ {w})
        BY <4>2, <1>b, RetriersFinite, FS_RemoveElement
      <4>5. Cardinality(new) \in Nat /\ Cardinality(new) <= Cardinality(old) - 1
        BY <4>3, <4>4, CardinalityWithin
      <4>6. QED
        BY <4>1, <4>5, <3>2, <2>1, <1>b
    <3>6. QED
      BY <3>1, <3>4, <3>5 DEF MarkedBy
  <2>6. CASE /\ ~(\E w \in Workers : ClaimedBy(id, w)) /\ ~(\E w \in Workers : MarkedBy(id, w))
    <3>1. Cardinality(new) \in Nat /\ Cardinality(new) <= Cardinality(old)
      BY <2>3, <2>6, <1>b, CardinalityWithin
    <3>2. \/ /\ jobs'[id].attempts = a /\ jobs'[id].reclaims = r
             /\ Pending(jobs'[id]) = Pending(jobs[id])
          \/ /\ jobs'[id].attempts = a /\ jobs'[id].reclaims = r + 1
             /\ Pending(jobs'[id]) = 1 /\ Pending(jobs[id]) = 0
      BY <2>2, <2>6 DEF RowStep, Touched, TakenBack, Pending
    <3>3. QED
      BY <3>1, <3>2, <2>1, <1>b
  <2>7. QED
    BY <2>4, <2>5, <2>6
<1>3. QED
  BY <1>1, <1>2

(* The attempts of a job never pass the limit by more than its reclaims, for   *)
(* any limit and any number of workers with outdated copies.                   *)
THEOREM AttemptsBoundedAlways == Spec => []AttemptsBounded
<1>1. Init => AttemptBudget
  BY DEF Init, AttemptBudget, Ids
<1>2. TypeOK /\ TypeOK' /\ AttemptBudget /\ [Next]_vars => AttemptBudget'
  BY StepAttemptBudget, NextEffect
<1>3. TypeOK /\ AttemptBudget => AttemptsBounded
  <2> SUFFICES ASSUME TypeOK, AttemptBudget, NEW id \in Ids
               PROVE  jobs[id].attempts <= MaxAttempts + jobs[id].reclaims
    BY DEF AttemptsBounded
  <2>1. jobs[id].attempts \in Nat /\ jobs[id].reclaims \in Nat
    <3>1. jobs[id] \in Row
      BY LenProperties, ElementOfSeq DEF TypeOK, Ids
    <3>2. QED
      BY <3>1 DEF Row
  <2>2. /\ Cardinality(Retriers(id)) \in Nat
        /\ Pending(jobs[id]) \in {0, 1}
        /\ Retriable(jobs[id].attempts) <= MaxAttempts - 1
        /\ Retriable(jobs[id].attempts) \in Int
    BY <2>1, RetriersFinite, QueueAssumption DEF Pending, Retriable
  <2>3. jobs[id].attempts + Pending(jobs[id]) + Cardinality(Retriers(id))
          <= 1 + Retriable(jobs[id].attempts) + jobs[id].reclaims
    BY DEF AttemptBudget
  <2>4. QED
    BY <2>1, <2>2, <2>3, QueueAssumption
<1>4. QED
  BY <1>1, <1>2, <1>3, TypeCorrect, PTL DEF Spec

-------------------------------------------------------------------------------
(* A row keeps its kind, and what its handler saw. *)
Same(row, old) == row.kind = old.kind /\ row.seen = old.seen

Kept == \A id \in Ids : Same(jobs'[id], jobs[id])

(* Rows are added by the two inserts only. *)
Inserted(kind, seen) ==
  /\ Ids' = Ids \cup {Len(jobs) + 1} /\ Len(jobs) + 1 \notin Ids
  /\ jobs'[Len(jobs) + 1].kind = kind /\ jobs'[Len(jobs) + 1].seen = seen

Inserts ==
  \/ Ids' = Ids /\ (UNCHANGED intent \/ \E c \in Callers, kind \in Kinds : FindActive(c, kind))
  \/ UNCHANGED intent /\ \E kind \in Kinds \ Deduped : Inserted(kind, Len(jobs))
  \/ \E c \in Callers : InsertAbsent(c) /\ Inserted(intent[c].kind, intent[c].seen)

LEMMA KindsKept ==
  TypeOK /\ [Next]_vars => Inserts /\ Kept
<1> SUFFICES ASSUME TypeOK, [Next]_vars PROVE Inserts /\ Kept
  OBVIOUS
<1> USE QueueAssumption
<1>a. /\ Ids = 1..Len(jobs) /\ Len(jobs) \in Nat
      /\ \A id \in Ids : jobs[id] \in Row
  BY LenProperties, ElementOfSeq DEF TypeOK, Ids
<1>b. ASSUME NEW id \in Ids, NEW row, Same(row, jobs[id]),
             jobs' = [jobs EXCEPT ![id] = row]
      PROVE  Ids' = Ids /\ Kept
  BY <1>a, <1>b DEF Ids, TypeOK, Kept, Same
<1>c. ASSUME NEW kind \in Kinds, NEW seen \in Nat, jobs' = Append(jobs, NewRow(kind, seen))
      PROVE  Inserted(kind, seen) /\ Kept
  <2>1. /\ jobs' \in Seq(Row) /\ Len(jobs') = Len(jobs) + 1
        /\ \A i \in 1..Len(jobs) : jobs'[i] = jobs[i]
        /\ jobs'[Len(jobs) + 1] = NewRow(kind, seen)
    BY <1>c, AppendFacts, NewRowFacts DEF TypeOK
  <2>2. Ids' = 1..(Len(jobs) + 1)
    BY <2>1, LenProperties DEF Ids
  <2>3. jobs'[Len(jobs) + 1].kind = kind /\ jobs'[Len(jobs) + 1].seen = seen
    BY <2>1 DEF NewRow
  <2>4. QED
    BY <2>1, <2>2, <2>3, <1>a DEF Inserted, Kept, Same
<1>d. ASSUME jobs' = RequeueStale(jobs)
      PROVE  Ids' = Ids /\ Kept
  <2>1. /\ Ids' = Ids
        /\ \A i \in Ids : jobs'[i] = IF IsStale(jobs[i]) THEN Requeued(jobs[i]) ELSE jobs[i]
    BY <1>d, <1>a DEF RequeueStale, Ids
  <2>2. \A i \in Ids : Same(Requeued(jobs[i]), jobs[i])
    BY <1>a DEF Requeued, Unlocked, Row, Same
  <2>3. QED
    BY <2>1, <2>2 DEF Kept, Same
<1>e. ASSUME UNCHANGED jobs PROVE Ids' = Ids /\ Kept
  BY <1>e DEF Ids, Kept, Same
<1>1. ASSUME NEW kind \in Kinds, Enqueue(kind) PROVE Inserts /\ Kept
  BY <1>1, <1>a, <1>c DEF Enqueue, Inserts
<1>2. ASSUME NEW c \in Callers, NEW kind \in Kinds, FindActive(c, kind) PROVE Inserts /\ Kept
  BY <1>2, <1>e DEF FindActive, Inserts
<1>3. ASSUME NEW c \in Callers, InsertAbsent(c) PROVE Inserts /\ Kept
  <2>1. intent[c].kind \in Kinds /\ intent[c].seen \in Nat
    BY <1>3 DEF InsertAbsent, TypeOK
  <2>2. Inserted(intent[c].kind, intent[c].seen) /\ Kept
    BY <2>1, <1>3, <1>c DEF InsertAbsent
  <2>3. QED
    BY <2>2, <1>3 DEF Inserts
<1>4. ASSUME NEW w \in Workers, Start(w) \/ SweepStale(w) PROVE Inserts /\ Kept
  BY <1>4, <1>d DEF Start, SweepStale, Inserts
<1>5. ASSUME NEW w \in Workers, Claim(w) PROVE Inserts /\ Kept
  <2>1. PICK id \in Candidates(w) : jobs' = [jobs EXCEPT ![id] = Claimed(jobs[id], w)]
    BY <1>5 DEF Claim
  <2>2. id \in Ids /\ jobs[id] \in Row
    BY <1>a DEF Candidates
  <2>3. Same(Claimed(jobs[id], w), jobs[id])
    BY <2>2 DEF Claimed, Row, Same
  <2>4. QED
    BY <2>1, <2>2, <2>3, <1>b, <1>5 DEF Claim, Inserts
<1>6. ASSUME NEW w \in Workers,
             Handler(w) \/ HandlerHangs(w) \/ MarkDoneFails(w) \/ Crash(w)
      PROVE  Inserts /\ Kept
  BY <1>6, <1>e DEF Handler, HandlerReturns, HandlerRaises, HandlerHangs, MarkDoneFails, Crash,
                    Inserts
<1>7. ASSUME NEW w \in Workers, MarkDone(w) PROVE Inserts /\ Kept
  <2> DEFINE id == worker[w].id
  <2>1. id \in Ids /\ jobs[id] \in Row
    BY <1>7, <1>a DEF MarkDone, At, TypeOK, Busy
  <2>2. Same(Unlocked(jobs[id], "done"), jobs[id])
    BY <2>1 DEF Unlocked, Row, Same
  <2>3. QED
    BY <2>1, <2>2, <1>b, <1>7 DEF MarkDone, Inserts
<1>8. ASSUME NEW w \in Workers, MarkFailedOrRetry(w) PROVE Inserts /\ Kept
  <2> DEFINE id  == worker[w].id
             row == IF OutOfAttempts(worker[w].tries) THEN Unlocked(jobs[id], "failed")
                    ELSE Postponed(jobs[id])
  <2>1. id \in Ids /\ jobs[id] \in Row
    BY <1>8, <1>a DEF MarkFailedOrRetry, At, TypeOK, Busy
  <2>2. Same(row, jobs[id])
    BY <2>1 DEF Postponed, Unlocked, Row, Same
  <2>3. jobs' = [jobs EXCEPT ![id] = row]
    BY <1>8 DEF MarkFailedOrRetry
  <2> HIDE DEF row
  <2>4. QED
    BY <2>1, <2>2, <2>3, <1>b, <1>8 DEF MarkFailedOrRetry, Inserts
<1>9. ASSUME NEW id \in Ids, BecomeDue(id) \/ LockAges(id) PROVE Inserts /\ Kept
  <2>1. PICK row \in {[jobs[id] EXCEPT !.due = TRUE], [jobs[id] EXCEPT !.lock = "stale"]} :
          jobs' = [jobs EXCEPT ![id] = row]
    BY <1>9 DEF BecomeDue, LockAges
  <2>2. Same(row, jobs[id])
    BY <1>a DEF Row, Same
  <2>3. QED
    BY <2>1, <2>2, <1>b, <1>9 DEF BecomeDue, LockAges, Inserts
<1>10. CASE UNCHANGED vars
  BY <1>10, <1>e DEF vars, Inserts
<1>11. QED
  BY <1>1, <1>2, <1>3, <1>4, <1>5, <1>6, <1>7, <1>8, <1>9, <1>10 DEF Next, Mark

(* None of the first rows is an active job of the kind, except a reclaimed one. *)
Looked(rows, kind, seen) ==
  \A i \in 1..seen :
    i \in DOMAIN rows /\ (rows[i].kind = kind /\ Active(rows[i]) => rows[i].reclaims > 0)

(* Every handler that will insert, or has inserted, a job looked for a twin. *)
RaceInv ==
  /\ \A c \in Callers : intent[c] # NoIntent => Looked(jobs, intent[c].kind, intent[c].seen)
  /\ \A id \in Ids : jobs[id].kind \in Deduped => Looked(jobs, jobs[id].kind, jobs[id].seen)

(* It stays so: what is done or failed and never reclaimed is not made active. *)
LEMMA LookedKept ==
  ASSUME TypeOK, HolderHandles, [Next]_vars, NEW kind, NEW seen, Looked(jobs, kind, seen)
  PROVE  Looked(jobs', kind, seen)
<1>1. StepEffect /\ Kept
  BY NextEffect, KindsKept
<1> SUFFICES ASSUME NEW id \in 1..seen
             PROVE  /\ id \in Ids'
                    /\ jobs'[id].kind = kind /\ Active(jobs'[id]) => jobs'[id].reclaims > 0
  BY DEF Looked, Ids
<1>2. id \in Ids /\ jobs[id] \in Row /\ RowStep(id)
  BY <1>1, LenProperties, ElementOfSeq DEF StepEffect, TypeOK, Ids, Looked
<1>3. id \in Ids'
  BY <1>1, <1>2 DEF StepEffect
<1> SUFFICES ASSUME jobs'[id].kind = kind, Active(jobs'[id]) PROVE jobs'[id].reclaims > 0
  BY <1>3
<1>4. jobs[id].kind = kind
  BY <1>1, <1>2 DEF Kept, Same
<1>5. CASE jobs[id].reclaims > 0
  BY <1>2, <1>5 DEF RowStep, Touched, TakenBack, ClaimedBy, MarkedBy, Row
<1>6. CASE ~Active(jobs[id])
  <2>1. ASSUME NEW w \in Workers, MarkedBy(id, w) PROVE jobs[id].reclaims > 0
    BY <2>1, <1>2, <1>6 DEF MarkedBy, WorkersOn, HolderHandles, Active, Row
  <2>2. QED
    BY <2>1, <1>2, <1>5, <1>6 DEF RowStep, Touched, TakenBack, ClaimedBy, Active
<1>7. QED
  BY <1>2, <1>4, <1>5, <1>6 DEF Looked

LEMMA StepRaceInv ==
  TypeOK /\ HolderHandles /\ RaceInv /\ [Next]_vars => RaceInv'
<1> SUFFICES ASSUME TypeOK, HolderHandles, RaceInv, [Next]_vars PROVE RaceInv'
  OBVIOUS
<1> USE QueueAssumption
<1>a. Inserts /\ Kept
  BY KindsKept
<1>1. ASSUME NEW c \in Callers, intent'[c] # NoIntent
      PROVE  Looked(jobs', intent'[c].kind, intent'[c].seen)
  <2>1. CASE intent'[c] = intent[c]
    BY <2>1, <1>1, LookedKept DEF RaceInv
  <2>2. ASSUME NEW b \in Callers, NEW kind \in Kinds, FindActive(b, kind), intent'[c] # intent[c]
        PROVE  Looked(jobs', intent'[c].kind, intent'[c].seen)
    <3>1. intent'[c] = [kind |-> kind, seen |-> Len(jobs)] /\ UNCHANGED jobs
      BY <2>2 DEF FindActive, TypeOK
    <3>2. Ids = 1..Len(jobs)
      BY LenProperties DEF TypeOK, Ids
    <3>3. Looked(jobs, kind, Len(jobs))
      BY <2>2, <3>2 DEF FindActive, Looked, Ids
    <3>4. Looked(jobs', kind, Len(jobs))
      BY <3>1, <3>3
    <3>5. QED
      BY <3>1, <3>4
  <2>3. ASSUME NEW b \in Callers, InsertAbsent(b) PROVE intent'[c] = intent[c]
    BY <2>3, <1>1 DEF InsertAbsent, TypeOK
  <2>4. QED
    BY <1>a, <2>1, <2>2, <2>3 DEF Inserts
<1>2. ASSUME NEW id \in Ids', jobs'[id].kind \in Deduped
      PROVE  Looked(jobs', jobs'[id].kind, jobs'[id].seen)
  <2>1. CASE id \in Ids
    <3>1. jobs'[id].kind = jobs[id].kind /\ jobs'[id].seen = jobs[id].seen
      BY <2>1, <1>a DEF Kept, Same
    <3>2. Looked(jobs, jobs[id].kind, jobs[id].seen)
      BY <3>1, <2>1, <1>2 DEF RaceInv
    <3>3. QED
      BY <3>1, <3>2, LookedKept
  <2>2. ASSUME id \notin Ids, NEW c \in Callers, InsertAbsent(c),
               Inserted(intent[c].kind, intent[c].seen)
        PROVE  Looked(jobs', jobs'[id].kind, jobs'[id].seen)
    <3>1. jobs'[id].kind = intent[c].kind /\ jobs'[id].seen = intent[c].seen
      BY <2>2 DEF Inserted
    <3>2. Looked(jobs, intent[c].kind, intent[c].seen)
      BY <2>2 DEF RaceInv, InsertAbsent
    <3>3. QED
      BY <3>1, <3>2, LookedKept
  <2>3. QED
    BY <1>a, <1>2, <2>1, <2>2 DEF Inserts, Inserted
<1>3. QED
  BY <1>1, <1>2 DEF RaceInv

(* For any number of handlers, jobs, workers and faults, enqueue_if_absent lets *)
(* a twin in only where handlers raced for the key or a lock was reclaimed.    *)
THEOREM TwinsOnlyByRaceAlways == Spec => []TwinsOnlyByRace
<1>1. Init => RaceInv
  BY DEF Init, RaceInv, Ids
<1>2. TypeOK /\ HolderHandles /\ RaceInv /\ [Next]_vars => RaceInv'
  BY StepRaceInv
<1>3. TypeOK /\ RaceInv => TwinsOnlyByRace
  <2> SUFFICES ASSUME TypeOK, RaceInv, NEW i \in Ids, NEW j \in Ids, i < j,
                      jobs[i].kind = jobs[j].kind, jobs[i].kind \in Deduped,
                      Active(jobs[i]), ~(jobs[j].seen < i)
               PROVE  jobs[i].reclaims > 0
    BY DEF TwinsOnlyByRace
  <2>1. Looked(jobs, jobs[j].kind, jobs[j].seen)
    BY DEF RaceInv
  <2>2. jobs[j] \in Row /\ i \in Nat \ {0}
    BY LenProperties, ElementOfSeq DEF TypeOK, Ids
  <2>3. i \in 1..jobs[j].seen
    BY <2>2 DEF Row
  <2>4. QED
    BY <2>1, <2>3 DEF Looked
<1>4. QED
  BY <1>1, <1>2, <1>3, TypeCorrect, HolderHandlesAlways, PTL DEF Spec
===============================================================================
