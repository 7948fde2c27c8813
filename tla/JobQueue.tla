------------------------------- MODULE JobQueue -------------------------------
(***************************************************************************)
(* The durable job queue (table job_queue) and the workers that drain it.  *)
(* Each statement of JobQueueRepository is atomic; the handler of a job    *)
(* runs between two of them, on the copy of the row its claim returned.    *)
(* Time enters through two comparisons only, run_after <= NOW() and        *)
(* locked_at < NOW() - stale: a row is due or not, its lock fresh or stale.*)
(***************************************************************************)
EXTENDS Integers, Sequences, FiniteSets

CONSTANTS
  Workers,     \* worker processes
  Callers,     \* API handlers that enqueue with enqueue_if_absent
  Kinds,       \* a job type with its user, batch and song
  Deduped,     \* the kinds enqueued with enqueue_if_absent
  Priority,    \* the priority of each kind
  Serves,      \* the kinds each worker claims (CAMXORA_WORKER_JOB_TYPES)
  MaxAttempts, \* max_attempts
  NoWorker,    \* locked_by = NULL
  NoKind,      \* an API handler that is not enqueueing
  MaxJobs,     \* bound: rows inserted
  MaxOverruns, \* bound: locks that go stale under a handler still at work
  MaxHangs,    \* bound: workers whose handler never returns, at a time
  MaxCrashes   \* bound: crashes

ASSUME QueueAssumption ==
  /\ IsFiniteSet(Workers) /\ IsFiniteSet(Callers)
  /\ Deduped \subseteq Kinds
  /\ Priority \in [Kinds -> Int]
  /\ Serves \in [Workers -> SUBSET Kinds]
  /\ MaxAttempts \in Nat \ {0}
  /\ NoWorker \notin Workers /\ NoKind \notin Kinds
  /\ MaxJobs \in Nat /\ MaxOverruns \in Nat /\ MaxHangs \in Nat /\ MaxCrashes \in Nat

VARIABLES
  jobs,     \* the rows of job_queue, in the order of created_at
  worker,   \* what each worker is doing
  intent,   \* the kind each API handler has found absent, and among how many rows
  overruns, \* stale locks under live handlers so far, for MaxOverruns
  crashes   \* crashes so far, for MaxCrashes

vars == <<jobs, worker, intent, overruns, crashes>>

-------------------------------------------------------------------------------
Status == {"queued", "delayed", "running", "done", "failed"}

(* reclaims counts the times the row was requeued as stale, seen the rows that *)
(* were there when its enqueue looked at the table; the table does not have     *)
(* these columns, and nothing but the properties reads them.                   *)
Locks == {"none", "fresh", "stale"}

Row == [kind     : Kinds,
        status   : Status,
        attempts : Nat,
        due      : BOOLEAN,
        lock     : Locks,
        holder   : Workers \cup {NoWorker},
        reclaims : Nat,
        seen     : Nat]

NewRow(kind, seen) ==
  [kind |-> kind, status |-> "queued", attempts |-> 0, due |-> TRUE,
   lock |-> "none", holder |-> NoWorker, reclaims |-> 0, seen |-> seen]

(* Mutant: the lock columns are left as they are. *)
StillLocked(row, status) == [row EXCEPT !.status = status]

Unlocked(row, status) == [row EXCEPT !.status = status, !.lock = "none", !.holder = NoWorker]

Ids == DOMAIN jobs

(* at: down, idle (polling), handling or hung in _handle_job, or with the result *)
(* in hand before the row is marked; id, tries: the claimed row and its attempts.*)
Down == [at |-> "down", id |-> 0, tries |-> 0]
Idle == [at |-> "idle", id |-> 0, tries |-> 0]

Busy == {"handling", "hung", "returned", "raised"}

At(w, stage)   == worker[w].at = stage
GoTo(w, stage) == worker' = [worker EXCEPT ![w].at = stage]
Rest(w)        == worker' = [worker EXCEPT ![w] = Idle]

(* The workers that have a copy of the row. *)
WorkersOn(id) == {w \in Workers : worker[w].at \in Busy /\ worker[w].id = id}

-------------------------------------------------------------------------------
(* Mutant: find_active overlooks the jobs that are running. *)
PendingOnly(row) == row.status \in {"queued", "delayed"}

(* status IN ('queued', 'delayed', 'running') *)
Active(row) == row.status \in {"queued", "delayed", "running"}

NoIntent == [kind |-> NoKind, seen |-> 0]

Room == Len(jobs) + Cardinality({c \in Callers : intent[c] # NoIntent}) < MaxJobs

(* enqueue *)
Enqueue(kind) ==
  /\ kind \notin Deduped /\ Room
  /\ jobs' = Append(jobs, NewRow(kind, Len(jobs)))
  /\ UNCHANGED <<worker, intent, overruns, crashes>>

(* enqueue_if_absent: find_active finds no twin (if it does, nothing happens) ... *)
FindActive(c, kind) ==
  /\ kind \in Deduped /\ intent[c] = NoIntent /\ Room
  /\ \A id \in Ids : jobs[id].kind = kind => ~Active(jobs[id])
  /\ intent' = [intent EXCEPT ![c] = [kind |-> kind, seen |-> Len(jobs)]]
  /\ UNCHANGED <<jobs, worker, overruns, crashes>>

(* ... and a statement of its own inserts the row. *)
InsertAbsent(c) ==
  /\ intent[c] # NoIntent
  /\ jobs' = Append(jobs, NewRow(intent[c].kind, intent[c].seen))
  /\ intent' = [intent EXCEPT ![c] = NoIntent]
  /\ UNCHANGED <<worker, overruns, crashes>>

-------------------------------------------------------------------------------
IsStale(row) == row.status = "running" /\ row.lock = "stale"

(* requeue_stale_running: the attempts are not looked at. *)
Requeued(row) == [Unlocked(row, "queued") EXCEPT !.due = TRUE, !.reclaims = @ + 1]

RequeueStale(rows) ==
  [id \in DOMAIN rows |-> IF IsStale(rows[id]) THEN Requeued(rows[id]) ELSE rows[id]]

(* systemd (re)starts a worker, which requeues stale jobs before its loop. *)
Start(w) ==
  /\ At(w, "down")
  /\ jobs' = RequeueStale(jobs)
  /\ Rest(w)
  /\ UNCHANGED <<intent, overruns, crashes>>

(* Mutant: stale jobs are looked for only when a worker starts. *)
NoPeriodicSweep(w) == FALSE /\ UNCHANGED vars

(* The periodic sweep of the loop: only a worker between two jobs gets to it. *)
SweepStale(w) ==
  /\ At(w, "idle")
  /\ \E id \in Ids : IsStale(jobs[id])
  /\ jobs' = RequeueStale(jobs)
  /\ UNCHANGED <<worker, intent, overruns, crashes>>

(* Mutant: the candidates are not filtered by status. *)
DueRow(row) == row.due

(* Mutant: a failed job stays a candidate. *)
ClaimableOrFailed(row) == row.status \in {"queued", "delayed", "failed"} /\ row.due

Claimable(row) == row.status \in {"queued", "delayed"} /\ row.due

Candidates(w) == {id \in Ids : Claimable(jobs[id]) /\ jobs[id].kind \in Serves[w]}

(* ORDER BY priority DESC, created_at ASC *)
Outranks(i, j) ==
  LET p == Priority[jobs[i].kind]  q == Priority[jobs[j].kind]
  IN  p > q \/ (p = q /\ i < j)

Claimed(row, w) == [row EXCEPT !.status = "running", !.attempts = @ + 1,
                               !.lock = "fresh", !.holder = w]

(* claim_next, by a worker in its loop. *)
Claim(w) ==
  /\ At(w, "idle")
  /\ \E id \in Candidates(w) :
       /\ \A other \in Candidates(w) \ {id} : Outranks(id, other)
       /\ jobs' = [jobs EXCEPT ![id] = Claimed(@, w)]
       /\ worker' = [worker EXCEPT ![w] =
            [at |-> "handling", id |-> id, tries |-> jobs[id].attempts + 1]]
  /\ UNCHANGED <<intent, overruns, crashes>>

-------------------------------------------------------------------------------
(* _handle_job returns, raises or never ends (no job timeout by default). *)
HandlerReturns(w) ==
  /\ At(w, "handling") /\ GoTo(w, "returned")
  /\ UNCHANGED <<jobs, intent, overruns, crashes>>

HandlerRaises(w) ==
  /\ At(w, "handling") /\ GoTo(w, "raised")
  /\ UNCHANGED <<jobs, intent, overruns, crashes>>

HandlerHangs(w) ==
  /\ At(w, "handling")
  /\ Cardinality({v \in Workers : At(v, "hung")}) < MaxHangs
  /\ GoTo(w, "hung")
  /\ UNCHANGED <<jobs, intent, overruns, crashes>>

(* mark_done: WHERE id = $1, whatever has become of the row meanwhile.  When *)
(* the statement fails, the job counts as failed.                            *)
MarkDone(w) ==
  /\ At(w, "returned")
  /\ jobs' = [jobs EXCEPT ![worker[w].id] = Unlocked(@, "done")]
  /\ Rest(w)
  /\ UNCHANGED <<intent, overruns, crashes>>

MarkDoneFails(w) ==
  /\ At(w, "returned") /\ GoTo(w, "raised")
  /\ UNCHANGED <<jobs, intent, overruns, crashes>>

(* Mutant: one attempt too many. *)
AttemptsPassed(tries) == tries > MaxAttempts

(* job.attempts >= job.max_attempts, on the copy the claim returned. *)
OutOfAttempts(tries) == tries >= MaxAttempts

Postponed(row) == [Unlocked(row, "delayed") EXCEPT !.due = FALSE]

(* mark_failed_or_retry: WHERE id = $1 again. *)
MarkFailedOrRetry(w) ==
  LET id == worker[w].id
  IN  /\ At(w, "raised")
      /\ jobs' = [jobs EXCEPT ![id] =
           IF OutOfAttempts(worker[w].tries) THEN Unlocked(@, "failed")
           ELSE Postponed(@)]
      /\ Rest(w)
      /\ UNCHANGED <<intent, overruns, crashes>>

-------------------------------------------------------------------------------
(* The delay of a retry passes. *)
BecomeDue(id) ==
  /\ jobs[id].status = "delayed" /\ ~jobs[id].due
  /\ jobs' = [jobs EXCEPT ![id].due = TRUE]
  /\ UNCHANGED <<worker, intent, overruns, crashes>>

HolderAtWork(id) ==
  \E w \in WorkersOn(id) : worker[w].tries = jobs[id].attempts /\ ~At(w, "hung")

(* A lock passes the stale limit: its worker is gone or hung, or takes longer *)
(* than the limit allows for.                                                 *)
LockAges(id) ==
  /\ jobs[id].status = "running" /\ jobs[id].lock = "fresh"
  /\ HolderAtWork(id) => overruns < MaxOverruns
  /\ jobs' = [jobs EXCEPT ![id].lock = "stale"]
  /\ overruns' = IF HolderAtWork(id) THEN overruns + 1 ELSE overruns
  /\ UNCHANGED <<worker, intent, crashes>>

(* A worker dies, or its mark_failed_or_retry raises out of the loop. *)
Crash(w) ==
  /\ ~At(w, "down") /\ crashes < MaxCrashes
  /\ worker' = [worker EXCEPT ![w] = Down]
  /\ crashes' = crashes + 1
  /\ UNCHANGED <<jobs, intent, overruns>>

-------------------------------------------------------------------------------
Init ==
  /\ jobs = << >>
  /\ worker = [w \in Workers |-> Down]
  /\ intent = [c \in Callers |-> NoIntent]
  /\ overruns = 0 /\ crashes = 0

Handler(w) == HandlerReturns(w) \/ HandlerRaises(w)
Mark(w)    == MarkDone(w) \/ MarkDoneFails(w) \/ MarkFailedOrRetry(w)

Next ==
  \/ \E kind \in Kinds : Enqueue(kind)
  \/ \E c \in Callers : InsertAbsent(c) \/ \E kind \in Kinds : FindActive(c, kind)
  \/ \E w \in Workers :
       \/ Start(w) \/ SweepStale(w) \/ Claim(w)
       \/ Handler(w) \/ HandlerHangs(w) \/ Mark(w)
       \/ Crash(w)
  \/ \E id \in Ids : BecomeDue(id) \/ LockAges(id)

Spec == Init /\ [][Next]_vars

(* systemd restarts workers, an idle worker keeps polling and sweeping, every *)
(* handler that does not hang ends, and time passes.                          *)
Fairness ==
  /\ \A w \in Workers : /\ WF_vars(Start(w)) /\ WF_vars(SweepStale(w)) /\ WF_vars(Claim(w))
                        /\ WF_vars(Handler(w)) /\ WF_vars(Mark(w))
  /\ \A c \in Callers : WF_vars(InsertAbsent(c))
  /\ \A id \in 1..MaxJobs : WF_vars(id \in Ids /\ (BecomeDue(id) \/ LockAges(id)))

FairSpec == Spec /\ Fairness
-------------------------------------------------------------------------------
Stages == {"down", "idle"} \cup Busy

(* The types of the rows and of the workers' copies; a lock and its holder are *)
(* there together, on running rows and only there.                             *)
TypeOK ==
  /\ jobs \in Seq(Row)
  /\ \A id \in Ids : /\ (jobs[id].status = "running") <=> (jobs[id].lock # "none")
                     /\ (jobs[id].status = "running") <=> (jobs[id].holder # NoWorker)
  /\ worker \in [Workers -> [at : Stages, id : Nat, tries : Nat]]
  /\ \A w \in Workers : worker[w].at \in Busy => worker[w].id \in Ids
  /\ intent \in [Callers -> [kind : Kinds, seen : Nat] \cup {NoIntent}]
  /\ overruns \in 0..MaxOverruns /\ crashes \in 0..MaxCrashes

(* The retry limit holds but for reclaims: each requeue of a stale lock, which *)
(* does not look at attempts, buys the job at most one attempt more, although  *)
(* a worker that lost its lock decides on the attempts it remembers.           *)
AttemptsBounded ==
  \A id \in Ids : jobs[id].attempts <= MaxAttempts + jobs[id].reclaims

(* FOR UPDATE SKIP LOCKED, no double claim: two workers handle one job only    *)
(* after its lock went stale under the first of them.                          *)
SoleHandler ==
  \A id \in Ids : jobs[id].reclaims = 0 => Cardinality(WorkersOn(id)) <= 1

(* A job that is done or failed stays so, and is not run again, unless its     *)
(* lock was reclaimed: then a late mark of the first worker may reopen it.     *)
FinalUnlessReclaimed ==
  [][\A id \in Ids :
       jobs[id].status \in {"done", "failed"} /\ jobs[id].reclaims = 0
       => jobs'[id] = jobs[id]]_vars

(* enqueue_if_absent checks and inserts in two statements.  Two jobs of one key *)
(* are active together only if the handler of the later one looked before the   *)
(* earlier one was inserted, or if the lock of the earlier one was reclaimed:    *)
(* a late mark of its first worker then reopens it beside the later one.        *)
TwinsOnlyByRace ==
  \A i, j \in Ids :
    i < j /\ jobs[i].kind = jobs[j].kind /\ jobs[i].kind \in Deduped
    /\ Active(jobs[i]) /\ Active(jobs[j])
    => jobs[j].seen < i \/ jobs[i].reclaims > 0

(* No job is stuck: after crashes, hangs and overruns every job that was      *)
(* enqueued ends up done or failed, and stays so.                             *)
EveryJobSettles == <>[](\A id \in Ids : jobs[id].status \in {"done", "failed"})
===============================================================================
