------------------------------- MODULE SunoJobs -------------------------------
(***************************************************************************)
(* A paid job of the Suno service, from the charge of the user's key to    *)
(* its callback: the gate, the accounts that are tried in turn, the        *)
(* deferral while all of them are dry, and the finalisation that saves,    *)
(* settles and notifies, on one Node process that awaits between any two   *)
(* calls.  A crash loses the memory of the process; the rows of Postgres,  *)
(* the ledger and the entries of the Redis queue stay, and the boot that   *)
(* follows recovers from them.                                             *)
(***************************************************************************)
EXTENDS ConcurrencyGate, FiniteSets

CONSTANTS
  Queued,        \* jobs with a descriptor under QUEUE_DRIVER=redis; others run inline
  Crowd,         \* jobs of no user: free, and followed no further than the gate
  Accounts,      \* the Suno accounts of the pool
  NoAccount,     \* job.accountId = undefined
  DeferLimit,    \* CAPACITY_DEFER_LIMIT
  MaxTroubles    \* bound: crashes of the process and database calls that throw

ASSUME SunoAssumption ==
  /\ Queued \subseteq Jobs /\ Crowd \subseteq Jobs \ Queued
  /\ NoAccount \notin Accounts /\ IsFiniteSet(Accounts)
  /\ DeferLimit \in Nat /\ MaxTroubles \in Nat

VARIABLES
  job,       \* the Job objects in memory, with the continuation of their worker
  gate,      \* sunoSlots
  load,      \* accountInflight
  row,       \* jobs.status in Postgres, "none" without a row
  ledger,    \* refund rows in credit_transactions of each job, and its callback
  entry,     \* the entry of each job id in the Redis queue
  boot,      \* what the process does since its last start
  songs,     \* history: songs Suno made for each job since it last lost one
  stranded,  \* history: jobs whose worker or queue entry was lost
  torn,      \* history: jobs settled as failed and tried again, or set back at boot
  stale,     \* jobs whose cached object is not their worker's
  troubles   \* crashes and throwing calls so far, for MaxTroubles

mem   == <<job, gate, load, stale>>
db    == <<row, ledger, entry>>
hist  == <<songs, stranded, torn>>
vars  == <<mem, db, boot, hist, troubles>>

(* at      : the next call of the worker; "none" before the request, "gone"  *)
(*           with the process, "ended" after its last call or an exception   *)
(* held    : it holds a slot; errs : what kind of errors it has met          *)
(* tried   : excludeAttemptedIds; account : the last of them                 *)
(* attempt : whether it is inside the try or the catch of an attempt on it   *)
Object(at, status) ==
  [at |-> at, status |-> status, held |-> FALSE, attempt |-> "no", tried |-> {},
   errs |-> "none", account |-> NoAccount, deferrals |-> 0]

Charged(j)       == j \notin Crowd /\ job[j].at # "none"
Terminal(status) == status \in {"complete", "error"}
Stage(j)         == job[j].at
Up               == boot.at = "up"
Running          == boot.at # "down"
Set(j, object)   == job' = [job EXCEPT ![j] = object]
GoTo(j, at)      == Set(j, [job[j] EXCEPT !.at = at])
Save(j, status)  == row' = [row EXCEPT ![j] = status]

(* Mutant: an attempt that ends is still counted. *)
LoadKept(j) == load

(* The load of the accounts when the attempt of a job is over (markAccountEnd). *)
LoadWithout(j) ==
  IF job[j].attempt = "no" THEN load
  ELSE [load EXCEPT ![job[j].account] = Less(@)]

(* The gate and the objects when a worker's slot, if it has one, is given back: *)
(* whoever is admitted instead goes on after its acquire.                       *)
GateWithout(j) == IF job[j].held THEN Release(gate, j) ELSE gate

LeaveSlot(j, object) ==
  LET admitted == Waiting(gate) \ Waiting(GateWithout(j))
  IN  /\ gate' = GateWithout(j)
      /\ job' = [k \in Jobs |->
           IF k = j THEN [object EXCEPT !.held = FALSE, !.attempt = "no"]
           ELSE IF k \in admitted THEN [job[k] EXCEPT !.at = "begin", !.held = TRUE]
           ELSE job[k]]

(* The handler of a queued job returns: BullMQ remembers the id for an hour. *)
EntryDone(j) == IF entry[j] = "active" THEN [entry EXCEPT ![j] = "done"] ELSE entry

(* The worker of a job returns, or its last await throws. *)
End(j) ==
  /\ LeaveSlot(j, Object("ended", job[j].status))
  /\ load' = LoadWithout(j)
  /\ entry' = EntryDone(j)

-------------------------------------------------------------------------------
(* A route charges the user's key and makes the job, in memory only; *)
(* submitDescribedJob saves it first only where it goes to a queue.  *)
Request(j) ==
  /\ j \notin Crowd /\ Up /\ Stage(j) = "none"
  /\ Set(j, Object(IF j \in Queued THEN "persist" ELSE "admit", "pending"))
  /\ UNCHANGED <<gate, load, stale, db, boot, hist, troubles>>

Persist(j) ==
  /\ Stage(j) = "persist"
  /\ Save(j, job[j].status)
  /\ GoTo(j, "enqueue")
  /\ UNCHANGED <<gate, load, stale, ledger, entry, boot, hist, troubles>>

(* queue.add: an id the queue still knows is not added again. *)
Added(j) == IF entry[j] = "none" THEN [entry EXCEPT ![j] = "wait"] ELSE entry

Enqueue(j) ==
  /\ Stage(j) = "enqueue"
  /\ entry' = Added(j)
  /\ GoTo(j, "queued")
  /\ UNCHANGED <<gate, load, stale, row, ledger, boot, hist, troubles>>

(* Mutant: the consumer does not look at the row's status. *)
NothingLeft(status) == FALSE

(* A row that is already terminal leaves consumeQueuedJob nothing to do. *)
NothingToDo(status) == Terminal(status)

(* consumeQueuedJob: the cached object, or else one made from the row. *)
Consume(j) ==
  LET cached == IF Stage(j) = "gone" THEN Object("admit", row[j]) ELSE job[j]
  IN  /\ Running /\ entry[j] = "wait" /\ Stage(j) \in {"queued", "gone"}
      /\ IF NothingToDo(cached.status)
         THEN entry' = [entry EXCEPT ![j] = "done"] /\ UNCHANGED job
         ELSE /\ entry' = [entry EXCEPT ![j] = "active"]
              /\ Set(j, [cached EXCEPT !.at = "admit"])
      /\ UNCHANGED <<gate, load, stale, row, ledger, boot, hist, troubles>>

(* An hour after it was done, an id is forgotten; no boot takes that long. *)
Forget(j) ==
  /\ Up /\ entry[j] = "done"
  /\ entry' = [entry EXCEPT ![j] = "none"]
  /\ UNCHANGED <<mem, row, ledger, boot, hist, troubles>>

-------------------------------------------------------------------------------
(* The job has failed or is made; of the attempts only the last still counts. *)
Conclude(j, status, attempt) ==
  Set(j, [Object("final", status) EXCEPT !.held = job[j].held, !.attempt = attempt,
            !.account = IF attempt = "no" THEN NoAccount ELSE job[j].account])

(* withSunoSlot: a slot at once, a place in the queue, or QueueFullError. *)
Acquire(j) ==
  \/ /\ CanStart(gate, j)
     /\ gate' = StartIn(gate, j)
     /\ Set(j, [job[j] EXCEPT !.at = "begin", !.held = TRUE])
  \/ /\ ~CanStart(gate, j) /\ ~QueueFull(gate)
     /\ gate' = Enqueued(gate, j)
     /\ GoTo(j, "waiting")

Admit(j) ==
  /\ Stage(j) = "admit"
  /\ \/ Acquire(j)
     \/ /\ ~CanStart(gate, j) /\ QueueFull(gate)
        /\ Conclude(j, "error", "no")
        /\ UNCHANGED gate
  /\ UNCHANGED <<load, stale, db, boot, hist, troubles>>

(* A free job waits for a slot too, keeps it a while, and may come again. *)
Arrive(j) ==
  /\ j \in Crowd /\ Up /\ Stage(j) = "none"
  /\ Acquire(j)
  /\ UNCHANGED <<load, stale, db, boot, hist, troubles>>

Leave(j) ==
  /\ j \in Crowd /\ Stage(j) = "begin"
  /\ LeaveSlot(j, Object("none", "pending"))
  /\ UNCHANGED <<load, stale, db, boot, hist, troubles>>

(* The first saveJob of a job that runs inline. *)
BeginJob(j) ==
  /\ j \notin Crowd /\ Stage(j) = "begin"
  /\ Save(j, job[j].status)
  /\ GoTo(j, "pick")
  /\ UNCHANGED <<gate, load, stale, ledger, entry, boot, hist, troubles>>

MaxAttempts == IF Cardinality(Accounts) < 3 THEN Cardinality(Accounts) ELSE 3

Noted(errs, kind) == IF errs \in {"none", kind} THEN kind ELSE "mixed"

(* After the last attempt, or the error of pickExcept, of this kind: the job  *)
(* failed, or waits for credits if every error says that the pool is dry.     *)
Defers(j, errs) == errs = "capacity" /\ job[j].deferrals < DeferLimit

GiveUp(j, errs) ==
  IF Defers(j, errs)
  THEN Set(j, [Object("defer", "pending") EXCEPT !.held = TRUE, !.deferrals = job[j].deferrals + 1])
  ELSE Conclude(j, "error", "no")

(* pickExcept.  The credits, limits and load that other jobs and fresh reads  *)
(* leave to each account decide; they are left open.  An account not tried is *)
(* found, or the capacity error is thrown, or with none reachable another.    *)
Pick(j) ==
  /\ Stage(j) = "pick"
  /\ \/ \E a \in Accounts \ job[j].tried :
          Set(j, [job[j] EXCEPT !.at = "start", !.status = "running", !.account = a,
                                !.tried = @ \cup {a}])
     \/ \E kind \in {"capacity", "other"} : GiveUp(j, Noted(job[j].errs, kind))
  /\ UNCHANGED <<gate, load, stale, db, boot, hist, troubles>>

(* saveJob, and markAccountStart only after it. *)
StartAttempt(j) ==
  /\ Stage(j) = "start"
  /\ Save(j, job[j].status)
  /\ load' = [load EXCEPT ![job[j].account] = @ + 1]
  /\ Set(j, [job[j] EXCEPT !.at = "submit", !.attempt = "try"])
  /\ UNCHANGED <<gate, stale, ledger, entry, boot, hist, troubles>>

(* After a retryable error of this kind the next account is tried, up to three. *)
Retry(j, kind) ==
  /\ load' = LoadWithout(j)
  /\ IF Cardinality(job[j].tried) < MaxAttempts
     THEN Set(j, [job[j] EXCEPT !.at = "pick", !.attempt = "no", !.account = NoAccount,
                                !.errs = Noted(@, kind)])
     ELSE GiveUp(j, Noted(job[j].errs, kind))

(* Suno's answer to submit and poll: the song, which ensureDurableAudio stores or *)
(* else fails the job; no credits; a rate limit, a time-out or a server error,    *)
(* perhaps with the song made; or a refusal.                                      *)
Submit(j) ==
  /\ Stage(j) = "submit"
  /\ \/ /\ songs' = [songs EXCEPT ![j] = @ + 1]
        /\ \E status \in {"complete", "error"} :
             Set(j, [job[j] EXCEPT !.at = "final", !.status = status, !.attempt = "try"])
        /\ UNCHANGED load
     \/ Retry(j, "capacity") /\ UNCHANGED songs
     \/ Retry(j, "other") /\ songs' = [songs EXCEPT ![j] = 0]
     \/ /\ Conclude(j, "error", "catch")
        /\ UNCHANGED <<load, songs>>
  /\ UNCHANGED <<gate, stale, db, boot, stranded, torn, troubles>>

(* deferForCapacity: nothing is settled, the slot is given back, and a timer in *)
(* memory starts the job anew.                                                  *)
Defer(j) ==
  /\ Stage(j) = "defer"
  /\ Save(j, "pending")
  /\ LeaveSlot(j, [job[j] EXCEPT !.at = "admit"])
  /\ entry' = EntryDone(j)
  /\ UNCHANGED <<load, stale, ledger, boot, hist, troubles>>

-------------------------------------------------------------------------------
(* finalizeJob once the audio is where it stays: the row, the settlement, the *)
(* usage and the callback, in this order.                                      *)
SaveFinal(j) ==
  /\ Stage(j) = "final"
  /\ Save(j, job[j].status)
  /\ GoTo(j, "settle")
  /\ UNCHANGED <<gate, load, stale, ledger, entry, boot, hist, troubles>>

(* Mutant: no unique index stops a second refund. *)
SettledAgain(account, status) ==
  IF status = "error" THEN [account EXCEPT !.refunds = @ + 1] ELSE account

(* settleCredits, one transaction: for a job that failed the refund row with *)
(* the credits, once.                                                        *)
Settled(account, status) ==
  IF status = "error" /\ account.refunds = 0 THEN [account EXCEPT !.refunds = 1] ELSE account

Settle(j) ==
  /\ Stage(j) = "settle"
  /\ ledger' = [ledger EXCEPT ![j] = Settled(@, job[j].status)]
  /\ GoTo(j, "notify")
  /\ UNCHANGED <<gate, load, stale, row, entry, boot, hist, troubles>>

(* recordUsage, then notify, which swallows its errors: the last call of every worker. *)
Notify(j) ==
  /\ Stage(j) = "notify"
  /\ ledger' = [ledger EXCEPT ![j].told = job[j].status]
  /\ End(j)
  /\ UNCHANGED <<stale, row, boot, hist, troubles>>

-------------------------------------------------------------------------------
(* A call of the database or of Redis throws.  A job that is not queued yet is *)
(* failed; inside the try of an attempt the error is taken for one of Suno's    *)
(* (retryable by its text, or not); anywhere else trackJob logs it and the      *)
(* worker is gone.                                                              *)
Throw(j) ==
  /\ Up /\ j \notin Crowd /\ troubles < MaxTroubles /\ troubles' = troubles + 1
  /\ \/ /\ Stage(j) \in {"persist", "enqueue"}
        /\ Conclude(j, "error", "no")
        /\ UNCHANGED <<gate, load, entry, hist>>
     \/ /\ Stage(j) \in {"final", "settle", "notify"} /\ job[j].attempt = "try"
        /\ torn' = IF ledger[j].refunds > 0 THEN torn \cup {j} ELSE torn
        /\ \/ /\ Retry(j, "other")
              /\ songs' = [songs EXCEPT ![j] = 0]
           \/ /\ Conclude(j, "error", "catch")
              /\ UNCHANGED <<load, songs>>
        /\ UNCHANGED <<gate, entry, stranded>>
     \/ /\ Stage(j) \in {"admit", "begin", "start", "defer", "final", "settle", "notify"}
        /\ job[j].attempt # "try"
        /\ End(j)
        /\ stranded' = stranded \cup {j}
        /\ UNCHANGED <<songs, torn>>
  /\ UNCHANGED <<stale, row, ledger, boot>>

(* The process dies.  BullMQ gives an entry that was active to the next consumer. *)
Crash ==
  /\ Running /\ troubles < MaxTroubles /\ troubles' = troubles + 1
  /\ job' = [j \in Jobs |-> Object(IF Charged(j) THEN "gone" ELSE "none", "pending")]
  /\ gate' = EmptyGate /\ load' = [a \in Accounts |-> 0] /\ stale' = {}
  /\ entry' = [j \in Jobs |-> IF entry[j] = "active" THEN "wait" ELSE entry[j]]
  /\ boot' = [at |-> "down", todo |-> {}, now |-> {}]
  /\ songs' = [j \in Jobs |-> IF Terminal(row[j]) THEN songs[j] ELSE 0]
  /\ stranded' = stranded \cup {j \in Jobs : Charged(j) /\ row[j] = "none"}
  /\ UNCHANGED <<row, ledger, torn>>

-------------------------------------------------------------------------------
(* onReady: the consumer starts, then recoverJobs, before any request is taken. *)
(* First reconcileMissingRefunds over the failed jobs without a refund.         *)
Restart ==
  /\ boot.at = "down"
  /\ boot' = [at |-> "reconcile", now |-> {},
              todo |-> {j \in Jobs : row[j] = "error" /\ ledger[j].refunds = 0}]
  /\ UNCHANGED <<mem, db, hist, troubles>>

Reconcile(j) ==
  /\ boot.at = "reconcile" /\ j \in boot.todo
  /\ ledger' = [ledger EXCEPT ![j] = Settled(@, "error")]
  /\ stranded' = stranded \ {j}
  /\ boot' = [boot EXCEPT !.todo = @ \ {j}]
  /\ UNCHANGED <<mem, row, entry, songs, torn, troubles>>

(* Mutant: the boot does not look for jobs that were running. *)
NotBegun(status) == status = "pending"

(* WHERE status IN ('pending', 'running', 'streaming') *)
Unfinished(status) == status \in {"pending", "running"}

(* Then the jobs that have not ended, as one SELECT finds them. *)
Survey ==
  /\ boot.at = "reconcile" /\ boot.todo = {}
  /\ boot' = [boot EXCEPT !.at = "recover", !.todo = {j \in Jobs : Unfinished(row[j])}]
  /\ UNCHANGED <<mem, db, hist, troubles>>

Finalised == \A k \in boot.now : Stage(k) = "ended"

(* A queued job is put back to pending, even if the consumer has begun or ended *)
(* it since (its worker then has another object than the map), and enqueued     *)
(* unless the queue knows the id, though its entry may be done.                 *)
RequeueJob(j) ==
  /\ boot.at = "recover" /\ j \in boot.todo \cap Queued /\ Finalised
  /\ Save(j, "pending")
  /\ entry' = Added(j)
  /\ IF Stage(j) = "gone"
     THEN Set(j, Object("queued", "pending")) /\ UNCHANGED <<stale, torn>>
     ELSE stale' = stale \cup {j} /\ torn' = torn \cup {j} /\ UNCHANGED job
  /\ stranded' = IF entry[j] = "done" THEN stranded \cup {j} ELSE stranded
  /\ boot' = [boot EXCEPT !.todo = @ \ {j}]
  /\ UNCHANGED <<gate, load, ledger, songs, troubles>>

(* Any other job cannot be run again: it is failed and finalised, one by one. *)
FailOut(j) ==
  /\ boot.at = "recover" /\ j \in boot.todo \ Queued /\ Finalised
  /\ Set(j, Object("final", "error"))
  /\ Save(j, "error")
  /\ boot' = [boot EXCEPT !.todo = @ \ {j}, !.now = {j}]
  /\ UNCHANGED <<gate, load, stale, ledger, entry, hist, troubles>>

Ready ==
  /\ boot.at = "recover" /\ boot.todo = {} /\ Finalised
  /\ boot' = [at |-> "up", todo |-> {}, now |-> {}]
  /\ UNCHANGED <<mem, db, hist, troubles>>

-------------------------------------------------------------------------------
Init ==
  /\ job = [j \in Jobs |-> Object("none", "pending")]
  /\ gate = EmptyGate /\ load = [a \in Accounts |-> 0] /\ stale = {}
  /\ row = [j \in Jobs |-> "none"] /\ entry = [j \in Jobs |-> "none"]
  /\ ledger = [j \in Jobs |-> [refunds |-> 0, told |-> "none"]]
  /\ boot = [at |-> "up", todo |-> {}, now |-> {}]
  /\ songs = [j \in Jobs |-> 0] /\ stranded = {} /\ torn = {} /\ troubles = 0

Work(j) ==
  \/ Persist(j) \/ Enqueue(j) \/ Consume(j) \/ Admit(j) \/ BeginJob(j) \/ Pick(j)
  \/ StartAttempt(j) \/ Submit(j) \/ Defer(j) \/ SaveFinal(j)
  \/ Settle(j) \/ Notify(j)

Recovery == Restart \/ Survey \/ Ready \/ \E j \in Jobs : Reconcile(j) \/ RequeueJob(j) \/ FailOut(j)

Next ==
  \/ \E j \in Jobs : Request(j) \/ Arrive(j) \/ Leave(j) \/ Work(j) \/ Forget(j) \/ Throw(j)
  \/ Crash
  \/ Recovery

(* Node runs every continuation that is ready, timers included, every call of *)
(* Suno ends, and systemd restarts the process.                               *)
Fairness ==
  /\ WF_vars(Recovery \/ \E j \in Jobs : Work(j))
  /\ WF_vars(\E j \in Crowd : Leave(j))

Spec     == Init /\ [][Next]_vars
FairSpec == Spec /\ Fairness
-------------------------------------------------------------------------------
Held == {j \in Jobs : job[j].held}

Stages == {"none", "gone", "persist", "enqueue", "queued", "admit", "waiting", "begin", "pick",
           "start", "submit", "defer", "final", "settle", "notify", "ended"}

(* The gate's and the accounts' counts are those of the workers that hold a   *)
(* slot or are inside an attempt: no path, however it fails, leaks a slot or  *)
(* gives one back twice.                                                      *)
CountsMatchWorkers ==
  /\ job \in [Jobs -> [at : Stages, status : {"pending", "running", "complete", "error"},
                       held : BOOLEAN, attempt : {"no", "try", "catch"}, tried : SUBSET Accounts,
                       errs : {"none", "capacity", "other", "mixed"},
                       account : Accounts \cup {NoAccount}, deferrals : 0..DeferLimit]]
  /\ gate.active = Cardinality(Held)
  /\ \A o \in Owners : gate.owned[o] = Cardinality({j \in Held : Owner[j] = o})
  /\ \A a \in Accounts :
       load[a] = Cardinality({j \in Jobs : job[j].attempt # "no" /\ job[j].account = a})
  /\ Waiting(gate) = {j \in Jobs : Stage(j) = "waiting"}

(* No job waits for a slot it could have, and nobody waits when nobody works:  *)
(* a waiting job never keeps the pool from going on.                           *)
NoStrandedWaiter ==
  /\ WorkConserving(gate)
  /\ gate.waiting # << >> => gate.active > 0

(* Callback, row and ledger tell one story of a job: it is refunded at most    *)
(* once, only when it failed, and always before its failure is announced; and  *)
(* once a process is up, no failed job is left without its refund.             *)
SettlementMatchesRow ==
  \A j \in Jobs :
    LET account == ledger[j]
    IN  /\ account.refunds <= 1
        /\ account.told = "error" => account.refunds = 1
        /\ j \notin stranded \cup torn =>
             /\ account.told = "complete" => account.refunds = 0
             /\ account.refunds = 1 => row[j] = "error"
             /\ account.told # "none" => row[j] = account.told
             /\ Up /\ Stage(j) \in {"gone", "ended"} /\ row[j] = "error" => account.refunds = 1

(* Suno makes one song for a job, and another only when one was lost: its      *)
(* answer, its finalisation to an exception, or the process before the row was *)
(* final.  Retries, deferrals and entries handed out again add none.           *)
OneSongUnlessLost == \A j \in Jobs : songs[j] <= 1

(* What a client that polls the job is told. *)
View(j) ==
  IF j \in stale THEN "pending"
  ELSE IF Stage(j) \in {"none", "gone"} THEN row[j]
  ELSE job[j].status

(* Every job a user paid for ends, for the client too, unless a database error *)
(* or a crash caught it where nothing leads back to it: before its first row,  *)
(* behind a finished queue entry, or while the boot replaced its object.       *)
EveryJobEnds ==
  <>[](\A j \in Jobs : Charged(j) => Terminal(View(j)) \/ j \in stranded \cup stale)
===============================================================================
