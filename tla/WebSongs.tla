------------------------------- MODULE WebSongs -------------------------------
(***************************************************************************)
(* A song of the web product, from the click on Create to the answer of    *)
(* Suno.  An API handler charges the user, inserts the suno_tasks row and  *)
(* enqueues a job; a queue worker sends the song to Suno under a Redis     *)
(* lock and refunds it when Suno refuses it; callbacks of Suno, and the    *)
(* status polls of the browser, record how the generation ended.           *)
(* The queue and its workers are those of JobQueue: each kind of job is    *)
(* one song, and the handler of a job is spelled out here.  Of the wallet  *)
(* only the song's own rows are kept: its debit, and the keys under which  *)
(* it was refunded; refund_once honours a key once (CreditRepo).           *)
(***************************************************************************)
EXTENDS JobQueue

CONSTANTS
  Hooks,       \* handlers of callbacks and of status polls in the API
  HasPack,     \* the user holds a live pack lot (is_pro)
  NoSong,      \* a hook that is at no song
  MaxLost,     \* bound: generations whose id gets lost, for each song
  MaxExpiries  \* bound: Suno locks that expire under a worker still at work

ASSUME WebAssumption ==
  /\ Deduped = {}
  /\ HasPack \in BOOLEAN
  /\ NoSong \notin Kinds
  /\ "orphan" \notin Workers
  /\ MaxLost \in Nat /\ MaxExpiries \in Nat

Songs == Kinds

VARIABLES
  request,  \* how far the API handler of each song's Create request is
  debit,    \* the ref_id of the song's v3_music debit
  refunds,  \* the keys of its refunds: the reservation, the debit row, the task
  task,     \* its suno_tasks row: status and external_task_id
  gens,     \* its generations at Suno, in the order Suno accepted them
  lock,     \* web_music:suno_submit, the token of the worker that holds it
  fulfil,   \* what each worker is doing in _handle_web_music_generate
  hook,     \* what each hook is doing
  lost,     \* ids of generations that never reached the row, for MaxLost
  aborts,   \* attempts at a song that failed before they had settled it
  expiries  \* locks expired under their holder, for MaxExpiries

moneyVars == <<request, debit, refunds>>
songVars  == <<request, debit, refunds, task, gens, lock, fulfil, hook, lost, aborts, expiries>>
webVars   == <<vars, songVars>>

-------------------------------------------------------------------------------
(* WebMusicService.generate, one request for each song.                        *)
(* charged: debited, the charge not yet in _open_charges; tracked: it is;       *)
(* inserted: the task row is there; enqueued: the job row is there, the call    *)
(* that made it has not returned; linked: the debit has the task's reference.   *)
Request(s, from, to) == request[s] = from /\ request' = [request EXCEPT ![s] = to]

Charge(s) ==
  /\ Request(s, "none", "charged")
  /\ debit' = [debit EXCEPT ![s] = "reservation"]
  /\ UNCHANGED <<vars, refunds, task, gens, lock, fulfil, hook, lost, aborts, expiries>>

Track(s) ==
  /\ Request(s, "charged", "tracked")
  /\ UNCHANGED <<vars, debit, refunds, task, gens, lock, fulfil, hook, lost, aborts, expiries>>

InsertTask(s) ==
  /\ Request(s, "tracked", "inserted")
  /\ task' = [task EXCEPT ![s].status = "PENDING"]
  /\ UNCHANGED <<vars, debit, refunds, gens, lock, fulfil, hook, lost, aborts, expiries>>

(* Mutant: the job is enqueued before the row is inserted. *)
EnqueueFirst(s) ==
  /\ Request(s, "tracked", "enqueued")
  /\ Enqueue(s)
  /\ UNCHANGED <<debit, refunds, task, gens, lock, fulfil, hook, lost, aborts, expiries>>

EnqueueSong(s) ==
  /\ Request(s, "inserted", "enqueued")
  /\ Enqueue(s)
  /\ UNCHANGED <<debit, refunds, task, gens, lock, fulfil, hook, lost, aborts, expiries>>

(* _link_generation_debit_reference, by the API and by the worker. *)
LinkDebit(s) == debit' = [debit EXCEPT ![s] = "task"]

LinkRequest(s) ==
  /\ Request(s, "enqueued", "linked")
  /\ LinkDebit(s)
  /\ UNCHANGED <<vars, refunds, task, gens, lock, fulfil, hook, lost, aborts, expiries>>

(* Mutant: the worker looks for the debit under the reservation only. *)
ReservationOnly(s) == debit[s] = "reservation"

(* _refund_v3_music_by_reference: a debit under the reservation or the task. *)
DebitFound(s) == debit[s] # "none"

RefundByReference(s) ==
  refunds' = [refunds EXCEPT ![s] = @ \cup (IF DebitFound(s) THEN {"debit"} ELSE {})]

(* The request fails or is cancelled before its job call has returned:          *)
(* release_reservation refunds the open charge, else the debit it finds.        *)
RequestFails(s) ==
  /\ request[s] \in {"charged", "tracked", "inserted", "enqueued"}
  /\ request' = [request EXCEPT ![s] = "over"]
  /\ IF request[s] = "charged" THEN RefundByReference(s)
     ELSE refunds' = [refunds EXCEPT ![s] = @ \cup {"reservation"}]
  /\ UNCHANGED <<vars, debit, task, gens, lock, fulfil, hook, lost, aborts, expiries>>

(* Nothing is refunded: the API process dies, or the refund itself fails, which *)
(* release_reservation logs.                                                   *)
RequestDies(s) ==
  /\ request[s] \in {"charged", "tracked", "inserted", "enqueued"}
  /\ crashes < MaxCrashes /\ crashes' = crashes + 1
  /\ request' = [request EXCEPT ![s] = "over"]
  /\ UNCHANGED <<jobs, worker, intent, overruns, debit, refunds, task, gens, lock, fulfil,
                 hook, lost, aborts, expiries>>

-------------------------------------------------------------------------------
(* The worker's loop around its handler. *)
Begun == [at |-> "lock", gen |-> 0, raised |-> FALSE]
Rests == [at |-> "rest", gen |-> 0, raised |-> FALSE]

SongOf(w)    == jobs[worker[w].id].kind
Doing(w, st) == At(w, "handling") /\ fulfil[w].at = st
Goes(w, st)  == fulfil' = [fulfil EXCEPT ![w].at = st]
Ends(w, st, raised) ==
  fulfil' = [fulfil EXCEPT ![w] = [at |-> st, gen |-> 0, raised |-> raised]]

StartWorker(w) == Start(w) /\ UNCHANGED songVars
Sweep(w)       == SweepStale(w) /\ UNCHANGED songVars

ClaimSong(w) ==
  /\ Claim(w)
  /\ fulfil' = [fulfil EXCEPT ![w] = Begun]
  /\ UNCHANGED <<moneyVars, task, gens, lock, hook, lost, aborts, expiries>>

(* The lock of a dead worker stays until it expires. *)
WorkerDies(w) ==
  /\ Crash(w)
  /\ fulfil' = [fulfil EXCEPT ![w] = Rests]
  /\ lock' = IF lock = w THEN "orphan" ELSE lock
  /\ UNCHANGED <<moneyVars, task, gens, hook, lost, aborts, expiries>>

-------------------------------------------------------------------------------
(* Mutant: SET without NX. *)
AlwaysFree == TRUE

LockFree == lock = NoWorker

(* An attempt fails before its song is refunded or its row names a generation. *)
Aborts(w) == aborts' = [aborts EXCEPT ![SongOf(w)] = @ + 1]

(* _acquire_web_suno_lock: SET NX with a TTL.  Redis may not answer, and the   *)
(* wait for the lock is limited; either error reaches the loop without passing *)
(* fulfill_queued_generate, and a SET whose answer is lost leaves the lock to  *)
(* its TTL.                                                                    *)
TakeLock(w) ==
  /\ Doing(w, "lock") /\ LockFree
  /\ lock' = w
  /\ Goes(w, "read")
  /\ UNCHANGED <<vars, moneyVars, task, gens, hook, lost, aborts, expiries>>

LockFails(w) ==
  /\ Doing(w, "lock")
  /\ UNCHANGED lock \/ (LockFree /\ lock' = "orphan")
  /\ Aborts(w)
  /\ Ends(w, "end", TRUE)
  /\ UNCHANGED <<vars, moneyVars, task, gens, hook, lost, expiries>>

(* Mutant: the row is not asked whether Suno already has the song. *)
NeverSubmitted(s) == FALSE

Submitted(s) == task[s].external # 0

(* fulfill_queued_generate.  What a call of it throws goes through the release  *)
(* of the lock to the loop, which retries or fails the job; a statement that   *)
(* was executed and then threw is its step here, followed by the next throw.   *)
Submitting(w) == fulfil[w].at \in {"read", "submit", "refund", "fail", "save", "link"}

ReadTask(w) ==
  /\ Doing(w, "read")
  /\ IF Submitted(SongOf(w)) THEN Ends(w, "unlock", FALSE) ELSE Goes(w, "submit")
  /\ UNCHANGED <<vars, moneyVars, task, gens, lock, hook, lost, aborts, expiries>>

(* The row is not read, or the credits are not given back: a wallet at its     *)
(* maximum refuses them.                                                       *)
CallThrows(w) ==
  /\ Doing(w, "read") \/ Doing(w, "refund")
  /\ Aborts(w)
  /\ Ends(w, "unlock", TRUE)
  /\ UNCHANGED <<vars, moneyVars, task, gens, lock, hook, lost, expiries>>

SunoAccepts(w) ==
  LET s == SongOf(w)
  IN  /\ Doing(w, "submit")
      /\ gens' = [gens EXCEPT ![s] = Append(@, "running")]
      /\ fulfil' = [fulfil EXCEPT ![w] = [at |-> "save", gen |-> Len(gens[s]) + 1,
                                                raised |-> FALSE]]
      /\ UNCHANGED <<vars, moneyVars, task, lock, hook, lost, aborts, expiries>>

SunoRefuses(w) ==
  /\ Doing(w, "submit") /\ Goes(w, "refund")
  /\ UNCHANGED <<vars, moneyVars, task, gens, lock, hook, lost, aborts, expiries>>

(* Suno starts the song, but its answer times out or cannot be read. *)
AnswerLost(w) ==
  LET s == SongOf(w)
  IN  /\ Doing(w, "submit") /\ lost[s] < MaxLost
      /\ lost' = [lost EXCEPT ![s] = @ + 1]
      /\ gens' = [gens EXCEPT ![s] = Append(@, "running")]
      /\ Goes(w, "refund")
      /\ UNCHANGED <<vars, moneyVars, task, lock, hook, aborts, expiries>>

(* _release_daily_slot in a worker: it has no open charge. *)
RefundSong(w) ==
  /\ Doing(w, "refund")
  /\ RefundByReference(SongOf(w))
  /\ Goes(w, "fail")
  /\ UNCHANGED <<vars, request, debit, task, gens, lock, hook, lost, aborts, expiries>>

(* The handler raises whether or not the UPDATE succeeds. *)
FailTask(w) ==
  /\ Doing(w, "fail")
  /\ task' = [task EXCEPT ![SongOf(w)].status = "FAILED"] \/ UNCHANGED task
  /\ Ends(w, "unlock", TRUE)
  /\ UNCHANGED <<vars, moneyVars, gens, lock, hook, lost, aborts, expiries>>

SaveTask(w) ==
  /\ Doing(w, "save")
  /\ task' = [task EXCEPT ![SongOf(w)] = [status |-> "PENDING", external |-> fulfil[w].gen]]
  /\ Goes(w, "link")
  /\ UNCHANGED <<vars, moneyVars, gens, lock, hook, lost, aborts, expiries>>

(* The UPDATE throws: Suno makes a song whose id nobody keeps. *)
SaveThrows(w) ==
  LET s == SongOf(w)
  IN  /\ Doing(w, "save") /\ lost[s] < MaxLost
      /\ lost' = [lost EXCEPT ![s] = @ + 1]
      /\ Aborts(w)
      /\ Ends(w, "unlock", TRUE)
      /\ UNCHANGED <<vars, moneyVars, task, gens, lock, hook, expiries>>

LinkSong(w) ==
  /\ Doing(w, "link")
  /\ \/ LinkDebit(SongOf(w)) /\ Ends(w, "unlock", FALSE)
     \/ UNCHANGED debit /\ Ends(w, "unlock", TRUE)
  /\ UNCHANGED <<vars, request, refunds, task, gens, lock, hook, lost, aborts, expiries>>

(* _release_web_suno_lock: GET, and DEL if the token is its own. *)
ReadLock(w) ==
  /\ Doing(w, "unlock")
  /\ Goes(w, IF lock = w THEN "delete" ELSE "end")
  /\ UNCHANGED <<vars, moneyVars, task, gens, lock, hook, lost, aborts, expiries>>

DeleteLock(w) ==
  /\ Doing(w, "delete")
  /\ lock' = NoWorker
  /\ Goes(w, "end")
  /\ UNCHANGED <<vars, moneyVars, task, gens, hook, lost, aborts, expiries>>

(* Either throws: its lock stays until it expires. *)
UnlockThrows(w) ==
  /\ Doing(w, "unlock") \/ Doing(w, "delete")
  /\ lock' = IF lock = w THEN "orphan" ELSE lock
  /\ Ends(w, "end", TRUE)
  /\ UNCHANGED <<vars, moneyVars, task, gens, hook, lost, aborts, expiries>>

(* The handler returns to the loop or raises, and the loop marks the job. *)
LeaveHandler(w) ==
  /\ Doing(w, "end")
  /\ IF fulfil[w].raised THEN HandlerRaises(w) ELSE HandlerReturns(w)
  /\ fulfil' = [fulfil EXCEPT ![w] = Rests]
  /\ UNCHANGED <<moneyVars, task, gens, lock, hook, lost, aborts, expiries>>

MarkJob(w) == Mark(w) /\ UNCHANGED songVars

(* The lock's TTL runs out, under a holder at work only MaxExpiries times. *)
LockExpires ==
  /\ ~LockFree
  /\ lock # "orphan" => expiries < MaxExpiries
  /\ expiries' = IF lock = "orphan" THEN expiries ELSE expiries + 1
  /\ lock' = NoWorker
  /\ UNCHANGED <<vars, moneyVars, task, gens, fulfil, hook, lost, aborts>>

-------------------------------------------------------------------------------
(* Suno ends a generation. *)
SunoEnds(s, g) ==
  /\ gens[s][g] = "running"
  /\ \E outcome \in {"SUCCESS", "FAILED"} : gens' = [gens EXCEPT ![s][g] = outcome]
  /\ UNCHANGED <<vars, moneyVars, task, lock, fulfil, hook, lost, aborts, expiries>>

Off == [at |-> "off", song |-> NoSong, outcome |-> "FAILED", prior |-> "none", poll |-> FALSE]

(* Mutant: the song of a callback is found without its external_task_id. *)
KnownSong(s, g) == task[s].status # "none"

(* find_by_external_id *)
Recognised(s, g) == task[s].external = g

(* What a callback will write: of a success in which neither it nor a poll of   *)
(* Suno finds an audio URL it makes PENDING, "keeping pending for reconcile".  *)
Persisted(outcome) == IF outcome = "SUCCESS" THEN {"SUCCESS", "PENDING"} ELSE {outcome}

(* suno_callback looks the row up; a generation no row names is discarded, and *)
(* so is a failure of a song that is a success.                                *)
CallbackRead(h, s, g) ==
  /\ hook[h] = Off
  /\ gens[s][g] # "running"
  /\ Recognised(s, g)
  /\ ~(gens[s][g] = "FAILED" /\ task[s].status = "SUCCESS")
  /\ \E persist \in Persisted(gens[s][g]) :
       hook' = [hook EXCEPT ![h] = [at |-> "update", song |-> s, outcome |-> persist,
                                    prior |-> task[s].status, poll |-> FALSE]]
  /\ UNCHANGED <<vars, moneyVars, task, gens, lock, fulfil, lost, aborts, expiries>>

(* _refresh_pending_from_suno: a pending row with an external id is polled. *)
PollRead(h, s) ==
  /\ hook[h] = Off
  /\ task[s].status = "PENDING" /\ Submitted(s)
  /\ gens[s][task[s].external] # "running"
  /\ hook' = [hook EXCEPT ![h] = [at |-> "update", song |-> s,
                                  outcome |-> gens[s][task[s].external],
                                  prior |-> "PENDING", poll |-> TRUE]]
  /\ UNCHANGED <<vars, moneyVars, task, gens, lock, fulfil, lost, aborts, expiries>>

(* Both write the status they have, by the row's id and over whatever status it *)
(* has by now; a callback that found the row not failed goes on to refund a    *)
(* user without a live pack.                                                   *)
WriteStatus(h) ==
  LET refund == /\ hook[h].outcome = "FAILED" /\ ~hook[h].poll
                /\ hook[h].prior # "FAILED" /\ ~HasPack
  IN  /\ hook[h].at = "update"
      /\ task' = [task EXCEPT ![hook[h].song].status = hook[h].outcome]
      /\ hook' = IF refund THEN [hook EXCEPT ![h].at = "refund"]
                 ELSE [hook EXCEPT ![h] = Off]
      /\ UNCHANGED <<vars, moneyVars, gens, lock, fulfil, lost, aborts, expiries>>

(* _refund_web_music_generation_on_failure, under a key of its own. *)
CallbackRefund(h) ==
  /\ hook[h].at = "refund"
  /\ refunds' = [refunds EXCEPT ![hook[h].song] = @ \cup {"task"}]
  /\ hook' = [hook EXCEPT ![h] = Off]
  /\ UNCHANGED <<vars, request, debit, task, gens, lock, fulfil, lost, aborts, expiries>>

(* The process dies, or a call throws (of a refund that fails it is swallowed). *)
HookDies(h) ==
  /\ hook[h] # Off
  /\ crashes < MaxCrashes /\ crashes' = crashes + 1
  /\ hook' = [hook EXCEPT ![h] = Off]
  /\ UNCHANGED <<jobs, worker, intent, overruns, moneyVars, task, gens, lock, fulfil,
                 lost, aborts, expiries>>

-------------------------------------------------------------------------------
WebInit ==
  /\ Init
  /\ request = [s \in Songs |-> "none"]
  /\ debit   = [s \in Songs |-> "none"]
  /\ refunds = [s \in Songs |-> {}]
  /\ task    = [s \in Songs |-> [status |-> "none", external |-> 0]]
  /\ gens    = [s \in Songs |-> << >>]
  /\ lock    = NoWorker
  /\ fulfil  = [w \in Workers |-> Rests]
  /\ hook    = [h \in Hooks |-> Off]
  /\ lost    = [s \in Songs |-> 0]
  /\ aborts  = [s \in Songs |-> 0]
  /\ expiries = 0

Create(s) ==
  \/ Charge(s) \/ Track(s) \/ InsertTask(s) \/ EnqueueSong(s) \/ LinkRequest(s)
  \/ RequestFails(s) \/ RequestDies(s)

Submit(w) ==
  \/ TakeLock(w) \/ LockFails(w) \/ ReadTask(w) \/ CallThrows(w)
  \/ SunoAccepts(w) \/ SunoRefuses(w) \/ AnswerLost(w)
  \/ RefundSong(w) \/ FailTask(w) \/ SaveTask(w) \/ SaveThrows(w) \/ LinkSong(w)
  \/ ReadLock(w) \/ DeleteLock(w) \/ UnlockThrows(w) \/ LeaveHandler(w)

WebNext ==
  \/ \E s \in Songs : Create(s)
  \/ \E w \in Workers :
       StartWorker(w) \/ Sweep(w) \/ ClaimSong(w) \/ Submit(w) \/ MarkJob(w) \/ WorkerDies(w)
  \/ \E id \in Ids : (BecomeDue(id) \/ LockAges(id)) /\ UNCHANGED songVars
  \/ LockExpires
  \/ \E s \in Songs : \E g \in DOMAIN gens[s] :
       SunoEnds(s, g) \/ \E h \in Hooks : CallbackRead(h, s, g)
  \/ \E h \in Hooks :
       (\E s \in Songs : PollRead(h, s)) \/ WriteStatus(h) \/ CallbackRefund(h) \/ HookDies(h)

WebSpec == WebInit /\ [][WebNext]_webVars
-------------------------------------------------------------------------------
Outcomes == {"SUCCESS", "FAILED"}

(* The types of the songs, and what ties them to the queue: a job is there     *)
(* only for a song that was charged and has a row, and a row names only        *)
(* generations Suno has accepted.                                              *)
WebTypeOK ==
  /\ request \in [Songs -> {"none", "charged", "tracked", "inserted", "enqueued", "linked", "over"}]
  /\ debit \in [Songs -> {"none", "reservation", "task"}]
  /\ refunds \in [Songs -> SUBSET {"reservation", "debit", "task"}]
  /\ task \in [Songs -> [status : Outcomes \cup {"none", "PENDING"}, external : Nat]]
  /\ gens \in [Songs -> Seq(Outcomes \cup {"running"})]
  /\ lock \in Workers \cup {NoWorker, "orphan"}
  /\ fulfil \in [Workers -> [at : {"rest", "lock", "read", "submit", "refund", "fail", "save",
                                   "link", "unlock", "delete", "end"},
                             gen : Nat, raised : BOOLEAN]]
  /\ hook \in [Hooks -> [at : {"off", "update", "refund"}, song : Songs \cup {NoSong},
                         outcome : Outcomes \cup {"PENDING"},
                         prior : Outcomes \cup {"none", "PENDING"},
                         poll : BOOLEAN]]
  /\ lost \in [Songs -> 0..MaxLost] /\ aborts \in [Songs -> Nat] /\ expiries \in 0..MaxExpiries
  /\ \A id \in Ids : debit[jobs[id].kind] # "none" /\ task[jobs[id].kind].status # "none"
  /\ \A s \in Songs : task[s].external <= Len(gens[s])

JobsOf(s) == {id \in Ids : jobs[id].kind = s}
Reclaimed(s) == \E id \in JobsOf(s) : jobs[id].reclaims > 0

(* One web song at a time is sent to Suno, by all workers together.  A lock    *)
(* that expires under its holder lets in one more, also when the holder is at   *)
(* the DEL of its release and deletes the lock of the next worker.              *)
OneSubmitAtATime == Cardinality({w \in Workers : Submitting(w)}) <= 1 + expiries

(* Suno generates a song once, although its job is retried and may be run      *)
(* again after it was done: the row's external id stops a second submit.  A    *)
(* further generation costs an id that never reached the row, because Suno's   *)
(* answer got lost or the UPDATE that stores it threw, or a reclaimed lock.    *)
OneGenerationUnlessLost ==
  \A s \in Songs : ~Reclaimed(s) => Len(gens[s]) <= 1 + lost[s]

(* One attempt that runs its course settles a song: a job that failed without  *)
(* a generation the row names, and without the credits given back, had every   *)
(* attempt reclaimed or aborted by a lock it did not get, a row not read, a    *)
(* refund that threw or an id not stored.  The debit's reference is rewritten  *)
(* while the worker looks for it.                                              *)
FailedJobRefunded ==
  \A s \in Songs : \A id \in JobsOf(s) :
    jobs[id].status = "failed" /\ ~Submitted(s) /\ refunds[s] = {}
    => jobs[id].attempts <= aborts[s] + jobs[id].reclaims

(* A callback may come before the worker has stored the id of its generation,  *)
(* late or again, and a poll may race it: a row that names a generation and    *)
(* has a final status has the one of that generation.                          *)
OutcomeIsGenerated ==
  \A s \in Songs :
    task[s].status = "SUCCESS" \/ (task[s].status = "FAILED" /\ Submitted(s))
    => Reclaimed(s) \/ (Submitted(s) /\ gens[s][task[s].external] = task[s].status)

(* A finished song is not lost again to a late mark, poll or retry of its job, *)
(* unless the job's lock was reclaimed; the one thing that takes it back, to   *)
(* PENDING and never to FAILED, is a callback of its own generation that came  *)
(* without an audio URL.                                                       *)
SuccessStays ==
  [][\A s \in Songs :
       task[s].status = "SUCCESS" /\ ~Reclaimed(s)
       => \/ task'[s] = task[s]
          \/ /\ task'[s] = [task[s] EXCEPT !.status = "PENDING"]
             /\ \E h \in Hooks : /\ hook[h].at = "update" /\ hook[h].song = s
                                  /\ hook[h].outcome = "PENDING"]_webVars

-------------------------------------------------------------------------------
(* What the worker's docstring says of its refund: a song is refunded if Suno   *)
(* never accepts it, so a song that was made keeps its debit.                  *)
NoFreeSong == \A s \in Songs : task[s].status = "SUCCESS" => "debit" \notin refunds[s]

(* What the callback's docstring says: the credits of a generation that fails  *)
(* at Suno come back.                                                          *)
FailureRefunded ==
  \A s \in Songs :
    task[s].status = "FAILED" /\ Submitted(s)
    => refunds[s] # {} \/ \E h \in Hooks : hook[h].at = "refund" /\ hook[h].song = s
===============================================================================
