------------------------------ MODULE ImageDrain ------------------------------
(***************************************************************************)
(* The image jobs of one batch (table image_jobs), drained by jobs of the  *)
(* durable queue: an API handler creates or resets the rows and enqueues a *)
(* run_image_jobs job unless one is active; the worker that claims that job *)
(* runs the pending images round by round until two rounds in a row have   *)
(* generated nothing.  Each database statement is a step of its own; the   *)
(* images of one round run side by side (asyncio.gather).  A batch has fewer *)
(* images than a round takes (50) and fewer rounds than a drain runs (80);   *)
(* the credits an image costs are left out.                                  *)
(***************************************************************************)
EXTENDS JobQueue

CONSTANTS
  Images,         \* the image jobs of the batch
  Source,         \* the background each thumbnail is made from, or NoImage
  NoImage,
  Drain,          \* the kind of the batch's run_image_jobs jobs
  MaxImageTries,  \* image_job_max_attempts
  MaxResets       \* bound: retry requests

ASSUME DrainAssumption ==
  /\ NoImage \notin Images /\ Source \in [Images -> Images \cup {NoImage}]
  /\ Drain \in Deduped  \* the jobs of other kinds leave the images alone
  /\ MaxImageTries \in Nat \ {0} /\ MaxResets \in Nat

VARIABLES
  image,   \* the rows of image_jobs: status and attempt_count
  asking,  \* API handlers that have written image rows and will enqueue a drain
  drain,   \* where each worker is in run_image_jobs_until_empty
  excused, \* history: the images left behind, see EveryImageEnds
  resets   \* retry requests so far, for MaxResets

imageVars == <<image, asking, drain, excused, resets>>
allVars   == <<jobs, worker, intent, overruns, crashes,
               image, asking, drain, excused, resets>>

-------------------------------------------------------------------------------
(* "blocked" is a failed row whose error requeue_auto_retry_failed_jobs skips: *)
(* quota, credits or fail budget exhausted.                                    *)
Ended == {"success", "failed", "blocked"}

InStatus(statuses) == {i \in Images : image[i].status \in statuses}
Pending == InStatus({"pending"})

(* hold: the images of the round still running, with the attempt_count each  *)
(* was claimed with; ran: one of the round was generated; dry: idle_rounds.  *)
NewDrain == [stage |-> "requeue", hold |-> << >>, ran |-> FALSE, dry |-> 0]

InStage(w, stage) == At(w, "handling") /\ drain[w].stage = stage
Held(w)           == DOMAIN drain[w].hold

-------------------------------------------------------------------------------
(* A row may be inserted for every API handler on its way to the queue. *)
RoomToAsk == Len(jobs) + Cardinality({c \in Callers : intent[c] # NoIntent})
             + Cardinality(asking) < MaxJobs

Free(c) == c \notin asking /\ intent[c] = NoIntent

(* create_image_jobs: the rows of the batch, before the drain is enqueued. *)
Create(c) ==
  /\ Free(c) /\ RoomToAsk /\ InStatus({"none"}) = Images
  /\ image' = [i \in Images |-> [status |-> "pending", tries |-> 0]]
  /\ asking' = asking \cup {c}
  /\ UNCHANGED <<jobs, worker, intent, overruns, crashes, drain, excused, resets>>

ToRetry(row) == row.status = "pending" /\ row.tries > 0

(* reset_image_jobs of one job: failed, running, or pending with an error. *)
Resettable(row) == \/ row.status \in {"failed", "blocked", "running"}
                   \/ ToRetry(row)

Reset(c, i) ==
  /\ Free(c) /\ RoomToAsk /\ resets < MaxResets /\ Resettable(image[i])
  /\ image' = [image EXCEPT ![i] = [status |-> "pending", tries |-> 0]]
  /\ asking' = asking \cup {c}
  /\ excused' = excused \ {i}
  /\ resets' = resets + 1
  /\ UNCHANGED <<jobs, worker, intent, overruns, crashes, drain>>

(* _schedule_image_jobs_run finds no active drain ... *)
FindNoDrain(c) ==
  /\ c \in asking /\ FindActive(c, Drain)
  /\ asking' = asking \ {c}
  /\ UNCHANGED <<image, drain, excused, resets>>

(* Whether an active row is sure to come to claim_image_jobs_for_run again: a *)
(* worker is in the loop with it, and not in a round that may be its last, or *)
(* no worker is, and the row is yet to be claimed.                            *)
LooksAgain(w) == \/ InStage(w, "requeue") \/ InStage(w, "claim")
                 \/ InStage(w, "run") /\ (drain[w].ran \/ drain[w].dry = 0)

AtWork(id)    == {w \in WorkersOn(id) : ~At(w, "hung")}
WillClaim(id) == AtWork(id) = {} \/ \E w \in AtWork(id) : LooksAgain(w)

ActiveDrains == {id \in Ids : Active(jobs[id])}

(* ... or finds one, and leaves the images to it, though it may have looked *)
(* for images for the last time.                                            *)
FindDrain(c) ==
  /\ c \in asking /\ ActiveDrains # {}
  /\ asking' = asking \ {c}
  /\ excused' = IF \E id \in ActiveDrains : WillClaim(id) THEN excused
                ELSE excused \cup Pending
  /\ UNCHANGED <<jobs, worker, intent, overruns, crashes, image, drain, resets>>

(* The exception is swallowed and logged, or the API dies: no drain. *)
NotEnqueued(c) ==
  /\ c \in asking /\ crashes < MaxCrashes
  /\ asking' = asking \ {c}
  /\ excused' = excused \cup Pending
  /\ crashes' = crashes + 1
  /\ UNCHANGED <<jobs, worker, intent, overruns, image, drain, resets>>

-------------------------------------------------------------------------------
(* requeue_auto_retry_failed_jobs *)
Retryable(row) == row.status = "failed" /\ row.tries < MaxImageTries

RequeueFailed(w) ==
  /\ InStage(w, "requeue")
  /\ image' = [i \in Images |-> IF Retryable(image[i]) THEN [image[i] EXCEPT !.status = "pending"]
                                ELSE image[i]]
  /\ drain' = [drain EXCEPT ![w].stage = "claim"]
  /\ UNCHANGED <<jobs, worker, intent, overruns, crashes, asking, excused, resets>>

(* Mutant: one round without a generated image ends the drain. *)
OneDryRound(dry) == dry >= 1

(* idle_rounds >= 2 *)
GivesUp(dry) == dry >= 2

(* The round of worker w is over: on to the next, or out of the loop.  The     *)
(* images given back for another try are left behind by a drain with two       *)
(* rounds in a row that generated nothing, and so are thumbnails that could    *)
(* only now be claimed, to fail with their background.                         *)
LeftBy(rows) ==
  {i \in Images : \/ ToRetry(rows[i])
                  \/ /\ rows[i].status = "pending" /\ Source[i] # NoImage
                     /\ rows[Source[i]].status \in {"failed", "blocked"}}

EndRound(w, ran, rows) ==
  LET dry == IF ran THEN 0 ELSE drain[w].dry + 1
      out == GivesUp(dry)
  IN  /\ drain' = [drain EXCEPT ![w] =
           [NewDrain EXCEPT !.stage = IF out THEN "over" ELSE "requeue",
                            !.dry = IF out THEN 0 ELSE dry]]
      /\ excused' = IF dry < 2 THEN excused
                    ELSE excused \cup LeftBy(rows)

(* Mutant: a thumbnail is claimed only when its background was generated. *)
SourceGenerated(i) == Source[i] # NoImage => image[Source[i]].status = "success"

(* source_job_id IS NULL OR the source is success or failed *)
SourceEnded(i) == Source[i] # NoImage => image[Source[i]].status \in Ended

Claimables == {i \in Pending : SourceEnded(i)}

(* claim_image_jobs_for_run *)
ClaimImages(w) ==
  /\ InStage(w, "claim")
  /\ IF Claimables = {}
     THEN EndRound(w, FALSE, image) /\ UNCHANGED image
     ELSE /\ image' = [i \in Images |-> IF i \in Claimables
                                        THEN [image[i] EXCEPT !.status = "running"] ELSE image[i]]
          /\ drain' = [drain EXCEPT ![w].stage = "run",
                                    ![w].hold = [i \in Claimables |-> image[i].tries]]
          /\ excused' = excused \ Claimables
  /\ UNCHANGED <<jobs, worker, intent, overruns, crashes, asking, resets>>

(* What becomes of image i, a member of the round, in _run_one_job: generated; *)
(* back to pending because its source is to be made again; failed for now; or  *)
(* failed for good.  A thumbnail whose background has failed fails with it.     *)
Outcomes(i, tries) ==
  LET row(status, n) == [status |-> status, tries |-> n]
      source == IF Source[i] = NoImage THEN "success" ELSE image[Source[i]].status
      failed == row("failed", tries + 1)
  IN  CASE source \in {"failed", "blocked"} -> {failed}
        [] source \in {"pending", "running"} -> {row("pending", tries)}
        [] OTHER -> {row("success", tries), failed, row("blocked", tries + 1),
                     IF tries + 1 < MaxImageTries THEN row("pending", tries + 1) ELSE failed}

(* update_image_job_status, whatever has become of the row; the last image of *)
(* a round ends it.                                                            *)
Finish(w, i, row) ==
  LET ran  == drain[w].ran \/ row.status = "success"
      rest == Held(w) \ {i}
  IN  /\ image' = [image EXCEPT ![i] = row]
      /\ IF rest = {} THEN EndRound(w, ran, image')
         ELSE /\ drain' = [drain EXCEPT ![w].ran = ran,
                                        ![w].hold = [j \in rest |-> drain[w].hold[j]]]
              /\ UNCHANGED excused

RunImage(w, i) ==
  /\ InStage(w, "run") /\ i \in Held(w)
  /\ \E row \in Outcomes(i, drain[w].hold[i]) : Finish(w, i, row)
  /\ UNCHANGED <<jobs, worker, intent, overruns, crashes, asking, resets>>

(* A statement of run_pending_jobs raises: the drain swallows it and is over. *)
CutShort(w) ==
  /\ InStage(w, "requeue") \/ InStage(w, "claim")
  /\ crashes < MaxCrashes /\ crashes' = crashes + 1
  /\ drain' = [drain EXCEPT ![w] = [NewDrain EXCEPT !.stage = "over"]]
  /\ excused' = excused \cup Pending
  /\ UNCHANGED <<jobs, worker, intent, overruns, image, asking, resets>>

-------------------------------------------------------------------------------
(* The worker's side, from JobQueue: a claimed job starts a drain of its own; *)
(* the handler of a drain returns when the drain is over and raises nothing;  *)
(* a worker that dies or hangs keeps its images in status running, and leaves *)
(* the pending ones if the job is marked by another (its lock was reclaimed).  *)
ClaimJob(w) ==
  /\ Claim(w) /\ drain' = [drain EXCEPT ![w] = NewDrain]
  /\ UNCHANGED <<image, asking, excused, resets>>

Handle(w) ==
  /\ InStage(w, "over") /\ HandlerReturns(w)
  /\ UNCHANGED imageVars

MarkedByOther(w) == LET id == worker[w].id IN ~Active(jobs[id]) \/ AtWork(id) # {w}

Lose(w) ==
  /\ Crash(w) \/ HandlerHangs(w)
  /\ excused' = excused \cup Held(w)
                 \cup (IF At(w, "handling") /\ MarkedByOther(w) THEN Pending ELSE {})
  /\ drain' = [drain EXCEPT ![w] = NewDrain]
  /\ UNCHANGED <<image, asking, resets>>

DrainStep(w) == RequeueFailed(w) \/ ClaimImages(w) \/ \E i \in Images : RunImage(w, i)
Ask(c)       == FindNoDrain(c) \/ FindDrain(c)

DrainInit ==
  /\ Init
  /\ image = [i \in Images |-> [status |-> "none", tries |-> 0]]
  /\ asking = {} /\ excused = {} /\ resets = 0
  /\ drain = [w \in Workers |-> NewDrain]

DrainNext ==
  \/ \E c \in Callers :
       \/ Create(c) \/ Ask(c) \/ NotEnqueued(c)
       \/ \E i \in Images : Reset(c, i)
       \/ InsertAbsent(c) /\ UNCHANGED imageVars
  \/ \E w \in Workers :
       \/ DrainStep(w) \/ CutShort(w) \/ ClaimJob(w) \/ Handle(w) \/ Lose(w)
       \/ (Start(w) \/ SweepStale(w) \/ Mark(w)) /\ UNCHANGED imageVars
  \/ \E id \in Ids : (BecomeDue(id) \/ LockAges(id)) /\ UNCHANGED imageVars

DrainSpec == DrainInit /\ [][DrainNext]_allVars

(* As in JobQueue, with the steps of one worker's loop under one fairness: a  *)
(* worker that is up and not hung goes on, and an API handler enqueues.       *)
DrainFairness ==
  /\ \A w \in Workers :
       /\ WF_allVars(\/ DrainStep(w) \/ ClaimJob(w) \/ Handle(w)
                     \/ (Start(w) \/ Mark(w)) /\ UNCHANGED imageVars)
       /\ WF_allVars(SweepStale(w) /\ UNCHANGED imageVars)
  /\ \A c \in Callers : WF_allVars(Ask(c) \/ (InsertAbsent(c) /\ UNCHANGED imageVars))
  /\ \A id \in 1..MaxJobs :
       WF_allVars(id \in Ids /\ (BecomeDue(id) \/ LockAges(id)) /\ UNCHANGED imageVars)

DrainFairSpec == DrainSpec /\ DrainFairness
-------------------------------------------------------------------------------
(* run_image_jobs_until_empty empties the batch: every image is generated or   *)
(* fails for good, whichever drains run, overlap, die or are run again, save   *)
(* the images that are left behind, by a drain that gave up after two rounds   *)
(* without a generated image, by a drain already past its last look that       *)
(* enqueue_if_absent took for an active one, or by a fault; and their          *)
(* thumbnails.                                                                 *)
Left(i) == i \in excused \/ Source[i] \in excused

EveryImageEnds == <>[](\A i \in Images : image[i].status \in Ended \cup {"none"} \/ Left(i))
===============================================================================
