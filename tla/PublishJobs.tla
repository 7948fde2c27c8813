------------------------------ MODULE PublishJobs ------------------------------
(***************************************************************************)
(* One upload to YouTube (a row of youtube_upload_jobs) through the        *)
(* publishing service Post for Me: its completion charges the wallet and   *)
(* creates a post, a webhook wakes a worker that fetches the result, and a *)
(* sweep refunds what never became a video.  Requests, the worker and the  *)
(* sweep read the row, await other calls and then write it by its id       *)
(* alone.  Of the wallet only the debits and refunds of each reference are *)
(* kept, and whether it has room to take a refund (CreditLifecycle has the *)
(* rest).                                                                  *)
(***************************************************************************)
EXTENDS Integers, FiniteSets

CONSTANTS
  Procs,        \* API requests and workers at a time
  MaxRequests,  \* bound: requests of the client that are not turned away
  MaxTroubles   \* bound: deaths of a process and refunds lost to an outage

ASSUME PublishAssumption ==
  IsFiniteSet(Procs) /\ MaxRequests \in Nat \ {0} /\ MaxTroubles \in Nat

VARIABLES
  row,        \* the job
  post,       \* what became of the post the row names, "none" without one
  told,       \* the event with its result has come
  wake,       \* the user's active sync_publish_results job, "none" without one
  handler,    \* what each process is at, with what it read of the row
  debits,     \* how often each reference was charged
  refunds,    \* the references that were refunded
  full,       \* a refund would take the wallet over its maximum
  forfeited,  \* history: references of charges the code has lost sight of
  requests,   \* for MaxRequests
  troubles    \* for MaxTroubles

outside == <<post, told, wake>>
money   == <<debits, refunds, full, forfeited>>
bounds  == <<requests, troubles>>
vars    == <<row, post, told, wake, handler, debits, refunds, full, forfeited, requests, troubles>>

-------------------------------------------------------------------------------
Waiting  == {"pending_upload", "pending_payment"}
InFlight == {"queued", "processing"}
Ended    == {"success", "failed", "cancelled", "pending_payment"}

(* charged, ref : credits_charged_units > 0, and the attempt credit_ref_id names *)
(* tries        : attempt_count;  video : youtube_video_id is set                *)
(* results      : what its publish_job_results say                               *)
(* old          : updated_at is more than 45 minutes ago                         *)
NewRow ==
  [status |-> "pending_upload", charged |-> FALSE, ref |-> 0, tries |-> 0,
   video |-> FALSE, results |-> {}, old |-> FALSE]

(* A retry makes the next attempt. *)
Refs == 0..MaxRequests

Idle == [op |-> "none", at |-> "idle", try |-> 0, ref |-> 0, paid |-> FALSE]

On(p, stage)   == handler[p].at = stage
Turn(p, stage) == handler' = [handler EXCEPT ![p].at = stage]
Done(p)        == handler' = [handler EXCEPT ![p] = Idle]
Free(p)        == handler[p] = Idle
Ask(p)         == Free(p) /\ requests < MaxRequests /\ requests' = requests + 1

(* A process goes on to its next call, with what it has read of the row. *)
Go(p, op, stage) ==
  handler' = [handler EXCEPT ![p] =
    [op |-> op, at |-> stage, try |-> row.tries, ref |-> row.ref, paid |-> row.charged]]

Write(new)        == row' = [new EXCEPT !.old = FALSE]
SetStatus(status) == Write([row EXCEPT !.status = status])

(* What the row still holds of a charge, when it is about to be overwritten. *)
Unreturned == IF row.charged THEN {row.ref} \ refunds ELSE {}

(* A wake-up for a post that the row names no longer. *)
LeavePost == wake' = IF wake = "current" THEN post ELSE wake

-------------------------------------------------------------------------------
(* complete_job.  A job that waits for its upload or its payment is charged, *)
(* unless its row says that it is; any other has nothing to do here.  Nothing  *)
(* keeps a second request from completing the same attempt: the wallet takes  *)
(* a reference as often as it is charged and gives it back once.               *)
Rivals(p) ==
  {q \in Procs \ {p} : handler[q].at \in {"charge", "mark"} /\ handler[q].try = row.tries}

Complete(p) ==
  /\ Ask(p)
  /\ row.status \in Waiting
  /\ \/ /\ Go(p, "complete", IF row.charged THEN "post" ELSE "charge")
        /\ forfeited' = IF row.charged \/ Rivals(p) = {} THEN forfeited ELSE forfeited \cup {row.tries}
     \/ Go(p, "fail", "settle") /\ UNCHANGED forfeited
  /\ UNCHANGED <<row, outside, debits, refunds, full, troubles>>

(* Mutant: every attempt is charged under the reference of the first. *)
SameRef(try) == 0

(* _charge_ref *)
ChargeRef(try) == try

Charge(p) ==
  LET r == ChargeRef(handler[p].try)
  IN  /\ On(p, "charge")
      /\ \/ /\ debits' = [debits EXCEPT ![r] = @ + 1]
            /\ full' = FALSE
            /\ handler' = [handler EXCEPT ![p].at = "mark", ![p].ref = r]
         \/ Turn(p, "unpaid") /\ UNCHANGED <<debits, full>>
      /\ UNCHANGED <<row, outside, refunds, forfeited, bounds>>

(* A late one brings back an attempt that was charged and refunded since. *)
Unpaid(p) ==
  /\ On(p, "unpaid")
  /\ SetStatus("pending_payment")
  /\ forfeited' = forfeited \cup ({row.tries} \cap {r \in Refs : debits[r] > 0})
  /\ Done(p)
  /\ UNCHANGED <<outside, debits, refunds, full, bounds>>

MarkCharged(p) ==
  /\ On(p, "mark")
  /\ Write([row EXCEPT !.status = "queued", !.charged = TRUE, !.ref = handler[p].ref])
  /\ forfeited' = forfeited \cup (Unreturned \ {handler[p].ref})
  /\ Turn(p, "reread")
  /\ UNCHANGED <<outside, debits, refunds, full, bounds>>

Reread(p) ==
  /\ On(p, "reread")
  /\ Go(p, "complete", "post")
  /\ UNCHANGED <<row, outside, money, bounds>>

(* create_social_post is accepted; or it is refused, or its answer is lost. *)
CreatePost(p) ==
  /\ On(p, "post")
  /\ Turn(p, "posted") \/ Turn(p, "refund")
  /\ UNCHANGED <<row, outside, money, bounds>>

(* mark_job_posted writes the attempt count that was read: an older one makes *)
(* the next retry charge under a reference already used.  The event of a post *)
(* published by now has found no job.                                          *)
MarkPosted(p) ==
  /\ On(p, "posted")
  /\ Write([row EXCEPT !.status = "processing", !.tries = handler[p].try])
  /\ post' \in {"open", "success", "failed"} /\ told' = (post' # "open")
  /\ LeavePost
  /\ forfeited' = forfeited \cup ((handler[p].try + 1)..row.tries)
  /\ Done(p)
  /\ UNCHANGED <<debits, refunds, full, bounds>>

-------------------------------------------------------------------------------
Target(p) == IF handler[p].op = "cancel" THEN "cancelled" ELSE "failed"

(* What a process does after _refund_job, or without it. *)
Leave(p) ==
  /\ Done(p)
  /\ wake' = IF handler[p].op = "sync" THEN "none" ELSE wake
  /\ UNCHANGED <<post, told>>

(* _refund_job: the wallet gives a reference back once, and refuses to while it *)
(* has no room for it, however often it is asked.  A refund that fails, for     *)
(* this or for an outage, is logged, and the row keeps its charge for the sweep.*)
Refund(p) ==
  /\ On(p, "refund")
  /\ \/ ~handler[p].paid /\ Turn(p, "settle") /\ UNCHANGED <<refunds, troubles>>
     \/ /\ handler[p].paid /\ (full => handler[p].ref \in refunds)
        /\ refunds' = refunds \cup {handler[p].ref}
        /\ Turn(p, "settle") /\ UNCHANGED troubles
     \/ /\ handler[p].paid
        /\ \/ full /\ handler[p].ref \notin refunds /\ UNCHANGED troubles
           \/ troubles < MaxTroubles /\ troubles' = troubles + 1
        /\ handler' = [handler EXCEPT ![p].at = "settle", ![p].paid = FALSE]
        /\ UNCHANGED refunds
  /\ UNCHANGED <<row, outside, debits, full, forfeited, requests>>

Settle(p) ==
  /\ On(p, "settle")
  /\ SetStatus(Target(p))
  /\ IF handler[p].paid /\ handler[p].op # "fail" THEN Turn(p, "zero") /\ UNCHANGED outside
     ELSE Leave(p)
  /\ UNCHANGED <<money, bounds>>

(* mark_job_refunded clears whatever charge the row holds by now. *)
Zero(p) ==
  /\ On(p, "zero")
  /\ Write([row EXCEPT !.status = Target(p), !.charged = FALSE])
  /\ forfeited' = forfeited \cup Unreturned
  /\ Leave(p)
  /\ UNCHANGED <<debits, refunds, full, bounds>>

-------------------------------------------------------------------------------
(* cancel_job refunds a charged job, and only marks any other. *)
Cancel(p) ==
  /\ Ask(p)
  /\ row.status # "success"
  /\ Go(p, "cancel", IF row.charged THEN "refund" ELSE "settle")
  /\ UNCHANGED <<row, outside, money, troubles>>

(* _reuse_or_retire_job, when the same video is sent again: an upload that was *)
(* not completed is retired, one that does not move is refunded.               *)
Supersede(p) ==
  /\ Ask(p)
  /\ \/ row.status = "pending_upload" /\ Go(p, "fail", "settle")
     \/ row.status \in InFlight /\ row.old /\ Go(p, "refund", "refund")
  /\ UNCHANGED <<row, outside, money, troubles>>

Retry(p) ==
  /\ Ask(p)
  /\ row.status \in {"failed", "cancelled", "pending_payment"}
  /\ Go(p, "retry", "reset")
  /\ UNCHANGED <<row, outside, money, troubles>>

(* reset_job_for_retry keeps the charge, if the row has one. *)
Reset(p) ==
  /\ On(p, "reset")
  /\ Write([row EXCEPT !.status = "pending_upload", !.tries = @ + 1])
  /\ post' = "none" /\ told' = FALSE /\ LeavePost
  /\ Done(p)
  /\ UNCHANGED <<money, bounds>>

(* expire_pending_uploads, one statement *)
Expire ==
  /\ row.status = "pending_upload"
  /\ SetStatus("failed")
  /\ UNCHANGED <<outside, handler, money, bounds>>

(* Mutant: only jobs that have ended are looked at. *)
EndedOnly == {"failed", "cancelled"}

Sweepable == {"failed", "cancelled", "processing", "queued"}

(* reconcile_refunds of a job that list_charged_without_video found *)
Sweep(p) ==
  /\ Free(p)
  /\ row.charged /\ ~row.video /\ row.status \in Sweepable /\ row.old
  /\ Go(p, "refund", "refund")
  /\ UNCHANGED <<row, outside, money, bounds>>

(* 45 minutes pass, which no request takes. *)
Age ==
  /\ ~row.old /\ \A p \in Procs : Free(p)
  /\ row' = [row EXCEPT !.old = TRUE]
  /\ UNCHANGED <<outside, handler, money, bounds>>

-------------------------------------------------------------------------------
(* Post for Me publishes the post or fails it, ... *)
Publish ==
  /\ post = "open"
  /\ post' \in {"success", "failed"}
  /\ UNCHANGED <<row, told, wake, handler, money, bounds>>

(* ... and sends its events, of which the one with the result comes once.  An *)
(* event wakes a worker if no sync of the user, of whatever post, is active:   *)
(* its key has neither batch nor song.                                         *)
Webhook ==
  /\ post # "none" /\ ~told
  /\ told' = (post # "open")
  /\ wake' = IF wake = "none" THEN "current" ELSE wake
  /\ UNCHANGED <<row, post, handler, money, bounds>>

(* sync_post_results in a worker, one at a time.  No row names a stale post. *)
Sync(p) ==
  /\ Free(p) /\ wake # "none" /\ \A q \in Procs : handler[q].op # "sync"
  /\ IF wake = "current" THEN Go(p, "sync", "fetch") /\ UNCHANGED wake
     ELSE wake' = "none" /\ UNCHANGED handler
  /\ UNCHANGED <<row, post, told, money, bounds>>

(* The results are fetched, stored and counted with those of former attempts. *)
Fetched ==
  CASE wake = "current" -> {post}
    [] wake = "open"    -> {"open", "success", "failed"}
    [] OTHER            -> {wake}

Fetch(p) ==
  /\ On(p, "fetch")
  /\ \E outcome \in Fetched :
       LET results == row.results \cup ({outcome} \ {"open"})
       IN  /\ row' = [row EXCEPT !.results = results]
           /\ IF results = {} THEN Leave(p)
              ELSE /\ Turn(p, IF outcome = "success" THEN "success"
                              ELSE IF "success" \in results THEN "counted" ELSE "refund")
                   /\ UNCHANGED outside
  /\ UNCHANGED <<money, bounds>>

(* Of a success counted from a former attempt the id of the video is not at hand. *)
MarkSuccess(p) ==
  /\ handler[p].at \in {"success", "counted"}
  /\ Write([row EXCEPT !.status = "success", !.video = @ \/ On(p, "success")])
  /\ Leave(p)
  /\ UNCHANGED <<money, bounds>>

(* A process dies between two calls, or its sync fails; the queue hands a sync *)
(* to another worker.                                                           *)
Die(p) ==
  /\ ~Free(p) /\ troubles < MaxTroubles /\ troubles' = troubles + 1
  /\ Done(p)
  /\ forfeited' = IF On(p, "mark") THEN forfeited \cup {handler[p].ref} ELSE forfeited
  /\ UNCHANGED <<row, outside, debits, refunds, full, requests>>

(* Whatever else the user buys and spends fills the wallet or makes room in it; *)
(* of interest while a charge may still come back.                             *)
WalletMoves ==
  /\ \E r \in Refs \ refunds : debits[r] > 0
  /\ full' = ~full
  /\ UNCHANGED <<row, outside, handler, debits, refunds, forfeited, bounds>>

-------------------------------------------------------------------------------
Init ==
  /\ row = NewRow /\ post = "none" /\ told = FALSE /\ wake = "none"
  /\ handler = [p \in Procs |-> Idle]
  /\ debits = [r \in Refs |-> 0] /\ refunds = {} /\ full = FALSE /\ forfeited = {}
  /\ requests = 0 /\ troubles = 0

Step(p) ==
  \/ Charge(p) \/ Unpaid(p) \/ MarkCharged(p) \/ Reread(p) \/ CreatePost(p) \/ MarkPosted(p)
  \/ Refund(p) \/ Settle(p) \/ Zero(p) \/ Reset(p) \/ Fetch(p) \/ MarkSuccess(p)

Request(p) == Complete(p) \/ Cancel(p) \/ Supersede(p) \/ Retry(p)

Next ==
  \/ \E p \in Procs : Request(p) \/ Step(p) \/ Sync(p) \/ Sweep(p) \/ Die(p)
  \/ Expire \/ Age \/ Publish \/ Webhook \/ WalletMoves

(* A process that lives goes on, time passes, and the sweeps run whenever a   *)
(* client shows the progress; no user has to act, and no event has to come.   *)
Fairness ==
  /\ \A p \in Procs : WF_vars(Step(p))
  /\ WF_vars(Expire) /\ SF_vars(Age) /\ SF_vars(\E p \in Procs : Sweep(p))

Spec     == Init /\ [][Next]_vars
FairSpec == Spec /\ Fairness
-------------------------------------------------------------------------------
(* No charge is lost sight of: what was debited under a reference is refunded, *)
(* or on the row where the sweep finds it, or about to be written there; and   *)
(* nothing is refunded that was not debited, or debited twice.  Excepted are   *)
(* the charges that writes by id alone forfeit where requests overlap, and     *)
(* that of a process that dies before it could write it down.                  *)
ChargesTracked ==
  \A r \in Refs :
    /\ r \in refunds => debits[r] > 0
    /\ debits[r] > 0 /\ r \notin refunds \cup forfeited =>
         \/ row.charged /\ row.ref = r
         \/ \E p \in Procs : On(p, "mark") /\ handler[p].ref = r
    /\ debits[r] <= 1 \/ r \in forfeited

(* Every upload comes to an end, though webhooks are dropped and processes die, *)
(* and every charge with it: it bought a video, or it waits with the job for    *)
(* its user, or it is returned, once the wallet has room again for good.  A job *)
(* that complete_job brought back after its charge was returned holds none, and *)
(* the sweep never looks at it.                                                *)
Returned ==
  \A r \in Refs \ (refunds \cup forfeited) :
    debits[r] > 0 => row.video \/ row.status \in {"success", "pending_payment"}

UploadsSettle ==
  /\ <>[](row.status \in Ended \/ ~row.charged \/ row.video)
  /\ <>[]~full => <>[]Returned
===============================================================================
