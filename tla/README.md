# CAMXORA: a TLA+ model of its money and its queue

CAMXORA is a music platform: a Next.js web product (`camxora.com/`), a FastAPI back end
(`platform_api/`), a Node service that drives a pool of Suno accounts (`musicapi/`) and an
admin portal. These modules model the back end where money, retries and several processes
meet: the credit wallet and the payments that fill it, the durable job queue with the song
and image jobs it carries, the Suno service that the songs are sent to, and publishing to YouTube. The reference is the source; a comment above every property names
the behaviour it is about, and `PROJECT.json` maps each definition to the lines it models.

## 1. The system

| Part | State it keeps | Operations | What makes it correct |
| --- | --- | --- | --- |
| Wallet, lots, ledger (`credit_repo.py`, `v3/store.py`) | `credit_wallets.balance`, `credit_wallet_lots`, `credit_transactions`, `credit_grant_claims` | `atomic_deduct`, `add_credits`, `refund_once`, lot consumption, restoring, restamping | balance within its CHECK, no lot above its amount, the ledger explains the balance, a key is honoured once |
| Billing services (`v3/*`, `free_monthly_grant.py`, `grant_maintenance.py`, `credit_service.py`) | none of their own: sequences of wallet calls | sweep of lapsed lots, monthly allowance, charge with daily cap, refund, pack mint, admin adjustment | allowance once a month, pack once, refund within its charge, cap |
| Job queue (`job_queue_repo.py`, `worker.py`) | `job_queue` rows; each worker's copy of its job | `enqueue`, `enqueue_if_absent`, `claim_next`, `mark_done`, `mark_failed_or_retry`, `requeue_stale_running`, the loop | one worker for a job, bounded attempts, final states final, every job settles |
| Web songs (`web_music_service.py`, `worker.py`, `callbacks.py`) | `suno_tasks`, `_open_charges`, the Redis lock `web_music:suno_submit` | Create, queued submit, callback, status poll, three refunds | one submit at a time, one generation, no lost success, a failed song is refunded, a made one is paid |
| Top-ups (`v2/topup_service.py`, webhooks) | `topup_purchases`, the payment at the gateway, `referrals` | checkout, webhook, poll, terminal marks, completion, mint, reward | credited only for a confirmed payment, once, and not forgotten |
| Image jobs (`batch_service.py`, `image_job_runner.py`) | `image_jobs`; each worker's round | create, reset, schedule a drain, claim, run, retry | every image is generated or fails for good |
| Suno service (`musicapi/src/server.ts`, `concurrency.ts`, `jobQueue.ts`) | in memory: slots, loads, `Job` objects; `jobs`, `credit_transactions`, BullMQ entries | charge, admit, try accounts, defer, finalise, recover at boot | caps, FIFO, no leaked slot; a failed job is refunded once; every job ends |
| Publishing to YouTube (`publish_service.py`, `publish_repo.py`, `routers/publish.py`) | `youtube_upload_jobs`, `publish_job_results`, the post at Post for Me | create, complete, cancel, retry, webhook, sync of the result, expiry, refund sweep | a charge buys a video or is returned, no charge is lost sight of, every upload settles |
| Key pool, authentication, dual control, redeem codes | their tables | leases, token rotation, approvals | each a small protocol of its own |

The parts meet in the database and in Redis only. API processes, webhook handlers, an
hourly maintenance loop and any number of workers (systemd units) run the services at the
same time; between two awaited calls everything may happen. The wallet methods lock the
wallet row (`FOR UPDATE`), so each is one step; a *service* is several of them and is not.
`PROJECT.json` lists the components, also those left out, and the hazards at their lines.

## 2. Modules

| Module | Models | State | Actions |
| --- | --- | --- | --- |
| `CreditLots` | arithmetic of lots | none (operators) | `ConsumeLots`, `RestoreLots`, `RestampLots`, `ZeroLots` |
| `CreditRepo` | `CreditRepository` | `balance`, `lots`, `txns` (a bag of ledger rows), `claims`, `now` | `Deduct`, `Grant`, `GrantWithLot`, `RefundOnce`, one locked transaction each |
| `CreditLifecycle` | billing services on one wallet | + `job[p]`, what process `p` has read and calls next | one action for each awaited call |
| `CreditAccount` | what billing promises (abstract) | `funds`, `honoured`, `manual` | `Honour`, `Adjust`, `Withdraw` |
| `JobQueue` | `job_queue` and the worker loop | `jobs`, `worker[w]`, `intent[c]` | claim, handler outcome, mark, sweep, crash, lock ageing |
| `WebSongs` | a song from click to callback, composed with `JobQueue` | + `request`, `debit`, `refunds`, `task`, `gens`, `lock`, `fulfil`, `hook` | one for each call of the request, the handler and the hooks |
| `TopupPayments` | buying a pack, composed with `CreditLifecycle` | + `purchase`, `gateway`, `handler[p]`, `referral` | checkout, gateway moves, webhook, poll, each awaited call of the fulfilment |
| `ConcurrencyGate` | `concurrency.ts` | none (operators on a gate record) | `StartIn`, `Enqueued`, `Release` with its `Pump` |
| `SunoJobs` | a paid job of the Suno service, over `ConcurrencyGate` | `job`, `gate`, `load`, `row`, `ledger`, `entry`, `boot` | one for each awaited call of a worker, a throwing call, crash, the steps of the boot |
| `ImageDrain` | image jobs of a batch, composed with `JobQueue` | + `image`, `asking`, `drain[w]` | create, reset, schedule; requeue, claim, one for each image of a round |
| `PublishJobs` | one upload through Post for Me | `row`, `post`, `told`, `wake`, `handler[p]`, `debits`, `refunds` | complete, cancel, supersede, retry and each awaited call of theirs, post, webhook, sync, sweeps |
| `*MC` | instances for TLC | | |
| `*_proofs` | theorems | | |

How the modules abstract:

- Credits are small numbers; a lot is a record of tag, amount, remaining, expiry and period,
  and the sequence `lots` is in order of creation. `Never` is a NULL expiry. Days are the unit of time.
- A ledger row is what distinguishes it (direction, reason, reference, units); `txns` counts
  equal rows. `claims` is the table with the primary key that makes a grant idempotent.
- The wallet row exists. With a missing row `FOR UPDATE` would lock nothing; the code
  creates the row at registration.
- An exception is modelled where the code that catches it does something about it. The worker loop (`worker.py:480`) retries
  or fails the job: any call of `fulfill_queued_generate` may throw (`CallThrows`, `LockFails`, `FailTask`, `SaveThrows`, `UnlockThrows`).
  The CutLuy webhook answers 200 all the same (`Throw`), `sync_topup_pack` swallows the mint's, `_refund_job` the refund's.
  In the wallet's own module, where the callers are not modelled, an error other than the ones an action
  names (`ValidationError` of a cap, the unique period of a grant lot) ends the service there, like a crash.
- In `JobQueue` a *kind* stands for job type and key together. `due` is `run_after <= NOW()`,
  and `lock` says whether `locked_at` is older than the stale limit. A worker keeps the copy
  of the row it claimed (`tries`), because `mark_failed_or_retry` decides on that copy.
- In `WebSongs` a kind is one song. Of the wallet only the song's debit and the *keys* of its
  refunds are kept, because `refund_once` honours each key once (`RefundWithinCharge`,
  proved) and the song uses three: the reservation, the debit row, the task. Suno is
  external: it may accept, refuse, or accept while its answer is lost, and ends a generation
  either way. The UPDATE that stores the generation's id may throw, which loses the id as well (`lost`). `aborts` counts the attempts
  at a song that an exception ended outside the `except` branch of the submit, which alone refunds. Redis is there (without it `_acquire_web_suno_lock` returns at once and nothing is
  locked). A handler of a web song that hangs is left to `JobQueue`. A callback reports the end of a generation; with SUCCESS
  and no audio URL it writes PENDING, whatever the row's status (`Persisted`, `callbacks.py:690-728`). The callbacks of a generation still running are left out.
- In `TopupPayments` a process that mints takes the very steps of `CreditLifecycle!Mint`; the other
  operations of the wallet are left to that module's runs. `Provider` says which gateway a
  top-up goes through, since their webhooks look rows up differently. The gateways are external: a
  payment opens, expires, fails, is paid, replaced or reversed, and `Events` are what they have sent
  of it and may send again, in any order. The database trigger on the UPDATE to completed is part of
  that step (`Complete`). `refund_topup` has no caller and is left out. The two webhooks treat
  errors differently: ChmabaPay's answers an error with an error, and the event comes again; CutLuy's swallows every exception
  and answers 200 (`topup_service.py:612`, `webhooks_cutluy.py:70`), and so for a user or an amount that does not match. Then the event is
  `dropped`, and its gateway does not repeat it. `hook` says whether a handler serves a webhook of CutLuy.
- In `SunoJobs` a `Job` object and the continuation of its worker are one record: `at` is the next
  awaited call, `held` and `attempt` what its `finally` blocks would give back. Which account can be
  picked depends on credits, limits and loads that any other job changes, so `Pick` may take
  any account not tried yet or find none. `Crowd` are free jobs of no user, followed only to
  the gate, which they fill. A BullMQ entry that is done keeps its id for an hour (`Forget`);
  a boot takes less than that. The generation at Suno and the copy of its audio are one step (`Submit`).
- In `ImageDrain` the drain is the handler of a claimed job of `JobQueue`: between `ClaimJob` and `Handle` its worker
  goes through rounds (`requeue`, `claim`, `run`, `over`), each database statement a step, the images
  of a round in any order. The rows of a batch are created in one step; a thumbnail's check of its background
  and the write that follows from it are one. A batch has fewer images than a round takes (50) and fewer rounds
  than a drain runs (80). A thumbnail sent back to wait carries an error, but no try, and the model does not reset it.

- In `PublishJobs` the row is one job; a click that replaces it is followed until the old job is retired or refunded
  (`Supersede`), its successor being another job. `old` says that `updated_at` is more than 45 minutes ago, longer than
  any request takes. Post for Me is external: it accepts a post, refuses it or its answer is lost, and later publishes or fails it.
  `wake` is the user's one active sync job; an event of a post that no row names, or that comes while one is active, has no effect.
  A reference may be debited again and again (`_existing_debit` always answers no) and is refunded once (`RefundWithinCharge`, proved).
  The wallet is full or not (`full`, `WalletMoves`), as the user's other business has it: `refund_once` refuses the refund of a full
  wallet each time it is tried, `_refund_job` swallows that, and the next sweep tries again.
  `forfeited` is a history variable: the references of charges that a write by id, decided on an outdated copy, has put out of reach.

## 3. Runs

| Run | Question | Bounds | Result |
| --- | --- | --- | --- |
| `credit_lifecycle` | Do two processes in any interleaving, one of which may die between two calls, keep the wallet's invariants, and implement `CreditAccount`? | 2 processes, 1 charge, 1 pack, maximum 5, allowance 3, 2 days, 3 operations, 1 crash | 1.2M states, holds |
| `credit_drift` | Rule R6: is the balance the sum of the live lots once all is settled? | 1 process | violated (finding) |
| `job_queue` | Claims, retries, reclaims and twins with 2 workers and 2 racing API handlers; does every job settle? | 2 jobs of 2 kinds, 2 attempts, 1 crash, 1 hang, 2 overruns, `FairSpec` | 756k states, holds |
| `web_songs` | A song with retries, calls that throw, reclaim, lost id and crash, and contention for the Suno lock | 1 song, 2 workers, 1 hook, 2 attempts, at most 1 overrun, 1 crash and 1 lost id, two of them in a behaviour; throwing calls bounded by the attempts only | 1.4M states, holds |
| `web_free_song` | "Refunds if Suno never accepts it" | 1 song, no crash | violated (finding) |
| `web_failure_kept` | "Return generation credits when a task fails asynchronously" | 1 song, no crash | violated (finding) |
| `topups` | Checkout, webhooks, polls and rewards race for two packs, and implement `CreditAccount` | 2 processes, 1 top-up for each gateway, maximum 4, 1 crash or throwing call, `FairTopupSpec` | 312k states, holds |
| `topup_late` | "A late payment still promotes the row to paid" | 1 ChmabaPay top-up, 1 process, no crash | violated (finding) |
| `topup_reversed` | "`payment.reversed` event marks the ledger row `refunded`" | 1 ChmabaPay top-up, 1 process, no crash | violated (finding) |
| `suno_jobs` | A paid job from charge to callback, at the gate and through crashes | 1 inline and 1 queued job of one user, 2 free jobs, 2 slots, 1 place in the queue, 2 accounts, 1 deferral, 1 trouble, `FairSpec` | 203k states, holds |
| `image_drain` | Does every image of a batch end? | background and thumbnail, 2 callers, 2 workers, 2 drains, 3 tries, 1 reset, 1 hang, 1 fault, `DrainFairSpec` | 605k states, holds |
| `publish` | Is every charge of an upload tracked, and does every upload settle? | 2 processes, 3 requests, 1 death or failed call, a wallet that fills and empties at will, `FairSpec` | 659k states, holds |

Why the bounds are enough. Two processes are what every race here needs: one that has read,
one that writes. The wallet's maximum (5) is below allowance plus pack plus adjustment, so
caps and over-cap grants occur; the price is 1, so that a debit never spans two lots in the run (the theorems hold for prices
that do); two days let month, pack and adjustment lapse. `MaxOps` counts a crash as an
operation, so one crash and two operations meet. In the queue, a stale lock needs one worker that
overran and one that reclaims; two attempts give a retry and a final failure; the second job
is the twin or the one of lower priority, and two API handlers are what the race of two inserts takes. The safety properties of all runs are proved for every
value of the constants (section 4), so the bounds decide what is known of liveness, and that no action or case is idle. In `web_songs` a reclaimed job brings two
handlers to one song, any two troubles meet (`FewTroubles`, which keeps the third out), and one hook is a callback or a poll, raced by the worker. Each bound is a constant named `Max...` in a guard;
symmetry is declared over processes, workers, songs and hooks in the safety runs only.

In `topups` one pack goes through each gateway; the wallet (4) holds neither both packs with both
trigger credits nor the reward on top, so the trigger, the mint and the reward all meet a full wallet; `MaxCrashes` bounds
a death and a call that throws together. In `suno_jobs`
the user may have one job at a time, so a waiting job of that user stands before a free one that may start,
which is what `Pump` must get past; two accounts make a retry and an exhausted list, and one place in the queue
makes it full. `MaxTroubles` bounds crashes and calls of the database or Redis that throw together:
one strikes at any await. In `image_drain` three tries are one more than the two dry rounds a drain allows, and two drains and
two callers are what a wake-up that comes too late needs; `MaxCrashes` bounds there a crash, an enqueue whose exception is
swallowed, and a statement of the drain that raises, together. Locks do not go stale under
a live drain in that run (`MaxOverruns` is 0). `publish` has two processes, for two clicks at once or a click against the sync
or the sweep; three requests are a completion, a retry and the completion of the second attempt. An upload that
is settled needs no more. Each kind of forfeited charge occurs but one, an attempt count that a late `mark_job_posted` sets back, which
takes two retries more.

`CHECK_DEADLOCK FALSE` in the queue, song, payment, image, Suno and publishing runs: with bounded jobs and crashes the workload
ends, and a system with nothing left to do stops. The credit runs check deadlock.

Fairness (`FairSpec`). systemd restarts a worker (`Start`), an idle worker keeps polling and
sweeping (`Claim`, `SweepStale`), a handler that does not hang returns or raises, its worker
marks the job, an API handler past its check inserts, time passes (`BecomeDue`, `LockAges`).
Nothing is assumed of a hung handler, and crashes are never fair. With a hang one worker is gone for good, so
`job_queue` shows that the *other* worker's sweep settles the job; with every worker hung
nothing would, which is the hazard at `worker.py:83`. `ImageDrain` takes the same fairness, the steps of a drain
being part of the worker's loop; nobody has to ask for a retry. In `TopupPayments` a handler that lives
goes on, and a gateway repeats its last event until it is answered 200 (strong fairness of `Redeliver`, since a process is not always
free; none for an event CutLuy had acknowledged and the code dropped); nobody has to pay or to poll. In `SunoJobs` the Node process runs whatever continuation is ready, timers included,
systemd restarts it, and a free job leaves its slot. In `PublishJobs` a process that lives goes on, and `routers/progress.py` sweeps whenever
some client shows its progress (strong fairness for the sweep and the 45 minutes, since a process is not always free); no webhook has to come, no
user has to act, Post for Me owes nothing and nothing empties a full wallet.

### Findings

1. **R6 does not hold** (`credit_drift`). The clawback of a lapsed lot is a debit like any other and takes its units from
   the live lots, since the lapsed one no longer counts; then the lapsed lot is zeroed as well. One clawback so empties two lots, and the balance
   stays *above* the live lots with nothing left to sweep.
2. **A refunded song is made** (`web_free_song`). `fulfill_queued_generate` refunds on each failed
   submit and raises; the queue retries; the second submit succeeds and is not charged.
3. **A failed song keeps the credits** (`web_failure_kept`). The status poll marks the row FAILED
   without a refund, and the callback refunds only a row it did not find FAILED.
4. **A late payment is not taken** (`topup_late`). A poll fails the row as soon as the gateway calls the code
   expired; the completed event of the payment that follows is answered "already settled" and nothing is credited.
5. **A reversed payment stays completed** (`topup_reversed`). `_mark_topup_terminal` updates pending rows only, so the reversed event of
   a credited payment changes nothing, and is answered "Top-up marked refunded". The change log says the row is marked, and
   `test_settle_chmaba_topup_marks_reversal_refunded` gives a completed row to a mocked database, which does not look at the WHERE.

Three more promises of the repository are not kept, and the properties except exactly these cases by name.
`image_job_runner.py:26` says that retries are drained in the same loop; but a round counts successes only, so
two rounds of failures end the drain with tries left (`excused`). `server.ts:1468` says that every transition is mirrored
so that an in-flight job survives a restart; but an inline job waits behind the gate before its
first row, and the boot sets back jobs the consumer has already taken (`stranded`, `torn`, `stale`). And `publish_service.py:488`
says that a repeated click must not charge twice: two clicks whose completions overlap do (`forfeited`).

### What the checked properties say

Wallet: `LotsNeverOverfilled`, `LedgerExplainsBalance`, `RefundWithinCharge`,
`PackCreditedOnce`, `FreeOncePerMonth`, `FreeTopsUp` (the allowance tops up and never stacks),
`CapOvershootBounded` (the daily cap is checked before the lock: it is passed by at most one song
for each process beyond the first), `EarliestExpiryFirst`, `LockstepUntilExpiry` (what is left of
R6), `ImplementsAccount`. Queue: `SoleHandler`, `AttemptsBounded`, `FinalUnlessReclaimed`,
`TwinsOnlyByRace` (two active rows of one key mean that the handler of the later looked before the earlier was there, or that a reclaimed
row was reopened), `EveryJobSettles`; the safety properties hold *up to reclaims*, since a worker
whose lock went stale still marks the row by its id. Songs: `OneSubmitAtATime` (one, and one more
for each lock that expired under its holder), `OneGenerationUnlessLost` (one, and one more for each id that never reached the row, be it with Suno's answer or with the UPDATE that threw), `FailedJobRefunded` (but for
a job whose every attempt was reclaimed or aborted: a lock not got, a row not read, a refund that threw, an id not stored, which nothing refunds),
`OutcomeIsGenerated` (the final status of a row is that of the generation it names), `SuccessStays` (but for the PENDING that a callback without a URL
writes over a success; a failure never does). The last four except reclaimed jobs. Payments: `CreditIsPaidFor` (no credit without a confirmed payment; with CutLuy
none without a completed row either), `TriggerCreditsOnce`, `SettledRowKept` (a completed row may at most become refunded, a refunded one stays, a failed one at most
becomes completed), `CompletedIsMinted` (but for `missed`: a crash before the mint, or a
wallet too full, whose exception `sync_topup_pack` swallows), `RewardClosesInvite`, `PaidIsSettled` (but for a
wallet that cannot take the trigger's credit, and events of CutLuy that were `dropped`). Suno service:
`CountsMatchWorkers` (every path, also one that throws, gives back what it took, once), `NoStrandedWaiter`, `SettlementMatchesRow`
(callback, row and refund agree), `OneSongUnlessLost`, `EveryJobEnds`. Images: `EveryImageEnds`, but for images left by a drain that gave up,
by a wake-up that met a drain past its last look, or by a fault; images claimed by a lost worker
stay running until a user resets them. Publishing: `ChargesTracked` (a debit is refunded, or on the row where
the sweep looks for it; but for `forfeited`) and `UploadsSettle`, which is the promise of `reconcile_refunds`: every upload ends, and from when the wallet
stays below its maximum every charge is returned that bought no video and does not wait with its job. While the wallet is full it is not. Every property of a
passing run has a mutant of the modelled code that breaks it, in `PROJECT.json`; the mutants are
the definitions marked so in the modules.

## 4. Proofs

Every safety property of a passing run, invariant or action property, is a theorem for all values of the
constants, and so are both refinements (`ImplementsAccount`). The assumptions are named in the modules that declare
the constants: `NeverAssumption`, `MaxBalanceAssumption`, `LifecycleAssumption`, `ProcsAssumption`, `RefAssumption`, `TopupAssumption`,
`PaymentRefAssumption`, `QueueAssumption`, `WebAssumption`, `GateAssumption`, `SunoAssumption`, `PublishAssumption`. They type the
constants, say that processes, workers and accounts are finitely many, that the monthly allowance fits the wallet and
that the references of charges, top-ups, months, trigger rows and invitations are different texts. TLC evaluates each of them.

The method is the same everywhere: an invariant that is inductive, checked by TLC first; the effect of the operations
summed up in a few named predicates, one lemma that every step has one of these effects, and the invariant preserved by
each effect rather than by each action.

- `CreditLots_proofs`: lemmas on the lot operators, cited below. Consuming, restoring,
  restamping and zeroing keep lots typed, keep their number or append, and never lift a lot above its amount. Then what they do to the
  sum of the lots (a debit takes exactly its price from the live ones, a refund puts its credits back or into a new
  lot) and that a debit empties earlier lots first. The sums and the recursion over lots are unrolled by the smallest
  set or index where the claim fails.
- `CreditLifecycle_proofs`: `TypeCorrect` and `LotsNeverOverfilledAlways` from
  `Sound == TypeOK /\ LotsNeverOverfilled`, inductive together: the type of a lot a refund writes needs the amount bound,
  and the lots a process remembers must still be there (lots are never removed). `LedgerExplainsBalanceAlways`: a lemma says how one
  more row changes the sum over the bag, and every step records rows for exactly what it moves in the balance. `CapOvershootBoundedAlways`
  from `CapInv`: what is spent today, and what the processes past the check are about to spend, exceeds the cap by
  a price for each of them but one; a process counts from its check on, which is why the bound has the number of processes.
- `CreditKeys_proofs`: `PackCreditedOnceAlways`, `FreeOncePerMonthAlways`,
  `RefundWithinChargeAlways`, `AccountImplemented`. One lemma classifies every step by its effect on
  rows and claims (`Effect`: quiet, a pack, a month, a manual credit, a refund); the invariant `KeyInv` then has one case for each
  class. Needed beside the property: a process in a mint names a top-up (`MintRefs`),
  rows have the reason their reference allows (`RowKinds`), and a claim and its credit row are there together, which is
  what a racing second mint meets. The refinement reuses `Effect`: each class is a step of `CreditAccount` or a stutter.
  `FreeTopsUpAlways`, `EarliestExpiryFirstAlways` and `LockstepAlways` use a second classification, by what happens to balance and
  lots (`LotStep`); `LockstepUntilExpiry` needs that until a pack is
  claimed or the first term is over every lot lasts, no process sweeps or mints, and the lots hold the balance (`YoungInv`).
- `JobQueue_proofs`: `TypeCorrect`, `SoleHandlerAlways` and `FinalUnlessReclaimedAlways` from `HolderHandles` (without a reclaim, whoever
  is at a job is the holder of its row), and `AttemptsBoundedAlways` from `AttemptBudget`, which counts for each job its attempts, the
  worker copies that may still retry it and the retry it is waiting for.
  `TwinsOnlyByRaceAlways` from `RaceInv`: each row remembers how many rows there were when its handler looked (`seen`, a history field), and what
  a handler saw then is inactive for good unless reclaimed, since a finished row becomes active again only by a late mark. It covers every active row,
  reclaimed ones too.
- `WebSongs_proofs`: `OneSubmitAtATimeAlways`. The run has one song and no lock that expires under its holder; the theorem covers any
  number of both. Its invariant counts the *strays*, workers at the song or at the DEL of their
  release without the lock: at most one for each expiry. The DEL of a stray may free the
  lock of another worker, which then is the stray in its stead. The story of a song is `WebInv`: every step of a song is a step of the
  queue or leaves it alone (`QueueInv`), a job stands for one charged song (`RootInv`), a worker that leaves a song has
  a generation, a refund or an abort to show for it (`WorkersSettle`, `RowsSettled`), and generations are counted against lost ids
  (`Unsaved`, `GensCounted`). From it `OneGenerationAlways`, `FailedJobRefundedAlways`, `OutcomeIsGeneratedAlways` and `SuccessStaysAlways`.
- `TopupPayments_proofs`: `PaymentInv` ties each handler between its awaits to the row and the gateway (whoever completes a row has
  seen it paid, a failed row of CutLuy can no longer be paid), `HookInv` says that only events of CutLuy are dropped. `WalletInv` ties rows to the ledger: a claim and its pack row are there together, the
  trigger's row is there if and only if the purchase is completed, the reward only while the invitation is closed by its
  holder. From them `CreditIsPaidForAlways`, `TriggerCreditsOnceAlways`, `CompletedIsMintedAlways`, `RewardClosesInviteAlways`, `SettledRowKeptAlways`.
  The refinement `PaymentsImplementAccount` needs only that packs and claims agree (`PackClaimed`) and that each step moves money in one of a few ways (`MoneyStep`).
- `PublishJobs_proofs`: `ChargesTrackedAlways` from `PublishInv`: each attempt after the first was asked for (`AttemptsAsked`), a charge
  that is not refunded or forfeited is on the row or carried there by a process (`ChargesOpen`), and no attempt is charged twice, nor
  about to be by two processes, unless it was forfeited (`ChargedOnce`).
- `SunoJobs_proofs`: `Fits` says that a gate counts exactly the holders it is given, in total and for each user, keeps each waiting job
  once and has none waiting that could start. `Pump` is a fold; its lemma unrolls it job by job, and `ReleaseFits` then gives the
  gate after any worker left. `SunoInv` adds, for the accounts, that loads count attempts (`LoadFits`), and for each job (`JobGood`) how its
  continuation, its row, its queue entry and what the boot still has to do go together (`ObjectFits`, `Placed`, `Booted`), that it is told what the row
  says and not worked on after (`Told`), that a failure is refunded or somebody will do it (`Refunded`), and that its song is kept (`Sung`). The run has
  four jobs and one trouble; the four theorems hold for any number.

Only model-checked is liveness: `EveryJobSettles`, `EveryJobEnds`, `PaidIsSettled`, `UploadsSettle` and `EveryImageEnds`, the one
property of `ImageDrain`. Fairness and ENABLED are out of the prover's reach. So is induction whose hypothesis is an operator
parameter: the library's induction theorems cannot be instantiated. Hence no theorem here computes what a recursive function returns for every input by
induction; where a proof needs it, it argues from the smallest counterexample, which well-ordering of the naturals provides.

## 5. Not modelled, and the plan

Left out of the modelled parts: the legacy web allowance and preview counters, the paid
period grant (off in the two-tier product), quota conversion, queue cancellation and purging,
the other handlers, extend/cover/stems/trash/playback of songs; of payments the limit of pending checkouts
and the retired plan checkout; of images their credits, drains limited to chosen jobs, forced regeneration and
clearing; of the Suno service the ranking of accounts by credits, load and cooldown, sessions and captchas, the other job
types' routes, and a second node on the same queue; of publishing the connected accounts, hosted media and the older direct uploads. Left out whole: user interfaces, the desktop client, archive and scripts.
These are most of the repository's lines, and nothing in them keeps state two actors share.

Next, in this order:

1. Proofs: an invariant of `ImageDrain` worth stating (an image is in one drain's round at a time, tries are bounded by the drains and resets),
   with its proof; an abstract queue that promises each job a bounded number of handlings, and `JobQueue` as its
   implementation; the step lemmas that liveness would rest on (a job's rank falls with each fair step).
2. Several requests of one user against the cap of waiting songs; key pool leases; token rotation; dual control.
