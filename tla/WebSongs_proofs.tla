--------------------------- MODULE WebSongs_proofs ---------------------------
(***************************************************************************)
(* Web songs, for any number of songs, workers and hooks, crashes, lost    *)
(* answers and locks that expire.  First the lock web_music:suno_submit:   *)
(* how many workers can be in fulfill_queued_generate at once.  There the  *)
(* queue does not matter, only what each worker's handler is doing.  Then  *)
(* the songs themselves, on top of the queue: the job of a song, its       *)
(* generations, its refunds and its row in web_music_tasks.                *)
(***************************************************************************)
EXTENDS WebSongs, JobQueue_proofs, FiniteSetTheorems, TLAPS

(* Workers that act as if the lock was theirs, when it is not any more: they   *)
(* are at the song, or at the DEL of their release.                            *)
Astray(w) == /\ fulfil[w].at \in {"read", "submit", "refund", "fail", "save", "link", "delete"}
             /\ lock # w

Strays == {w \in Workers : Astray(w)}

HandlerOf(f, w) == \E at, gen, raised : f[w] = [at |-> at, gen |-> gen, raised |-> raised]

Handlers == fulfil = [w \in Workers |-> fulfil[w]] /\ \A w \in Workers : HandlerOf(fulfil, w)

StraysPaidFor == expiries \in Nat /\ Cardinality(Strays) <= expiries

LockInv == Handlers /\ StraysPaidFor

-------------------------------------------------------------------------------
(* What the worker of the step does to its own handler, and to no other. *)
Moves(w, st) ==
  /\ Handlers'
  /\ fulfil'[w].at = st
  /\ \A v \in Workers \ {w} : fulfil'[v] = fulfil[v]

LEMMA StraysFinite == IsFiniteSet(Strays) /\ Cardinality(Strays) \in Nat
  <1>1. Strays \subseteq Workers
    BY DEF Strays
  <1> QED
    BY <1>1, FS_Subset, FS_CardinalityType, QueueAssumption

(* A handler goes from one place to another. *)
LEMMA MovesAt ==
  ASSUME Handlers, NEW w \in Workers, NEW st, NEW gen, NEW raised,
         fulfil' = [fulfil EXCEPT ![w] = [at |-> st, gen |-> gen, raised |-> raised]]
  PROVE  Moves(w, st)
  <1>1. /\ fulfil' = [v \in Workers |-> fulfil'[v]]
        /\ fulfil'[w] = [at |-> st, gen |-> gen, raised |-> raised]
        /\ \A v \in Workers \ {w} : fulfil'[v] = fulfil[v]
    BY DEF Handlers
  <1>2. ASSUME NEW v \in Workers PROVE HandlerOf(fulfil, v)'
    <2>1. CASE v = w
      BY <1>1, <2>1 DEF HandlerOf
    <2>2. CASE v # w
      <3>1. HandlerOf(fulfil, v)
        BY DEF Handlers
      <3> QED
        BY <1>1, <2>2, <3>1 DEF HandlerOf
    <2> QED
      BY <2>1, <2>2
  <1> QED
    BY <1>1, <1>2 DEF Handlers, Moves

LEMMA GoesMoves ==
  ASSUME Handlers, NEW w \in Workers, NEW st, Goes(w, st)
  PROVE  Moves(w, st)
  <1>1. PICK at, gen, raised : fulfil[w] = [at |-> at, gen |-> gen, raised |-> raised]
    BY DEF Handlers, HandlerOf
  <1>2. fulfil' = [fulfil EXCEPT ![w] = [at |-> st, gen |-> gen, raised |-> raised]]
    <2>1. fulfil' = [fulfil EXCEPT ![w] = [fulfil[w] EXCEPT !.at = st]]
      BY DEF Goes
    <2>2. [fulfil[w] EXCEPT !.at = st] = [at |-> st, gen |-> gen, raised |-> raised]
      BY <1>1
    <2> QED
      BY <2>1, <2>2
  <1> QED
    BY <1>2, MovesAt

LEMMA EndsMoves ==
  ASSUME Handlers, NEW w \in Workers, NEW st, NEW raised, Ends(w, st, raised)
  PROVE  Moves(w, st)
  BY MovesAt DEF Ends

(* Without a new stray the strays stay paid for. *)
LEMMA NoNewStray ==
  ASSUME StraysPaidFor, Strays' \subseteq Strays, expiries' = expiries
  PROVE  StraysPaidFor'
  <1>1. IsFiniteSet(Strays) /\ Cardinality(Strays) \in Nat
    BY StraysFinite
  <1>2. Cardinality(Strays') <= Cardinality(Strays) /\ Cardinality(Strays') \in Nat
    BY <1>1, FS_Subset, FS_CardinalityType
  <1> QED
    BY <1>1, <1>2 DEF StraysPaidFor

LEMMA Untouched ==
  ASSUME LockInv, UNCHANGED <<fulfil, lock, expiries>>
  PROVE  LockInv'
  BY DEF LockInv, Handlers, HandlerOf, StraysPaidFor, Strays, Astray

(* No stray is added when the lock stays where it is and the worker that moves  *)
(* goes from the song to the song, leaves it, or holds the lock.               *)
LEMMA MoveKeeps ==
  ASSUME LockInv, NEW w \in Workers, NEW st, Moves(w, st), UNCHANGED <<lock, expiries>>,
         st \in {"read", "submit", "refund", "fail", "save", "link", "delete"} => lock = w \/ Astray(w)
  PROVE  LockInv'
  <1>1. Strays' \subseteq Strays
    BY DEF Strays, Astray, Moves
  <1> QED
    BY <1>1, NoNewStray DEF LockInv, Moves

-------------------------------------------------------------------------------
(* What a worker does to its handler and the lock. *)
LEMMA Submits ==
  ASSUME LockInv, NEW w \in Workers, Submit(w)
  PROVE  LockInv'
  <1> USE DEF LockInv, Doing
  <1>1. CASE TakeLock(w)
    <2>1. Moves(w, "read") /\ lock' = w /\ expiries' = expiries
      BY <1>1, GoesMoves DEF TakeLock
    <2>2. lock \notin Workers
      BY <1>1, QueueAssumption DEF TakeLock, LockFree
    <2>3. Strays' \subseteq Strays
      BY <2>1, <2>2 DEF Strays, Astray, Moves
    <2> QED
      BY <2>1, <2>3, NoNewStray DEF Moves
  <1>2. CASE LockFails(w)
    <2>1. Moves(w, "end") /\ expiries' = expiries
      BY <1>2, EndsMoves DEF LockFails
    <2>2. lock' = lock \/ lock \notin Workers
      BY <1>2, QueueAssumption DEF LockFails, LockFree
    <2>3. Strays' \subseteq Strays
      BY <2>1, <2>2 DEF Strays, Astray, Moves
    <2> QED
      BY <2>1, <2>3, NoNewStray DEF Moves
  <1>10. CASE CallThrows(w) \/ SaveThrows(w)
    BY <1>10, EndsMoves, MoveKeeps DEF CallThrows, SaveThrows
  <1>11. CASE UnlockThrows(w)
    <2>1. Moves(w, "end") /\ expiries' = expiries
      BY <1>11, EndsMoves DEF UnlockThrows
    <2>2. lock' = lock \/ lock = w
      BY <1>11 DEF UnlockThrows
    <2>3. Strays' \subseteq Strays
      BY <2>1, <2>2 DEF Strays, Astray, Moves
    <2> QED
      BY <2>1, <2>3, NoNewStray DEF Moves
  <1>3. CASE ReadTask(w)
    <2>1. lock = w \/ Astray(w)
      BY <1>3 DEF ReadTask, Astray
    <2>2. Moves(w, "unlock") \/ Moves(w, "submit")
      BY <1>3, EndsMoves, GoesMoves DEF ReadTask
    <2> QED
      BY <1>3, <2>1, <2>2, MoveKeeps DEF ReadTask
  <1>4. CASE SunoAccepts(w)
    <2>1. lock = w \/ Astray(w)
      BY <1>4 DEF SunoAccepts, Astray
    <2>2. Moves(w, "save")
      BY <1>4, MovesAt DEF SunoAccepts
    <2> QED
      BY <1>4, <2>1, <2>2, MoveKeeps DEF SunoAccepts
  <1>5. CASE SunoRefuses(w) \/ AnswerLost(w) \/ RefundSong(w) \/ SaveTask(w)
    <2>1. lock = w \/ Astray(w)
      BY <1>5 DEF SunoRefuses, AnswerLost, RefundSong, SaveTask, Astray
    <2>2. Moves(w, "refund") \/ Moves(w, "fail") \/ Moves(w, "link")
      BY <1>5, GoesMoves DEF SunoRefuses, AnswerLost, RefundSong, SaveTask
    <2>3. UNCHANGED <<lock, expiries>>
      BY <1>5 DEF SunoRefuses, AnswerLost, RefundSong, SaveTask
    <2> QED
      BY <2>1, <2>2, <2>3, MoveKeeps
  <1>6. CASE FailTask(w) \/ LinkSong(w)
    <2>1. Moves(w, "unlock") /\ UNCHANGED <<lock, expiries>>
      BY <1>6, EndsMoves DEF FailTask, LinkSong
    <2> QED
      BY <2>1, MoveKeeps
  <1>7. CASE ReadLock(w)
    <2>1. IF lock = w THEN Moves(w, "delete") ELSE Moves(w, "end")
      BY <1>7, GoesMoves DEF ReadLock
    <2> QED
      BY <1>7, <2>1, MoveKeeps DEF ReadLock
  <1>8. CASE DeleteLock(w)
    <2>1. /\ Moves(w, "end") /\ expiries' = expiries
          /\ Strays' \subseteq (Strays \ {w}) \cup {lock}
          /\ lock = w => Strays' \subseteq Strays
      <3>1. Moves(w, "end") /\ expiries' = expiries
        BY <1>8, GoesMoves DEF DeleteLock
      <3> QED
        BY <3>1 DEF Strays, Astray, Moves
    <2>2. CASE lock = w
      BY <2>1, <2>2, NoNewStray DEF Moves
    <2>3. CASE lock # w
      <3>1. w \in Strays
        BY <1>8, <2>3 DEF DeleteLock, Strays, Astray
      <3>2. IsFiniteSet(Strays) /\ Cardinality(Strays) \in Nat
        BY StraysFinite
      <3> DEFINE others == Strays \ {w}
      <3>3. IsFiniteSet(others) /\ Cardinality(others) = Cardinality(Strays) - 1
        BY <3>1, <3>2, FS_RemoveElement
      <3>4. /\ IsFiniteSet(others \cup {lock})
            /\ Cardinality(others \cup {lock}) <= Cardinality(Strays)
            /\ Cardinality(others \cup {lock}) \in Nat
        <4>1. IsFiniteSet(others \cup {lock})
          BY <3>3, FS_AddElement
        <4>2. \/ Cardinality(others \cup {lock}) = Cardinality(others)
              \/ Cardinality(others \cup {lock}) = Cardinality(others) + 1
          BY <3>3, FS_AddElement
        <4> HIDE DEF others
        <4> QED
          BY <3>2, <3>3, <4>1, <4>2, FS_CardinalityType
      <3>5. Cardinality(Strays') \in Nat /\ Cardinality(Strays') <= Cardinality(Strays)
        BY <2>1, <3>2, <3>4, FS_Subset, FS_CardinalityType
      <3> QED
        BY <2>1, <3>2, <3>5 DEF Moves, StraysPaidFor
    <2> QED
      BY <2>2, <2>3
  <1>9. CASE LeaveHandler(w)
    <2>1. Moves(w, "rest")
      BY <1>9, MovesAt DEF LeaveHandler, Rests
    <2> QED
      BY <1>9, <2>1, MoveKeeps DEF LeaveHandler
  <1> QED
    BY <1>1, <1>2, <1>3, <1>4, <1>5, <1>6, <1>7, <1>8, <1>9, <1>10, <1>11 DEF Submit

(* A worker that takes a job is before the lock, one that dies leaves the lock *)
(* to its TTL.                                                                 *)
LEMMA ClaimsAndDies ==
  ASSUME LockInv, NEW w \in Workers, ClaimSong(w) \/ WorkerDies(w)
  PROVE  LockInv'
  <1> USE DEF LockInv
  <1>1. CASE ClaimSong(w)
    <2>1. Moves(w, "lock")
      BY <1>1, MovesAt DEF ClaimSong, Begun
    <2> QED
      BY <1>1, <2>1, MoveKeeps DEF ClaimSong
  <1>2. CASE WorkerDies(w)
    <2>1. Moves(w, "rest") /\ expiries' = expiries
      BY <1>2, MovesAt DEF WorkerDies, Rests
    <2>2. lock' = lock \/ lock = w
      BY <1>2 DEF WorkerDies
    <2>3. Strays' \subseteq Strays
      BY <2>1, <2>2 DEF Strays, Astray, Moves
    <2> QED
      BY <2>1, <2>3, NoNewStray DEF Moves
  <1> QED
    BY <1>1, <1>2

(* A lock that expires makes its holder a stray. *)
LEMMA Expires ==
  ASSUME LockInv, LockExpires
  PROVE  LockInv'
  <1>1. Handlers'
    BY DEF LockInv, LockExpires, Handlers, HandlerOf
  <1>2. IsFiniteSet(Strays) /\ Cardinality(Strays) \in Nat
    BY StraysFinite
  <1>3. CASE lock = "orphan"
    <2>1. Strays' \subseteq Strays /\ expiries' = expiries
      BY <1>3, WebAssumption DEF LockExpires, Strays, Astray
    <2> QED
      BY <1>1, <2>1, NoNewStray DEF LockInv
  <1>4. CASE lock # "orphan"
    <2>1. Strays' \subseteq Strays \cup {lock} /\ expiries' = expiries + 1
      BY <1>4 DEF LockExpires, Strays, Astray
    <2>2. /\ IsFiniteSet(Strays \cup {lock})
          /\ Cardinality(Strays \cup {lock}) \in Nat
          /\ Cardinality(Strays \cup {lock}) <= Cardinality(Strays) + 1
      BY <1>2, FS_AddElement, FS_CardinalityType
    <2>3. Cardinality(Strays') \in Nat /\ Cardinality(Strays') <= Cardinality(Strays) + 1
      BY <1>2, <2>1, <2>2, FS_Subset, FS_CardinalityType
    <2> QED
      BY <1>1, <1>2, <2>1, <2>3 DEF LockInv, StraysPaidFor
  <1> QED
    BY <1>3, <1>4

-------------------------------------------------------------------------------
LEMMA LockInvInit ==
  ASSUME WebInit PROVE LockInv
  <1>1. Handlers
    BY DEF WebInit, Handlers, HandlerOf, Rests
  <1>2. Strays = {} /\ expiries = 0
    BY DEF WebInit, Strays, Astray, Rests
  <1> QED
    BY <1>1, <1>2, FS_EmptySet DEF LockInv, StraysPaidFor

LEMMA LockInvNext ==
  ASSUME LockInv, [WebNext]_webVars PROVE LockInv'
  <1>1. CASE \E s \in Songs : Create(s)
    <2>1. UNCHANGED <<fulfil, lock, expiries>>
      BY <1>1 DEF Create, Charge, Track, InsertTask, EnqueueSong, LinkRequest, RequestFails,
                  RequestDies
    <2> QED
      BY <2>1, Untouched
  <1>2. CASE \E w \in Workers : Submit(w)
    BY <1>2, Submits
  <1>3. CASE \E w \in Workers : ClaimSong(w) \/ WorkerDies(w)
    BY <1>3, ClaimsAndDies
  <1>4. CASE \E w \in Workers : StartWorker(w) \/ Sweep(w) \/ MarkJob(w)
    <2>1. UNCHANGED songVars
      BY <1>4 DEF StartWorker, Sweep, MarkJob
    <2> QED
      BY <2>1, Untouched DEF songVars
  <1>5. CASE \E id \in Ids : (BecomeDue(id) \/ LockAges(id)) /\ UNCHANGED songVars
    BY <1>5, Untouched DEF songVars
  <1>6. CASE LockExpires
    BY <1>6, Expires
  <1>7. CASE \E s \in Songs : \E g \in DOMAIN gens[s] :
               SunoEnds(s, g) \/ \E h \in Hooks : CallbackRead(h, s, g)
    BY <1>7, Untouched DEF SunoEnds, CallbackRead
  <1>8. CASE \E h \in Hooks : (\E s \in Songs : PollRead(h, s)) \/ WriteStatus(h)
                              \/ CallbackRefund(h) \/ HookDies(h)
    BY <1>8, Untouched DEF PollRead, WriteStatus, CallbackRefund, HookDies
  <1>9. CASE UNCHANGED webVars
    BY <1>9, Untouched DEF webVars, songVars
  <1> QED
    BY <1>1, <1>2, <1>3, <1>4, <1>5, <1>6, <1>7, <1>8, <1>9 DEF WebNext

(* All workers inside are strays, but for the one that holds the lock. *)
LEMMA LockInvBounds ==
  ASSUME LockInv PROVE OneSubmitAtATime
  <1> DEFINE inside == {w \in Workers : Submitting(w)}
  <1>1. inside \subseteq Strays \cup {lock}
    BY DEF Submitting, Strays, Astray
  <1>2. IsFiniteSet(Strays) /\ Cardinality(Strays) \in Nat
    BY StraysFinite
  <1>3. /\ IsFiniteSet(Strays \cup {lock})
        /\ Cardinality(Strays \cup {lock}) \in Nat
        /\ Cardinality(Strays \cup {lock}) <= Cardinality(Strays) + 1
    BY <1>2, FS_AddElement, FS_CardinalityType
  <1>4. Cardinality(inside) \in Nat /\ Cardinality(inside) <= Cardinality(Strays) + 1
    BY <1>1, <1>2, <1>3, FS_Subset, FS_CardinalityType
  <1> QED
    BY <1>2, <1>4 DEF LockInv, StraysPaidFor, OneSubmitAtATime

(* However many songs wait and workers serve them, at most one worker more than *)
(* locks have expired under their holders is between its look at the task row   *)
(* and the answer of Suno: the GET and DEL of _release_web_suno_lock, which can *)
(* delete the lock of another worker, cost no more than the expiry before them. *)
THEOREM OneSubmitAtATimeAlways == WebSpec => []OneSubmitAtATime
  <1>1. WebInit => LockInv
    BY LockInvInit
  <1>2. LockInv /\ [WebNext]_webVars => LockInv'
    BY LockInvNext
  <1>3. LockInv => OneSubmitAtATime
    BY LockInvBounds
  <1> QED
    BY <1>1, <1>2, <1>3, PTL DEF WebSpec

-------------------------------------------------------------------------------
(* The queue under the songs.  An API process that dies counts as a crash, and *)
(* changes nothing else of the queue.                                          *)
QueueInv == TypeOK /\ HolderHandles

ApiDies ==
  /\ UNCHANGED <<jobs, worker, intent, overruns>>
  /\ crashes < MaxCrashes /\ crashes' = crashes + 1

LEMMA SongsMoveQueue ==
  ASSUME [WebNext]_webVars PROVE [Next]_vars \/ ApiDies
<1>1. CASE \E s \in Songs : EnqueueSong(s)
  BY <1>1 DEF EnqueueSong, Songs, Next
<1>2. CASE (\E s \in Songs : RequestDies(s)) \/ (\E h \in Hooks : HookDies(h))
  BY <1>2 DEF RequestDies, HookDies, ApiDies
<1>3. CASE \E s \in Songs : Charge(s) \/ Track(s) \/ InsertTask(s) \/ LinkRequest(s)
                            \/ RequestFails(s)
  BY <1>3 DEF Charge, Track, InsertTask, LinkRequest, RequestFails
<1>4. CASE \E w \in Workers : StartWorker(w) \/ Sweep(w) \/ ClaimSong(w) \/ MarkJob(w)
                              \/ WorkerDies(w)
  BY <1>4 DEF StartWorker, Sweep, ClaimSong, MarkJob, WorkerDies, Next
<1>5. CASE \E w \in Workers : LeaveHandler(w)
  BY <1>5 DEF LeaveHandler, Next, Handler
<1>6. CASE \E w \in Workers :
             TakeLock(w) \/ LockFails(w) \/ ReadTask(w) \/ CallThrows(w) \/ SaveThrows(w)
             \/ UnlockThrows(w) \/ SunoAccepts(w) \/ SunoRefuses(w)
             \/ AnswerLost(w) \/ RefundSong(w) \/ FailTask(w) \/ SaveTask(w) \/ LinkSong(w)
             \/ ReadLock(w) \/ DeleteLock(w)
  BY <1>6 DEF TakeLock, LockFails, CallThrows, SaveThrows, UnlockThrows, ReadTask, SunoAccepts,
              SunoRefuses, AnswerLost, RefundSong,
              FailTask, SaveTask, LinkSong, ReadLock, DeleteLock
<1>7. CASE \E id \in Ids : (BecomeDue(id) \/ LockAges(id)) /\ UNCHANGED songVars
  BY <1>7 DEF Next
<1>8. CASE LockExpires
  BY <1>8 DEF LockExpires
<1>9. CASE \E s \in Songs : \E g \in DOMAIN gens[s] :
             SunoEnds(s, g) \/ \E h \in Hooks : CallbackRead(h, s, g)
  BY <1>9 DEF SunoEnds, CallbackRead
<1>10. CASE \E h \in Hooks :
              (\E s \in Songs : PollRead(h, s)) \/ WriteStatus(h) \/ CallbackRefund(h)
  BY <1>10 DEF PollRead, WriteStatus, CallbackRefund
<1>11. CASE UNCHANGED webVars
  BY <1>11 DEF webVars
<1>12. QED
  BY <1>1, <1>2, <1>3, <1>4, <1>5, <1>6, <1>7, <1>8, <1>9, <1>10, <1>11
     DEF WebNext, Create, Submit

LEMMA QueueInvInit ==
  ASSUME WebInit PROVE QueueInv
<1>1. Init
  BY DEF WebInit
<1>2. TypeOK
  BY <1>1, InitTypeOK
<1>3. QED
  BY <1>1, <1>2 DEF Init, QueueInv, HolderHandles, Down, Busy

LEMMA QueueInvNext ==
  ASSUME QueueInv, [WebNext]_webVars PROVE QueueInv'
<1>1. CASE [Next]_vars
  BY <1>1, StepTypeOK, NextEffect, StepHolderHandles DEF QueueInv
<1>2. CASE ApiDies
  <2>1. crashes' \in 0..MaxCrashes
    BY <1>2, QueueAssumption DEF ApiDies, QueueInv, TypeOK
  <2>2. TypeOK'
    BY <1>2, <2>1 DEF ApiDies, QueueInv, TypeOK, Ids
  <2>3. HolderHandles'
    BY <1>2 DEF ApiDies, QueueInv, HolderHandles
  <2>4. QED
    BY <2>2, <2>3 DEF QueueInv
<1>3. QED
  BY <1>1, <1>2, SongsMoveQueue

(* Two workers on one job that was never reclaimed are the holder of its lock. *)
LEMMA OneOn ==
  ASSUME QueueInv, NEW v \in Workers, NEW w \in Workers,
         worker[v].at \in Busy, worker[w].at \in Busy, worker[v].id = worker[w].id,
         jobs[worker[w].id].reclaims = 0
  PROVE  v = w
BY DEF QueueInv, HolderHandles

(* The song of a worker that has a job in hand, and of a job. *)
LEMMA SongTypes ==
  ASSUME QueueInv
  PROVE  /\ \A id \in Ids : jobs[id] \in Row /\ jobs[id].kind \in Songs /\ jobs[id].reclaims \in Nat
         /\ \A w \in Workers : worker[w].at \in Busy => worker[w].id \in Ids /\ SongOf(w) \in Songs
         /\ \A w \in Workers : At(w, "handling") => worker[w].at \in Busy
<1>1. \A id \in Ids : jobs[id] \in Row
  BY LenProperties, ElementOfSeq DEF QueueInv, TypeOK, Ids
<1>2. \A id \in Ids : jobs[id].kind \in Songs /\ jobs[id].reclaims \in Nat
  BY <1>1 DEF Row, Songs
<1>3. QED
  BY <1>1, <1>2 DEF QueueInv, TypeOK, SongOf, At, Busy

(* Rows stay, keep their song, and are reclaimed once more at most. *)
LEMMA RowsStay ==
  ASSUME QueueInv, [WebNext]_webVars
  PROVE  /\ Ids \subseteq Ids'
         /\ \A id \in Ids : /\ RowStep(id)
                            /\ jobs'[id].kind = jobs[id].kind
                            /\ jobs'[id].reclaims \in Nat
                            /\ jobs'[id].reclaims = 0 => jobs[id].reclaims = 0
<1>1. /\ Ids \subseteq Ids'
      /\ \A id \in Ids : RowStep(id) /\ jobs'[id].kind = jobs[id].kind
  <2>1. CASE [Next]_vars
    BY <2>1, NextEffect, KindsKept DEF QueueInv, StepEffect, Kept, Same
  <2>2. CASE ApiDies
    BY <2>2 DEF ApiDies, Ids, RowStep
  <2>3. QED
    BY <2>1, <2>2, SongsMoveQueue
<1>2. \A id \in Ids : jobs[id].reclaims \in Nat
  BY SongTypes
<1>3. QED
  BY <1>1, <1>2 DEF RowStep, Touched, TakenBack, ClaimedBy, MarkedBy

(* The steps of the queue and of the workers' loops, but for the enqueue. *)
LoopStep ==
  \/ \E w \in Workers : StartWorker(w) \/ Sweep(w) \/ ClaimSong(w) \/ MarkJob(w)
                        \/ WorkerDies(w) \/ LeaveHandler(w)
  \/ \E id \in Ids : (BecomeDue(id) \/ LockAges(id)) /\ UNCHANGED songVars

(* What becomes of a worker in such a step: nothing; it has no job any more,   *)
(* and if it did not die it had marked it; it has claimed one; or it is        *)
(* through with the one it had.                                                *)
CopyMove(w) ==
  \/ worker'[w] = worker[w] /\ fulfil'[w] = fulfil[w]
  \/ worker'[w].at = "down"
  \/ worker'[w].at = "idle" /\ worker[w].at \in {"down", "returned", "raised"}
  \/ /\ worker[w].at = "idle" /\ worker'[w].at = "handling" /\ fulfil'[w].at = "lock"
     /\ worker'[w].id \in Ids /\ jobs[worker'[w].id].status \in {"queued", "delayed"}
  \/ /\ worker'[w].id = worker[w].id
     /\ \/ Doing(w, "end") /\ worker'[w].at = IF fulfil[w].raised THEN "raised" ELSE "returned"
        \/ worker[w].at = "returned" /\ worker'[w].at = "raised"

LEMMA LoopSteps ==
  ASSUME QueueInv, WebTypeOK, LoopStep
  PROVE  /\ Ids' = Ids
         /\ UNCHANGED <<request, debit, refunds, task, gens, hook, lost, aborts, expiries>>
         /\ \A w \in Workers : CopyMove(w)
<1>a. /\ worker \in [Workers -> [at : Stages, id : Nat, tries : Nat]]
      /\ DOMAIN fulfil = Workers
      /\ \A w \in Workers : worker[w].at \in Busy => worker[w].id \in Ids
  BY DEF QueueInv, TypeOK, WebTypeOK
<1>1. ASSUME NEW w \in Workers, StartWorker(w) \/ Sweep(w)
      PROVE  /\ Ids' = Ids
             /\ UNCHANGED songVars
             /\ \A v \in Workers : CopyMove(v)
  BY <1>1, <1>a DEF StartWorker, Sweep, Start, SweepStale, RequeueStale, Rest, Idle, Ids, CopyMove,
                    At, songVars
<1>2. ASSUME NEW w \in Workers, ClaimSong(w)
      PROVE  /\ Ids' = Ids
             /\ UNCHANGED <<moneyVars, task, gens, hook, lost, aborts, expiries>>
             /\ \A v \in Workers : CopyMove(v)
  <2>1. PICK id \in Ids :
          /\ jobs[id].status \in {"queued", "delayed"}
          /\ jobs' = [jobs EXCEPT ![id] = Claimed(jobs[id], w)]
          /\ worker' = [worker EXCEPT ![w] =
               [at |-> "handling", id |-> id, tries |-> jobs[id].attempts + 1]]
    BY <1>2 DEF ClaimSong, Claim, Candidates, Claimable
  <2>2. Ids' = Ids
    BY <2>1 DEF Ids
  <2>3. worker'[w].at = "handling" /\ worker'[w].id = id /\ fulfil'[w].at = "lock"
        /\ worker[w].at = "idle"
    BY <2>1, <1>2, <1>a DEF ClaimSong, Claim, At, Begun
  <2>4. \A v \in Workers \ {w} : worker'[v] = worker[v] /\ fulfil'[v] = fulfil[v]
    BY <2>1, <1>2, <1>a DEF ClaimSong
  <2>5. \A v \in Workers : CopyMove(v)
    <3>1. CopyMove(w)
      BY <2>1, <2>3 DEF CopyMove
    <3>2. QED
      BY <2>4, <3>1 DEF CopyMove
  <2>6. QED
    BY <2>2, <2>5, <1>2 DEF ClaimSong
<1>3. ASSUME NEW w \in Workers, WorkerDies(w)
      PROVE  /\ Ids' = Ids
             /\ UNCHANGED <<moneyVars, task, gens, hook, lost, aborts, expiries>>
             /\ \A v \in Workers : CopyMove(v)
  BY <1>3, <1>a DEF WorkerDies, Crash, Down, Ids, CopyMove
<1>4. ASSUME NEW w \in Workers, LeaveHandler(w)
      PROVE  /\ Ids' = Ids
             /\ UNCHANGED <<moneyVars, task, gens, hook, lost, aborts, expiries>>
             /\ \A v \in Workers : CopyMove(v)
  <2>1. PICK stage : /\ worker' = [worker EXCEPT ![w] = [worker[w] EXCEPT !.at = stage]]
                     /\ stage = IF fulfil[w].raised THEN "raised" ELSE "returned"
    BY <1>4 DEF LeaveHandler, HandlerReturns, HandlerRaises, GoTo
  <2>2. worker'[w].at = stage /\ worker'[w].id = worker[w].id
    BY <2>1, <1>a
  <2>3. \A v \in Workers \ {w} : worker'[v] = worker[v] /\ fulfil'[v] = fulfil[v]
    BY <2>1, <1>4, <1>a DEF LeaveHandler
  <2>4. Doing(w, "end") /\ Ids' = Ids
    BY <1>4 DEF LeaveHandler, HandlerReturns, HandlerRaises, Ids
  <2>5. CopyMove(w)
    BY <2>1, <2>2, <2>4 DEF CopyMove
  <2>6. \A v \in Workers : CopyMove(v)
    BY <2>3, <2>5 DEF CopyMove
  <2>7. QED
    BY <2>4, <2>6, <1>4 DEF LeaveHandler
<1>5. ASSUME NEW w \in Workers, MarkJob(w)
      PROVE  /\ Ids' = Ids
             /\ UNCHANGED songVars
             /\ \A v \in Workers : CopyMove(v)
  <2>1. CASE MarkDone(w) \/ MarkFailedOrRetry(w)
    <3>1. Ids' = Ids
      BY <2>1, <1>a DEF MarkDone, MarkFailedOrRetry, Ids
    <3>2. worker'[w].at = "idle" /\ worker[w].at \in {"returned", "raised"}
      BY <2>1, <1>a DEF MarkDone, MarkFailedOrRetry, Rest, Idle, At
    <3>3. \A v \in Workers \ {w} : worker'[v] = worker[v]
      BY <2>1, <1>a DEF MarkDone, MarkFailedOrRetry, Rest
    <3>4. QED
      BY <3>1, <3>2, <3>3, <1>5 DEF MarkJob, songVars, CopyMove
  <2>2. CASE MarkDoneFails(w)
    <3>1. /\ worker[w].at = "returned" /\ worker'[w].at = "raised"
          /\ worker'[w].id = worker[w].id /\ Ids' = Ids
      BY <2>2, <1>a DEF MarkDoneFails, GoTo, At, Ids
    <3>2. \A v \in Workers \ {w} : worker'[v] = worker[v]
      BY <2>2, <1>a DEF MarkDoneFails, GoTo
    <3>3. QED
      BY <3>1, <3>2, <1>5 DEF MarkJob, songVars, CopyMove
  <2>3. QED
    BY <2>1, <2>2, <1>5 DEF MarkJob, Mark
<1>6. ASSUME NEW id \in Ids, BecomeDue(id) \/ LockAges(id), UNCHANGED songVars
      PROVE  /\ Ids' = Ids
             /\ UNCHANGED songVars
             /\ \A v \in Workers : CopyMove(v)
  BY <1>6 DEF BecomeDue, LockAges, Ids, CopyMove, songVars
<1>7. QED
  BY <1>1, <1>2, <1>3, <1>4, <1>5, <1>6 DEF LoopStep, songVars, moneyVars

-------------------------------------------------------------------------------
(* The types alone, without what WebTypeOK says of the jobs and generations. *)
Places   == {"rest", "lock", "read", "submit", "refund", "fail", "save", "link", "unlock",
             "delete", "end"}
HandlerT == [at : Places, gen : Nat, raised : BOOLEAN]
TaskT    == [status : Outcomes \cup {"none", "PENDING"}, external : Nat]
HookT    == [at : {"off", "update", "refund"}, song : Songs \cup {NoSong},
             outcome : Outcomes \cup {"PENDING"}, prior : Outcomes \cup {"none", "PENDING"}, poll : BOOLEAN]

MoneyTypes ==
  /\ request \in [Songs -> {"none", "charged", "tracked", "inserted", "enqueued", "linked", "over"}]
  /\ debit \in [Songs -> {"none", "reservation", "task"}]
  /\ refunds \in [Songs -> SUBSET {"reservation", "debit", "task"}]

SongTypesOK ==
  /\ task \in [Songs -> TaskT]
  /\ gens \in [Songs -> Seq(Outcomes \cup {"running"})]
  /\ lost \in [Songs -> 0..MaxLost] /\ aborts \in [Songs -> Nat]

WorkTypes ==
  /\ lock \in Workers \cup {NoWorker, "orphan"}
  /\ fulfil \in [Workers -> HandlerT]
  /\ expiries \in 0..MaxExpiries

HookTypes ==
  /\ hook \in [Hooks -> HookT]
  /\ \A h \in Hooks : hook[h].at # "off" => hook[h].song \in Songs

WebTypes == MoneyTypes /\ SongTypesOK /\ WorkTypes /\ HookTypes

(* A job's song was charged and has its row, a row names only what Suno accepted. *)
Rooted   == \A id \in Ids : debit[jobs[id].kind] # "none" /\ task[jobs[id].kind].status # "none"
NamesGen == \A s \in Songs : task[s].external <= Len(gens[s])

LEMMA TypeParts == WebTypes /\ Rooted /\ NamesGen => WebTypeOK
BY DEF WebTypes, MoneyTypes, SongTypesOK, WorkTypes, HookTypes, Rooted, NamesGen, WebTypeOK,
       HandlerT, Places, TaskT, HookT

LEMMA WebTypesInit ==
  ASSUME WebInit PROVE WebTypes
<1>1. MoneyTypes
  BY DEF WebInit, MoneyTypes
<1>2. SongTypesOK
  BY WebAssumption DEF WebInit, SongTypesOK, TaskT
<1>3. WorkTypes
  BY WebAssumption DEF WebInit, WorkTypes, HandlerT, Places, Rests
<1>4. HookTypes
  BY DEF WebInit, HookTypes, HookT, Off, Outcomes
<1>5. QED
  BY <1>1, <1>2, <1>3, <1>4 DEF WebTypes

(* What a request does to the columns of its song. *)
LEMMA RequestEffects ==
  ASSUME NEW s \in Songs, Create(s)
  PROVE  /\ \/ Request(s, "none", "charged") /\ debit' = [debit EXCEPT ![s] = "reservation"]
            \/ Request(s, "charged", "tracked") /\ UNCHANGED debit
            \/ Request(s, "tracked", "inserted") /\ UNCHANGED debit
               /\ task' = [task EXCEPT ![s] = [task[s] EXCEPT !.status = "PENDING"]]
            \/ Request(s, "inserted", "enqueued") /\ EnqueueSong(s) /\ UNCHANGED debit
            \/ Request(s, "enqueued", "linked") /\ debit' = [debit EXCEPT ![s] = "task"]
            \/ /\ request[s] \in {"charged", "tracked", "inserted", "enqueued"}
               /\ request' = [request EXCEPT ![s] = "over"] /\ UNCHANGED debit
         /\ EnqueueSong(s) \/ UNCHANGED <<jobs, worker>>
         /\ refunds' = refunds \/ \E keys \in SUBSET {"reservation", "debit"} :
                                  refunds' = [refunds EXCEPT ![s] = refunds[s] \cup keys]
         /\ \/ UNCHANGED task
            \/ /\ request[s] = "tracked"
               /\ task' = [task EXCEPT ![s] = [task[s] EXCEPT !.status = "PENDING"]]
         /\ UNCHANGED <<gens, lost, aborts, lock, fulfil, expiries, hook>>
<1>1. \/ Request(s, "none", "charged") /\ debit' = [debit EXCEPT ![s] = "reservation"]
      \/ Request(s, "charged", "tracked") /\ UNCHANGED debit
      \/ Request(s, "tracked", "inserted") /\ UNCHANGED debit
         /\ task' = [task EXCEPT ![s] = [task[s] EXCEPT !.status = "PENDING"]]
      \/ Request(s, "inserted", "enqueued") /\ EnqueueSong(s) /\ UNCHANGED debit
      \/ Request(s, "enqueued", "linked") /\ debit' = [debit EXCEPT ![s] = "task"]
      \/ /\ request[s] \in {"charged", "tracked", "inserted", "enqueued"}
         /\ request' = [request EXCEPT ![s] = "over"] /\ UNCHANGED debit
  BY DEF Create, Charge, Track, InsertTask, EnqueueSong, LinkRequest, RequestFails, RequestDies,
         LinkDebit
<1>2. EnqueueSong(s) \/ UNCHANGED <<jobs, worker>>
  BY DEF Create, Charge, Track, InsertTask, LinkRequest, RequestFails, RequestDies, vars
<1>3. refunds' = refunds \/ \E keys \in SUBSET {"reservation", "debit"} :
                             refunds' = [refunds EXCEPT ![s] = refunds[s] \cup keys]
  <2>1. CASE RequestFails(s)
    BY <2>1 DEF RequestFails, RefundByReference
  <2>2. QED
    BY <2>1 DEF Create, Charge, Track, InsertTask, EnqueueSong, LinkRequest, RequestDies
<1>4. \/ UNCHANGED task
      \/ /\ request[s] = "tracked"
         /\ task' = [task EXCEPT ![s] = [task[s] EXCEPT !.status = "PENDING"]]
  BY DEF Create, Charge, Track, InsertTask, EnqueueSong, LinkRequest, RequestFails, RequestDies,
         Request
<1>5. UNCHANGED <<gens, lost, aborts, lock, fulfil, expiries, hook>>
  BY DEF Create, Charge, Track, InsertTask, EnqueueSong, LinkRequest, RequestFails, RequestDies
<1>6. QED
  BY <1>1, <1>2, <1>3, <1>4, <1>5

LEMMA RequestTypes ==
  ASSUME WebTypes, NEW s \in Songs, Create(s) PROVE WebTypes'
<1> USE DEF WebTypes
<1>1. request' \in [Songs -> {"none", "charged", "tracked", "inserted", "enqueued", "linked", "over"}]
  BY RequestEffects DEF Request, MoneyTypes
<1>2. debit' \in [Songs -> {"none", "reservation", "task"}]
  BY RequestEffects DEF MoneyTypes
<1>3. refunds' \in [Songs -> SUBSET {"reservation", "debit", "task"}]
  BY RequestEffects DEF MoneyTypes
<1>4. [task[s] EXCEPT !.status = "PENDING"] \in TaskT
  BY DEF TaskT, SongTypesOK
<1>5. task' \in [Songs -> TaskT]
  BY <1>4, RequestEffects DEF SongTypesOK
<1>6. QED
  BY <1>1, <1>2, <1>3, <1>5, RequestEffects DEF MoneyTypes, SongTypesOK, WorkTypes, HookTypes

(* The handler of one worker. *)
LEMMA GoesFacts ==
  ASSUME WorkTypes, NEW w \in Workers, NEW st \in Places, Goes(w, st)
  PROVE  /\ fulfil' \in [Workers -> HandlerT]
         /\ fulfil'[w].at = st /\ fulfil'[w].gen = fulfil[w].gen
         /\ fulfil'[w].raised = fulfil[w].raised
         /\ \A v \in Workers \ {w} : fulfil'[v] = fulfil[v]
<1>1. fulfil' = [fulfil EXCEPT ![w] = [fulfil[w] EXCEPT !.at = st]]
  BY DEF Goes
<1>2. [fulfil[w] EXCEPT !.at = st] \in HandlerT
  BY DEF WorkTypes, HandlerT
<1>3. /\ [fulfil[w] EXCEPT !.at = st].at = st /\ [fulfil[w] EXCEPT !.at = st].gen = fulfil[w].gen
      /\ [fulfil[w] EXCEPT !.at = st].raised = fulfil[w].raised
  BY DEF WorkTypes, HandlerT
<1>4. QED
  BY <1>1, <1>2, <1>3 DEF WorkTypes

LEMMA EndsFacts ==
  ASSUME WorkTypes, NEW w \in Workers, NEW st \in Places, NEW raised \in BOOLEAN,
         Ends(w, st, raised)
  PROVE  /\ fulfil' \in [Workers -> HandlerT]
         /\ fulfil'[w].at = st /\ fulfil'[w].raised = raised
         /\ \A v \in Workers \ {w} : fulfil'[v] = fulfil[v]
BY DEF Ends, WorkTypes, HandlerT

(* A worker's step at its song. *)
SubmitStep(w) ==
  \/ TakeLock(w) \/ LockFails(w) \/ ReadTask(w) \/ CallThrows(w)
  \/ SunoAccepts(w) \/ SunoRefuses(w) \/ AnswerLost(w)
  \/ RefundSong(w) \/ FailTask(w) \/ SaveTask(w) \/ SaveThrows(w) \/ LinkSong(w)
  \/ ReadLock(w) \/ DeleteLock(w) \/ UnlockThrows(w)

LEMMA SubmitWorks ==
  ASSUME WebTypes, QueueInv, NEW w \in Workers, SubmitStep(w)
  PROVE  /\ At(w, "handling") /\ worker[w].at \in Busy /\ SongOf(w) \in Songs
         /\ UNCHANGED <<vars, request, hook, expiries>>
         /\ fulfil' \in [Workers -> HandlerT]
         /\ \A v \in Workers \ {w} : fulfil'[v] = fulfil[v]
         /\ lock' \in {lock, w, NoWorker, "orphan"}
<1>1. At(w, "handling") /\ UNCHANGED <<vars, request, hook, expiries>>
     /\ lock' \in {lock, w, NoWorker, "orphan"}
  BY DEF SubmitStep, TakeLock, LockFails, CallThrows, SaveThrows, UnlockThrows, ReadTask,
         SunoAccepts, SunoRefuses, AnswerLost,
         RefundSong, FailTask, SaveTask, LinkSong, ReadLock, DeleteLock, moneyVars, Doing
<1>2. worker[w].at \in Busy /\ SongOf(w) \in Songs
  BY <1>1, SongTypes
<1>3. /\ fulfil' \in [Workers -> HandlerT]
      /\ \A v \in Workers \ {w} : fulfil'[v] = fulfil[v]
  <2>1. CASE \E st \in Places : Goes(w, st)
    BY <2>1, GoesFacts DEF WebTypes
  <2>2. CASE \E st \in Places, raised \in BOOLEAN : Ends(w, st, raised)
    BY <2>2, EndsFacts DEF WebTypes
  <2>3. CASE SunoAccepts(w)
    <3>1. Len(gens[SongOf(w)]) + 1 \in Nat
      BY <1>2, LenProperties DEF WebTypes, SongTypesOK
    <3>2. QED
      BY <2>3, <3>1 DEF SunoAccepts, WebTypes, WorkTypes, HandlerT, Places
  <2>4. QED
    BY <2>1, <2>2, <2>3
       DEF SubmitStep, TakeLock, LockFails, CallThrows, SaveThrows, UnlockThrows, ReadTask,
           SunoRefuses, AnswerLost,
           RefundSong, FailTask, SaveTask, LinkSong, ReadLock, DeleteLock, Places
<1>4. QED
  BY <1>1, <1>2, <1>3

(* What it does to the columns of the song, and from which place. *)
SubmitColumns(w, s) ==
  /\ UNCHANGED debit \/ debit' = [debit EXCEPT ![s] = "task"]
  /\ \/ UNCHANGED refunds
     \/ refunds' = [refunds EXCEPT ![s] = refunds[s] \cup (IF DebitFound(s) THEN {"debit"} ELSE {})]
  /\ \/ UNCHANGED task
     \/ /\ Doing(w, "fail")
        /\ task' = [task EXCEPT ![s] = [task[s] EXCEPT !.status = "FAILED"]]
     \/ /\ Doing(w, "save")
        /\ task' = [task EXCEPT ![s] = [status |-> "PENDING", external |-> fulfil[w].gen]]
  /\ \/ UNCHANGED gens
     \/ Doing(w, "submit") /\ gens' = [gens EXCEPT ![s] = Append(gens[s], "running")]
  /\ UNCHANGED lost \/ (lost' = [lost EXCEPT ![s] = lost[s] + 1] /\ lost[s] < MaxLost)
  /\ UNCHANGED aborts \/ aborts' = [aborts EXCEPT ![s] = aborts[s] + 1]

LEMMA SubmitEffects ==
  ASSUME NEW w \in Workers, SubmitStep(w)
  PROVE  SubmitColumns(w, SongOf(w))
<1>0. PICK s : s = SongOf(w)
  OBVIOUS
<1>1. UNCHANGED debit \/ debit' = [debit EXCEPT ![s] = "task"]
  BY <1>0 DEF SubmitStep, TakeLock, LockFails, CallThrows, SaveThrows, UnlockThrows, ReadTask,
              SunoAccepts, SunoRefuses, AnswerLost,
         RefundSong, FailTask, SaveTask, LinkSong, ReadLock, DeleteLock, LinkDebit,
         moneyVars
<1>2. \/ UNCHANGED refunds
      \/ refunds' = [refunds EXCEPT ![s] = refunds[s] \cup (IF DebitFound(s) THEN {"debit"} ELSE {})]
  BY <1>0 DEF SubmitStep, TakeLock, LockFails, CallThrows, SaveThrows, UnlockThrows, ReadTask,
              SunoAccepts, SunoRefuses, AnswerLost,
         RefundSong, FailTask, SaveTask, LinkSong, ReadLock, DeleteLock, moneyVars,
         RefundByReference
<1>3. \/ UNCHANGED task
      \/ /\ Doing(w, "fail")
         /\ task' = [task EXCEPT ![s] = [task[s] EXCEPT !.status = "FAILED"]]
      \/ /\ Doing(w, "save")
         /\ task' = [task EXCEPT ![s] = [status |-> "PENDING", external |-> fulfil[w].gen]]
  BY <1>0 DEF SubmitStep, TakeLock, LockFails, CallThrows, SaveThrows, UnlockThrows, ReadTask,
              SunoAccepts, SunoRefuses, AnswerLost,
         RefundSong, FailTask, SaveTask, LinkSong, ReadLock, DeleteLock
<1>4. \/ UNCHANGED gens
      \/ Doing(w, "submit") /\ gens' = [gens EXCEPT ![s] = Append(gens[s], "running")]
  BY <1>0 DEF SubmitStep, TakeLock, LockFails, CallThrows, SaveThrows, UnlockThrows, ReadTask,
              SunoAccepts, SunoRefuses, AnswerLost,
         RefundSong, FailTask, SaveTask, LinkSong, ReadLock, DeleteLock
<1>5. UNCHANGED lost \/ (lost' = [lost EXCEPT ![s] = lost[s] + 1] /\ lost[s] < MaxLost)
  BY <1>0 DEF SubmitStep, TakeLock, LockFails, CallThrows, SaveThrows, UnlockThrows, ReadTask,
              SunoAccepts, SunoRefuses, AnswerLost,
         RefundSong, FailTask, SaveTask, LinkSong, ReadLock, DeleteLock
<1>6. UNCHANGED aborts \/ aborts' = [aborts EXCEPT ![s] = aborts[s] + 1]
  BY <1>0 DEF SubmitStep, Aborts, TakeLock, LockFails, CallThrows, SaveThrows, UnlockThrows,
              ReadTask, SunoAccepts, SunoRefuses, AnswerLost,
         RefundSong, FailTask, SaveTask, LinkSong, ReadLock, DeleteLock
<1>7. QED
  BY <1>0, <1>1, <1>2, <1>3, <1>4, <1>5, <1>6 DEF SubmitColumns

LEMMA SubmitTypes ==
  ASSUME WebTypes, QueueInv, NEW w \in Workers, SubmitStep(w) PROVE WebTypes'
<1> USE DEF WebTypes
<1>0. PICK s : s = SongOf(w) /\ SubmitColumns(w, s)
  BY SubmitEffects
<1>1. s \in Songs /\ UNCHANGED <<request, hook, expiries>>
  BY <1>0, SubmitWorks
<1>2. WorkTypes' /\ HookTypes'
  BY SubmitWorks DEF WorkTypes, HookTypes
<1>3. debit' \in [Songs -> {"none", "reservation", "task"}]
  BY <1>0, <1>1 DEF SubmitColumns, MoneyTypes
<1>4. refunds' \in [Songs -> SUBSET {"reservation", "debit", "task"}]
  <2>1. refunds[s] \cup (IF DebitFound(s) THEN {"debit"} ELSE {})
          \in SUBSET {"reservation", "debit", "task"}
    BY <1>1 DEF MoneyTypes
  <2>2. QED
    BY <1>1, <1>0, <2>1 DEF SubmitColumns, MoneyTypes
<1>5. task' \in [Songs -> TaskT]
  <2>1. /\ [task[s] EXCEPT !.status = "FAILED"] \in TaskT
        /\ [status |-> "PENDING", external |-> fulfil[w].gen] \in TaskT
    BY <1>1 DEF SongTypesOK, WorkTypes, HandlerT, TaskT, Outcomes
  <2>2. QED
    BY <1>1, <1>0, <2>1 DEF SubmitColumns, SongTypesOK
<1>6. gens' \in [Songs -> Seq(Outcomes \cup {"running"})]
  <2>1. Append(gens[s], "running") \in Seq(Outcomes \cup {"running"})
    BY <1>1, AppendProperties DEF SongTypesOK
  <2>2. QED
    BY <1>1, <1>0, <2>1 DEF SubmitColumns, SongTypesOK
<1>7. lost' \in [Songs -> 0..MaxLost] /\ aborts' \in [Songs -> Nat]
  <2>1. lost' \in [Songs -> 0..MaxLost]
    <3>1. UNCHANGED lost \/ (lost' = [lost EXCEPT ![s] = lost[s] + 1] /\ lost[s] < MaxLost)
      BY <1>0 DEF SubmitColumns
    <3>2. ASSUME lost[s] < MaxLost PROVE lost[s] + 1 \in 0..MaxLost
      BY <1>1, <3>2, WebAssumption DEF SongTypesOK
    <3>3. QED
      BY <1>1, <3>1, <3>2 DEF SongTypesOK
  <2>2. aborts' \in [Songs -> Nat]
    BY <1>0, <1>1 DEF SubmitColumns, SongTypesOK
  <2>3. QED
    BY <2>1, <2>2
<1>8. QED
  BY <1>1, <1>2, <1>3, <1>4, <1>5, <1>6, <1>7 DEF MoneyTypes, SongTypesOK

(* The loops of the workers, the lock's TTL and Suno. *)
LEMMA LoopTypes ==
  ASSUME WebTypes, WebTypeOK, QueueInv, LoopStep PROVE WebTypes'
<1>1. UNCHANGED <<request, debit, refunds, task, gens, hook, lost, aborts, expiries>>
  BY LoopSteps
<1>2. fulfil' \in [Workers -> HandlerT]
  <2>1. UNCHANGED fulfil \/ \E w \in Workers, st \in HandlerT : fulfil' = [fulfil EXCEPT ![w] = st]
    BY DEF LoopStep, StartWorker, Sweep, ClaimSong, MarkJob, WorkerDies, LeaveHandler, songVars,
           Begun, Rests, HandlerT, Places
  <2>2. QED
    BY <2>1 DEF WebTypes, WorkTypes
<1>3. lock' \in {lock, "orphan"}
  BY DEF LoopStep, StartWorker, Sweep, ClaimSong, MarkJob, WorkerDies, LeaveHandler, songVars
<1>4. QED
  BY <1>1, <1>2, <1>3 DEF WebTypes, MoneyTypes, SongTypesOK, WorkTypes, HookTypes

LEMMA ExpiryTypes ==
  ASSUME WebTypes, LockExpires PROVE WebTypes'
<1>1. expiries' \in 0..MaxExpiries
  BY WebAssumption DEF LockExpires, WebTypes, WorkTypes
<1>2. QED
  BY <1>1 DEF LockExpires, moneyVars, WebTypes, MoneyTypes, SongTypesOK, WorkTypes, HookTypes

LEMMA SunoEndFacts ==
  ASSUME WebTypes, NEW s \in Songs, NEW g \in DOMAIN gens[s], SunoEnds(s, g)
  PROVE  /\ gens' \in [Songs -> Seq(Outcomes \cup {"running"})]
         /\ \A r \in Songs : DOMAIN gens'[r] = DOMAIN gens[r] /\ Len(gens'[r]) = Len(gens[r])
         /\ \A r \in Songs : \A i \in DOMAIN gens[r] : gens[r][i] # "running" => gens'[r][i] = gens[r][i]
<1>1. PICK outcome \in Outcomes : gens' = [gens EXCEPT ![s] = [gens[s] EXCEPT ![g] = outcome]]
  BY DEF SunoEnds, Outcomes
<1>2. gens[s] \in Seq(Outcomes \cup {"running"}) /\ DOMAIN gens[s] = 1..Len(gens[s])
  BY LenProperties DEF WebTypes, SongTypesOK
<1> DEFINE ended == [gens[s] EXCEPT ![g] = outcome]
<1>3. /\ ended \in Seq(Outcomes \cup {"running"}) /\ Len(ended) = Len(gens[s])
      /\ \A i \in 1..Len(gens[s]) : ended[i] = IF i = g THEN outcome ELSE gens[s][i]
  BY <1>2, ExceptSeq
<1>4. DOMAIN ended = DOMAIN gens[s]
  BY <1>2
<1> HIDE DEF ended
<1>5. gens' = [gens EXCEPT ![s] = ended]
  BY <1>1 DEF ended
<1>6. gens'[s] = ended /\ \A r \in Songs \ {s} : gens'[r] = gens[r]
  BY <1>5 DEF WebTypes, SongTypesOK
<1>7. gens' \in [Songs -> Seq(Outcomes \cup {"running"})]
  BY <1>3, <1>5 DEF WebTypes, SongTypesOK
<1>8. gens[s][g] = "running"
  BY DEF SunoEnds
<1>9. QED
  BY <1>2, <1>3, <1>4, <1>6, <1>7, <1>8

(* What a hook does. *)
HookStep(h) ==
  \/ \E s \in Songs : PollRead(h, s) \/ \E g \in DOMAIN gens[s] : CallbackRead(h, s, g)
  \/ WriteStatus(h) \/ CallbackRefund(h) \/ HookDies(h)

(* What is to be written is the outcome of the ended generation the row names,  *)
(* or PENDING for a success without a URL.                                     *)
Sees(s, outcome) ==
  /\ task[s].external # 0 /\ gens[s][task[s].external] # "running"
  /\ outcome \in Persisted(gens[s][task[s].external])

(* A hook that has read is at a song of which it has an outcome. *)
LEMMA ReadFacts ==
  ASSUME WebTypes, NamesGen, NEW h \in Hooks, NEW s \in Songs,
         PollRead(h, s) \/ \E g \in DOMAIN gens[s] : CallbackRead(h, s, g)
  PROVE  /\ task[s].external # 0 /\ task[s].external \in DOMAIN gens[s]
         /\ hook'[h] \in HookT /\ hook' = [hook EXCEPT ![h] = hook'[h]]
         /\ hook'[h].at = "update" /\ hook'[h].song = s
         /\ Sees(s, hook'[h].outcome)
<1>1. /\ gens[s] \in Seq(Outcomes \cup {"running"}) /\ DOMAIN gens[s] = 1..Len(gens[s])
      /\ task[s].external \in Nat /\ task[s].external <= Len(gens[s])
      /\ task[s].status \in Outcomes \cup {"none", "PENDING"}
  BY LenProperties DEF WebTypes, SongTypesOK, TaskT, NamesGen
<1>2. \A g \in DOMAIN gens[s] : gens[s][g] \in Outcomes \cup {"running"}
  BY <1>1, ElementOfSeq
<1>3. CASE \E g \in DOMAIN gens[s] : CallbackRead(h, s, g)
  <2>1. PICK g \in DOMAIN gens[s] : CallbackRead(h, s, g)
    BY <1>3
  <2>a. PICK persist \in Persisted(gens[s][g]) :
          hook' = [hook EXCEPT ![h] = [at |-> "update", song |-> s, outcome |-> persist,
                                       prior |-> task[s].status, poll |-> FALSE]]
    BY <2>1 DEF CallbackRead
  <2> DEFINE seen == [at |-> "update", song |-> s, outcome |-> persist,
                      prior |-> task[s].status, poll |-> FALSE]
  <2>2. task[s].external = g /\ gens[s][g] # "running" /\ hook' = [hook EXCEPT ![h] = seen]
    BY <2>1, <2>a DEF CallbackRead, Recognised
  <2>b. persist \in Outcomes \cup {"PENDING"}
    BY <1>2, <2>2 DEF Persisted, Outcomes
  <2>3. seen \in HookT
    BY <1>1, <2>b DEF HookT
  <2>4. hook'[h] = seen
    BY <2>2 DEF WebTypes, HookTypes
  <2>5. seen.at = "update" /\ seen.song = s /\ seen.outcome = persist
    OBVIOUS
  <2> HIDE DEF seen
  <2>6. g # 0
    BY <1>1
  <2>7. Sees(s, persist)
    BY <2>2, <2>6 DEF Sees
  <2>8. QED
    BY <2>2, <2>3, <2>4, <2>5, <2>6, <2>7
<1>4. CASE PollRead(h, s)
  <2> DEFINE seen == [at |-> "update", song |-> s, outcome |-> gens[s][task[s].external],
                      prior |-> "PENDING", poll |-> TRUE]
  <2>1. /\ task[s].external # 0 /\ gens[s][task[s].external] # "running"
        /\ hook' = [hook EXCEPT ![h] = seen]
    BY <1>4 DEF PollRead, Submitted
  <2>2. task[s].external \in DOMAIN gens[s]
    BY <1>1, <2>1
  <2>3. seen \in HookT
    BY <1>1, <1>2, <2>1, <2>2 DEF HookT
  <2>4. hook'[h] = seen
    BY <2>1 DEF WebTypes, HookTypes
  <2>5. seen.at = "update" /\ seen.song = s /\ seen.outcome = gens[s][task[s].external]
    OBVIOUS
  <2> HIDE DEF seen
  <2>6. Sees(s, seen.outcome)
    BY <2>1, <2>5 DEF Sees, Persisted
  <2>7. QED
    BY <2>1, <2>2, <2>3, <2>4, <2>5, <2>6
<1>5. QED
  BY <1>3, <1>4

LEMMA HookStepTypes ==
  ASSUME WebTypes, NamesGen, NEW h \in Hooks, HookStep(h) PROVE WebTypes'
<1> USE DEF WebTypes
<1>0. Off \in HookT /\ Off.at = "off"
  BY DEF Off, HookT, Outcomes
<1>1. ASSUME NEW s \in Songs, PollRead(h, s) \/ \E g \in DOMAIN gens[s] : CallbackRead(h, s, g)
      PROVE  WebTypes'
  <2>1. UNCHANGED <<moneyVars, task, gens, lost, aborts, lock, fulfil, expiries>>
    BY <1>1 DEF PollRead, CallbackRead
  <2>2. HookTypes'
    BY <1>1, ReadFacts DEF HookTypes
  <2>3. QED
    BY <2>1, <2>2 DEF moneyVars, MoneyTypes, SongTypesOK, WorkTypes
<1>2. CASE WriteStatus(h)
  <2> DEFINE s == hook[h].song
  <2>1. s \in Songs /\ hook[h].outcome \in Outcomes \cup {"PENDING"}
    BY <1>2 DEF WriteStatus, HookTypes, HookT
  <2>2. task' = [task EXCEPT ![s] = [task[s] EXCEPT !.status = hook[h].outcome]]
    BY <1>2 DEF WriteStatus
  <2>3. [task[s] EXCEPT !.status = hook[h].outcome] \in TaskT
    BY <2>1 DEF SongTypesOK, TaskT
  <2>4. hook' = [hook EXCEPT ![h] = [hook[h] EXCEPT !.at = "refund"]] \/ hook' = [hook EXCEPT ![h] = Off]
    BY <1>2 DEF WriteStatus
  <2>5. [hook[h] EXCEPT !.at = "refund"] \in HookT /\ [hook[h] EXCEPT !.at = "refund"].song = s
    BY DEF HookTypes, HookT
  <2>6. HookTypes'
    BY <1>0, <2>1, <2>4, <2>5 DEF HookTypes
  <2>7. SongTypesOK'
    BY <1>2, <2>1, <2>2, <2>3 DEF SongTypesOK, WriteStatus
  <2>8. QED
    BY <1>2, <2>6, <2>7 DEF WriteStatus, moneyVars, MoneyTypes, WorkTypes
<1>3. CASE CallbackRefund(h)
  <2> DEFINE s == hook[h].song
  <2>1. s \in Songs
    BY <1>3 DEF CallbackRefund, HookTypes
  <2>2. refunds[s] \cup {"task"} \in SUBSET {"reservation", "debit", "task"}
    BY <2>1 DEF MoneyTypes
  <2>3. MoneyTypes'
    BY <1>3, <2>1, <2>2 DEF CallbackRefund, MoneyTypes
  <2>4. HookTypes'
    BY <1>0, <1>3 DEF CallbackRefund, HookTypes
  <2>5. QED
    BY <1>3, <2>3, <2>4 DEF CallbackRefund, SongTypesOK, WorkTypes
<1>4. CASE HookDies(h)
  <2>1. HookTypes'
    BY <1>0, <1>4 DEF HookDies, HookTypes
  <2>2. QED
    BY <1>4, <2>1 DEF HookDies, moneyVars, MoneyTypes, SongTypesOK, WorkTypes
<1>5. QED
  BY <1>1, <1>2, <1>3, <1>4 DEF HookStep

(* A step is one of a request, a worker, a loop, the lock, Suno or a hook. *)
LEMMA StepsOfSongs ==
  ASSUME WebNext
  PROVE  \/ \E s \in Songs : Create(s)
         \/ \E w \in Workers : SubmitStep(w)
         \/ LoopStep \/ LockExpires
         \/ \E s \in Songs : \E g \in DOMAIN gens[s] : SunoEnds(s, g)
         \/ \E h \in Hooks : HookStep(h)
BY DEF WebNext, Submit, SubmitStep, LoopStep, HookStep

LEMMA WebTypesNext ==
  ASSUME WebTypes, Rooted, NamesGen, QueueInv, [WebNext]_webVars PROVE WebTypes'
<1>1. ASSUME NEW s \in Songs, NEW g \in DOMAIN gens[s], SunoEnds(s, g) PROVE WebTypes'
  BY <1>1, SunoEndFacts
     DEF SunoEnds, moneyVars, WebTypes, MoneyTypes, SongTypesOK, WorkTypes, HookTypes
<1>2. CASE UNCHANGED webVars
  BY <1>2 DEF webVars, songVars, WebTypes, MoneyTypes, SongTypesOK, WorkTypes, HookTypes
<1>3. QED
  BY <1>1, <1>2, TypeParts, RequestTypes, SubmitTypes, LoopTypes, ExpiryTypes, HookStepTypes,
     StepsOfSongs

-------------------------------------------------------------------------------
(* A request that charged has a debit, one that inserted the row has a row; a job *)
(* was enqueued by its song's request, and a song has at most one of them.        *)
Asked == \A s \in Songs :
  /\ request[s] # "none" => debit[s] # "none"
  /\ request[s] \in {"inserted", "enqueued", "linked"} => task[s].status # "none"

JobAsked   == \A id \in Ids : request[jobs[id].kind] \in {"enqueued", "linked", "over"}
OneJobEach == \A i, j \in Ids : jobs[i].kind = jobs[j].kind => i = j

(* Only a job brings a song to Suno; the worker that saves names a generation. *)
NothingYet == \A s \in Songs : JobsOf(s) = {} => gens[s] = << >> /\ task[s].external = 0
SavesGen   == \A w \in Workers : Doing(w, "save") => fulfil[w].gen \in 1..Len(gens[SongOf(w)])

RootInv == Asked /\ JobAsked /\ OneJobEach /\ NothingYet /\ SavesGen /\ Rooted /\ NamesGen

(* What a song has got it keeps: its debit, its row, the generation it names, its *)
(* generations, its refunds and its aborted attempts.                             *)
Grows(s) ==
  /\ debit[s] # "none" => debit'[s] # "none"
  /\ task[s].status # "none" => task'[s].status # "none"
  /\ task[s].external # 0 => task'[s].external # 0
  /\ Len(gens'[s]) >= Len(gens[s])
  /\ refunds[s] \subseteq refunds'[s]
  /\ aborts'[s] >= aborts[s]

(* A status is written, and the external id stays. *)
LEMMA StatusWritten ==
  ASSUME WebTypes, NEW s \in Songs, NEW status,
         task' = [task EXCEPT ![s] = [task[s] EXCEPT !.status = status]]
  PROVE  /\ task'[s].status = status /\ task'[s].external = task[s].external
         /\ \A r \in Songs \ {s} : task'[r] = task[r]
<1>1. task[s] \in TaskT /\ DOMAIN task = Songs
  BY DEF WebTypes, SongTypesOK
<1>2. /\ [task[s] EXCEPT !.status = status].status = status
      /\ [task[s] EXCEPT !.status = status].external = task[s].external
  BY <1>1 DEF TaskT
<1>3. QED
  BY <1>1, <1>2

LEMMA SongsGrow ==
  ASSUME WebTypes, RootInv, QueueInv, [WebNext]_webVars
  PROVE  \A r \in Songs : Grows(r)
<1> USE DEF WebTypes
<1>0. /\ \A r \in Songs : gens[r] \in Seq(Outcomes \cup {"running"}) /\ Len(gens[r]) \in Nat
      /\ DOMAIN task = Songs /\ DOMAIN gens = Songs /\ DOMAIN debit = Songs
      /\ DOMAIN refunds = Songs /\ DOMAIN aborts = Songs
      /\ \A r \in Songs : task[r] \in TaskT /\ aborts[r] \in Nat
  BY LenProperties DEF SongTypesOK, MoneyTypes
<1>1. ASSUME NEW s \in Songs, Create(s) PROVE \A r \in Songs : Grows(r)
  <2>1. UNCHANGED task \/ task' = [task EXCEPT ![s] = [task[s] EXCEPT !.status = "PENDING"]]
    BY <1>1, RequestEffects
  <2>2. \A r \in Songs : /\ task[r].status # "none" => task'[r].status # "none"
                         /\ task[r].external # 0 => task'[r].external # 0
    BY <2>1, StatusWritten
  <2>3. \A r \in Songs : debit[r] # "none" => debit'[r] # "none"
    <3>1. \/ UNCHANGED debit
          \/ \E ref \in {"reservation", "task"} : debit' = [debit EXCEPT ![s] = ref]
      BY <1>1, RequestEffects
    <3>2. QED
      BY <1>0, <3>1
  <2>4. \A r \in Songs : refunds[r] \subseteq refunds'[r]
    <3>1. refunds' = refunds \/ \E keys \in SUBSET {"reservation", "debit"} :
                                refunds' = [refunds EXCEPT ![s] = refunds[s] \cup keys]
      BY <1>1, RequestEffects
    <3>2. QED
      BY <1>0, <3>1
  <2>5. UNCHANGED <<gens, aborts>>
    BY <1>1, RequestEffects
  <2>6. QED
    BY <1>0, <2>2, <2>3, <2>4, <2>5 DEF Grows
<1>2. ASSUME NEW w \in Workers, SubmitStep(w) PROVE \A r \in Songs : Grows(r)
  <2>0. PICK s : s = SongOf(w) /\ SubmitColumns(w, s)
    BY <1>2, SubmitEffects
  <2>1. s \in Songs
    BY <1>2, <2>0, SubmitWorks
  <2>2. Doing(w, "save") => fulfil[w].gen # 0
    BY <2>0 DEF RootInv, SavesGen
  <2>3. \A r \in Songs : /\ task[r].status # "none" => task'[r].status # "none"
                         /\ task[r].external # 0 => task'[r].external # 0
    <3>1. CASE UNCHANGED task
      BY <3>1
    <3>2. CASE task' = [task EXCEPT ![s] = [task[s] EXCEPT !.status = "FAILED"]]
      BY <2>1, <3>2, StatusWritten
    <3>3. CASE /\ Doing(w, "save")
               /\ task' = [task EXCEPT ![s] = [status |-> "PENDING", external |-> fulfil[w].gen]]
      BY <1>0, <2>1, <2>2, <3>3
    <3>4. QED
      BY <2>0, <3>1, <3>2, <3>3 DEF SubmitColumns
  <2>4. \A r \in Songs : debit[r] # "none" => debit'[r] # "none"
    BY <1>0, <2>0, <2>1 DEF SubmitColumns
  <2>5. \A r \in Songs : refunds[r] \subseteq refunds'[r]
    BY <1>0, <2>0, <2>1 DEF SubmitColumns
  <2>6. \A r \in Songs : Len(gens'[r]) >= Len(gens[r])
    <3>1. Len(Append(gens[s], "running")) = Len(gens[s]) + 1
      BY <1>0, <2>1, AppendProperties
    <3>2. QED
      BY <1>0, <2>0, <2>1, <3>1 DEF SubmitColumns
  <2>7. \A r \in Songs : aborts'[r] >= aborts[r]
    BY <1>0, <2>0, <2>1 DEF SubmitColumns
  <2>8. QED
    BY <2>3, <2>4, <2>5, <2>6, <2>7 DEF Grows
<1>3. ASSUME UNCHANGED <<debit, task, gens, refunds, aborts>> PROVE \A r \in Songs : Grows(r)
  BY <1>0, <1>3 DEF Grows
<1>4. CASE LoopStep
  <2>1. UNCHANGED <<debit, task, gens, refunds, aborts>>
    BY <1>4, LoopSteps, TypeParts DEF RootInv
  <2>2. QED
    BY <2>1, <1>3
<1>5. CASE LockExpires \/ UNCHANGED webVars
  BY <1>3, <1>5 DEF LockExpires, moneyVars, webVars, songVars
<1>6. ASSUME NEW s \in Songs, NEW g \in DOMAIN gens[s], SunoEnds(s, g)
      PROVE  \A r \in Songs : Grows(r)
  <2>1. UNCHANGED <<debit, task, refunds, aborts>>
    BY <1>6 DEF SunoEnds, moneyVars
  <2>2. \A r \in Songs : Len(gens'[r]) = Len(gens[r])
    BY <1>6, SunoEndFacts
  <2>3. QED
    BY <1>0, <2>1, <2>2 DEF Grows
<1>7. ASSUME NEW h \in Hooks, HookStep(h) PROVE \A r \in Songs : Grows(r)
  <2>1. CASE \E s \in Songs : PollRead(h, s) \/ \E g \in DOMAIN gens[s] : CallbackRead(h, s, g)
    BY <1>3, <2>1 DEF PollRead, CallbackRead, moneyVars
  <2>2. CASE HookDies(h)
    BY <1>3, <2>2 DEF HookDies, moneyVars
  <2>3. CASE WriteStatus(h)
    <3>1. UNCHANGED <<debit, gens, refunds, aborts>>
      BY <2>3 DEF WriteStatus, moneyVars
    <3>2. hook[h].song \in Songs /\ hook[h].outcome # "none"
      BY <2>3 DEF WriteStatus, HookTypes, HookT, Outcomes
    <3>3. task' = [task EXCEPT ![hook[h].song] = [task[hook[h].song] EXCEPT !.status = hook[h].outcome]]
      BY <2>3 DEF WriteStatus
    <3>4. \A r \in Songs : /\ task[r].status # "none" => task'[r].status # "none"
                           /\ task[r].external # 0 => task'[r].external # 0
      BY <3>2, <3>3, StatusWritten
    <3>5. QED
      BY <1>0, <3>1, <3>4 DEF Grows
  <2>4. CASE CallbackRefund(h)
    <3>1. UNCHANGED <<debit, task, gens, aborts>>
      BY <2>4 DEF CallbackRefund
    <3>2. \A r \in Songs : refunds[r] \subseteq refunds'[r]
      BY <1>0, <2>4 DEF CallbackRefund
    <3>3. QED
      BY <1>0, <3>1, <3>2 DEF Grows
  <2>5. QED
    BY <1>7, <2>1, <2>2, <2>3, <2>4 DEF HookStep
<1>8. QED
  BY <1>1, <1>2, <1>4, <1>5, <1>6, <1>7, StepsOfSongs

(* A worker that is past the lock after a step of the loops was there before. *)
LEMMA LoopKeepsPlace ==
  ASSUME QueueInv, WebTypeOK, LoopStep, NEW w \in Workers, At(w, "handling")',
         fulfil'[w].at # "lock"
  PROVE  /\ At(w, "handling") /\ worker'[w] = worker[w] /\ fulfil'[w] = fulfil[w]
         /\ worker[w].id \in Ids /\ SongOf(w)' = SongOf(w)
<1>1. CopyMove(w)
  BY LoopSteps
<1>2. worker'[w] = worker[w] /\ fulfil'[w] = fulfil[w]
  BY <1>1 DEF CopyMove, At
<1>3. At(w, "handling") /\ worker[w].id \in Ids
  BY <1>2, SongTypes DEF At
<1>4. [WebNext]_webVars
  BY DEF LoopStep, WebNext, Submit
<1>5. jobs'[worker[w].id].kind = jobs[worker[w].id].kind
  BY <1>3, <1>4, RowsStay
<1>6. QED
  BY <1>2, <1>3, <1>5 DEF SongOf

(* The row a request inserts. *)
LEMMA EnqueueFacts ==
  ASSUME QueueInv, NEW s \in Songs, EnqueueSong(s)
  PROVE  /\ Ids' = Ids \cup {Len(jobs) + 1} /\ Len(jobs) + 1 \notin Ids
         /\ jobs'[Len(jobs) + 1].kind = s /\ jobs'[Len(jobs) + 1].status = "queued"
         /\ jobs'[Len(jobs) + 1].reclaims = 0
         /\ \A id \in Ids : jobs'[id] = jobs[id]
         /\ UNCHANGED <<worker, debit, refunds, task, gens, lock, fulfil, hook, lost, aborts, expiries>>
<1>1. jobs \in Seq(Row) /\ NewRow(s, Len(jobs)) \in Row /\ jobs' = Append(jobs, NewRow(s, Len(jobs)))
  BY NewRowFacts DEF QueueInv, TypeOK, EnqueueSong, Enqueue, Songs
<1>2. /\ jobs' \in Seq(Row) /\ Len(jobs') = Len(jobs) + 1 /\ Len(jobs) \in Nat
      /\ \A i \in 1..Len(jobs) : jobs'[i] = jobs[i]
      /\ jobs'[Len(jobs) + 1] = NewRow(s, Len(jobs))
  BY <1>1, AppendFacts
<1>3. Ids = 1..Len(jobs) /\ Ids' = 1..(Len(jobs) + 1)
  BY <1>1, <1>2, LenProperties DEF Ids
<1>4. QED
  BY <1>2, <1>3 DEF EnqueueSong, Enqueue, NewRow

(* But for the enqueue, a step adds no row. *)
LEMMA NoRowAdded ==
  ASSUME QueueInv, WebTypeOK, [WebNext]_webVars
  PROVE  Ids' = Ids \/ \E s \in Songs : EnqueueSong(s)
<1>1. CASE \E s \in Songs : Create(s)
  BY <1>1, RequestEffects DEF Ids
<1>2. CASE \E w \in Workers : SubmitStep(w)
  BY <1>2 DEF SubmitStep, TakeLock, LockFails, CallThrows, SaveThrows, UnlockThrows, ReadTask,
              SunoAccepts, SunoRefuses, AnswerLost,
         RefundSong, FailTask, SaveTask, LinkSong, ReadLock, DeleteLock, vars, Ids
<1>3. CASE LoopStep
  BY <1>3, LoopSteps
<1>4. CASE LockExpires \/ \E s \in Songs : \E g \in DOMAIN gens[s] : SunoEnds(s, g)
  BY <1>4 DEF LockExpires, SunoEnds, vars, Ids
<1>5. CASE \E h \in Hooks : HookStep(h)
  BY <1>5 DEF HookStep, PollRead, CallbackRead, WriteStatus, CallbackRefund, HookDies, vars, Ids
<1>6. CASE UNCHANGED webVars
  BY <1>6 DEF webVars, vars, Ids
<1>7. QED
  BY <1>1, <1>2, <1>3, <1>4, <1>5, <1>6, StepsOfSongs

LEMMA JobsNext ==
  ASSUME WebTypes, RootInv, QueueInv, [WebNext]_webVars
  PROVE  JobAsked' /\ OneJobEach' /\ Rooted'
<1>0. WebTypeOK
  BY TypeParts DEF RootInv
<1>1. ASSUME NEW id \in Ids
      PROVE  /\ jobs'[id].kind = jobs[id].kind /\ jobs[id].kind \in Songs
             /\ request'[jobs[id].kind] \in {"enqueued", "linked", "over"}
             /\ debit'[jobs[id].kind] # "none" /\ task'[jobs[id].kind].status # "none"
  <2> DEFINE k == jobs[id].kind
  <2>1. jobs'[id].kind = k /\ k \in Songs
    BY RowsStay, SongTypes
  <2>2. debit'[k] # "none" /\ task'[k].status # "none"
    BY <2>1, SongsGrow DEF RootInv, Rooted, Grows
  <2>3. request[k] \in {"enqueued", "linked", "over"}
    BY DEF RootInv, JobAsked
  <2>4. request'[k] \in {"enqueued", "linked", "over"}
    <3>1. ASSUME NEW s \in Songs, Create(s) PROVE request'[k] \in {"enqueued", "linked", "over"}
      <4>1. \/ \E to \in {"linked", "over"} : request' = [request EXCEPT ![s] = to]
            \/ /\ request[s] \in {"none", "charged", "tracked", "inserted"}
               /\ \E to : request' = [request EXCEPT ![s] = to]
        BY <3>1, RequestEffects DEF Request
      <4>2. DOMAIN request = Songs
        BY DEF WebTypes, MoneyTypes
      <4>3. QED
        BY <2>1, <2>3, <4>1, <4>2
    <3>2. ASSUME UNCHANGED request PROVE request'[k] \in {"enqueued", "linked", "over"}
      BY <2>3, <3>2
    <3>3. QED
      BY <1>0, <3>1, <3>2, StepsOfSongs, SubmitWorks, LoopSteps
         DEF LockExpires, SunoEnds, HookStep, PollRead, CallbackRead, WriteStatus, CallbackRefund,
             HookDies, moneyVars, webVars, songVars
  <2>5. QED
    BY <2>1, <2>2, <2>4
<1>2. CASE Ids' = Ids
  BY <1>1, <1>2 DEF RootInv, JobAsked, OneJobEach, Rooted
<1>3. ASSUME NEW s \in Songs, EnqueueSong(s) PROVE JobAsked' /\ OneJobEach' /\ Rooted'
  <2> DEFINE n == Len(jobs) + 1
  <2>1. Ids' = Ids \cup {n} /\ n \notin Ids /\ jobs'[n].kind = s /\ UNCHANGED <<debit, task>>
    BY <1>3, EnqueueFacts
  <2>2. request[s] = "inserted" /\ request'[s] = "enqueued"
    BY <1>3 DEF EnqueueSong, Request, WebTypes, MoneyTypes
  <2>3. \A id \in Ids : jobs[id].kind # s
    BY <2>2 DEF RootInv, JobAsked
  <2>4. debit'[s] # "none" /\ task'[s].status # "none"
    BY <2>1, <2>2 DEF RootInv, Asked
  <2> HIDE DEF n
  <2>5. JobAsked' /\ Rooted'
    BY <1>1, <2>1, <2>2, <2>4 DEF JobAsked, Rooted
  <2>6. OneJobEach'
    BY <1>1, <2>1, <2>3 DEF RootInv, OneJobEach
  <2>7. QED
    BY <2>5, <2>6
<1>4. QED
  BY <1>0, <1>2, <1>3, NoRowAdded

(* A hook changes the status of the song it is at, and nothing else of a row. *)
LEMMA HookEffects ==
  ASSUME NEW h \in Hooks, HookStep(h)
  PROVE  /\ UNCHANGED <<jobs, worker, request, debit, gens, lock, fulfil, lost, aborts, expiries>>
         /\ \/ UNCHANGED task
            \/ \E s : /\ hook[h].at = "update" /\ s = hook[h].song
                      /\ task' = [task EXCEPT ![s] = [task[s] EXCEPT !.status = hook[h].outcome]]
BY DEF HookStep, PollRead, CallbackRead, WriteStatus, CallbackRefund, HookDies, vars, moneyVars

(* The external id of a song's row, and the number of its generations, are those *)
(* of before, but for the worker that has its job.                               *)
LEMMA OnlyItsWorker ==
  ASSUME WebTypes, RootInv, QueueInv, [WebNext]_webVars, NEW r \in Songs,
         ~ \E w \in Workers : SubmitStep(w) /\ SongOf(w) = r
  PROVE  /\ task'[r].external = task[r].external
         /\ Len(gens'[r]) = Len(gens[r]) /\ (gens[r] = << >> => gens'[r] = << >>)
         /\ \A i \in DOMAIN gens[r] : gens[r][i] # "running" => gens'[r][i] = gens[r][i]
         /\ lost'[r] = lost[r]
<1> USE DEF WebTypes
<1>1. ASSUME NEW s \in Songs, Create(s)
      PROVE  UNCHANGED <<gens, lost>> /\ task'[r].external = task[r].external
  BY <1>1, RequestEffects, StatusWritten
<1>2. ASSUME NEW w \in Workers, SubmitStep(w)
      PROVE  task'[r] = task[r] /\ gens'[r] = gens[r] /\ lost'[r] = lost[r]
  <2>0. PICK s : s = SongOf(w) /\ SubmitColumns(w, s)
    BY <1>2, SubmitEffects
  <2>1. s # r
    BY <1>2, <2>0
  <2>2. QED
    BY <2>0, <2>1 DEF SubmitColumns, SongTypesOK
<1>3. CASE LoopStep
  <2>1. UNCHANGED <<task, gens, lost>>
    BY <1>3, LoopSteps, TypeParts DEF RootInv
  <2>2. QED
    BY <2>1
<1>4. CASE LockExpires \/ UNCHANGED webVars
  BY <1>4 DEF LockExpires, webVars, songVars
<1>5. ASSUME NEW s \in Songs, NEW g \in DOMAIN gens[s], SunoEnds(s, g)
      PROVE  /\ UNCHANGED <<task, lost>>
             /\ Len(gens'[r]) = Len(gens[r]) /\ (gens[r] = << >> => gens'[r] = << >>)
             /\ \A i \in DOMAIN gens[r] : gens[r][i] # "running" => gens'[r][i] = gens[r][i]
  <2>1. UNCHANGED <<task, lost>>
    BY <1>5 DEF SunoEnds
  <2>2. gens[r] = << >> => gens'[r] = << >>
    <3>1. gens[r] = << >> => s # r
      OBVIOUS
    <3>2. s # r => gens'[r] = gens[r]
      BY <1>5 DEF SunoEnds, SongTypesOK
    <3>3. QED
      BY <3>1, <3>2
  <2>3. QED
    BY <1>5, <2>1, <2>2, SunoEndFacts
<1>6. ASSUME NEW h \in Hooks, HookStep(h)
      PROVE  UNCHANGED <<gens, lost>> /\ task'[r].external = task[r].external
  <2>1. hook[h].at = "update" => hook[h].song \in Songs
    BY DEF HookTypes
  <2>2. QED
    BY <1>6, <2>1, HookEffects, StatusWritten
<1>7. QED
  BY <1>1, <1>2, <1>3, <1>4, <1>5, <1>6, StepsOfSongs

LEMMA AskedNext ==
  ASSUME WebTypes, RootInv, QueueInv, [WebNext]_webVars PROVE Asked'
<1>0. WebTypeOK
  BY TypeParts DEF RootInv
<1> SUFFICES ASSUME NEW r \in Songs
             PROVE  /\ request'[r] # "none" => debit'[r] # "none"
                    /\ request'[r] \in {"inserted", "enqueued", "linked"} => task'[r].status # "none"
  BY DEF Asked
<1>1. /\ request[r] # "none" => debit'[r] # "none"
      /\ request[r] \in {"inserted", "enqueued", "linked"} => task'[r].status # "none"
  BY SongsGrow DEF RootInv, Asked, Grows
<1>2. ASSUME NEW s \in Songs, Create(s) PROVE request'[r] = request[r]
                                             \/ /\ request'[r] # "none" => debit'[r] # "none"
                                                /\ request'[r] \in {"inserted", "enqueued", "linked"}
                                                   => task'[r].status # "none"
  <2>0. DOMAIN request = Songs /\ DOMAIN debit = Songs
    BY DEF WebTypes, MoneyTypes
  <2>1. CASE r # s
    <3>1. \E to : request' = [request EXCEPT ![s] = to]
      BY <1>2, RequestEffects DEF Request
    <3>2. QED
      BY <2>0, <2>1, <3>1
  <2>2. CASE r = s
    <3>1. CASE request[s] = "none"
      <4>1. request' = [request EXCEPT ![s] = "charged"] /\ debit' = [debit EXCEPT ![s] = "reservation"]
        BY <1>2, <3>1, RequestEffects DEF Request
      <4>2. QED
        BY <2>0, <2>2, <4>1
    <3>2. CASE request[s] # "none"
      <4>1. \/ \E to \in {"tracked", "over"} : request' = [request EXCEPT ![s] = to]
            \/ task' = [task EXCEPT ![s] = [task[s] EXCEPT !.status = "PENDING"]]
            \/ request[s] \in {"inserted", "enqueued"}
        BY <1>2, <3>2, RequestEffects DEF Request
      <4>2. ASSUME task' = [task EXCEPT ![s] = [task[s] EXCEPT !.status = "PENDING"]]
            PROVE  task'[s].status = "PENDING"
        BY <4>2, StatusWritten
      <4>3. QED
        BY <1>1, <2>0, <2>2, <3>2, <4>1, <4>2
    <3>3. QED
      BY <3>1, <3>2
  <2>3. QED
    BY <2>1, <2>2
<1>3. ASSUME UNCHANGED request PROVE request'[r] = request[r]
  BY <1>3
<1>4. QED
  BY <1>0, <1>1, <1>2, <1>3, StepsOfSongs, SubmitWorks, LoopSteps, HookEffects
     DEF LockExpires, SunoEnds, moneyVars, webVars, songVars

LEMMA NothingYetNext ==
  ASSUME WebTypes, RootInv, QueueInv, [WebNext]_webVars PROVE NothingYet'
<1> SUFFICES ASSUME NEW r \in Songs, JobsOf(r)' = {}
             PROVE  gens'[r] = << >> /\ task'[r].external = 0
  BY DEF NothingYet
<1>1. JobsOf(r) = {}
  BY RowsStay DEF JobsOf
<1>2. ASSUME NEW w \in Workers, SubmitStep(w) PROVE SongOf(w) # r
  <2>1. worker[w].id \in Ids
    BY <1>2, SubmitWorks, SongTypes
  <2>2. QED
    BY <1>1, <2>1 DEF JobsOf, SongOf
<1>3. gens[r] = << >> /\ task[r].external = 0
  BY <1>1 DEF RootInv, NothingYet
<1>4. QED
  BY <1>2, <1>3, OnlyItsWorker

(* From where to where a worker goes with its song. *)
PlaceMove(w, from, to) ==
  /\ fulfil[w].at = from /\ fulfil'[w].at = to
  /\ \A v \in Workers \ {w} : fulfil'[v] = fulfil[v]

LEMMA PlaceMoves ==
  ASSUME WebTypes, NEW w \in Workers, SubmitStep(w)
  PROVE  \/ PlaceMove(w, "lock", "read") /\ TakeLock(w)
         \/ PlaceMove(w, "lock", "end") /\ LockFails(w) /\ fulfil'[w].raised
         \/ (PlaceMove(w, "read", "unlock") \/ PlaceMove(w, "refund", "unlock"))
            /\ CallThrows(w) /\ fulfil'[w].raised
         \/ PlaceMove(w, "save", "unlock") /\ SaveThrows(w) /\ fulfil'[w].raised
         \/ PlaceMove(w, "read", "unlock") /\ ReadTask(w) /\ task[SongOf(w)].external # 0
         \/ PlaceMove(w, "read", "submit") /\ ReadTask(w) /\ task[SongOf(w)].external = 0
         \/ PlaceMove(w, "submit", "save") /\ SunoAccepts(w)
         \/ PlaceMove(w, "submit", "refund") /\ (SunoRefuses(w) \/ AnswerLost(w))
         \/ PlaceMove(w, "refund", "fail") /\ RefundSong(w)
         \/ PlaceMove(w, "fail", "unlock") /\ FailTask(w)
         \/ PlaceMove(w, "save", "link") /\ SaveTask(w)
         \/ PlaceMove(w, "link", "unlock") /\ LinkSong(w)
         \/ (PlaceMove(w, "unlock", "delete") \/ PlaceMove(w, "unlock", "end")) /\ ReadLock(w)
            /\ fulfil'[w].raised = fulfil[w].raised
         \/ PlaceMove(w, "delete", "end") /\ DeleteLock(w) /\ fulfil'[w].raised = fulfil[w].raised
         \/ (PlaceMove(w, "unlock", "end") \/ PlaceMove(w, "delete", "end"))
            /\ UnlockThrows(w) /\ fulfil'[w].raised
<1> USE GoesFacts, EndsFacts DEF WebTypes, PlaceMove, Places, Doing
<1>1. CASE TakeLock(w)
  BY <1>1 DEF TakeLock
<1>2. CASE LockFails(w)
  BY <1>2 DEF LockFails
<1>3. CASE ReadTask(w)
  BY <1>3 DEF ReadTask, Submitted
<1>4. CASE SunoAccepts(w)
  BY <1>4 DEF SunoAccepts, WorkTypes
<1>5. CASE SunoRefuses(w) \/ AnswerLost(w)
  BY <1>5 DEF SunoRefuses, AnswerLost
<1>6. CASE RefundSong(w)
  BY <1>6 DEF RefundSong
<1>7. CASE FailTask(w)
  BY <1>7 DEF FailTask
<1>8. CASE SaveTask(w)
  BY <1>8 DEF SaveTask
<1>9. CASE LinkSong(w)
  BY <1>9 DEF LinkSong
<1>10. CASE ReadLock(w)
  BY <1>10 DEF ReadLock
<1>11. CASE DeleteLock(w)
  BY <1>11 DEF DeleteLock
<1>12. CASE CallThrows(w) \/ SaveThrows(w)
  BY <1>12 DEF CallThrows, SaveThrows
<1>13. CASE UnlockThrows(w)
  BY <1>13 DEF UnlockThrows
<1>14. QED
  BY <1>1, <1>2, <1>3, <1>4, <1>5, <1>6, <1>7, <1>8, <1>9, <1>10, <1>11, <1>12, <1>13 DEF SubmitStep

(* A step moves a worker in the loop, or at its song, or not at all; only a step *)
(* of the loops changes a row.                                                    *)
LEMMA WorkerMoves ==
  ASSUME WebTypes, RootInv, QueueInv, [WebNext]_webVars
  PROVE  /\ \A w \in Workers : \/ CopyMove(w)
                               \/ SubmitStep(w) /\ worker'[w] = worker[w] /\ At(w, "handling")
         /\ LoopStep \/ (UNCHANGED worker /\ \A id \in Ids : jobs'[id] = jobs[id])
<1>0. WebTypeOK
  BY TypeParts DEF RootInv
<1>1. ASSUME NEW s \in Songs, Create(s)
      PROVE  UNCHANGED <<worker, fulfil>> /\ \A id \in Ids : jobs'[id] = jobs[id]
  <2>1. CASE EnqueueSong(s)
    BY <2>1, EnqueueFacts
  <2>2. CASE UNCHANGED <<jobs, worker>>
    BY <1>1, <2>2, RequestEffects
  <2>3. QED
    BY <1>1, <2>1, <2>2, RequestEffects
<1>2. ASSUME NEW v \in Workers, SubmitStep(v)
      PROVE  /\ UNCHANGED <<jobs, worker>> /\ At(v, "handling")
             /\ \A w \in Workers \ {v} : fulfil'[w] = fulfil[w]
  BY <1>2, SubmitWorks DEF vars
<1>3. CASE LoopStep
  BY <1>0, <1>3, LoopSteps
<1>4. ASSUME UNCHANGED <<jobs, worker, fulfil>>
      PROVE  (\A w \in Workers : CopyMove(w)) /\ UNCHANGED worker /\ \A id \in Ids : jobs'[id] = jobs[id]
  BY <1>4 DEF CopyMove
<1>5. CASE LockExpires \/ UNCHANGED webVars \/ \E s \in Songs : \E g \in DOMAIN gens[s] : SunoEnds(s, g)
  BY <1>4, <1>5 DEF LockExpires, SunoEnds, vars, webVars, songVars
<1>6. ASSUME NEW h \in Hooks, HookStep(h) PROVE UNCHANGED <<jobs, worker, fulfil>>
  BY <1>6, HookEffects
<1>7. CASE \E s \in Songs : Create(s)
  BY <1>1, <1>7 DEF CopyMove
<1>8. CASE \E v \in Workers : SubmitStep(v)
  BY <1>2, <1>8 DEF CopyMove
<1>9. QED
  BY <1>3, <1>4, <1>5, <1>6, <1>7, <1>8, StepsOfSongs

LEMMA SaveGenNext ==
  ASSUME WebTypes, RootInv, QueueInv, [WebNext]_webVars PROVE SavesGen' /\ NamesGen'
<1>0. WebTypeOK
  BY TypeParts DEF RootInv
<1>1. \A s \in Songs : /\ gens[s] \in Seq(Outcomes \cup {"running"}) /\ Len(gens[s]) \in Nat
                       /\ Len(gens'[s]) \in Nat /\ Len(gens'[s]) >= Len(gens[s])
  BY SongsGrow, WebTypesNext, LenProperties DEF Grows, RootInv, WebTypes, SongTypesOK
<1>2. ASSUME NEW w \in Workers, Doing(w, "save")'
      PROVE  fulfil'[w].gen \in 1..Len(gens'[SongOf(w)'])
  <2>1. ASSUME worker'[w] = worker[w], fulfil'[w] = fulfil[w]
        PROVE  fulfil'[w].gen \in 1..Len(gens'[SongOf(w)'])
    <3>1. Doing(w, "save")
      BY <1>2, <2>1 DEF Doing, At
    <3>2. worker[w].id \in Ids /\ SongOf(w) \in Songs
      BY <3>1, SongTypes DEF Doing
    <3>3. SongOf(w)' = SongOf(w)
      BY <2>1, <3>2, RowsStay DEF SongOf
    <3>4. fulfil[w].gen \in 1..Len(gens[SongOf(w)])
      BY <3>1 DEF RootInv, SavesGen
    <3>5. QED
      BY <1>1, <2>1, <3>2, <3>3, <3>4
  <2>2. CASE SubmitStep(w)
    <3>1. SunoAccepts(w)
      BY <1>2, <2>2, PlaceMoves DEF PlaceMove, Doing
    <3>2. PICK s : s = SongOf(w) /\ s \in Songs
      BY <2>2, SubmitWorks
    <3>3. SongOf(w)' = s
      BY <2>2, <3>2, SubmitWorks DEF SongOf, vars
    <3>4. gens' = [gens EXCEPT ![s] = Append(gens[s], "running")] /\ fulfil'[w].gen = Len(gens[s]) + 1
      BY <3>1, <3>2 DEF SunoAccepts, WebTypes, WorkTypes
    <3>5. Len(gens'[s]) = Len(gens[s]) + 1
      BY <1>1, <3>2, <3>4, AppendProperties DEF WebTypes, SongTypesOK
    <3>6. QED
      BY <1>1, <3>2, <3>3, <3>4, <3>5
  <2>3. CASE CopyMove(w)
    BY <1>2, <2>1, <2>3 DEF CopyMove, Doing, At
  <2>4. QED
    BY <2>2, <2>3, WorkerMoves
<1>3. ASSUME NEW r \in Songs PROVE task'[r].external <= Len(gens'[r])
  <2>1. task[r].external <= Len(gens[r]) /\ task[r].external \in Nat
    BY DEF RootInv, NamesGen, WebTypes, SongTypesOK, TaskT
  <2>2. CASE task'[r].external = task[r].external
    BY <1>1, <2>1, <2>2
  <2>3. ASSUME NEW w \in Workers, SubmitStep(w), SongOf(w) = r
        PROVE  task'[r].external = task[r].external \/ task'[r].external \in 1..Len(gens[r])
    <3>1. SubmitColumns(w, r)
      BY <2>3, SubmitEffects
    <3>2. ASSUME Doing(w, "save"),
                 task' = [task EXCEPT ![r] = [status |-> "PENDING", external |-> fulfil[w].gen]]
          PROVE  task'[r].external \in 1..Len(gens[r])
      BY <2>3, <3>2 DEF RootInv, SavesGen, WebTypes, SongTypesOK
    <3>3. QED
      BY <3>1, <3>2, StatusWritten DEF SubmitColumns
  <2>4. QED
    BY <1>1, <2>1, <2>2, <2>3, OnlyItsWorker
<1>4. QED
  BY <1>2, <1>3 DEF SavesGen, NamesGen

LEMMA RootInvNext ==
  ASSUME WebTypes, RootInv, QueueInv, [WebNext]_webVars PROVE RootInv'
BY JobsNext, AskedNext, NothingYetNext, SaveGenNext DEF RootInv

-------------------------------------------------------------------------------
(* A song that Suno has by name, or that was refunded; a worker that raises       *)
(* nothing, or is past the refund or the saved id, has seen to that.              *)
Settled(s) == task[s].external # 0 \/ refunds[s] # {}

Leaving(w) == At(w, "handling") /\ fulfil[w].at \in {"unlock", "delete", "end"}

Through(w) ==
  \/ worker[w].at = "returned"
  \/ At(w, "handling") /\ fulfil[w].at \in {"fail", "link"}
  \/ Leaving(w) /\ ~fulfil[w].raised

WorkersSettle == \A w \in Workers : Through(w) => Settled(SongOf(w))

(* Of a song that is not settled each attempt is reclaimed, aborted or running;   *)
(* an abort counts for the attempt it ended once its worker has marked the row.   *)
Failing(w)   == worker[w].at = "raised" \/ (Leaving(w) /\ fulfil[w].raised)
Aborted(id)  == {w \in WorkersOn(id) : Failing(w)}
Running(row) == IF row.status = "running" THEN 1 ELSE 0

AttemptsCounted == \A id \in Ids :
  LET row == jobs[id]
  IN  ~Settled(row.kind)
      => row.attempts + Cardinality(Aborted(id)) <= aborts[row.kind] + row.reclaims + Running(row)

LEMMA SettledStays ==
  ASSUME WebTypes, RootInv, QueueInv, [WebNext]_webVars, NEW s \in Songs, Settled(s)
  PROVE  Settled(s)'
<1>1. Grows(s)
  BY SongsGrow
<1>2. QED
  BY <1>1 DEF Grows, Settled

LEMMA ThroughBusy ==
  ASSUME QueueInv, NEW w \in Workers, Through(w)
  PROVE  worker[w].id \in Ids /\ SongOf(w) \in Songs
BY SongTypes DEF Through, Leaving, At, Busy

LEMMA WorkersSettleNext ==
  ASSUME WebTypes, RootInv, QueueInv, WorkersSettle, [WebNext]_webVars
  PROVE  WorkersSettle'
<1> SUFFICES ASSUME NEW w \in Workers, Through(w)' PROVE Settled(SongOf(w))'
  BY DEF WorkersSettle
<1>1. ASSUME Through(w), worker'[w].id = worker[w].id PROVE Settled(SongOf(w))'
  <2>1. PICK s : s = SongOf(w) /\ s \in Songs
    BY <1>1, ThroughBusy
  <2>2. Settled(s)
    BY <1>1, <2>1 DEF WorkersSettle
  <2>3. Settled(s)'
    BY <2>1, <2>2, SettledStays
  <2>4. SongOf(w)' = s
    BY <1>1, <2>1, ThroughBusy, RowsStay DEF SongOf
  <2>5. QED
    BY <2>3, <2>4
<1>2. CASE CopyMove(w)
  <2>1. Through(w) /\ worker'[w].id = worker[w].id
    BY <1>2 DEF CopyMove, Through, Leaving, Doing, At
  <2>2. QED
    BY <1>1, <2>1
<1>3. CASE SubmitStep(w) /\ worker'[w] = worker[w] /\ At(w, "handling")
  <2>1. PICK s : s = SongOf(w) /\ s \in Songs
    BY <1>3, SubmitWorks
  <2>2. SongOf(w)' = s
    BY <1>3, <2>1, SubmitWorks DEF SongOf, vars
  <2>3. SubmitColumns(w, s)
    BY <1>3, <2>1, SubmitEffects
  <2>4. CASE Through(w)
    BY <1>1, <1>3, <2>4
  <2>6. CASE ReadTask(w) /\ task[SongOf(w)].external # 0
    BY <2>1, <2>2, <2>6 DEF ReadTask, Settled
  <2>7. CASE RefundSong(w)
    <3>1. DebitFound(s)
      BY <1>3, <2>1, SubmitWorks, SongTypes DEF RootInv, Rooted, DebitFound, SongOf
    <3>2. refunds' = [refunds EXCEPT ![s] = refunds[s] \cup {"debit"}]
      BY <2>1, <2>7, <3>1 DEF RefundSong, RefundByReference
    <3>3. refunds'[s] # {}
      BY <2>1, <3>2 DEF WebTypes, MoneyTypes
    <3>4. QED
      BY <2>2, <3>3 DEF Settled
  <2>8. CASE SaveTask(w)
    <3>1. task' = [task EXCEPT ![s] = [status |-> "PENDING", external |-> fulfil[w].gen]]
      BY <2>1, <2>8 DEF SaveTask
    <3>2. fulfil[w].gen # 0
      BY <2>8 DEF SaveTask, RootInv, SavesGen
    <3>3. task'[s].external # 0
      BY <2>1, <3>1, <3>2 DEF WebTypes, SongTypesOK
    <3>4. QED
      BY <2>2, <3>3 DEF Settled
  <2>9. \/ fulfil'[w].at \in {"fail", "link"}
        \/ fulfil'[w].at \in {"unlock", "delete", "end"} /\ ~fulfil'[w].raised
    BY <1>3 DEF Through, Leaving, At
  <2>10. fulfil[w].at \in {"fail", "link"} => Through(w)
    BY <1>3 DEF Through
  <2>11. fulfil[w].at \in {"unlock", "delete"} /\ ~fulfil[w].raised => Through(w)
    BY <1>3 DEF Through, Leaving
  <2>12. QED
    BY <1>3, <2>4, <2>6, <2>7, <2>8, <2>9, <2>10, <2>11, PlaceMoves DEF PlaceMove
<1>4. QED
  BY <1>2, <1>3, WorkerMoves

LEMMA AbortedFinite ==
  ASSUME NEW id
  PROVE  IsFiniteSet(Aborted(id)) /\ Cardinality(Aborted(id)) \in Nat
<1>1. Aborted(id) \subseteq Workers
  BY DEF Aborted, WorkersOn
<1>2. QED
  BY <1>1, FS_Subset, FS_CardinalityType, QueueAssumption

(* A worker that comes to fail at an unsettled song has aborted its attempt. *)
LEMMA ComesToFail ==
  ASSUME WebTypes, RootInv, QueueInv, WorkersSettle, [WebNext]_webVars, NEW id \in Ids,
         ~Settled(jobs[id].kind), NEW w \in Aborted(id)', w \notin Aborted(id)
  PROVE  /\ SubmitStep(w) /\ UNCHANGED <<jobs, worker>>
         /\ aborts'[jobs[id].kind] = aborts[jobs[id].kind] + 1
         /\ \A v \in Workers \ {w} : fulfil'[v] = fulfil[v]
<1>1. /\ w \in Workers /\ worker'[w].id = id
      /\ \/ worker'[w].at = "raised"
         \/ /\ worker'[w].at = "handling" /\ fulfil'[w].at \in {"unlock", "delete", "end"}
            /\ fulfil'[w].raised
  BY DEF Aborted, WorkersOn, Failing, Leaving, At
<1>2. ASSUME worker[w].id = id, Through(w) PROVE FALSE
  BY <1>1, <1>2 DEF WorkersSettle, SongOf
<1>3. ASSUME worker[w].id = id, Failing(w) PROVE FALSE
  BY <1>1, <1>3 DEF Aborted, WorkersOn, Failing, Leaving, At, Busy
<1>4. CASE CopyMove(w)
  <2>1. worker[w].id = id
    BY <1>1, <1>4 DEF CopyMove
  <2>2. Through(w) \/ Failing(w)
    BY <1>1, <1>4 DEF CopyMove, Through, Failing, Leaving, Doing, At
  <2>3. QED
    BY <1>2, <1>3, <2>1, <2>2
<1>5. CASE SubmitStep(w) /\ worker'[w] = worker[w] /\ At(w, "handling")
  <2>1. /\ UNCHANGED <<jobs, worker>> /\ \A v \in Workers \ {w} : fulfil'[v] = fulfil[v]
        /\ SongOf(w) \in Songs
    BY <1>1, <1>5, SubmitWorks DEF vars
  <2>2. worker[w].id = id /\ SongOf(w) = jobs[id].kind
    BY <1>1, <1>5 DEF SongOf
  <2>3. /\ fulfil'[w].at \in {"unlock", "delete", "end"} /\ fulfil'[w].raised
        /\ fulfil[w].at \notin {"fail", "link", "unlock", "delete"}
    BY <1>1, <1>2, <1>3, <1>5, <2>2 DEF Through, Failing, Leaving, At
  <2>4. ~ReadTask(w)
    <3>1. SUFFICES ASSUME ReadTask(w) PROVE FALSE
      OBVIOUS
    <3>2. Ends(w, "unlock", FALSE) \/ Goes(w, "submit")
      BY <3>1 DEF ReadTask
    <3>3. QED
      BY <1>1, <2>3, <3>2, EndsFacts, GoesFacts DEF WebTypes, Places
  <2>5. LockFails(w) \/ CallThrows(w) \/ SaveThrows(w)
    BY <1>1, <1>5, <2>3, <2>4, PlaceMoves DEF PlaceMove
  <2>6. aborts' = [aborts EXCEPT ![jobs[id].kind] = aborts[jobs[id].kind] + 1]
    BY <2>2, <2>5 DEF LockFails, CallThrows, SaveThrows, Aborts
  <2>7. QED
    BY <1>5, <2>1, <2>2, <2>6 DEF WebTypes, SongTypesOK
<1>6. QED
  BY <1>1, <1>4, <1>5, WorkerMoves

LEMMA AbortedNext ==
  ASSUME WebTypes, RootInv, QueueInv, WorkersSettle, [WebNext]_webVars, NEW id \in Ids,
         ~Settled(jobs[id].kind)
  PROVE  \/ Cardinality(Aborted(id)') <= Cardinality(Aborted(id))
         \/ /\ Cardinality(Aborted(id)') <= Cardinality(Aborted(id)) + 1
            /\ aborts'[jobs[id].kind] = aborts[jobs[id].kind] + 1
            /\ jobs' = jobs
<1>1. IsFiniteSet(Aborted(id)) /\ Cardinality(Aborted(id)) \in Nat
  BY AbortedFinite
<1>2. CASE Aborted(id)' \subseteq Aborted(id)
  BY <1>1, <1>2, FS_Subset
<1>3. ASSUME NEW w \in Aborted(id)', w \notin Aborted(id)
      PROVE  /\ Cardinality(Aborted(id)') <= Cardinality(Aborted(id)) + 1
             /\ aborts'[jobs[id].kind] = aborts[jobs[id].kind] + 1
             /\ jobs' = jobs
  <2>1. /\ SubmitStep(w) /\ UNCHANGED <<jobs, worker>>
        /\ aborts'[jobs[id].kind] = aborts[jobs[id].kind] + 1
        /\ \A v \in Workers \ {w} : fulfil'[v] = fulfil[v]
    BY <1>3, ComesToFail
  <2>2. Aborted(id)' \subseteq Aborted(id) \cup {w}
    BY <2>1 DEF Aborted, WorkersOn, Failing, Leaving, At
  <2>3. /\ IsFiniteSet(Aborted(id) \cup {w})
        /\ Cardinality(Aborted(id) \cup {w}) = Cardinality(Aborted(id)) + 1
    BY <1>1, <1>3, FS_AddElement
  <2>4. Cardinality(Aborted(id)') <= Cardinality(Aborted(id)) + 1
    BY <2>2, <2>3, FS_Subset
  <2>5. QED
    BY <2>1, <2>4
<1>4. QED
  BY <1>2, <1>3

(* The worker that marks the row of an unsettled song had aborted its attempt. *)
LEMMA MarkerAborted ==
  ASSUME WebTypes, RootInv, QueueInv, WorkersSettle, [WebNext]_webVars, LoopStep, NEW id \in Ids,
         ~Settled(jobs[id].kind), NEW w \in Workers, MarkedBy(id, w)
  PROVE  Cardinality(Aborted(id)') <= Cardinality(Aborted(id)) - 1
<1>0. WebTypeOK
  BY TypeParts DEF RootInv
<1>1. w \in WorkersOn(id) /\ worker'[w].at = "idle" /\ CopyMove(w)
  BY <1>0, LoopSteps DEF MarkedBy
<1>2. worker[w].at \in {"returned", "raised"} /\ worker[w].id = id
  BY <1>1 DEF WorkersOn, CopyMove, Busy
<1>3. worker[w].at # "returned"
  BY <1>2 DEF WorkersSettle, Through, SongOf
<1>4. w \in Aborted(id)
  BY <1>1, <1>2, <1>3 DEF Aborted, Failing
<1>5. w \notin Aborted(id)'
  BY <1>1 DEF Aborted, WorkersOn, Busy
<1>6. Aborted(id)' \subseteq Aborted(id)
  <2>1. SUFFICES ASSUME NEW v \in Aborted(id)', v \notin Aborted(id) PROVE FALSE
    OBVIOUS
  <2>2. UNCHANGED worker
    BY <2>1, ComesToFail
  <2>3. QED
    BY <1>1, <1>2, <2>2
<1>7. Aborted(id)' \subseteq Aborted(id) \ {w}
  BY <1>5, <1>6
<1>8. /\ IsFiniteSet(Aborted(id) \ {w})
      /\ Cardinality(Aborted(id) \ {w}) = Cardinality(Aborted(id)) - 1
  BY <1>4, AbortedFinite, FS_RemoveElement
<1>9. QED
  BY <1>7, <1>8, FS_Subset

LEMMA AttemptsCountedNext ==
  ASSUME WebTypes, RootInv, QueueInv, WorkersSettle, AttemptsCounted, [WebNext]_webVars
  PROVE  AttemptsCounted'
<1>0. WebTypeOK /\ WebTypes' /\ QueueInv'
  BY TypeParts, WebTypesNext, QueueInvNext DEF RootInv
<1> SUFFICES ASSUME NEW id \in Ids', ~Settled(jobs[id].kind)'
             PROVE  jobs'[id].attempts + Cardinality(Aborted(id)')
                    <= aborts'[jobs'[id].kind] + jobs'[id].reclaims + Running(jobs'[id])
  BY DEF AttemptsCounted
<1>a. Cardinality(Aborted(id)) \in Nat /\ Cardinality(Aborted(id)') \in Nat
  <2>1. Aborted(id)' \subseteq Workers
    BY DEF Aborted, WorkersOn
  <2>2. QED
    BY <2>1, AbortedFinite, FS_Subset, FS_CardinalityType, QueueAssumption
<1>1. CASE id \in Ids
  <2>1. PICK s : s = jobs[id].kind /\ s \in Songs /\ jobs'[id].kind = s
    BY <1>1, SongTypes, RowsStay
  <2>2. ~Settled(s)
    BY <2>1, SettledStays
  <2>3. jobs[id].attempts + Cardinality(Aborted(id)) <= aborts[s] + jobs[id].reclaims + Running(jobs[id])
    BY <1>1, <2>1, <2>2 DEF AttemptsCounted
  <2>4. /\ jobs[id].attempts \in Nat /\ jobs[id].reclaims \in Nat /\ aborts[s] \in Nat
        /\ jobs'[id].attempts \in Nat /\ jobs'[id].reclaims \in Nat
    <3>1. jobs[id] \in Row /\ jobs'[id] \in Row
      BY <1>0, <1>1, LenProperties, ElementOfSeq DEF QueueInv, TypeOK, Ids
    <3>2. QED
      BY <2>1, <3>1 DEF Row, WebTypes, SongTypesOK
  <2>5. CASE ~LoopStep
    <3>1. jobs'[id] = jobs[id]
      BY <1>1, <2>5, WorkerMoves
    <3>2. aborts'[s] >= aborts[s] /\ aborts'[s] \in Nat
      BY <1>0, <2>1, SongsGrow DEF Grows, WebTypes, SongTypesOK
    <3>3. \/ Cardinality(Aborted(id)') <= Cardinality(Aborted(id))
          \/ /\ Cardinality(Aborted(id)') <= Cardinality(Aborted(id)) + 1
             /\ aborts'[s] = aborts[s] + 1
      BY <1>1, <2>1, <2>2, AbortedNext
    <3>4. Running(jobs[id]) \in Nat
      BY DEF Running
    <3>5. QED
      BY <1>a, <2>1, <2>3, <2>4, <3>1, <3>2, <3>3, <3>4
  <2>6. CASE LoopStep
    <3>1. aborts' = aborts
      BY <1>0, <2>6, LoopSteps
    <3>2. Cardinality(Aborted(id)') <= Cardinality(Aborted(id))
      BY <1>1, <2>1, <2>2, <2>4, <3>1, AbortedNext
    <3>3. CASE \E w \in Workers : MarkedBy(id, w)
      <4>1. Cardinality(Aborted(id)') <= Cardinality(Aborted(id)) - 1
        BY <1>1, <2>1, <2>2, <2>6, <3>3, MarkerAborted
      <4>2. /\ jobs'[id].attempts = jobs[id].attempts /\ jobs'[id].reclaims = jobs[id].reclaims
            /\ Running(jobs'[id]) = 0 /\ Running(jobs[id]) <= 1 /\ Running(jobs[id]) \in Nat
        BY <3>3 DEF MarkedBy, Running
      <4>3. QED
        BY <1>a, <2>1, <2>3, <2>4, <3>1, <4>1, <4>2
    <3>4. CASE ~ \E w \in Workers : MarkedBy(id, w)
      <4>1. jobs'[id].attempts - jobs'[id].reclaims - Running(jobs'[id])
            = jobs[id].attempts - jobs[id].reclaims - Running(jobs[id])
        <5>1. \/ jobs'[id] = jobs[id] \/ Touched(id) \/ TakenBack(id)
              \/ \E w \in Workers : ClaimedBy(id, w)
          BY <1>1, <3>4, RowsStay DEF RowStep
        <5>2. QED
          BY <2>4, <5>1 DEF Touched, TakenBack, ClaimedBy, Running
      <4>2. Running(jobs[id]) \in Nat /\ Running(jobs'[id]) \in Nat
        BY DEF Running
      <4>3. QED
        BY <1>a, <2>1, <2>3, <2>4, <3>1, <3>2, <4>1, <4>2
    <3>5. QED
      BY <3>3, <3>4
  <2>7. QED
    BY <2>5, <2>6
<1>2. CASE id \notin Ids
  <2>1. PICK s \in Songs : EnqueueSong(s)
    BY <1>0, <1>2, NoRowAdded
  <2>2. /\ id = Len(jobs) + 1 /\ jobs'[id].kind = s /\ jobs'[id].reclaims = 0
        /\ jobs'[id].status = "queued" /\ UNCHANGED worker
    BY <1>2, <2>1, EnqueueFacts
  <2>3. jobs'[id].attempts = 0
    <3>1. jobs' = Append(jobs, NewRow(s, Len(jobs))) /\ jobs \in Seq(Row) /\ NewRow(s, Len(jobs)) \in Row
      BY <2>1, NewRowFacts DEF QueueInv, TypeOK, EnqueueSong, Enqueue, Songs
    <3>2. jobs'[id] = NewRow(s, Len(jobs))
      BY <2>2, <3>1, AppendFacts
    <3>3. QED
      BY <3>2 DEF NewRow
  <2>4. Aborted(id)' = {}
    <3>1. SUFFICES ASSUME NEW w \in Workers, worker[w].at \in Busy PROVE worker[w].id # id
      BY <2>2 DEF Aborted, WorkersOn
    <3>2. QED
      BY <1>2, <3>1, SongTypes
  <2>5. aborts'[s] \in Nat
    BY <1>0 DEF WebTypes, SongTypesOK
  <2>6. Cardinality(Aborted(id)') = 0
    BY <2>4, FS_EmptySet
  <2>7. Running(jobs'[id]) = 0
    BY <2>2 DEF Running
  <2>8. QED
    BY <2>2, <2>3, <2>5, <2>6, <2>7
<1>3. QED
  BY <1>1, <1>2

(* A failed job of an unsettled song had all its attempts reclaimed or aborted. *)
LEMMA CountedRefunds ==
  ASSUME QueueInv, WebTypes, AttemptsCounted PROVE FailedJobRefunded
<1> SUFFICES ASSUME NEW s \in Songs, NEW id \in JobsOf(s), jobs[id].status = "failed",
                    ~Submitted(s), refunds[s] = {}
             PROVE  jobs[id].attempts <= aborts[s] + jobs[id].reclaims
  BY DEF FailedJobRefunded
<1>1. id \in Ids /\ jobs[id].kind = s
  BY DEF JobsOf
<1>2. ~Settled(s)
  BY DEF Settled, Submitted
<1>3. jobs[id].attempts + Cardinality(Aborted(id)) <= aborts[s] + jobs[id].reclaims
  <2>1. jobs[id].attempts + Cardinality(Aborted(id)) <= aborts[s] + jobs[id].reclaims + Running(jobs[id])
    BY <1>1, <1>2 DEF AttemptsCounted
  <2>2. Running(jobs[id]) = 0
    BY DEF Running
  <2>3. aborts[s] \in Nat /\ jobs[id].reclaims \in Nat
    BY <1>1, SongTypes DEF WebTypes, SongTypesOK
  <2>4. QED
    BY <2>1, <2>2, <2>3
<1>4. jobs[id].attempts \in Nat /\ jobs[id].reclaims \in Nat /\ aborts[s] \in Nat
  BY <1>1, SongTypes DEF Row, WebTypes, SongTypesOK
<1>5. QED
  BY <1>3, <1>4, AbortedFinite

-------------------------------------------------------------------------------
(* The generations of a song whose job was never reclaimed.  Its worker is on the *)
(* way to Suno and back only while the row has no external id, ...                 *)
Unsaved == \A w \in Workers :
  /\ At(w, "handling") /\ fulfil[w].at \in {"submit", "refund", "fail", "save"}
  /\ jobs[worker[w].id].reclaims = 0
  => task[SongOf(w)].external = 0

(* ... and once Suno has one generation more than ids were lost, either the row *)
(* names it, or the only worker that may come to the song is about to save it.     *)
InHand(id) == jobs[id].status = "running" /\ \A w \in WorkersOn(id) : Doing(w, "save")

GensCounted == \A id \in Ids :
  LET s == jobs[id].kind
  IN  jobs[id].reclaims = 0
      => /\ Len(gens[s]) <= 1 + lost[s]
         /\ Len(gens[s]) = 1 + lost[s] /\ task[s].external = 0 => InHand(id)

(* The worker of a song's only job, never reclaimed, is alone at the song. *)
LEMMA AloneAt ==
  ASSUME QueueInv, RootInv, NEW v \in Workers, NEW w \in Workers,
         worker[v].at \in Busy, worker[w].at \in Busy, SongOf(v) = SongOf(w),
         jobs[worker[w].id].reclaims = 0
  PROVE  v = w
<1>1. worker[v].id = worker[w].id
  BY SongTypes DEF RootInv, OneJobEach, SongOf
<1>2. QED
  BY <1>1, OneOn

LEMMA UnsavedNext ==
  ASSUME WebTypes, RootInv, QueueInv, Unsaved, [WebNext]_webVars PROVE Unsaved'
<1> SUFFICES ASSUME NEW w \in Workers, At(w, "handling")',
                    fulfil'[w].at \in {"submit", "refund", "fail", "save"},
                    jobs'[worker'[w].id].reclaims = 0
             PROVE  task'[SongOf(w)'].external = 0
  BY DEF Unsaved
<1>1. /\ At(w, "handling") /\ worker'[w] = worker[w]
      /\ (CopyMove(w) /\ fulfil'[w] = fulfil[w]) \/ SubmitStep(w)
  BY WorkerMoves DEF CopyMove, At
<1>2. PICK s : /\ s = SongOf(w) /\ s \in Songs /\ SongOf(w)' = s
               /\ jobs[worker[w].id].reclaims = 0 /\ worker[w].at \in Busy
  BY <1>1, SongTypes, RowsStay DEF SongOf
<1>3. task[s].external = 0 /\ ~SaveTask(w)
  <2>1. CASE fulfil'[w] = fulfil[w] /\ ~SubmitStep(w)
    BY <1>1, <1>2, <2>1 DEF Unsaved, SubmitStep
  <2>2. CASE SubmitStep(w)
    <3>1. \/ fulfil[w].at = "read" /\ task[s].external = 0
          \/ fulfil[w].at \in {"submit", "refund"}
      BY <1>2, <2>2, PlaceMoves DEF PlaceMove
    <3>2. fulfil[w].at # "save"
      BY <3>1
    <3>3. QED
      BY <1>1, <1>2, <3>1, <3>2 DEF Unsaved, SaveTask, Doing
  <2>3. QED
    BY <1>1, <2>1, <2>2
<1>4. ASSUME NEW v \in Workers, SubmitStep(v), SongOf(v) = s
      PROVE  task'[s].external = 0
  <2>1. v = w
    BY <1>2, <1>4, SubmitWorks, AloneAt
  <2>2. SubmitColumns(w, s) /\ ~Doing(w, "save")
    <3>1. fulfil[w].at # "save"
      BY <1>4, <2>1, PlaceMoves DEF PlaceMove
    <3>2. QED
      BY <1>2, <1>4, <2>1, <3>1, SubmitEffects DEF Doing
  <2>3. QED
    BY <1>2, <1>3, <2>2, StatusWritten DEF SubmitColumns
<1>5. QED
  BY <1>2, <1>3, <1>4, OnlyItsWorker

(* The last generation stays in hand in every step of others. *)
LEMMA StaysInHand ==
  ASSUME WebTypes, RootInv, QueueInv, [WebNext]_webVars, NEW id \in Ids, InHand(id),
         jobs'[id].reclaims = 0,
         ~ \E w \in Workers : SubmitStep(w) /\ SongOf(w) = jobs[id].kind
  PROVE  InHand(id)'
<1>0. WebTypeOK
  BY TypeParts DEF RootInv
<1>1. jobs'[id].status = "running"
  <2>1. CASE ~LoopStep
    BY <2>1, WorkerMoves DEF InHand
  <2>2. CASE LoopStep
    <3>1. ASSUME NEW w \in Workers PROVE ~MarkedBy(id, w)
      <4>1. CopyMove(w)
        BY <1>0, <2>2, LoopSteps
      <4>2. SUFFICES ASSUME MarkedBy(id, w) PROVE FALSE
        OBVIOUS
      <4>3. w \in WorkersOn(id) /\ worker'[w].at = "idle"
        BY <4>2 DEF MarkedBy
      <4>4. worker[w].at = "handling"
        BY <4>3 DEF InHand, Doing, At
      <4>5. QED
        BY <4>1, <4>3, <4>4 DEF CopyMove
    <3>2. RowStep(id) /\ jobs[id].reclaims = 0 /\ jobs'[id].reclaims # jobs[id].reclaims + 1
      BY RowsStay
    <3>3. QED
      BY <3>1, <3>2 DEF RowStep, Touched, TakenBack, ClaimedBy, InHand
  <2>3. QED
    BY <2>1, <2>2
<1>2. ASSUME NEW w \in Workers, worker'[w].at \in Busy, worker'[w].id = id
      PROVE  Doing(w, "save")'
  <2>1. CASE SubmitStep(w)
    <3>1. worker[w].id = id
      BY <1>2, <2>1, SubmitWorks DEF vars
    <3>2. QED
      BY <2>1, <3>1 DEF SongOf
  <2>2. CASE CopyMove(w)
    <3>1. ~(worker[w].at = "idle" /\ jobs[id].status \in {"queued", "delayed"})
      BY DEF InHand
    <3>2. worker[w].at \in Busy /\ worker[w].id = id
      BY <1>2, <2>2, <3>1 DEF CopyMove, Busy, Doing, At
    <3>3. Doing(w, "save")
      BY <3>2 DEF InHand, WorkersOn
    <3>4. QED
      BY <1>2, <2>2, <3>1, <3>3 DEF CopyMove, Doing, At, Busy
  <2>3. QED
    BY <2>1, <2>2, WorkerMoves
<1>3. QED
  BY <1>1, <1>2 DEF InHand, WorkersOn

LEMMA GensCountedNext ==
  ASSUME WebTypes, RootInv, QueueInv, Unsaved, GensCounted, [WebNext]_webVars
  PROVE  GensCounted'
<1>0. WebTypeOK
  BY TypeParts DEF RootInv
<1>a. \A r \in Songs : /\ gens[r] \in Seq(Outcomes \cup {"running"}) /\ Len(gens[r]) \in Nat
                       /\ lost[r] \in Nat
  BY LenProperties, WebAssumption DEF WebTypes, SongTypesOK
<1> SUFFICES ASSUME NEW id \in Ids', jobs'[id].reclaims = 0, NEW s, s = jobs'[id].kind
             PROVE  /\ Len(gens'[s]) <= 1 + lost'[s]
                    /\ Len(gens'[s]) = 1 + lost'[s] /\ task'[s].external = 0 => InHand(id)'
  BY DEF GensCounted
<1>1. CASE id \notin Ids
  <2>1. PICK k \in Songs : EnqueueSong(k)
    BY <1>0, <1>1, NoRowAdded
  <2>2. k = s /\ gens' = gens /\ lost' = lost
    BY <1>1, <2>1, EnqueueFacts
  <2>3. JobsOf(s) = {}
    <3>1. SUFFICES ASSUME NEW i \in Ids, jobs[i].kind = s PROVE FALSE
      BY DEF JobsOf
    <3>2. i \in Ids' /\ jobs'[i].kind = s
      BY <3>1, RowsStay
    <3>3. i = id
      BY <3>2, RootInvNext DEF RootInv, OneJobEach
    <3>4. QED
      BY <1>1, <3>1, <3>3
  <2>4. Len(gens'[s]) = 0
    BY <2>1, <2>2, <2>3 DEF RootInv, NothingYet
  <2>5. QED
    BY <1>a, <2>1, <2>2, <2>4
<1>2. CASE id \in Ids
  <2>1. /\ jobs[id].kind = s /\ s \in Songs /\ jobs[id].reclaims = 0
    BY <1>2, SongTypes, RowsStay
  <2>2. /\ Len(gens[s]) <= 1 + lost[s]
        /\ Len(gens[s]) = 1 + lost[s] /\ task[s].external = 0 => InHand(id)
    BY <1>2, <2>1 DEF GensCounted
  <2>3. CASE ~ \E w \in Workers : SubmitStep(w) /\ SongOf(w) = s
    <3>1. /\ task'[s].external = task[s].external
          /\ Len(gens'[s]) = Len(gens[s]) /\ lost'[s] = lost[s]
      BY <2>1, <2>3, OnlyItsWorker
    <3>2. InHand(id) => InHand(id)'
      BY <1>2, <2>1, <2>3, StaysInHand
    <3>3. QED
      BY <2>2, <3>1, <3>2
  <2>4. ASSUME NEW w \in Workers, SubmitStep(w), SongOf(w) = s
        PROVE  /\ Len(gens'[s]) <= 1 + lost'[s]
               /\ Len(gens'[s]) = 1 + lost'[s] /\ task'[s].external = 0 => InHand(id)'
    <3>1. /\ UNCHANGED <<jobs, worker>> /\ At(w, "handling") /\ worker[w].at \in Busy
      BY <2>4, SubmitWorks DEF vars
    <3>2. worker[w].id = id
      BY <1>2, <2>1, <2>4, <3>1, SongTypes DEF RootInv, OneJobEach, SongOf
    <3>3. /\ jobs[id].status = "running" /\ w \in WorkersOn(id)
          /\ \A v \in WorkersOn(id) : v = w
      BY <2>1, <3>1, <3>2, OneOn DEF QueueInv, HolderHandles, WorkersOn
    <3>4. fulfil[w].at = "submit" => Len(gens[s]) <= lost[s]
      <4>1. SUFFICES ASSUME fulfil[w].at = "submit" PROVE Len(gens[s]) <= lost[s]
        OBVIOUS
      <4>2. task[s].external = 0
        BY <2>1, <2>4, <3>1, <3>2, <4>1 DEF Unsaved
      <4>3. ~InHand(id)
        BY <3>3, <4>1 DEF InHand, Doing
      <4>4. QED
        BY <1>a, <2>1, <2>2, <4>2, <4>3
    <3>5. CASE SunoAccepts(w)
      <4>1. gens' = [gens EXCEPT ![s] = Append(gens[s], "running")] /\ lost' = lost
        BY <2>4, <3>5 DEF SunoAccepts
      <4>2. Len(gens'[s]) = Len(gens[s]) + 1
        BY <1>a, <2>1, <4>1, AppendProperties DEF WebTypes, SongTypesOK
      <4>3. fulfil[w].at = "submit" /\ fulfil'[w].at = "save"
        BY <3>5 DEF SunoAccepts, Doing, WebTypes, WorkTypes
      <4>4. InHand(id)'
        BY <3>1, <3>3, <4>3 DEF InHand, Doing, At, WorkersOn
      <4>5. QED
        BY <1>a, <2>1, <3>4, <4>1, <4>2, <4>3, <4>4
    <3>6. CASE AnswerLost(w)
      <4>1. /\ gens' = [gens EXCEPT ![s] = Append(gens[s], "running")]
            /\ lost' = [lost EXCEPT ![s] = lost[s] + 1] /\ fulfil[w].at = "submit"
        BY <2>4, <3>6 DEF AnswerLost, Doing
      <4>2. Len(gens'[s]) = Len(gens[s]) + 1 /\ lost'[s] = lost[s] + 1
        BY <1>a, <2>1, <4>1, AppendProperties DEF WebTypes, SongTypesOK
      <4>3. QED
        BY <1>a, <2>1, <3>4, <4>1, <4>2
    <3>9. CASE SaveThrows(w)
      <4>1. gens' = gens /\ lost' = [lost EXCEPT ![s] = lost[s] + 1]
        BY <2>4, <3>9 DEF SaveThrows
      <4>2. gens'[s] = gens[s] /\ lost'[s] = lost[s] + 1
        BY <2>1, <4>1 DEF WebTypes, SongTypesOK
      <4>3. QED
        BY <1>a, <2>1, <2>2, <4>2
    <3>7. CASE ~SunoAccepts(w) /\ ~AnswerLost(w) /\ ~SaveThrows(w)
      <4>1. UNCHANGED <<gens, lost>>
        BY <2>4, <3>7 DEF SubmitStep, TakeLock, LockFails, CallThrows, UnlockThrows, ReadTask,
              SunoRefuses, RefundSong,
                          FailTask, SaveTask, LinkSong, ReadLock, DeleteLock
      <4>2. SUFFICES ASSUME Len(gens[s]) = 1 + lost[s], task'[s].external = 0 PROVE FALSE
        BY <2>2, <4>1
      <4>3. task[s].external = 0
        BY <2>1, <4>2, SongsGrow DEF Grows
      <4>4. fulfil[w].at = "save"
        BY <2>2, <3>3, <4>2, <4>3 DEF InHand, Doing
      <4>5. SaveTask(w)
        BY <2>4, <3>7, <4>4, PlaceMoves DEF PlaceMove
      <4>6. task' = [task EXCEPT ![s] = [status |-> "PENDING", external |-> fulfil[w].gen]]
        BY <2>4, <4>5 DEF SaveTask
      <4>7. fulfil[w].gen # 0
        BY <4>5 DEF SaveTask, RootInv, SavesGen
      <4>8. QED
        BY <2>1, <4>2, <4>6, <4>7 DEF WebTypes, SongTypesOK
    <3>8. QED
      BY <3>5, <3>6, <3>7, <3>9
  <2>5. QED
    BY <2>3, <2>4
<1>3. QED
  BY <1>1, <1>2

(* A song whose job was never reclaimed is generated once, and once more for each *)
(* id that got lost.                                                              *)
LEMMA CountedOnce ==
  ASSUME WebTypes, RootInv, QueueInv, GensCounted PROVE OneGenerationUnlessLost
<1> SUFFICES ASSUME NEW s \in Songs, ~Reclaimed(s) PROVE Len(gens[s]) <= 1 + lost[s]
  BY DEF OneGenerationUnlessLost
<1>1. lost[s] \in Nat
  BY WebAssumption DEF WebTypes, SongTypesOK
<1>2. CASE JobsOf(s) = {}
  <2>1. Len(gens[s]) = 0
    BY <1>2 DEF RootInv, NothingYet
  <2>2. QED
    BY <1>1, <2>1
<1>3. CASE JobsOf(s) # {}
  <2>1. PICK id \in Ids : jobs[id].kind = s
    BY <1>3 DEF JobsOf
  <2>2. jobs[id].reclaims = 0
    BY <2>1, SongTypes DEF Reclaimed, JobsOf
  <2>3. QED
    BY <2>1, <2>2 DEF GensCounted
<1>4. QED
  BY <1>2, <1>3

-------------------------------------------------------------------------------
(* What a hook is about to write is how the generation the row names has ended. *)
HookSees == \A h \in Hooks :
  hook[h].at = "update" /\ ~Reclaimed(hook[h].song)
  => Sees(hook[h].song, hook[h].outcome)

LEMMA ReclaimedStays ==
  ASSUME QueueInv, [WebNext]_webVars, NEW s, Reclaimed(s)
  PROVE  Reclaimed(s)'
<1>1. PICK id \in Ids : jobs[id].kind = s /\ jobs[id].reclaims > 0
  BY DEF Reclaimed, JobsOf
<1>2. id \in Ids' /\ jobs'[id].kind = s /\ jobs'[id].reclaims > 0
  <2>1. id \in Ids' /\ jobs'[id].kind = s /\ jobs'[id].reclaims \in Nat /\ jobs'[id].reclaims # 0
    BY <1>1, RowsStay
  <2>2. QED
    BY <2>1
<1>3. QED
  BY <1>2 DEF Reclaimed, JobsOf

(* The status a hook writes is the outcome it has, for the song it is at. *)
LEMMA HookWrites ==
  ASSUME WebTypes, NEW h \in Hooks, HookStep(h), NEW s \in Songs
  PROVE  \/ task'[s].status = task[s].status
         \/ /\ hook[h].at = "update" /\ hook[h].song = s
            /\ task'[s].status = hook[h].outcome
<1>1. hook[h].at = "update" => hook[h].song \in Songs
  BY DEF WebTypes, HookTypes
<1>2. CASE UNCHANGED task
  BY <1>2
<1>3. ASSUME NEW r, hook[h].at = "update", r = hook[h].song,
             task' = [task EXCEPT ![r] = [task[r] EXCEPT !.status = hook[h].outcome]]
      PROVE  \/ task'[s].status = task[s].status
             \/ /\ hook[h].song = s
                /\ task'[s].status = hook[h].outcome
  <2>1. r \in Songs
    BY <1>1, <1>3
  <2>2. task'[r].status = hook[h].outcome /\ \A k \in Songs \ {r} : task'[k] = task[k]
    BY <1>3, <2>1, StatusWritten
  <2>3. QED
    BY <1>3, <2>1, <2>2
<1>4. QED
  BY <1>2, <1>3, HookEffects

(* Only a hook makes a song a success. *)
LEMMA SuccessFrom ==
  ASSUME WebTypes, RootInv, QueueInv, [WebNext]_webVars, NEW s \in Songs
  PROVE  \/ task'[s].status \in {task[s].status, "PENDING", "FAILED"}
         \/ \E h \in Hooks : /\ hook[h].at = "update" /\ hook[h].song = s
                             /\ task'[s].status = hook[h].outcome
<1>1. ASSUME NEW r \in Songs, Create(r) PROVE task'[s].status \in {task[s].status, "PENDING"}
  BY <1>1, RequestEffects, StatusWritten
<1>2. ASSUME NEW w \in Workers, SubmitStep(w)
      PROVE  task'[s].status \in {task[s].status, "PENDING", "FAILED"}
  <2>0. PICK r : r = SongOf(w) /\ SubmitColumns(w, r) /\ r \in Songs
    BY <1>2, SubmitEffects, SubmitWorks
  <2>1. CASE UNCHANGED task
    BY <2>1
  <2>2. CASE task' = [task EXCEPT ![r] = [task[r] EXCEPT !.status = "FAILED"]]
    BY <2>0, <2>2, StatusWritten
  <2>3. CASE task' = [task EXCEPT ![r] = [status |-> "PENDING", external |-> fulfil[w].gen]]
    BY <2>0, <2>3 DEF WebTypes, SongTypesOK
  <2>4. QED
    BY <2>0, <2>1, <2>2, <2>3 DEF SubmitColumns
<1>3. CASE LoopStep
  <2>1. UNCHANGED task
    BY <1>3, LoopSteps, TypeParts DEF RootInv
  <2>2. QED
    BY <2>1
<1>4. CASE LockExpires \/ UNCHANGED webVars \/ \E r \in Songs : \E g \in DOMAIN gens[r] : SunoEnds(r, g)
  BY <1>4 DEF LockExpires, SunoEnds, webVars, songVars
<1>5. ASSUME NEW h \in Hooks, HookStep(h)
      PROVE  \/ task'[s].status = task[s].status
             \/ /\ hook[h].at = "update" /\ hook[h].song = s
                /\ task'[s].status = hook[h].outcome
  BY <1>5, HookWrites
<1>6. QED
  BY <1>1, <1>2, <1>3, <1>4, <1>5, StepsOfSongs

(* Once the row of a song whose job was never reclaimed names a generation, it    *)
(* names it for good, and its status is only written by hooks.                    *)
LEMMA NamedStays ==
  ASSUME WebTypes, RootInv, QueueInv, Unsaved, [WebNext]_webVars, NEW s \in Songs,
         ~Reclaimed(s), task[s].external # 0
  PROVE  /\ task'[s].external = task[s].external
         /\ gens[s][task[s].external] # "running"
            => gens'[s][task[s].external] = gens[s][task[s].external]
         /\ \/ task'[s].status = task[s].status
            \/ \E h \in Hooks : /\ hook[h].at = "update" /\ hook[h].song = s
                                /\ task'[s].status = hook[h].outcome
<1>0. WebTypeOK
  BY TypeParts DEF RootInv
<1>1. ASSUME NEW w \in Workers, SubmitStep(w), SongOf(w) = s
      PROVE  task' = task /\ gens' = gens
  <2>1. /\ worker[w].id \in Ids /\ jobs[worker[w].id].kind = s /\ At(w, "handling")
    BY <1>1, SubmitWorks, SongTypes DEF SongOf
  <2>2. jobs[worker[w].id].reclaims = 0
    BY <2>1, SongTypes DEF Reclaimed, JobsOf
  <2>3. fulfil[w].at \notin {"submit", "refund", "fail", "save"}
    BY <1>1, <2>1, <2>2 DEF Unsaved
  <2>4. SubmitColumns(w, s)
    BY <1>1, SubmitEffects
  <2>5. QED
    BY <2>3, <2>4 DEF SubmitColumns, Doing
<1>2. task[s].external \in DOMAIN gens[s]
  <2>1. gens[s] \in Seq(Outcomes \cup {"running"}) /\ task[s].external \in Nat
    BY DEF WebTypes, SongTypesOK, TaskT
  <2>2. DOMAIN gens[s] = 1..Len(gens[s]) /\ Len(gens[s]) \in Nat
    BY <2>1, LenProperties
  <2>3. QED
    BY <2>1, <2>2 DEF RootInv, NamesGen
<1>3. /\ task'[s].external = task[s].external
      /\ gens[s][task[s].external] # "running"
         => gens'[s][task[s].external] = gens[s][task[s].external]
  <2>1. CASE \E w \in Workers : SubmitStep(w) /\ SongOf(w) = s
    BY <1>1, <2>1
  <2>2. CASE ~ \E w \in Workers : SubmitStep(w) /\ SongOf(w) = s
    BY <1>2, <2>2, OnlyItsWorker
  <2>3. QED
    BY <2>1, <2>2
<1>4. ASSUME NEW r \in Songs, Create(r) PROVE task'[s] = task[s]
  <2>1. CASE UNCHANGED task
    BY <2>1
  <2>2. CASE /\ request[r] = "tracked"
             /\ task' = [task EXCEPT ![r] = [task[r] EXCEPT !.status = "PENDING"]]
    <3>1. JobsOf(r) = {}
      BY <2>2 DEF JobsOf, RootInv, JobAsked
    <3>2. r # s
      BY <3>1 DEF RootInv, NothingYet
    <3>3. QED
      BY <2>2, <3>2, StatusWritten
  <2>3. QED
    BY <1>4, <2>1, <2>2, RequestEffects
<1>5. ASSUME NEW w \in Workers, SubmitStep(w) PROVE task'[s] = task[s]
  <2>0. PICK r : r = SongOf(w) /\ SubmitColumns(w, r)
    BY <1>5, SubmitEffects
  <2>1. CASE r = s
    BY <1>1, <1>5, <2>0, <2>1
  <2>2. CASE r # s
    BY <2>0, <2>2 DEF SubmitColumns, WebTypes, SongTypesOK
  <2>3. QED
    BY <2>1, <2>2
<1>6. CASE LoopStep
  <2>1. UNCHANGED task
    BY <1>0, <1>6, LoopSteps
  <2>2. QED
    BY <1>3, <2>1
<1>7. CASE LockExpires \/ UNCHANGED webVars \/ \E r \in Songs : \E g \in DOMAIN gens[r] : SunoEnds(r, g)
  BY <1>3, <1>7 DEF LockExpires, SunoEnds, webVars, songVars
<1>8. ASSUME NEW h \in Hooks, HookStep(h)
      PROVE  \/ task'[s].status = task[s].status
             \/ /\ hook[h].at = "update" /\ hook[h].song = s
                /\ task'[s].status = hook[h].outcome
  BY <1>8, HookWrites
<1>9. QED
  BY <1>3, <1>4, <1>5, <1>6, <1>7, <1>8, StepsOfSongs

LEMMA HookSeesNext ==
  ASSUME WebTypes, RootInv, QueueInv, Unsaved, HookSees, [WebNext]_webVars PROVE HookSees'
<1>0. WebTypeOK
  BY TypeParts DEF RootInv
<1> SUFFICES ASSUME NEW h \in Hooks, hook'[h].at = "update", NEW s, s = hook'[h].song,
                    ~Reclaimed(s)'
             PROVE  Sees(s, hook[h].outcome)'
  BY DEF HookSees
<1>1. ~Reclaimed(s)
  BY ReclaimedStays
<1>2. CASE hook'[h] = hook[h]
  <2>1. s \in Songs
    BY <1>2 DEF WebTypes, HookTypes, HookT
  <2>2. Sees(s, hook[h].outcome)
    BY <1>1, <1>2 DEF HookSees
  <2>3. /\ task'[s].external = task[s].external
        /\ gens'[s][task[s].external] = gens[s][task[s].external]
    BY <1>1, <2>1, <2>2, NamedStays DEF Sees
  <2>4. QED
    BY <1>2, <2>2, <2>3 DEF Sees
<1>3. ASSUME NEW r \in Songs, PollRead(h, r) \/ \E g \in DOMAIN gens[r] : CallbackRead(h, r, g)
      PROVE  Sees(s, hook[h].outcome)'
  <2>1. r = s /\ Sees(s, hook'[h].outcome)
    BY <1>3, ReadFacts DEF RootInv
  <2>2. UNCHANGED <<task, gens>>
    BY <1>3 DEF PollRead, CallbackRead
  <2>3. QED
    BY <2>1, <2>2 DEF Sees
<1>4. ASSUME WriteStatus(h) \/ CallbackRefund(h) \/ HookDies(h) PROVE FALSE
  <2>1. /\ DOMAIN hook = Hooks /\ hook[h] \in HookT
    BY DEF WebTypes, HookTypes
  <2>2. [hook[h] EXCEPT !.at = "refund"].at = "refund" /\ Off.at = "off"
    BY <2>1 DEF HookT, Off
  <2>3. \/ hook' = [hook EXCEPT ![h] = [hook[h] EXCEPT !.at = "refund"]]
        \/ hook' = [hook EXCEPT ![h] = Off]
    BY <1>4 DEF WriteStatus, CallbackRefund, HookDies
  <2>4. QED
    BY <2>1, <2>2, <2>3
<1>5. ASSUME NEW k \in Hooks, HookStep(k), k # h PROVE hook'[h] = hook[h]
  BY <1>5 DEF HookStep, PollRead, CallbackRead, WriteStatus, CallbackRefund, HookDies, WebTypes, HookTypes
<1>6. CASE \E k \in Hooks : HookStep(k)
  BY <1>2, <1>3, <1>4, <1>5, <1>6 DEF HookStep
<1>7. ASSUME ~ \E k \in Hooks : HookStep(k) PROVE hook'[h] = hook[h]
  BY <1>0, <1>7, StepsOfSongs, RequestEffects, SubmitWorks, LoopSteps
     DEF LockExpires, SunoEnds, webVars, songVars
<1>8. QED
  BY <1>2, <1>6, <1>7

(* The id of a generation comes into a row together with PENDING. *)
LEMMA NamedPending ==
  ASSUME WebTypes, RootInv, QueueInv, [WebNext]_webVars, NEW s \in Songs,
         task[s].external = 0, task'[s].external # 0
  PROVE  task'[s].status = "PENDING"
<1>1. PICK w \in Workers : SubmitStep(w) /\ SongOf(w) = s
  BY OnlyItsWorker
<1>2. SubmitColumns(w, s)
  BY <1>1, SubmitEffects
<1>3. task' # [task EXCEPT ![s] = [task[s] EXCEPT !.status = "FAILED"]]
  BY StatusWritten
<1>4. task' = [task EXCEPT ![s] = [status |-> "PENDING", external |-> fulfil[w].gen]]
  BY <1>2, <1>3 DEF SubmitColumns
<1>5. QED
  BY <1>4 DEF WebTypes, SongTypesOK

LEMMA OutcomeNext ==
  ASSUME WebTypes, RootInv, QueueInv, Unsaved, HookSees, OutcomeIsGenerated, [WebNext]_webVars
  PROVE  OutcomeIsGenerated'
<1> SUFFICES ASSUME NEW s \in Songs, ~Reclaimed(s)',
                    \/ task'[s].status = "SUCCESS"
                    \/ task'[s].status = "FAILED" /\ task'[s].external # 0
             PROVE  task'[s].external # 0 /\ gens'[s][task'[s].external] = task'[s].status
  BY DEF OutcomeIsGenerated, Submitted
<1>1. ~Reclaimed(s)
  BY ReclaimedStays
<1>2. ASSUME NEW h \in Hooks, hook[h].at = "update", hook[h].song = s
      PROVE  Sees(s, hook[h].outcome)
  BY <1>1, <1>2 DEF HookSees
<1>3. CASE task[s].external # 0
  <2>1. /\ task'[s].external = task[s].external
        /\ gens[s][task[s].external] # "running"
           => gens'[s][task[s].external] = gens[s][task[s].external]
        /\ \/ task'[s].status = task[s].status
           \/ \E h \in Hooks : /\ hook[h].at = "update" /\ hook[h].song = s
                               /\ task'[s].status = hook[h].outcome
    BY <1>1, <1>3, NamedStays
  <2>2. gens[s][task[s].external] = task'[s].status
    <3>1. CASE task'[s].status = task[s].status
      BY <1>1, <1>3, <3>1 DEF OutcomeIsGenerated, Submitted
    <3>2. CASE \E h \in Hooks : /\ hook[h].at = "update" /\ hook[h].song = s
                                /\ task'[s].status = hook[h].outcome
      BY <1>2, <3>2 DEF Sees, Persisted
    <3>3. QED
      BY <2>1, <3>1, <3>2
  <2>3. QED
    BY <1>3, <2>1, <2>2
<1>4. CASE task[s].external = 0
  <2>1. task'[s].external = 0
    BY <1>4, NamedPending
  <2>2. task'[s].status = "SUCCESS"
    BY <2>1
  <2>3. task[s].status # "SUCCESS"
    BY <1>1, <1>4 DEF OutcomeIsGenerated, Submitted
  <2>4. PICK h \in Hooks : hook[h].at = "update" /\ hook[h].song = s
    BY <2>2, <2>3, SuccessFrom
  <2>5. QED
    BY <1>2, <1>4, <2>4 DEF Sees
<1>5. QED
  BY <1>3, <1>4

(* What becomes of a success: it stays, or a callback without a URL suspends it. *)
LEMMA SuccessNext ==
  ASSUME WebTypes, RootInv, QueueInv, Unsaved, HookSees, OutcomeIsGenerated, [WebNext]_webVars,
         NEW s \in Songs, task[s].status = "SUCCESS", ~Reclaimed(s)
  PROVE  \/ task'[s] = task[s]
         \/ /\ task'[s] = [task[s] EXCEPT !.status = "PENDING"]
            /\ \E h \in Hooks : /\ hook[h].at = "update" /\ hook[h].song = s
                                 /\ hook[h].outcome = "PENDING"
<1>1. task[s].external # 0 /\ gens[s][task[s].external] = "SUCCESS"
  BY DEF OutcomeIsGenerated, Submitted
<1>2. /\ task'[s].external = task[s].external
      /\ \/ task'[s].status = task[s].status
         \/ \E h \in Hooks : /\ hook[h].at = "update" /\ hook[h].song = s
                             /\ task'[s].status = hook[h].outcome
  BY <1>1, NamedStays
<1>3. task[s] \in TaskT /\ task'[s] \in TaskT
  BY WebTypesNext DEF RootInv, WebTypes, SongTypesOK
<1>4. ASSUME task'[s].status = "SUCCESS" PROVE task'[s] = task[s]
  BY <1>2, <1>3, <1>4 DEF TaskT
<1>5. ASSUME task'[s].status = "PENDING" PROVE task'[s] = [task[s] EXCEPT !.status = "PENDING"]
  BY <1>2, <1>3, <1>5 DEF TaskT
<1>6. ASSUME NEW h \in Hooks, hook[h].at = "update", hook[h].song = s
      PROVE  hook[h].outcome \in {"SUCCESS", "PENDING"}
  BY <1>1, <1>6 DEF HookSees, Sees, Persisted
<1>7. QED
  BY <1>2, <1>4, <1>5, <1>6

-------------------------------------------------------------------------------
WebInv ==
  /\ QueueInv /\ WebTypes /\ RootInv
  /\ WorkersSettle /\ AttemptsCounted
  /\ Unsaved /\ GensCounted
  /\ HookSees /\ OutcomeIsGenerated

LEMMA WebInvInit ==
  ASSUME WebInit PROVE WebInv
<1>1. QueueInv /\ WebTypes
  BY QueueInvInit, WebTypesInit
<1>2. Ids = {} /\ \A w \in Workers : worker[w].at = "down"
  BY DEF WebInit, Init, Ids, Down
<1>3. RootInv
  BY <1>2 DEF WebInit, RootInv, Asked, JobAsked, OneJobEach, NothingYet, SavesGen, Rooted, NamesGen,
              Doing, At
<1>4. WorkersSettle /\ AttemptsCounted /\ Unsaved /\ GensCounted
  BY <1>2 DEF WorkersSettle, AttemptsCounted, Unsaved, GensCounted, Through, Leaving, At
<1>5. HookSees /\ OutcomeIsGenerated
  BY DEF WebInit, HookSees, OutcomeIsGenerated, Off
<1>6. QED
  BY <1>1, <1>3, <1>4, <1>5 DEF WebInv

LEMMA WebInvNext ==
  ASSUME WebInv, [WebNext]_webVars PROVE WebInv'
<1>1. QueueInv' /\ WebTypes' /\ RootInv'
  BY QueueInvNext, WebTypesNext, RootInvNext DEF WebInv, RootInv
<1>2. WorkersSettle' /\ AttemptsCounted'
  BY WorkersSettleNext, AttemptsCountedNext DEF WebInv
<1>3. Unsaved' /\ GensCounted'
  BY UnsavedNext, GensCountedNext DEF WebInv
<1>4. HookSees' /\ OutcomeIsGenerated'
  BY HookSeesNext, OutcomeNext DEF WebInv
<1>5. QED
  BY <1>1, <1>2, <1>3, <1>4 DEF WebInv

LEMMA WebInvAlways == WebSpec => []WebInv
<1>1. WebInit => WebInv
  BY WebInvInit
<1>2. WebInv /\ [WebNext]_webVars => WebInv'
  BY WebInvNext
<1>3. QED
  BY <1>1, <1>2, PTL DEF WebSpec

(* Whatever fails, dies or comes late between the API, the workers, Suno and the  *)
(* hooks: a job is there only for a song that was charged and has its row, and a   *)
(* row names only generations Suno has accepted.                                   *)
THEOREM WebTypesAlways == WebSpec => []WebTypeOK
<1>1. WebInv => WebTypeOK
  BY TypeParts DEF WebInv, RootInv
<1>2. QED
  BY <1>1, WebInvAlways, PTL

(* fulfill_queued_generate is run again for each retry of the job, after whatever  *)
(* call of it threw, and by each worker that claims it, yet of a song whose job    *)
(* was never reclaimed Suno makes one generation, and one more for each id that    *)
(* got lost, with Suno's answer or with the UPDATE that was to store it.           *)
THEOREM OneGenerationAlways == WebSpec => []OneGenerationUnlessLost
<1>1. WebInv => OneGenerationUnlessLost
  BY CountedOnce DEF WebInv
<1>2. QED
  BY <1>1, WebInvAlways, PTL

(* A failed job whose song has no generation in its row and no refund never had an *)
(* attempt that ran its course: each was reclaimed or aborted by one of the errors *)
(* the handler leaves with before the refund or the stored id, also when several   *)
(* workers ran the job at once and mark it late.                                   *)
THEOREM FailedJobRefundedAlways == WebSpec => []FailedJobRefunded
<1>1. WebInv => FailedJobRefunded
  BY CountedRefunds DEF WebInv
<1>2. QED
  BY <1>1, WebInvAlways, PTL

(* A status written by row id, on what a callback or a poll read before, is still   *)
(* the outcome of the generation the row names, unless the job was reclaimed.      *)
THEOREM OutcomeIsGeneratedAlways == WebSpec => []OutcomeIsGenerated
<1>1. WebInv => OutcomeIsGenerated
  BY DEF WebInv
<1>2. QED
  BY <1>1, WebInvAlways, PTL

(* No late mark, poll or retry takes a finished song back, unless its job was      *)
(* reclaimed and a second worker saved another generation over it; a callback of   *)
(* its own generation without a URL suspends it, and no callback makes it FAILED.  *)
THEOREM SuccessStaysAlways == WebSpec => SuccessStays
<1>1. WebInv /\ [WebNext]_webVars
      => [\A s \in Songs :
            task[s].status = "SUCCESS" /\ ~Reclaimed(s)
            => \/ task'[s] = task[s]
               \/ /\ task'[s] = [task[s] EXCEPT !.status = "PENDING"]
                  /\ \E h \in Hooks : /\ hook[h].at = "update" /\ hook[h].song = s
                                       /\ hook[h].outcome = "PENDING"]_webVars
  BY SuccessNext DEF WebInv
<1>2. QED
  BY <1>1, WebInvAlways, PTL DEF WebSpec, SuccessStays
=============================================================================
