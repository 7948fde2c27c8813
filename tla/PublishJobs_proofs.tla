-------------------------- MODULE PublishJobs_proofs --------------------------
(***************************************************************************)
(* No charge of an upload is lost sight of, but by the writes that the     *)
(* history variable forfeited names, for any number of processes, requests *)
(* and troubles.                                                           *)
(***************************************************************************)
EXTENDS PublishJobs, FiniteSetTheorems, TLAPS

Statuses == Waiting \cup InFlight \cup Ended

Outcomes == {"none", "open", "success", "failed"}
Wakes    == Outcomes \cup {"current"}

Rows ==
  [status : Statuses, charged : BOOLEAN, ref : Nat, tries : Nat,
   video : BOOLEAN, results : SUBSET Outcomes, old : BOOLEAN]

Ops == {"none", "complete", "fail", "cancel", "refund", "retry", "sync"}

Stages ==
  {"idle", "charge", "mark", "unpaid", "reread", "post", "posted", "refund", "settle", "zero",
   "reset", "fetch", "success", "counted"}

Copies == [op : Ops, at : Stages, try : Nat, ref : Nat, paid : BOOLEAN]

TypeOK ==
  /\ row \in Rows /\ post \in Outcomes /\ wake \in Wakes /\ handler \in [Procs -> Copies]
  /\ debits \in [Refs -> Nat] /\ refunds \subseteq Nat /\ forfeited \subseteq Nat
  /\ requests \in 0..MaxRequests

(* Each attempt after the first was asked for, or a retry has still to make it. *)
Resetting == {p \in Procs : On(p, "reset")}

AttemptsAsked ==
  /\ row.tries + Cardinality(Resetting) <= requests
  /\ \A p \in Procs : handler[p].try + Cardinality(Resetting) <= requests

(* The charge a row or a process speaks of was made. *)
Charged(r) == r \in Refs /\ debits[r] > 0

ChargesMade ==
  /\ row.charged => Charged(row.ref)
  /\ refunds \subseteq {r \in Refs : Charged(r)}
  /\ \A p \in Procs :
       /\ handler[p].paid => Charged(handler[p].ref)
       /\ On(p, "mark") => Charged(handler[p].ref) /\ handler[p].ref = handler[p].try

(* A charge is on the row, or about to be written there, unless it is over. *)
Tracked(r) ==
  \/ row.charged /\ row.ref = r
  \/ \E p \in Procs : On(p, "mark") /\ handler[p].ref = r

Open(r) == Charged(r) /\ r \notin forfeited

ChargesOpen == \A r \in Refs : Open(r) /\ r \notin refunds => Tracked(r)

(* Only an attempt that is not charged is charged: neither the attempt to come *)
(* nor the present one of a job that waits, unless it is being written down;   *)
(* and no two processes are about to charge the same.                          *)
ChargedOnce ==
  /\ \A r \in Refs : debits[r] <= 1 \/ r \in forfeited
  /\ \A r \in Refs : r > row.tries => ~Open(r)
  /\ row.status \in Waiting /\ ~row.charged /\ Open(row.tries) =>
       \E p \in Procs : On(p, "mark") /\ handler[p].try = row.tries
  /\ \A p \in Procs : On(p, "charge") =>
       /\ ~Open(handler[p].try)
       /\ handler[p].try > row.tries => handler[p].try \in forfeited
       /\ \A q \in Procs \ {p} :
            On(q, "charge") /\ handler[q].try = handler[p].try => handler[p].try \in forfeited

PublishInv == TypeOK /\ AttemptsAsked /\ ChargesMade /\ ChargesOpen /\ ChargedOnce

-------------------------------------------------------------------------------
(* What a step does to the handlers: one process moves, the others stay. *)
Moves(p, h) ==
  /\ handler' \in [Procs -> Copies]
  /\ handler'[p] = h /\ h \in Copies
  /\ \A q \in Procs \ {p} : handler'[q] = handler[q]

LEMMA MovesTo ==
  ASSUME TypeOK, NEW p \in Procs, NEW h \in Copies, handler' = [handler EXCEPT ![p] = h]
  PROVE  Moves(p, h)
  BY DEF TypeOK, Moves

Reading(op, stage) ==
  [op |-> op, at |-> stage, try |-> row.tries, ref |-> row.ref, paid |-> row.charged]

LEMMA GoMoves ==
  ASSUME TypeOK, NEW p \in Procs, NEW op \in Ops, NEW stage \in Stages, Go(p, op, stage)
  PROVE  Moves(p, Reading(op, stage))
  <1>1. Reading(op, stage) \in Copies
    BY DEF TypeOK, Rows, Copies, Reading
  <1>2. handler' = [handler EXCEPT ![p] = Reading(op, stage)]
    BY DEF Go, Reading
  <1> QED
    BY <1>1, <1>2, MovesTo

LEMMA DoneMoves ==
  ASSUME TypeOK, NEW p \in Procs, Done(p)
  PROVE  Moves(p, Idle)
  <1>1. Idle \in Copies
    BY DEF Idle, Copies, Ops, Stages
  <1> QED
    BY <1>1, MovesTo DEF Done

LEMMA TurnMoves ==
  ASSUME TypeOK, NEW p \in Procs, NEW stage \in Stages, Turn(p, stage)
  PROVE  Moves(p, [handler[p] EXCEPT !.at = stage])
  <1>1. handler[p] \in Copies
    BY DEF TypeOK
  <1>2. [handler[p] EXCEPT !.at = stage] \in Copies
    BY <1>1 DEF Copies
  <1>3. handler' = [handler EXCEPT ![p] = [handler[p] EXCEPT !.at = stage]]
    BY DEF Turn
  <1> QED
    BY <1>2, <1>3, MovesTo

(* A write leaves alone what it does not name. *)
LEMMA Written ==
  ASSUME NEW new \in Rows, Write(new)
  PROVE  row' = [new EXCEPT !.old = FALSE] /\ row' \in Rows
  BY DEF Write, Rows

-------------------------------------------------------------------------------
(* Attempts: a step makes none, or asks for one, or makes one that was asked for. *)
LEMMA ResettingFinite == IsFiniteSet(Resetting) /\ Cardinality(Resetting) \in Nat
  <1>1. Resetting \subseteq Procs
    BY DEF Resetting
  <1> QED
    BY <1>1, FS_Subset, FS_CardinalityType, PublishAssumption

Asks(h) ==
  \/ requests' = requests /\ h.at # "reset"
  \/ requests' = requests + 1 /\ requests < MaxRequests

LEMMA AttemptsKept ==
  ASSUME TypeOK, AttemptsAsked, NEW p \in Procs, NEW h, Moves(p, h), Asks(h),
         row' \in Rows, row'.tries \in {row.tries, handler[p].try},
         h.try \in {0, row.tries, handler[p].try}
  PROVE  AttemptsAsked' /\ requests' \in 0..MaxRequests
  <1>1. IsFiniteSet(Resetting) /\ Cardinality(Resetting) \in Nat
    BY ResettingFinite
  <1>2. /\ requests \in Nat /\ requests <= MaxRequests /\ MaxRequests \in Nat
        /\ row.tries \in Nat /\ \A q \in Procs : handler[q].try \in Nat
    BY PublishAssumption DEF TypeOK, Rows, Copies
  <1>3. /\ row'.tries + Cardinality(Resetting) <= requests
        /\ \A q \in Procs : handler'[q].try + Cardinality(Resetting) <= requests
    <2>1. \A n \in {0, row.tries, handler[p].try} : n \in Nat /\ n + Cardinality(Resetting) <= requests
      BY <1>1, <1>2 DEF AttemptsAsked
    <2>2. \A q \in Procs \ {p} : handler'[q].try + Cardinality(Resetting) <= requests
      BY DEF Moves, AttemptsAsked
    <2> QED
      BY <2>1, <2>2 DEF Moves
  <1>4. row'.tries \in Nat /\ \A q \in Procs : handler'[q].try \in Nat
    BY DEF Rows, Moves, Copies
  <1>5. CASE requests' = requests /\ h.at # "reset"
    <2>1. Resetting' \subseteq Resetting
      BY <1>5 DEF Resetting, On, Moves
    <2>2. Cardinality(Resetting') \in Nat /\ Cardinality(Resetting') <= Cardinality(Resetting)
      BY <1>1, <2>1, FS_Subset, FS_CardinalityType
    <2> QED
      BY <1>1, <1>2, <1>3, <1>4, <1>5, <2>2 DEF AttemptsAsked
  <1>6. CASE requests' = requests + 1 /\ requests < MaxRequests
    <2>1. Resetting' \subseteq Resetting \cup {p}
      BY DEF Resetting, On, Moves
    <2>2. /\ IsFiniteSet(Resetting \cup {p})
          /\ Cardinality(Resetting \cup {p}) \in Nat
          /\ Cardinality(Resetting \cup {p}) <= Cardinality(Resetting) + 1
      <3>1. /\ IsFiniteSet(Resetting \cup {p})
            /\ Cardinality(Resetting \cup {p}) =
                 IF p \in Resetting THEN Cardinality(Resetting) ELSE Cardinality(Resetting) + 1
        BY <1>1, FS_AddElement, Zenon
      <3> QED
        BY <1>1, <3>1
    <2>3. Cardinality(Resetting') \in Nat /\ Cardinality(Resetting') <= Cardinality(Resetting) + 1
      BY <1>1, <2>1, <2>2, FS_Subset, FS_CardinalityType
    <2> QED
      BY <1>1, <1>2, <1>3, <1>4, <1>6, <2>3 DEF AttemptsAsked
  <1> QED
    BY <1>5, <1>6 DEF Asks

(* So every attempt has its reference. *)
LEMMA AttemptsInRefs ==
  ASSUME TypeOK, AttemptsAsked
  PROVE  row.tries \in Refs /\ \A p \in Procs : handler[p].try \in Refs
  <1>1. Cardinality(Resetting) \in Nat /\ requests \in Nat /\ requests <= MaxRequests
        /\ MaxRequests \in Nat
    BY ResettingFinite, PublishAssumption DEF TypeOK
  <1>2. row.tries \in Nat /\ \A p \in Procs : handler[p].try \in Nat
    BY DEF TypeOK, Rows, Copies
  <1> QED
    BY <1>1, <1>2 DEF AttemptsAsked, Refs

-------------------------------------------------------------------------------
(* A step that neither charges nor touches what the row holds of a charge, by a *)
(* process that is not about to write one down.                                 *)
SameCharge ==
  /\ row' \in Rows /\ post' \in Outcomes /\ wake' \in Wakes
  /\ row'.tries = row.tries /\ row'.ref = row.ref /\ row'.charged = row.charged
  /\ row'.status \in Waiting => row.status \in Waiting
  /\ UNCHANGED <<debits, forfeited>>

Calm(p, h) ==
  /\ Moves(p, h) /\ Asks(h)
  /\ ~On(p, "mark") /\ h.at \notin {"mark", "charge"}
  /\ h.try \in {0, row.tries, handler[p].try}
  /\ h.paid => Charged(h.ref)

LEMMA CalmKeeps ==
  ASSUME PublishInv, NEW p \in Procs, NEW h, Calm(p, h), SameCharge,
         refunds \subseteq refunds', \A r \in refunds' \ refunds : Charged(r)
  PROVE  PublishInv'
  <1> USE DEF Calm, SameCharge, PublishInv
  <1>1. AttemptsAsked' /\ requests' \in 0..MaxRequests
    BY AttemptsKept
  <1>2. \A r : Charged(r)' <=> Charged(r)
    BY DEF Charged
  <1>3. TypeOK'
    <2>1. refunds' \subseteq Nat
      BY PublishAssumption DEF TypeOK, Charged, Refs
    <2> QED
      BY <1>1, <2>1 DEF TypeOK, Moves
  <1>4. ChargesMade'
    <2>1. \A q \in Procs \ {p} : handler'[q] = handler[q]
      BY DEF Moves
    <2>2. handler'[p] = h
      BY DEF Moves
    <2>3. \A r : r \in Refs /\ debits'[r] > 0 <=> r \in Refs /\ debits[r] > 0
      OBVIOUS
    <2>4. row'.charged => Charged(row.ref)
      BY DEF ChargesMade
    <2>5. \A r \in refunds' : Charged(r)
      BY DEF ChargesMade
    <2>6. \A q \in Procs : handler'[q].paid => Charged(handler'[q].ref)
      BY <2>1, <2>2 DEF ChargesMade
    <2>7. \A q \in Procs : On(q, "mark")' =>
            Charged(handler'[q].ref) /\ handler'[q].ref = handler'[q].try
      BY <2>1, <2>2 DEF ChargesMade, On
    <2> QED
      BY <2>3, <2>4, <2>5, <2>6, <2>7 DEF ChargesMade, Charged
  <1>5. ChargesOpen'
    <2>1. \A r : Tracked(r) => Tracked(r)'
      BY DEF Tracked, On, Moves
    <2> QED
      BY <1>2, <2>1 DEF ChargesOpen, Open
  <1>6. ChargedOnce'
    <2>1. \A r : Open(r)' <=> Open(r)
      BY <1>2 DEF Open
    <2>2. \A q \in Procs : On(q, "charge")' => q # p /\ handler'[q] = handler[q] /\ On(q, "charge")
      BY DEF Moves, On
    <2>3. \A q \in Procs : On(q, "mark") => On(q, "mark")' /\ handler'[q] = handler[q]
      BY DEF Moves, On
    <2> QED
      BY <2>1, <2>2, <2>3 DEF ChargedOnce
  <1> QED
    BY <1>1, <1>3, <1>4, <1>5, <1>6

LEMMA RestKeeps ==
  ASSUME PublishInv, SameCharge, UNCHANGED <<handler, refunds, requests>>
  PROVE  PublishInv'
  BY DEF PublishInv, SameCharge, TypeOK, AttemptsAsked, Resetting, ChargesMade, ChargesOpen, ChargedOnce,
     Tracked, Open, Charged, On

-------------------------------------------------------------------------------
(* The calm steps by the way they move their process. *)
LEMMA FreeAt == ASSUME NEW p \in Procs, Free(p) PROVE ~On(p, "mark") /\ ~On(p, "charge")
  BY DEF Free, On, Idle

LEMMA AskKeeps ==
  ASSUME PublishInv, NEW p \in Procs, NEW op \in Ops, NEW stage \in Stages \ {"mark", "charge"},
         Ask(p), Go(p, op, stage), UNCHANGED <<row, outside, debits, refunds, forfeited>>
  PROVE  PublishInv'
  <1> DEFINE h == Reading(op, stage)
  <1>1. Moves(p, h)
    BY GoMoves DEF PublishInv
  <1>2. /\ h.at = stage /\ h.try = row.tries /\ h.paid = row.charged /\ h.ref = row.ref
    BY DEF Reading
  <1>3. h.paid => Charged(h.ref)
    BY <1>2 DEF PublishInv, ChargesMade
  <1> HIDE DEF h
  <1>4. Calm(p, h)
    BY <1>1, <1>2, <1>3, FreeAt DEF Calm, Asks, Ask
  <1>5. SameCharge
    BY DEF SameCharge, PublishInv, TypeOK, outside
  <1> QED
    BY <1>4, <1>5, CalmKeeps

LEMMA GoKeeps ==
  ASSUME PublishInv, NEW p \in Procs, NEW op \in Ops, NEW stage \in Stages \ {"mark", "charge", "reset"},
         ~On(p, "mark"), Go(p, op, stage), UNCHANGED <<row, outside, debits, refunds, forfeited, requests>>
  PROVE  PublishInv'
  <1> DEFINE h == Reading(op, stage)
  <1>1. Moves(p, h)
    BY GoMoves DEF PublishInv
  <1>2. /\ h.at = stage /\ h.try = row.tries /\ h.paid = row.charged /\ h.ref = row.ref
    BY DEF Reading
  <1>3. h.paid => Charged(h.ref)
    BY <1>2 DEF PublishInv, ChargesMade
  <1> HIDE DEF h
  <1>4. Calm(p, h)
    BY <1>1, <1>2, <1>3 DEF Calm, Asks
  <1>5. SameCharge
    BY DEF SameCharge, PublishInv, TypeOK, outside
  <1> QED
    BY <1>4, <1>5, CalmKeeps

LEMMA DoneKeeps ==
  ASSUME PublishInv, NEW p \in Procs, ~On(p, "mark"), Done(p), SameCharge,
         UNCHANGED <<refunds, requests>>
  PROVE  PublishInv'
  <1>1. Moves(p, Idle)
    BY DoneMoves DEF PublishInv
  <1>2. Calm(p, Idle)
    BY <1>1 DEF Calm, Asks, Idle
  <1> QED
    BY <1>2, CalmKeeps

LEMMA TurnKeeps ==
  ASSUME PublishInv, NEW p \in Procs, NEW stage \in Stages \ {"mark", "charge", "reset"},
         ~On(p, "mark"), Turn(p, stage), SameCharge, UNCHANGED requests,
         refunds \subseteq refunds', \A r \in refunds' \ refunds : Charged(r)
  PROVE  PublishInv'
  <1> DEFINE h == [handler[p] EXCEPT !.at = stage]
  <1>1. Moves(p, h)
    BY TurnMoves DEF PublishInv
  <1>2. handler[p] \in Copies
    BY DEF PublishInv, TypeOK
  <1>3. h.at = stage /\ h.try = handler[p].try /\ h.paid = handler[p].paid /\ h.ref = handler[p].ref
    BY <1>2 DEF Copies
  <1>4. h.paid => Charged(h.ref)
    BY <1>3 DEF PublishInv, ChargesMade
  <1> HIDE DEF h
  <1>5. Calm(p, h)
    BY <1>1, <1>3, <1>4 DEF Calm, Asks
  <1> QED
    BY <1>5, CalmKeeps

(* The row as it is, or written with another status alone. *)
LEMMA SameRow ==
  ASSUME TypeOK, UNCHANGED <<row, outside, debits, forfeited>>
  PROVE  SameCharge
  BY DEF SameCharge, TypeOK, outside

LEMMA StatusOnly ==
  ASSUME TypeOK, NEW status \in Statuses \ Waiting, SetStatus(status), UNCHANGED <<debits, forfeited>>,
         post' \in Outcomes, wake' \in Wakes
  PROVE  SameCharge
  <1>1. row' = [[row EXCEPT !.status = status] EXCEPT !.old = FALSE]
    BY DEF SetStatus, Write
  <1> QED
    BY <1>1 DEF SameCharge, TypeOK, Rows

-------------------------------------------------------------------------------
(* Requests, the worker and the sweep take a process. *)
LEMMA CancelKeeps == ASSUME PublishInv, NEW p \in Procs, Cancel(p) PROVE PublishInv'
  BY AskKeeps DEF Cancel, money, Ops, Stages

LEMMA SupersedeKeeps == ASSUME PublishInv, NEW p \in Procs, Supersede(p) PROVE PublishInv'
  BY AskKeeps DEF Supersede, money, Ops, Stages

LEMMA RetryKeeps == ASSUME PublishInv, NEW p \in Procs, Retry(p) PROVE PublishInv'
  BY AskKeeps DEF Retry, money, Ops, Stages

LEMMA SweepKeeps == ASSUME PublishInv, NEW p \in Procs, Sweep(p) PROVE PublishInv'
  BY GoKeeps, FreeAt DEF Sweep, money, bounds, Ops, Stages

LEMMA SyncKeeps == ASSUME PublishInv, NEW p \in Procs, Sync(p) PROVE PublishInv'
  <1>1. ~On(p, "mark") /\ UNCHANGED <<row, post, debits, refunds, forfeited, requests>>
    BY FreeAt DEF Sync, money, bounds
  <1>2. CASE wake = "current"
    <2>1. Go(p, "sync", "fetch") /\ UNCHANGED outside
      BY <1>2 DEF Sync, outside
    <2> QED
      BY <1>1, <2>1, GoKeeps DEF Ops, Stages
  <1>3. CASE wake # "current"
    <2>1. wake' = "none" /\ UNCHANGED handler
      BY <1>3 DEF Sync
    <2>2. SameCharge
      BY <1>1, <2>1 DEF SameCharge, PublishInv, TypeOK, Outcomes, Wakes
    <2> QED
      BY <1>1, <2>1, <2>2, RestKeeps
  <1> QED
    BY <1>2, <1>3

LEMMA RereadKeeps == ASSUME PublishInv, NEW p \in Procs, Reread(p) PROVE PublishInv'
  BY GoKeeps DEF Reread, money, bounds, Ops, Stages, On

LEMMA CreatePostKeeps == ASSUME PublishInv, NEW p \in Procs, CreatePost(p) PROVE PublishInv'
  BY TurnKeeps, SameRow DEF CreatePost, money, bounds, Stages, On, PublishInv

Unheard(p) == handler' = [handler EXCEPT ![p].at = "settle", ![p].paid = FALSE]

LEMMA RefundKeeps == ASSUME PublishInv, NEW p \in Procs, Refund(p) PROVE PublishInv'
  <1>1. SameCharge /\ ~On(p, "mark") /\ UNCHANGED requests
    BY SameRow DEF Refund, PublishInv, On
  <1>2. ASSUME Turn(p, "settle"),
               refunds' = refunds \/ (handler[p].paid /\ refunds' = refunds \cup {handler[p].ref})
        PROVE  PublishInv'
    <2>1. refunds \subseteq refunds' /\ \A r \in refunds' \ refunds : Charged(r)
      BY <1>2 DEF PublishInv, ChargesMade
    <2> QED
      BY <1>1, <1>2, <2>1, TurnKeeps DEF Stages
  <1>3. ASSUME Unheard(p), refunds' = refunds PROVE PublishInv'
    <2> DEFINE h == [handler[p] EXCEPT !.at = "settle", !.paid = FALSE]
    <2>1. handler[p] \in Copies
      BY DEF PublishInv, TypeOK
    <2>2. h \in Copies /\ h.at = "settle" /\ h.paid = FALSE /\ h.try = handler[p].try
      BY <2>1 DEF Copies, Stages
    <2>3. handler' = [handler EXCEPT ![p] = h]
      BY <1>3 DEF PublishInv, TypeOK, Unheard
    <2> HIDE DEF h
    <2>4. Moves(p, h)
      BY <2>2, <2>3, MovesTo DEF PublishInv
    <2>5. Calm(p, h)
      BY <1>1, <2>2, <2>4 DEF Calm, Asks
    <2> QED
      BY <1>1, <1>3, <2>5, CalmKeeps
  <1>4. \/ /\ Turn(p, "settle")
           /\ refunds' = refunds \/ (handler[p].paid /\ refunds' = refunds \cup {handler[p].ref})
        \/ Unheard(p) /\ refunds' = refunds
    BY DEF Refund, Unheard
  <1> QED
    BY <1>2, <1>3, <1>4

LEMMA OutsideTyped ==
  ASSUME TypeOK, NEW p, UNCHANGED outside \/ Leave(p)
  PROVE  post' \in Outcomes /\ wake' \in Wakes
  BY DEF TypeOK, outside, Leave, Outcomes, Wakes

LEMMA TargetStatus == ASSUME NEW p PROVE Target(p) \in Statuses \ Waiting
  BY DEF Target, Statuses, Waiting, InFlight, Ended

LEMMA SettleKeeps == ASSUME PublishInv, NEW p \in Procs, Settle(p) PROVE PublishInv'
  <1>1. ~On(p, "mark") /\ UNCHANGED <<refunds, requests, debits, forfeited>>
    BY DEF Settle, On, money, bounds
  <1> SameCharge
    BY <1>1, StatusOnly, TargetStatus, OutsideTyped DEF Settle, PublishInv
  <1>2. CASE Turn(p, "zero")
    BY <1>1, <1>2, TurnKeeps DEF Stages
  <1>3. CASE Leave(p)
    BY <1>1, <1>3, DoneKeeps DEF Leave
  <1> QED
    BY <1>2, <1>3 DEF Settle

LEMMA FetchKeeps == ASSUME PublishInv, NEW p \in Procs, Fetch(p) PROVE PublishInv'
  <1>1. ~On(p, "mark") /\ UNCHANGED <<refunds, requests, debits, forfeited>>
    BY DEF Fetch, On, money, bounds
  <1>2. PICK outcome \in Fetched :
          /\ row' = [row EXCEPT !.results = row.results \cup ({outcome} \ {"open"})]
          /\ \/ Leave(p)
             \/ /\ UNCHANGED outside
                /\ \/ Turn(p, "success") \/ Turn(p, "counted") \/ Turn(p, "refund")
    BY DEF Fetch
  <1>3. outcome \in Outcomes
    BY <1>2 DEF Fetched, Outcomes, Wakes, PublishInv, TypeOK
  <1>4. row \in Rows /\ row.results \cup ({outcome} \ {"open"}) \in SUBSET Outcomes
    BY <1>3 DEF PublishInv, TypeOK, Rows
  <1>5. SameCharge
    BY <1>1, <1>2, <1>4, OutsideTyped DEF SameCharge, Rows, PublishInv
  <1>6. CASE Leave(p)
    BY <1>1, <1>5, <1>6, DoneKeeps DEF Leave
  <1>7. CASE Turn(p, "success") \/ Turn(p, "counted") \/ Turn(p, "refund")
    BY <1>1, <1>5, <1>7, TurnKeeps DEF Stages
  <1> QED
    BY <1>2, <1>6, <1>7

LEMMA MarkSuccessKeeps == ASSUME PublishInv, NEW p \in Procs, MarkSuccess(p) PROVE PublishInv'
  <1>1. ~On(p, "mark") /\ UNCHANGED <<refunds, requests, debits, forfeited>> /\ Leave(p)
    BY DEF MarkSuccess, On, money, bounds
  <1>2. row' = [[row EXCEPT !.status = "success", !.video = @ \/ On(p, "success")] EXCEPT !.old = FALSE]
    BY DEF MarkSuccess, Write
  <1>3. row \in Rows /\ (row.video \/ On(p, "success")) \in BOOLEAN
    BY DEF PublishInv, TypeOK
  <1>4. /\ row' \in Rows /\ row'.tries = row.tries /\ row'.ref = row.ref
        /\ row'.charged = row.charged /\ row'.status = "success"
    BY <1>2, <1>3 DEF Rows, Statuses, Ended
  <1>5. SameCharge
    BY <1>1, <1>4, OutsideTyped DEF SameCharge, Waiting, PublishInv
  <1> QED
    BY <1>1, <1>5, DoneKeeps DEF Leave

(* Steps of time, of the service and of the sweep that touch no process. *)
LEMMA ExpireKeeps == ASSUME PublishInv, Expire PROVE PublishInv'
  <1>1. UNCHANGED <<outside, handler, debits, refunds, forfeited, requests>>
    BY DEF Expire, money, bounds
  <1>2. "failed" \in Statuses \ Waiting /\ SetStatus("failed")
    BY DEF Expire, Statuses, Waiting, InFlight, Ended
  <1>3. SameCharge
    BY <1>1, <1>2, StatusOnly DEF PublishInv, TypeOK, outside
  <1> QED
    BY <1>1, <1>3, RestKeeps

LEMMA AgeKeeps == ASSUME PublishInv, Age PROVE PublishInv'
  <1>1. UNCHANGED <<outside, handler, debits, refunds, forfeited, requests>>
    BY DEF Age, money, bounds
  <1>2. row \in Rows /\ row' = [row EXCEPT !.old = TRUE]
    BY DEF Age, PublishInv, TypeOK
  <1>3. SameCharge
    BY <1>1, <1>2 DEF PublishInv, TypeOK, outside, SameCharge, Rows
  <1> QED
    BY <1>1, <1>3, RestKeeps

LEMMA ServiceKeeps == ASSUME PublishInv, Publish \/ Webhook PROVE PublishInv'
  <1>1. UNCHANGED <<row, handler, debits, refunds, forfeited, requests>>
    BY DEF Publish, Webhook, money, bounds
  <1>2. post' \in Outcomes /\ wake' \in Wakes
    BY DEF Publish, Webhook, PublishInv, TypeOK, Outcomes, Wakes
  <1>3. SameCharge
    BY <1>1, <1>2 DEF SameCharge, PublishInv, TypeOK
  <1> QED
    BY <1>1, <1>3, RestKeeps

-------------------------------------------------------------------------------
(* The steps that charge, or that write over a charge. *)
OpenNext(r) == r \in Refs /\ debits'[r] > 0 /\ r \notin forfeited'

LEMMA OpenShrinks ==
  ASSUME UNCHANGED debits, forfeited \subseteq forfeited'
  PROVE  \A r : OpenNext(r) => Open(r) /\ r \notin forfeited'
  BY DEF Open, Charged, OpenNext

(* The invariants of the next state, told of the processes one by one. *)
LEMMA OnceNext ==
  ASSUME \A r \in Refs : debits'[r] <= 1 \/ r \in forfeited',
         \A r \in Refs : r > row'.tries => ~OpenNext(r),
         row'.status \in Waiting /\ ~row'.charged /\ OpenNext(row'.tries) =>
           \E q \in Procs : handler'[q].at = "mark" /\ handler'[q].try = row'.tries,
         \A q \in Procs : handler'[q].at = "charge" =>
           /\ ~OpenNext(handler'[q].try)
           /\ handler'[q].try > row'.tries => handler'[q].try \in forfeited',
         \A q1, q2 \in Procs :
           /\ q1 # q2 /\ handler'[q1].at = "charge" /\ handler'[q2].at = "charge"
           /\ handler'[q1].try = handler'[q2].try
           => handler'[q1].try \in forfeited'
  PROVE  ChargedOnce'
  <1>1. \A r : r \in Refs /\ debits'[r] > 0 /\ r \notin forfeited' <=> OpenNext(r)
    BY DEF OpenNext
  <1>2. /\ \A r \in Refs : r > row'.tries => ~(r \in Refs /\ debits'[r] > 0 /\ r \notin forfeited')
        /\ \A q \in Procs : handler'[q].at = "charge" =>
             ~(handler'[q].try \in Refs /\ debits'[handler'[q].try] > 0 /\ handler'[q].try \notin forfeited')
        /\ row'.tries \in Refs /\ debits'[row'.tries] > 0 /\ row'.tries \notin forfeited' => OpenNext(row'.tries)
    BY <1>1
  <1> QED
    BY <1>2 DEF ChargedOnce, Open, Charged, On

LEMMA OpenKept ==
  ASSUME \A r \in Refs : OpenNext(r) /\ r \notin refunds' =>
           \/ row'.charged /\ row'.ref = r
           \/ \E q \in Procs : handler'[q].at = "mark" /\ handler'[q].ref = r
  PROVE  ChargesOpen'
  <1>1. \A r \in Refs : debits'[r] > 0 /\ r \notin forfeited' /\ r \notin refunds' =>
           \/ row'.charged /\ row'.ref = r
           \/ \E q \in Procs : handler'[q].at = "mark" /\ handler'[q].ref = r
    BY DEF OpenNext
  <1> QED
    BY <1>1 DEF ChargesOpen, Open, Charged, Tracked, On

(* What most of them keep. *)
LEMMA BasicsKept ==
  ASSUME PublishInv, NEW p \in Procs, NEW h, Moves(p, h), Asks(h),
         row' \in Rows, post' \in Outcomes, wake' \in Wakes,
         row'.tries \in {row.tries, handler[p].try}, h.try \in {0, row.tries, handler[p].try},
         UNCHANGED <<debits, refunds>>, forfeited' \subseteq Nat,
         row'.charged => Charged(row'.ref), h.paid => Charged(h.ref), h.at # "mark"
  PROVE  TypeOK' /\ AttemptsAsked' /\ ChargesMade'
  <1>1. AttemptsAsked' /\ requests' \in 0..MaxRequests
    BY AttemptsKept DEF PublishInv
  <1>2. TypeOK'
    BY <1>1 DEF TypeOK, Moves, PublishInv
  <1>3. ChargesMade'
    <2>1. \A q \in Procs \ {p} : handler'[q] = handler[q]
      BY DEF Moves
    <2>2. handler'[p] = h
      BY DEF Moves
    <2>3. \A r \in refunds' : Charged(r)
      BY DEF ChargesMade, PublishInv
    <2>4. \A q \in Procs : handler'[q].paid => Charged(handler'[q].ref)
      BY <2>1, <2>2 DEF ChargesMade, PublishInv
    <2>5. \A q \in Procs : On(q, "mark")' =>
            Charged(handler'[q].ref) /\ handler'[q].ref = handler'[q].try
      BY <2>1, <2>2 DEF ChargesMade, PublishInv, On
    <2> QED
      BY <2>3, <2>4, <2>5 DEF ChargesMade, Charged
  <1> QED
    BY <1>1, <1>2, <1>3

(* complete_job sends a process to the wallet; a rival makes the charge a lost one. *)
LEMMA CompleteKeeps == ASSUME PublishInv, NEW p \in Procs, Complete(p) PROVE PublishInv'
  <1>1. /\ UNCHANGED <<row, outside, debits, refunds>> /\ Ask(p)
        /\ row.status \in Waiting
    BY DEF Complete
  <1>2. CASE Go(p, "fail", "settle") /\ UNCHANGED forfeited
    BY <1>1, <1>2, AskKeeps DEF Ops, Stages
  <1>3. CASE row.charged /\ Go(p, "complete", "post") /\ UNCHANGED forfeited
    BY <1>1, <1>3, AskKeeps DEF Ops, Stages
  <1>4. CASE /\ ~row.charged /\ Go(p, "complete", "charge")
             /\ forfeited' = IF Rivals(p) = {} THEN forfeited ELSE forfeited \cup {row.tries}
    <2> DEFINE h == Reading("complete", "charge")
               t == row.tries
    <2>1. Moves(p, h)
      BY <1>4, GoMoves DEF PublishInv, Ops, Stages
    <2>2. h.at = "charge" /\ h.try = t /\ h.paid = row.charged
      BY DEF Reading
    <2>3. t \in Nat /\ row \in Rows /\ forfeited \subseteq Nat /\ row' = row
      BY <1>1 DEF PublishInv, TypeOK, Rows
    <2>4. forfeited \subseteq forfeited' /\ forfeited' \subseteq Nat
      BY <1>4, <2>3
    <2> HIDE DEF h
    <2>5. TypeOK' /\ AttemptsAsked' /\ ChargesMade'
      <3>1. post' \in Outcomes /\ wake' \in Wakes
        BY <1>1 DEF outside, PublishInv, TypeOK
      <3>2. Asks(h)
        BY <1>1 DEF Ask, Asks
      <3>3. row'.charged => Charged(row'.ref)
        BY <1>4, <2>3
      <3> QED
        BY <1>1, <1>4, <2>1, <2>2, <2>3, <2>4, <3>1, <3>2, <3>3, BasicsKept
    <2>6. \A q \in Procs : ~On(p, "mark") /\ ~On(p, "charge") /\ (q # p => handler'[q] = handler[q])
      BY <1>1, <2>1, FreeAt DEF Ask, Moves
    <2>7. handler'[p] = h
      BY <2>1 DEF Moves
    <2>8. \A r : OpenNext(r) => Open(r) /\ r \notin forfeited'
      BY <1>1, <2>4, OpenShrinks
    <2>9. ChargesOpen'
      <3>1. \A q \in Procs : handler[q].at = "mark" => handler'[q] = handler[q]
        BY <2>6 DEF On
      <3>2. ASSUME NEW r \in Refs, OpenNext(r), r \notin refunds'
            PROVE  \/ row'.charged /\ row'.ref = r
                   \/ \E q \in Procs : handler'[q].at = "mark" /\ handler'[q].ref = r
        <4>1. Tracked(r)
          BY <1>1, <2>8, <3>2 DEF PublishInv, ChargesOpen
        <4> QED
          BY <2>3, <3>1, <4>1 DEF Tracked, On
      <3> QED
        BY <3>2, OpenKept
    <2>10. \A q \in Procs \ {p} : handler[q].at \in {"charge", "mark"} /\ handler[q].try = t => t \in forfeited'
      BY <1>4, <2>3 DEF Rivals
    <2>11. ChargedOnce'
      <3>1. \A r \in Refs : debits'[r] <= 1 \/ r \in forfeited'
        BY <1>1, <2>4 DEF PublishInv, ChargedOnce
      <3>2. \A r \in Refs : r > row'.tries => ~OpenNext(r)
        BY <2>3, <2>8 DEF PublishInv, ChargedOnce
      <3>3. Open(t) => \E q \in Procs : On(q, "mark") /\ handler[q].try = t
        BY <1>1, <1>4 DEF PublishInv, ChargedOnce
      <3>4. ~OpenNext(t)
        BY <2>6, <2>8, <2>10, <3>3 DEF On
      <3>5. \A q \in Procs \ {p} : handler'[q].at = "charge" => On(q, "charge") /\ handler'[q] = handler[q]
        BY <2>6 DEF On
      <3>6. \A q \in Procs \ {p} : handler'[q].at = "charge" =>
              /\ ~OpenNext(handler'[q].try)
              /\ handler'[q].try > row'.tries => handler'[q].try \in forfeited'
              /\ handler'[q].try = t => t \in forfeited'
        BY <2>3, <2>4, <2>8, <2>10, <3>5 DEF PublishInv, ChargedOnce, On
      <3>7. /\ handler'[p].try = t /\ ~(t > t)
        BY <2>2, <2>3, <2>7
      <3>8. \A q1, q2 \in Procs \ {p} :
              /\ q1 # q2 /\ handler'[q1].at = "charge" /\ handler'[q2].at = "charge"
              /\ handler'[q1].try = handler'[q2].try
              => handler'[q1].try \in forfeited'
        BY <2>4, <3>5 DEF PublishInv, ChargedOnce
      <3>9. \A q1, q2 \in Procs :
              /\ q1 # q2 /\ handler'[q1].at = "charge" /\ handler'[q2].at = "charge"
              /\ handler'[q1].try = handler'[q2].try
              => handler'[q1].try \in forfeited'
        BY <3>6, <3>7, <3>8
      <3>10. \A q \in Procs : handler'[q].at = "charge" =>
              /\ ~OpenNext(handler'[q].try)
              /\ handler'[q].try > row'.tries => handler'[q].try \in forfeited'
        BY <2>3, <3>4, <3>6, <3>7
      <3>11. ~OpenNext(row'.tries)
        BY <2>3, <3>4
      <3> QED
        BY <3>1, <3>2, <3>9, <3>10, <3>11, OnceNext
    <2> QED
      BY <2>5, <2>9, <2>11 DEF PublishInv
  <1> QED
    BY <1>2, <1>3, <1>4 DEF Complete

(* A step that may lose a charge, by a process that is then about to make none. *)
LEMMA ForfeitKeeps ==
  ASSUME PublishInv, NEW p \in Procs, NEW h, Moves(p, h), h.at \notin {"charge", "mark"},
         row' \in Rows, UNCHANGED <<debits, refunds>>, forfeited \subseteq forfeited',
         \A r \in Nat : r > row'.tries => r > row.tries \/ r \in forfeited',
         row'.status \in Waiting /\ ~row'.charged /\ OpenNext(row'.tries) =>
           \E q \in Procs \ {p} : On(q, "mark") /\ handler[q].try = row'.tries,
         \A r \in Refs :
           OpenNext(r) /\ r \notin refunds
             /\ ((row.charged /\ row.ref = r) \/ (On(p, "mark") /\ handler[p].ref = r))
           => row'.charged /\ row'.ref = r
  PROVE  ChargesOpen' /\ ChargedOnce'
  <1>1. \A r : OpenNext(r) => Open(r) /\ r \notin forfeited'
    BY OpenShrinks
  <1>2. \A q \in Procs \ {p} : handler'[q] = handler[q]
    BY DEF Moves
  <1>3. handler'[p].at \notin {"charge", "mark"}
    BY DEF Moves
  <1>4. ChargesOpen'
    <2>1. ASSUME NEW r \in Refs, OpenNext(r), r \notin refunds'
          PROVE  \/ row'.charged /\ row'.ref = r
                 \/ \E q \in Procs : handler'[q].at = "mark" /\ handler'[q].ref = r
      <3>1. Tracked(r)
        BY <1>1, <2>1 DEF PublishInv, ChargesOpen
      <3>2. CASE \E q \in Procs \ {p} : On(q, "mark") /\ handler[q].ref = r
        BY <1>2, <3>2 DEF On
      <3>3. CASE (row.charged /\ row.ref = r) \/ (On(p, "mark") /\ handler[p].ref = r)
        BY <2>1, <3>3
      <3> QED
        BY <3>1, <3>2, <3>3 DEF Tracked
    <2> QED
      BY <2>1, OpenKept
  <1>5. ChargedOnce'
    <2>1. \A r \in Refs : debits'[r] <= 1 \/ r \in forfeited'
      BY DEF PublishInv, ChargedOnce
    <2>2. \A r \in Refs : r > row'.tries => ~OpenNext(r)
      BY <1>1, PublishAssumption DEF PublishInv, ChargedOnce, Refs
    <2>3. \A q \in Procs : handler'[q].at = "charge" =>
            q # p /\ On(q, "charge") /\ handler'[q] = handler[q] /\ handler[q].try \in Nat
      BY <1>2, <1>3 DEF On, PublishInv, TypeOK, Copies
    <2>4. \A q \in Procs : handler'[q].at = "charge" =>
            /\ ~OpenNext(handler'[q].try)
            /\ handler'[q].try > row'.tries => handler'[q].try \in forfeited'
      BY <1>1, <2>3 DEF PublishInv, ChargedOnce
    <2>5. \A q1, q2 \in Procs :
            /\ q1 # q2 /\ handler'[q1].at = "charge" /\ handler'[q2].at = "charge"
            /\ handler'[q1].try = handler'[q2].try
            => handler'[q1].try \in forfeited'
      BY <2>3 DEF PublishInv, ChargedOnce
    <2>6. row'.status \in Waiting /\ ~row'.charged /\ OpenNext(row'.tries) =>
            \E q \in Procs : handler'[q].at = "mark" /\ handler'[q].try = row'.tries
      BY <1>2 DEF On
    <2> QED
      BY <2>1, <2>2, <2>4, <2>5, <2>6, OnceNext
  <1> QED
    BY <1>4, <1>5

LEMMA UnpaidKeeps == ASSUME PublishInv, NEW p \in Procs, Unpaid(p) PROVE PublishInv'
  <1> DEFINE t == row.tries
  <1>1. /\ UNCHANGED <<outside, debits, refunds, requests>> /\ Done(p)
        /\ ~On(p, "mark")
    BY DEF Unpaid, bounds, On
  <1>2. /\ row \in Rows /\ post \in Outcomes /\ wake \in Wakes /\ forfeited \subseteq Nat
        /\ t \in Nat /\ t \in Refs /\ debits \in [Refs -> Nat] /\ Refs \subseteq Nat
    BY AttemptsInRefs DEF PublishInv, TypeOK, Rows, Refs
  <1>3. /\ row' \in Rows /\ row'.tries = t /\ row'.ref = row.ref /\ row'.charged = row.charged
    <2>1. row' = [[row EXCEPT !.status = "pending_payment"] EXCEPT !.old = FALSE]
      BY DEF Unpaid, SetStatus, Write
    <2> QED
      BY <1>2, <2>1 DEF Rows, Statuses, Waiting
  <1>4. /\ forfeited \subseteq forfeited' /\ forfeited' \subseteq Nat
        /\ debits[t] > 0 => t \in forfeited'
    BY <1>2 DEF Unpaid
  <1>5. Moves(p, Idle) /\ Idle.at = "idle" /\ Idle.try = 0 /\ Idle.paid = FALSE
    BY <1>1, DoneMoves DEF PublishInv, Idle
  <1>6. TypeOK' /\ AttemptsAsked' /\ ChargesMade'
    <2>1. row'.charged => Charged(row'.ref)
      BY <1>3 DEF PublishInv, ChargesMade
    <2>2. Asks(Idle) /\ post' \in Outcomes /\ wake' \in Wakes
      BY <1>1, <1>2, <1>5 DEF Asks, outside
    <2> QED
      BY <1>1, <1>3, <1>4, <1>5, <2>1, <2>2, BasicsKept
  <1>7. ChargesOpen' /\ ChargedOnce'
    <2>1. ~OpenNext(t)
      BY <1>1, <1>4 DEF OpenNext
    <2> HIDE DEF t
    <2> QED
      BY <1>1, <1>3, <1>4, <1>5, <2>1, ForfeitKeeps DEF t
  <1> QED
    BY <1>6, <1>7 DEF PublishInv

LEMMA MarkChargedKeeps == ASSUME PublishInv, NEW p \in Procs, MarkCharged(p) PROVE PublishInv'
  <1> DEFINE m == handler[p].ref
             h == [handler[p] EXCEPT !.at = "reread"]
  <1>1. /\ UNCHANGED <<outside, debits, refunds, requests>> /\ Turn(p, "reread")
        /\ On(p, "mark")
    BY DEF MarkCharged, bounds
  <1>2. /\ row \in Rows /\ post \in Outcomes /\ wake \in Wakes /\ forfeited \subseteq Nat
        /\ handler[p] \in Copies /\ row.ref \in Nat /\ m \in Nat
    BY DEF PublishInv, TypeOK, Rows, Copies
  <1>3. /\ row' \in Rows /\ row'.tries = row.tries /\ row'.ref = m /\ row'.charged = TRUE
        /\ row'.status = "queued"
    <2>1. row' = [[row EXCEPT !.status = "queued", !.charged = TRUE, !.ref = m] EXCEPT !.old = FALSE]
      BY DEF MarkCharged, Write
    <2> QED
      BY <1>2, <2>1 DEF Rows, Statuses, InFlight
  <1>4. forfeited' = forfeited \cup (Unreturned \ {m})
    BY DEF MarkCharged
  <1>5. Unreturned \subseteq {row.ref}
    BY DEF Unreturned
  <1>6. forfeited \subseteq forfeited' /\ forfeited' \subseteq Nat
    BY <1>2, <1>4, <1>5
  <1>7. Moves(p, h) /\ h.at = "reread" /\ h.try = handler[p].try /\ h.paid = handler[p].paid /\ h.ref = m
    BY <1>1, <1>2, TurnMoves DEF PublishInv, Copies, Stages
  <1> HIDE DEF m, h
  <1>8. TypeOK' /\ AttemptsAsked' /\ ChargesMade'
    <2>1. Charged(m) /\ (handler[p].paid => Charged(m))
      BY <1>1 DEF PublishInv, ChargesMade, m
    <2>2. Asks(h) /\ post' \in Outcomes /\ wake' \in Wakes
      BY <1>1, <1>2, <1>7 DEF Asks, outside
    <2> QED
      BY <1>1, <1>3, <1>6, <1>7, <2>1, <2>2, BasicsKept
  <1>9. ChargesOpen' /\ ChargedOnce'
    <2>1. \A r \in Refs :
            OpenNext(r) /\ r \notin refunds
              /\ ((row.charged /\ row.ref = r) \/ (On(p, "mark") /\ handler[p].ref = r))
            => row'.charged /\ row'.ref = r
      BY <1>3, <1>4 DEF Unreturned, OpenNext, m
    <2> QED
      BY <1>1, <1>3, <1>6, <1>7, <2>1, ForfeitKeeps DEF Waiting
  <1> QED
    BY <1>8, <1>9 DEF PublishInv

LEMMA MarkPostedKeeps == ASSUME PublishInv, NEW p \in Procs, MarkPosted(p) PROVE PublishInv'
  <1> DEFINE t == handler[p].try
  <1>1. /\ UNCHANGED <<debits, refunds, requests>> /\ Done(p) /\ ~On(p, "mark")
        /\ post' \in {"open", "success", "failed"} /\ LeavePost
        /\ forfeited' = forfeited \cup ((t + 1)..row.tries)
    BY DEF MarkPosted, bounds, On
  <1>2. /\ row \in Rows /\ post \in Outcomes /\ wake \in Wakes /\ forfeited \subseteq Nat
        /\ row.tries \in Nat /\ t \in Nat
    BY DEF PublishInv, TypeOK, Rows, Copies
  <1>3. /\ row' \in Rows /\ row'.tries = t /\ row'.ref = row.ref /\ row'.charged = row.charged
        /\ row'.status = "processing"
    <2>1. row' = [[row EXCEPT !.status = "processing", !.tries = t] EXCEPT !.old = FALSE]
      BY DEF MarkPosted, Write
    <2> QED
      BY <1>2, <2>1 DEF Rows, Statuses, InFlight
  <1>4. Moves(p, Idle) /\ Idle.at = "idle" /\ Idle.try = 0 /\ Idle.paid = FALSE
    BY <1>1, DoneMoves DEF PublishInv, Idle
  <1> HIDE DEF t
  <1>5. forfeited \subseteq forfeited' /\ forfeited' \subseteq Nat
    <2>1. (t + 1)..row.tries \subseteq Nat
      BY <1>2
    <2> QED
      BY <1>1, <1>2, <2>1
  <1>6. \A r \in Nat : r > t => r > row.tries \/ r \in forfeited'
    BY <1>1, <1>2
  <1>7. TypeOK' /\ AttemptsAsked' /\ ChargesMade'
    <2>1. row'.charged => Charged(row'.ref)
      BY <1>3 DEF PublishInv, ChargesMade
    <2>2. post' \in Outcomes /\ wake' \in Wakes
      BY <1>1, <1>2 DEF LeavePost, Outcomes, Wakes
    <2>3. Asks(Idle)
      BY <1>1, <1>4 DEF Asks
    <2>4. row'.tries = handler[p].try
      BY <1>3 DEF t
    <2> QED
      BY <1>1, <1>3, <1>4, <1>5, <2>1, <2>2, <2>3, <2>4, BasicsKept
  <1>8. ChargesOpen' /\ ChargedOnce'
    BY <1>1, <1>3, <1>4, <1>5, <1>6, ForfeitKeeps DEF Waiting
  <1> QED
    BY <1>7, <1>8 DEF PublishInv

LEMMA ZeroKeeps == ASSUME PublishInv, NEW p \in Procs, Zero(p) PROVE PublishInv'
  <1>1. /\ UNCHANGED <<debits, refunds, requests>> /\ Leave(p) /\ Done(p) /\ ~On(p, "mark")
        /\ forfeited' = forfeited \cup Unreturned
    BY DEF Zero, bounds, On, Leave
  <1>2. row \in Rows /\ forfeited \subseteq Nat /\ row.ref \in Nat
    BY DEF PublishInv, TypeOK, Rows
  <1>3. /\ row' \in Rows /\ row'.tries = row.tries /\ row'.charged = FALSE
        /\ row'.status \notin Waiting
    <2>1. row' = [[row EXCEPT !.status = Target(p), !.charged = FALSE] EXCEPT !.old = FALSE]
      BY DEF Zero, Write
    <2>2. Target(p) \in Statuses \ Waiting
      BY TargetStatus
    <2> QED
      BY <1>2, <2>1, <2>2 DEF Rows
  <1>4. Unreturned \subseteq {row.ref} /\ (row.charged => row.ref \in refunds \cup Unreturned)
    BY DEF Unreturned
  <1>5. forfeited \subseteq forfeited' /\ forfeited' \subseteq Nat
    BY <1>1, <1>2, <1>4
  <1>6. Moves(p, Idle) /\ Idle.at = "idle" /\ Idle.try = 0 /\ Idle.paid = FALSE
    BY <1>1, DoneMoves DEF PublishInv, Idle
  <1>7. TypeOK' /\ AttemptsAsked' /\ ChargesMade'
    <2>1. post' \in Outcomes /\ wake' \in Wakes
      BY <1>1, OutsideTyped DEF PublishInv
    <2>2. Asks(Idle)
      BY <1>1, <1>6 DEF Asks
    <2> QED
      BY <1>1, <1>3, <1>5, <1>6, <2>1, <2>2, BasicsKept
  <1>8. ChargesOpen' /\ ChargedOnce'
    <2>1. \A r \in Refs :
            OpenNext(r) /\ r \notin refunds
              /\ ((row.charged /\ row.ref = r) \/ (On(p, "mark") /\ handler[p].ref = r))
            => row'.charged /\ row'.ref = r
      BY <1>1, <1>4 DEF OpenNext
    <2> QED
      BY <1>1, <1>3, <1>5, <1>6, <2>1, ForfeitKeeps
  <1> QED
    BY <1>7, <1>8 DEF PublishInv

(* The next attempt has never been charged; and it was asked for. *)
LEMMA ResetKeeps == ASSUME PublishInv, NEW p \in Procs, Reset(p) PROVE PublishInv'
  <1> DEFINE n == row.tries + 1
  <1>1. /\ UNCHANGED <<debits, refunds, forfeited, requests>> /\ Done(p) /\ On(p, "reset")
        /\ post' = "none" /\ LeavePost
    BY DEF Reset, bounds, money
  <1>2. /\ row \in Rows /\ post \in Outcomes /\ wake \in Wakes /\ forfeited \subseteq Nat
        /\ row.tries \in Nat /\ requests \in 0..MaxRequests /\ refunds \subseteq Nat
        /\ debits \in [Refs -> Nat]
    BY DEF PublishInv, TypeOK, Rows
  <1>3. /\ row' \in Rows /\ row'.tries = n /\ row'.ref = row.ref /\ row'.charged = row.charged
        /\ row'.status = "pending_upload"
    <2>1. row' = [[row EXCEPT !.status = "pending_upload", !.tries = n] EXCEPT !.old = FALSE]
      BY DEF Reset, Write
    <2>2. n \in Nat
      BY <1>2
    <2> HIDE DEF n
    <2> QED
      BY <1>2, <2>1, <2>2 DEF Rows, Statuses, Waiting
  <1>4. /\ Moves(p, Idle) /\ Idle.at = "idle" /\ Idle.try = 0 /\ Idle.paid = FALSE
    BY <1>1, DoneMoves DEF PublishInv, Idle
  <1>5. /\ handler' \in [Procs -> Copies] /\ handler'[p] = Idle
        /\ \A q \in Procs \ {p} : handler'[q] = handler[q]
    BY <1>4 DEF Moves
  <1> HIDE DEF n
  <1>6. AttemptsAsked'
    <2> DEFINE k == Cardinality(Resetting)
               l == Cardinality(Resetting')
    <2>1. IsFiniteSet(Resetting) /\ k \in Nat
      BY ResettingFinite
    <2>2. Resetting' = Resetting \ {p} /\ p \in Resetting
      BY <1>1, <1>4, <1>5 DEF Resetting, On
    <2>3. l = k - 1 /\ l \in Nat
      <3>1. IsFiniteSet(Resetting \ {p})
        BY <2>1, FS_Subset, Zenon
      <3>2. Cardinality(Resetting \ {p}) = Cardinality(Resetting) - 1
        BY <2>1, <2>2, FS_RemoveElement
      <3>3. Cardinality(Resetting \ {p}) \in Nat
        BY <3>1, FS_CardinalityType
      <3> QED
        BY <2>2, <3>2, <3>3
    <2>4. row.tries + k <= requests /\ \A q \in Procs : handler[q].try + k <= requests /\ handler[q].try \in Nat
      BY DEF PublishInv, AttemptsAsked, TypeOK, Copies
    <2>5. requests \in Nat
      BY <1>2, PublishAssumption
    <2> HIDE DEF k, l
    <2>6. row'.tries + l <= requests
      BY <1>2, <1>3, <2>1, <2>3, <2>4 DEF n
    <2>7. \A q \in Procs : handler'[q].try + l <= requests
      BY <1>2, <1>4, <1>5, <2>1, <2>3, <2>4, <2>5
    <2> QED
      BY <1>1, <2>6, <2>7 DEF AttemptsAsked, l
  <1>7. TypeOK'
    <2>1. wake' \in Wakes /\ post' \in Outcomes
      BY <1>1, <1>2 DEF LeavePost, Outcomes, Wakes
    <2> QED
      BY <1>1, <1>2, <1>3, <1>5, <2>1 DEF TypeOK
  <1>8. ChargesMade'
    <2>1. row'.charged => Charged(row'.ref)
      BY <1>3 DEF PublishInv, ChargesMade
    <2>2. \A r \in refunds' : Charged(r)
      BY <1>1 DEF ChargesMade, PublishInv
    <2>3. \A q \in Procs : handler'[q].paid => Charged(handler'[q].ref)
      BY <1>4, <1>5 DEF ChargesMade, PublishInv
    <2>4. \A q \in Procs : handler'[q].at = "mark" =>
            Charged(handler'[q].ref) /\ handler'[q].ref = handler'[q].try
      BY <1>4, <1>5 DEF ChargesMade, PublishInv, On
    <2> QED
      BY <1>1, <2>1, <2>2, <2>3, <2>4 DEF ChargesMade, Charged, On
  <1>9. ChargesOpen' /\ ChargedOnce'
    <2>1. \A r \in Nat : r >= n => r > row.tries
      BY <1>2 DEF n
    <2>2. \A r \in Nat : r > n => r > row.tries
      BY <1>2 DEF n
    <2>3. ~OpenNext(n)
      <3>1. n \in Nat /\ n > row.tries
        BY <1>2 DEF n
      <3>2. OpenNext(n) => Open(n)
        BY <1>1, OpenShrinks
      <3> QED
        BY <3>1, <3>2 DEF PublishInv, ChargedOnce, OpenNext
    <2>4. \A r \in Refs :
            OpenNext(r) /\ r \notin refunds
              /\ ((row.charged /\ row.ref = r) \/ (On(p, "mark") /\ handler[p].ref = r))
            => row'.charged /\ row'.ref = r
      BY <1>1, <1>3 DEF On
    <2> QED
      BY <1>1, <1>3, <1>4, <2>2, <2>3, <2>4, ForfeitKeeps
  <1> QED
    BY <1>6, <1>7, <1>8, <1>9 DEF PublishInv

LEMMA DieKeeps == ASSUME PublishInv, NEW p \in Procs, Die(p) PROVE PublishInv'
  <1>1. UNCHANGED <<row, outside, debits, refunds, requests>> /\ Done(p)
    BY DEF Die
  <1>2. CASE ~On(p, "mark")
    <2>1. UNCHANGED forfeited
      BY <1>2 DEF Die
    <2> QED
      BY <1>1, <1>2, <2>1, SameRow, DoneKeeps DEF PublishInv
  <1>3. CASE On(p, "mark")
    <2> DEFINE m == handler[p].ref
    <2>1. forfeited' = forfeited \cup {m}
      BY <1>3 DEF Die
    <2>2. /\ row \in Rows /\ row' = row /\ post' \in Outcomes /\ wake' \in Wakes
          /\ forfeited \subseteq Nat /\ m \in Nat
      BY <1>1 DEF PublishInv, TypeOK, Copies, outside
    <2>3. m = handler[p].try
      BY <1>3 DEF PublishInv, ChargesMade
    <2> HIDE DEF m
    <2>4. forfeited \subseteq forfeited' /\ forfeited' \subseteq Nat /\ m \in forfeited'
      BY <2>1, <2>2
    <2>5. Moves(p, Idle) /\ Idle.at = "idle" /\ Idle.try = 0 /\ Idle.paid = FALSE
      BY <1>1, DoneMoves DEF PublishInv, Idle
    <2>6. TypeOK' /\ AttemptsAsked' /\ ChargesMade'
      <3>1. row'.charged => Charged(row'.ref)
        BY <2>2 DEF PublishInv, ChargesMade
      <3>2. Asks(Idle)
        BY <1>1, <2>5 DEF Asks
      <3> QED
        BY <1>1, <2>2, <2>4, <2>5, <3>1, <3>2, BasicsKept
    <2>7. ChargesOpen' /\ ChargedOnce'
      <3>1. row.status \in Waiting /\ ~row.charged /\ OpenNext(row.tries) =>
              \E q \in Procs \ {p} : On(q, "mark") /\ handler[q].try = row.tries
        <4>1. OpenNext(row.tries) => Open(row.tries) /\ row.tries # m
          BY <1>1, <2>4, OpenShrinks
        <4> QED
          BY <2>3, <4>1 DEF PublishInv, ChargedOnce
      <3>2. \A r \in Refs :
              OpenNext(r) /\ r \notin refunds
                /\ ((row.charged /\ row.ref = r) \/ (On(p, "mark") /\ handler[p].ref = r))
              => row'.charged /\ row'.ref = r
        BY <2>2, <2>4 DEF OpenNext, m
      <3> QED
        BY <1>1, <2>2, <2>4, <2>5, <3>1, <3>2, ForfeitKeeps
    <2> QED
      BY <2>6, <2>7 DEF PublishInv
  <1> QED
    BY <1>2, <1>3

(* The wallet takes a reference that is not charged, or one already lost. *)
LEMMA ChargeKeeps == ASSUME PublishInv, NEW p \in Procs, Charge(p) PROVE PublishInv'
  <1> DEFINE t == handler[p].try
             h == [handler[p] EXCEPT !.at = "mark", !.ref = t]
  <1>1. /\ UNCHANGED <<row, outside, refunds, forfeited, requests>> /\ On(p, "charge") /\ ~On(p, "mark")
    BY DEF Charge, bounds, On
  <1>2. CASE Turn(p, "unpaid") /\ UNCHANGED debits
    BY <1>1, <1>2, SameRow, TurnKeeps DEF Stages, PublishInv
  <1>3. CASE /\ debits' = [debits EXCEPT ![t] = @ + 1]
             /\ handler' = [handler EXCEPT ![p].at = "mark", ![p].ref = t]
    <2>1. /\ handler[p] \in Copies /\ handler \in [Procs -> Copies] /\ debits \in [Refs -> Nat]
          /\ t \in Refs /\ t \in Nat /\ row \in Rows /\ row.tries \in Nat
      BY AttemptsInRefs DEF PublishInv, TypeOK, Rows, Copies
    <2>2. /\ h \in Copies /\ h.at = "mark" /\ h.try = t /\ h.ref = t /\ h.paid = handler[p].paid
      BY <2>1 DEF Copies, Stages
    <2>3. handler' = [handler EXCEPT ![p] = h]
      BY <1>3, <2>1
    <2> HIDE DEF h
    <2>4. Moves(p, h)
      BY <2>2, <2>3, MovesTo DEF PublishInv
    <2>5. handler'[p] = h /\ \A q \in Procs \ {p} : handler'[q] = handler[q]
      BY <2>4 DEF Moves
    <2>6. /\ debits' \in [Refs -> Nat] /\ debits'[t] = debits[t] + 1
          /\ \A r \in Refs \ {t} : debits'[r] = debits[r]
      BY <1>3, <2>1
    <2>7. row' = row /\ refunds' = refunds /\ forfeited' = forfeited
      BY <1>1
    <2>8. debits[t] \in Nat /\ debits'[t] > 0
      BY <2>1, <2>6
    <2>9. debits[t] = 0 \/ t \in forfeited
      BY <1>1, <2>1, <2>8 DEF PublishInv, ChargedOnce, Open, Charged
    <2> HIDE DEF t
    <2>10. \A r : OpenNext(r) /\ r # t => Open(r)
      BY <2>6, <2>7 DEF OpenNext, Open, Charged
    <2>11. AttemptsAsked' /\ requests' \in 0..MaxRequests
      <3>1. Asks(h)
        BY <1>1, <2>2 DEF Asks
      <3>2. h.try \in {0, row.tries, handler[p].try}
        BY <2>2 DEF t
      <3> QED
        BY <2>1, <2>4, <2>7, <3>1, <3>2, AttemptsKept DEF PublishInv
    <2>12. TypeOK'
      <3>1. post' \in Outcomes /\ wake' \in Wakes
        BY <1>1 DEF outside, PublishInv, TypeOK
      <3> QED
        BY <2>4, <2>6, <2>7, <2>11, <3>1 DEF TypeOK, Moves, PublishInv
    <2>13. ChargesMade'
      <3>1. \A r : Charged(r) => r \in Refs /\ debits'[r] > 0
        BY <2>1, <2>6, <2>8 DEF Charged
      <3>2. row'.charged => Charged(row'.ref)
        BY <2>7 DEF PublishInv, ChargesMade
      <3>3. \A r \in refunds' : Charged(r)
        BY <2>7 DEF PublishInv, ChargesMade
      <3>4. \A q \in Procs \ {p} :
              /\ handler'[q].paid => Charged(handler'[q].ref)
              /\ handler'[q].at = "mark" =>
                   Charged(handler'[q].ref) /\ handler'[q].ref = handler'[q].try
        BY <2>5 DEF PublishInv, ChargesMade, On
      <3>5. handler'[p].ref = t /\ handler'[p].try = t /\ t \in Refs /\ debits'[t] > 0
        BY <2>1, <2>2, <2>5, <2>8
      <3> QED
        BY <3>1, <3>2, <3>3, <3>4, <3>5 DEF ChargesMade, Charged, On
    <2>14. ChargesOpen'
      <3>1. ASSUME NEW r \in Refs, OpenNext(r), r \notin refunds'
            PROVE  \/ row'.charged /\ row'.ref = r
                   \/ \E q \in Procs : handler'[q].at = "mark" /\ handler'[q].ref = r
        <4>1. CASE r = t
          BY <2>2, <2>5, <4>1
        <4>2. CASE r # t
          <5>1. Tracked(r)
            BY <2>7, <2>10, <3>1, <4>2 DEF PublishInv, ChargesOpen
          <5> QED
            BY <1>1, <2>5, <2>7, <5>1 DEF Tracked, On
        <4> QED
          BY <4>1, <4>2
      <3> QED
        BY <3>1, OpenKept
    <2>15. ChargedOnce'
      <3>1. \A r \in Refs : debits'[r] <= 1 \/ r \in forfeited'
        <4>1. debits'[t] <= 1 \/ t \in forfeited'
          BY <2>6, <2>7, <2>9
        <4> QED
          BY <2>6, <2>7, <4>1 DEF PublishInv, ChargedOnce
      <3>2. t > row.tries => t \in forfeited
        BY <1>1, <2>1 DEF PublishInv, ChargedOnce, t
      <3>3. \A r \in Refs : r > row'.tries => ~OpenNext(r)
        BY <2>7, <2>10, <3>2 DEF PublishInv, ChargedOnce, OpenNext
      <3>4. row'.status \in Waiting /\ ~row'.charged /\ OpenNext(row'.tries) =>
              \E q \in Procs : handler'[q].at = "mark" /\ handler'[q].try = row'.tries
        <4>1. CASE row.tries = t
          BY <2>2, <2>5, <2>7, <4>1
        <4>2. CASE row.tries # t
          BY <1>1, <2>5, <2>7, <2>10, <4>2 DEF PublishInv, ChargedOnce, On
        <4> QED
          BY <4>1, <4>2
      <3>5. \A q \in Procs : handler'[q].at = "charge" =>
              q # p /\ On(q, "charge") /\ handler'[q] = handler[q]
        BY <2>2, <2>5 DEF On
      <3>6. \A q \in Procs : handler'[q].at = "charge" /\ handler'[q].try = t => t \in forfeited
        BY <1>1, <3>5 DEF PublishInv, ChargedOnce, t
      <3>7. \A q \in Procs : handler'[q].at = "charge" =>
              /\ ~OpenNext(handler'[q].try)
              /\ handler'[q].try > row'.tries => handler'[q].try \in forfeited'
        <4>1. ASSUME NEW q \in Procs, handler'[q].at = "charge"
              PROVE  ~OpenNext(handler'[q].try)
          <5>1. ~Open(handler'[q].try)
            BY <3>5, <4>1 DEF PublishInv, ChargedOnce
          <5> QED
            BY <2>7, <2>10, <3>6, <4>1, <5>1 DEF OpenNext
        <4>2. \A q \in Procs : handler'[q].at = "charge" /\ handler'[q].try > row'.tries =>
                handler'[q].try \in forfeited'
          BY <2>7, <3>5 DEF PublishInv, ChargedOnce
        <4> QED
          BY <4>1, <4>2
      <3>8. \A q1, q2 \in Procs :
              /\ q1 # q2 /\ handler'[q1].at = "charge" /\ handler'[q2].at = "charge"
              /\ handler'[q1].try = handler'[q2].try
              => handler'[q1].try \in forfeited'
        BY <2>7, <3>5 DEF PublishInv, ChargedOnce
      <3> QED
        BY <3>1, <3>3, <3>4, <3>7, <3>8, OnceNext
    <2> QED
      BY <2>11, <2>12, <2>13, <2>14, <2>15 DEF PublishInv
  <1> QED
    BY <1>2, <1>3 DEF Charge, ChargeRef

-------------------------------------------------------------------------------
LEMMA PublishInit == Init => PublishInv
  <1> SUFFICES ASSUME Init PROVE PublishInv
    OBVIOUS
  <1>1. TypeOK
    <2>1. row \in Rows
      BY DEF Init, NewRow, Rows, Statuses, Waiting
    <2>2. Idle \in Copies
      BY DEF Idle, Copies, Ops, Stages
    <2> QED
      BY <2>1, <2>2, PublishAssumption DEF Init, TypeOK, Outcomes, Wakes
  <1>2. \A p \in Procs : handler[p].at = "idle" /\ handler[p].try = 0 /\ handler[p].paid = FALSE
    BY DEF Init, Idle
  <1>3. AttemptsAsked
    <2>1. Resetting = {}
      BY <1>2 DEF Resetting, On
    <2> QED
      BY <1>2, <2>1, FS_EmptySet DEF AttemptsAsked, Init, NewRow
  <1>4. \A r : ~Charged(r)
    BY DEF Charged, Init
  <1>5. ChargesMade /\ ChargesOpen
    BY <1>2, <1>4 DEF ChargesMade, ChargesOpen, Open, On, Init, NewRow
  <1>6. ChargedOnce
    BY <1>2, <1>4 DEF ChargedOnce, Open, On, Init, NewRow
  <1> QED
    BY <1>1, <1>3, <1>5, <1>6 DEF PublishInv

LEMMA PublishNext == PublishInv /\ [Next]_vars => PublishInv'
  <1> SUFFICES ASSUME PublishInv, [Next]_vars PROVE PublishInv'
    OBVIOUS
  <1>1. ASSUME NEW p \in Procs, Request(p) PROVE PublishInv'
    BY <1>1, CompleteKeeps, CancelKeeps, SupersedeKeeps, RetryKeeps DEF Request
  <1>2. ASSUME NEW p \in Procs, Step(p) PROVE PublishInv'
    BY <1>2, ChargeKeeps, UnpaidKeeps, MarkChargedKeeps, RereadKeeps, CreatePostKeeps,
       MarkPostedKeeps, RefundKeeps, SettleKeeps, ZeroKeeps, ResetKeeps, FetchKeeps,
       MarkSuccessKeeps DEF Step
  <1>3. ASSUME NEW p \in Procs, Sync(p) \/ Sweep(p) \/ Die(p) PROVE PublishInv'
    BY <1>3, SyncKeeps, SweepKeeps, DieKeeps
  <1>4. CASE Expire \/ Age \/ Publish \/ Webhook
    BY <1>4, ExpireKeeps, AgeKeeps, ServiceKeeps
  <1>5. CASE WalletMoves \/ UNCHANGED vars
    <2>1. UNCHANGED <<row, outside, handler, debits, refunds, forfeited, requests>>
      BY <1>5 DEF WalletMoves, vars, outside, bounds
    <2> QED
      BY <2>1, SameRow, RestKeeps DEF PublishInv
  <1> QED
    BY <1>1, <1>2, <1>3, <1>4, <1>5 DEF Next

LEMMA ChargesOpenTracked == PublishInv => ChargesTracked
  <1> SUFFICES ASSUME PublishInv, NEW r \in Refs
               PROVE  /\ r \in refunds => debits[r] > 0
                      /\ debits[r] > 0 /\ r \notin refunds \cup forfeited => Tracked(r)
                      /\ debits[r] <= 1 \/ r \in forfeited
    BY DEF ChargesTracked, Tracked
  <1> QED
    BY DEF PublishInv, ChargesMade, ChargesOpen, ChargedOnce, Open, Charged

(* Whatever requests, workers and sweeps do to the row at once, a charge that *)
(* was made is refunded, or the row names it, or a process is about to write  *)
(* it down, and no reference is charged twice, but for the writes by id alone  *)
(* (update_job, mark_job_posted, mark_job_refunded) that forfeited names.      *)
THEOREM ChargesTrackedAlways == Spec => []ChargesTracked
  <1>1. Init => PublishInv
    BY PublishInit
  <1>2. PublishInv /\ [Next]_vars => PublishInv'
    BY PublishNext
  <1>3. PublishInv => ChargesTracked
    BY ChargesOpenTracked
  <1> QED
    BY <1>1, <1>2, <1>3, PTL DEF Spec
=============================================================================
