----------------------------- MODULE TopupPayments -----------------------------
(***************************************************************************)
(* How a credit pack is bought: a topup_purchases row, the payment at the  *)
(* gateway behind it, and what puts the two together.  The gateway's       *)
(* webhooks (repeated, late, in any order) and the browser's status polls  *)
(* run at once on API workers that may die between two calls; all of them  *)
(* end in the mint of CreditLifecycle, on the same wallet, and in the      *)
(* reward of the invitation that brought the buyer.                        *)
(***************************************************************************)
EXTENDS CreditLifecycle

CONSTANTS
  Provider,     \* the gateway of each top-up: "chmaba" or "cutluy"
  RawUnits,     \* units the database trigger adds: the pack's credits, unscaled
  RewardUnits   \* the invitee's share of the invitation

ASSUME TopupAssumption ==
  /\ Provider \in [Topups -> {"chmaba", "cutluy"}]
  /\ RawUnits \in Nat \ {0} /\ RewardUnits \in Nat \ {0}

(* The references of packs ("v3_pack:..."), of the trigger's rows and of the *)
(* invitation ("invite:...") are different texts, and none of them is NULL.  *)
ASSUME PaymentRefAssumption ==
  (Topups \cup {NoRef}) \cap (({"topup"} \X Topups) \cup {<<"invite", 0>>}) = {}

VARIABLES
  purchase,   \* topup_purchases: payment_status, and whether the payment id is stored
  gateway,    \* the payment at the gateway
  handler,    \* what each process does for which top-up
  referral,   \* referrals.status of the buyer, and the process that holds its lock
  missed,     \* history: top-ups of which one mint was lost to a fault or a full wallet
  dropped     \* history: top-ups of which CutLuy took 200 for an event given up before the UPDATE

payVars   == <<purchase, gateway, handler, referral, missed, dropped>>
topupVars == <<vars, payVars>>

Idling == [at |-> "idle", topup |-> NoRef, byId |-> FALSE, hook |-> FALSE,
           target |-> "failed", units |-> 0]

On(p, stage)   == handler[p].at = stage
Turn(p, stage) == handler' = [handler EXCEPT ![p].at = stage]
Done(p)        == handler' = [handler EXCEPT ![p] = Idling]

(* A process takes a request up: byId, if it goes by the payment id, and hook, *)
(* if it serves a webhook of CutLuy (a poll goes by the id, and asks first).   *)
Take(p, stage, t, byId, target) ==
  handler' = [handler EXCEPT ![p] =
                [at |-> stage, topup |-> t, byId |-> byId, hook |-> byId /\ stage # "ask",
                 target |-> target, units |-> 0]]

Pending(t) == purchase[t].status = "pending"

SetStatus(t, status) == purchase' = [purchase EXCEPT ![t].status = status]

-------------------------------------------------------------------------------
(* purchase_topup.  Rows of more than two minutes without a payment id are *)
(* failed first; the gateway client gives up long before, so a row whose   *)
(* buyer is still being served is not among them.                          *)
Served(t) == \E p \in Procs : handler[p].topup = t /\ handler[p].at \in {"create", "bind"}

Purchase(p, t) ==
  LET abandoned == {s \in Topups : Pending(s) /\ ~purchase[s].bound /\ ~Served(s)}
  IN  /\ On(p, "idle") /\ purchase[t].status = "none"
      /\ \E stale \in SUBSET abandoned :
           purchase' = [s \in Topups |->
             IF s = t THEN [status |-> "pending", bound |-> FALSE]
             ELSE IF s \in stale THEN [status |-> "failed", bound |-> FALSE]
             ELSE purchase[s]]
      /\ Take(p, "create", t, FALSE, "failed")
      /\ UNCHANGED <<gateway, referral, missed, dropped, vars>>

(* The gateway mints the payment, or it refuses or times out (perhaps after  *)
(* it minted one nobody will see): the row is failed in the except branch.   *)
Create(p) ==
  LET t == handler[p].topup
  IN  /\ On(p, "create")
      /\ \/ /\ gateway' = [gateway EXCEPT ![t] = "open"]
            /\ Turn(p, "bind")
            /\ UNCHANGED purchase
         \/ /\ SetStatus(t, "failed")
            /\ Done(p)
            /\ UNCHANGED gateway
      /\ UNCHANGED <<referral, missed, dropped, vars>>

(* The payment id is stored on the row, whatever its status, and the buyer *)
(* is shown the checkout.                                                  *)
Bind(p) ==
  /\ On(p, "bind")
  /\ purchase' = [purchase EXCEPT ![handler[p].topup].bound = TRUE]
  /\ Done(p)
  /\ UNCHANGED <<gateway, referral, missed, dropped, vars>>

-------------------------------------------------------------------------------
(* The gateway.  ChmabaPay goes on confirming a payment after its code expired, *)
(* replaces codes, and may reverse a payment.                                   *)
Move(t, from, to) ==
  /\ purchase[t].bound /\ gateway[t] \in from
  /\ gateway' = [gateway EXCEPT ![t] = to]
  /\ UNCHANGED <<purchase, handler, referral, missed, dropped, vars>>

Chmaba(t) == Provider[t] = "chmaba"

Pay(t)       == Move(t, IF Chmaba(t) THEN {"open", "expired"} ELSE {"open"}, "paid")
Expire(t)    == Move(t, {"open"}, "expired")
Fail(t)      == Move(t, {"open"}, "failed")
Supersede(t) == Chmaba(t) /\ Move(t, {"open", "expired"}, "superseded")
Reverse(t)   == Chmaba(t) /\ Move(t, {"paid"}, "reversed")

(* The events the gateway has sent of a payment and may send again. *)
Events(t) ==
  CASE gateway[t] = "paid"       -> {"completed"}
    [] gateway[t] = "reversed"   -> {"completed", "reversed"}
    [] gateway[t] = "failed"     -> {"failed"}
    [] gateway[t] = "superseded" -> {"superseded"}
    [] OTHER                     -> {}

(* Mutant: an answer that is not a failure is taken for a payment. *)
RemoteHopeful(t) ==
  IF gateway[t] \in {"failed", "expired"} THEN "failed" ELSE "paid"

(* What a poll makes of the gateway's answer; it knows no reversed or replaced *)
(* payment, and a failed check or a wrong amount is pending too.               *)
Remote(t) ==
  CASE gateway[t] = "paid"                -> "paid"
    [] gateway[t] \in {"failed", "expired"} -> "failed"
    [] OTHER                              -> "pending"

-------------------------------------------------------------------------------
(* settle_chmaba_topup reads the row by the reference it gave the gateway.  A *)
(* completed event of a row that is no longer pending does nothing, and an    *)
(* expired one is ignored ("a late payment still promotes the row to paid").  *)
SettleChmaba(p, t, event) ==
  /\ Chmaba(t) /\ event = "completed" => Pending(t)
  /\ Take(p, IF event = "completed" THEN "complete" ELSE "terminal", t, FALSE,
          IF event = "reversed" THEN "refunded" ELSE "failed")

(* _handle_topup_completed looks the row up by payment id, does not read its *)
(* status, and returns where the event names another user or amount;         *)
(* _handle_topup_failed asks for a pending row.  CutLuy is answered 200 in   *)
(* any case.                                                                 *)
SettleCutluy(p, t, event) ==
  \/ /\ event = "failed" => Pending(t)
     /\ Take(p, IF event = "completed" THEN "complete" ELSE "terminal", t, TRUE, "failed")
     /\ UNCHANGED dropped
  \/ /\ event = "completed"
     /\ dropped' = dropped \cup {t}
     /\ UNCHANGED handler

Deliver(p, t, event) ==
  /\ On(p, "idle") /\ event \in Events(t)
  /\ IF Chmaba(t) THEN SettleChmaba(p, t, event) /\ UNCHANGED dropped
     ELSE SettleCutluy(p, t, event)
  /\ UNCHANGED <<purchase, gateway, referral, missed, vars>>

(* get_checkout_status: the row is read, the gateway is asked, ... *)
Poll(p, t) ==
  /\ On(p, "idle") /\ purchase[t].bound /\ Pending(t)
  /\ Take(p, "ask", t, TRUE, "failed")
  /\ UNCHANGED <<purchase, gateway, referral, missed, dropped, vars>>

(* ... and its answer, by now perhaps overtaken by a webhook, is acted upon. *)
Answer(p) ==
  LET t == handler[p].topup
  IN  /\ On(p, "ask")
      /\ \/ Remote(t) = "paid" /\ Turn(p, "complete")
         \/ Remote(t) = "failed" /\ Turn(p, "terminal")
         \/ Done(p)
      /\ UNCHANGED <<purchase, gateway, referral, missed, dropped, vars>>

-------------------------------------------------------------------------------
(* Mutant: the UPDATE of a status has no WHERE payment_status = 'pending'. *)
MatchesAnyStatus(p) ==
  LET t == handler[p].topup
  IN  handler[p].byId => purchase[t].bound

(* Mutant: the UPDATE always asks for the payment id, which a settled event *)
(* of ChmabaPay does not pass.                                              *)
MatchesById(p) ==
  LET t == handler[p].topup
  IN  Pending(t) /\ handler[p].byId

(* WHERE payment_status = 'pending', and the payment id where it is given. *)
Matches(p) ==
  LET t == handler[p].topup
  IN  Pending(t) /\ (handler[p].byId => purchase[t].bound)

(* _mark_topup_terminal *)
Terminal(p) ==
  /\ On(p, "terminal")
  /\ IF Matches(p) THEN SetStatus(handler[p].topup, handler[p].target)
     ELSE UNCHANGED purchase
  /\ Done(p)
  /\ UNCHANGED <<gateway, referral, missed, dropped, vars>>

(* grant_topup_credits fires when the status changes to completed. *)
TriggerFires(t) == purchase[t].status # "completed"

RowRef(t) == <<"topup", t>>

(* Mutant: the pack is left to the trigger. *)
NoMint(p, t) == Done(p) /\ UNCHANGED job

(* The process goes on with after_topup_fulfill of the top-up, ... *)
StartMint(p, t) ==
  /\ Turn(p, "mint")
  /\ job' = [job EXCEPT ![p] = NewJob("mint", 0, "mint", t)]

(* _fulfill_topup_payment: the UPDATE to completed with the trigger it fires, *)
(* which adds the pack's credits unscaled to a wallet that counts in units.   *)
(* A wallet that cannot hold them fails the UPDATE, and the handler with it.  *)
(* The mint follows whether or not the UPDATE matched the row.                *)
GivesUp(p) == dropped' = IF handler[p].hook THEN dropped \cup {handler[p].topup} ELSE dropped

Complete(p) ==
  LET t == handler[p].topup
  IN  /\ On(p, "complete")
      /\ \/ /\ Matches(p) /\ TriggerFires(t) /\ balance + RawUnits <= MaxBalance
            /\ SetStatus(t, "completed")
            /\ balance' = balance + RawUnits
            /\ Record(Row("credit", "topup_purchase", RowRef(t), RawUnits))
            /\ StartMint(p, t)
            /\ UNCHANGED dropped
         \/ /\ Matches(p) /\ TriggerFires(t) /\ balance + RawUnits > MaxBalance
            /\ Done(p)
            /\ GivesUp(p)
            /\ UNCHANGED <<purchase, balance, txns, job>>
         \/ /\ Matches(p) => ~TriggerFires(t)
            /\ StartMint(p, t)
            /\ UNCHANGED <<purchase, balance, txns, dropped>>
      /\ UNCHANGED <<gateway, referral, missed, lots, claims, now, ops, crashes>>

Credited(t) == HasTransactionRef(t)

(* ... and the steps of CreditLifecycle it takes.  sync_topup_pack swallows  *)
(* the exception of a wallet that is too full for the pack, and only logs.   *)
(* Any other outcome, the pack already there included, goes on to the reward.*)
MintStep(p) ==
  LET t       == handler[p].topup
      refused == At(p, "mintGrant") /\ job'[p] = Idle
  IN  /\ On(p, "mint") /\ Mint(p)
      /\ IF refused THEN Done(p)
         ELSE IF job'[p] = Idle THEN Turn(p, "reward")
         ELSE UNCHANGED handler
      /\ missed' = IF refused THEN missed \cup {t} ELSE missed
      /\ UNCHANGED <<purchase, gateway, referral, dropped>>

-------------------------------------------------------------------------------
(* Mutant: the row is read without FOR UPDATE and without asking its status. *)
OpenToAll == referral.status # "none"

Open == referral = [status |-> "pending", lock |-> FALSE]

(* apply_referral_reward, one transaction: the pending row is locked, a      *)
(* disabled program closes it, and the room in the wallet is read, ...       *)
Reward(p) ==
  LET room == MaxBalance - balance
  IN  /\ On(p, "reward")
      /\ \/ /\ referral.status # "pending"
            /\ Done(p)
            /\ UNCHANGED referral
         \/ /\ Open
            /\ referral' = [status |-> "skipped", lock |-> FALSE]
            /\ Done(p)
         \/ /\ Open
            /\ referral' = [referral EXCEPT !.lock = TRUE]
            /\ handler' = [handler EXCEPT ![p] =
                 [@ EXCEPT !.at = "pay",
                           !.units = IF RewardUnits <= room THEN RewardUnits ELSE room]]
      /\ UNCHANGED <<purchase, gateway, missed, dropped, vars>>

InviteRef == <<"invite", 0>>

(* ... and the wallet, which is another row and not locked before, is credited *)
(* with a lot of its own, once for the invitation.  A wallet that has filled   *)
(* up since rolls everything back.                                             *)
PayReward(p) ==
  LET units == handler[p].units
  IN  /\ On(p, "pay")
      /\ \/ /\ units = 0 \/ ~Claimable("invite_reward", InviteRef)
            /\ referral' = [status |-> "rewarded", lock |-> FALSE]
            /\ UNCHANGED repoVars
         \/ /\ units > 0 /\ balance + units > MaxBalance
            /\ referral' = [referral EXCEPT !.lock = FALSE]
            /\ UNCHANGED repoVars
         \/ /\ units > 0 /\ balance + units <= MaxBalance
            /\ Claimable("invite_reward", InviteRef)
            /\ balance' = balance + units
            /\ claims' = claims \cup {<<"invite_reward", InviteRef>>}
            /\ Record(Row("credit", "invite_reward", InviteRef, units))
            /\ lots' = Append(lots, NewLot("referral", units, now + PackDays, Never))
            /\ referral' = [status |-> "rewarded", lock |-> FALSE]
            /\ UNCHANGED now
      /\ Done(p)
      /\ UNCHANGED <<purchase, gateway, missed, dropped, job, ops, crashes>>

(* A request ends between two calls, and its transaction is rolled back: *)
Ends(p) ==
  LET t == handler[p].topup
  IN  /\ ~On(p, "idle") /\ crashes < MaxCrashes
      /\ crashes' = crashes + 1
      /\ Done(p)
      /\ Finish(p)
      /\ referral' = IF On(p, "pay") THEN [referral EXCEPT !.lock = FALSE] ELSE referral
      /\ missed' = IF On(p, "mint") /\ ~Credited(t) THEN missed \cup {t} ELSE missed
      /\ UNCHANGED <<purchase, gateway, repoVars, ops>>

(* its worker dies and the gateway has no answer, ... *)
Die(p) == Ends(p) /\ UNCHANGED dropped

(* ... or a call on the database raises.  sync_topup_pack and the reward       *)
(* swallow that; ChmabaPay and the browser get an error; _handle_topup_event   *)
(* swallows it and CutLuy is answered 200, also where the event was not used.  *)
Throw(p) ==
  /\ Ends(p)
  /\ IF On(p, "complete") THEN GivesUp(p) ELSE UNCHANGED dropped

-------------------------------------------------------------------------------
TopupInit ==
  /\ Init
  /\ purchase = [t \in Topups |-> [status |-> "none", bound |-> FALSE]]
  /\ gateway = [t \in Topups |-> "none"]
  /\ handler = [p \in Procs |-> Idling]
  /\ referral \in [status : {"none", "pending"}, lock : {FALSE}]
  /\ missed = {} /\ dropped = {}

Handle(p) ==
  Create(p) \/ Bind(p) \/ Answer(p) \/ Terminal(p) \/ Complete(p) \/ MintStep(p)
    \/ Reward(p) \/ PayReward(p)

Gateway(t) == Pay(t) \/ Expire(t) \/ Fail(t) \/ Supersede(t) \/ Reverse(t)

TopupNext ==
  \/ \E p \in Procs :
       \/ \E t \in Topups :
            \/ Purchase(p, t)
            \/ Poll(p, t)
            \/ \E event \in Events(t) : Deliver(p, t, event)
       \/ Handle(p)
       \/ Die(p)
       \/ Throw(p)
  \/ \E t \in Topups : Gateway(t)

(* A worker that lives goes on with its request, and a gateway goes on sending *)
(* its last event while it gets no answer or an error for it; CutLuy stops at  *)
(* 200, also where that drops the event.  Nobody has to pay, poll or be charged.*)
LastEvent(t) == IF gateway[t] = "reversed" THEN "reversed" ELSE "completed"

Redeliver(t) == t \notin dropped /\ \E p \in Procs : Deliver(p, t, LastEvent(t))

Fairness ==
  /\ \A p \in Procs : WF_topupVars(Handle(p))
  /\ \A t \in Topups : SF_topupVars(Redeliver(t))

TopupSpec     == TopupInit /\ [][TopupNext]_topupVars
FairTopupSpec == TopupSpec /\ Fairness
-------------------------------------------------------------------------------
(* What each process does fits the top-up it does it for: only one that is in *)
(* a mint has a job on the wallet, only one that pays holds the invitation,   *)
(* and a handler that goes by payment id has a row that carries it.           *)
TopupTypeOK ==
  /\ purchase \in [Topups -> [status : {"none", "pending", "completed", "failed", "refunded"},
                             bound : BOOLEAN]]
  /\ gateway \in [Topups -> {"none", "open", "expired", "paid", "failed", "superseded", "reversed"}]
  /\ missed \subseteq Topups /\ dropped \subseteq {t \in Topups : ~Chmaba(t)}
  /\ balance \in 0..MaxBalance
  /\ \A p \in Procs :
       /\ ~On(p, "idle") <=> handler[p].topup \in Topups
       /\ On(p, "mint") <=> ~At(p, "idle")
       /\ On(p, "pay") => referral = [status |-> "pending", lock |-> TRUE]
       /\ handler[p].byId => purchase[handler[p].topup].bound

(* Credits come only from a payment the gateway confirmed, whatever the order *)
(* of events, polls and crashes; and at CutLuy, where nothing is confirmed    *)
(* after it lapsed, only with the row completed, though the mint runs also    *)
(* where the UPDATE matched no row.                                           *)
CreditIsPaidFor ==
  \A t \in Topups :
    Credited(t) \/ HasTransactionRef(RowRef(t)) =>
      /\ gateway[t] \in {"paid", "reversed"}
      /\ Chmaba(t) \/ purchase[t].status = "completed"

(* The trigger's credit and the completed row come and stay together: each    *)
(* completed top-up has exactly one, however many handlers try to complete it.*)
TriggerCreditsOnce ==
  \A t \in Topups :
    LET credits == {r \in Rows : r.ref = RowRef(t)}
    IN  /\ purchase[t].status = "completed" <=> credits # {}
        /\ UnitsOf(credits) \in {0, RawUnits}

(* A settled row is never unsettled, though webhooks and polls act on what    *)
(* they read before: no stale failure takes a completed row back, a refunded  *)
(* row is final, and a failed one is at most promoted.  What the documents    *)
(* promise beyond that, a refund after completion and a promotion after       *)
(* failure, is for ReversedIsRefunded and LatePaymentPromotes.                *)
SettledRowKept ==
  [][\A t \in Topups :
       LET before == purchase[t].status
           after  == purchase'[t].status
       IN  /\ before = "completed" => after \in {"completed", "refunded"}
           /\ before = "refunded" => after = "refunded"
           /\ before = "failed" => after \in {"failed", "completed"}]_topupVars

(* A completed top-up is minted unless its mint was lost: every path that     *)
(* completes the row hands it to after_topup_fulfill, and only a crash, an    *)
(* error or a full wallet keeps the pack from the buyer.                      *)
CompletedIsMinted ==
  \A t \in Topups :
    purchase[t].status = "completed" =>
      \/ Credited(t) \/ t \in missed
      \/ \E p \in Procs : On(p, "mint") /\ handler[p].topup = t

(* The invitee is rewarded at most once, only after a pack was credited, and  *)
(* together with the closing of the invitation, though both packs of a buyer, *)
(* and every repeated webhook of each, try to pay it.                         *)
RewardClosesInvite ==
  LET credits == {r \in Rows : r.ref = InviteRef}
  IN  credits # {} =>
        /\ referral = [status |-> "rewarded", lock |-> FALSE]
        /\ \E t \in Topups : Credited(t)
        /\ UnitsOf(credits) <= RewardUnits

(* A payment the gateway confirms does not leave the row pending for ever,    *)
(* unless the wallet cannot take the trigger's credit or CutLuy's event was   *)
(* answered 200 and dropped; a worker that dies with the event, or a poll     *)
(* that overtakes it, is no excuse.                                           *)
PaidIsSettled ==
  \A t \in Topups :
    gateway[t] = "paid" ~>
      ~Pending(t) \/ balance + RawUnits > MaxBalance \/ t \in dropped

(* What settle_chmaba_topup and the change log state of a payment that comes *)
(* in after the code expired: it still promotes the row.                      *)
LatePaymentPromotes ==
  \A t \in Topups :
    gateway[t] = "paid" ~>
      purchase[t].status = "completed" \/ gateway[t] = "reversed"

(* What the change log and the test of settle_chmaba_topup state of a payment *)
(* that is reversed after it was credited: its row is marked refunded.        *)
ReversedIsRefunded ==
  \A t \in Topups :
    purchase[t].status = "completed" /\ gateway[t] = "reversed" ~>
      purchase[t].status = "refunded"
===============================================================================
