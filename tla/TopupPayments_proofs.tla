-------------------------- MODULE TopupPayments_proofs --------------------------
(***************************************************************************)
(* A credit pack is paid for, completed, credited and minted once, and the *)
(* invitation is rewarded once, for any number of processes, top-ups and   *)
(* crashes, any order of webhooks, polls and moves of the gateways, and    *)
(* any prices.  PaymentInv is about the rows and what the handlers do for  *)
(* them; WalletInv adds the mints, the ledger and the invitation.  Last,   *)
(* the payments implement the abstract account of CreditAccount.           *)
(***************************************************************************)
EXTENDS TopupPayments, CreditLifecycle_proofs

(* What the rows of topup_purchases, the gateway and the handlers can hold. *)
PurchaseRow ==
  [status : {"none", "pending", "completed", "failed", "refunded"}, bound : BOOLEAN]

GatewayState == {"none", "open", "expired", "paid", "failed", "superseded", "reversed"}

Tasks == {"idle", "create", "bind", "ask", "complete", "terminal", "mint", "reward", "pay"}

Role == [at : Tasks, topup : Topups \cup {NoRef}, byId : BOOLEAN, hook : BOOLEAN,
         target : {"failed", "refunded"}, units : Nat]

PayTypes ==
  /\ purchase \in [Topups -> PurchaseRow]
  /\ gateway \in [Topups -> GatewayState]
  /\ handler \in [Procs -> Role]

(* A handler that is not idle works for a top-up whose row is there, and one *)
(* that settles a payment or goes by its id found the id on the row.         *)
Handling ==
  \A p \in Procs :
    /\ On(p, "idle") <=> handler[p].topup = NoRef
    /\ ~On(p, "idle") => purchase[handler[p].topup].status # "none"
    /\ handler[p].byId \/ handler[p].at \in {"ask", "complete", "terminal", "mint"} =>
         ~On(p, "idle") /\ purchase[handler[p].topup].bound

(* A buyer who is still being served has a pending row without payment id, *)
(* and is served by one process.                                           *)
Serves(p, t) == handler[p].topup = t /\ handler[p].at \in {"create", "bind"}

Serving ==
  \A p \in Procs, t \in Topups :
    Serves(p, t) => /\ Pending(t) /\ ~purchase[t].bound
                    /\ \A q \in Procs : Serves(q, t) => q = p

(* The gateway knows a payment of a row only, and moves it on once its id is *)
(* stored; CutLuy reverses and replaces nothing.                             *)
GatewayRows ==
  \A t \in Topups :
    /\ gateway[t] # "none" \/ purchase[t].bound => purchase[t].status # "none"
    /\ gateway[t] \notin {"none", "open"} => purchase[t].bound
    /\ gateway[t] \in {"reversed", "superseded"} => Chmaba(t)

(* Who completes a row has a payment the gateway confirmed, and who mints at *)
(* CutLuy a completed row.                                                   *)
PaidStages ==
  \A p \in Procs :
    /\ handler[p].at \in {"complete", "mint"} => gateway[handler[p].topup] \in {"paid", "reversed"}
    /\ On(p, "mint") => \/ Chmaba(handler[p].topup)
                        \/ purchase[handler[p].topup].status = "completed"

(* Who fails a row of CutLuy has a payment that failed, and a failed row has *)
(* one too or can no longer be paid.                                         *)
FailedStages ==
  \A p \in Procs :
    On(p, "terminal") => \/ Chmaba(handler[p].topup)
                         \/ gateway[handler[p].topup] \in {"failed", "expired"}

FailedRows ==
  \A t \in Topups :
    purchase[t].status \in {"failed", "refunded"} =>
      \/ Chmaba(t)
      \/ gateway[t] \in {"failed", "expired"}
      \/ ~purchase[t].bound /\ \A p \in Procs : ~Serves(p, t)

PaymentInv ==
  PayTypes /\ Handling /\ Serving /\ GatewayRows /\ PaidStages /\ FailedStages /\ FailedRows

-------------------------------------------------------------------------------
(* What the helpers do to the handlers and to the rows. *)
LEMMA RefsDiffer ==
  /\ NoRef \notin Topups
  /\ \A t, s \in Topups : RowRef(t) # s /\ InviteRef # s /\ RowRef(t) # InviteRef
  /\ \A t, s \in Topups : RowRef(t) = RowRef(s) => t = s
<1>1. \A t \in Topups : RowRef(t) \in {"topup"} \X Topups
  BY DEF RowRef
<1>2. \A s \in Topups : InviteRef # s
  BY PaymentRefAssumption DEF InviteRef
<1>3. \A t \in Topups : RowRef(t) \notin Topups
  BY <1>1, PaymentRefAssumption
<1> QED
  BY <1>2, <1>3, RefAssumption DEF RowRef, InviteRef

LEMMA IdlingRole ==
  /\ Idling \in Role /\ Idling.at = "idle" /\ Idling.topup = NoRef /\ Idling.byId = FALSE
BY DEF Idling, Role, Tasks

OthersStay(p) == \A q \in Procs \ {p} : handler'[q] = handler[q]

LEMMA TurnFacts ==
  ASSUME PayTypes, NEW p \in Procs, NEW stage \in Tasks, Turn(p, stage)
  PROVE  /\ handler' \in [Procs -> Role] /\ OthersStay(p)
         /\ handler'[p].at = stage
         /\ handler'[p].topup = handler[p].topup /\ handler'[p].byId = handler[p].byId
         /\ handler'[p].target = handler[p].target /\ handler'[p].units = handler[p].units
         /\ handler'[p].hook = handler[p].hook
<1>1. handler[p] \in Role
  BY DEF PayTypes
<1>2. [handler[p] EXCEPT !.at = stage] \in Role
  BY <1>1 DEF Role
<1>3. handler' = [handler EXCEPT ![p] = [handler[p] EXCEPT !.at = stage]]
  BY DEF Turn
<1>4. handler'[p] = [handler[p] EXCEPT !.at = stage] /\ OthersStay(p)
  BY <1>3 DEF PayTypes, OthersStay
<1>5. handler' \in [Procs -> Role]
  BY <1>2, <1>3 DEF PayTypes
<1> QED
  BY <1>1, <1>4, <1>5 DEF Role

LEMMA DoneFacts ==
  ASSUME PayTypes, NEW p \in Procs, Done(p)
  PROVE  handler' \in [Procs -> Role] /\ OthersStay(p) /\ handler'[p] = Idling
BY IdlingRole DEF PayTypes, Done, OthersStay

LEMMA TakeFacts ==
  ASSUME PayTypes, NEW p \in Procs, NEW stage \in Tasks, NEW t \in Topups,
         NEW byId \in BOOLEAN, NEW target \in {"failed", "refunded"},
         Take(p, stage, t, byId, target)
  PROVE  /\ handler' \in [Procs -> Role] /\ OthersStay(p)
         /\ handler'[p].at = stage /\ handler'[p].topup = t /\ handler'[p].byId = byId
         /\ handler'[p].hook <=> byId /\ stage # "ask"
<1> DEFINE hook == byId /\ stage # "ask"
           h == [at |-> stage, topup |-> t, byId |-> byId, hook |-> hook,
                 target |-> target, units |-> 0]
<1>0. hook \in BOOLEAN
  OBVIOUS
<1>1. h \in Role
  BY <1>0 DEF Role
<1>2. handler' = [handler EXCEPT ![p] = h]
  BY DEF Take
<1>3. handler'[p] = h /\ OthersStay(p) /\ handler' \in [Procs -> Role]
  BY <1>1, <1>2 DEF PayTypes, OthersStay
<1>4. h.at = stage /\ h.topup = t /\ h.byId = byId /\ h.hook = hook
  BY Zenon
<1> HIDE DEF h
<1> QED
  BY <1>3, <1>4

OtherRowsStay(t) == \A s \in Topups \ {t} : purchase'[s] = purchase[s]

LEMMA StatusFacts ==
  ASSUME PayTypes, NEW t \in Topups,
         NEW status \in {"pending", "completed", "failed", "refunded"}, SetStatus(t, status)
  PROVE  /\ purchase' \in [Topups -> PurchaseRow] /\ OtherRowsStay(t)
         /\ purchase'[t].status = status /\ purchase'[t].bound = purchase[t].bound
<1>1. purchase[t] \in PurchaseRow
  BY DEF PayTypes
<1>2. [purchase[t] EXCEPT !.status = status] \in PurchaseRow
  BY <1>1 DEF PurchaseRow
<1>3. purchase' = [purchase EXCEPT ![t] = [purchase[t] EXCEPT !.status = status]]
  BY DEF SetStatus
<1>4. purchase'[t] = [purchase[t] EXCEPT !.status = status] /\ OtherRowsStay(t)
  BY <1>3 DEF PayTypes, OtherRowsStay
<1>5. purchase' \in [Topups -> PurchaseRow]
  BY <1>2, <1>3 DEF PayTypes
<1> QED
  BY <1>1, <1>4, <1>5 DEF PurchaseRow

-------------------------------------------------------------------------------
(* A handler that ends, or leaves the mint, fits whatever the rows say. *)
Leaves ==
  /\ purchase' = purchase /\ gateway' = gateway
  /\ handler' \in [Procs -> Role]
  /\ \A q \in Procs :
       \/ handler'[q] = handler[q]
       \/ handler'[q] = Idling
       \/ /\ handler'[q].at \in {"reward", "pay"} /\ ~On(q, "idle")
          /\ handler'[q].topup = handler[q].topup /\ handler'[q].byId = handler[q].byId

LEMMA LeavesPayment == ASSUME PaymentInv, Leaves PROVE PaymentInv'
<1>1. PayTypes'
  BY DEF PaymentInv, PayTypes, Leaves
<1>2. Handling'
  BY IdlingRole, RefsDiffer DEF PaymentInv, Handling, Leaves, On
<1>3. \A q \in Procs, t \in Topups : Serves(q, t)' => Serves(q, t)
  BY IdlingRole DEF Leaves, Serves
<1>4. Serving'
  BY <1>3 DEF PaymentInv, Serving, Leaves, Pending
<1>5. GatewayRows'
  BY DEF PaymentInv, GatewayRows, Leaves
<1>6. PaidStages'
  BY IdlingRole DEF PaymentInv, PaidStages, Leaves, On
<1>7. FailedStages'
  BY IdlingRole DEF PaymentInv, FailedStages, Leaves, On
<1>8. FailedRows'
  BY <1>3 DEF PaymentInv, FailedRows, Leaves
<1> QED
  BY <1>1, <1>2, <1>4, <1>5, <1>6, <1>7, <1>8 DEF PaymentInv

LEMMA RoleParts ==
  ASSUME PayTypes, NEW p \in Procs
  PROVE  /\ handler[p].at \in Tasks /\ handler[p].topup \in Topups \cup {NoRef}
         /\ handler[p].byId \in BOOLEAN /\ handler[p].target \in {"failed", "refunded"}
         /\ handler[p].units \in Nat
BY DEF PayTypes, Role

LEMMA RowParts ==
  ASSUME PayTypes, NEW t \in Topups
  PROVE  /\ purchase[t].status \in {"none", "pending", "completed", "failed", "refunded"}
         /\ purchase[t].bound \in BOOLEAN /\ gateway[t] \in GatewayState
BY DEF PayTypes, PurchaseRow

(* A handler at work has a top-up. *)
LEMMA HandledTopup ==
  ASSUME PaymentInv, NEW p \in Procs, ~On(p, "idle")
  PROVE  handler[p].topup \in Topups
BY RoleParts DEF PaymentInv, Handling

LEMMA PurchasePayment ==
  ASSUME PaymentInv, NEW p \in Procs, NEW t \in Topups, Purchase(p, t)
  PROVE  PaymentInv'
<1> DEFINE abandoned == {s \in Topups : Pending(s) /\ ~purchase[s].bound /\ ~Served(s)}
<1>1. PICK stale \in SUBSET abandoned :
        purchase' = [s \in Topups |->
             IF s = t THEN [status |-> "pending", bound |-> FALSE]
             ELSE IF s \in stale THEN [status |-> "failed", bound |-> FALSE]
             ELSE purchase[s]]
  BY DEF Purchase
<1>2. /\ PayTypes /\ On(p, "idle") /\ purchase[t].status = "none" /\ gateway' = gateway
      /\ Take(p, "create", t, FALSE, "failed")
  BY DEF Purchase, PaymentInv
<1>3. /\ handler' \in [Procs -> Role] /\ OthersStay(p)
      /\ handler'[p].at = "create" /\ handler'[p].topup = t /\ handler'[p].byId = FALSE
  BY <1>2, TakeFacts DEF Tasks
<1>4. /\ purchase' \in [Topups -> PurchaseRow]
      /\ purchase'[t].status = "pending" /\ purchase'[t].bound = FALSE
      /\ \A s \in Topups \ {t} :
           \/ purchase'[s] = purchase[s]
           \/ /\ purchase[s].status = "pending" /\ ~purchase[s].bound /\ ~Served(s)
              /\ purchase'[s].status = "failed" /\ purchase'[s].bound = FALSE
  BY <1>1, <1>2 DEF PayTypes, PurchaseRow, Pending
<1>5. \A q \in Procs : ~On(q, "idle") => handler[q].topup # t /\ handler[q].topup \in Topups
  BY <1>2, HandledTopup DEF PaymentInv, Handling
<1>6. \A q \in Procs, s \in Topups : Serves(q, s) => s # t /\ Served(s)
  BY <1>5 DEF Serves, Served, On
<1>7. \A q \in Procs, s \in Topups : Serves(q, s)' <=> (IF q = p THEN s = t ELSE Serves(q, s))
  BY <1>3 DEF Serves, OthersStay
<1>8. \A q \in Procs \ {p} : handler'[q] = handler[q]
  BY <1>3 DEF OthersStay
<1> HIDE DEF abandoned
<1>9. PayTypes'
  BY <1>2, <1>3, <1>4 DEF PayTypes
<1>10. Handling'
  <2> SUFFICES ASSUME NEW q \in Procs
               PROVE  /\ On(q, "idle")' <=> handler'[q].topup = NoRef
                      /\ ~On(q, "idle")' => purchase'[handler'[q].topup].status # "none"
                      /\ handler'[q].byId \/ handler'[q].at \in {"ask", "complete", "terminal", "mint"}
                           => ~On(q, "idle")' /\ purchase'[handler'[q].topup].bound
    BY DEF Handling
  <2>1. CASE q = p
    BY <2>1, <1>3, <1>4, RefsDiffer DEF On
  <2>2. CASE q # p
    <3>1. handler'[q] = handler[q]
      BY <2>2, <1>8
    <3>2. /\ On(q, "idle") <=> handler[q].topup = NoRef
          /\ ~On(q, "idle") => purchase[handler[q].topup].status # "none"
          /\ handler[q].byId \/ handler[q].at \in {"ask", "complete", "terminal", "mint"}
               => ~On(q, "idle") /\ purchase[handler[q].topup].bound
      BY DEF PaymentInv, Handling
    <3> QED
      BY <3>1, <3>2, <1>4, <1>5 DEF On
  <2> QED
    BY <2>1, <2>2
<1>11. Serving'
  <2> SUFFICES ASSUME NEW q \in Procs, NEW s \in Topups, Serves(q, s)'
               PROVE  /\ purchase'[s].status = "pending" /\ ~purchase'[s].bound
                      /\ \A r \in Procs : Serves(r, s)' => r = q
    BY DEF Serving, Pending
  <2> QED
    BY <1>4, <1>6, <1>7 DEF PaymentInv, Serving, Pending
<1>12. GatewayRows'
  BY <1>2, <1>4 DEF PaymentInv, GatewayRows
<1>13. PaidStages'
  BY <1>2, <1>3, <1>4, <1>5, <1>8 DEF PaymentInv, PaidStages, On
<1>14. FailedStages'
  BY <1>2, <1>3, <1>8 DEF PaymentInv, FailedStages, On
<1>15. FailedRows'
  <2> SUFFICES ASSUME NEW s \in Topups, purchase'[s].status \in {"failed", "refunded"}
               PROVE  \/ Chmaba(s) \/ gateway'[s] \in {"failed", "expired"}
                      \/ ~purchase'[s].bound /\ \A q \in Procs : ~Serves(q, s)'
    BY DEF FailedRows
  <2>1. s # t
    BY <1>4
  <2>2. CASE purchase'[s] = purchase[s]
    BY <1>2, <1>7, <2>1, <2>2 DEF PaymentInv, FailedRows
  <2>3. CASE ~Served(s) /\ purchase'[s].bound = FALSE
    BY <1>6, <1>7, <2>1, <2>3
  <2> QED
    BY <1>4, <2>1, <2>2, <2>3
<1> QED
  BY <1>9, <1>10, <1>11, <1>12, <1>13, <1>14, <1>15 DEF PaymentInv

LEMMA CreatePayment ==
  ASSUME PaymentInv, NEW p \in Procs, Create(p)
  PROVE  PaymentInv'
<1> DEFINE t == handler[p].topup
<1>1. /\ PayTypes /\ On(p, "create") /\ ~On(p, "idle")
  BY DEF PaymentInv, Create, On
<1>2. t \in Topups
  BY <1>1, HandledTopup
<1>3. Serves(p, t) /\ Pending(t) /\ ~purchase[t].bound
  BY <1>1, <1>2 DEF PaymentInv, Serving, Serves, On
<1>4. ~handler[p].byId
  BY <1>3 DEF PaymentInv, Handling
<1>5. \A q \in Procs : Serves(q, t) => q = p
  BY <1>2, <1>3 DEF PaymentInv, Serving
<1>6. CASE /\ gateway' = [gateway EXCEPT ![t] = "open"]
           /\ Turn(p, "bind") /\ purchase' = purchase
  <2>1. /\ handler' \in [Procs -> Role] /\ OthersStay(p) /\ handler'[p].at = "bind"
        /\ handler'[p].topup = t /\ handler'[p].byId = handler[p].byId
    BY <1>1, <1>6, TurnFacts DEF Tasks
  <2>2. \A q \in Procs \ {p} : handler'[q] = handler[q]
    BY <2>1 DEF OthersStay
  <2>3. /\ gateway' \in [Topups -> GatewayState]
        /\ gateway'[t] = "open" /\ \A s \in Topups \ {t} : gateway'[s] = gateway[s]
    BY <1>1, <1>2, <1>6 DEF PayTypes, GatewayState
  <2>4. gateway[t] \in {"none", "open"}
    BY <1>2, <1>3 DEF PaymentInv, GatewayRows
  <2>5. \A q \in Procs, s \in Topups : Serves(q, s)' <=> Serves(q, s)
    BY <1>1, <2>1, <2>2 DEF Serves, On
  <2> HIDE DEF t
  <2>6. PayTypes'
    BY <1>1, <1>6, <2>1, <2>3 DEF PayTypes
  <2>7. Handling'
    BY <1>1, <1>4, <1>6, <2>1, <2>2 DEF PaymentInv, Handling, On, t
  <2>8. Serving'
    BY <1>6, <2>5 DEF PaymentInv, Serving, Pending
  <2>9. GatewayRows'
    BY <1>3, <1>6, <2>3 DEF PaymentInv, GatewayRows, Pending
  <2>10. PaidStages'
    BY <1>6, <2>1, <2>2, <2>3, <2>4 DEF PaymentInv, PaidStages, On
  <2>11. FailedStages'
    BY <1>6, <2>1, <2>2, <2>3, <2>4 DEF PaymentInv, FailedStages, On
  <2>12. FailedRows'
    BY <1>3, <1>6, <2>3, <2>5 DEF PaymentInv, FailedRows, Pending
  <2> QED
    BY <2>6, <2>7, <2>8, <2>9, <2>10, <2>11, <2>12 DEF PaymentInv
<1>7. CASE SetStatus(t, "failed") /\ Done(p) /\ gateway' = gateway
  <2>1. handler' \in [Procs -> Role] /\ OthersStay(p) /\ handler'[p] = Idling
    BY <1>1, <1>7, DoneFacts
  <2>2. \A q \in Procs \ {p} : handler'[q] = handler[q]
    BY <2>1 DEF OthersStay
  <2>3. /\ purchase' \in [Topups -> PurchaseRow] /\ OtherRowsStay(t)
        /\ purchase'[t].status = "failed" /\ purchase'[t].bound = purchase[t].bound
    BY <1>1, <1>2, <1>7, StatusFacts
  <2>4. \A s \in Topups \ {t} : purchase'[s] = purchase[s]
    BY <2>3 DEF OtherRowsStay
  <2>5. \A q \in Procs, s \in Topups : Serves(q, s)' => Serves(q, s) /\ s # t
    BY <1>5, <2>1, <2>2, IdlingRole DEF Serves
  <2> HIDE DEF t
  <2>6. PayTypes'
    BY <1>1, <1>7, <2>1, <2>3 DEF PayTypes
  <2>7. Handling'
    BY <2>1, <2>2, <2>3, <2>4, IdlingRole, HandledTopup DEF PaymentInv, Handling, On
  <2>8. Serving'
    BY <2>4, <2>5 DEF PaymentInv, Serving, Pending
  <2>9. GatewayRows'
    BY <1>7, <2>3, <2>4 DEF PaymentInv, GatewayRows
  <2>10. PaidStages'
    BY <1>3, <1>7, <2>1, <2>2, <2>3, <2>4, IdlingRole, HandledTopup
       DEF PaymentInv, PaidStages, On, Pending
  <2>11. FailedStages'
    BY <1>7, <2>1, <2>2, IdlingRole DEF PaymentInv, FailedStages, On
  <2>12. FailedRows'
    BY <1>3, <1>7, <2>3, <2>4, <2>5 DEF PaymentInv, FailedRows
  <2> QED
    BY <2>6, <2>7, <2>8, <2>9, <2>10, <2>11, <2>12 DEF PaymentInv
<1> QED
  BY <1>6, <1>7 DEF Create

LEMMA BindPayment ==
  ASSUME PaymentInv, NEW p \in Procs, Bind(p)
  PROVE  PaymentInv'
<1> DEFINE t == handler[p].topup
<1>1. /\ PayTypes /\ On(p, "bind") /\ ~On(p, "idle") /\ Done(p) /\ gateway' = gateway
      /\ purchase' = [purchase EXCEPT ![t].bound = TRUE]
  BY DEF PaymentInv, Bind, On
<1>2. t \in Topups
  BY <1>1, HandledTopup
<1>3. Serves(p, t) /\ Pending(t) /\ \A q \in Procs : Serves(q, t) => q = p
  BY <1>1, <1>2 DEF PaymentInv, Serving, Serves, On
<1>4. handler' \in [Procs -> Role] /\ OthersStay(p) /\ handler'[p] = Idling
  BY <1>1, DoneFacts
<1>5. \A q \in Procs \ {p} : handler'[q] = handler[q]
  BY <1>4 DEF OthersStay
<1>6. /\ purchase' \in [Topups -> PurchaseRow]
      /\ purchase'[t].status = purchase[t].status /\ purchase'[t].bound = TRUE
      /\ \A s \in Topups \ {t} : purchase'[s] = purchase[s]
  <2>1. purchase[t] \in PurchaseRow
    BY <1>1, <1>2 DEF PayTypes
  <2>2. [purchase[t] EXCEPT !.bound = TRUE] \in PurchaseRow
    BY <2>1 DEF PurchaseRow
  <2>3. purchase' = [purchase EXCEPT ![t] = [purchase[t] EXCEPT !.bound = TRUE]]
    BY <1>1
  <2>4. /\ purchase'[t] = [purchase[t] EXCEPT !.bound = TRUE]
        /\ \A s \in Topups \ {t} : purchase'[s] = purchase[s]
    BY <1>1, <1>2, <2>3 DEF PayTypes
  <2>5. purchase' \in [Topups -> PurchaseRow]
    BY <1>1, <2>2, <2>3 DEF PayTypes
  <2> QED
    BY <2>1, <2>4, <2>5 DEF PurchaseRow
<1>7. \A q \in Procs, s \in Topups : Serves(q, s)' => Serves(q, s) /\ s # t
  BY <1>3, <1>4, <1>5, IdlingRole DEF Serves
<1>8. purchase'[t].status = "pending"
  BY <1>3, <1>6 DEF Pending
<1> HIDE DEF t
<1>9. PayTypes'
  BY <1>1, <1>4, <1>6 DEF PayTypes
<1>10. Handling'
  BY <1>4, <1>5, <1>6, <1>8, IdlingRole, HandledTopup DEF PaymentInv, Handling, On
<1>11. Serving'
  BY <1>6, <1>7 DEF PaymentInv, Serving, Pending
<1>12. GatewayRows'
  BY <1>1, <1>6, <1>8 DEF PaymentInv, GatewayRows
<1>13. PaidStages'
  BY <1>1, <1>4, <1>5, <1>6, IdlingRole, HandledTopup DEF PaymentInv, PaidStages, On
<1>14. FailedStages'
  BY <1>1, <1>4, <1>5, IdlingRole DEF PaymentInv, FailedStages, On
<1>15. FailedRows'
  BY <1>1, <1>6, <1>7, <1>8 DEF PaymentInv, FailedRows
<1> QED
  BY <1>9, <1>10, <1>11, <1>12, <1>13, <1>14, <1>15 DEF PaymentInv

(* The gateway moves a payment of a stored id, CutLuy's to no refund and from *)
(* no lapsed one to a paid one.                                               *)
LEMMA GatewayPayment ==
  ASSUME PaymentInv, NEW t \in Topups, NEW from \in SUBSET GatewayState,
         NEW to \in GatewayState, Move(t, from, to),
         to \notin {"none", "open"},
         gateway[t] \in {"paid", "reversed"} => to \in {"paid", "reversed"},
         ~Chmaba(t) => to \notin {"reversed", "superseded"} /\ gateway[t] = "open"
  PROVE  PaymentInv'
<1>1. /\ PayTypes /\ purchase' = purchase /\ handler' = handler /\ purchase[t].bound
      /\ gateway' = [gateway EXCEPT ![t] = to]
  BY DEF PaymentInv, Move
<1>2. /\ gateway' \in [Topups -> GatewayState] /\ gateway'[t] = to
      /\ \A s \in Topups \ {t} : gateway'[s] = gateway[s]
  BY <1>1 DEF PayTypes
<1>3. \A q \in Procs, s \in Topups : Serves(q, s)' <=> Serves(q, s)
  BY <1>1 DEF Serves
<1>4. PayTypes'
  BY <1>1, <1>2 DEF PayTypes
<1>5. Handling'
  BY <1>1 DEF PaymentInv, Handling, On
<1>6. Serving'
  BY <1>1, <1>3 DEF PaymentInv, Serving, Pending
<1>7. GatewayRows'
  BY <1>1, <1>2 DEF PaymentInv, GatewayRows
<1>8. \A q \in Procs : ~On(q, "idle") => handler[q].topup \in Topups
  BY HandledTopup
<1>9. PaidStages'
  BY <1>1, <1>2, <1>8 DEF PaymentInv, PaidStages, On
<1>10. FailedStages'
  BY <1>1, <1>2, <1>8 DEF PaymentInv, FailedStages, On
<1>11. FailedRows'
  BY <1>1, <1>2, <1>3 DEF PaymentInv, FailedRows
<1> QED
  BY <1>4, <1>5, <1>6, <1>7, <1>9, <1>10, <1>11 DEF PaymentInv

LEMMA GatewaySteps ==
  ASSUME PaymentInv, NEW t \in Topups, Gateway(t)
  PROVE  PaymentInv'
<1>1. \A s \in {"open", "expired", "paid", "failed", "superseded", "reversed"} : s \in GatewayState
  BY DEF GatewayState
<1>2. CASE Pay(t)
  <2>1. PICK from \in SUBSET {"open", "expired"} : (~Chmaba(t) => from = {"open"}) /\ Move(t, from, "paid")
    BY <1>2 DEF Pay
  <2> QED
    BY <1>1, <2>1, GatewayPayment DEF Move
<1>3. CASE Expire(t)
  BY <1>1, <1>3, GatewayPayment DEF Expire, Move
<1>4. CASE Fail(t)
  BY <1>1, <1>4, GatewayPayment DEF Fail, Move
<1>5. CASE Supersede(t)
  BY <1>1, <1>5, GatewayPayment DEF Supersede, Move
<1>6. CASE Reverse(t)
  BY <1>1, <1>6, GatewayPayment DEF Reverse, Move
<1> QED
  BY <1>2, <1>3, <1>4, <1>5, <1>6 DEF Gateway

(* A handler that goes on with a row that fits what it does. *)
LEMMA TaskPayment ==
  ASSUME PaymentInv, NEW p \in Procs, NEW t \in Topups,
         purchase' = purchase, gateway' = gateway,
         handler' \in [Procs -> Role], OthersStay(p),
         handler'[p].at \in {"ask", "complete", "terminal", "mint"}, handler'[p].topup = t,
         purchase[t].status # "none", purchase[t].bound,
         handler'[p].at \in {"complete", "mint"} => gateway[t] \in {"paid", "reversed"},
         handler'[p].at = "mint" => Chmaba(t) \/ purchase[t].status = "completed",
         handler'[p].at = "terminal" => Chmaba(t) \/ gateway[t] \in {"failed", "expired"}
  PROVE  PaymentInv'
<1>1. \A q \in Procs \ {p} : handler'[q] = handler[q]
  BY DEF OthersStay
<1>2. \A q \in Procs, s \in Topups : Serves(q, s)' => Serves(q, s)
  BY <1>1 DEF Serves
<1>3. PayTypes'
  BY DEF PaymentInv, PayTypes
<1>4. Handling'
  BY <1>1, RefsDiffer DEF PaymentInv, Handling, On
<1>5. Serving'
  BY <1>2 DEF PaymentInv, Serving, Pending
<1>6. GatewayRows'
  BY DEF PaymentInv, GatewayRows
<1>7. PaidStages'
  BY <1>1 DEF PaymentInv, PaidStages, On
<1>8. FailedStages'
  BY <1>1 DEF PaymentInv, FailedStages, On
<1>9. FailedRows'
  BY <1>2 DEF PaymentInv, FailedRows
<1> QED
  BY <1>3, <1>4, <1>5, <1>6, <1>7, <1>8, <1>9 DEF PaymentInv

LEMMA EventsOf ==
  ASSUME PaymentInv, NEW t \in Topups, NEW event \in Events(t)
  PROVE  /\ purchase[t].bound /\ purchase[t].status # "none"
         /\ event = "completed" => gateway[t] \in {"paid", "reversed"}
         /\ event # "completed" => Chmaba(t) \/ gateway[t] = "failed"
<1>1. gateway[t] \in {"paid", "reversed", "failed", "superseded"}
  BY DEF Events
<1> QED
  BY <1>1 DEF PaymentInv, GatewayRows, Events

LEMMA DeliverPayment ==
  ASSUME PaymentInv, NEW p \in Procs, NEW t \in Topups, NEW event \in Events(t),
         Deliver(p, t, event)
  PROVE  PaymentInv'
<1>1. PayTypes /\ purchase' = purchase /\ gateway' = gateway
  BY DEF PaymentInv, Deliver
<1> DEFINE Taken(stage) ==
             /\ stage = "complete" <=> event = "completed"
             /\ \E byId \in BOOLEAN, target \in {"failed", "refunded"} : Take(p, stage, t, byId, target)
<1>2. handler' = handler \/ \E stage \in {"complete", "terminal"} : Taken(stage)
  <2>1. CASE Chmaba(t)
    BY <2>1 DEF Deliver, SettleChmaba
  <2>2. CASE ~Chmaba(t)
    BY <2>2 DEF Deliver, SettleCutluy
  <2> QED
    BY <2>1, <2>2
<1>3. CASE handler' = handler
  BY <1>1, <1>3, LeavesPayment DEF Leaves, PayTypes
<1>4. ASSUME NEW stage \in {"complete", "terminal"}, Taken(stage) PROVE PaymentInv'
  <2>1. PICK byId \in BOOLEAN, target \in {"failed", "refunded"} : Take(p, stage, t, byId, target)
    BY <1>4
  <2>2. stage \in Tasks
    BY DEF Tasks
  <2>3. /\ handler' \in [Procs -> Role] /\ OthersStay(p)
        /\ handler'[p].at = stage /\ handler'[p].topup = t
    BY <1>1, <2>1, <2>2, TakeFacts
  <2>4. stage = "complete" <=> event = "completed"
    BY <1>4
  <2> QED
    BY <1>1, <2>3, <2>4, EventsOf, TaskPayment
<1> QED
  BY <1>2, <1>3, <1>4

LEMMA PollPayment ==
  ASSUME PaymentInv, NEW p \in Procs, NEW t \in Topups, Poll(p, t)
  PROVE  PaymentInv'
<1>1. /\ PayTypes /\ purchase' = purchase /\ gateway' = gateway
      /\ purchase[t].bound /\ purchase[t].status = "pending"
      /\ Take(p, "ask", t, TRUE, "failed")
  BY DEF PaymentInv, Poll, Pending
<1>2. /\ handler' \in [Procs -> Role] /\ OthersStay(p)
      /\ handler'[p].at = "ask" /\ handler'[p].topup = t
  BY <1>1, TakeFacts DEF Tasks
<1> QED
  BY <1>1, <1>2, TaskPayment

LEMMA AnswerPayment ==
  ASSUME PaymentInv, NEW p \in Procs, Answer(p)
  PROVE  PaymentInv'
<1> DEFINE t == handler[p].topup
<1>1. /\ PayTypes /\ handler[p].at = "ask" /\ ~On(p, "idle")
      /\ purchase' = purchase /\ gateway' = gateway
  BY DEF PaymentInv, Answer, On
<1>2. t \in Topups /\ purchase[t].status # "none" /\ purchase[t].bound
  BY <1>1, HandledTopup DEF PaymentInv, Handling
<1>3. \/ Remote(t) = "paid" /\ Turn(p, "complete")
      \/ Remote(t) = "failed" /\ Turn(p, "terminal")
      \/ Done(p)
  BY DEF Answer
<1>4. /\ Remote(t) = "paid" => gateway[t] = "paid"
      /\ Remote(t) = "failed" => gateway[t] \in {"failed", "expired"}
  BY DEF Remote
<1> HIDE DEF t
<1>5. ASSUME NEW stage \in {"complete", "terminal"}, Turn(p, stage),
             stage = "complete" => gateway[t] = "paid",
             stage = "terminal" => gateway[t] \in {"failed", "expired"}
      PROVE  PaymentInv'
  <2>1. stage \in Tasks
    BY DEF Tasks
  <2>2. /\ handler' \in [Procs -> Role] /\ OthersStay(p) /\ handler'[p].at = stage
        /\ handler'[p].topup = t /\ handler'[p].byId = handler[p].byId
    BY <1>1, <1>5, <2>1, TurnFacts DEF t
  <2> QED
    BY <1>1, <1>2, <1>5, <2>2, TaskPayment
<1>6. CASE Done(p)
  BY <1>1, <1>6, DoneFacts, LeavesPayment DEF Leaves, OthersStay
<1> QED
  BY <1>3, <1>4, <1>5, <1>6

(* The UPDATE of a pending row. *)
LEMMA SettlePayment ==
  ASSUME PaymentInv, NEW p \in Procs, NEW t \in Topups,
         NEW status \in {"completed", "failed", "refunded"},
         Pending(t), SetStatus(t, status), gateway' = gateway, purchase[t].bound,
         handler' \in [Procs -> Role], OthersStay(p),
         \/ handler'[p] = Idling /\ (Chmaba(t) \/ gateway[t] \in {"failed", "expired"})
         \/ /\ handler'[p].at = "mint" /\ handler'[p].topup = t /\ status = "completed"
            /\ gateway[t] \in {"paid", "reversed"}
  PROVE  PaymentInv'
<1>1. /\ purchase' \in [Topups -> PurchaseRow]
      /\ purchase'[t].status = status /\ purchase'[t].bound = purchase[t].bound
      /\ \A s \in Topups \ {t} : purchase'[s] = purchase[s]
  BY StatusFacts DEF PaymentInv, OtherRowsStay
<1>2. \A q \in Procs \ {p} : handler'[q] = handler[q]
  BY DEF OthersStay
<1>3. \A q \in Procs : ~Serves(q, t)
  BY DEF PaymentInv, Serving
<1>4. \A q \in Procs, s \in Topups : Serves(q, s)' => Serves(q, s) /\ s # t
  BY <1>2, <1>3, IdlingRole DEF Serves
<1>5. PayTypes'
  BY <1>1 DEF PaymentInv, PayTypes
<1>6. Handling'
  <2> SUFFICES ASSUME NEW q \in Procs
               PROVE  /\ On(q, "idle")' <=> handler'[q].topup = NoRef
                      /\ ~On(q, "idle")' => purchase'[handler'[q].topup].status # "none"
                      /\ handler'[q].byId \/ handler'[q].at \in {"ask", "complete", "terminal", "mint"}
                           => ~On(q, "idle")' /\ purchase'[handler'[q].topup].bound
    BY DEF Handling
  <2>1. CASE q = p
    BY <1>1, <2>1, IdlingRole, RefsDiffer DEF On
  <2>2. CASE q # p
    <3>1. handler'[q] = handler[q]
      BY <1>2, <2>2
    <3>2. \A s \in Topups : /\ purchase[s].status # "none" => purchase'[s].status # "none"
                            /\ purchase'[s].bound = purchase[s].bound
      BY <1>1
    <3>3. On(q, "idle")' <=> On(q, "idle")
      BY <3>1 DEF On
    <3>4. ~On(q, "idle") => handler[q].topup \in Topups
      BY HandledTopup
    <3> QED
      BY <3>1, <3>2, <3>3, <3>4 DEF PaymentInv, Handling
  <2> QED
    BY <2>1, <2>2
<1>7. Serving'
  BY <1>1, <1>4 DEF PaymentInv, Serving, Pending
<1>8. GatewayRows'
  BY <1>1 DEF PaymentInv, GatewayRows
<1>9. PaidStages'
  BY <1>1, <1>2, IdlingRole, HandledTopup DEF PaymentInv, PaidStages, On, Pending
<1>10. FailedStages'
  BY <1>1, <1>2, IdlingRole DEF PaymentInv, FailedStages, On
<1>11. FailedRows'
  <2> SUFFICES ASSUME NEW s \in Topups, purchase'[s].status \in {"failed", "refunded"}
               PROVE  \/ Chmaba(s) \/ gateway'[s] \in {"failed", "expired"}
                      \/ ~purchase'[s].bound /\ \A q \in Procs : ~Serves(q, s)'
    BY DEF FailedRows
  <2>1. CASE s = t
    BY <1>1, <2>1
  <2>2. CASE s # t
    <3>1. purchase'[s] = purchase[s]
      BY <1>1, <2>2
    <3> QED
      BY <1>4, <3>1 DEF PaymentInv, FailedRows
  <2> QED
    BY <2>1, <2>2
<1> QED
  BY <1>5, <1>6, <1>7, <1>8, <1>9, <1>10, <1>11 DEF PaymentInv

LEMMA TerminalPayment ==
  ASSUME PaymentInv, NEW p \in Procs, Terminal(p)
  PROVE  PaymentInv'
<1> DEFINE t == handler[p].topup
<1>1. /\ PayTypes /\ On(p, "terminal") /\ ~On(p, "idle") /\ gateway' = gateway /\ Done(p)
      /\ IF Matches(p) THEN SetStatus(t, handler[p].target) ELSE purchase' = purchase
  BY DEF PaymentInv, Terminal, On
<1>2. t \in Topups /\ handler[p].target \in {"failed", "refunded"}
  BY <1>1, HandledTopup, RoleParts
<1>3. handler' \in [Procs -> Role] /\ OthersStay(p) /\ handler'[p] = Idling
  BY <1>1, DoneFacts
<1>4. Chmaba(t) \/ gateway[t] \in {"failed", "expired"}
  BY <1>1 DEF PaymentInv, FailedStages
<1>5. purchase[t].bound
  BY <1>1 DEF PaymentInv, Handling, On
<1>6. CASE Matches(p)
  <2>1. Pending(t) /\ SetStatus(t, handler[p].target)
    BY <1>1, <1>6 DEF Matches
  <2> QED
    BY <1>1, <1>2, <1>3, <1>4, <1>5, <2>1, SettlePayment
<1>7. CASE ~Matches(p)
  BY <1>1, <1>3, <1>7, LeavesPayment DEF Leaves, OthersStay
<1> QED
  BY <1>6, <1>7

-------------------------------------------------------------------------------
(* What most steps leave alone: the wallet, the mints, the invitation, the     *)
(* settled rows and the paid payments.                                         *)
Paid(t) == gateway[t] \in {"paid", "reversed"}

Completed(t) == purchase[t].status = "completed"

RowsKept ==
  \A t \in Topups :
    /\ purchase[t].status \in {"completed", "failed", "refunded"} =>
         purchase'[t].status = purchase[t].status
    /\ Paid(t) => Paid(t)'

CompletesNone == \A t \in Topups : Completed(t)' => Completed(t)

StaysOff ==
  \A q \in Procs :
    handler'[q] = handler[q] \/ (~On(q, "mint") /\ handler'[q].at \notin {"mint", "reward", "pay"})

MoneyKept == UNCHANGED <<txns, claims, balance, now, job, missed, referral>>

Quietly == RowsKept /\ CompletesNone /\ StaysOff /\ MoneyKept

LEMMA WalletUntouched ==
  ASSUME UNCHANGED <<referral, missed, vars>> PROVE MoneyKept
BY DEF vars, MoneyKept

LEMMA PurchaseQuiet ==
  ASSUME PaymentInv, NEW p \in Procs, NEW t \in Topups, Purchase(p, t)
  PROVE  Quietly
<1> DEFINE abandoned == {s \in Topups : Pending(s) /\ ~purchase[s].bound /\ ~Served(s)}
<1>1. PICK stale \in SUBSET abandoned :
        purchase' = [s \in Topups |->
             IF s = t THEN [status |-> "pending", bound |-> FALSE]
             ELSE IF s \in stale THEN [status |-> "failed", bound |-> FALSE]
             ELSE purchase[s]]
  BY DEF Purchase
<1>2. /\ PayTypes /\ On(p, "idle") /\ purchase[t].status = "none" /\ gateway' = gateway
      /\ Take(p, "create", t, FALSE, "failed") /\ MoneyKept
  BY WalletUntouched DEF Purchase, PaymentInv
<1>3. handler'[p].at = "create" /\ \A q \in Procs \ {p} : handler'[q] = handler[q]
  BY <1>2, TakeFacts DEF Tasks, OthersStay
<1>4. /\ purchase[t].status = "none" /\ purchase'[t].status = "pending"
      /\ \A s \in Topups \ {t} :
           \/ purchase'[s] = purchase[s]
           \/ purchase[s].status = "pending" /\ purchase'[s].status = "failed"
  BY <1>1, <1>2 DEF Pending
<1>5. RowsKept /\ CompletesNone
  BY <1>2, <1>4 DEF RowsKept, CompletesNone, Completed, Paid
<1> QED
  BY <1>2, <1>3, <1>5 DEF Quietly, StaysOff, On

LEMMA StatusQuiet ==
  ASSUME PaymentInv, NEW t \in Topups, Pending(t), gateway' = gateway,
         NEW status \in {"completed", "failed", "refunded"}, SetStatus(t, status)
  PROVE  RowsKept /\ (status # "completed" => CompletesNone)
<1>1. /\ purchase'[t].status = status
      /\ \A s \in Topups \ {t} : purchase'[s] = purchase[s]
  BY StatusFacts DEF PaymentInv, OtherRowsStay
<1> QED
  BY <1>1 DEF RowsKept, CompletesNone, Completed, Paid, Pending

LEMMA SameRowsQuiet ==
  ASSUME purchase' = purchase, gateway' = gateway PROVE RowsKept /\ CompletesNone
BY DEF RowsKept, CompletesNone, Completed, Paid

LEMMA TurnQuiet ==
  ASSUME PaymentInv, NEW p \in Procs, ~On(p, "mint"),
         \/ Done(p)
         \/ \E stage \in Tasks \ {"mint", "reward", "pay"} : Turn(p, stage)
  PROVE  StaysOff
<1>1. CASE Done(p)
  BY <1>1, DoneFacts, IdlingRole DEF PaymentInv, StaysOff, OthersStay
<1>2. ASSUME NEW stage \in Tasks \ {"mint", "reward", "pay"}, Turn(p, stage) PROVE StaysOff
  BY <1>2, TurnFacts DEF PaymentInv, StaysOff, OthersStay
<1> QED
  BY <1>1, <1>2

LEMMA CreateQuiet == ASSUME PaymentInv, NEW p \in Procs, Create(p) PROVE Quietly
<1> DEFINE t == handler[p].topup
<1>1. PayTypes /\ On(p, "create") /\ ~On(p, "idle") /\ ~On(p, "mint") /\ MoneyKept
  BY WalletUntouched DEF PaymentInv, Create, On
<1>2. t \in Topups
  BY <1>1, HandledTopup
<1>3. Pending(t) /\ ~purchase[t].bound
  BY <1>1, <1>2 DEF PaymentInv, Serving, Serves, On
<1>4. ~Paid(t)
  BY <1>2, <1>3 DEF PaymentInv, GatewayRows, Paid
<1>5. StaysOff
  BY <1>1, TurnQuiet DEF Create, Tasks
<1>6. RowsKept /\ CompletesNone
  <2>1. CASE SetStatus(t, "failed") /\ gateway' = gateway
    BY <1>2, <1>3, <2>1, StatusQuiet
  <2>2. CASE purchase' = purchase /\ gateway' = [gateway EXCEPT ![t] = "open"]
    <3>1. \A s \in Topups \ {t} : gateway'[s] = gateway[s]
      BY <1>1, <2>2 DEF PayTypes
    <3> HIDE DEF t
    <3> QED
      BY <1>4, <2>2, <3>1 DEF RowsKept, CompletesNone, Completed, Paid
  <2> QED
    BY <2>1, <2>2 DEF Create
<1> QED
  BY <1>1, <1>5, <1>6 DEF Quietly

LEMMA BindQuiet == ASSUME PaymentInv, NEW p \in Procs, Bind(p) PROVE Quietly
<1>1. PayTypes /\ ~On(p, "mint") /\ ~On(p, "idle") /\ gateway' = gateway /\ MoneyKept
  BY WalletUntouched DEF PaymentInv, Bind, On
<1>2. StaysOff
  BY <1>1, TurnQuiet DEF Bind
<1>3. \A s \in Topups : purchase'[s].status = purchase[s].status
  BY <1>1 DEF Bind, PayTypes, PurchaseRow
<1> QED
  BY <1>1, <1>2, <1>3 DEF Quietly, RowsKept, CompletesNone, Completed, Paid

LEMMA GatewayQuiet == ASSUME PaymentInv, NEW t \in Topups, Gateway(t) PROVE Quietly
<1>1. /\ PayTypes /\ purchase' = purchase /\ handler' = handler /\ MoneyKept
  BY WalletUntouched DEF PaymentInv, Gateway, Pay, Expire, Fail, Supersede, Reverse, Move
<1>2. \A s \in Topups : gateway[s] \in {"paid", "reversed"} => gateway'[s] \in {"paid", "reversed"}
  BY <1>1 DEF PayTypes, Gateway, Pay, Expire, Fail, Supersede, Reverse, Move
<1> QED
  BY <1>1, <1>2 DEF Quietly, RowsKept, CompletesNone, StaysOff, Completed, Paid

LEMMA DeliverQuiet ==
  ASSUME PaymentInv, NEW p \in Procs, NEW t \in Topups, NEW event \in Events(t),
         Deliver(p, t, event)
  PROVE  Quietly
<1>1. /\ PayTypes /\ purchase' = purchase /\ gateway' = gateway /\ On(p, "idle") /\ MoneyKept
  BY WalletUntouched DEF PaymentInv, Deliver
<1>2. \/ handler' = handler
      \/ \E stage \in {"complete", "terminal"}, byId \in BOOLEAN, target \in {"failed", "refunded"} :
           Take(p, stage, t, byId, target)
  BY DEF Deliver, SettleChmaba, SettleCutluy
<1>3. handler' # handler => handler'[p].at \in {"complete", "terminal"} /\ OthersStay(p)
  <2> HAVE handler' # handler
  <2>1. PICK stage \in {"complete", "terminal"}, byId \in BOOLEAN, target \in {"failed", "refunded"} :
        Take(p, stage, t, byId, target)
    BY <1>2
  <2>2. stage \in Tasks
    BY DEF Tasks
  <2> QED
    BY <1>1, <2>1, <2>2, TakeFacts
<1> QED
  BY <1>1, <1>3, SameRowsQuiet DEF Quietly, StaysOff, On, OthersStay

LEMMA PollQuiet ==
  ASSUME PaymentInv, NEW p \in Procs, NEW t \in Topups, Poll(p, t)
  PROVE  Quietly
<1>1. /\ PayTypes /\ purchase' = purchase /\ gateway' = gateway /\ On(p, "idle") /\ MoneyKept
      /\ Take(p, "ask", t, TRUE, "failed")
  BY WalletUntouched DEF PaymentInv, Poll
<1>2. handler'[p].at = "ask" /\ OthersStay(p)
  BY <1>1, TakeFacts DEF Tasks
<1> QED
  BY <1>1, <1>2, SameRowsQuiet DEF Quietly, StaysOff, On, OthersStay

LEMMA AnswerQuiet == ASSUME PaymentInv, NEW p \in Procs, Answer(p) PROVE Quietly
<1>1. /\ purchase' = purchase /\ gateway' = gateway /\ ~On(p, "mint") /\ MoneyKept
  BY WalletUntouched DEF Answer, On
<1>2. StaysOff
  BY <1>1, TurnQuiet DEF Answer, Tasks
<1> QED
  BY <1>1, <1>2, SameRowsQuiet DEF Quietly

LEMMA TerminalQuiet == ASSUME PaymentInv, NEW p \in Procs, Terminal(p) PROVE Quietly
<1>1. /\ ~On(p, "idle") /\ ~On(p, "mint") /\ gateway' = gateway /\ MoneyKept
  BY WalletUntouched DEF Terminal, On
<1>2. StaysOff
  BY <1>1, TurnQuiet DEF Terminal
<1>3. RowsKept /\ CompletesNone
  <2>1. handler[p].topup \in Topups /\ handler[p].target \in {"failed", "refunded"}
    BY <1>1, HandledTopup, RoleParts DEF PaymentInv
  <2>2. CASE Matches(p)
    BY <1>1, <2>1, <2>2, StatusQuiet DEF Terminal, Matches
  <2>3. CASE ~Matches(p)
    BY <1>1, <2>3, SameRowsQuiet DEF Terminal
  <2> QED
    BY <2>2, <2>3
<1> QED
  BY <1>1, <1>2, <1>3 DEF Quietly

-------------------------------------------------------------------------------
(* The wallet of a buyer: the rows its ledger can have, and the mints. *)
PackRow(t) ==
  [direction |-> "credit", reason |-> "v3_pack", ref |-> t, units |-> PackUnits, day |-> 0]

TriggerRow(t) ==
  [direction |-> "credit", reason |-> "topup_purchase", ref |-> RowRef(t), units |-> RawUnits,
   day |-> 0]

InviteRow(units) ==
  [direction |-> "credit", reason |-> "invite_reward", ref |-> InviteRef, units |-> units, day |-> 0]

InviteRows == {InviteRow(units) : units \in 0..RewardUnits}

PaymentRows == {PackRow(t) : t \in Topups} \cup {TriggerRow(t) : t \in Topups} \cup InviteRows

LEMMA RowForms ==
  /\ \A t : Row("credit", "v3_pack", t, PackUnits) = PackRow(t)
  /\ \A t : Row("credit", "topup_purchase", RowRef(t), RawUnits) = TriggerRow(t)
  /\ \A units : Row("credit", "invite_reward", InviteRef, units) = InviteRow(units)
BY DEF Row, PackRow, TriggerRow, InviteRow

LEMMA RowRefs ==
  ASSUME NEW r \in PaymentRows, NEW t \in Topups
  PROVE  /\ r.ref = t <=> r = PackRow(t)
         /\ r.ref = RowRef(t) <=> r = TriggerRow(t)
         /\ r.ref = InviteRef <=> r \in InviteRows
<1>1. CASE r \in {PackRow(s) : s \in Topups}
  <2>1. PICK s \in Topups : r = PackRow(s)
    BY <1>1
  <2>2. r.ref = s /\ r.reason = "v3_pack"
    BY <2>1 DEF PackRow
  <2>3. \A u \in InviteRows : u.reason = "invite_reward"
    BY DEF InviteRows, InviteRow
  <2>4. PackRow(t).ref = t /\ TriggerRow(t).reason = "topup_purchase"
    BY DEF PackRow, TriggerRow
  <2> QED
    BY <2>1, <2>2, <2>3, <2>4, RefsDiffer
<1>2. CASE r \in {TriggerRow(s) : s \in Topups}
  <2>1. PICK s \in Topups : r = TriggerRow(s)
    BY <1>2
  <2>2. r.ref = RowRef(s) /\ r.reason = "topup_purchase"
    BY <2>1 DEF TriggerRow
  <2>3. \A u \in InviteRows : u.reason = "invite_reward"
    BY DEF InviteRows, InviteRow
  <2>4. TriggerRow(t).ref = RowRef(t) /\ PackRow(t).reason = "v3_pack"
    BY DEF PackRow, TriggerRow
  <2> QED
    BY <2>1, <2>2, <2>3, <2>4, RefsDiffer
<1>3. CASE r \in InviteRows
  <2>1. r.ref = InviteRef /\ r.reason = "invite_reward"
    BY <1>3 DEF InviteRows, InviteRow
  <2>2. TriggerRow(t).reason = "topup_purchase" /\ PackRow(t).reason = "v3_pack"
    BY DEF PackRow, TriggerRow
  <2> QED
    BY <1>3, <2>1, <2>2, RefsDiffer
<1> QED
  BY <1>1, <1>2, <1>3 DEF PaymentRows

LEMMA RowsApart ==
  /\ \A t, s \in Topups : /\ PackRow(t) # TriggerRow(s)
                          /\ PackRow(t) \notin InviteRows /\ TriggerRow(t) \notin InviteRows
                          /\ TriggerRow(t) = TriggerRow(s) => t = s
                          /\ PackRow(t) = PackRow(s) => t = s
  /\ \A t \in Topups : PackRow(t) \in PaymentRows /\ TriggerRow(t) \in PaymentRows
  /\ InviteRows \subseteq PaymentRows
<1>1. \A t \in Topups : PackRow(t) \in PaymentRows /\ TriggerRow(t) \in PaymentRows
  BY DEF PaymentRows
<1>2. \A t : /\ PackRow(t).reason = "v3_pack" /\ PackRow(t).ref = t
             /\ TriggerRow(t).reason = "topup_purchase" /\ TriggerRow(t).ref = RowRef(t)
  BY DEF PackRow, TriggerRow
<1>3. \A u \in InviteRows : u.reason = "invite_reward"
  BY DEF InviteRows, InviteRow
<1>4. \A t, s : PackRow(t) # TriggerRow(s)
  BY <1>2
<1>5. \A t : PackRow(t) \notin InviteRows /\ TriggerRow(t) \notin InviteRows
  BY <1>2, <1>3
<1>6. \A t, s \in Topups : TriggerRow(t) = TriggerRow(s) => t = s
  BY <1>2, RefsDiffer
<1>7. \A t, s \in Topups : PackRow(t) = PackRow(s) => t = s
  BY <1>2
<1> QED
  BY <1>1, <1>4, <1>5, <1>6, <1>7 DEF PaymentRows

MintJob ==
  [at : {"idle", "mint", "mintGrant", "mintLot", "mintStamp"}, sweeps : {0},
   then : {"idle", "mint"}, todo : {{}}, lot : {NoLot}, units : Nat,
   ref : Topups \cup {NoRef}, month : {0}]

WalletTypes ==
  /\ job \in [Procs -> MintJob]
  /\ Summable(txns) /\ Rows \subseteq PaymentRows
  /\ balance \in 0..MaxBalance /\ now \in Nat
  /\ missed \subseteq Topups
  /\ referral \in [status : {"none", "pending", "skipped", "rewarded"}, lock : BOOLEAN]

(* A process mints what its handler completed, and has credited the pack when *)
(* it comes to the lot, the stamp or the reward.                              *)
MintJobs ==
  \A p \in Procs :
    /\ On(p, "mint") <=> ~At(p, "idle")
    /\ On(p, "mint") => job[p].ref = handler[p].topup
    /\ job[p].at \in {"mintLot", "mintStamp"} => Credited(job[p].ref)
    /\ handler[p].at \in {"reward", "pay"} => Credited(handler[p].topup)

ClaimRows == \A t \in Topups : <<"v3_pack", t>> \in claims => Credited(t)

(* What is credited or completed is paid for. *)
PaidRows ==
  \A t \in Topups :
    /\ Credited(t) \/ Completed(t) => Paid(t)
    /\ Credited(t) => Chmaba(t) \/ Completed(t)

(* The trigger's row is there once where the row of the top-up is completed. *)
TriggerRows ==
  \A t \in Topups :
    /\ TriggerRow(t) \in Rows <=> Completed(t)
    /\ UnitsIn(txns, {TriggerRow(t)}) = IF Completed(t) THEN RawUnits ELSE 0

(* One handler at a time holds the invitation; the reward closes it. *)
Rewarded == InviteRows \cap Rows # {}

Paying ==
  \A p \in Procs :
    On(p, "pay") => /\ referral = [status |-> "pending", lock |-> TRUE]
                    /\ handler[p].units <= RewardUnits
                    /\ \A q \in Procs : On(q, "pay") => q = p

RewardRows ==
  /\ Rewarded => /\ referral = [status |-> "rewarded", lock |-> FALSE]
                 /\ \E t \in Topups : Credited(t)
  /\ UnitsIn(txns, InviteRows) <= RewardUnits

WalletInv ==
  /\ WalletTypes /\ MintJobs /\ ClaimRows /\ PaidRows /\ TriggerRows /\ CompletedIsMinted
  /\ Paying /\ RewardRows

LEMMA CreditedIs ==
  ASSUME WalletTypes, NEW t \in Topups
  PROVE  Credited(t) <=> PackRow(t) \in Rows
<1>1. PackRow(t).ref = t
  BY DEF PackRow
<1> QED
  BY <1>1, RowRefs DEF WalletTypes, Credited, HasTransactionRef

LEMMA QuietWallet ==
  ASSUME PaymentInv, WalletInv, Quietly
  PROVE  WalletInv'
<1>1. /\ txns' = txns /\ claims' = claims /\ balance' = balance /\ now' = now
      /\ job' = job /\ missed' = missed /\ referral' = referral
  BY DEF Quietly, MoneyKept
<1>2. \A q \in Procs : \/ handler'[q] = handler[q]
                       \/ ~On(q, "mint") /\ handler'[q].at \notin {"mint", "reward", "pay"}
  BY DEF Quietly, StaysOff
<1>3. \A t \in Topups : (Completed(t)' <=> Completed(t)) /\ (Paid(t) => Paid(t)')
  BY DEF Quietly, RowsKept, CompletesNone, Completed
<1>4. \A t : Credited(t)' <=> Credited(t)
  BY <1>1 DEF Credited, HasTransactionRef, Rows
<1>5. WalletTypes'
  BY <1>1 DEF WalletInv, WalletTypes, Rows
<1>6. MintJobs'
  <2> SUFFICES ASSUME NEW q \in Procs
               PROVE  /\ On(q, "mint")' <=> job'[q].at # "idle"
                      /\ On(q, "mint")' => job'[q].ref = handler'[q].topup
                      /\ job'[q].at \in {"mintLot", "mintStamp"} => Credited(job[q].ref)'
                      /\ handler'[q].at \in {"reward", "pay"} => Credited(handler[q].topup)
                           /\ handler'[q] = handler[q]
    BY <1>1, <1>4 DEF MintJobs, At
  <2>1. /\ On(q, "mint") <=> job[q].at # "idle"
        /\ On(q, "mint") => job[q].ref = handler[q].topup
        /\ job[q].at \in {"mintLot", "mintStamp"} => Credited(job[q].ref)
        /\ handler[q].at \in {"reward", "pay"} => Credited(handler[q].topup)
    BY DEF WalletInv, MintJobs, At
  <2> QED
    BY <1>1, <1>2, <1>4, <2>1 DEF On
<1>7. ClaimRows'
  BY <1>1, <1>4 DEF WalletInv, ClaimRows
<1>8. PaidRows'
  BY <1>3, <1>4 DEF WalletInv, PaidRows
<1>9. TriggerRows'
  BY <1>1, <1>3 DEF WalletInv, TriggerRows, Rows
<1>10. CompletedIsMinted'
  BY <1>1, <1>2, <1>3, <1>4 DEF WalletInv, CompletedIsMinted, Completed, On
<1>11. Paying'
  BY <1>1, <1>2 DEF WalletInv, Paying, On
<1>12. RewardRows'
  BY <1>1, <1>4 DEF WalletInv, RewardRows, Rewarded, Rows
<1> QED
  BY <1>5, <1>6, <1>7, <1>8, <1>9, <1>10, <1>11, <1>12 DEF WalletInv

-------------------------------------------------------------------------------
(* A row of the wallet's ledger. *)
LEMMA RecordFacts ==
  ASSUME WalletTypes, NEW row \in PaymentRows, row.units \in Nat, Record(row)
  PROVE  /\ Summable(txns') /\ Rows' = Rows \cup {row} /\ Rows' \subseteq PaymentRows
         /\ \A K : UnitsIn(txns', K) =
                     IF row \in K THEN UnitsIn(txns, K) + row.units ELSE UnitsIn(txns, K)
<1>1. Summable(txns) /\ txns' = AddRow(txns, row)
  BY DEF WalletTypes, Record
<1> QED
  BY <1>1, AddRowUnits DEF WalletTypes, Rows

LEMMA StartMintFacts ==
  ASSUME PayTypes, WalletTypes, NEW p \in Procs, NEW t \in Topups, StartMint(p, t)
  PROVE  /\ handler' \in [Procs -> Role] /\ OthersStay(p)
         /\ handler'[p].at = "mint" /\ handler'[p].topup = handler[p].topup
         /\ job' \in [Procs -> MintJob]
         /\ job'[p].at = "mint" /\ job'[p].ref = t
         /\ \A q \in Procs \ {p} : job'[q] = job[q]
<1>1. Turn(p, "mint") /\ job' = [job EXCEPT ![p] = NewJob("mint", 0, "mint", t)]
  BY DEF StartMint
<1>2. /\ NewJob("mint", 0, "mint", t) \in MintJob
      /\ NewJob("mint", 0, "mint", t).at = "mint" /\ NewJob("mint", 0, "mint", t).ref = t
  BY DEF NewJob, MintJob
<1>3. /\ job' \in [Procs -> MintJob]
      /\ job'[p].at = "mint" /\ job'[p].ref = t
      /\ \A q \in Procs \ {p} : job'[q] = job[q]
  BY <1>1, <1>2 DEF WalletTypes
<1> QED
  BY <1>1, <1>3, TurnFacts DEF Tasks

(* Who completes goes on with the mint, whether or not the row was pending. *)
LEMMA CompleteStarts ==
  ASSUME PaymentInv, WalletInv, NEW p \in Procs, NEW t \in Topups, t = handler[p].topup,
         On(p, "complete"), StartMint(p, t),
         UNCHANGED <<gateway, referral, missed, claims, now>>, balance' \in 0..MaxBalance,
         \A s \in Topups : Credited(s)' <=> Credited(s),
         \A s \in Topups \ {t} : Completed(s)' <=> Completed(s),
         Completed(t) => Completed(t)',
         WalletTypes', TriggerRows', Rows' \cap InviteRows = Rows \cap InviteRows,
         UnitsIn(txns', InviteRows) = UnitsIn(txns, InviteRows)
  PROVE  WalletInv'
<1>1. /\ handler' \in [Procs -> Role] /\ OthersStay(p)
      /\ handler'[p].at = "mint" /\ handler'[p].topup = t
      /\ job'[p].at = "mint" /\ job'[p].ref = t
      /\ \A q \in Procs \ {p} : job'[q] = job[q]
  BY StartMintFacts DEF PaymentInv, WalletInv
<1>2. \A q \in Procs \ {p} : handler'[q] = handler[q]
  BY <1>1 DEF OthersStay
<1>3. Paid(t) /\ \A s \in Topups : Paid(s)' <=> Paid(s)
  BY DEF PaymentInv, PaidStages, Paid, On
<1>4. MintJobs'
  <2> SUFFICES ASSUME NEW q \in Procs
               PROVE  /\ On(q, "mint")' <=> job'[q].at # "idle"
                      /\ On(q, "mint")' => job'[q].ref = handler'[q].topup
                      /\ job'[q].at \in {"mintLot", "mintStamp"} => Credited(job[q].ref)'
                      /\ handler'[q].at \in {"reward", "pay"} => Credited(handler[q].topup)'
    BY DEF MintJobs, At
  <2>1. CASE q = p
    BY <1>1, <2>1 DEF On
  <2>2. CASE q # p
    <3>1. /\ On(q, "mint") <=> job[q].at # "idle"
          /\ On(q, "mint") => job[q].ref = handler[q].topup
          /\ job[q].at \in {"mintLot", "mintStamp"} => Credited(job[q].ref)
          /\ handler[q].at \in {"reward", "pay"} => Credited(handler[q].topup)
      BY DEF WalletInv, MintJobs, At
    <3>2. handler'[q] = handler[q] /\ job'[q] = job[q]
      BY <1>1, <1>2, <2>2
    <3>3. /\ job[q].at \in {"mintLot", "mintStamp"} => job[q].ref \in Topups
          /\ handler[q].at \in {"reward", "pay"} => handler[q].topup \in Topups
      BY <3>1, HandledTopup DEF On
    <3>4. /\ job[q].at \in {"mintLot", "mintStamp"} => Credited(job[q].ref)'
          /\ handler[q].at \in {"reward", "pay"} => Credited(handler[q].topup)'
      <4>1. \A s \in Topups : (\E r \in Rows : r.ref = s) => (\E r \in Rows' : r.ref = s)
        BY DEF Credited, HasTransactionRef
      <4> QED
        BY <3>1, <3>2, <3>3, <4>1 DEF Credited, HasTransactionRef
    <3> QED
      BY <3>1, <3>2, <3>4 DEF On
  <2> QED
    BY <2>1, <2>2
<1>5. ClaimRows'
  BY DEF WalletInv, ClaimRows
<1>6. PaidRows'
  BY <1>3 DEF WalletInv, PaidRows
<1>7. CompletedIsMinted'
  <2>1. On(p, "mint")' /\ handler'[p].topup = t
    BY <1>1 DEF On
  <2>2. \A q \in Procs : On(q, "mint") => handler'[q] = handler[q] /\ On(q, "mint")'
    BY <1>2, <2>1 DEF On
  <2> SUFFICES ASSUME NEW s \in Topups, Completed(s)', s # t
               PROVE  \/ Credited(s)' \/ s \in missed'
                      \/ \E q \in Procs : On(q, "mint")' /\ handler'[q].topup = s
    BY <2>1 DEF CompletedIsMinted, Completed
  <2>3. Completed(s)
    OBVIOUS
  <2> QED
    BY <2>2, <2>3 DEF WalletInv, CompletedIsMinted, Completed
<1>8. Paying'
  BY <1>1, <1>2 DEF WalletInv, Paying, On
<1>9. RewardRows'
  BY DEF WalletInv, RewardRows, Rewarded
<1> QED
  BY <1>4, <1>5, <1>6, <1>7, <1>8, <1>9 DEF WalletInv

LEMMA CompleteStep ==
  ASSUME PaymentInv, WalletInv, NEW p \in Procs, NEW t \in Topups, t = handler[p].topup,
         Complete(p)
  PROVE  PaymentInv' /\ WalletInv' /\ RowsKept
<1>1. /\ On(p, "complete") /\ ~On(p, "idle") /\ ~On(p, "mint") /\ gateway' = gateway
      /\ UNCHANGED <<referral, missed, claims, now>> /\ PayTypes /\ WalletTypes
  BY DEF Complete, On, PaymentInv, WalletInv
<1>2. /\ purchase[t].status # "none" /\ purchase[t].bound
      /\ gateway[t] \in {"paid", "reversed"}
  BY <1>1, HandledTopup DEF PaymentInv, Handling, PaidStages, On
<1>3. Matches(p) <=> Pending(t)
  BY <1>2 DEF Matches
<1>4. CASE /\ Matches(p) /\ balance + RawUnits <= MaxBalance
           /\ SetStatus(t, "completed") /\ balance' = balance + RawUnits
           /\ Record(Row("credit", "topup_purchase", RowRef(t), RawUnits))
           /\ StartMint(p, t)
  <2>1. Pending(t)
    BY <1>3, <1>4
  <2>2. /\ handler' \in [Procs -> Role] /\ OthersStay(p)
        /\ handler'[p].at = "mint" /\ handler'[p].topup = t /\ job' \in [Procs -> MintJob]
    BY <1>1, <1>2, <1>4, StartMintFacts
  <2>3. /\ purchase'[t].status = "completed"
        /\ \A s \in Topups \ {t} : purchase'[s] = purchase[s]
    BY <1>1, <1>2, <1>4, StatusFacts DEF OtherRowsStay
  <2>4. PaymentInv'
    BY <1>1, <1>2, <1>4, <2>1, <2>2, SettlePayment
  <2>5. RowsKept
    BY <1>1, <1>2, <1>4, <2>1, StatusQuiet
  <2> DEFINE row == TriggerRow(t)
  <2>6. row \in PaymentRows /\ row.units = RawUnits /\ Record(row)
    BY <1>2, <1>4, RowsApart, RowForms DEF TriggerRow
  <2>7. RawUnits \in Nat /\ MaxBalance \in Nat /\ balance \in Nat
    BY <1>1, TopupAssumption, MaxBalanceAssumption DEF WalletTypes
  <2>8. /\ Summable(txns') /\ Rows' = Rows \cup {row} /\ Rows' \subseteq PaymentRows
        /\ \A K : UnitsIn(txns', K) =
                     IF row \in K THEN UnitsIn(txns, K) + RawUnits ELSE UnitsIn(txns, K)
    BY <1>1, <2>6, <2>7, RecordFacts
  <2> HIDE DEF row
  <2>9. row = TriggerRow(t) /\ row \notin InviteRows
        /\ \A s \in Topups : /\ row # PackRow(s)
                             /\ s # t => row # TriggerRow(s)
    BY <1>2, RowsApart DEF row
  <2>10. balance' \in 0..MaxBalance
    BY <1>4, <2>7
  <2>11. WalletTypes'
    BY <1>1, <2>2, <2>8, <2>10 DEF WalletTypes
  <2>12. \A s \in Topups : Credited(s)' <=> Credited(s)
    <3> SUFFICES ASSUME NEW s \in Topups PROVE Credited(s)' <=> Credited(s)
      OBVIOUS
    <3>1. Credited(s) <=> PackRow(s) \in Rows
      BY <1>1, CreditedIs
    <3>2. Credited(s)' <=> PackRow(s) \in Rows'
      <4>1. PackRow(s).ref = s
        BY DEF PackRow
      <4>2. \A r \in PaymentRows : r.ref = s <=> r = PackRow(s)
        BY RowRefs
      <4>3. Credited(s)' <=> \E r \in Rows' : r.ref = s
        BY DEF Credited, HasTransactionRef
      <4> QED
        BY <2>8, <4>1, <4>2, <4>3
    <3> QED
      BY <2>8, <2>9, <3>1, <3>2
  <2>13. /\ \A s \in Topups \ {t} : Completed(s)' <=> Completed(s)
         /\ Completed(t)' /\ ~Completed(t)
    BY <2>1, <2>3 DEF Completed, Pending
  <2>14. TriggerRows'
    <3> SUFFICES ASSUME NEW s \in Topups
                 PROVE  /\ TriggerRow(s) \in Rows' <=> Completed(s)'
                        /\ UnitsIn(txns', {TriggerRow(s)}) = IF Completed(s)' THEN RawUnits ELSE 0
      BY DEF TriggerRows
    <3>1. /\ TriggerRow(s) \in Rows <=> Completed(s)
          /\ UnitsIn(txns, {TriggerRow(s)}) = IF Completed(s) THEN RawUnits ELSE 0
      BY DEF WalletInv, TriggerRows
    <3>2. UnitsIn(txns', {TriggerRow(s)}) =
            IF row \in {TriggerRow(s)} THEN UnitsIn(txns, {TriggerRow(s)}) + RawUnits
            ELSE UnitsIn(txns, {TriggerRow(s)})
      BY <2>8
    <3>3. CASE s = t
      BY <2>7, <2>8, <2>9, <2>13, <3>1, <3>2, <3>3
    <3>4. CASE s # t
      BY <2>8, <2>9, <2>13, <3>1, <3>2, <3>4
    <3> QED
      BY <3>3, <3>4
  <2>15. /\ Rows' \cap InviteRows = Rows \cap InviteRows
         /\ UnitsIn(txns', InviteRows) = UnitsIn(txns, InviteRows)
    BY <2>8, <2>9
  <2>16. WalletInv'
    BY <1>1, <1>2, <1>4, <2>10, <2>11, <2>12, <2>13, <2>14, <2>15, CompleteStarts
  <2> QED
    BY <2>4, <2>5, <2>16
<1>5. CASE Done(p) /\ UNCHANGED <<purchase, balance, txns, job>>
  <2>1. handler' \in [Procs -> Role] /\ OthersStay(p) /\ handler'[p] = Idling
    BY <1>1, <1>5, DoneFacts
  <2>2. PaymentInv'
    BY <1>1, <1>5, <2>1, LeavesPayment DEF Leaves, OthersStay
  <2>3. Quietly
    BY <1>1, <1>5, SameRowsQuiet, TurnQuiet DEF Quietly, MoneyKept
  <2> QED
    BY <2>2, <2>3, QuietWallet DEF Quietly
<1>6. CASE /\ Matches(p) => ~TriggerFires(t)
           /\ StartMint(p, t) /\ UNCHANGED <<purchase, balance, txns>>
  <2>1. ~Pending(t)
    BY <1>3, <1>6 DEF TriggerFires, Pending
  <2>2. Chmaba(t) \/ Completed(t)
    <3>1. purchase[t].status \in {"completed", "failed", "refunded"}
      BY <1>1, <1>2, <2>1, RowParts DEF Pending
    <3> QED
      BY <1>2, <3>1 DEF PaymentInv, FailedRows, Completed
  <2>3. /\ handler' \in [Procs -> Role] /\ OthersStay(p)
        /\ handler'[p].at = "mint" /\ handler'[p].topup = t /\ job' \in [Procs -> MintJob]
    BY <1>1, <1>2, <1>6, StartMintFacts
  <2>4. PaymentInv'
    BY <1>1, <1>2, <1>6, <2>2, <2>3, TaskPayment DEF Completed
  <2>5. RowsKept
    BY <1>1, <1>6, SameRowsQuiet
  <2>6. WalletTypes' /\ TriggerRows'
    BY <1>1, <1>6, <2>3 DEF WalletInv, WalletTypes, TriggerRows, Rows, Completed
  <2>7. /\ Rows' = Rows /\ UnitsIn(txns', InviteRows) = UnitsIn(txns, InviteRows)
        /\ balance' \in 0..MaxBalance
        /\ \A s : (Credited(s)' <=> Credited(s)) /\ (Completed(s)' <=> Completed(s))
    BY <1>1, <1>6 DEF Rows, Credited, HasTransactionRef, Completed, WalletTypes
  <2>8. WalletInv'
    BY <1>1, <1>2, <1>6, <2>6, <2>7, CompleteStarts
  <2> QED
    BY <2>4, <2>5, <2>8
<1> QED
  BY <1>4, <1>5, <1>6 DEF Complete

-------------------------------------------------------------------------------
(* What a step of a mint comes to: it goes on, perhaps with the pack's row, or *)
(* it ends with the pack credited, or with a wallet too full for it.           *)
GoesOn(p, t) ==
  /\ handler' = handler /\ missed' = missed
  /\ job'[p].at \in {"mintGrant", "mintLot", "mintStamp"} /\ job'[p].ref = t
  /\ \/ /\ txns' = txns /\ claims' = claims
        /\ job'[p].at \in {"mintLot", "mintStamp"} => Credited(t)
     \/ Record(PackRow(t)) /\ claims' = claims \cup {<<"v3_pack", t>>}

EndsCredited(p, t) ==
  /\ Turn(p, "reward") /\ missed' = missed /\ job'[p].at = "idle"
  /\ txns' = txns /\ claims' = claims /\ Credited(t)

EndsFull(p, t) ==
  /\ Done(p) /\ missed' = missed \cup {t} /\ job'[p].at = "idle"
  /\ txns' = txns /\ claims' = claims

LEMMA IdleJob == Idle \in MintJob /\ Idle.at = "idle"
BY DEF Idle, NewJob, MintJob

LEMMA JobFacts ==
  ASSUME WalletTypes, NEW p \in Procs, NEW at \in {"mintGrant", "mintLot", "mintStamp"},
         NEW units \in Nat,
         job' = [job EXCEPT ![p] = [@ EXCEPT !.at = at, !.units = units]]
  PROVE  /\ job' \in [Procs -> MintJob] /\ \A q \in Procs \ {p} : job'[q] = job[q]
         /\ job'[p].at = at /\ job'[p].ref = job[p].ref
<1>1. job[p] \in MintJob
  BY DEF WalletTypes
<1> DEFINE j == [job[p] EXCEPT !.at = at, !.units = units]
<1>2. j \in MintJob /\ j.at = at /\ j.ref = job[p].ref
  BY <1>1 DEF MintJob
<1>3. job' = [job EXCEPT ![p] = j]
  OBVIOUS
<1> HIDE DEF j
<1> QED
  BY <1>2, <1>3 DEF WalletTypes

LEMMA GoToFacts ==
  ASSUME WalletTypes, NEW p \in Procs, NEW at \in {"mintGrant", "mintLot", "mintStamp"},
         GoTo(p, at)
  PROVE  /\ job' \in [Procs -> MintJob] /\ \A q \in Procs \ {p} : job'[q] = job[q]
         /\ job'[p].at = at /\ job'[p].ref = job[p].ref
<1>1. job[p] \in MintJob
  BY DEF WalletTypes
<1> DEFINE j == [job[p] EXCEPT !.at = at]
<1>2. j \in MintJob /\ j.at = at /\ j.ref = job[p].ref
  BY <1>1 DEF MintJob
<1>3. job' = [job EXCEPT ![p] = j]
  BY DEF GoTo
<1> HIDE DEF j
<1> QED
  BY <1>2, <1>3 DEF WalletTypes

LEMMA FinishFacts ==
  ASSUME WalletTypes, NEW p \in Procs, Finish(p)
  PROVE  /\ job' \in [Procs -> MintJob] /\ \A q \in Procs \ {p} : job'[q] = job[q]
         /\ job'[p] = Idle /\ job'[p].at = "idle"
BY IdleJob DEF WalletTypes, Finish

LEMMA MintKinds ==
  ASSUME PaymentInv, WalletInv, NEW p \in Procs, NEW t \in Topups, t = handler[p].topup,
         MintStep(p)
  PROVE  /\ On(p, "mint") /\ UNCHANGED <<purchase, gateway, referral, now>>
         /\ balance' \in 0..MaxBalance
         /\ job' \in [Procs -> MintJob] /\ \A q \in Procs \ {p} : job'[q] = job[q]
         /\ GoesOn(p, t) \/ EndsCredited(p, t) \/ EndsFull(p, t)
<1> DEFINE refused == At(p, "mintGrant") /\ job'[p] = Idle
           Kept == job' \in [Procs -> MintJob] /\ \A q \in Procs \ {p} : job'[q] = job[q]
           Kind == GoesOn(p, t) \/ EndsCredited(p, t) \/ EndsFull(p, t)
<1>1. /\ On(p, "mint") /\ Mint(p) /\ WalletTypes
      /\ IF refused THEN Done(p) ELSE IF job'[p] = Idle THEN Turn(p, "reward") ELSE handler' = handler
      /\ missed' = IF refused THEN missed \cup {t} ELSE missed
      /\ UNCHANGED <<purchase, gateway, referral>>
  BY DEF MintStep, WalletInv
<1>2. /\ job[p].ref = t
      /\ job[p].at \in {"mintLot", "mintStamp"} => Credited(t)
  BY <1>1 DEF WalletInv, MintJobs
<1>3. balance \in 0..MaxBalance /\ MaxBalance \in Nat /\ PackUnits \in Nat /\ now \in Nat /\ PackDays \in Nat
  BY <1>1, MaxBalanceAssumption, LifecycleAssumption DEF WalletTypes
<1>4. \A j : j.at # "idle" => j # Idle
  BY IdleJob
<1>5. CASE MintCheck(p)
  <2>1. ~refused /\ txns' = txns /\ claims' = claims /\ balance' = balance /\ now' = now
    BY <1>5 DEF MintCheck, At
  <2>2. CASE Credited(t)
    <3>1. Finish(p)
      BY <1>2, <1>5, <2>2 DEF MintCheck, Credited
    <3>2. Kept /\ job'[p] = Idle /\ job'[p].at = "idle"
      BY <1>1, <3>1, FinishFacts
    <3> QED
      BY <1>1, <1>3, <2>1, <2>2, <3>2 DEF EndsCredited
  <2>3. CASE ~Credited(t)
    <3>1. GoTo(p, "mintGrant")
      BY <1>2, <1>5, <2>3 DEF MintCheck, Credited
    <3>2. Kept /\ job'[p].at = "mintGrant" /\ job'[p].ref = t
      BY <1>1, <1>2, <3>1, GoToFacts
    <3> QED
      BY <1>1, <1>3, <1>4, <2>1, <3>2 DEF GoesOn
  <2> QED
    BY <2>2, <2>3
<1>6. CASE MintGrant(p)
  <2>1. CASE Grant(PackUnits, "v3_pack", t) /\ GoTo(p, "mintLot")
    <3>1. Kept /\ job'[p].at = "mintLot" /\ job'[p].ref = t
      BY <1>1, <1>2, <2>1, GoToFacts
    <3>2. ~refused /\ job'[p] # Idle
      BY <1>4, <3>1
    <3>3. /\ Record(PackRow(t)) /\ claims' = claims \cup {<<"v3_pack", t>>} /\ now' = now
          /\ balance' = balance + PackUnits /\ balance + PackUnits <= MaxBalance
      BY <2>1, RowForms DEF Grant
    <3>4. balance' \in 0..MaxBalance
      BY <1>3, <3>3
    <3> QED
      BY <1>1, <3>1, <3>2, <3>3, <3>4 DEF GoesOn
  <2>2. CASE <<"v3_pack", t>> \in claims /\ UNCHANGED repoVars /\ GoTo(p, "mintLot")
    <3>1. Kept /\ job'[p].at = "mintLot" /\ job'[p].ref = t
      BY <1>1, <1>2, <2>2, GoToFacts
    <3>2. ~refused /\ job'[p] # Idle
      BY <1>4, <3>1
    <3>3. Credited(t)
      BY <2>2 DEF WalletInv, ClaimRows
    <3> QED
      BY <1>1, <1>3, <2>2, <3>1, <3>2, <3>3 DEF GoesOn, repoVars
  <2>3. CASE UNCHANGED repoVars /\ Finish(p)
    <3>1. Kept /\ job'[p] = Idle /\ job'[p].at = "idle"
      BY <1>1, <2>3, FinishFacts
    <3>2. refused
      BY <1>6, <3>1 DEF MintGrant
    <3> QED
      BY <1>1, <1>3, <2>3, <3>1, <3>2 DEF EndsFull, repoVars
  <2> QED
    BY <1>2, <1>6, <2>1, <2>2, <2>3 DEF MintGrant
<1>7. CASE MintLot(p)
  <2>1. /\ job' = [job EXCEPT ![p] = [@ EXCEPT !.at = "mintStamp", !.units = now + PackDays]]
        /\ txns' = txns /\ claims' = claims /\ balance' = balance /\ now' = now
        /\ job[p].at = "mintLot"
    BY <1>7 DEF MintLot, At
  <2>2. now + PackDays \in Nat
    BY <1>3
  <2>3. Kept /\ job'[p].at = "mintStamp" /\ job'[p].ref = t
    BY <1>1, <1>2, <2>1, <2>2, JobFacts
  <2>4. ~refused /\ job'[p] # Idle
    BY <1>4, <2>3
  <2> QED
    BY <1>1, <1>2, <1>3, <2>1, <2>3, <2>4 DEF GoesOn
<1>8. CASE MintStamp(p)
  <2>1. /\ Finish(p) /\ job[p].at = "mintStamp"
        /\ txns' = txns /\ claims' = claims /\ balance' = balance /\ now' = now
    BY <1>8 DEF MintStamp, At
  <2>2. Kept /\ job'[p] = Idle /\ job'[p].at = "idle"
    BY <1>1, <2>1, FinishFacts
  <2>3. ~refused
    BY <2>1 DEF At
  <2> QED
    BY <1>1, <1>2, <1>3, <2>1, <2>2, <2>3 DEF EndsCredited
<1> QED
  BY <1>1, <1>5, <1>6, <1>7, <1>8 DEF Mint

(* The rows after a step of a mint. *)
LEMMA MintRows ==
  ASSUME WalletInv, NEW t \in Topups,
         txns' = txns \/ Record(PackRow(t))
  PROVE  /\ Summable(txns') /\ Rows' \subseteq PaymentRows
         /\ \A s \in Topups : /\ Credited(s) => Credited(s)'
                              /\ Credited(s)' => Credited(s) \/ s = t
                              /\ UnitsIn(txns', {TriggerRow(s)}) = UnitsIn(txns, {TriggerRow(s)})
                              /\ TriggerRow(s) \in Rows' <=> TriggerRow(s) \in Rows
         /\ InviteRows \cap Rows' = InviteRows \cap Rows
         /\ UnitsIn(txns', InviteRows) = UnitsIn(txns, InviteRows)
         /\ Record(PackRow(t)) => Credited(t)'
<1>1. WalletTypes /\ Summable(txns) /\ Rows \subseteq PaymentRows
  BY DEF WalletInv, WalletTypes
<1> DEFINE row == PackRow(t)
<1>2. /\ row \in PaymentRows /\ row.units \in Nat /\ row.ref = t /\ row \notin InviteRows
      /\ \A s \in Topups : row # TriggerRow(s)
  BY RowsApart, LifecycleAssumption DEF PackRow
<1>3. CASE txns' = txns /\ ~Record(row)
  BY <1>1, <1>3 DEF Rows, Credited, HasTransactionRef
<1>4. CASE Record(row)
  <2> HIDE DEF row
  <2>1. /\ Summable(txns') /\ Rows' = Rows \cup {row} /\ Rows' \subseteq PaymentRows
        /\ \A K : row \notin K => UnitsIn(txns', K) = UnitsIn(txns, K)
    BY <1>1, <1>2, <1>4, RecordFacts
  <2>2. \A s : /\ Credited(s) <=> \E r \in Rows : r.ref = s
               /\ Credited(s)' <=> \E r \in Rows' : r.ref = s
    BY DEF Credited, HasTransactionRef
  <2>3. \A s \in Topups : /\ Credited(s) => Credited(s)'
                          /\ Credited(s)' => Credited(s) \/ s = t
    BY <1>2, <2>1, <2>2
  <2>4. Credited(t)'
    BY <1>2, <2>1, <2>2
  <2>5. \A s \in Topups : /\ UnitsIn(txns', {TriggerRow(s)}) = UnitsIn(txns, {TriggerRow(s)})
                          /\ TriggerRow(s) \in Rows' <=> TriggerRow(s) \in Rows
    BY <1>2, <2>1
  <2> QED
    BY <1>2, <2>1, <2>3, <2>4, <2>5
<1> QED
  BY <1>3, <1>4

LEMMA MintWallet ==
  ASSUME PaymentInv, WalletInv, NEW p \in Procs, NEW t \in Topups, t = handler[p].topup,
         MintStep(p)
  PROVE  PaymentInv' /\ WalletInv' /\ RowsKept
<1>1. /\ On(p, "mint") /\ purchase' = purchase /\ gateway' = gateway
      /\ referral' = referral /\ now' = now
      /\ balance' \in 0..MaxBalance
      /\ job' \in [Procs -> MintJob] /\ \A q \in Procs \ {p} : job'[q] = job[q]
      /\ GoesOn(p, t) \/ EndsCredited(p, t) \/ EndsFull(p, t)
  BY MintKinds
<1>2. /\ PayTypes /\ WalletTypes /\ Paid(t) /\ (Chmaba(t) \/ Completed(t))
  BY <1>1 DEF PaymentInv, WalletInv, PaidStages, Paid, Completed, On
<1>3. \/ /\ handler' = handler
      \/ /\ handler' \in [Procs -> Role] /\ OthersStay(p)
         /\ handler'[p].at = "reward" /\ handler'[p].topup = t
         /\ handler'[p].byId = handler[p].byId
      \/ /\ handler' \in [Procs -> Role] /\ OthersStay(p) /\ handler'[p] = Idling
  BY <1>1, <1>2, TurnFacts, DoneFacts DEF GoesOn, EndsCredited, EndsFull, Tasks
<1>4. /\ \A q \in Procs \ {p} : handler'[q] = handler[q]
      /\ handler' \in [Procs -> Role]
  BY <1>2, <1>3 DEF OthersStay, PayTypes
<1>5. PaymentInv'
  BY <1>1, <1>3, <1>4, LeavesPayment DEF Leaves, On
<1>6. RowsKept
  BY <1>1, SameRowsQuiet
<1>7. txns' = txns \/ Record(PackRow(t))
  BY <1>1 DEF GoesOn, EndsCredited, EndsFull
<1>8. /\ Summable(txns') /\ Rows' \subseteq PaymentRows
      /\ \A s \in Topups : /\ Credited(s) => Credited(s)'
                           /\ Credited(s)' => Credited(s) \/ s = t
                           /\ UnitsIn(txns', {TriggerRow(s)}) = UnitsIn(txns, {TriggerRow(s)})
                           /\ TriggerRow(s) \in Rows' <=> TriggerRow(s) \in Rows
      /\ InviteRows \cap Rows' = InviteRows \cap Rows
      /\ UnitsIn(txns', InviteRows) = UnitsIn(txns, InviteRows)
      /\ Record(PackRow(t)) => Credited(t)'
  BY <1>7, MintRows
<1>9. \A s \in Topups : (Completed(s)' <=> Completed(s)) /\ (Paid(s)' <=> Paid(s))
  BY <1>1 DEF Completed, Paid
<1>10. WalletTypes'
  <2>1. missed' \subseteq Topups
    BY <1>1, <1>2 DEF GoesOn, EndsCredited, EndsFull, WalletTypes
  <2> QED
    BY <1>1, <1>2, <1>8, <2>1 DEF WalletTypes
<1>11. MintJobs'
  <2> SUFFICES ASSUME NEW q \in Procs
               PROVE  /\ On(q, "mint")' <=> job'[q].at # "idle"
                      /\ On(q, "mint")' => job'[q].ref = handler'[q].topup
                      /\ job'[q].at \in {"mintLot", "mintStamp"} => Credited(job[q].ref)'
                      /\ handler'[q].at \in {"reward", "pay"} => Credited(handler[q].topup)'
    BY DEF MintJobs, At
  <2>1. \A s : Credited(s)' <=> \E r \in Rows' : r.ref = s
    BY DEF Credited, HasTransactionRef
  <2>2. CASE q = p
    <3>1. CASE GoesOn(p, t)
      <4>1. /\ On(p, "mint")' /\ handler'[p].topup = t /\ handler'[p].at = "mint"
            /\ job'[p].at # "idle" /\ job'[p].ref = t
        BY <1>1, <3>1 DEF GoesOn, On
      <4>2. job'[p].at \in {"mintLot", "mintStamp"} => Credited(t)'
        BY <1>8, <3>1 DEF GoesOn
      <4> QED
        BY <2>1, <2>2, <4>1, <4>2 DEF Credited, HasTransactionRef
    <3>2. CASE EndsCredited(p, t)
      <4>1. /\ handler'[p].at = "reward" /\ handler'[p].topup = t /\ job'[p].at = "idle"
        BY <1>1, <1>2, <3>2, TurnFacts DEF EndsCredited, Tasks
      <4>2. Credited(t)'
        BY <1>8, <3>2 DEF EndsCredited
      <4> QED
        BY <2>1, <2>2, <4>1, <4>2 DEF Credited, HasTransactionRef, On
    <3>3. CASE EndsFull(p, t)
      <4>1. handler'[p] = Idling /\ job'[p].at = "idle"
        BY <1>1, <1>2, <3>3, DoneFacts DEF EndsFull
      <4> QED
        BY <2>2, <4>1, IdlingRole DEF On
    <3> QED
      BY <1>1, <3>1, <3>2, <3>3
  <2>3. CASE q # p
    <3>1. /\ On(q, "mint") <=> job[q].at # "idle"
          /\ On(q, "mint") => job[q].ref = handler[q].topup
          /\ job[q].at \in {"mintLot", "mintStamp"} => Credited(job[q].ref)
          /\ handler[q].at \in {"reward", "pay"} => Credited(handler[q].topup)
      BY DEF WalletInv, MintJobs, At
    <3>2. handler'[q] = handler[q] /\ job'[q] = job[q]
      BY <1>1, <1>4, <2>3
    <3>3. /\ job[q].at \in {"mintLot", "mintStamp"} => job[q].ref \in Topups
          /\ handler[q].at \in {"reward", "pay"} => handler[q].topup \in Topups
      BY <3>1, HandledTopup DEF On
    <3>4. \A s \in Topups : Credited(s) => \E r \in Rows' : r.ref = s
      BY <1>8, <2>1
    <3> QED
      BY <3>1, <3>2, <3>3, <3>4 DEF On, Credited, HasTransactionRef
  <2> QED
    BY <2>2, <2>3
<1>12. ClaimRows'
  <2> SUFFICES ASSUME NEW s \in Topups, <<"v3_pack", s>> \in claims' PROVE Credited(s)'
    BY DEF ClaimRows
  <2>1. CASE <<"v3_pack", s>> \in claims
    BY <1>8, <2>1 DEF WalletInv, ClaimRows
  <2>2. CASE <<"v3_pack", s>> \notin claims
    <3>1. Record(PackRow(t)) /\ claims' = claims \cup {<<"v3_pack", t>>}
      BY <1>1, <2>2 DEF GoesOn, EndsCredited, EndsFull
    <3>2. s = t
      BY <2>2, <3>1
    <3> QED
      BY <1>8, <3>1, <3>2
  <2> QED
    BY <2>1, <2>2
<1>13. PaidRows'
  BY <1>2, <1>8, <1>9 DEF WalletInv, PaidRows
<1>14. TriggerRows'
  BY <1>8, <1>9 DEF WalletInv, TriggerRows
<1>15. CompletedIsMinted'
  <2> SUFFICES ASSUME NEW s \in Topups, Completed(s)'
               PROVE  \/ Credited(s)' \/ s \in missed'
                      \/ \E q \in Procs : On(q, "mint")' /\ handler'[q].topup = s
    BY DEF CompletedIsMinted, Completed
  <2>1. missed \subseteq missed'
    BY <1>1 DEF GoesOn, EndsCredited, EndsFull
  <2>2. \/ Credited(s) \/ s \in missed \/ \E q \in Procs : On(q, "mint") /\ handler[q].topup = s
    BY <1>9 DEF WalletInv, CompletedIsMinted, Completed
  <2>3. ASSUME NEW q \in Procs, On(q, "mint"), handler[q].topup = s, q # p
        PROVE  On(q, "mint")' /\ handler'[q].topup = s
    BY <1>4, <2>3 DEF On
  <2>4. CASE handler[p].topup = s
    BY <1>1, <1>8, <2>4 DEF GoesOn, EndsCredited, EndsFull, On
  <2> QED
    BY <1>8, <2>1, <2>2, <2>3, <2>4
<1>16. Paying'
  BY <1>1, <1>3, <1>4, IdlingRole DEF WalletInv, Paying, On
<1>17. RewardRows'
  BY <1>1, <1>8 DEF WalletInv, RewardRows, Rewarded
<1> QED
  BY <1>5, <1>6, <1>10, <1>11, <1>12, <1>13, <1>14, <1>15, <1>16, <1>17 DEF WalletInv

-------------------------------------------------------------------------------
(* Steps that leave the rows of the top-ups, and the packs credited, alone. *)
LEMMA OffMint ==
  ASSUME PaymentInv, WalletInv, NEW p \in Procs,
         purchase' = purchase, gateway' = gateway,
         handler' \in [Procs -> Role], OthersStay(p),
         job' \in [Procs -> MintJob], \A q \in Procs \ {p} : job'[q] = job[q],
         \/ handler'[p] = Idling /\ job'[p].at = "idle"
         \/ /\ handler'[p].at = "pay" /\ On(p, "reward") /\ job' = job
            /\ handler'[p].topup = handler[p].topup /\ handler'[p].byId = handler[p].byId,
         WalletTypes', \A t \in Topups : Credited(t)' <=> Credited(t),
         \A t \in Topups : <<"v3_pack", t>> \in claims' <=> <<"v3_pack", t>> \in claims,
         missed \subseteq missed',
         On(p, "mint") => Credited(handler[p].topup) \/ handler[p].topup \in missed',
         TriggerRows', Paying', RewardRows'
  PROVE  PaymentInv' /\ WalletInv' /\ RowsKept
<1>1. \A q \in Procs \ {p} : handler'[q] = handler[q]
  BY DEF OthersStay
<1>2. PaymentInv'
  BY <1>1, LeavesPayment DEF Leaves, On
<1>3. RowsKept
  BY SameRowsQuiet
<1>4. \A s \in Topups : (Completed(s)' <=> Completed(s)) /\ (Paid(s)' <=> Paid(s))
  BY DEF Completed, Paid
<1>5. MintJobs'
  <2> SUFFICES ASSUME NEW q \in Procs
               PROVE  /\ On(q, "mint")' <=> job'[q].at # "idle"
                      /\ On(q, "mint")' => job'[q].ref = handler'[q].topup
                      /\ job'[q].at \in {"mintLot", "mintStamp"} => Credited(job[q].ref)'
                      /\ handler'[q].at \in {"reward", "pay"} => Credited(handler[q].topup)'
    BY DEF MintJobs, At
  <2>1. \A s : Credited(s)' <=> \E r \in Rows' : r.ref = s
    BY DEF Credited, HasTransactionRef
  <2>2. /\ On(q, "mint") <=> job[q].at # "idle"
        /\ On(q, "mint") => job[q].ref = handler[q].topup
        /\ job[q].at \in {"mintLot", "mintStamp"} => Credited(job[q].ref)
        /\ handler[q].at \in {"reward", "pay"} => Credited(handler[q].topup)
    BY DEF WalletInv, MintJobs, At
  <2>3. /\ job[q].at \in {"mintLot", "mintStamp"} => job[q].ref \in Topups
        /\ handler[q].at \in {"reward", "pay"} => handler[q].topup \in Topups
    BY <2>2, HandledTopup DEF On
  <2>4. \A s \in Topups : Credited(s) => \E r \in Rows' : r.ref = s
    BY <2>1
  <2>5. CASE q # p
    <3>1. handler'[q] = handler[q] /\ job'[q] = job[q]
      BY <1>1, <2>5
    <3> QED
      BY <2>2, <2>3, <2>4, <3>1 DEF On, Credited, HasTransactionRef
  <2>6. CASE q = p /\ handler'[p] = Idling /\ job'[p].at = "idle"
    BY <2>6, IdlingRole DEF On
  <2>7. CASE q = p /\ handler'[p].at = "pay" /\ On(p, "reward") /\ job' = job
             /\ handler'[p].topup = handler[p].topup
    BY <2>2, <2>3, <2>4, <2>7 DEF On, Credited, HasTransactionRef
  <2> QED
    BY <2>5, <2>6, <2>7
<1>6. ClaimRows'
  BY DEF WalletInv, ClaimRows
<1>7. PaidRows'
  BY <1>4 DEF WalletInv, PaidRows
<1>8. CompletedIsMinted'
  <2> SUFFICES ASSUME NEW s \in Topups, Completed(s)'
               PROVE  \/ Credited(s)' \/ s \in missed'
                      \/ \E q \in Procs : On(q, "mint")' /\ handler'[q].topup = s
    BY DEF CompletedIsMinted, Completed
  <2>1. \/ Credited(s) \/ s \in missed \/ \E q \in Procs : On(q, "mint") /\ handler[q].topup = s
    BY <1>4 DEF WalletInv, CompletedIsMinted, Completed
  <2>2. ASSUME NEW q \in Procs, On(q, "mint"), handler[q].topup = s, q # p
        PROVE  On(q, "mint")' /\ handler'[q].topup = s
    BY <1>1, <2>2 DEF On
  <2> QED
    BY <2>1, <2>2
<1> QED
  BY <1>2, <1>3, <1>5, <1>6, <1>7, <1>8 DEF WalletInv

LEMMA NoneRewarded ==
  ASSUME WalletInv, referral # [status |-> "rewarded", lock |-> FALSE]
  PROVE  InviteRows \cap Rows = {} /\ UnitsIn(txns, InviteRows) = 0
<1>1. InviteRows \cap Rows = {}
  BY DEF WalletInv, RewardRows, Rewarded
<1>2. DOMAIN txns \cap InviteRows = {} /\ IsFiniteSet(DOMAIN txns)
  BY <1>1 DEF Rows, WalletInv, WalletTypes, Summable
<1> QED
  BY <1>1, <1>2, UnitsInEmpty

LEMMA RewardStep ==
  ASSUME PaymentInv, WalletInv, NEW p \in Procs, Reward(p)
  PROVE  PaymentInv' /\ WalletInv' /\ RowsKept
<1>1. /\ On(p, "reward") /\ ~On(p, "mint") /\ ~On(p, "pay") /\ PayTypes /\ WalletTypes
      /\ UNCHANGED <<purchase, gateway, missed, balance, txns, claims, now, job>>
  BY DEF Reward, On, PaymentInv, WalletInv, vars
<1>2. /\ \A t : Credited(t)' <=> Credited(t)
      /\ job \in [Procs -> MintJob] /\ Rows' = Rows
  BY <1>1 DEF Credited, HasTransactionRef, Rows, WalletTypes
<1>3. TriggerRows'
  BY <1>1, <1>2 DEF WalletInv, TriggerRows, Completed
<1>4. job[p].at = "idle"
  BY <1>1 DEF WalletInv, MintJobs, At
<1>5. CASE Done(p) /\ referral' = referral
  <2>1. handler' \in [Procs -> Role] /\ OthersStay(p) /\ handler'[p] = Idling
    BY <1>1, <1>5, DoneFacts
  <2>2. PaymentInv'
    BY <1>1, <2>1, LeavesPayment DEF Leaves, OthersStay
  <2>3. Quietly
    BY <1>1, <1>5, SameRowsQuiet, TurnQuiet DEF Quietly, MoneyKept
  <2> QED
    BY <2>2, <2>3, QuietWallet DEF Quietly
<1>6. ASSUME Open
      PROVE  /\ \A q \in Procs : ~On(q, "pay")
             /\ InviteRows \cap Rows = {} /\ UnitsIn(txns, InviteRows) = 0
  <2>1. referral # [status |-> "rewarded", lock |-> FALSE]
    BY <1>6 DEF Open
  <2> QED
    BY <1>6, <2>1, NoneRewarded DEF Open, WalletInv, Paying
<1>7. CASE /\ Open /\ referral' = [status |-> "skipped", lock |-> FALSE] /\ Done(p)
  <2>1. handler' \in [Procs -> Role] /\ OthersStay(p) /\ handler'[p] = Idling
    BY <1>1, <1>7, DoneFacts
  <2>2. WalletTypes'
    BY <1>1, <1>2, <1>7 DEF WalletTypes
  <2>3. Paying'
    BY <1>6, <1>7, <2>1, IdlingRole DEF Paying, On, OthersStay
  <2>4. RewardRows'
    <3>1. 0 <= RewardUnits
      BY TopupAssumption
    <3> QED
      BY <1>1, <1>2, <1>6, <1>7, <3>1 DEF RewardRows, Rewarded
  <2> QED
    BY <1>1, <1>2, <1>3, <1>4, <2>1, <2>2, <2>3, <2>4, OffMint
<1>8. CASE /\ Open
           /\ referral' = [referral EXCEPT !.lock = TRUE]
           /\ handler' = [handler EXCEPT ![p] =
                [@ EXCEPT !.at = "pay",
                          !.units = IF RewardUnits <= MaxBalance - balance THEN RewardUnits
                                    ELSE MaxBalance - balance]]
  <2> DEFINE units == IF RewardUnits <= MaxBalance - balance THEN RewardUnits
                      ELSE MaxBalance - balance
             h == [handler[p] EXCEPT !.at = "pay", !.units = units]
  <2>1. units \in Nat /\ units <= RewardUnits
    BY <1>1, TopupAssumption, MaxBalanceAssumption DEF WalletTypes
  <2>2. handler' = [handler EXCEPT ![p] = h]
    BY <1>8
  <2> HIDE DEF units
  <2>3. /\ h \in Role /\ h.at = "pay" /\ h.topup = handler[p].topup /\ h.byId = handler[p].byId
        /\ h.units = units
    <3>1. handler[p] \in Role
      BY <1>1 DEF PayTypes
    <3> QED
      BY <2>1, <3>1 DEF Role, Tasks
  <2> HIDE DEF h
  <2>4. /\ handler' \in [Procs -> Role] /\ OthersStay(p) /\ handler'[p] = h
    BY <1>1, <2>2, <2>3 DEF PayTypes, OthersStay
  <2>5. referral' = [status |-> "pending", lock |-> TRUE]
    BY <1>8 DEF Open
  <2>6. WalletTypes'
    BY <1>1, <1>2, <2>5 DEF WalletTypes
  <2>7. Paying'
    BY <1>6, <1>8, <2>1, <2>3, <2>4, <2>5 DEF Paying, On, OthersStay
  <2>8. RewardRows'
    <3>1. 0 <= RewardUnits
      BY TopupAssumption
    <3> QED
      BY <1>1, <1>2, <1>6, <1>8, <3>1 DEF RewardRows, Rewarded
  <2> QED
    BY <1>1, <1>2, <1>3, <2>3, <2>4, <2>6, <2>7, <2>8, OffMint
<1> QED
  BY <1>5, <1>7, <1>8 DEF Reward

LEMMA PayStep ==
  ASSUME PaymentInv, WalletInv, NEW p \in Procs, PayReward(p)
  PROVE  PaymentInv' /\ WalletInv' /\ RowsKept
<1> DEFINE units == handler[p].units
<1>1. /\ On(p, "pay") /\ ~On(p, "mint") /\ PayTypes /\ WalletTypes
      /\ UNCHANGED <<purchase, gateway, missed, job>> /\ Done(p)
  BY DEF PayReward, On, PaymentInv, WalletInv
<1>2. /\ referral = [status |-> "pending", lock |-> TRUE] /\ units <= RewardUnits
      /\ \A q \in Procs : On(q, "pay") => q = p
  BY <1>1 DEF WalletInv, Paying
<1>3. InviteRows \cap Rows = {} /\ UnitsIn(txns, InviteRows) = 0
  BY <1>2, NoneRewarded
<1>4. job[p].at = "idle" /\ job \in [Procs -> MintJob]
  BY <1>1 DEF WalletInv, MintJobs, At, WalletTypes
<1>5. /\ handler' \in [Procs -> Role] /\ OthersStay(p) /\ handler'[p] = Idling
  BY <1>1, DoneFacts
<1>6. Paying'
  BY <1>2, <1>5, IdlingRole DEF Paying, On, OthersStay
<1>7. units \in Nat /\ RewardUnits \in Nat /\ MaxBalance \in Nat /\ balance \in Nat
  BY <1>1, RoleParts, TopupAssumption, MaxBalanceAssumption DEF WalletTypes
<1>8. CASE /\ UNCHANGED repoVars
           /\ \/ referral' = [status |-> "rewarded", lock |-> FALSE]
              \/ referral' = [referral EXCEPT !.lock = FALSE]
  <2>1. /\ UNCHANGED <<txns, balance, claims, now>>
        /\ \A t : Credited(t)' <=> Credited(t)
        /\ Rows' = Rows
    BY <1>8 DEF repoVars, Credited, HasTransactionRef, Rows
  <2>2. TriggerRows'
    BY <1>1, <2>1 DEF WalletInv, TriggerRows, Completed
  <2>3. WalletTypes'
    <3> DEFINE Invitation == [status : {"none", "pending", "skipped", "rewarded"}, lock : BOOLEAN]
    <3>1. \A s \in {"pending", "rewarded"} : [status |-> s, lock |-> FALSE] \in Invitation
      OBVIOUS
    <3>2. referral' = [status |-> "rewarded", lock |-> FALSE] => referral' \in Invitation
      BY <3>1
    <3>3. referral' = [referral EXCEPT !.lock = FALSE] => referral' \in Invitation
      BY <1>1 DEF WalletTypes
    <3>4. referral' \in Invitation
      BY <1>8, <3>2, <3>3
    <3> QED
      BY <1>1, <2>1, <3>4 DEF WalletTypes
  <2>4. RewardRows'
    BY <1>3, <1>7, <2>1 DEF RewardRows, Rewarded
  <2> QED
    BY <1>1, <1>4, <1>5, <1>6, <2>1, <2>2, <2>3, <2>4, OffMint
<1>9. CASE /\ units > 0 /\ balance + units <= MaxBalance /\ balance' = balance + units
           /\ claims' = claims \cup {<<"invite_reward", InviteRef>>}
           /\ Record(Row("credit", "invite_reward", InviteRef, units))
           /\ referral' = [status |-> "rewarded", lock |-> FALSE] /\ now' = now
  <2> DEFINE row == InviteRow(units)
  <2>1. Record(row) /\ row.units = units /\ row.ref = InviteRef
    BY <1>9, RowForms DEF InviteRow
  <2>2. row \in InviteRows /\ row \in PaymentRows
    <3>1. units \in 0..RewardUnits
      BY <1>2, <1>7
    <3> QED
      BY <3>1, RowsApart DEF InviteRows
  <2> HIDE DEF row
  <2>3. /\ Summable(txns') /\ Rows' = Rows \cup {row} /\ Rows' \subseteq PaymentRows
        /\ \A K : UnitsIn(txns', K) =
                     IF row \in K THEN UnitsIn(txns, K) + row.units ELSE UnitsIn(txns, K)
    BY <1>1, <1>7, <2>1, <2>2, RecordFacts
  <2>4. \A t \in Topups : Credited(t)' <=> Credited(t)
    <3>1. \A t : /\ Credited(t) <=> \E r \in Rows : r.ref = t
                 /\ Credited(t)' <=> \E r \in Rows' : r.ref = t
      BY DEF Credited, HasTransactionRef
    <3>2. \A t \in Topups : row.ref # t
      BY <2>1, RefsDiffer
    <3> QED
      BY <2>3, <3>1, <3>2
  <2>5. TriggerRows'
    <3> SUFFICES ASSUME NEW s \in Topups
                 PROVE  /\ TriggerRow(s) \in Rows' <=> Completed(s)'
                        /\ UnitsIn(txns', {TriggerRow(s)}) = IF Completed(s)' THEN RawUnits ELSE 0
      BY DEF TriggerRows
    <3>1. row # TriggerRow(s)
      BY <2>2, RowsApart
    <3>2. UnitsIn(txns', {TriggerRow(s)}) = UnitsIn(txns, {TriggerRow(s)})
      BY <2>3, <3>1
    <3>3. Completed(s)' <=> Completed(s)
      BY <1>1 DEF Completed
    <3> QED
      BY <2>3, <3>1, <3>2, <3>3 DEF WalletInv, TriggerRows
  <2>6. balance' \in 0..MaxBalance
    <3> HIDE DEF units
    <3> QED
      BY <1>7, <1>9
  <2>7. WalletTypes'
    <3>1. referral' \in [status : {"none", "pending", "skipped", "rewarded"}, lock : BOOLEAN]
      BY <1>9
    <3> QED
      BY <1>1, <1>9, <2>3, <2>6, <3>1 DEF WalletTypes
  <2>8. RewardRows'
    <3>1. UnitsIn(txns', InviteRows) = UnitsIn(txns, InviteRows) + units
      BY <2>1, <2>2, <2>3
    <3>2. UnitsIn(txns', InviteRows) <= RewardUnits
      <4> HIDE DEF units
      <4> QED
        BY <1>2, <1>3, <1>7, <3>1
    <3>3. handler[p].topup \in Topups /\ Credited(handler[p].topup)
      BY <1>1, HandledTopup DEF WalletInv, MintJobs, On
    <3>4. \E t \in Topups : Credited(t)'
      <4>1. PICK t \in Topups : t = handler[p].topup
        BY <3>3
      <4> QED
        BY <2>4, <3>3, <4>1
    <3> QED
      BY <1>9, <3>2, <3>4 DEF RewardRows
  <2>9. \A t \in Topups : <<"v3_pack", t>> \in claims' <=> <<"v3_pack", t>> \in claims
    BY <1>9
  <2> QED
    BY <1>1, <1>4, <1>5, <1>6, <2>4, <2>5, <2>7, <2>8, <2>9, OffMint
<1> QED
  BY <1>8, <1>9 DEF PayReward

LEMMA EndsStep ==
  ASSUME PaymentInv, WalletInv, NEW p \in Procs, Ends(p)
  PROVE  PaymentInv' /\ WalletInv' /\ RowsKept
<1>1. /\ PayTypes /\ WalletTypes /\ ~On(p, "idle")
      /\ UNCHANGED <<purchase, gateway, txns, balance, claims, now>> /\ Done(p) /\ Finish(p)
      /\ referral' = IF On(p, "pay") THEN [referral EXCEPT !.lock = FALSE] ELSE referral
      /\ missed' = IF On(p, "mint") /\ ~Credited(handler[p].topup)
                   THEN missed \cup {handler[p].topup} ELSE missed
  BY DEF Ends, PaymentInv, WalletInv, repoVars
<1>2. handler[p].topup \in Topups
  BY <1>1, HandledTopup
<1>3. /\ handler' \in [Procs -> Role] /\ OthersStay(p) /\ handler'[p] = Idling
      /\ \A q \in Procs \ {p} : handler'[q] = handler[q]
  BY <1>1, DoneFacts DEF OthersStay
<1>4. /\ job' \in [Procs -> MintJob] /\ \A q \in Procs \ {p} : job'[q] = job[q]
      /\ job'[p].at = "idle"
  BY <1>1, FinishFacts
<1>5. /\ \A t : Credited(t)' <=> Credited(t)
      /\ Rows' = Rows
  BY <1>1 DEF Credited, HasTransactionRef, Rows
<1>6. TriggerRows'
  BY <1>1, <1>5 DEF WalletInv, TriggerRows, Completed
<1>7. WalletTypes'
  <2>1. referral' \in [status : {"none", "pending", "skipped", "rewarded"}, lock : BOOLEAN]
    BY <1>1 DEF WalletTypes
  <2>2. missed' \subseteq Topups
    BY <1>1, <1>2 DEF WalletTypes
  <2> QED
    BY <1>1, <1>4, <1>5, <2>1, <2>2 DEF WalletTypes
<1>8. Paying'
  <2>1. CASE On(p, "pay")
    <3>1. \A q \in Procs : On(q, "pay") => q = p
      BY <2>1 DEF WalletInv, Paying
    <3> QED
      BY <1>3, <3>1, IdlingRole DEF Paying, On
  <2>2. CASE ~On(p, "pay")
    BY <1>1, <1>3, <2>2, IdlingRole DEF WalletInv, Paying, On
  <2> QED
    BY <2>1, <2>2
<1>9. RewardRows'
  <2>1. CASE On(p, "pay")
    <3>1. referral # [status |-> "rewarded", lock |-> FALSE]
      BY <2>1 DEF WalletInv, Paying
    <3>2. InviteRows \cap Rows = {} /\ UnitsIn(txns, InviteRows) = 0
      BY <3>1, NoneRewarded
    <3>3. 0 <= RewardUnits
      BY TopupAssumption
    <3> QED
      BY <1>1, <1>5, <3>2, <3>3 DEF RewardRows, Rewarded
  <2>2. CASE ~On(p, "pay")
    BY <1>1, <1>5, <2>2 DEF WalletInv, RewardRows, Rewarded
  <2> QED
    BY <2>1, <2>2
<1>10. /\ missed \subseteq missed'
       /\ On(p, "mint") => Credited(handler[p].topup) \/ handler[p].topup \in missed'
  BY <1>1
<1> QED
  BY <1>1, <1>3, <1>4, <1>5, <1>6, <1>7, <1>8, <1>9, <1>10, OffMint

-------------------------------------------------------------------------------
(* Every step. *)
LEMMA TopupStep ==
  ASSUME PaymentInv, WalletInv, TopupNext
  PROVE  PaymentInv' /\ WalletInv' /\ RowsKept
<1>1. ASSUME PaymentInv', Quietly PROVE PaymentInv' /\ WalletInv' /\ RowsKept
  BY <1>1, QuietWallet DEF Quietly
<1>2. ASSUME NEW p \in Procs, NEW t \in Topups, Purchase(p, t)
      PROVE  PaymentInv' /\ WalletInv' /\ RowsKept
  BY <1>1, <1>2, PurchasePayment, PurchaseQuiet
<1>3. ASSUME NEW p \in Procs, NEW t \in Topups, Poll(p, t)
      PROVE  PaymentInv' /\ WalletInv' /\ RowsKept
  BY <1>1, <1>3, PollPayment, PollQuiet
<1>4. ASSUME NEW p \in Procs, NEW t \in Topups, NEW event \in Events(t), Deliver(p, t, event)
      PROVE  PaymentInv' /\ WalletInv' /\ RowsKept
  BY <1>1, <1>4, DeliverPayment, DeliverQuiet
<1>5. ASSUME NEW p \in Procs, Handle(p)
      PROVE  PaymentInv' /\ WalletInv' /\ RowsKept
  <2>1. CASE Create(p)
    BY <1>1, <2>1, CreatePayment, CreateQuiet
  <2>2. CASE Bind(p)
    BY <1>1, <2>2, BindPayment, BindQuiet
  <2>3. CASE Answer(p)
    BY <1>1, <2>3, AnswerPayment, AnswerQuiet
  <2>4. CASE Terminal(p)
    BY <1>1, <2>4, TerminalPayment, TerminalQuiet
  <2>5. CASE Complete(p) \/ MintStep(p)
    <3>1. ~On(p, "idle")
      BY <2>5 DEF Complete, MintStep, On
    <3>2. PICK t \in Topups : t = handler[p].topup
      BY <3>1, HandledTopup
    <3> QED
      BY <2>5, <3>2, CompleteStep, MintWallet
  <2>6. CASE Reward(p)
    BY <2>6, RewardStep
  <2>7. CASE PayReward(p)
    BY <2>7, PayStep
  <2> QED
    BY <1>5, <2>1, <2>2, <2>3, <2>4, <2>5, <2>6, <2>7 DEF Handle
<1>6. ASSUME NEW p \in Procs, Die(p) \/ Throw(p)
      PROVE  PaymentInv' /\ WalletInv' /\ RowsKept
  BY <1>6, EndsStep DEF Die, Throw
<1>7. ASSUME NEW t \in Topups, Gateway(t)
      PROVE  PaymentInv' /\ WalletInv' /\ RowsKept
  BY <1>1, <1>7, GatewaySteps, GatewayQuiet
<1> QED
  BY <1>2, <1>3, <1>4, <1>5, <1>6, <1>7 DEF TopupNext

LEMMA TopupStutter ==
  ASSUME PaymentInv, WalletInv, UNCHANGED topupVars
  PROVE  PaymentInv' /\ WalletInv' /\ RowsKept
<1>1. /\ purchase' = purchase /\ gateway' = gateway /\ handler' = handler
      /\ UNCHANGED <<referral, missed, vars>>
  BY DEF topupVars, payVars
<1>2. PaymentInv'
  BY <1>1, LeavesPayment DEF Leaves, PaymentInv, PayTypes
<1>3. Quietly
  BY <1>1, SameRowsQuiet, WalletUntouched DEF Quietly, StaysOff
<1> QED
  BY <1>2, <1>3, QuietWallet DEF Quietly

LEMMA TopupStart == TopupInit => PaymentInv /\ WalletInv
<1> SUFFICES ASSUME TopupInit PROVE PaymentInv /\ WalletInv
  OBVIOUS
<1>1. /\ purchase = [t \in Topups |-> [status |-> "none", bound |-> FALSE]]
      /\ gateway = [t \in Topups |-> "none"]
      /\ handler = [p \in Procs |-> Idling]
      /\ referral \in [status : {"none", "pending"}, lock : {FALSE}]
      /\ missed = {} /\ balance = 0 /\ txns = << >> /\ claims = {} /\ now = 0
      /\ job = [p \in Procs |-> Idle]
  BY DEF TopupInit, Init, RepoInit
<1>2. PayTypes
  BY <1>1, IdlingRole DEF PayTypes, PurchaseRow, GatewayState
<1>3. /\ \A p \in Procs : handler[p].at = "idle" /\ handler[p].topup = NoRef /\ ~handler[p].byId
      /\ \A t \in Topups : /\ purchase[t].status = "none" /\ ~purchase[t].bound
                           /\ gateway[t] = "none"
  BY <1>1, IdlingRole
<1>4. PaymentInv
  BY <1>2, <1>3 DEF PaymentInv, Handling, Serving, Serves, GatewayRows, PaidStages,
                    FailedStages, FailedRows, On
<1>5. Rows = {} /\ Summable(txns) /\ \A K : UnitsIn(txns, K) = 0
  <2>1. DOMAIN txns = {}
    BY <1>1
  <2>2. IsFiniteSet(DOMAIN txns)
    BY <2>1, FS_EmptySet
  <2>3. \A K : DOMAIN txns \cap K = {}
    BY <2>1
  <2>4. Summable(txns)
    BY <1>1, <2>1, <2>2 DEF Summable
  <2>5. \A K : UnitsIn(txns, K) = 0
    BY <2>2, <2>3, UnitsInEmpty
  <2> QED
    BY <2>1, <2>4, <2>5 DEF Rows
<1>6. \A t : ~Credited(t)
  BY <1>5 DEF Credited, HasTransactionRef
<1>7. WalletTypes
  <2>1. referral \in [status : {"none", "pending", "skipped", "rewarded"}, lock : BOOLEAN]
    BY <1>1
  <2>2. job \in [Procs -> MintJob]
    BY <1>1, IdleJob
  <2>3. balance \in 0..MaxBalance /\ now \in Nat
    BY <1>1, MaxBalanceAssumption
  <2> QED
    BY <1>1, <1>5, <2>1, <2>2, <2>3 DEF WalletTypes
<1>8. MintJobs
  BY <1>1, <1>3, IdleJob DEF MintJobs, On, At
<1>9. ClaimRows /\ PaidRows /\ CompletedIsMinted /\ Paying
  BY <1>1, <1>3, <1>6 DEF ClaimRows, PaidRows, CompletedIsMinted, Paying, Completed, On
<1>10. TriggerRows
  BY <1>3, <1>5 DEF TriggerRows, Completed
<1>11. RewardRows
  <2>1. 0 <= RewardUnits
    BY TopupAssumption
  <2> QED
    BY <1>5, <2>1 DEF RewardRows, Rewarded
<1> QED
  BY <1>4, <1>7, <1>8, <1>9, <1>10, <1>11 DEF WalletInv

(* The inductive invariant of the payments. *)
THEOREM PaymentsKept == TopupSpec => [](PaymentInv /\ WalletInv)
<1>1. TopupInit => PaymentInv /\ WalletInv
  BY TopupStart
<1>2. PaymentInv /\ WalletInv /\ [TopupNext]_topupVars => (PaymentInv /\ WalletInv)'
  BY TopupStep, TopupStutter
<1> QED
  BY <1>1, <1>2, PTL DEF TopupSpec

(* Only a webhook of CutLuy counts as one, and only its events are dropped. *)
HookInv ==
  /\ dropped \subseteq {t \in Topups : ~Chmaba(t)}
  /\ \A p \in Procs : handler[p].hook => handler[p].topup \in Topups /\ ~Chmaba(handler[p].topup)

(* A handler that is told nothing new about its webhook. *)
HooksKept ==
  \A p \in Procs :
    \/ handler'[p].hook = handler[p].hook /\ handler'[p].topup = handler[p].topup
    \/ ~handler'[p].hook

LEMMA TurnHooks ==
  ASSUME PayTypes, NEW p \in Procs, Done(p) \/ \E stage \in Tasks : Turn(p, stage)
  PROVE  HooksKept
<1>1. CASE Done(p)
  BY <1>1, DoneFacts DEF Idling, HooksKept, OthersStay
<1>2. ASSUME NEW stage \in Tasks, Turn(p, stage) PROVE HooksKept
  BY <1>2, TurnFacts DEF HooksKept, OthersStay
<1> QED
  BY <1>1, <1>2

LEMMA TakeHooks ==
  ASSUME PayTypes, NEW p \in Procs, NEW stage \in Tasks, NEW t \in Topups,
         NEW byId \in BOOLEAN, NEW target \in {"failed", "refunded"},
         Take(p, stage, t, byId, target), stage = "ask" \/ ~byId
  PROVE  HooksKept
BY TakeFacts DEF HooksKept, OthersStay

LEMMA DeliverHooks ==
  ASSUME PaymentInv, HookInv, NEW p \in Procs, NEW t \in Topups, NEW event \in Events(t),
         Deliver(p, t, event)
  PROVE  HookInv'
<1>1. PayTypes
  BY DEF PaymentInv
<1>2. CASE Chmaba(t)
  <2>1. PICK stage \in {"complete", "terminal"}, target \in {"failed", "refunded"} :
          Take(p, stage, t, FALSE, target)
    BY <1>2 DEF Deliver, SettleChmaba
  <2>2. stage \in Tasks
    BY DEF Tasks
  <2>3. HooksKept /\ dropped' = dropped
    BY <1>1, <1>2, <2>1, <2>2, TakeHooks DEF Deliver
  <2> QED
    BY <2>3 DEF HookInv, HooksKept
<1>3. CASE ~Chmaba(t)
  <2>1. dropped' \subseteq dropped \cup {t}
    BY <1>3 DEF Deliver, SettleCutluy
  <2>2. \/ handler' = handler
        \/ \E stage \in {"complete", "terminal"} : Take(p, stage, t, TRUE, "failed")
    BY <1>3 DEF Deliver, SettleCutluy
  <2>3. ASSUME NEW stage \in {"complete", "terminal"}, Take(p, stage, t, TRUE, "failed")
        PROVE  handler'[p].topup = t /\ OthersStay(p)
    <3>1. stage \in Tasks
      BY DEF Tasks
    <3> QED
      BY <1>1, <2>3, <3>1, TakeFacts
  <2>4. \A q \in Procs : handler'[q] = handler[q] \/ handler'[q].topup = t
    BY <2>2, <2>3 DEF OthersStay
  <2> QED
    BY <1>3, <2>1, <2>4 DEF HookInv
<1> QED
  BY <1>2, <1>3

LEMMA HandleHooks ==
  ASSUME PaymentInv, HookInv, NEW p \in Procs, Handle(p)
  PROVE  HookInv'
<1>1. PayTypes
  BY DEF PaymentInv
<1>2. dropped' = dropped \/ GivesUp(p)
  BY DEF Handle, Create, Bind, Answer, Terminal, Complete, MintStep, Reward, PayReward
<1>3. dropped' \subseteq {t \in Topups : ~Chmaba(t)}
  BY <1>2 DEF HookInv, GivesUp
<1>4. \A stage \in {"bind", "complete", "terminal", "mint", "reward"} : stage \in Tasks
  BY DEF Tasks
<1>5. ASSUME Done(p) \/ \E stage \in {"bind", "complete", "terminal", "mint", "reward"} : Turn(p, stage)
      PROVE  HooksKept
  BY <1>1, <1>4, <1>5, TurnHooks
<1>6. HooksKept
  <2>1. CASE Create(p) \/ Bind(p) \/ Answer(p) \/ Terminal(p)
    BY <1>5, <2>1 DEF Create, Bind, Answer, Terminal
  <2>2. CASE Complete(p)
    BY <1>5, <2>2 DEF Complete, StartMint
  <2>3. CASE MintStep(p)
    <3>1. handler' = handler => HooksKept
      BY DEF HooksKept
    <3> QED
      BY <1>5, <2>3, <3>1 DEF MintStep
  <2>4. CASE Reward(p)
    <3>1. CASE Done(p)
      BY <1>5, <3>1
    <3>2. ASSUME NEW units, handler' = [handler EXCEPT ![p] = [@ EXCEPT !.at = "pay", !.units = units]]
          PROVE  HooksKept
      <4> DEFINE paying == [handler[p] EXCEPT !.at = "pay", !.units = units]
      <4>1. handler[p] \in Role
        BY <1>1 DEF PayTypes
      <4>2. paying.hook = handler[p].hook /\ paying.topup = handler[p].topup
        BY <4>1 DEF Role
      <4>3. handler' = [handler EXCEPT ![p] = paying]
        BY <3>2
      <4> HIDE DEF paying
      <4>4. handler'[p] = paying /\ \A q \in Procs \ {p} : handler'[q] = handler[q]
        BY <1>1, <4>3 DEF PayTypes
      <4> QED
        BY <4>2, <4>4 DEF HooksKept
    <3> QED
      BY <2>4, <3>1, <3>2 DEF Reward
  <2>5. CASE PayReward(p)
    BY <1>5, <2>5 DEF PayReward
  <2> QED
    BY <2>1, <2>2, <2>3, <2>4, <2>5 DEF Handle
<1> QED
  BY <1>3, <1>6 DEF HookInv, HooksKept

LEMMA HookStep ==
  ASSUME PaymentInv, HookInv, [TopupNext]_topupVars
  PROVE  HookInv'
<1>1. PayTypes
  BY DEF PaymentInv
<1>2. ASSUME HooksKept, dropped' = dropped PROVE HookInv'
  BY <1>2 DEF HookInv, HooksKept
<1>3. ASSUME NEW p \in Procs, NEW t \in Topups, Purchase(p, t) \/ Poll(p, t)
      PROVE  HookInv'
  <2>1. Take(p, "create", t, FALSE, "failed") \/ Take(p, "ask", t, TRUE, "failed")
    BY <1>3 DEF Purchase, Poll
  <2>2. HooksKept
    BY <1>1, <2>1, TakeHooks DEF Tasks
  <2> QED
    BY <1>2, <1>3, <2>2 DEF Purchase, Poll
<1>4. ASSUME NEW p \in Procs, Die(p) \/ Throw(p)
      PROVE  HookInv'
  <2>1. HooksKept
    BY <1>1, <1>4, TurnHooks DEF Die, Throw, Ends
  <2>2. dropped' = dropped \/ GivesUp(p)
    BY <1>4 DEF Die, Throw
  <2> QED
    BY <2>1, <2>2 DEF HookInv, HooksKept, GivesUp
<1>5. ASSUME NEW t \in Topups, Gateway(t)
      PROVE  HookInv'
  <2>1. handler' = handler /\ dropped' = dropped
    BY <1>5 DEF Gateway, Pay, Expire, Fail, Supersede, Reverse, Move
  <2> QED
    BY <2>1 DEF HookInv
<1>6. CASE UNCHANGED topupVars
  BY <1>6 DEF topupVars, payVars, HookInv
<1> QED
  BY <1>3, <1>4, <1>5, <1>6, DeliverHooks, HandleHooks DEF TopupNext

(* A handler has a job on the wallet only while it mints, holds the            *)
(* invitation only while it pays, and goes by a payment id only on a row that  *)
(* carries one, whatever dies or is delivered again in between; and only       *)
(* CutLuy's events are dropped.                                                *)
THEOREM TopupTypesAlways == TopupSpec => []TopupTypeOK
<1>1. PaymentInv /\ WalletInv /\ HookInv => TopupTypeOK
  <2> SUFFICES ASSUME PaymentInv, WalletInv, HookInv PROVE TopupTypeOK
    OBVIOUS
  <2>1. /\ purchase \in [Topups -> [status : {"none", "pending", "completed", "failed", "refunded"},
                                    bound : BOOLEAN]]
        /\ gateway \in [Topups -> {"none", "open", "expired", "paid", "failed", "superseded",
                                   "reversed"}]
        /\ missed \subseteq Topups /\ balance \in 0..MaxBalance
    BY DEF PaymentInv, PayTypes, PurchaseRow, GatewayState, WalletInv, WalletTypes
  <2>2. \A p \in Procs :
          /\ ~On(p, "idle") <=> handler[p].topup \in Topups
          /\ handler[p].byId => purchase[handler[p].topup].bound
    BY HandledTopup, RefsDiffer DEF PaymentInv, Handling
  <2>3. \A p \in Procs :
          /\ On(p, "mint") <=> ~At(p, "idle")
          /\ On(p, "pay") => referral = [status |-> "pending", lock |-> TRUE]
    BY DEF WalletInv, MintJobs, Paying
  <2>4. dropped \subseteq {t \in Topups : ~Chmaba(t)}
    BY DEF HookInv
  <2> QED
    BY <2>1, <2>2, <2>3, <2>4 DEF TopupTypeOK
<1>2. TopupInit => HookInv
  BY DEF TopupInit, HookInv, Idling
<1>3. PaymentInv /\ HookInv /\ [TopupNext]_topupVars => HookInv'
  BY HookStep
<1> QED
  BY <1>1, <1>2, <1>3, PaymentsKept, PTL DEF TopupSpec

(* Every credit of a pack, the trigger's and the mint's, is of a payment the   *)
(* gateway confirmed, at CutLuy of a completed row too, though                 *)
(* _fulfill_topup_payment goes on to the mint whether or not its UPDATE        *)
(* matched a row.                                                              *)
THEOREM CreditIsPaidForAlways == TopupSpec => []CreditIsPaidFor
<1>1. PaymentInv /\ WalletInv => CreditIsPaidFor
  <2> SUFFICES ASSUME PaymentInv, WalletInv, NEW t \in Topups,
                      Credited(t) \/ HasTransactionRef(RowRef(t))
               PROVE  Paid(t) /\ (Chmaba(t) \/ Completed(t))
    BY DEF CreditIsPaidFor, Paid, Completed
  <2>1. HasTransactionRef(RowRef(t)) => Completed(t)
    BY RowRefs DEF WalletInv, WalletTypes, TriggerRows, HasTransactionRef
  <2> QED
    BY <2>1 DEF WalletInv, PaidRows
<1> QED
  BY <1>1, PaymentsKept, PTL

(* A completed row has exactly one credit of the trigger and no other row has  *)
(* one, however many webhooks and polls try to complete it.                    *)
THEOREM TriggerCreditsOnceAlways == TopupSpec => []TriggerCreditsOnce
<1>1. PaymentInv /\ WalletInv => TriggerCreditsOnce
  <2> SUFFICES ASSUME PaymentInv, WalletInv, NEW t \in Topups
               PROVE  /\ Completed(t) <=> {r \in Rows : r.ref = RowRef(t)} # {}
                      /\ UnitsOf({r \in Rows : r.ref = RowRef(t)}) \in {0, RawUnits}
    BY DEF TriggerCreditsOnce, Completed
  <2>1. {r \in Rows : r.ref = RowRef(t)} = DOMAIN txns \cap {TriggerRow(t)}
    BY RowRefs DEF WalletInv, WalletTypes, Rows
  <2>2. UnitsOf({r \in Rows : r.ref = RowRef(t)}) = UnitsIn(txns, {TriggerRow(t)})
    BY <2>1 DEF UnitsOf, UnitsIn
  <2>3. /\ TriggerRow(t) \in Rows <=> Completed(t)
        /\ UnitsIn(txns, {TriggerRow(t)}) = IF Completed(t) THEN RawUnits ELSE 0
    BY DEF WalletInv, TriggerRows
  <2> QED
    BY <2>1, <2>2, <2>3 DEF Rows
<1> QED
  BY <1>1, PaymentsKept, PTL

(* A completed top-up is credited, or is being minted, or lost its mint to a   *)
(* crash or a full wallet: every UPDATE to completed is followed by the mint.  *)
THEOREM CompletedIsMintedAlways == TopupSpec => []CompletedIsMinted
<1>1. PaymentInv /\ WalletInv => CompletedIsMinted
  BY DEF WalletInv
<1> QED
  BY <1>1, PaymentsKept, PTL

(* The invitee is rewarded at most once, for a pack that was credited, and     *)
(* exactly when the invitation closes: apply_referral_reward holds its row     *)
(* locked while it credits the wallet.                                         *)
THEOREM RewardClosesInviteAlways == TopupSpec => []RewardClosesInvite
<1>1. PaymentInv /\ WalletInv => RewardClosesInvite
  <2> SUFFICES ASSUME PaymentInv, WalletInv, {r \in Rows : r.ref = InviteRef} # {}
               PROVE  /\ referral = [status |-> "rewarded", lock |-> FALSE]
                      /\ \E t \in Topups : Credited(t)
                      /\ UnitsOf({r \in Rows : r.ref = InviteRef}) <= RewardUnits
    BY DEF RewardClosesInvite
  <2>1. Topups # {} => {r \in Rows : r.ref = InviteRef} = DOMAIN txns \cap InviteRows
    BY RowRefs DEF WalletInv, WalletTypes, Rows
  <2>2. Topups = {} => {r \in Rows : r.ref = InviteRef} = DOMAIN txns \cap InviteRows
    BY DEF WalletInv, WalletTypes, Rows, PaymentRows, InviteRows, InviteRow
  <2>3. {r \in Rows : r.ref = InviteRef} = DOMAIN txns \cap InviteRows
    BY <2>1, <2>2
  <2>4. UnitsOf({r \in Rows : r.ref = InviteRef}) = UnitsIn(txns, InviteRows)
    BY <2>3 DEF UnitsOf, UnitsIn
  <2>5. Rewarded
    BY <2>3 DEF Rewarded, Rows
  <2> QED
    BY <2>4, <2>5 DEF WalletInv, RewardRows
<1> QED
  BY <1>1, PaymentsKept, PTL

(* No stale failure takes a completed row back, a refunded row is final and a  *)
(* failed one at most promoted: each UPDATE asks for a pending row, and        *)
(* whoever acts on an older read matches none.                                 *)
THEOREM SettledRowKeptAlways == TopupSpec => SettledRowKept
<1> DEFINE Kept(t) ==
      LET before == purchase[t].status
          after  == purchase'[t].status
      IN  /\ before = "completed" => after \in {"completed", "refunded"}
          /\ before = "refunded" => after = "refunded"
          /\ before = "failed" => after \in {"failed", "completed"}
<1>1. PaymentInv /\ WalletInv /\ [TopupNext]_topupVars => [\A t \in Topups : Kept(t)]_topupVars
  BY TopupStep DEF RowsKept
<1> QED
  BY <1>1, PaymentsKept, PTL DEF TopupSpec, SettledRowKept

-------------------------------------------------------------------------------
(* What a step does to the money at once: nothing, or one credit whose key no  *)
(* row has, with the row, the claim and the balance together.                  *)
SameMoney == UNCHANGED <<txns, claims, balance>>

Adds(row) == Record(row) /\ balance' = balance + row.units /\ balance' <= MaxBalance

AddsPack(t) ==
  /\ <<"v3_pack", t>> \notin claims
  /\ Adds(PackRow(t)) /\ claims' = claims \cup {<<"v3_pack", t>>}

AddsTrigger(t) == ~Completed(t) /\ Adds(TriggerRow(t)) /\ claims' = claims

AddsReward(units) ==
  /\ InviteRows \cap Rows = {}
  /\ Adds(InviteRow(units)) /\ claims' = claims \cup {<<"invite_reward", InviteRef>>}

MoneyStep ==
  \/ SameMoney
  \/ \E t \in Topups : AddsPack(t) \/ AddsTrigger(t)
  \/ \E units \in 1..RewardUnits : AddsReward(units)

LEMMA CompleteMoney ==
  ASSUME PaymentInv, WalletInv, NEW p \in Procs, NEW t \in Topups, t = handler[p].topup,
         Complete(p)
  PROVE  MoneyStep
<1>1. CASE UNCHANGED <<balance, txns>>
  BY <1>1 DEF Complete, MoneyStep, SameMoney
<1>2. CASE /\ Matches(p) /\ TriggerFires(t) /\ balance + RawUnits <= MaxBalance
           /\ balance' = balance + RawUnits
           /\ Record(Row("credit", "topup_purchase", RowRef(t), RawUnits))
  <2>1. Record(TriggerRow(t)) /\ TriggerRow(t).units = RawUnits
    BY <1>2, RowForms DEF TriggerRow
  <2>2. ~Completed(t)
    BY <1>2 DEF TriggerFires, Completed
  <2>3. claims' = claims
    BY DEF Complete
  <2>4. AddsTrigger(t)
    BY <1>2, <2>1, <2>2, <2>3 DEF AddsTrigger, Adds
  <2> QED
    BY <2>4 DEF MoneyStep
<1> QED
  BY <1>1, <1>2 DEF Complete

LEMMA MintMoney ==
  ASSUME PaymentInv, WalletInv, NEW p \in Procs, NEW t \in Topups, t = handler[p].topup,
         MintStep(p)
  PROVE  MoneyStep
<1>1. On(p, "mint") /\ Mint(p) /\ job[p].ref = t
  BY DEF MintStep, WalletInv, MintJobs
<1>2. CASE UNCHANGED <<balance, txns, claims>>
  BY <1>2 DEF MoneyStep, SameMoney
<1>3. CASE Grant(PackUnits, "v3_pack", t)
  <2>1. Record(PackRow(t)) /\ PackRow(t).units = PackUnits
    BY <1>3, RowForms DEF Grant, PackRow
  <2>2. AddsPack(t)
    BY <1>3, <2>1 DEF Grant, Claimable, AddsPack, Adds
  <2> QED
    BY <2>2 DEF MoneyStep
<1> QED
  BY <1>1, <1>2, <1>3 DEF Mint, MintCheck, MintGrant, MintLot, MintStamp, repoVars

LEMMA PayMoney ==
  ASSUME PaymentInv, WalletInv, NEW p \in Procs, PayReward(p)
  PROVE  MoneyStep
<1> DEFINE units == handler[p].units
<1>1. CASE UNCHANGED repoVars
  BY <1>1 DEF MoneyStep, SameMoney, repoVars
<1>2. CASE /\ units > 0 /\ balance + units <= MaxBalance
           /\ balance' = balance + units
           /\ claims' = claims \cup {<<"invite_reward", InviteRef>>}
           /\ Record(Row("credit", "invite_reward", InviteRef, units))
  <2>1. /\ On(p, "pay") /\ referral = [status |-> "pending", lock |-> TRUE]
        /\ units <= RewardUnits
    BY DEF PayReward, WalletInv, Paying
  <2>2. units \in Nat
    BY RoleParts DEF PaymentInv
  <2>3. units \in 1..RewardUnits
    BY <1>2, <2>1, <2>2, TopupAssumption
  <2>4. InviteRows \cap Rows = {}
    BY <2>1, NoneRewarded
  <2>5. Record(InviteRow(units)) /\ InviteRow(units).units = units
    BY <1>2, RowForms DEF InviteRow
  <2>6. AddsReward(units)
    BY <1>2, <2>4, <2>5 DEF AddsReward, Adds
  <2> QED
    BY <2>3, <2>6 DEF MoneyStep
<1> QED
  BY <1>1, <1>2 DEF PayReward

LEMMA StepMoney ==
  ASSUME PaymentInv, WalletInv, [TopupNext]_topupVars
  PROVE  MoneyStep
<1>1. ASSUME NEW p \in Procs, NEW t \in Topups,
             \/ Purchase(p, t) \/ Poll(p, t) \/ \E event \in Events(t) : Deliver(p, t, event)
      PROVE  SameMoney
  BY <1>1 DEF Purchase, Poll, Deliver, SameMoney, vars
<1>2. ASSUME NEW p \in Procs, Handle(p)
      PROVE  MoneyStep
  <2>1. CASE Create(p) \/ Bind(p) \/ Answer(p) \/ Terminal(p) \/ Reward(p)
    BY <2>1 DEF Create, Bind, Answer, Terminal, Reward, SameMoney, MoneyStep, vars
  <2>2. CASE Complete(p) \/ MintStep(p)
    <3>1. ~On(p, "idle")
      BY <2>2 DEF Complete, MintStep, On
    <3>2. PICK t \in Topups : t = handler[p].topup
      BY <3>1, HandledTopup
    <3> QED
      BY <2>2, <3>2, CompleteMoney, MintMoney
  <2> QED
    BY <1>2, <2>1, <2>2, PayMoney DEF Handle
<1>3. ASSUME NEW p \in Procs, Die(p) \/ Throw(p)
      PROVE  SameMoney
  BY <1>3 DEF Die, Throw, Ends, SameMoney, repoVars
<1>4. ASSUME NEW t \in Topups, Gateway(t)
      PROVE  SameMoney
  BY <1>4 DEF Gateway, Pay, Expire, Fail, Supersede, Reverse, Move, SameMoney, vars
<1>5. CASE UNCHANGED topupVars
  BY <1>5 DEF topupVars, vars, SameMoney, MoneyStep
<1> QED
  BY <1>1, <1>2, <1>3, <1>4, <1>5 DEF TopupNext, MoneyStep

(* A pack that was credited is claimed, which is what a second mint meets. *)
PackClaimed == \A t \in Topups : Credited(t) => <<"v3_pack", t>> \in claims

LEMMA PackStaysClaimed ==
  ASSUME WalletInv, PackClaimed, MoneyStep
  PROVE  PackClaimed'
<1>1. WalletTypes
  BY DEF WalletInv
<1>2. \A t : (Credited(t) <=> \E r \in Rows : r.ref = t) /\ (Credited(t)' <=> \E r \in Rows' : r.ref = t)
  BY DEF Credited, HasTransactionRef
<1>3. CASE SameMoney
  BY <1>3 DEF SameMoney, PackClaimed, Credited, HasTransactionRef, Rows
<1>4. ASSUME NEW row \in PaymentRows, row.units \in Nat, Record(row), claims \subseteq claims',
             \A t \in Topups : row.ref = t => <<"v3_pack", t>> \in claims'
      PROVE  PackClaimed'
  <2>1. Rows' = Rows \cup {row}
    BY <1>1, <1>4, RecordFacts
  <2> QED
    BY <1>2, <1>4, <2>1 DEF PackClaimed
<1>5. ASSUME NEW t \in Topups, AddsPack(t) PROVE PackClaimed'
  <2>1. PackRow(t) \in PaymentRows /\ PackRow(t).units \in Nat /\ PackRow(t).ref = t
    BY RowsApart, LifecycleAssumption DEF PackRow
  <2> QED
    BY <1>4, <1>5, <2>1 DEF AddsPack, Adds
<1>6. ASSUME NEW t \in Topups, AddsTrigger(t) PROVE PackClaimed'
  <2>1. TriggerRow(t) \in PaymentRows /\ TriggerRow(t).units \in Nat /\ TriggerRow(t).ref = RowRef(t)
    BY RowsApart, TopupAssumption DEF TriggerRow
  <2>2. \A s \in Topups : RowRef(t) # s
    BY RefsDiffer
  <2> QED
    BY <1>4, <1>6, <2>1, <2>2 DEF AddsTrigger, Adds
<1>7. ASSUME NEW units \in 1..RewardUnits, AddsReward(units) PROVE PackClaimed'
  <2>1. InviteRow(units) \in InviteRows /\ InviteRow(units).units \in Nat /\ InviteRow(units).ref = InviteRef
    BY TopupAssumption DEF InviteRow, InviteRows
  <2>2. \A s \in Topups : InviteRef # s
    BY RefsDiffer
  <2> QED
    BY <1>4, <1>7, <2>1, <2>2, RowsApart DEF AddsReward, Adds
<1> QED
  BY <1>3, <1>5, <1>6, <1>7 DEF MoneyStep

-------------------------------------------------------------------------------
(* The abstract account under the payments: every row is a credit under a key. *)
Honoured      == {<<r.reason, r.ref>> : r \in Keyed}
ManualCredits == [r \in Unkeyed |-> txns[r]]

LEMMA PaymentRowsKeyed ==
  ASSUME NEW r \in PaymentRows
  PROVE  r.direction = "credit" /\ r.ref # NoRef /\ r.units \in Nat
<1>1. \A t \in Topups : /\ PackRow(t).direction = "credit" /\ PackRow(t).ref = t
                        /\ PackRow(t).units = PackUnits
                        /\ TriggerRow(t).direction = "credit" /\ TriggerRow(t).ref = RowRef(t)
                        /\ TriggerRow(t).units = RawUnits
  BY DEF PackRow, TriggerRow
<1>2. \A u \in InviteRows : u.direction = "credit" /\ u.ref = InviteRef /\ u.units \in Nat
  BY TopupAssumption DEF InviteRows, InviteRow
<1>3. NoRef # InviteRef /\ NoRef \notin Topups /\ \A t \in Topups : NoRef # RowRef(t)
  BY PaymentRefAssumption, RefAssumption DEF InviteRef, RowRef
<1> QED
  BY <1>1, <1>2, <1>3, LifecycleAssumption, TopupAssumption DEF PaymentRows

LEMMA NewRowHonours ==
  ASSUME WalletTypes, NEW row \in PaymentRows, row.units > 0, Adds(row),
         \A r \in Rows : ~(r.reason = row.reason /\ r.ref = row.ref)
  PROVE  Account!Honour
<1> DEFINE key == <<row.reason, row.ref>>
<1>1. row.direction = "credit" /\ row.ref # NoRef /\ row.units \in Nat
  BY PaymentRowsKeyed
<1>2. Rows' = Rows \cup {row} /\ Rows' \subseteq PaymentRows /\ Rows \subseteq PaymentRows
  BY <1>1, RecordFacts DEF Adds, WalletTypes
<1>3. \A r \in Rows \cup Rows' : r.direction = "credit" /\ r.ref # NoRef
  BY <1>2, PaymentRowsKeyed
<1>4. Keyed' = Keyed \cup {row} /\ Keyed = Rows /\ Unkeyed = {} /\ Unkeyed' = {}
  BY <1>1, <1>2, <1>3 DEF Keyed, Unkeyed
<1>5. Honoured' = Honoured \cup {key}
  BY <1>4 DEF Honoured
<1>6. key \notin Honoured
  BY <1>4 DEF Honoured
<1> HIDE DEF key
<1>7. \E k \in Honoured' : k \notin Honoured /\ Honoured' = Honoured \cup {k}
  BY <1>5, <1>6
<1>8. ManualCredits' = ManualCredits
  BY <1>4 DEF ManualCredits
<1>9. balance' \in 0..MaxBalance /\ balance' > balance
  BY <1>1, MaxBalanceAssumption DEF Adds, WalletTypes
<1> QED
  BY <1>7, <1>8, <1>9 DEF Account!Honour, Honoured, ManualCredits

LEMMA MoneyRefines ==
  ASSUME WalletInv, PackClaimed, MoneyStep
  PROVE  [Account!Move]_(Account!account)
<1>1. WalletTypes /\ Rows \subseteq PaymentRows
  BY DEF WalletInv, WalletTypes
<1>2. CASE SameMoney
  BY <1>2 DEF SameMoney, Account!account, Keyed, Unkeyed, Rows
<1>3. ASSUME NEW t \in Topups, AddsPack(t) PROVE Account!Honour
  <2>1. /\ PackRow(t) \in PaymentRows /\ PackRow(t).units > 0 /\ PackRow(t).ref = t
    BY RowsApart, LifecycleAssumption DEF PackRow
  <2>2. \A r \in Rows : r.ref # t
    BY <1>3 DEF AddsPack, PackClaimed, Credited, HasTransactionRef
  <2> QED
    BY <1>1, <1>3, <2>1, <2>2, NewRowHonours DEF AddsPack
<1>4. ASSUME NEW t \in Topups, AddsTrigger(t) PROVE Account!Honour
  <2>1. /\ TriggerRow(t) \in PaymentRows /\ TriggerRow(t).units > 0 /\ TriggerRow(t).ref = RowRef(t)
    BY RowsApart, TopupAssumption DEF TriggerRow
  <2>2. TriggerRow(t) \notin Rows
    BY <1>4 DEF AddsTrigger, WalletInv, TriggerRows
  <2>3. \A r \in Rows : r.ref # RowRef(t)
    BY <1>1, <2>2, RowRefs
  <2> QED
    BY <1>1, <1>4, <2>1, <2>3, NewRowHonours DEF AddsTrigger
<1>5. ASSUME NEW units \in 1..RewardUnits, AddsReward(units) PROVE Account!Honour
  <2>1. /\ InviteRow(units) \in InviteRows /\ InviteRow(units).units > 0
        /\ InviteRow(units).ref = InviteRef /\ InviteRow(units).reason = "invite_reward"
    BY TopupAssumption DEF InviteRow, InviteRows
  <2>2. \A r \in PaymentRows \ InviteRows : r.reason # "invite_reward"
    BY DEF PaymentRows, PackRow, TriggerRow
  <2>3. \A r \in Rows : r.reason # "invite_reward"
    BY <1>1, <1>5, <2>2 DEF AddsReward
  <2> QED
    BY <1>1, <1>5, <2>1, <2>3, NewRowHonours, RowsApart DEF AddsReward
<1> QED
  BY <1>2, <1>3, <1>4, <1>5 DEF MoneyStep, Account!Move

(* The payments implement the abstract account on the same wallet: the pack,   *)
(* the trigger's credit and the reward each come in once under their own key,  *)
(* whatever is delivered again, dies or races, and nothing else adds credits.  *)
THEOREM PaymentsImplementAccount == TopupSpec => ImplementsAccount
<1>1. TopupInit => Account!Open
  BY DEF TopupInit, Init, RepoInit, Account!Open, Keyed, Unkeyed, Rows
<1>2. TopupInit => PackClaimed
  BY DEF TopupInit, Init, RepoInit, PackClaimed, Credited, HasTransactionRef, Rows
<1>3. PaymentInv /\ WalletInv /\ PackClaimed /\ [TopupNext]_topupVars => PackClaimed'
  BY StepMoney, PackStaysClaimed
<1>4. TopupSpec => []PackClaimed
  BY <1>2, <1>3, PaymentsKept, PTL DEF TopupSpec
<1>5. PaymentInv /\ WalletInv /\ PackClaimed /\ [TopupNext]_topupVars
      => [Account!Move]_(Account!account)
  BY StepMoney, MoneyRefines
<1> QED
  BY <1>1, <1>4, <1>5, PaymentsKept, PTL DEF TopupSpec, ImplementsAccount, Account!AccountSpec
===============================================================================
