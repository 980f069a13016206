---------------------------- MODULE BillingProofs ---------------------------
(***************************************************************************)
(* Proofs about Billing, for every set of requests and of subscriptions.   *)
(***************************************************************************)
EXTENDS Billing, TLAPS

USE NullAssumption, TaggedAssumption

-----------------------------------------------------------------------------
(* Type correctness: the requests, the row, and Stripe's side, each with   *)
(* the few ways in which the actions change them.                          *)

Requests_ == req \in [Requests -> RequestState]
Row_ == row \in Subscription \cup {Null}
Stripe_ ==
  /\ stripe \in [Subs -> StripeStatus]
  /\ events \subseteq Event
  /\ owed \subseteq Subs
History_ == payments \subseteq Charges /\ confirmed \in [Charges -> Nat]

LEMMA TypeParts == TypeOK <=> Requests_ /\ Row_ /\ Stripe_ /\ History_
BY DEF TypeOK, Requests_, Row_, Stripe_, History_

LEMMA StepTypes ==
  ASSUME Requests_, NEW r \in Requests, NEW step, NEW sub, NEW type,
         [pc |-> step, sub |-> sub, type |-> type] \in RequestState,
         req' = [req EXCEPT ![r] = [pc |-> step, sub |-> sub, type |-> type]]
  PROVE  Requests_'
BY DEF Requests_

LEMMA PcTypes ==
  ASSUME Requests_, NEW r \in Requests, NEW step,
         \/ step \in OtherSteps /\ req[r].pc \in OtherSteps
         \/ step \in CancelSteps /\ req[r].pc \in CancelSteps
         \/ step \in PaidSteps /\ req[r].pc \in PaidSteps,
         req' = [req EXCEPT ![r].pc = step]
  PROVE  Requests_'
<1>1. [req[r] EXCEPT !.pc = step] \in RequestState
  BY DEF Requests_, RequestState, OtherSteps, CancelSteps, PaidSteps
<1> QED BY <1>1 DEF Requests_

LEMMA RequestAt ==
  ASSUME Requests_, NEW r \in Requests
  PROVE  /\ req[r] \in RequestState
         /\ req[r].pc \in CancelSteps => req[r].sub \in Subs
         /\ req[r].pc \in PaidSteps => req[r].sub \in Subs /\ req[r].type = "checkout"
         /\ At(r, "invoice.record") => req[r].sub \in Subs /\ req[r].type = "invoice"
BY DEF Requests_, RequestState, OtherSteps, CancelSteps, PaidSteps, At

LEMMA ChargeTypes ==
  ASSUME Requests_, NEW r \in Requests,
         req[r].pc \in PaidSteps \cup {"invoice.record"}
  PROVE  Charge(r) \in Charges
BY RequestAt DEF Charge, Charges, On, At

LEMMA InitTypes == Init => TypeOK
BY DEF Init, TypeOK, Idle, RequestState, OtherSteps, StripeStatus, Running

(* How the requests change.                                                *)
LEMMA RequestTypes ==
  ASSUME TypeOK, [Next]_vars
  PROVE  Requests_'
<1>0. Requests_ /\ Row_
  BY TypeParts
<1>1. CASE UNCHANGED req
  BY <1>0, <1>1 DEF Requests_
<1>f. ASSUME NEW r \in Requests, Finish(r) PROVE Requests_'
  BY <1>0, <1>f, StepTypes DEF Finish, Idle, RequestState, OtherSteps
<1>2. ASSUME NEW r \in Requests, Read(r) \/ Checkout(r) PROVE Requests_'
  <2>1. PICK step \in OtherSteps : Begin(r, step)
    BY <1>2 DEF Read, Checkout, OtherSteps
  <2> QED BY <1>0, <2>1, PcTypes DEF Begin, At, OtherSteps
<1>3. ASSUME NEW r \in Requests, Cancel(r) PROVE Requests_'
  BY <1>0, <1>3, StepTypes
     DEF Cancel, BeginOn, RequestState, CancelSteps, Row_, Subscription
<1>4. ASSUME NEW r \in Requests, NEW s \in Subs, PaidFind(r, s) \/ InvoiceFind(r, s)
      PROVE  Requests_'
  BY <1>0, <1>4, StepTypes
     DEF PaidFind, InvoiceFind, BeginOn, RequestState, PaidSteps, On
<1>5. ASSUME NEW r \in Requests, OwnerStep(r) PROVE Requests_'
  <2>1. CASE Finish(r)
    BY <1>f, <2>1
  <2>2. CASE ~Finish(r)
    <3>1. PICK step \in {"idle", "checkout.customer", "checkout.session",
                         "cancel.update"} :
            /\ Goto(r, step)
            /\ \/ step \in OtherSteps /\ req[r].pc \in OtherSteps
               \/ step \in CancelSteps /\ req[r].pc \in CancelSteps
      BY <1>5, <2>2 DEF OwnerStep, ReadInsert, CheckoutInsert, CheckoutCustomer,
           CheckoutSession, CancelAtStripe, CancelUpdate, InsertRow, At,
           OtherSteps, CancelSteps
    <3> QED BY <1>0, <3>1, PcTypes DEF Goto
  <2> QED BY <2>1, <2>2
<1>6. ASSUME NEW r \in Requests, WebhookStep(r) PROVE Requests_'
  <2>1. CASE Finish(r)
    BY <1>f, <2>1
  <2>2. CASE ~Finish(r)
    <3>1. PICK step \in PaidSteps : Goto(r, step) /\ req[r].pc \in PaidSteps
      BY <1>6, <2>2 DEF WebhookStep, PaidActivate, PaidRecord, PaidConfirm,
           InvoiceRecord, At, PaidSteps
    <3> QED BY <1>0, <3>1, PcTypes DEF Goto
  <2> QED BY <2>1, <2>2
<1>7. ASSUME NEW r \in Requests, Abort(r) PROVE Requests_'
  BY <1>f, <1>7 DEF Abort
<1> QED BY <1>1, <1>2, <1>3, <1>4, <1>5, <1>6, <1>7
     DEF Next, vars, Pay, Renew, End, Deleted, Change, Updated

-----------------------------------------------------------------------------
(* The inductive invariant.                                                *)

(* A checkout goes on only when the row is there.                          *)
RowFirst == \A r \in Requests : At(r, "checkout.customer") => row # Null

(* The organization is on a subscription, if not a running one.            *)
OnSubscription == row # Null /\ row.sub # Null /\ row.customer

ActivatedFirst ==
  \A r \in Requests : req[r].pc \in {"paid.record", "paid.confirm"} => OnSubscription

CancelReported ==
  \A r \in Requests : At(r, "cancel.update") => On("deleted", req[r].sub) \in events

(* A delivery confirms what it has recorded, alone and for the first time. *)
ChargesHandled ==
  /\ payments \subseteq events
  /\ \A c \in Charges \ payments : confirmed[c] = 0
  /\ \A r \in Requests :
       req[r].pc \in PaidSteps \cup {"invoice.record"} => Charge(r) \in events
  /\ \A r \in Requests : At(r, "paid.confirm") =>
       /\ Charge(r) \in payments
       /\ confirmed[Charge(r)] = 0
       /\ \A q \in Requests :
            At(q, "paid.confirm") /\ req[q].sub = req[r].sub => q = r

Inv ==
  /\ TypeOK
  /\ RowFirst
  /\ ActivatedFirst
  /\ RecordedIsActivated
  /\ CancelReported
  /\ ChargesHandled

(* The row: inserted, activated, or updated, never deleted or taken off    *)
(* its subscription.                                                       *)
RowKept ==
  /\ row' \in Subscription
  /\ row'.sub = row.sub
  /\ row.customer => row'.customer
RowChange ==
  \/ UNCHANGED row
  \/ row = Null /\ row' = FreeRow
  \/ \E s \in Subs : row' = Activated(s)
  \/ row # Null /\ RowKept

LEMMA RowChanges ==
  ASSUME TypeOK, RowFirst, [Next]_vars
  PROVE  RowChange
<1>0. Requests_ /\ Row_
  BY TypeParts
<1>1. CASE UNCHANGED row
  BY <1>1 DEF RowChange
<1>2. ASSUME NEW r \in Requests, ReadInsert(r) \/ CheckoutInsert(r)
      PROVE  RowChange
  BY <1>2 DEF ReadInsert, CheckoutInsert, InsertRow, RowChange
<1>3. ASSUME NEW r \in Requests, CheckoutCustomer(r) PROVE RowChange
  <2>1. row \in Subscription
    BY <1>0, <1>3 DEF CheckoutCustomer, RowFirst, Row_
  <2>2. RowKept
    BY <1>3, <2>1 DEF CheckoutCustomer, RowKept, Subscription
  <2> QED BY <2>1, <2>2 DEF RowChange
<1>4. ASSUME NEW s, CancelRow(s) PROVE RowChange
  <2>1. CASE row # Null /\ row.sub = s
    <3>1. row \in Subscription
      BY <1>0, <2>1 DEF Row_
    <3>2. RowKept
      BY <1>4, <2>1, <3>1 DEF CancelRow, Cancelled, RowKept, Subscription
    <3> QED BY <2>1, <3>2 DEF RowChange
  <2>2. CASE ~(row # Null /\ row.sub = s)
    BY <1>4, <2>2 DEF CancelRow, RowChange
  <2> QED BY <2>1, <2>2
<1>5. ASSUME NEW r \in Requests, PaidActivate(r) PROVE RowChange
  BY <1>0, <1>5, RequestAt DEF PaidActivate, At, PaidSteps, RowChange
<1>6. ASSUME NEW s \in Subs, NEW status \in Running, Updated(s, status)
      PROVE  RowChange
  <2>2. CASE row # Null /\ row.sub = s
    <3>1. row \in Subscription
      BY <1>0, <2>2 DEF Row_
    <3>2. RowKept
      BY <1>6, <2>2, <3>1 DEF Updated, StatusMap, RowKept, Subscription
    <3> QED BY <2>2, <3>2 DEF RowChange
  <2>3. CASE ~(row # Null /\ row.sub = s)
    BY <1>6, <2>3 DEF Updated, RowChange
  <2> QED BY <2>2, <2>3
<1> QED BY <1>1, <1>2, <1>3, <1>4, <1>5, <1>6
     DEF Next, vars, Tables, OwnerStep, WebhookStep, Read, Checkout, Cancel,
         PaidFind, InvoiceFind, CheckoutSession, CancelAtStripe, CancelUpdate,
         PaidRecord, PaidConfirm, InvoiceRecord, Abort, Pay, Renew, End, Deleted,
         Change

LEMMA RowTypes ==
  ASSUME TypeOK, RowFirst, [Next]_vars
  PROVE  /\ Row_'
         /\ row # Null => row' # Null
         /\ OnSubscription => OnSubscription'
<1>0. Row_ /\ RowChange
  BY TypeParts, RowChanges
<1>1. CASE UNCHANGED row
  BY <1>0, <1>1 DEF Row_, OnSubscription
<1>2. CASE row = Null /\ row' = FreeRow
  <2>1. FreeRow \in Subscription
    BY DEF FreeRow, Subscription
  <2> QED BY <1>2, <2>1 DEF Row_, OnSubscription
<1>3. ASSUME NEW s \in Subs, row' = Activated(s)
      PROVE  Row_' /\ row' # Null /\ OnSubscription'
  <2>1. Activated(s) \in Subscription /\ Activated(s).sub = s /\ Activated(s).customer
    BY DEF Activated, Subscription
  <2>2. s # Null
    OBVIOUS
  <2> QED BY <1>3, <2>1, <2>2 DEF Row_, OnSubscription
<1>4. CASE row # Null /\ RowKept
  BY <1>4 DEF RowKept, Row_, OnSubscription
<1> QED BY <1>0, <1>1, <1>2, <1>3, <1>4 DEF RowChange

LEMMA StripeTypes ==
  ASSUME TypeOK, [Next]_vars
  PROVE  Stripe_' /\ events \subseteq events'
<1>0. Requests_ /\ Stripe_
  BY TypeParts
<1>1. CASE UNCHANGED Outside
  BY <1>0, <1>1 DEF Outside, Stripe_
<1>2. ASSUME NEW s \in Subs, EndsAt(s) PROVE Stripe_' /\ events \subseteq events'
  BY <1>0, <1>2 DEF EndsAt, Emit, Stripe_, On, Event, StripeStatus
<1>3. ASSUME NEW s \in Subs,
             Pay(s) \/ Renew(s) \/ \E status \in Running : Change(s, status)
      PROVE  Stripe_' /\ events \subseteq events'
  BY <1>0, <1>3 DEF Pay, Renew, Change, Emit, Stripe_, On, Event, StripeStatus, Running
<1>4. ASSUME NEW r \in Requests, CheckoutSession(r) \/ CancelAtStripe(r)
      PROVE  Stripe_' /\ events \subseteq events'
  <2>1. CASE CheckoutSession(r)
    BY <1>0, <2>1 DEF CheckoutSession, Stripe_, StripeStatus
  <2>2. CASE CancelAtStripe(r)
    BY <1>0, <1>1, <1>2, <2>2, RequestAt DEF CancelAtStripe, At, CancelSteps
  <2> QED BY <1>4, <2>1, <2>2
<1>5. ASSUME NEW s \in Subs, Deleted(s) PROVE Stripe_' /\ events \subseteq events'
  BY <1>0, <1>5 DEF Deleted, Stripe_
<1> QED BY <1>1, <1>2, <1>3, <1>4, <1>5
     DEF Next, vars, Outside, Tables, OwnerStep, WebhookStep, Read, Checkout, Cancel,
         PaidFind, InvoiceFind, ReadInsert, CheckoutInsert, CheckoutCustomer,
         CancelUpdate, PaidActivate, PaidRecord, PaidConfirm, InvoiceRecord, Abort,
         End, Updated

(* The history: a charge is recorded, or confirmed.                        *)
LEMMA HistoryChanges ==
  ASSUME [Next]_vars
  PROVE  \/ UNCHANGED <<payments, confirmed>>
         \/ \E r \in Requests : PaidRecord(r) \/ InvoiceRecord(r)
         \/ \E r \in Requests : PaidConfirm(r)
BY DEF Next, vars, Tables, OwnerStep, WebhookStep, Read, Checkout, Cancel,
       PaidFind, InvoiceFind, ReadInsert, CheckoutInsert, CheckoutCustomer,
       CheckoutSession, CancelAtStripe, CancelUpdate, PaidActivate, Abort,
       Pay, Renew, End, Deleted, Change, Updated

LEMMA ChargeAt ==
  ASSUME Requests_, NEW r \in Requests,
         PaidRecord(r) \/ InvoiceRecord(r) \/ PaidConfirm(r)
  PROVE  /\ Charge(r) \in Charges
         /\ req[r].pc \in PaidSteps \cup {"invoice.record"}
BY ChargeTypes DEF PaidRecord, InvoiceRecord, PaidConfirm, At, PaidSteps

LEMMA HistoryTypes ==
  ASSUME TypeOK, [Next]_vars
  PROVE  History_'
<1>0. Requests_ /\ History_
  BY TypeParts
<1>1. CASE UNCHANGED <<payments, confirmed>>
  BY <1>0, <1>1 DEF History_
<1>2. ASSUME NEW r \in Requests, PaidRecord(r) \/ InvoiceRecord(r) PROVE History_'
  BY <1>0, <1>2, ChargeAt DEF PaidRecord, InvoiceRecord, History_
<1>3. ASSUME NEW r \in Requests, PaidConfirm(r) PROVE History_'
  <2>1. /\ confirmed' = [confirmed EXCEPT ![Charge(r)] = confirmed[Charge(r)] + 1]
        /\ UNCHANGED payments
    BY <1>3 DEF PaidConfirm
  <2>2. confirmed[Charge(r)] + 1 \in Nat
    BY <1>0, <1>3, ChargeAt DEF History_
  <2> HIDE DEF Charge
  <2> QED BY <1>0, <2>1, <2>2 DEF History_
<1> QED BY <1>1, <1>2, <1>3, HistoryChanges

LEMMA NextTypes == TypeOK /\ RowFirst /\ [Next]_vars => TypeOK'
BY RequestTypes, RowTypes, StripeTypes, HistoryTypes, TypeParts
   DEF TypeOK, Requests_, Row_, Stripe_, History_

(* A request moves by its own actions only.                                *)
Moves(r) ==
  \/ Read(r) \/ Checkout(r) \/ Cancel(r)
  \/ \E s \in Subs : PaidFind(r, s) \/ InvoiceFind(r, s)
  \/ OwnerStep(r) \/ WebhookStep(r) \/ Abort(r)

LEMMA MovesOne ==
  ASSUME Requests_, NEW q \in Requests, Moves(q), NEW r \in Requests, q # r
  PROVE  req'[r] = req[r]
<1>1. \/ UNCHANGED req
      \/ \E x : req' = [req EXCEPT ![q] = x]
      \/ \E x : req' = [req EXCEPT ![q].pc = x]
  BY DEF Moves, OwnerStep, WebhookStep, Read, Checkout, Cancel,
       PaidFind, InvoiceFind, ReadInsert, InsertRow, CheckoutInsert,
       CheckoutCustomer, CheckoutSession, CancelAtStripe, CancelUpdate,
       PaidActivate, PaidRecord, PaidConfirm, InvoiceRecord, Abort,
       Begin, BeginOn, Goto, Finish
<1> QED BY <1>1 DEF Requests_

LEMMA OwnMoves ==
  ASSUME Requests_, [Next]_vars, NEW r \in Requests, req'[r] # req[r]
  PROVE  Moves(r)
<1>1. req' # req
  OBVIOUS
<1>2. PICK q \in Requests : Moves(q)
  BY <1>1 DEF Next, vars, Moves, Pay, Renew, End, Deleted, Change, Updated
<1> QED BY <1>2, MovesOne

(* Where the moves lead.                                                   *)
LEMMA GotoAt ==
  ASSUME Requests_, NEW r \in Requests, NEW step, Goto(r, step)
  PROVE  req'[r].pc = step /\ req'[r].sub = req[r].sub /\ req'[r].type = req[r].type
<1>1. req'[r] = [req[r] EXCEPT !.pc = step]
  BY DEF Requests_, Goto
<1> QED BY <1>1 DEF Requests_, RequestState, OtherSteps, CancelSteps, PaidSteps

LEMMA FinishAt ==
  ASSUME Requests_, NEW r \in Requests, Finish(r)
  PROVE  req'[r].pc = "idle"
BY DEF Requests_, Finish, Idle

LEMMA BeginAt ==
  ASSUME Requests_, NEW r \in Requests, NEW step, NEW e
  PROVE  /\ Begin(r, step) => req'[r].pc = step
         /\ BeginOn(r, step, e) =>
              req'[r].pc = step /\ req'[r].sub = e.sub /\ req'[r].type = e.type
<1>1. ASSUME Begin(r, step) PROVE req'[r].pc = step
  BY <1>1, GotoAt DEF Begin, Goto
<1>2. ASSUME BeginOn(r, step, e)
      PROVE  req'[r].pc = step /\ req'[r].sub = e.sub /\ req'[r].type = e.type
  BY <1>2 DEF BeginOn, Requests_
<1> QED BY <1>1, <1>2

LEMMA OwnerMoves ==
  ASSUME Requests_, NEW r \in Requests
  PROVE  /\ Read(r) => req'[r].pc = "read.insert"
         /\ Checkout(r) =>
              \/ req'[r].pc = "checkout.insert"
              \/ row # Null /\ req'[r].pc \in {"checkout.customer", "checkout.session"}
         /\ Cancel(r) => req'[r].pc = "cancel.stripe"
         /\ OwnerStep(r) =>
              \/ req'[r].pc \in {"idle", "checkout.session"}
              \/ CheckoutInsert(r) /\ row' = FreeRow
              \/ At(r, "cancel.stripe") /\ EndsAt(req[r].sub) /\ Goto(r, "cancel.update")
<1>1. Read(r) => req'[r].pc = "read.insert"
  BY BeginAt DEF Read
<1>2. ASSUME Checkout(r)
      PROVE  \/ req'[r].pc = "checkout.insert"
             \/ row # Null /\ req'[r].pc \in {"checkout.customer", "checkout.session"}
  <2>1. \/ Begin(r, "checkout.insert")
        \/ row # Null /\ Begin(r, "checkout.customer")
        \/ row # Null /\ Begin(r, "checkout.session")
    BY <1>2 DEF Checkout
  <2> QED BY <2>1, BeginAt
<1>3. Cancel(r) => req'[r].pc = "cancel.stripe"
  BY BeginAt DEF Cancel
<1>4. ASSUME OwnerStep(r)
      PROVE  \/ req'[r].pc \in {"idle", "checkout.session"}
             \/ CheckoutInsert(r) /\ row' = FreeRow
             \/ At(r, "cancel.stripe") /\ EndsAt(req[r].sub) /\ Goto(r, "cancel.update")
  BY <1>4, GotoAt, FinishAt DEF OwnerStep, ReadInsert, CheckoutInsert, InsertRow,
     CheckoutCustomer, CheckoutSession, CancelAtStripe, CancelUpdate
<1> QED BY <1>1, <1>2, <1>3, <1>4

LEMMA WebhookMoves ==
  ASSUME Requests_, NEW r \in Requests
  PROVE  /\ \A s \in Subs :
              /\ PaidFind(r, s) => /\ req'[r].pc = "paid.activate"
                                   /\ Charge(r)' = On("checkout", s)
              /\ InvoiceFind(r, s) => /\ req'[r].pc = "invoice.record"
                                      /\ Charge(r)' = On("invoice", s)
         /\ WebhookStep(r) =>
              \/ req'[r].pc = "idle"
              \/ /\ PaidActivate(r)
                 /\ req'[r].pc = "paid.record"
                 /\ Charge(r)' = Charge(r) /\ req'[r].sub = req[r].sub
              \/ /\ PaidRecord(r) /\ Charge(r) \notin payments
                 /\ req'[r].pc = "paid.confirm"
                 /\ Charge(r)' = Charge(r) /\ req'[r].sub = req[r].sub
         /\ Abort(r) => req'[r].pc = "idle"
<1>1. ASSUME NEW s \in Subs
      PROVE  /\ PaidFind(r, s) => /\ req'[r].pc = "paid.activate"
                                  /\ Charge(r)' = On("checkout", s)
             /\ InvoiceFind(r, s) => /\ req'[r].pc = "invoice.record"
                                     /\ Charge(r)' = On("invoice", s)
  <2>1. \A type : On(type, s).sub = s /\ On(type, s).type = type
    BY DEF On
  <2>2. \A type, step : BeginOn(r, step, On(type, s)) =>
          req'[r].pc = step /\ req'[r].sub = s /\ req'[r].type = type
    BY <2>1, BeginAt
  <2> QED BY <2>2 DEF PaidFind, InvoiceFind, Charge
<1>2. ASSUME WebhookStep(r)
      PROVE  \/ req'[r].pc = "idle"
             \/ PaidActivate(r) /\ Goto(r, "paid.record")
             \/ PaidRecord(r) /\ Charge(r) \notin payments /\ Goto(r, "paid.confirm")
  BY <1>2, FinishAt DEF WebhookStep, PaidActivate, PaidRecord, PaidConfirm, InvoiceRecord
<1>3. ASSUME NEW step, Goto(r, step)
      PROVE  req'[r].pc = step /\ req'[r].sub = req[r].sub /\ Charge(r)' = Charge(r)
  BY <1>3, GotoAt DEF Charge
<1> QED BY <1>1, <1>2, <1>3, FinishAt DEF Abort

LEMMA RowFirstNext ==
  ASSUME TypeOK, RowFirst, [Next]_vars
  PROVE  RowFirst'
<1> SUFFICES ASSUME NEW r \in Requests, At(r, "checkout.customer")'
             PROVE  row' # Null
  BY DEF RowFirst
<1>0. Requests_ /\ (row # Null => row' # Null)
  BY TypeParts, RowTypes
<1>1. CASE req'[r] = req[r]
  BY <1>0, <1>1 DEF RowFirst, At
<1>2. CASE req'[r] # req[r]
  <2>1. Moves(r)
    BY <1>0, <1>2, OwnMoves
  <2>2. FreeRow # Null
    <3>1. FreeRow \in Subscription
      BY DEF FreeRow, Subscription
    <3> QED BY <3>1
  <2>3. ASSUME CheckoutInsert(r) \/ Checkout(r) PROVE row' # Null
    BY <1>0, <2>2, <2>3, OwnerMoves, FinishAt DEF CheckoutInsert, InsertRow, At
  <2> QED BY <1>0, <2>1, <2>3, OwnerMoves, WebhookMoves, GotoAt DEF Moves, At
<1> QED BY <1>1, <1>2

LEMMA ActivatedNext ==
  ASSUME TypeOK, RowFirst, ActivatedFirst, RecordedIsActivated, [Next]_vars
  PROVE  ActivatedFirst' /\ RecordedIsActivated'
<1>0. Requests_ /\ (OnSubscription => OnSubscription')
  BY TypeParts, RowTypes
<1>1. ASSUME NEW r \in Requests, req'[r].pc \in {"paid.record", "paid.confirm"}
      PROVE  OnSubscription'
  <2>1. CASE req'[r] = req[r]
    BY <1>0, <1>1, <2>1 DEF ActivatedFirst
  <2>2. CASE req'[r] # req[r]
    <3>1. WebhookStep(r)
      <4>1. Moves(r)
        BY <1>0, <2>2, OwnMoves
      <4>2. CASE OwnerStep(r)
        <5>1. CASE CheckoutInsert(r)
          BY <1>0, <1>1, <5>1, GotoAt, FinishAt DEF CheckoutInsert, InsertRow
        <5> QED BY <1>0, <1>1, <4>2, <5>1, OwnerMoves, GotoAt
      <4> QED BY <1>0, <1>1, <4>1, <4>2, OwnerMoves, WebhookMoves DEF Moves
    <3>2. CASE PaidActivate(r)
      <4>1. row' = Activated(req[r].sub) /\ req[r].sub \in Subs
        BY <1>0, <3>2, RequestAt DEF PaidActivate, At, PaidSteps
      <4>2. Activated(req[r].sub) \in Subscription
        BY <4>1 DEF Activated, Subscription
      <4>3. Activated(req[r].sub).sub # Null /\ Activated(req[r].sub).customer
        BY <4>1 DEF Activated
      <4> QED BY <4>1, <4>2, <4>3 DEF OnSubscription
    <3>3. CASE PaidRecord(r)
      BY <1>0, <3>3 DEF PaidRecord, At, ActivatedFirst
    <3> QED BY <1>0, <1>1, <3>1, <3>2, <3>3, WebhookMoves
  <2> QED BY <2>1, <2>2
<1>2. ASSUME NEW s \in Subs, On("checkout", s) \in payments' PROVE OnSubscription'
  <2>1. CASE On("checkout", s) \in payments
    BY <1>0, <2>1 DEF RecordedIsActivated, OnSubscription
  <2>2. CASE On("checkout", s) \notin payments
    <3>1. PICK r \in Requests : PaidRecord(r) \/ InvoiceRecord(r)
      BY <1>2, <2>2, HistoryChanges DEF PaidConfirm
    <3>2. On("checkout", s) = Charge(r)
      BY <1>2, <2>2, <3>1 DEF PaidRecord, InvoiceRecord
    <3>3. req[r].type = "checkout"
      BY <3>2 DEF On, Charge
    <3>4. ~InvoiceRecord(r)
      BY <1>0, <3>3, RequestAt DEF InvoiceRecord
    <3> QED BY <1>0, <3>1, <3>4 DEF PaidRecord, At, ActivatedFirst
  <2> QED BY <2>1, <2>2
<1> QED BY <1>1, <1>2 DEF ActivatedFirst, RecordedIsActivated, OnSubscription

LEMMA CancelReportedNext ==
  ASSUME TypeOK, CancelReported, [Next]_vars
  PROVE  CancelReported'
<1> SUFFICES ASSUME NEW r \in Requests, At(r, "cancel.update")'
             PROVE  On("deleted", req'[r].sub) \in events'
  BY DEF CancelReported, On
<1>0. Requests_ /\ events \subseteq events'
  BY TypeParts, StripeTypes
<1>1. CASE req'[r] = req[r]
  BY <1>0, <1>1 DEF CancelReported, At
<1>2. CASE req'[r] # req[r]
  <2>1. Moves(r)
    BY <1>0, <1>2, OwnMoves
  <2>2. CASE EndsAt(req[r].sub) /\ Goto(r, "cancel.update")
    BY <1>0, <2>2, GotoAt DEF EndsAt, Emit
  <2>3. CASE CheckoutInsert(r)
    BY <1>0, <2>3, GotoAt, FinishAt DEF CheckoutInsert, InsertRow, At
  <2> QED BY <1>0, <2>1, <2>2, <2>3, OwnerMoves, WebhookMoves DEF Moves, At
<1> QED BY <1>1, <1>2

(* Which moves of r lead to the steps of a delivery.                       *)
LEMMA DeliveryMoves ==
  ASSUME Requests_, [Next]_vars, NEW r \in Requests, req'[r] # req[r],
         req'[r].pc \in PaidSteps \cup {"invoice.record"}
  PROVE  \/ \E s \in Subs :
              \/ PaidFind(r, s) /\ Charge(r)' = On("checkout", s)
              \/ InvoiceFind(r, s) /\ Charge(r)' = On("invoice", s)
         \/ /\ PaidActivate(r) \/ (PaidRecord(r) /\ Charge(r) \notin payments)
            /\ Charge(r)' = Charge(r) /\ req'[r].sub = req[r].sub
<1>1. Moves(r)
  BY OwnMoves
<1>2. CASE CheckoutInsert(r)
  BY <1>2, GotoAt, FinishAt DEF CheckoutInsert, InsertRow, PaidSteps
<1>3. CASE Goto(r, "cancel.update")
  BY <1>3, GotoAt DEF PaidSteps
<1> QED BY <1>1, <1>2, <1>3, OwnerMoves, WebhookMoves DEF Moves, PaidSteps

LEMMA PaymentsNext ==
  ASSUME TypeOK, ChargesHandled, [Next]_vars
  PROVE  /\ payments' \subseteq events'
         /\ \A c \in Charges \ payments' : confirmed'[c] = 0
<1>0. Requests_ /\ History_ /\ events \subseteq events'
  BY TypeParts, StripeTypes
<1>1. CASE UNCHANGED <<payments, confirmed>>
  BY <1>0, <1>1 DEF ChargesHandled
<1>2. ASSUME NEW r \in Requests, PaidRecord(r) \/ InvoiceRecord(r)
      PROVE  /\ payments' \subseteq events'
             /\ \A c \in Charges \ payments' : confirmed'[c] = 0
  <2>1. payments' = payments \cup {Charge(r)} /\ UNCHANGED confirmed
    BY <1>2 DEF PaidRecord, InvoiceRecord
  <2>2. Charge(r) \in events
    BY <1>0, <1>2, ChargeAt DEF ChargesHandled
  <2> QED BY <1>0, <2>1, <2>2 DEF ChargesHandled
<1>3. ASSUME NEW r \in Requests, PaidConfirm(r)
      PROVE  /\ payments' \subseteq events'
             /\ \A c \in Charges \ payments' : confirmed'[c] = 0
  <2>1. /\ confirmed' = [confirmed EXCEPT ![Charge(r)] = confirmed[Charge(r)] + 1]
        /\ UNCHANGED payments /\ Charge(r) \in payments
    BY <1>3 DEF PaidConfirm, ChargesHandled
  <2> HIDE DEF Charge
  <2> QED BY <1>0, <2>1 DEF ChargesHandled, History_
<1> QED BY <1>1, <1>2, <1>3, HistoryChanges

LEMMA DeliveriesNext ==
  ASSUME TypeOK, ChargesHandled, [Next]_vars, NEW r \in Requests,
         req'[r].pc \in PaidSteps \cup {"invoice.record"}
  PROVE  Charge(r)' \in events'
<1>0. Requests_ /\ events \subseteq events'
  BY TypeParts, StripeTypes
<1>1. CASE req'[r] = req[r]
  BY <1>0, <1>1 DEF ChargesHandled, Charge
<1>2. CASE req'[r] # req[r]
  <2>1. ASSUME PaidActivate(r) \/ PaidRecord(r) PROVE Charge(r) \in events
    BY <2>1 DEF PaidActivate, PaidRecord, At, PaidSteps, ChargesHandled
  <2> QED BY <1>0, <1>2, <2>1, DeliveryMoves DEF PaidFind, InvoiceFind
<1> QED BY <1>1, <1>2

(* Two requests are about to confirm one charge only if they are the same. *)
LEMMA ConfirmationsNext ==
  ASSUME TypeOK, ChargesHandled, [Next]_vars, NEW r \in Requests,
         At(r, "paid.confirm")'
  PROVE  /\ Charge(r)' \in payments'
         /\ confirmed'[Charge(r)'] = 0
         /\ \A q \in Requests :
              At(q, "paid.confirm")' /\ req'[q].sub = req'[r].sub => q = r
<1>0. Requests_ /\ History_
  BY TypeParts
<1>1. \A q \in Requests : At(q, "paid.confirm") =>
        /\ req[q].type = "checkout" /\ req[q].sub \in Subs
        /\ Charge(q) \in payments /\ confirmed[Charge(q)] = 0
        /\ Charge(q) = On("checkout", req[q].sub)
  BY <1>0, RequestAt DEF ChargesHandled, At, PaidSteps, Charge
<1>2. \A q \in Requests : PaidRecord(q) =>
        Charge(q) = On("checkout", req[q].sub) /\ Charge(q) \in Charges
  BY <1>0, RequestAt, ChargeAt DEF PaidRecord, At, PaidSteps, Charge
<1>3. payments \subseteq payments'
  BY HistoryChanges DEF PaidRecord, InvoiceRecord, PaidConfirm
<1>4. \A q \in Requests : At(q, "paid.confirm")' =>
        \/ At(q, "paid.confirm") /\ req'[q] = req[q]
        \/ /\ PaidRecord(q) /\ Charge(q) \notin payments
           /\ Charge(q)' = Charge(q) /\ req'[q].sub = req[q].sub
           /\ req'[q] # req[q]
  <2> SUFFICES ASSUME NEW q \in Requests, At(q, "paid.confirm")', req'[q] # req[q]
               PROVE  /\ PaidRecord(q) /\ Charge(q) \notin payments
                      /\ Charge(q)' = Charge(q) /\ req'[q].sub = req[q].sub
    BY DEF At
  <2>1. Moves(q)
    BY <1>0, OwnMoves
  <2>2. CASE CheckoutInsert(q)
    BY <1>0, <2>2, GotoAt, FinishAt DEF CheckoutInsert, InsertRow, At
  <2>3. CASE Goto(q, "cancel.update")
    BY <1>0, <2>3, GotoAt DEF At
  <2> QED BY <1>0, <2>1, <2>2, <2>3, OwnerMoves, WebhookMoves DEF Moves, At
<1>5. CASE At(r, "paid.confirm") /\ req'[r] = req[r]
  <2>1. Charge(r)' = Charge(r) /\ Charge(r) \in payments
    BY <1>1, <1>5 DEF Charge
  <2>2. ASSUME NEW q \in Requests, At(q, "paid.confirm")', req'[q].sub = req'[r].sub
        PROVE  q = r
    BY <1>1, <1>2, <1>4, <1>5, <2>2 DEF ChargesHandled
  <2>3. confirmed'[Charge(r)] = 0
    <3>1. CASE UNCHANGED confirmed
      BY <1>1, <1>5, <3>1
    <3>2. ASSUME NEW q \in Requests, PaidConfirm(q) PROVE confirmed'[Charge(r)] = 0
      <4>1. q # r
        BY <1>0, <1>5, <3>2, FinishAt DEF PaidConfirm, At
      <4>2. At(q, "paid.confirm") /\ req[q].sub # req[r].sub
        BY <1>5, <3>2, <4>1 DEF PaidConfirm, ChargesHandled
      <4>3. Charge(q) # Charge(r)
        BY <4>2 DEF Charge, On
      <4>4. confirmed' = [confirmed EXCEPT ![Charge(q)] = confirmed[Charge(q)] + 1]
        BY <3>2 DEF PaidConfirm
      <4>5. Charge(r) \in Charges /\ confirmed[Charge(r)] = 0
        BY <1>0, <1>1, <1>5 DEF History_
      <4> HIDE DEF Charge
      <4> QED BY <1>0, <4>3, <4>4, <4>5 DEF History_
    <3> QED BY <3>1, <3>2, HistoryChanges DEF PaidRecord, InvoiceRecord
  <2> QED BY <1>3, <2>1, <2>2, <2>3
<1>6. CASE /\ PaidRecord(r) /\ Charge(r) \notin payments
           /\ Charge(r)' = Charge(r) /\ req'[r].sub = req[r].sub
           /\ req'[r] # req[r]
  <2>1. /\ payments' = payments \cup {Charge(r)} /\ UNCHANGED confirmed
        /\ confirmed[Charge(r)] = 0
    BY <1>2, <1>6 DEF PaidRecord, ChargesHandled
  <2>2. ASSUME NEW q \in Requests, At(q, "paid.confirm")', req'[q].sub = req'[r].sub,
               q # r
        PROVE  FALSE
    <3>1. req'[q] = req[q]
      <4>1. Moves(r)
        BY <1>6 DEF Moves, WebhookStep
      <4> QED BY <1>0, <2>2, <4>1, MovesOne
    <3> QED BY <1>1, <1>2, <1>4, <1>6, <2>2, <3>1
  <2> QED BY <1>6, <2>1, <2>2
<1> QED BY <1>4, <1>5, <1>6

LEMMA InvNext == Inv /\ [Next]_vars => Inv'
<1> SUFFICES ASSUME Inv, [Next]_vars PROVE Inv'
  OBVIOUS
<1>1. TypeOK' /\ RowFirst'
  BY NextTypes, RowFirstNext DEF Inv
<1>2. ActivatedFirst' /\ RecordedIsActivated' /\ CancelReported'
  BY ActivatedNext, CancelReportedNext DEF Inv
<1>3. ChargesHandled'
  BY PaymentsNext, DeliveriesNext, ConfirmationsNext DEF Inv, ChargesHandled
<1> QED BY <1>1, <1>2, <1>3 DEF Inv

LEMMA InvInit == Init => Inv
<1> SUFFICES ASSUME Init PROVE Inv
  OBVIOUS
<1>1. \A r \in Requests : req[r].pc = "idle"
  BY DEF Init, Idle
<1> QED BY <1>1, InitTypes
     DEF Init, Inv, RowFirst, ActivatedFirst, RecordedIsActivated, CancelReported,
         ChargesHandled, At, PaidSteps

LEMMA InvHolds == Spec => []Inv
BY InvInit, InvNext, PTL DEF Spec

-----------------------------------------------------------------------------
(* The theorems.                                                           *)

(* Tables, Stripe's side and requests keep their types.  It takes the      *)
(* invariant: a checkout's UPDATE needs the row it found to be there.      *)
THEOREM TypeCorrect == Spec => []TypeOK
BY InvHolds, PTL DEF Inv

(* No checkout is in the payment history before the organization has been  *)
(* put on a subscription.                                                  *)
THEOREM RecordedHolds == Spec => []RecordedIsActivated
BY InvHolds, PTL DEF Inv

LEMMA StepWithdraws ==
  ASSUME Inv, [Next]_vars, row # Null, row.plan = "pro", row'.plan # "pro"
  PROVE  \E type \in {"past_due", "deleted"} : On(type, row.sub) \in events
<1>0. Requests_ /\ row \in Subscription
  BY TypeParts DEF Inv, Row_
<1>1. ASSUME NEW s, CancelRow(s) PROVE row.sub = s
  BY <1>1 DEF CancelRow
<1>2. ASSUME NEW r \in Requests, CancelUpdate(r)
      PROVE  On("deleted", row.sub) \in events
  BY <1>1, <1>2 DEF CancelUpdate, Inv, CancelReported
<1>3. ASSUME NEW s \in Subs, Deleted(s) PROVE On("deleted", row.sub) \in events
  BY <1>1, <1>3 DEF Deleted
<1>4. ASSUME NEW s \in Subs, NEW status \in Running, Updated(s, status)
      PROVE  On("past_due", row.sub) \in events
  <2>1. row.sub = s
    BY <1>4 DEF Updated
  <2>2. CASE status # "past_due"
    <3>1. row' = [row EXCEPT !.status = "active", !.plan = "pro"]
      BY <1>4, <2>1, <2>2 DEF Updated, StatusMap
    <3> QED BY <1>0, <3>1 DEF Subscription
  <2> QED BY <1>4, <2>1, <2>2 DEF Updated
<1>5. ASSUME NEW r \in Requests, CheckoutCustomer(r) PROVE FALSE
  BY <1>0, <1>5 DEF CheckoutCustomer, Subscription
<1>6. ASSUME NEW r \in Requests, PaidActivate(r) PROVE FALSE
  BY <1>6 DEF PaidActivate, Activated
<1> QED BY <1>2, <1>3, <1>4, <1>5, <1>6
     DEF Next, vars, Tables, OwnerStep, WebhookStep, Read, Checkout, Cancel,
         PaidFind, InvoiceFind, ReadInsert, CheckoutInsert, InsertRow,
         CheckoutSession, CancelAtStripe, PaidRecord, PaidConfirm, InvoiceRecord,
         Abort, Pay, Renew, End, Change

(* The plan is withdrawn only when Stripe has reported that the            *)
(* subscription the organization is on is unpaid or over.                  *)
THEOREM WithdrawnHolds == Spec => WithdrawnOnlyIfLapsed
<1>1. Inv /\ [Next]_vars =>
        [row # Null /\ row.plan = "pro" /\ row'.plan # "pro" =>
           \E type \in {"past_due", "deleted"} : On(type, row.sub) \in events]_row
  BY StepWithdraws
<1> QED BY <1>1, InvHolds, PTL DEF Spec, WithdrawnOnlyIfLapsed

-----------------------------------------------------------------------------
(* Refinement.                                                             *)

charged == events \cap Charges

LEMMA HistoryInit == Init => History!Init
BY DEF Init, History!Init

(* A charge recorded was made; a charge confirmed is in the history, and   *)
(* had not been confirmed.                                                 *)
LEMMA HistoryStep ==
  ASSUME Inv, [Next]_vars
  PROVE  History!Next \/ UNCHANGED <<charged, payments, confirmed>>
<1>0. Requests_ /\ History_ /\ Stripe_
  BY TypeParts DEF Inv
<1>1. CASE UNCHANGED <<payments, confirmed>>
  <2>1. CASE UNCHANGED events
    BY <1>1, <2>1 DEF charged
  <2>2. CASE events' # events
    <3>1. PICK c \in Event : charged' = charged \cup ({c} \cap Charges)
      <4>1. ASSUME NEW s \in Subs, NEW c, c \in Event, Emit({c})
            PROVE  charged' = charged \cup ({c} \cap Charges)
        BY <4>1 DEF Emit, charged
      <4>2. ASSUME NEW s \in Subs, NEW type \in {"checkout", "invoice", "deleted"} \cup Running
            PROVE  On(type, s) \in Event
        BY DEF On, Event
      <4>3. ASSUME NEW s \in Subs, Pay(s)
            PROVE  charged' = charged \cup ({On("checkout", s)} \cap Charges)
        <5>1. On("active", s) \notin Charges
          BY DEF On, Charges
        <5> QED BY <4>3, <5>1 DEF Pay, Emit, charged
      <4>4. ASSUME NEW r \in Requests, CancelAtStripe(r), events' # events
            PROVE  EndsAt(req[r].sub) /\ req[r].sub \in Subs
        BY <1>0, <4>4, RequestAt DEF CancelAtStripe, Outside, At, CancelSteps
      <4> QED BY <2>2, <4>1, <4>2, <4>3, <4>4
            DEF Next, vars, Outside, OwnerStep, WebhookStep, Read, Checkout, Cancel,
         PaidFind, InvoiceFind, ReadInsert, CheckoutInsert, CheckoutCustomer,
         CheckoutSession, CancelUpdate, PaidActivate, PaidRecord, PaidConfirm,
         InvoiceRecord, Abort, Renew, End, EndsAt, Deleted, Change, Updated, Running
    <3>2. CASE c \in Charges
      BY <1>1, <3>1, <3>2 DEF History!Next, History!Charge, charged
    <3>3. CASE c \notin Charges
      BY <1>1, <3>1, <3>3
    <3> QED BY <3>2, <3>3
  <2> QED BY <2>1, <2>2
<1>2. ASSUME NEW r \in Requests, PaidRecord(r) \/ InvoiceRecord(r)
      PROVE  History!Next \/ UNCHANGED <<charged, payments, confirmed>>
  <2>1. /\ payments' = payments \cup {Charge(r)}
        /\ UNCHANGED <<events, confirmed>>
    BY <1>2 DEF PaidRecord, InvoiceRecord, Outside
  <2>2. Charge(r) \in events \cap Charges
    BY <1>0, <1>2, ChargeAt DEF Inv, ChargesHandled
  <2> HIDE DEF Charge
  <2>3. CASE Charge(r) \in payments
    BY <2>1, <2>3 DEF charged
  <2>4. CASE Charge(r) \notin payments
    BY <2>1, <2>2, <2>4 DEF History!Next, History!Record, charged
  <2> QED BY <2>3, <2>4
<1>3. ASSUME NEW r \in Requests, PaidConfirm(r) PROVE History!Next
  <2>1. /\ confirmed' = [confirmed EXCEPT ![Charge(r)] = confirmed[Charge(r)] + 1]
        /\ UNCHANGED <<payments, events>>
    BY <1>3 DEF PaidConfirm, Outside
  <2>2. /\ Charge(r) \in Charges /\ Charge(r) \in payments
        /\ confirmed[Charge(r)] = 0
    BY <1>0, <1>3, ChargeAt DEF PaidConfirm, Inv, ChargesHandled
  <2> HIDE DEF Charge
  <2>3. confirmed' = [confirmed EXCEPT ![Charge(r)] = 1]
    BY <2>1, <2>2
  <2> QED BY <2>1, <2>2, <2>3 DEF History!Next, History!Confirm, charged
<1> QED BY <1>1, <1>2, <1>3, HistoryChanges

(* However often and concurrently Stripe delivers an event, and wherever a *)
(* delivery dies, the payment history implements Ledger.                   *)
THEOREM LedgerImplemented == Spec => ImplementsLedger
BY HistoryInit, HistoryStep, InvHolds, PTL DEF Spec, ImplementsLedger, History!Spec, charged

(* What the ledger promises, in one formula: nothing is recorded that      *)
(* Stripe has not charged, nothing confirmed that is not recorded, and     *)
(* nothing confirmed twice.                                                *)
ConfirmedOnce ==
  /\ payments \subseteq charged
  /\ \A c \in Charges : confirmed[c] = 0 \/ (confirmed[c] = 1 /\ c \in payments)

LEMMA LedgerConfirms == History!Spec => []ConfirmedOnce
<1> DEFINE Typed == confirmed \in [Charges -> {0, 1}]
<1>1. History!Init => ConfirmedOnce /\ Typed
  BY DEF History!Init, ConfirmedOnce
<1>2. ConfirmedOnce /\ Typed /\ [History!Next]_<<charged, payments, confirmed>> =>
        ConfirmedOnce' /\ Typed'
  <2> SUFFICES ASSUME ConfirmedOnce, Typed, [History!Next]_<<charged, payments, confirmed>>
               PROVE  ConfirmedOnce' /\ Typed'
    OBVIOUS
  <2> USE DEF ConfirmedOnce, charged
  <2>1. CASE UNCHANGED <<charged, payments, confirmed>>
    BY <2>1
  <2>2. ASSUME NEW c \in Charges, History!Charge(c) PROVE ConfirmedOnce' /\ Typed'
    BY <2>2 DEF History!Charge
  <2>3. ASSUME NEW c \in Charges, History!Record(c) PROVE ConfirmedOnce' /\ Typed'
    BY <2>3 DEF History!Record
  <2>4. ASSUME NEW c \in Charges, History!Confirm(c) PROVE ConfirmedOnce' /\ Typed'
    BY <2>4 DEF History!Confirm
  <2> QED BY <2>1, <2>2, <2>3, <2>4 DEF History!Next
<1> QED BY <1>1, <1>2, PTL DEF History!Spec, charged

(* However often Stripe delivers an event, the owner gets one confirmation *)
(* of a charge at most, and only of one that Stripe made and the history   *)
(* holds.                                                                  *)
THEOREM ConfirmedOnceHolds == Spec => []ConfirmedOnce
BY LedgerImplemented, LedgerConfirms, PTL DEF ImplementsLedger

-----------------------------------------------------------------------------
(* What makes a cancelled subscription come back.                          *)

(* A delivery that reports s as running, or as just paid, is handled after *)
(* s has ended at Stripe.                                                  *)
LateDelivery(s) ==
  /\ stripe[s] = "canceled"
  /\ \/ \E status \in Running : Updated(s, status)
     \/ \E r \in Requests : req[r].sub = s /\ PaidActivate(r)

(* The row says cancelled, and a deletion is reported, only of a           *)
(* subscription that has ended.                                            *)
EndedAtStripe ==
  /\ \A s \in Subs : On("deleted", s) \in events => stripe[s] = "canceled"
  /\ \A s \in Subs :
       row # Null /\ row.sub = s /\ row.status = "cancelled" => stripe[s] = "canceled"

(* Nothing starts again at Stripe, and what has ended has been reported.   *)
LEMMA StripeEnds ==
  ASSUME TypeOK, [Next]_vars, NEW s \in Subs
  PROVE  /\ stripe[s] = "canceled" => stripe'[s] = "canceled"
         /\ On("deleted", s) \in events' =>
              On("deleted", s) \in events \/ stripe'[s] = "canceled"
<1>0. stripe \in [Subs -> StripeStatus] /\ Requests_
  BY TypeParts DEF TypeOK
<1>1. CASE UNCHANGED <<stripe, events>>
  BY <1>1
<1>2. ASSUME NEW x \in Subs, EndsAt(x)
      PROVE  /\ stripe[s] = "canceled" => stripe'[s] = "canceled"
             /\ On("deleted", s) \in events' =>
                  On("deleted", s) \in events \/ stripe'[s] = "canceled"
  BY <1>0, <1>2 DEF EndsAt, Emit, On
<1>3. ASSUME NEW x \in Subs,
             Pay(x) \/ Renew(x) \/ \E status \in Running : Change(x, status)
      PROVE  /\ stripe[s] = "canceled" => stripe'[s] = "canceled"
             /\ On("deleted", s) \in events' => On("deleted", s) \in events
  BY <1>0, <1>3 DEF Pay, Renew, Change, Becomes, Emit, On, Running
<1>4. ASSUME NEW r \in Requests, CheckoutSession(r)
      PROVE  /\ stripe[s] = "canceled" => stripe'[s] = "canceled"
             /\ UNCHANGED events
  BY <1>0, <1>4 DEF CheckoutSession
<1>5. ASSUME NEW r \in Requests, CancelAtStripe(r)
      PROVE  \/ UNCHANGED <<stripe, events>>
             \/ req[r].sub \in Subs /\ EndsAt(req[r].sub)
  BY <1>0, <1>5, RequestAt DEF CancelAtStripe, At, CancelSteps, Outside
<1> QED BY <1>1, <1>2, <1>3, <1>4, <1>5
     DEF Next, vars, Outside, OwnerStep, WebhookStep, Read, Checkout, Cancel, PaidFind,
         InvoiceFind, ReadInsert, CheckoutInsert, CheckoutCustomer, CancelUpdate,
         PaidActivate, PaidRecord, PaidConfirm, InvoiceRecord, Abort, End, Deleted, Updated

(* What changes the status of the row, or the subscription it is on.       *)
LEMMA StatusChanges ==
  ASSUME Inv, [Next]_vars
  PROVE  \/ row # Null /\ row' # Null /\ row'.status = row.status /\ row'.sub = row.sub
         \/ row' = row
         \/ row = Null /\ row' = FreeRow
         \/ \E s \in Subs : /\ row # Null /\ row.sub = s
                            /\ row' = Cancelled /\ On("deleted", s) \in events
         \/ \E s \in Subs : /\ row # Null /\ row.sub = s /\ row'.status # "cancelled"
                            /\ row'.sub = s
                            /\ \E status \in Running : Updated(s, status)
         \/ \E r \in Requests : /\ req[r].sub \in Subs /\ PaidActivate(r)
                                /\ row' = Activated(req[r].sub)
<1>0. Requests_ /\ Row_ /\ RowFirst /\ CancelReported
  BY TypeParts DEF Inv
<1>1. CASE UNCHANGED row
  BY <1>1
<1>2. ASSUME NEW r \in Requests, ReadInsert(r) \/ CheckoutInsert(r)
      PROVE  row' = row \/ (row = Null /\ row' = FreeRow)
  BY <1>2 DEF ReadInsert, CheckoutInsert, InsertRow
<1>3. ASSUME NEW r \in Requests, CheckoutCustomer(r)
      PROVE  row # Null /\ row' # Null /\ row'.status = row.status /\ row'.sub = row.sub
  <2>1. row \in Subscription
    BY <1>0, <1>3 DEF CheckoutCustomer, RowFirst, Row_
  <2>2. row' \in Subscription /\ row'.status = row.status /\ row'.sub = row.sub
    BY <1>3, <2>1 DEF CheckoutCustomer, Subscription
  <2> QED BY <2>1, <2>2
<1>4. ASSUME NEW r \in Requests, CancelUpdate(r)
      PROVE  \/ row' = row
             \/ \E s \in Subs : /\ row # Null /\ row.sub = s
                                /\ row' = Cancelled /\ On("deleted", s) \in events
  BY <1>0, <1>4, RequestAt DEF CancelUpdate, CancelRow, CancelReported, At, CancelSteps
<1>5. ASSUME NEW s \in Subs, Deleted(s)
      PROVE  \/ row' = row
             \/ row # Null /\ row.sub = s /\ row' = Cancelled /\ On("deleted", s) \in events
  BY <1>5 DEF Deleted, CancelRow
<1>6. ASSUME NEW s \in Subs, NEW status \in Running, Updated(s, status), row' # row
      PROVE  row # Null /\ row.sub = s /\ row'.status # "cancelled" /\ row'.sub = s
  <2>1. row \in Subscription /\ row.sub = s
    BY <1>0, <1>6 DEF Updated, Row_
  <2> QED BY <1>6, <2>1 DEF Updated, StatusMap, Subscription
<1>7. ASSUME NEW r \in Requests, PaidActivate(r)
      PROVE  req[r].sub \in Subs /\ row' = Activated(req[r].sub)
  BY <1>0, <1>7, RequestAt DEF PaidActivate, At, PaidSteps
<1> QED BY <1>1, <1>2, <1>3, <1>4, <1>5, <1>6, <1>7
     DEF Next, vars, Tables, OwnerStep, WebhookStep, Read, Checkout, Cancel,
         PaidFind, InvoiceFind, CheckoutSession, CancelAtStripe,
         PaidRecord, PaidConfirm, InvoiceRecord, Abort, Pay, Renew, End,
         Change

LEMMA EndedNext ==
  ASSUME Inv, EndedAtStripe, [Next]_vars
  PROVE  EndedAtStripe'
<1>1. \A s \in Subs : stripe[s] = "canceled" => stripe'[s] = "canceled"
  BY StripeEnds DEF Inv
<1>2. ASSUME NEW s \in Subs, On("deleted", s) \in events' PROVE stripe'[s] = "canceled"
  BY <1>1, <1>2, StripeEnds DEF Inv, EndedAtStripe
<1>3. ASSUME NEW s \in Subs, row' # Null, row'.sub = s, row'.status = "cancelled"
      PROVE  stripe[s] = "canceled"
  <2>1. ASSUME NEW x \in Subs, row # Null, row.sub = x, row' = Cancelled
        PROVE  row'.sub = x
    BY <2>1, TypeParts DEF Inv, Row_, Cancelled, Subscription
  <2> QED BY <1>3, <2>1, StatusChanges DEF EndedAtStripe, FreeRow, Activated
<1> QED BY <1>1, <1>2, <1>3 DEF EndedAtStripe, On

(* A cancelled subscription comes back only by a late delivery: Stripe     *)
(* emitted the event before it ended the subscription, and it is handled   *)
(* afterwards.  Nothing the owner's requests do, and no crash, brings it   *)
(* back: late delivery is the only cause of what the run bl_v_cancel shows.*)
THEOREM CancelledReturnsLate ==
  Spec => [][\A s \in Subs :
               row # Null /\ row.sub = s /\ row.status = "cancelled" =>
                 row'.sub # s \/ row'.status = "cancelled" \/ LateDelivery(s)]_row
<1>1. Init => EndedAtStripe
  BY DEF Init, EndedAtStripe
<1>2. Inv /\ EndedAtStripe /\ [Next]_vars => EndedAtStripe'
  BY EndedNext
<1>3. Inv /\ EndedAtStripe /\ [Next]_vars =>
        [\A s \in Subs :
           row # Null /\ row.sub = s /\ row.status = "cancelled" =>
             row'.sub # s \/ row'.status = "cancelled" \/ LateDelivery(s)]_row
  <2> SUFFICES ASSUME Inv, EndedAtStripe, [Next]_vars, NEW s \in Subs,
                      row # Null, row.sub = s, row.status = "cancelled",
                      row'.sub = s, row'.status # "cancelled"
               PROVE  LateDelivery(s)
    OBVIOUS
  <2>1. row \in Subscription /\ Cancelled.status = "cancelled"
    BY TypeParts DEF Inv, Row_, Cancelled, Subscription
  <2>2. stripe[s] = "canceled"
    BY DEF EndedAtStripe
  <2>3. ASSUME NEW x \in Subs, row' = Activated(x) PROVE x = s
    BY <2>3 DEF Activated
  <2> QED BY <2>1, <2>2, <2>3, StatusChanges DEF LateDelivery
<1> QED BY <1>1, <1>2, <1>3, InvHolds, PTL DEF Spec

(* So a cancelled subscription stays cancelled, as the documentation says, *)
(* as long as no delivery comes late.                                      *)
THEOREM CancelledStaysIfPrompt ==
  Spec /\ [][\A s \in Subs : ~LateDelivery(s)]_row => CancelledStays
<1>1. (\A s \in Subs : ~LateDelivery(s))
        /\ (\A s \in Subs :
              row # Null /\ row.sub = s /\ row.status = "cancelled" =>
                row'.sub # s \/ row'.status = "cancelled" \/ LateDelivery(s))
        => \A s \in Subs :
              row # Null /\ row.sub = s /\ row.status = "cancelled" =>
                row'.sub # s \/ row'.status = "cancelled"
  OBVIOUS
<1> QED BY <1>1, CancelledReturnsLate, PTL DEF CancelledStays
=============================================================================
