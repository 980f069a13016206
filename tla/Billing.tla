------------------------------- MODULE Billing ------------------------------
(***************************************************************************)
(* The subscription and the payment history of one organization            *)
(* (subscriptions.service.ts, payments.service.ts) between its owner's     *)
(* requests and Stripe's webhook calls.                                    *)
(*                                                                         *)
(* Stripe is the environment.  It emits events and delivers each of them   *)
(* any number of times, in any order and several at once, until a delivery *)
(* is answered with success and sometimes after that.  A handler runs one  *)
(* statement at a time; its first statement is taken with its arrival, as  *)
(* it knows nothing before.  Amounts, periods and signatures are left out: *)
(* the call of Stripe for the period's end (payments.service.ts:118-129)   *)
(* changes nothing, and a failure of it is an Abort at the next statement. *)
(***************************************************************************)
EXTENDS Naturals

CONSTANTS
  Requests,      \* request slots of the API: a slot serves one call at a time
  Subs,          \* Stripe subscriptions, each made by one checkout session:
                 \* a bound on how many sessions are ever opened
  Tagged,        \* those whose own metadata names the organization: this code
                 \* sets it on the session only, an operator may at Stripe
  Null           \* what findOne returns for no row, and a null column

ASSUME TaggedAssumption == Tagged \subseteq Subs

(* The states of a running Stripe subscription.  trialing and incomplete   *)
(* ones do not come from the checkout's price and mode.                    *)
Running == {"active", "past_due", "unpaid"}
StripeStatus == {"none", "open", "canceled"} \cup Running

(* checkout.session.completed, invoice.payment_succeeded (of a renewal),   *)
(* customer.subscription.deleted, and, named by the status they carry,     *)
(* customer.subscription.created and .updated.  Two updates of the same    *)
(* content count as one: their handler does not look at the event's id.    *)
Event == [type : {"checkout", "invoice", "deleted"} \cup Running, sub : Subs]
On(type, s) == [type |-> type, sub |-> s]

(* The events that become rows of table payments.                          *)
Charges == [type : {"checkout", "invoice"}, sub : Subs]

(* Table subscriptions; customer: stripeCustomerId is set.                 *)
Subscription ==
  [plan : {"free", "pro"}, status : {"active", "past_due", "cancelled"},
   customer : BOOLEAN, sub : Subs \cup {Null}]

ASSUME NullAssumption == Null \notin Subs \cup Subscription

VARIABLES
  row,           \* the organization's row of table subscriptions, or Null
                 \* (one at most: UNIQUE (organizationId))
  payments,      \* the charges in table payments (stripeEventId is unique)
  confirmed,     \* confirmed[c]: how often payment.success was emitted for c
  stripe,        \* stripe[s]: the status of s at Stripe
  events,        \* the events Stripe has emitted
  owed,          \* subscriptions whose end Stripe has not yet seen a
                 \* successful answer to (a charge it owes until recorded)
  req            \* req[r]: where request r stands and what it remembers

vars == <<row, payments, confirmed, stripe, events, owed, req>>
Tables == <<row, payments, confirmed>>
Outside == <<stripe, events, owed>>

Idle == [pc |-> "idle", sub |-> Null, type |-> Null]

Init ==
  /\ row = Null
  /\ payments = {}
  /\ confirmed = [c \in Charges |-> 0]
  /\ stripe = [s \in Subs |-> "none"]
  /\ events = {}
  /\ owed = {}
  /\ req = [r \in Requests |-> Idle]

At(r, step) == req[r].pc = step
Begin(r, step) == At(r, "idle") /\ req' = [req EXCEPT ![r].pc = step]
BeginOn(r, step, e) ==
  /\ At(r, "idle")
  /\ req' = [req EXCEPT ![r] = [pc |-> step, sub |-> e.sub, type |-> e.type]]
Goto(r, step) == req' = [req EXCEPT ![r].pc = step]
Finish(r) == req' = [req EXCEPT ![r] = Idle]

-----------------------------------------------------------------------------
(* Stripe.                                                                 *)

Emit(es) == events' = events \cup es

(* The owner pays an open session: its subscription starts.                *)
Pay(s) ==
  /\ stripe[s] = "open"
  /\ stripe' = [stripe EXCEPT ![s] = "active"]
  /\ Emit({On("checkout", s), On("active", s)})
  /\ UNCHANGED <<Tables, owed, req>>

(* A renewal fails, is retried, succeeds or is given up.                   *)
Becomes == {<<"active", "past_due">>, <<"past_due", "active">>,
            <<"past_due", "unpaid">>, <<"unpaid", "active">>}

Change(s, status) ==
  /\ <<stripe[s], status>> \in Becomes
  /\ stripe' = [stripe EXCEPT ![s] = status]
  /\ Emit({On(status, s)})
  /\ UNCHANGED <<Tables, owed, req>>

(* A renewal is paid.  Without the organization in the subscription's      *)
(* metadata the handler drops the event.                                   *)
Renew(s) ==
  /\ s \in Tagged
  /\ stripe[s] = "active"
  /\ Emit({On("invoice", s)})
  /\ UNCHANGED <<Tables, stripe, owed, req>>

EndsAt(s) ==
  /\ stripe[s] \in Running
  /\ stripe' = [stripe EXCEPT ![s] = "canceled"]
  /\ Emit({On("deleted", s)})
  /\ owed' = owed \cup {s}

(* Stripe gives the subscription up, or somebody cancels it there.         *)
End(s) == EndsAt(s) /\ UNCHANGED <<Tables, req>>

-----------------------------------------------------------------------------
(* The owner's requests.                                                   *)

FreeRow == [plan |-> "free", status |-> "active", customer |-> FALSE, sub |-> Null]

(* getOrCreate: without a row, insert one.  If another request has done so *)
(* meanwhile the unique index refuses the INSERT and the request fails.    *)
InsertRow(r, next) ==
  IF row = Null THEN row' = FreeRow /\ Goto(r, next)
                ELSE UNCHANGED row /\ Finish(r)

(* getByOrg; when there is a row it only reads.                            *)
Read(r) ==
  /\ row = Null
  /\ Begin(r, "read.insert")
  /\ UNCHANGED <<Tables, Outside>>

ReadInsert(r) ==
  /\ At(r, "read.insert")
  /\ InsertRow(r, "idle")
  /\ UNCHANGED <<payments, confirmed, Outside>>

HasActivePro == row.plan = "pro" /\ row.status = "active"

Checkout(r) ==
  /\ IF row = Null
       THEN Begin(r, "checkout.insert")
       ELSE /\ ~HasActivePro
            /\ Begin(r, IF row.customer THEN "checkout.session"
                                        ELSE "checkout.customer")
  /\ UNCHANGED <<Tables, Outside>>

CheckoutInsert(r) ==
  /\ At(r, "checkout.insert")
  /\ InsertRow(r, "checkout.customer")
  /\ UNCHANGED <<payments, confirmed, Outside>>

(* Stripe's idempotency key makes the organization's customer the same     *)
(* whoever creates it; then UPDATE by the row's id.                        *)
CheckoutCustomer(r) ==
  /\ At(r, "checkout.customer")
  /\ row' = [row EXCEPT !.customer = TRUE]
  /\ Goto(r, "checkout.session")
  /\ UNCHANGED <<payments, confirmed, Outside>>

(* The session is open until it is paid; when the bound Subs is reached    *)
(* Stripe refuses.                                                         *)
CheckoutSession(r) ==
  LET new == {s \in Subs : stripe[s] = "none"} IN
  /\ At(r, "checkout.session")
  /\ IF new = {}
       THEN UNCHANGED stripe
       ELSE \E s \in new : stripe' = [stripe EXCEPT ![s] = "open"]
  /\ Finish(r)
  /\ UNCHANGED <<Tables, events, owed>>

(* Mutant: nothing checks that there is a Stripe subscription.             *)
CancelAny(r) ==
  /\ row # Null
  /\ BeginOn(r, "cancel.stripe", [type |-> Null, sub |-> row.sub])
  /\ UNCHANGED <<Tables, Outside>>

Cancel(r) ==
  /\ row # Null
  /\ row.sub # Null
  /\ BeginOn(r, "cancel.stripe", [type |-> Null, sub |-> row.sub])
  /\ UNCHANGED <<Tables, Outside>>

(* Stripe refuses to cancel a subscription that has ended.                 *)
CancelAtStripe(r) ==
  LET s == req[r].sub IN
  /\ At(r, "cancel.stripe")
  /\ \/ EndsAt(s) /\ Goto(r, "cancel.update")
     \/ stripe[s] = "canceled" /\ Finish(r) /\ UNCHANGED Outside
  /\ UNCHANGED Tables

Cancelled == [row EXCEPT !.status = "cancelled", !.plan = "free"]

(* Mutant: the organization's row, whatever subscription it is on by now.  *)
CancelRowOfOrg(s) == row' = IF row = Null THEN Null ELSE Cancelled

(* UPDATE ... WHERE stripeSubscriptionId = s.                              *)
CancelRow(s) == row' = IF row # Null /\ row.sub = s THEN Cancelled ELSE row

CancelUpdate(r) ==
  /\ At(r, "cancel.update")
  /\ CancelRow(req[r].sub)
  /\ Finish(r)
  /\ UNCHANGED <<payments, confirmed, Outside>>

-----------------------------------------------------------------------------
(* Webhook calls.                                                          *)

(* Mutant: a duplicate is told by the row, not by the payment.             *)
PaidFindRow(r, s) ==
  LET e == On("checkout", s) IN
  /\ e \in events
  /\ ~(row # Null /\ row.sub = s /\ HasActivePro)
  /\ BeginOn(r, "paid.activate", e)
  /\ UNCHANGED <<Tables, Outside>>

(* A recorded event is answered at once, and nothing changes.              *)
PaidFind(r, s) ==
  LET e == On("checkout", s) IN
  /\ e \in events
  /\ e \notin payments
  /\ BeginOn(r, "paid.activate", e)
  /\ UNCHANGED <<Tables, Outside>>

Activated(s) == [plan |-> "pro", status |-> "active", customer |-> TRUE, sub |-> s]

(* Mutant: the handler does not wait for the activation, which may fail.   *)
PaidActivateDetached(r) ==
  /\ At(r, "paid.activate")
  /\ row' \in {row, Activated(req[r].sub)}
  /\ Goto(r, "paid.record")
  /\ UNCHANGED <<payments, confirmed, Outside>>

(* INSERT ... ON CONFLICT (organizationId) DO UPDATE.                      *)
PaidActivate(r) ==
  /\ At(r, "paid.activate")
  /\ row' = Activated(req[r].sub)
  /\ Goto(r, "paid.record")
  /\ UNCHANGED <<payments, confirmed, Outside>>

Charge(r) == On(req[r].type, req[r].sub)

(* Mutant: a second INSERT does nothing instead of failing.                *)
PaidRecordOrIgnore(r) ==
  /\ At(r, "paid.record")
  /\ payments' = payments \cup {Charge(r)}
  /\ Goto(r, "paid.confirm")
  /\ UNCHANGED <<row, confirmed, Outside>>

(* The INSERT into payments; the unique event id refuses a second one, the *)
(* call fails.                                                             *)
PaidRecord(r) ==
  /\ At(r, "paid.record")
  /\ IF Charge(r) \in payments THEN Finish(r) ELSE Goto(r, "paid.confirm")
  /\ payments' = payments \cup {Charge(r)}
  /\ UNCHANGED <<row, confirmed, Outside>>

PaidConfirm(r) ==
  /\ At(r, "paid.confirm")
  /\ confirmed' = [confirmed EXCEPT ![Charge(r)] = @ + 1]
  /\ Finish(r)
  /\ UNCHANGED <<row, payments, Outside>>

InvoiceFind(r, s) ==
  LET e == On("invoice", s) IN
  /\ e \in events
  /\ e \notin payments
  /\ BeginOn(r, "invoice.record", e)
  /\ UNCHANGED <<Tables, Outside>>

InvoiceRecord(r) ==
  /\ At(r, "invoice.record")
  /\ payments' = payments \cup {Charge(r)}
  /\ Finish(r)
  /\ UNCHANGED <<row, confirmed, Outside>>

(* statusMap: a status it does not know counts as active.                  *)
StatusMap(status) == IF status = "past_due" THEN "past_due" ELSE "active"

(* One statement each: UPDATE ... WHERE stripeSubscriptionId = s.          *)
Updated(s, status) ==
  LET mapped == StatusMap(status) IN
  /\ On(status, s) \in events
  /\ row' = IF row # Null /\ row.sub = s
              THEN [row EXCEPT !.status = mapped,
                               !.plan = IF mapped = "active" THEN "pro" ELSE "free"]
              ELSE row
  /\ UNCHANGED <<payments, confirmed, Outside, req>>

(* Mutant: a failure of the UPDATE is caught, and the event answered.      *)
DeletedOrNot(s) ==
  /\ On("deleted", s) \in events
  /\ CancelRow(s) \/ UNCHANGED row
  /\ owed' = owed \ {s}
  /\ UNCHANGED <<payments, confirmed, stripe, events, req>>

Deleted(s) ==
  /\ On("deleted", s) \in events
  /\ CancelRow(s)
  /\ owed' = owed \ {s}
  /\ UNCHANGED <<payments, confirmed, stripe, events, req>>

-----------------------------------------------------------------------------
(* A statement or a call of Stripe fails, or the process is lost.          *)
Abort(r) ==
  /\ ~At(r, "idle")
  /\ Finish(r)
  /\ UNCHANGED <<Tables, Outside>>

OwnerStep(r) ==
  \/ ReadInsert(r)
  \/ CheckoutInsert(r) \/ CheckoutCustomer(r) \/ CheckoutSession(r)
  \/ CancelAtStripe(r) \/ CancelUpdate(r)

WebhookStep(r) ==
  PaidActivate(r) \/ PaidRecord(r) \/ PaidConfirm(r) \/ InvoiceRecord(r)

Next ==
  \/ \E r \in Requests :
       \/ Read(r) \/ Checkout(r) \/ Cancel(r)
       \/ \E s \in Subs : PaidFind(r, s) \/ InvoiceFind(r, s)
       \/ OwnerStep(r) \/ WebhookStep(r) \/ Abort(r)
  \/ \E s \in Subs :
       \/ Pay(s) \/ Renew(s) \/ End(s) \/ Deleted(s)
       \/ \E status \in Running : Change(s, status) \/ Updated(s, status)

Spec == Init /\ [][Next]_vars

(* Stripe repeats a delivery until it is answered with success, a request  *)
(* goes on or dies, and of one event's deliveries not every one dies at    *)
(* the same statement.                                                     *)
FairSpec ==
  /\ Spec
  /\ \A r \in Requests : WF_vars(OwnerStep(r) \/ WebhookStep(r) \/ Abort(r))
  /\ \A s \in Subs :
       /\ SF_vars(\E r \in Requests : PaidFind(r, s))
       /\ SF_vars(\E r \in Requests : InvoiceFind(r, s))
       /\ WF_vars(s \in owed /\ Deleted(s))
       /\ \A r \in Requests :
            /\ SF_vars(req[r].sub = s /\ PaidActivate(r))
            /\ SF_vars(req[r].sub = s /\ PaidRecord(r))
            /\ SF_vars(req[r].sub = s /\ InvoiceRecord(r))

-----------------------------------------------------------------------------
(* Properties.                                                             *)

CancelSteps == {"cancel.stripe", "cancel.update"}
PaidSteps == {"paid.activate", "paid.record", "paid.confirm"}
OtherSteps == {"idle", "read.insert", "checkout.insert", "checkout.customer",
               "checkout.session"}
RequestState ==
  [pc : OtherSteps, sub : {Null}, type : {Null}]
  \cup [pc : CancelSteps, sub : Subs, type : {Null}]
  \cup [pc : PaidSteps, sub : Subs, type : {"checkout"}]
  \cup [pc : {"invoice.record"}, sub : Subs, type : {"invoice"}]

(* Types of the tables, of Stripe's side and of the requests.              *)
TypeOK ==
  /\ row \in Subscription \cup {Null}
  /\ payments \subseteq Charges
  /\ confirmed \in [Charges -> Nat]
  /\ stripe \in [Subs -> StripeStatus]
  /\ events \subseteq Event
  /\ owed \subseteq Subs
  /\ req \in [Requests -> RequestState]

(* A checkout is recorded as paid only when the organization has been put  *)
(* on a subscription (payments.service.ts:135-151): whatever dies between  *)
(* the two statements, nobody's payment is in the history with the         *)
(* organization left without one, for Stripe would not deliver it again.   *)
RecordedIsActivated ==
  \A s \in Subs : On("checkout", s) \in payments =>
    row # Null /\ row.sub # Null /\ row.customer

(* The organization loses the plan only when Stripe has reported that the  *)
(* very subscription it is on is unpaid or over (payments.service.ts:160-  *)
(* 198, subscriptions.service.ts:88-99): a late event, or a late           *)
(* cancellation, of an earlier subscription does not end a new one.        *)
WithdrawnOnlyIfLapsed ==
  [][row # Null /\ row.plan = "pro" /\ row'.plan # "pro" =>
       \E type \in {"past_due", "deleted"} : On(type, row.sub) \in events]_row

(* Each charge is recorded once, and payment.success is emitted for it at  *)
(* most once and only after that (payments.service.ts:106-110, 144-157,    *)
(* 207-225), however often and concurrently Stripe delivers its event and  *)
(* wherever a delivery dies.                                               *)
History == INSTANCE Ledger WITH charged <- events \cap Charges,
                                recorded <- payments
ImplementsLedger == History!Spec

(* A charge Stripe has made reaches the payment history in the end.        *)
PaidIsRecorded ==
  \A c \in Charges : c \in events ~> c \in payments

(* A subscription that has ended at Stripe is taken off the organization,  *)
(* though the request that cancelled it may die before it writes           *)
(* (subscriptions.service.ts:95-98, payments.service.ts:193-198).          *)
CancelReachesRow ==
  \A s \in Subs :
    s \in owed ~> ~(row # Null /\ row.sub = s /\ row.plan = "pro")

(* Claimed by subscriptions.service.ts:50, "Organization already has an    *)
(* active pro subscription": a second one is refused.                      *)
OneSubscription ==
  \A s, t \in Subs : stripe[s] = "active" /\ stripe[t] = "active" => s = t

(* Claimed by src/README.md:221, "Cancel active subscription immediately": *)
(* a cancelled subscription does not come back.                            *)
CancelledStays ==
  [][\A s \in Subs :
       row # Null /\ row.sub = s /\ row.status = "cancelled" =>
         row'.sub # s \/ row'.status = "cancelled"]_row
=============================================================================
