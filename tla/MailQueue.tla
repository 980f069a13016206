------------------------------ MODULE MailQueue -----------------------------
(***************************************************************************)
(* Delivery of e-mail (notifications.service.ts, email.processor.ts,       *)
(* email-sender.service.ts and the listeners that call them).  An event    *)
(* has one or two mails sent, by a call to Resend from the listener or,    *)
(* if EMAIL_QUEUE_ENABLED, through a BullMQ queue in Redis whose worker,   *)
(* in the same process, makes the calls.  The process may die and start    *)
(* again; the queue stays.                                                 *)
(***************************************************************************)
EXTENDS Integers, Sequences, FiniteSets

CONSTANTS
  Mails          \* mails by id: a bound on how many are ever asked for

Attempts == 3    \* attempts, in the options of each job
MaxStalls == 1   \* BullMQ's default for how often a job may lose its worker

VARIABLES
  queueEnabled,  \* mail.queueEnabled, read when the process starts
  mail,          \* mail[m]: where mail m is, and its counters
  line,          \* the queue's waiting list
  entered        \* the mails in the order in which they were queued: history

mailVars == <<queueEnabled, mail, line, entered>>

NewMail == [pc |-> "none", calls |-> 0, fails |-> 0, stalls |-> 0, copies |-> 0]

MailInit ==
  /\ queueEnabled \in BOOLEAN
  /\ mail = [m \in Mails |-> NewMail]
  /\ line = <<>>
  /\ entered = <<>>

Is(m, step) == mail[m].pc = step
Got == {0, 1}    \* copies a call brings

To(job, pc) == [job EXCEPT !.pc = pc]
Called(job) == [job EXCEPT !.calls = @ + 1]
Failed(job) == [job EXCEPT !.fails = @ + 1]
Stalled(job) == [job EXCEPT !.stalls = @ + 1]
Brought(job, got) == [job EXCEPT !.copies = @ + got]

-----------------------------------------------------------------------------
(* Listeners.                                                              *)

(* An event is emitted; its listener will be called with some mails to     *)
(* send (two for auth.registered, else one).                               *)
Emitted(set) ==
  [m \in Mails |-> IF m \in set THEN To(mail[m], "emitted") ELSE mail[m]]
EmitMails(set) ==
  /\ \A m \in set : Is(m, "none")
  /\ mail' = Emitted(set)
  /\ UNCHANGED <<queueEnabled, line, entered>>

(* The call of the sender from the listener ...                            *)
CallDirectly(m) ==
  /\ ~queueEnabled
  /\ Is(m, "emitted")
  /\ mail' = [mail EXCEPT ![m] = To(Called(@), "calling")]
  /\ UNCHANGED <<queueEnabled, line, entered>>

(* ... and its end: an exception is logged and the mail is lost, though    *)
(* Resend may have taken it.                                               *)
EndDirectly(m) ==
  /\ Is(m, "calling")
  /\ \/ mail' = [mail EXCEPT ![m] = To(Brought(@, 1), "sent")]
     \/ \E got \in Got :
          mail' = [mail EXCEPT ![m] = To(Brought(@, got), "lost")]
  /\ UNCHANGED <<queueEnabled, line, entered>>

(* Mutant: the newest job is the first to be taken.                        *)
InFront(m) == <<m>> \o line

(* The job goes behind those that wait.                                    *)
Behind(m) == Append(line, m)

AddToQueue(m) ==
  /\ queueEnabled
  /\ Is(m, "emitted")
  /\ mail' = [mail EXCEPT ![m] = To(@, "waiting")]
  /\ line' = Behind(m)
  /\ entered' = Append(entered, m)
  /\ UNCHANGED queueEnabled

(* A listener finds no organization or owner, or gets an exception before  *)
(* the mail is sent or queued.                                             *)
ForgetMail(m) ==
  /\ Is(m, "emitted")
  /\ mail' = [mail EXCEPT ![m] = To(@, "lost")]
  /\ UNCHANGED <<queueEnabled, line, entered>>

-----------------------------------------------------------------------------
(* The queue and its worker, which processes one job at a time.            *)

(* Mutant: the job stays in the list while it is processed.                *)
PeekJob ==
  /\ line # <<>>
  /\ \A m \in Mails : ~Is(m, "active")
  /\ mail' = [mail EXCEPT ![Head(line)] = To(Called(@), "active")]
  /\ UNCHANGED <<queueEnabled, line, entered>>

TakeJob ==
  /\ line # <<>>
  /\ \A m \in Mails : ~Is(m, "active")
  /\ mail' = [mail EXCEPT ![Head(line)] = To(Called(@), "active")]
  /\ line' = Tail(line)
  /\ UNCHANGED <<queueEnabled, entered>>

JobCompletes(m) ==
  /\ Is(m, "active")
  /\ mail' = [mail EXCEPT ![m] = To(Brought(@, 1), "sent")]
  /\ UNCHANGED <<queueEnabled, line, entered>>

(* The sender throws: another attempt after a delay, or none.              *)
AttemptsLeft(m) == mail[m].fails + 1 < Attempts
JobFails(m) ==
  /\ Is(m, "active")
  /\ \E got \in Got :
       mail' = [mail EXCEPT ![m] =
         To(Failed(Brought(@, got)), IF AttemptsLeft(m) THEN "delayed" ELSE "failed")]
  /\ UNCHANGED <<queueEnabled, line, entered>>

(* Mutant: nothing takes a job out of the delayed ones.                    *)
DelayLasts(m) ==
  /\ Is(m, "delayed")
  /\ UNCHANGED mailVars

DelayEnds(m) ==
  /\ Is(m, "delayed")
  /\ mail' = [mail EXCEPT ![m] = To(@, "waiting")]
  /\ line' = Append(line, m)
  /\ UNCHANGED <<queueEnabled, entered>>

(* A job whose worker is gone goes to the head of the list, once.          *)
RecoverJob(m) ==
  /\ Is(m, "stalled")
  /\ IF mail[m].stalls < MaxStalls
     THEN /\ mail' = [mail EXCEPT ![m] = To(Stalled(@), "waiting")]
          /\ line' = <<m>> \o line
     ELSE /\ mail' = [mail EXCEPT ![m] = To(@, "failed")]
          /\ UNCHANGED line
  /\ UNCHANGED <<queueEnabled, entered>>

(* Mutant: a job taken from the queue is not kept there.                   *)
AfterDeathTaken(pc) ==
  IF pc \in {"emitted", "calling", "active"} THEN "lost" ELSE pc

(* The process dies: what it held in memory is lost.                       *)
AfterDeath(pc) ==
  CASE pc \in {"emitted", "calling"} -> "lost"
    [] pc = "active" -> "stalled"
    [] OTHER -> pc

Calling == {m \in Mails : mail[m].pc \in {"calling", "active"}}
Survivors(arrived) ==
  [m \in Mails |-> To(Brought(mail[m], IF m \in arrived THEN 1 ELSE 0),
                      AfterDeath(mail[m].pc))]
Die ==
  /\ \E arrived \in SUBSET Calling : mail' = Survivors(arrived)
  /\ UNCHANGED <<queueEnabled, line, entered>>

Listens(m) == CallDirectly(m) \/ AddToQueue(m) \/ ForgetMail(m)
Processes(m) == JobCompletes(m) \/ JobFails(m)
MailStep(m) ==
  \/ Listens(m) \/ EndDirectly(m) \/ Processes(m) \/ DelayEnds(m) \/ RecoverJob(m)

Pairs == {set \in SUBSET Mails : Cardinality(set) \in {1, 2}}

MailNext ==
  \/ \E set \in Pairs : EmitMails(set)
  \/ \E m \in Mails : MailStep(m)
  \/ TakeJob
  \/ Die

MailSpec == MailInit /\ [][MailNext]_mailVars

(* Listeners run, calls to Resend end, and BullMQ's worker goes on.        *)
MailFairness ==
  /\ \A m \in Mails : WF_mailVars(MailStep(m))
  /\ WF_mailVars(TakeJob)

-----------------------------------------------------------------------------
(* Properties.                                                             *)

Places == {"none", "emitted", "calling", "waiting", "active", "delayed",
           "stalled", "sent", "failed", "lost"}
(* Counters and places have their types, and the waiting list is that of   *)
(* the waiting jobs, each in it once.                                      *)
MailTypeOK ==
  /\ queueEnabled \in BOOLEAN
  /\ mail \in [Mails -> [pc : Places, calls : Nat, fails : Nat, stalls : Nat,
                         copies : Nat]]
  /\ line \in Seq(Mails) /\ entered \in Seq(Mails)
  /\ \A m \in Mails : Is(m, "waiting") <=> \E i \in DOMAIN line : line[i] = m
  /\ \A i, j \in DOMAIN line : line[i] = line[j] => i = j

(* Delivery keeps what Outbox promises: a queued mail survives the death   *)
(* of the process and is given up only after several calls                 *)
(* (notifications.service.ts:34-37), and neither mode sends without bound. *)
fate == [m \in Mails |->
  CASE mail[m].pc \in {"emitted", "calling"} -> "held"
    [] mail[m].pc \in {"waiting", "active", "delayed", "stalled"} -> "stored"
    [] mail[m].pc \in {"failed", "lost"} -> "gone"
    [] OTHER -> mail[m].pc]
calls == [m \in Mails |-> mail[m].calls]
copies == [m \in Mails |-> mail[m].copies]

Mailing == INSTANCE Outbox WITH
  Patience <- MaxStalls + 1, MaxCalls <- Attempts + MaxStalls
ImplementsOutbox == Mailing!Spec

(* A mail reaches Resend before one queued earlier only if a call for the  *)
(* earlier one failed or was cut off by a death of the process             *)
(* (email.processor.ts:23-68): a newer verification code does not          *)
(* otherwise arrive before an older one.                                   *)
OvertakenOnlyIfFailed ==
  \A i, j \in DOMAIN entered :
    i < j /\ Is(entered[j], "sent") /\ ~Is(entered[i], "sent") =>
      LET earlier == mail[entered[i]]
      IN earlier.fails > 0 \/ earlier.stalls > 0 \/ earlier.pc = "stalled"

(* Whatever is asked for is in the end sent, or given up: nothing stays in *)
(* the queue for ever, though the process may die.                         *)
MailSettles ==
  \A m \in Mails : Is(m, "emitted") ~> mail[m].pc \in {"sent", "failed", "lost"}
=============================================================================
