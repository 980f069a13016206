--------------------------- MODULE MailQueueProofs --------------------------
(***************************************************************************)
(* Theorems about MailQueue, for any number of mails.                      *)
(***************************************************************************)
EXTENDS MailQueue, TLAPS

Job == [pc : Places, calls : Nat, fails : Nat, stalls : Nat, copies : Nat]

Stored == {"waiting", "active", "delayed", "stalled"}

(* The calls made for a mail are those that failed, those cut off by a     *)
(* death of the process and the one in progress, and each brought a copy   *)
(* at most.                                                                *)
Accounted(j) ==
  /\ j.pc \in {"none", "emitted"} =>
       j.calls = 0 /\ j.copies = 0 /\ j.fails = 0 /\ j.stalls = 0
  /\ j.pc = "calling" => j.calls = 1 /\ j.copies = 0
  /\ j.pc \in Stored =>
       /\ j.fails < Attempts
       /\ j.stalls <= MaxStalls
       /\ j.calls = j.fails + j.stalls + (IF j.pc \in {"active", "stalled"} THEN 1 ELSE 0)
       /\ j.copies <= j.fails + j.stalls + (IF j.pc = "stalled" THEN 1 ELSE 0)

(* The line holds the waiting jobs, each once.                             *)
LineIs(seq, waiting) ==
  /\ seq \in Seq(Mails)
  /\ \A m \in Mails : m \in waiting <=> \E i \in DOMAIN seq : seq[i] = m
  /\ \A i, j \in DOMAIN seq : seq[i] = seq[j] => i = j
Waiting == {m \in Mails : mail[m].pc = "waiting"}

MailInv ==
  /\ queueEnabled \in BOOLEAN
  /\ mail \in [Mails -> Job]
  /\ \A m \in Mails : Accounted(mail[m])
  /\ LineIs(line, Waiting)
  /\ entered \in Seq(Mails)

-----------------------------------------------------------------------------
(* The waiting list.                                                       *)

LEMMA LineAppend ==
  ASSUME NEW seq, NEW waiting, LineIs(seq, waiting), NEW m \in Mails, m \notin waiting
  PROVE  LineIs(Append(seq, m), waiting \cup {m})
<1> DEFINE new == Append(seq, m)
           n == Len(seq)
<1>1. seq \in Seq(Mails) /\ n \in Nat /\ DOMAIN seq = 1 .. n
  BY DEF LineIs
<1>2. /\ new \in Seq(Mails) /\ DOMAIN new = 1 .. n + 1 /\ new[n + 1] = m
      /\ \A i \in 1 .. n : new[i] = seq[i]
  BY <1>1
<1> HIDE DEF new, n
<1>3. \A i \in 1 .. n : seq[i] # m
  BY <1>1 DEF LineIs
<1>4. \A k \in Mails : k \in waiting \cup {m} <=> \E i \in 1 .. n + 1 : new[i] = k
  <2>1. ASSUME NEW k \in Mails, k \in waiting \cup {m} PROVE \E i \in 1 .. n + 1 : new[i] = k
    <3>1. CASE k = m
      BY <1>1, <1>2, <3>1
    <3>2. CASE k \in waiting
      <4>1. PICK i \in 1 .. n : seq[i] = k
        BY <1>1, <3>2 DEF LineIs
      <4> QED BY <1>1, <1>2, <4>1
    <3> QED BY <2>1, <3>1, <3>2
  <2>2. ASSUME NEW k \in Mails, NEW i \in 1 .. n + 1, new[i] = k PROVE k \in waiting \cup {m}
    <3>1. CASE i = n + 1
      BY <1>2, <2>2, <3>1
    <3>2. CASE i \in 1 .. n
      BY <1>1, <1>2, <2>2, <3>2 DEF LineIs
    <3> QED BY <1>1, <3>1, <3>2
  <2> QED BY <2>1, <2>2
<1>5. \A i, j \in 1 .. n + 1 : new[i] = new[j] => i = j
  <2>1. \A i, j \in 1 .. n : seq[i] = seq[j] => i = j
    BY <1>1 DEF LineIs
  <2> QED BY <1>1, <1>2, <1>3, <2>1
<1> QED BY <1>2, <1>4, <1>5 DEF LineIs, new

LEMMA LinePush ==
  ASSUME NEW seq, NEW waiting, LineIs(seq, waiting), NEW m \in Mails, m \notin waiting
  PROVE  LineIs(<<m>> \o seq, waiting \cup {m})
<1> DEFINE new == <<m>> \o seq
           n == Len(seq)
<1>1. seq \in Seq(Mails) /\ n \in Nat /\ DOMAIN seq = 1 .. n
  BY DEF LineIs
<1>2. /\ new \in Seq(Mails) /\ DOMAIN new = 1 .. n + 1 /\ new[1] = m
      /\ \A i \in 2 .. n + 1 : new[i] = seq[i - 1]
  BY <1>1
<1> HIDE DEF new, n
<1>3. \A i \in 1 .. n : seq[i] # m
  BY <1>1 DEF LineIs
<1>4. \A k \in Mails : k \in waiting \cup {m} <=> \E i \in 1 .. n + 1 : new[i] = k
  <2>1. ASSUME NEW k \in Mails, k \in waiting \cup {m} PROVE \E i \in 1 .. n + 1 : new[i] = k
    <3>1. CASE k = m
      BY <1>1, <1>2, <3>1
    <3>2. CASE k \in waiting
      <4>1. PICK i \in 1 .. n : seq[i] = k
        BY <1>1, <3>2 DEF LineIs
      <4> DEFINE next == i + 1
      <4>2. next \in 2 .. n + 1 /\ next \in 1 .. n + 1 /\ next - 1 = i
        BY <1>1
      <4> HIDE DEF next
      <4>3. new[next] = k
        BY <1>2, <4>1, <4>2
      <4> QED BY <4>2, <4>3
    <3> QED BY <2>1, <3>1, <3>2
  <2>2. ASSUME NEW k \in Mails, NEW i \in 1 .. n + 1, new[i] = k PROVE k \in waiting \cup {m}
    <3>1. CASE i = 1
      BY <1>2, <2>2, <3>1
    <3>2. CASE i \in 2 .. n + 1
      <4>1. i - 1 \in 1 .. n
        BY <1>1, <3>2
      <4> QED BY <1>1, <1>2, <2>2, <3>2, <4>1 DEF LineIs
    <3> QED BY <1>1, <3>1, <3>2
  <2> QED BY <2>1, <2>2
<1>5. \A i, j \in 1 .. n + 1 : new[i] = new[j] => i = j
  <2>1. \A i, j \in 1 .. n : seq[i] = seq[j] => i = j
    BY <1>1 DEF LineIs
  <2>2. \A i \in 2 .. n + 1 : i - 1 \in 1 .. n
    BY <1>1
  <2>3. ASSUME NEW i \in 1 .. n + 1, NEW j \in 1 .. n + 1, new[i] = new[j] PROVE i = j
    <3>1. CASE i = 1 /\ j = 1
      BY <3>1
    <3>2. CASE i \in 2 .. n + 1 /\ j \in 2 .. n + 1
      <4>1. i - 1 \in 1 .. n /\ j - 1 \in 1 .. n /\ seq[i - 1] = seq[j - 1]
        BY <1>2, <2>2, <2>3, <3>2
      <4>2. i - 1 = j - 1
        BY <2>1, <4>1
      <4> QED BY <1>1, <4>2
    <3>3. CASE i = 1 /\ j \in 2 .. n + 1
      BY <1>2, <1>3, <2>2, <2>3, <3>3
    <3>4. CASE j = 1 /\ i \in 2 .. n + 1
      BY <1>2, <1>3, <2>2, <2>3, <3>4
    <3> QED BY <1>1, <3>1, <3>2, <3>3, <3>4
  <2> QED BY <2>3
<1> QED BY <1>2, <1>4, <1>5 DEF LineIs, new

LEMMA LineTake ==
  ASSUME NEW seq, NEW waiting, LineIs(seq, waiting), seq # <<>>
  PROVE  /\ Head(seq) \in Mails /\ Head(seq) \in waiting
         /\ LineIs(Tail(seq), waiting \ {Head(seq)})
<1> DEFINE new == Tail(seq)
           n == Len(seq)
           h == Head(seq)
<1>1. seq \in Seq(Mails) /\ n \in Nat /\ n > 0 /\ DOMAIN seq = 1 .. n /\ h = seq[1] /\ h \in Mails
  BY DEF LineIs
<1>2. /\ new \in Seq(Mails) /\ DOMAIN new = 1 .. n - 1
      /\ \A i \in 1 .. n - 1 : new[i] = seq[i + 1]
  BY <1>1
<1>3. h \in waiting
  BY <1>1 DEF LineIs
<1> HIDE DEF new, n, h
<1>4. \A i, j \in 1 .. n : seq[i] = seq[j] => i = j
  BY <1>1 DEF LineIs
<1>5. \A k \in Mails : k \in waiting \ {h} <=> \E i \in 1 .. n - 1 : new[i] = k
  <2>1. ASSUME NEW k \in Mails, k \in waiting, k # h PROVE \E i \in 1 .. n - 1 : new[i] = k
    <3>1. PICK i \in 1 .. n : seq[i] = k
      BY <1>1, <2>1 DEF LineIs
    <3>2. i # 1
      BY <1>1, <2>1, <3>1
    <3>3. i - 1 \in 1 .. n - 1 /\ (i - 1) + 1 = i
      BY <1>1, <3>2
    <3> QED BY <1>2, <3>1, <3>3
  <2>2. ASSUME NEW k \in Mails, NEW i \in 1 .. n - 1, new[i] = k PROVE k \in waiting /\ k # h
    <3>1. i + 1 \in 1 .. n /\ 1 \in 1 .. n /\ i + 1 # 1 /\ seq[i + 1] = k
      BY <1>1, <1>2, <2>2
    <3> QED BY <1>1, <1>4, <3>1 DEF LineIs
  <2> QED BY <2>1, <2>2
<1>6. \A i, j \in 1 .. n - 1 : new[i] = new[j] => i = j
  <2>1. \A i \in 1 .. n - 1 : i + 1 \in 1 .. n
    BY <1>1
  <2>2. ASSUME NEW i \in 1 .. n - 1, NEW j \in 1 .. n - 1, new[i] = new[j] PROVE i = j
    <3>1. i + 1 = j + 1
      BY <1>2, <1>4, <2>1, <2>2
    <3> QED BY <1>1, <3>1
  <2> QED BY <2>2
<1> QED BY <1>1, <1>2, <1>3, <1>5, <1>6 DEF LineIs, new, h

-----------------------------------------------------------------------------
(* One step of one mail.                                                   *)

(* A step that changes one mail and keeps the line in order keeps the      *)
(* invariant.                                                              *)
LEMMA OneMail ==
  ASSUME MailInv, NEW m \in Mails, NEW j \in Job, Accounted(j),
         mail' = [mail EXCEPT ![m] = j], queueEnabled' = queueEnabled,
         entered' \in Seq(Mails),
         LineIs(line', (Waiting \ {m}) \cup (IF j.pc = "waiting" THEN {m} ELSE {}))
  PROVE  MailInv'
<1>1. mail' \in [Mails -> Job] /\ mail'[m] = j /\ \A k \in Mails : k # m => mail'[k] = mail[k]
  BY DEF MailInv
<1>2. \A k \in Mails : Accounted(mail[k])'
  BY <1>1 DEF MailInv, Accounted
<1>3. Waiting' = (Waiting \ {m}) \cup (IF j.pc = "waiting" THEN {m} ELSE {})
  BY <1>1 DEF Waiting
<1> QED BY <1>1, <1>2, <1>3 DEF MailInv, LineIs

(* What Outbox sees of one mail.                                           *)
LEMMA FateIs ==
  ASSUME NEW m \in Mails
  PROVE  /\ calls[m] = mail[m].calls /\ copies[m] = mail[m].copies
         /\ mail[m].pc \in {"emitted", "calling"} => fate[m] = "held"
         /\ mail[m].pc \in Stored => fate[m] = "stored"
         /\ mail[m].pc \in {"failed", "lost"} => fate[m] = "gone"
         /\ mail[m].pc \in {"none", "sent"} => fate[m] = mail[m].pc
BY DEF fate, calls, copies, Stored

LEMMA FateNext ==
  ASSUME NEW m \in Mails
  PROVE  /\ calls'[m] = mail'[m].calls /\ copies'[m] = mail'[m].copies
         /\ mail'[m].pc \in {"emitted", "calling"} => fate'[m] = "held"
         /\ mail'[m].pc \in Stored => fate'[m] = "stored"
         /\ mail'[m].pc \in {"failed", "lost"} => fate'[m] = "gone"
         /\ mail'[m].pc \in {"none", "sent"} => fate'[m] = mail'[m].pc
BY DEF fate, calls, copies, Stored

Moves(m) ==
  \/ Mailing!Hand(m) \/ Mailing!Store(m) \/ Mailing!Try(m) \/ Mailing!Settle(m)
  \/ fate'[m] = fate[m] /\ Mailing!Stays(m)

LEMMA OneMoves ==
  ASSUME mail \in [Mails -> Job], NEW m \in Mails, NEW j,
         mail' = [mail EXCEPT ![m] = j], Moves(m)
  PROVE  Mailing!Next
<1>1. ASSUME NEW k \in Mails, k # m PROVE Moves(k)
  <2>1. mail'[k] = mail[k]
    BY <1>1
  <2>2. fate'[k] = fate[k] /\ calls'[k] = calls[k] /\ copies'[k] = copies[k]
    BY <2>1 DEF fate, calls, copies
  <2> QED BY <2>2 DEF Moves, Mailing!Stays
<1> QED BY <1>1 DEF Mailing!Next, Moves

Kept == MailInv' /\ Mailing!Next

(* What each update of a job leaves.                                       *)
Has(j, pc, made, failed, stalled, brought) ==
  /\ j \in Job /\ j.pc = pc /\ j.calls = made /\ j.fails = failed
  /\ j.stalls = stalled /\ j.copies = brought

LEMMA JobTo ==
  ASSUME NEW o \in Job, NEW p \in Places
  PROVE  Has(To(o, p), p, o.calls, o.fails, o.stalls, o.copies)
BY DEF Job, Has, To

LEMMA JobCalled ==
  ASSUME NEW o \in Job
  PROVE  Has(Called(o), o.pc, o.calls + 1, o.fails, o.stalls, o.copies)
BY DEF Job, Has, Called

LEMMA JobFailed ==
  ASSUME NEW o \in Job
  PROVE  Has(Failed(o), o.pc, o.calls, o.fails + 1, o.stalls, o.copies)
BY DEF Job, Has, Failed

LEMMA JobStalled ==
  ASSUME NEW o \in Job
  PROVE  Has(Stalled(o), o.pc, o.calls, o.fails, o.stalls + 1, o.copies)
BY DEF Job, Has, Stalled

LEMMA JobBrought ==
  ASSUME NEW o \in Job, NEW got \in Nat
  PROVE  Has(Brought(o, got), o.pc, o.calls, o.fails, o.stalls, o.copies + got)
BY DEF Job, Has, Brought

LEMMA JobsStep ==
  ASSUME NEW o \in Job, NEW p \in Places
  PROVE  /\ Has(To(Called(o), p), p, o.calls + 1, o.fails, o.stalls, o.copies)
         /\ Has(To(Stalled(o), p), p, o.calls, o.fails, o.stalls + 1, o.copies)
         /\ \A got \in Nat :
              /\ Has(To(Brought(o, got), p), p, o.calls, o.fails, o.stalls, o.copies + got)
              /\ Has(To(Failed(Brought(o, got)), p), p,
                     o.calls, o.fails + 1, o.stalls, o.copies + got)
<1>1. Has(To(Called(o), p), p, o.calls + 1, o.fails, o.stalls, o.copies)
  BY JobCalled, JobTo DEF Has
<1>2. Has(To(Stalled(o), p), p, o.calls, o.fails, o.stalls + 1, o.copies)
  BY JobStalled, JobTo DEF Has
<1>3. ASSUME NEW got \in Nat
      PROVE  /\ Has(To(Brought(o, got), p), p, o.calls, o.fails, o.stalls, o.copies + got)
             /\ Has(To(Failed(Brought(o, got)), p), p,
                    o.calls, o.fails + 1, o.stalls, o.copies + got)
  <2>1. Has(Brought(o, got), o.pc, o.calls, o.fails, o.stalls, o.copies + got)
    BY JobBrought
  <2>2. Has(Failed(Brought(o, got)), o.pc, o.calls, o.fails + 1, o.stalls, o.copies + got)
    BY <2>1, JobFailed DEF Has
  <2> QED BY <2>1, <2>2, JobTo DEF Has
<1> QED BY <1>1, <1>2, <1>3

LEMMA OneStep ==
  ASSUME MailInv, NEW m \in Mails, NEW j \in Job, Accounted(j),
         mail' = [mail EXCEPT ![m] = j], queueEnabled' = queueEnabled,
         entered' \in Seq(Mails),
         LineIs(line', (Waiting \ {m}) \cup (IF j.pc = "waiting" THEN {m} ELSE {})),
         Moves(m)
  PROVE  Kept
<1>1. MailInv'
  BY OneMail
<1>2. mail \in [Mails -> Job]
  BY DEF MailInv
<1> QED BY <1>1, <1>2, OneMoves DEF Kept

(* Facts of a mail at the beginning of a step.                             *)
LEMMA MailIs ==
  ASSUME MailInv, NEW m \in Mails
  PROVE  /\ mail[m] \in Job /\ Accounted(mail[m])
         /\ mail[m].calls \in Nat /\ mail[m].fails \in Nat /\ mail[m].stalls \in Nat
         /\ mail[m].copies \in Nat
         /\ m \in Waiting <=> mail[m].pc = "waiting"
         /\ \A j : mail' = [mail EXCEPT ![m] = j] => mail'[m] = j
BY DEF MailInv, Job, Waiting

(* The line stays when the mail neither waited nor waits.                  *)
LEMMA LineStays ==
  ASSUME MailInv, NEW m \in Mails, mail[m].pc # "waiting", line' = line,
         NEW j, j.pc # "waiting"
  PROVE  LineIs(line', (Waiting \ {m}) \cup (IF j.pc = "waiting" THEN {m} ELSE {}))
<1>1. (Waiting \ {m}) \cup (IF j.pc = "waiting" THEN {m} ELSE {}) = Waiting
  BY DEF Waiting
<1> QED BY <1>1 DEF MailInv

(* A step that leaves the line alone.                                      *)
LEMMA QuietStep ==
  ASSUME MailInv, NEW m \in Mails, NEW j \in Job, Accounted(j),
         mail' = [mail EXCEPT ![m] = j], UNCHANGED <<queueEnabled, line, entered>>,
         mail[m].pc # "waiting", j.pc # "waiting", Moves(m)
  PROVE  Kept
<1>1. entered' \in Seq(Mails)
  BY DEF MailInv
<1>2. LineIs(line', (Waiting \ {m}) \cup (IF j.pc = "waiting" THEN {m} ELSE {}))
  BY LineStays
<1> QED BY <1>1, <1>2, OneStep

LEMMA DirectSteps ==
  ASSUME MailInv, NEW m \in Mails, CallDirectly(m) \/ EndDirectly(m) \/ ForgetMail(m)
  PROVE  Kept
<1> DEFINE o == mail[m]
<1>1. /\ o \in Job /\ Accounted(o) /\ o.calls \in Nat /\ o.copies \in Nat
  BY MailIs
<1>2. {"calling", "sent", "lost"} \subseteq Places
  BY DEF Places
<1>3. CASE CallDirectly(m)
  <2> DEFINE j == To(Called(o), "calling")
  <2>1. /\ o.pc = "emitted" /\ mail' = [mail EXCEPT ![m] = j]
        /\ UNCHANGED <<queueEnabled, line, entered>>
    BY <1>3 DEF CallDirectly, Is
  <2>2. Has(j, "calling", o.calls + 1, o.fails, o.stalls, o.copies)
    BY <1>1, <1>2, JobsStep
  <2>3. o.calls = 0 /\ o.copies = 0
    BY <1>1, <2>1 DEF Accounted
  <2> HIDE DEF j
  <2>4. Accounted(j)
    BY <2>2, <2>3 DEF Accounted, Stored, Has
  <2>5. Moves(m)
    <3>1. mail'[m] = j
      BY <2>1, MailIs
    <3>2. fate[m] = "held" /\ fate'[m] = "held"
      BY <2>1, <2>2, <3>1, FateIs, FateNext DEF Has
    <3>3. calls[m] = 0 /\ calls'[m] = calls[m] + 1 /\ copies'[m] = copies[m]
      BY <2>2, <2>3, <3>1, FateIs, FateNext DEF Has
    <3> QED BY <3>2, <3>3 DEF Moves, Mailing!Try
  <2>6. o.pc # "waiting" /\ j \in Job /\ j.pc # "waiting"
    BY <2>1, <2>2 DEF Has
  <2> QED BY <2>1, <2>4, <2>5, <2>6, QuietStep
<1>4. CASE EndDirectly(m)
  <2>1. /\ o.pc = "calling" /\ o.calls = 1 /\ o.copies = 0
        /\ UNCHANGED <<queueEnabled, line, entered>>
    BY <1>1, <1>4 DEF EndDirectly, Is, Accounted
  <2>2. PICK p \in {"sent", "lost"}, got \in {0, 1} :
          /\ mail' = [mail EXCEPT ![m] = To(Brought(o, got), p)]
          /\ p = "sent" => got = 1
    BY <1>4 DEF EndDirectly, Got
  <2> DEFINE j == To(Brought(o, got), p)
  <2>3. Has(j, p, o.calls, o.fails, o.stalls, o.copies + got)
    BY <1>1, <1>2, JobsStep
  <2>4. mail' = [mail EXCEPT ![m] = j]
    BY <2>2
  <2> HIDE DEF j
  <2>5. Accounted(j)
    BY <2>3 DEF Accounted, Stored, Has
  <2>6. Moves(m)
    <3>1. mail'[m] = j
      BY <2>4, MailIs
    <3>2. /\ fate[m] = "held" /\ (p = "sent" => fate'[m] = "sent")
          /\ (p = "lost" => fate'[m] = "gone")
      BY <2>1, <2>3, <3>1, FateIs, FateNext DEF Has
    <3>3. calls[m] = 1 /\ calls'[m] = 1 /\ copies[m] = 0 /\ copies'[m] = got
      BY <2>1, <2>3, <3>1, FateIs, FateNext DEF Has
    <3> QED BY <2>2, <3>2, <3>3 DEF Moves, Mailing!Settle, Mailing!Arrive, Mailing!Stays
  <2>7. o.pc # "waiting" /\ j \in Job /\ j.pc # "waiting"
    BY <2>1, <2>3 DEF Has
  <2> QED BY <2>1, <2>4, <2>5, <2>6, <2>7, QuietStep
<1>5. CASE ForgetMail(m)
  <2> DEFINE j == To(o, "lost")
  <2>1. /\ o.pc = "emitted" /\ mail' = [mail EXCEPT ![m] = j]
        /\ UNCHANGED <<queueEnabled, line, entered>>
    BY <1>5 DEF ForgetMail, Is
  <2>2. Has(j, "lost", o.calls, o.fails, o.stalls, o.copies)
    BY <1>1, <1>2, JobTo
  <2> HIDE DEF j
  <2>3. Accounted(j)
    BY <2>2 DEF Accounted, Stored, Has
  <2>4. Moves(m)
    <3>1. mail'[m] = j
      BY <2>1, MailIs
    <3>2. fate[m] = "held" /\ fate'[m] = "gone" /\ calls'[m] = calls[m] /\ copies'[m] = copies[m]
      BY <2>1, <2>2, <3>1, FateIs, FateNext DEF Has
    <3> QED BY <3>2 DEF Moves, Mailing!Settle, Mailing!Stays
  <2>5. o.pc # "waiting" /\ j \in Job /\ j.pc # "waiting"
    BY <2>1, <2>2 DEF Has
  <2> QED BY <2>1, <2>3, <2>4, <2>5, QuietStep
<1> QED BY <1>3, <1>4, <1>5

(* A step that puts a mail into the line, at its end or at its head.       *)
LEMMA AddToQueueKeeps ==
  ASSUME MailInv, NEW m \in Mails, AddToQueue(m)
  PROVE  Kept
<1> DEFINE o == mail[m]
           j == To(o, "waiting")
<1>1. o \in Job /\ Accounted(o) /\ o.pc = "emitted" /\ "waiting" \in Places
  BY MailIs DEF AddToQueue, Is, Places
<1>2. /\ mail' = [mail EXCEPT ![m] = j] /\ queueEnabled' = queueEnabled
      /\ line' = Append(line, m) /\ entered' \in Seq(Mails)
  BY DEF AddToQueue, Behind, MailInv
<1>3. Has(j, "waiting", o.calls, o.fails, o.stalls, o.copies)
  BY <1>1, JobTo
<1> HIDE DEF j
<1>4. Accounted(j)
  BY <1>1, <1>3 DEF Accounted, Stored, Has, Attempts, MaxStalls
<1>5. m \notin Waiting
  BY <1>1 DEF Waiting
<1>6. LineIs(line', Waiting \cup {m})
  BY <1>2, <1>5, LineAppend DEF MailInv
<1>7. Waiting \cup {m} = (Waiting \ {m}) \cup (IF j.pc = "waiting" THEN {m} ELSE {})
  BY <1>3 DEF Has
<1>8. Moves(m)
  <2>1. mail'[m] = j
    BY <1>2, MailIs
  <2>2. fate[m] = "held" /\ fate'[m] = "stored" /\ calls[m] = 0
        /\ calls'[m] = calls[m] /\ copies'[m] = copies[m]
    BY <1>1, <1>3, <2>1, FateIs, FateNext DEF Has, Stored, Accounted
  <2> QED BY <2>2 DEF Moves, Mailing!Store, Mailing!Stays
<1> QED BY <1>2, <1>3, <1>4, <1>6, <1>7, <1>8, OneStep DEF Has

LEMMA DelayEndsKeeps ==
  ASSUME MailInv, NEW m \in Mails, DelayEnds(m)
  PROVE  Kept
<1> DEFINE o == mail[m]
           j == To(o, "waiting")
<1>1. o \in Job /\ Accounted(o) /\ o.pc = "delayed" /\ "waiting" \in Places
  BY MailIs DEF DelayEnds, Is, Places
<1>2. /\ mail' = [mail EXCEPT ![m] = j] /\ queueEnabled' = queueEnabled
      /\ line' = Append(line, m) /\ entered' \in Seq(Mails)
  BY DEF DelayEnds, MailInv
<1>3. Has(j, "waiting", o.calls, o.fails, o.stalls, o.copies)
  BY <1>1, JobTo
<1> HIDE DEF j
<1>4. Accounted(j)
  BY <1>1, <1>3 DEF Accounted, Stored, Has
<1>5. m \notin Waiting
  BY <1>1 DEF Waiting
<1>6. LineIs(line', Waiting \cup {m})
  BY <1>2, <1>5, LineAppend DEF MailInv
<1>7. Waiting \cup {m} = (Waiting \ {m}) \cup (IF j.pc = "waiting" THEN {m} ELSE {})
  BY <1>3 DEF Has
<1>8. Moves(m)
  <2>1. mail'[m] = j
    BY <1>2, MailIs
  <2>2. fate[m] = "stored" /\ fate'[m] = "stored"
        /\ calls'[m] = calls[m] /\ copies'[m] = copies[m]
    BY <1>1, <1>3, <2>1, FateIs, FateNext DEF Has, Stored
  <2> QED BY <2>2 DEF Moves, Mailing!Stays
<1> QED BY <1>2, <1>3, <1>4, <1>6, <1>7, <1>8, OneStep DEF Has

(* The first of the line is taken, and a call begins.                      *)
LEMMA TakeJobKeeps ==
  ASSUME MailInv, TakeJob
  PROVE  Kept
<1> DEFINE m == Head(line)
           o == mail[m]
           j == To(Called(o), "active")
<1>1. /\ line # <<>> /\ mail' = [mail EXCEPT ![m] = j] /\ queueEnabled' = queueEnabled
      /\ line' = Tail(line) /\ entered' \in Seq(Mails)
  BY DEF TakeJob, MailInv
<1>2. m \in Mails /\ m \in Waiting /\ LineIs(line', Waiting \ {m})
  BY <1>1, LineTake DEF MailInv
<1>3. o \in Job /\ Accounted(o) /\ o.pc = "waiting" /\ "active" \in Places
  BY <1>2, MailIs DEF Places
<1>4. Has(j, "active", o.calls + 1, o.fails, o.stalls, o.copies)
  BY <1>3, JobsStep
<1>5. mail'[m] = j
  BY <1>1, <1>2, MailIs
<1> HIDE DEF j, m
<1>6. /\ o.calls = o.fails + o.stalls /\ o.fails < Attempts /\ o.stalls <= MaxStalls
      /\ o.copies <= o.fails + o.stalls
      /\ o.calls \in Nat /\ o.fails \in Nat /\ o.stalls \in Nat /\ o.copies \in Nat
  BY <1>2, <1>3, MailIs DEF Accounted, Stored
<1>7. Accounted(j)
  BY <1>4, <1>6 DEF Accounted, Stored, Has
<1>8. Waiting \ {m} = (Waiting \ {m}) \cup (IF j.pc = "waiting" THEN {m} ELSE {})
  BY <1>4 DEF Has
<1>9. Moves(m)
  <2>1. fate[m] = "stored" /\ fate'[m] = "stored" /\ calls[m] = o.calls
        /\ calls'[m] = calls[m] + 1 /\ copies'[m] = copies[m]
    BY <1>2, <1>3, <1>4, <1>5, FateIs, FateNext DEF Has, Stored
  <2>2. calls[m] < Attempts + MaxStalls
    BY <1>6, <2>1 DEF Attempts, MaxStalls
  <2> QED BY <2>1, <2>2 DEF Moves, Mailing!Try
<1> QED BY <1>1, <1>2, <1>4, <1>7, <1>8, <1>9, OneStep DEF Has

(* The call of the worker ends.                                            *)
LEMMA ProcessesKeeps ==
  ASSUME MailInv, NEW m \in Mails, Processes(m)
  PROVE  Kept
<1> DEFINE o == mail[m]
<1>1. /\ o \in Job /\ Accounted(o) /\ o.pc = "active"
      /\ UNCHANGED <<queueEnabled, line, entered>>
  BY MailIs DEF Processes, JobCompletes, JobFails, Is
<1>2. /\ o.calls = o.fails + o.stalls + 1 /\ o.fails < Attempts /\ o.stalls <= MaxStalls
      /\ o.copies <= o.fails + o.stalls
      /\ o.calls \in Nat /\ o.fails \in Nat /\ o.stalls \in Nat /\ o.copies \in Nat
  BY <1>1, MailIs DEF Accounted, Stored
<1>3. {"sent", "delayed", "failed"} \subseteq Places
  BY DEF Places
<1>4. CASE JobCompletes(m)
  <2> DEFINE j == To(Brought(o, 1), "sent")
  <2>1. mail' = [mail EXCEPT ![m] = j] /\ mail'[m] = j
    BY <1>4, MailIs DEF JobCompletes
  <2>2. Has(j, "sent", o.calls, o.fails, o.stalls, o.copies + 1)
    BY <1>1, <1>3, JobsStep
  <2> HIDE DEF j
  <2>3. Accounted(j)
    BY <2>2 DEF Accounted, Stored, Has
  <2>4. Moves(m)
    <3>1. fate[m] = "stored" /\ fate'[m] = "sent" /\ calls[m] = o.calls
          /\ copies[m] = o.copies /\ calls'[m] = calls[m] /\ copies'[m] = copies[m] + 1
      BY <1>1, <2>1, <2>2, FateIs, FateNext DEF Has, Stored
    <3> QED BY <1>2, <3>1 DEF Moves, Mailing!Settle, Mailing!Arrive
  <2> QED BY <1>1, <2>1, <2>2, <2>3, <2>4, QuietStep DEF Has
<1>5. CASE JobFails(m)
  <2> DEFINE p == IF AttemptsLeft(m) THEN "delayed" ELSE "failed"
  <2>1. PICK got \in {0, 1} : mail' = [mail EXCEPT ![m] = To(Failed(Brought(o, got)), p)]
    BY <1>5 DEF JobFails, Got
  <2> DEFINE j == To(Failed(Brought(o, got)), p)
  <2>2. p \in Places /\ mail'[m] = j
    BY <1>3, <2>1, MailIs
  <2>3. \/ p = "delayed" /\ o.fails + 1 < Attempts
        \/ p = "failed" /\ o.fails + 1 >= Attempts
    BY <1>2 DEF AttemptsLeft, Attempts
  <2> HIDE DEF p
  <2>4. Has(j, p, o.calls, o.fails + 1, o.stalls, o.copies + got)
    BY <1>1, <2>2, JobsStep
  <2>5. mail' = [mail EXCEPT ![m] = j]
    BY <2>1
  <2> HIDE DEF j
  <2>6. Accounted(j)
    BY <1>2, <2>3, <2>4 DEF Accounted, Stored, Has
  <2>7. Moves(m)
    <3>1. /\ fate[m] = "stored" /\ calls[m] = o.calls /\ copies[m] = o.copies
          /\ calls'[m] = calls[m] /\ copies'[m] = copies[m] + got
          /\ p = "delayed" => fate'[m] = "stored"
          /\ p = "failed" => fate'[m] = "gone"
      BY <1>1, <2>2, <2>4, FateIs, FateNext DEF Has, Stored
    <3>2. got = 1 => Mailing!Arrive(m)
      BY <1>2, <3>1 DEF Mailing!Arrive
    <3>3. got = 0 => Mailing!Stays(m)
      BY <1>2, <3>1 DEF Mailing!Stays
    <3>4. p = "failed" => calls[m] >= MaxStalls + 1
      BY <1>2, <2>3, <3>1 DEF Attempts, MaxStalls
    <3> QED BY <2>3, <3>1, <3>2, <3>3, <3>4 DEF Moves, Mailing!Settle
  <2>8. j \in Job /\ j.pc # "waiting"
    BY <2>3, <2>4 DEF Has
  <2> QED BY <1>1, <2>5, <2>6, <2>7, <2>8, QuietStep
<1> QED BY <1>4, <1>5 DEF Processes

(* A job whose worker died comes back once, at the head of the line.       *)
LEMMA RecoverJobKeeps ==
  ASSUME MailInv, NEW m \in Mails, RecoverJob(m)
  PROVE  Kept
<1> DEFINE o == mail[m]
<1>1. /\ o \in Job /\ Accounted(o) /\ o.pc = "stalled"
      /\ queueEnabled' = queueEnabled /\ entered' = entered
  BY MailIs DEF RecoverJob, Is
<1>2. /\ o.calls = o.fails + o.stalls + 1 /\ o.fails < Attempts /\ o.stalls <= MaxStalls
      /\ o.copies <= o.fails + o.stalls + 1
      /\ o.calls \in Nat /\ o.fails \in Nat /\ o.stalls \in Nat /\ o.copies \in Nat
  BY <1>1, MailIs DEF Accounted, Stored
<1>3. {"waiting", "failed"} \subseteq Places /\ entered \in Seq(Mails)
  BY DEF Places, MailInv
<1>4. CASE o.stalls < MaxStalls
  <2> DEFINE j == To(Stalled(o), "waiting")
  <2>1. mail' = [mail EXCEPT ![m] = j] /\ mail'[m] = j /\ line' = <<m>> \o line
    BY <1>4, MailIs DEF RecoverJob
  <2>2. Has(j, "waiting", o.calls, o.fails, o.stalls + 1, o.copies)
    BY <1>1, <1>3, JobsStep
  <2> HIDE DEF j
  <2>3. Accounted(j)
    BY <1>2, <1>4, <2>2 DEF Accounted, Stored, Has, MaxStalls
  <2>4. LineIs(line', Waiting \cup {m})
    BY <1>1, <2>1, LinePush DEF MailInv, Waiting
  <2>5. Waiting \cup {m} = (Waiting \ {m}) \cup (IF j.pc = "waiting" THEN {m} ELSE {})
    BY <2>2 DEF Has
  <2>6. Moves(m)
    <3>1. fate[m] = "stored" /\ fate'[m] = "stored"
          /\ calls'[m] = calls[m] /\ copies'[m] = copies[m]
      BY <1>1, <2>1, <2>2, FateIs, FateNext DEF Has, Stored
    <3> QED BY <3>1 DEF Moves, Mailing!Stays
  <2> QED BY <1>1, <1>3, <2>1, <2>2, <2>3, <2>4, <2>5, <2>6, OneStep DEF Has
<1>5. CASE ~(o.stalls < MaxStalls)
  <2> DEFINE j == To(o, "failed")
  <2>1. mail' = [mail EXCEPT ![m] = j] /\ mail'[m] = j /\ line' = line
    BY <1>5, MailIs DEF RecoverJob
  <2>2. Has(j, "failed", o.calls, o.fails, o.stalls, o.copies)
    BY <1>1, <1>3, JobTo
  <2> HIDE DEF j
  <2>3. Accounted(j)
    BY <2>2 DEF Accounted, Stored, Has
  <2>4. Moves(m)
    <3>1. fate[m] = "stored" /\ fate'[m] = "gone" /\ calls[m] = o.calls
          /\ calls'[m] = calls[m] /\ copies'[m] = copies[m]
      BY <1>1, <2>1, <2>2, FateIs, FateNext DEF Has, Stored
    <3>2. calls[m] >= MaxStalls + 1
      BY <1>2, <1>5, <3>1 DEF MaxStalls
    <3> QED BY <3>1, <3>2 DEF Moves, Mailing!Settle, Mailing!Stays
  <2> QED BY <1>1, <2>1, <2>2, <2>3, <2>4, QuietStep DEF Has
<1> QED BY <1>4, <1>5

-----------------------------------------------------------------------------
(* Steps of several mails.                                                 *)

(* A step that leaves the line alone keeps the invariant and is a step of  *)
(* Outbox if each mail's part of it does.                                  *)
LEMMA ManyMails ==
  ASSUME MailInv, UNCHANGED <<queueEnabled, line, entered>>, NEW f,
         mail' = [m \in Mails |-> f[m]],
         \A m \in Mails :
           /\ mail'[m] \in Job /\ Accounted(mail'[m]) /\ Moves(m)
           /\ mail'[m].pc = "waiting" <=> mail[m].pc = "waiting"
  PROVE  Kept
<1>1. mail' \in [Mails -> Job]
  OBVIOUS
<1>2. Waiting' = Waiting
  BY DEF Waiting
<1>3. LineIs(line, Waiting)'
  BY <1>2 DEF MailInv, LineIs
<1>4. \A m \in Mails : Accounted(mail[m])'
  BY DEF Accounted
<1>5. MailInv'
  BY <1>1, <1>3, <1>4 DEF MailInv
<1> QED BY <1>5 DEF Kept, Mailing!Next, Moves

LEMMA EmitMailsKeeps ==
  ASSUME MailInv, NEW set \in SUBSET Mails, EmitMails(set)
  PROVE  Kept
<1> DEFINE f == [m \in Mails |-> IF m \in set THEN To(mail[m], "emitted") ELSE mail[m]]
<1>1. mail' = f /\ f = [m \in Mails |-> f[m]] /\ UNCHANGED <<queueEnabled, line, entered>>
  BY DEF EmitMails, Emitted
<1>2. ASSUME NEW m \in Mails
      PROVE  /\ mail'[m] \in Job /\ Accounted(mail'[m]) /\ Moves(m)
             /\ mail'[m].pc = "waiting" <=> mail[m].pc = "waiting"
  <2> DEFINE o == mail[m]
             j == To(o, "emitted")
  <2>1. o \in Job /\ Accounted(o) /\ "emitted" \in Places
    BY MailIs DEF Places
  <2>2. CASE m \in set
    <3>1. mail'[m] = j /\ o.pc = "none"
      BY <1>1, <2>2 DEF EmitMails, Is
    <3>2. Has(j, "emitted", o.calls, o.fails, o.stalls, o.copies)
      BY <2>1, JobTo
    <3> HIDE DEF j
    <3>3. Accounted(j)
      BY <2>1, <3>1, <3>2 DEF Accounted, Stored, Has
    <3>4. fate[m] = "none" /\ fate'[m] = "held" /\ calls'[m] = calls[m] /\ copies'[m] = copies[m]
      BY <3>1, <3>2, FateIs, FateNext DEF Has
    <3>5. Moves(m)
      BY <3>4 DEF Moves, Mailing!Hand, Mailing!Stays
    <3> QED BY <3>1, <3>2, <3>3, <3>5 DEF Has
  <2>3. CASE m \notin set
    <3>1. mail'[m] = o
      BY <1>1, <2>3
    <3>2. fate'[m] = fate[m] /\ calls'[m] = calls[m] /\ copies'[m] = copies[m]
      BY <3>1 DEF fate, calls, copies
    <3>3. Moves(m)
      BY <3>2 DEF Moves, Mailing!Stays
    <3> QED BY <2>1, <3>1, <3>3
  <2> QED BY <2>2, <2>3
<1> HIDE DEF f
<1> QED BY <1>1, <1>2, ManyMails

(* The process dies during the calls for the mails in arrived and others.  *)
LEMMA DieKeeps ==
  ASSUME MailInv, Die
  PROVE  Kept
<1>1. PICK arrived \in SUBSET Calling : mail' = Survivors(arrived)
  BY DEF Die
<1> DEFINE got(m) == IF m \in arrived THEN 1 ELSE 0
           f == [m \in Mails |-> To(Brought(mail[m], got(m)), AfterDeath(mail[m].pc))]
<1>2. mail' = f /\ f = [m \in Mails |-> f[m]] /\ UNCHANGED <<queueEnabled, line, entered>>
  BY <1>1 DEF Die, Survivors
<1>3. ASSUME NEW m \in Mails
      PROVE  /\ mail'[m] \in Job /\ Accounted(mail'[m]) /\ Moves(m)
             /\ mail'[m].pc = "waiting" <=> mail[m].pc = "waiting"
  <2> DEFINE o == mail[m]
             g == got(m)
             p == AfterDeath(o.pc)
             j == To(Brought(o, g), p)
  <2>1. o \in Job /\ Accounted(o) /\ o.calls \in Nat /\ o.fails \in Nat /\ o.stalls \in Nat
        /\ o.copies \in Nat /\ o.pc \in Places
    BY MailIs DEF Job
  <2>2. /\ g \in {0, 1} /\ g \in Nat
        /\ g = 1 => o.pc \in {"calling", "active"}
    BY DEF Calling
  <2>3. /\ o.pc \in {"emitted", "calling"} => p = "lost"
        /\ o.pc = "active" => p = "stalled"
        /\ o.pc \notin {"emitted", "calling", "active"} => p = o.pc
        /\ p \in Places
    BY <2>1 DEF AfterDeath, Places
  <2>4. mail'[m] = j
    BY <1>2
  <2> HIDE DEF got, g, p
  <2>5. Has(j, p, o.calls, o.fails, o.stalls, o.copies + g)
    BY <2>1, <2>2, <2>3, JobsStep
  <2> HIDE DEF j
  <2>6. /\ j \in Job /\ j.pc = p /\ j.calls = o.calls /\ j.fails = o.fails
        /\ j.stalls = o.stalls /\ j.copies = o.copies + g
    BY <2>5 DEF Has
  <2>7. calls[m] = o.calls /\ copies[m] = o.copies
        /\ calls'[m] = o.calls /\ copies'[m] = o.copies + g
    BY <2>4, <2>6, FateIs, FateNext
  <2>8. CASE o.pc \in {"emitted", "calling"}
    <3>1. p = "lost" /\ fate[m] = "held" /\ fate'[m] = "gone"
      BY <2>3, <2>4, <2>6, <2>8, FateIs, FateNext
    <3>2. Accounted(j)
      BY <2>6, <3>1 DEF Accounted, Stored
    <3>3. g = 1 => Mailing!Arrive(m)
      <4>1. ASSUME g = 1 PROVE o.pc = "calling"
        BY <2>2, <2>8, <4>1
      <4>2. ASSUME g = 1 PROVE o.calls = 1 /\ o.copies = 0
        BY <2>1, <4>1, <4>2 DEF Accounted
      <4> QED BY <2>7, <4>2 DEF Mailing!Arrive
    <3>4. g = 0 => Mailing!Stays(m)
      BY <2>1, <2>7 DEF Mailing!Stays
    <3>5. Moves(m)
      BY <2>2, <3>1, <3>3, <3>4 DEF Moves, Mailing!Settle
    <3> QED BY <2>4, <2>6, <2>8, <3>1, <3>2, <3>5
  <2>9. CASE o.pc = "active"
    <3>1. p = "stalled" /\ fate[m] = "stored" /\ fate'[m] = "stored"
      BY <2>3, <2>4, <2>6, <2>9, FateIs, FateNext DEF Stored
    <3>2. /\ o.calls = o.fails + o.stalls + 1 /\ o.fails < Attempts /\ o.stalls <= MaxStalls
          /\ o.copies <= o.fails + o.stalls
      BY <2>1, <2>9 DEF Accounted, Stored
    <3>3. Accounted(j)
      BY <2>1, <2>2, <2>6, <3>1, <3>2 DEF Accounted, Stored
    <3>4. g = 1 => Mailing!Arrive(m)
      BY <2>1, <2>7, <3>2 DEF Mailing!Arrive
    <3>5. g = 0 => Mailing!Stays(m)
      BY <2>1, <2>7 DEF Mailing!Stays
    <3>6. Moves(m)
      BY <2>2, <3>1, <3>4, <3>5 DEF Moves, Mailing!Settle
    <3> QED BY <2>4, <2>6, <2>9, <3>1, <3>3, <3>6
  <2>10. CASE o.pc \notin {"emitted", "calling", "active"}
    <3>1. p = o.pc /\ g = 0
      BY <2>2, <2>3, <2>10
    <3>2. Accounted(j)
      BY <2>1, <2>6, <3>1 DEF Accounted
    <3>3. fate'[m] = fate[m]
      BY <2>4, <2>6, <3>1 DEF fate
    <3>4. Moves(m)
      BY <2>1, <2>7, <3>1, <3>3 DEF Moves, Mailing!Stays
    <3> QED BY <2>4, <2>6, <3>1, <3>2, <3>4
  <2> QED BY <2>8, <2>9, <2>10
<1> HIDE DEF f
<1> QED BY <1>2, <1>3, ManyMails

-----------------------------------------------------------------------------
(* The order of the line.                                                  *)

InQueue == Stored \cup {"sent", "failed"}

(* A call for the job failed or was cut off by a death of the process.     *)
Troubled(j) == j.fails > 0 \/ j.stalls > 0 \/ j.pc = "stalled"
Fresh(j) == j.pc \in {"waiting", "active"} /\ ~Troubled(j)

Before(seq, a, b) == \A k, l \in DOMAIN seq : seq[k] = a /\ seq[l] = b => k < l

(* Who waits for another attempt, or was given up, has had trouble.        *)
Excused(j) == j.pc \in {"delayed", "failed"} => Troubled(j)

(* Each mail is queued once, and stays in the queue until it is settled.   *)
QueuedOnce ==
  /\ \A m \in Mails : Excused(mail[m])
  /\ \A i, j \in DOMAIN entered : entered[i] = entered[j] => i = j
  /\ \A i \in DOMAIN entered : mail[entered[i]].pc \in InQueue

(* Whatever was queued after a mail whose calls were never in trouble      *)
(* waits, untouched and behind it.                                         *)
FreshFirst ==
  \A i, j \in DOMAIN entered : i < j /\ Fresh(mail[entered[i]]) =>
    /\ mail[entered[j]].pc = "waiting" /\ Fresh(mail[entered[j]])
    /\ Before(line, entered[i], entered[j])

OrderInv == QueuedOnce /\ FreshFirst

LEMMA BeforeAppend ==
  ASSUME NEW seq \in Seq(Mails), NEW m \in Mails, NEW a, NEW b, a # m, Before(seq, a, b)
  PROVE  Before(Append(seq, m), a, b)
<1> DEFINE new == Append(seq, m)
           n == Len(seq)
<1>1. n \in Nat /\ DOMAIN seq = 1 .. n
  OBVIOUS
<1>2. /\ DOMAIN new = 1 .. n + 1 /\ new[n + 1] = m
      /\ \A i \in 1 .. n : new[i] = seq[i]
  BY <1>1
<1> HIDE DEF new, n
<1>3. ASSUME NEW k \in 1 .. n + 1, NEW l \in 1 .. n + 1, new[k] = a, new[l] = b PROVE k < l
  <2>1. k \in 1 .. n
    BY <1>1, <1>2, <1>3
  <2>2. CASE l = n + 1
    BY <1>1, <2>1, <2>2
  <2>3. CASE l \in 1 .. n
    BY <1>1, <1>2, <1>3, <2>1, <2>3 DEF Before
  <2> QED BY <1>1, <2>2, <2>3
<1> QED BY <1>2, <1>3 DEF Before, new

LEMMA BeforePush ==
  ASSUME NEW seq \in Seq(Mails), NEW m \in Mails, NEW a, NEW b, b # m, Before(seq, a, b)
  PROVE  Before(<<m>> \o seq, a, b)
<1> DEFINE new == <<m>> \o seq
           n == Len(seq)
<1>1. n \in Nat /\ DOMAIN seq = 1 .. n
  OBVIOUS
<1>2. /\ DOMAIN new = 1 .. n + 1 /\ new[1] = m
      /\ \A i \in 2 .. n + 1 : new[i] = seq[i - 1]
  BY <1>1
<1> HIDE DEF new, n
<1>3. ASSUME NEW k \in 1 .. n + 1, NEW l \in 1 .. n + 1, new[k] = a, new[l] = b PROVE k < l
  <2>1. l \in 2 .. n + 1
    BY <1>1, <1>2, <1>3
  <2>2. CASE k = 1
    BY <1>1, <2>1, <2>2
  <2>3. CASE k \in 2 .. n + 1
    <3>1. k - 1 \in 1 .. n /\ l - 1 \in 1 .. n /\ seq[k - 1] = a /\ seq[l - 1] = b
      BY <1>1, <1>2, <1>3, <2>1, <2>3
    <3>2. k - 1 < l - 1
      BY <1>1, <3>1 DEF Before
    <3> QED BY <1>1, <3>2
  <2> QED BY <1>1, <2>2, <2>3
<1> QED BY <1>2, <1>3 DEF Before, new

LEMMA BeforeTake ==
  ASSUME NEW seq \in Seq(Mails), seq # <<>>, NEW a, NEW b, Before(seq, a, b)
  PROVE  /\ Before(Tail(seq), a, b)
         /\ (\E k \in DOMAIN seq : seq[k] = a) => Head(seq) # b
<1> DEFINE new == Tail(seq)
           n == Len(seq)
<1>1. n \in Nat /\ n > 0 /\ DOMAIN seq = 1 .. n /\ Head(seq) = seq[1]
  OBVIOUS
<1>2. DOMAIN new = 1 .. n - 1 /\ \A i \in 1 .. n - 1 : new[i] = seq[i + 1]
  BY <1>1
<1> HIDE DEF new, n
<1>3. ASSUME NEW k \in 1 .. n - 1, NEW l \in 1 .. n - 1, new[k] = a, new[l] = b PROVE k < l
  <2>1. k + 1 \in 1 .. n /\ l + 1 \in 1 .. n /\ seq[k + 1] = a /\ seq[l + 1] = b
    BY <1>1, <1>2, <1>3
  <2>2. k + 1 < l + 1
    BY <1>1, <2>1 DEF Before
  <2> QED BY <1>1, <2>2
<1>4. ASSUME NEW k \in 1 .. n, seq[k] = a, Head(seq) = b PROVE FALSE
  <2>1. 1 \in 1 .. n /\ seq[1] = b
    BY <1>1, <1>4
  <2>2. k < 1
    BY <1>1, <1>4, <2>1 DEF Before
  <2> QED BY <1>1, <2>2
<1>5. Before(new, a, b)
  BY <1>2, <1>3 DEF Before
<1> QED BY <1>1, <1>4, <1>5 DEF new

(* What a step does with a mail that was queued: it becomes no fresher.    *)
Ages(m) ==
  /\ Fresh(mail'[m]) => Fresh(mail[m])
  /\ mail[m].pc \in InQueue => mail'[m].pc \in InQueue
  /\ Excused(mail[m]) => Excused(mail'[m])

(* The later of two mails goes on waiting behind the earlier.              *)
StaysBehind(a, b) ==
  Fresh(mail'[a]) /\ mail[b].pc = "waiting" /\ Before(line, a, b) =>
    mail'[b] = mail[b] /\ Before(line', a, b)

LEMMA OrderStep ==
  ASSUME MailInv, OrderInv, entered' = entered, \A m \in Mails : Ages(m),
         \A a, b \in Mails : a # b => StaysBehind(a, b)
  PROVE  OrderInv'
<1>1. entered \in Seq(Mails) /\ \A i \in DOMAIN entered : entered[i] \in Mails
  BY DEF MailInv
<1>2. QueuedOnce'
  <2>1. \A i \in DOMAIN entered : mail'[entered[i]].pc \in InQueue
    BY <1>1 DEF Ages, OrderInv, QueuedOnce
  <2>2. \A m \in Mails : Excused(mail[m])'
    BY DEF Ages, OrderInv, QueuedOnce, Excused, Troubled
  <2> QED BY <2>1, <2>2 DEF OrderInv, QueuedOnce
<1>3. ASSUME NEW i \in DOMAIN entered, NEW j \in DOMAIN entered, i < j, Fresh(mail'[entered[i]])
      PROVE  /\ mail'[entered[j]].pc = "waiting" /\ Fresh(mail'[entered[j]])
             /\ Before(line', entered[i], entered[j])
  <2>1. Fresh(mail[entered[i]])
    BY <1>1, <1>3 DEF Ages
  <2>2. /\ mail[entered[j]].pc = "waiting" /\ Fresh(mail[entered[j]])
        /\ Before(line, entered[i], entered[j])
    BY <1>3, <2>1 DEF OrderInv, FreshFirst
  <2>3. entered[i] # entered[j]
    BY <1>1, <1>3 DEF OrderInv, QueuedOnce
  <2>4. mail'[entered[j]] = mail[entered[j]] /\ Before(line', entered[i], entered[j])
    BY <1>1, <1>3, <2>2, <2>3 DEF StaysBehind
  <2> QED BY <2>2, <2>4
<1>4. FreshFirst'
  BY <1>3 DEF FreshFirst
<1> QED BY <1>2, <1>4 DEF OrderInv

(* A step that leaves the line and those in it alone.                      *)
LEMMA QuietOrder ==
  ASSUME MailInv, OrderInv, UNCHANGED <<line, entered>>, \A m \in Mails : Ages(m),
         \A m \in Mails : mail[m].pc = "waiting" => mail'[m] = mail[m]
  PROVE  OrderInv'
<1>1. \A a, b \in Mails : StaysBehind(a, b)
  BY DEF StaysBehind, Before
<1> QED BY <1>1, OrderStep

LEMMA OneAges ==
  ASSUME mail \in [Mails -> Job], NEW m \in Mails, NEW j, mail' = [mail EXCEPT ![m] = j],
         Fresh(j) => Fresh(mail[m]), Excused(j),
         mail[m].pc \in InQueue => j.pc \in InQueue
  PROVE  \A k \in Mails : Ages(k) /\ (k # m => mail'[k] = mail[k])
BY DEF Ages

(* One mail ages outside the line.                                         *)
LEMMA OneQuiet ==
  ASSUME MailInv, OrderInv, NEW m \in Mails, NEW j, mail' = [mail EXCEPT ![m] = j],
         Fresh(j) => Fresh(mail[m]), Excused(j),
         mail[m].pc \in InQueue => j.pc \in InQueue,
         UNCHANGED <<line, entered>>, mail[m].pc # "waiting"
  PROVE  OrderInv'
<1>1. \A k \in Mails : Ages(k) /\ (k # m => mail'[k] = mail[k])
  BY OneAges DEF MailInv
<1> QED BY <1>1, QuietOrder

LEMMA DirectOrder ==
  ASSUME MailInv, OrderInv, NEW m \in Mails,
         CallDirectly(m) \/ EndDirectly(m) \/ ForgetMail(m)
  PROVE  OrderInv'
<1> DEFINE o == mail[m]
<1>1. o \in Job /\ o.pc \in {"emitted", "calling"} /\ UNCHANGED <<line, entered>>
  BY MailIs DEF CallDirectly, EndDirectly, ForgetMail, Is
<1>2. {"calling", "sent", "lost"} \subseteq Places
  BY DEF Places
<1>3. o.pc \notin InQueue
  BY <1>1 DEF InQueue, Stored
<1>4. ASSUME NEW j, mail' = [mail EXCEPT ![m] = j], j.pc \in {"calling", "sent", "lost"}
      PROVE  OrderInv'
  <2>1. ~Fresh(j) /\ Excused(j)
    BY <1>4 DEF Fresh, Excused
  <2> QED BY <1>1, <1>3, <1>4, <2>1, OneQuiet
<1>5. CASE CallDirectly(m)
  <2> DEFINE j == To(Called(o), "calling")
  <2>1. mail' = [mail EXCEPT ![m] = j] /\ j.pc = "calling"
    BY <1>1, <1>2, <1>5, JobsStep DEF CallDirectly, Has
  <2> HIDE DEF j
  <2> QED BY <1>4, <2>1
<1>6. CASE EndDirectly(m)
  <2>1. PICK p \in {"sent", "lost"}, got \in {0, 1} :
          mail' = [mail EXCEPT ![m] = To(Brought(o, got), p)]
    BY <1>6 DEF EndDirectly, Got
  <2> DEFINE j == To(Brought(o, got), p)
  <2>2. Has(j, p, o.calls, o.fails, o.stalls, o.copies + got)
    BY <1>1, <1>2, JobsStep
  <2>3. mail' = [mail EXCEPT ![m] = j] /\ j.pc = p
    BY <2>1, <2>2 DEF Has
  <2> HIDE DEF j
  <2> QED BY <1>4, <2>3
<1>7. CASE ForgetMail(m)
  <2> DEFINE j == To(o, "lost")
  <2>1. mail' = [mail EXCEPT ![m] = j] /\ j.pc = "lost"
    BY <1>1, <1>2, <1>7, JobTo DEF ForgetMail, Has
  <2> HIDE DEF j
  <2> QED BY <1>4, <2>1
<1> QED BY <1>5, <1>6, <1>7

LEMMA ProcessesOrder ==
  ASSUME MailInv, OrderInv, NEW m \in Mails, Processes(m)
  PROVE  OrderInv'
<1> DEFINE o == mail[m]
<1>1. o \in Job /\ o.pc = "active" /\ UNCHANGED <<line, entered>> /\ o.fails \in Nat
  BY MailIs DEF Processes, JobCompletes, JobFails, Is
<1>2. {"sent", "delayed", "failed"} \subseteq Places
  BY DEF Places
<1>3. ASSUME NEW j, mail' = [mail EXCEPT ![m] = j],
             j.pc = "sent" \/ (j.pc \in {"delayed", "failed"} /\ j.fails > 0)
      PROVE  OrderInv'
  <2>1. ~Fresh(j) /\ Excused(j) /\ j.pc \in InQueue
    BY <1>3 DEF Fresh, Excused, Troubled, InQueue, Stored
  <2> QED BY <1>1, <1>3, <2>1, OneQuiet
<1>4. CASE JobCompletes(m)
  <2> DEFINE j == To(Brought(o, 1), "sent")
  <2>1. Has(j, "sent", o.calls, o.fails, o.stalls, o.copies + 1)
    BY <1>1, <1>2, JobsStep
  <2>2. mail' = [mail EXCEPT ![m] = j] /\ j.pc = "sent"
    BY <1>4, <2>1 DEF JobCompletes, Has
  <2> HIDE DEF j
  <2> QED BY <1>3, <2>2
<1>5. CASE JobFails(m)
  <2> DEFINE p == IF AttemptsLeft(m) THEN "delayed" ELSE "failed"
  <2>1. PICK got \in {0, 1} : mail' = [mail EXCEPT ![m] = To(Failed(Brought(o, got)), p)]
    BY <1>5 DEF JobFails, Got
  <2> DEFINE j == To(Failed(Brought(o, got)), p)
  <2>2. p \in {"delayed", "failed"} /\ p \in Places
    BY <1>2
  <2> HIDE DEF p
  <2>3. Has(j, p, o.calls, o.fails + 1, o.stalls, o.copies + got)
    BY <1>1, <2>2, JobsStep
  <2>4. mail' = [mail EXCEPT ![m] = j]
    BY <2>1
  <2> HIDE DEF j
  <2>5. j.pc \in {"delayed", "failed"} /\ j.fails > 0
    BY <1>1, <2>2, <2>3 DEF Has
  <2> QED BY <1>3, <2>4, <2>5
<1> QED BY <1>4, <1>5 DEF Processes

(* The first of the line is not behind a fresh mail: none is being         *)
(* processed, so such a mail would wait before it.                         *)
LEMMA TakeJobOrder ==
  ASSUME MailInv, OrderInv, TakeJob
  PROVE  OrderInv'
<1> DEFINE m == Head(line)
           o == mail[m]
           j == To(Called(o), "active")
<1>1. /\ line # <<>> /\ mail' = [mail EXCEPT ![m] = j] /\ line' = Tail(line)
      /\ entered' = entered /\ \A k \in Mails : mail[k].pc # "active"
  BY DEF TakeJob, Is
<1>2. m \in Mails /\ o \in Job /\ o.pc = "waiting" /\ "active" \in Places
  BY <1>1, LineTake, MailIs DEF MailInv, Places
<1>3. Has(j, "active", o.calls + 1, o.fails, o.stalls, o.copies)
  BY <1>2, JobsStep
<1> HIDE DEF j
<1>4. /\ Fresh(j) => Fresh(o)
      /\ Excused(j) /\ j.pc \in InQueue
  BY <1>2, <1>3 DEF Has, Fresh, Excused, Troubled, InQueue, Stored
<1>5. \A k \in Mails : Ages(k) /\ (k # m => mail'[k] = mail[k])
  BY <1>1, <1>2, <1>4, OneAges DEF MailInv
<1>6. ASSUME NEW a \in Mails, NEW b \in Mails, a # b, Fresh(mail'[a]),
             mail[b].pc = "waiting", Before(line, a, b)
      PROVE  mail'[b] = mail[b] /\ Before(line', a, b)
  <2>1. Before(line', a, b)
    BY <1>1, <1>6, BeforeTake DEF MailInv, LineIs
  <2>2. CASE a = m
    BY <1>5, <1>6, <2>1, <2>2
  <2>3. CASE a # m
    <3>1. mail[a].pc = "waiting"
      BY <1>1, <1>5, <1>6, <2>3 DEF Fresh
    <3>2. \E k \in DOMAIN line : line[k] = a
      BY <3>1 DEF MailInv, LineIs, Waiting
    <3>3. m # b
      BY <1>1, <1>6, <3>2, BeforeTake DEF MailInv, LineIs
    <3> QED BY <1>5, <2>1, <3>3
  <2> QED BY <2>2, <2>3
<1> HIDE DEF m
<1>7. \A a, b \in Mails : a # b => StaysBehind(a, b)
  BY <1>6 DEF StaysBehind
<1> QED BY <1>1, <1>5, <1>7, OrderStep

(* A mail that returns to the line, at its end or at its head, has had     *)
(* trouble.                                                                *)
LEMMA DelayEndsOrder ==
  ASSUME MailInv, OrderInv, NEW m \in Mails, DelayEnds(m)
  PROVE  OrderInv'
<1> DEFINE o == mail[m]
           j == To(o, "waiting")
<1>1. /\ o \in Job /\ o.pc = "delayed" /\ "waiting" \in Places
      /\ mail' = [mail EXCEPT ![m] = j] /\ line' = Append(line, m) /\ entered' = entered
  BY MailIs DEF DelayEnds, Is, Places
<1>2. Has(j, "waiting", o.calls, o.fails, o.stalls, o.copies)
  BY <1>1, JobTo
<1> HIDE DEF j
<1>3. o.fails > 0 \/ o.stalls > 0
  BY <1>1 DEF OrderInv, QueuedOnce, Excused, Troubled
<1>4. ~Fresh(j) /\ Excused(j) /\ j.pc \in InQueue
  BY <1>2, <1>3 DEF Has, Fresh, Excused, Troubled, InQueue, Stored
<1>5. mail'[m] = j
  BY <1>1, MailIs
<1>6. \A k \in Mails : Ages(k) /\ (k # m => mail'[k] = mail[k])
  BY <1>1, <1>4, OneAges DEF MailInv
<1>7. ASSUME NEW a \in Mails, NEW b \in Mails, Fresh(mail'[a]),
             mail[b].pc = "waiting", Before(line, a, b)
      PROVE  mail'[b] = mail[b] /\ Before(line', a, b)
  <2>1. a # m /\ b # m
    BY <1>1, <1>4, <1>5, <1>7
  <2>2. Before(line', a, b)
    BY <1>1, <1>7, <2>1, BeforeAppend DEF MailInv, LineIs
  <2> QED BY <1>6, <2>1, <2>2
<1>8. \A a, b \in Mails : a # b => StaysBehind(a, b)
  BY <1>7 DEF StaysBehind
<1> QED BY <1>1, <1>6, <1>8, OrderStep

LEMMA RecoverJobOrder ==
  ASSUME MailInv, OrderInv, NEW m \in Mails, RecoverJob(m)
  PROVE  OrderInv'
<1> DEFINE o == mail[m]
<1>1. /\ o \in Job /\ o.pc = "stalled" /\ o.stalls \in Nat /\ entered' = entered
      /\ {"waiting", "failed"} \subseteq Places
  BY MailIs DEF RecoverJob, Is, Places
<1>2. CASE o.stalls < MaxStalls
  <2> DEFINE j == To(Stalled(o), "waiting")
  <2>1. /\ mail' = [mail EXCEPT ![m] = j] /\ mail'[m] = j /\ line' = <<m>> \o line
    BY <1>2, MailIs DEF RecoverJob
  <2>2. Has(j, "waiting", o.calls, o.fails, o.stalls + 1, o.copies)
    BY <1>1, JobsStep
  <2> HIDE DEF j
  <2>3. ~Fresh(j) /\ Excused(j) /\ j.pc \in InQueue
    BY <1>1, <2>2 DEF Has, Fresh, Excused, Troubled, InQueue, Stored
  <2>4. \A k \in Mails : Ages(k) /\ (k # m => mail'[k] = mail[k])
    BY <2>1, <2>3, OneAges DEF MailInv
  <2>5. ASSUME NEW a \in Mails, NEW b \in Mails, mail[b].pc = "waiting", Before(line, a, b)
        PROVE  mail'[b] = mail[b] /\ Before(line', a, b)
    <3>1. b # m
      BY <1>1, <2>5
    <3>2. Before(line', a, b)
      BY <2>1, <2>5, <3>1, BeforePush DEF MailInv, LineIs
    <3> QED BY <2>4, <3>1, <3>2
  <2>6. \A a, b \in Mails : a # b => StaysBehind(a, b)
    BY <2>5 DEF StaysBehind
  <2> QED BY <1>1, <2>4, <2>6, OrderStep
<1>3. CASE ~(o.stalls < MaxStalls)
  <2> DEFINE j == To(o, "failed")
  <2>1. mail' = [mail EXCEPT ![m] = j] /\ line' = line
    BY <1>3 DEF RecoverJob
  <2>2. Has(j, "failed", o.calls, o.fails, o.stalls, o.copies)
    BY <1>1, JobTo
  <2> HIDE DEF j
  <2>3. ~Fresh(j) /\ Excused(j) /\ j.pc \in InQueue
    BY <1>1, <1>3, <2>2 DEF Has, Fresh, Excused, Troubled, InQueue, MaxStalls
  <2> QED BY <1>1, <2>1, <2>3, OneQuiet
<1> QED BY <1>2, <1>3

(* A mail queued now goes behind all that wait.                            *)
LEMMA AddToQueueOrder ==
  ASSUME MailInv, OrderInv, NEW m \in Mails, AddToQueue(m)
  PROVE  OrderInv'
<1> DEFINE o == mail[m]
           j == To(o, "waiting")
           n == Len(entered)
<1>1. /\ o \in Job /\ Accounted(o) /\ o.pc = "emitted" /\ "waiting" \in Places
      /\ mail' = [mail EXCEPT ![m] = j] /\ mail'[m] = j
      /\ line' = Append(line, m) /\ entered' = Append(entered, m)
  BY MailIs DEF AddToQueue, Behind, Is, Places
<1>2. Has(j, "waiting", o.calls, o.fails, o.stalls, o.copies)
  BY <1>1, JobTo
<1> HIDE DEF j
<1>3. Fresh(j) /\ Excused(j) /\ j.pc = "waiting" /\ j.pc \in InQueue
  BY <1>1, <1>2 DEF Has, Fresh, Excused, Troubled, InQueue, Stored, Accounted
<1>4. \A k \in Mails : k # m => mail'[k] = mail[k]
  BY <1>1 DEF MailInv
<1>5. /\ n \in Nat /\ DOMAIN entered = 1 .. n /\ DOMAIN entered' = 1 .. n + 1
      /\ entered'[n + 1] = m /\ \A i \in 1 .. n : entered'[i] = entered[i] /\ entered[i] \in Mails
  BY <1>1 DEF MailInv
<1>6. \A i \in 1 .. n : entered[i] # m
  BY <1>1, <1>5 DEF OrderInv, QueuedOnce, InQueue, Stored
<1>7. line \in Seq(Mails) /\ \A k \in DOMAIN line : line[k] # m
  BY <1>1 DEF MailInv, LineIs, Waiting
<1> HIDE DEF n
<1>8. QueuedOnce'
  <2>1. \A k \in Mails : Excused(mail'[k])
    BY <1>1, <1>3, <1>4 DEF OrderInv, QueuedOnce
  <2>2. \A i, l \in 1 .. n + 1 : entered'[i] = entered'[l] => i = l
    <3>1. \A i, l \in 1 .. n : entered[i] = entered[l] => i = l
      BY <1>5 DEF OrderInv, QueuedOnce
    <3> QED BY <1>5, <1>6, <3>1
  <2>3. ASSUME NEW i \in 1 .. n + 1 PROVE mail'[entered'[i]].pc \in InQueue
    <3>1. CASE i = n + 1
      BY <1>1, <1>3, <1>5, <3>1
    <3>2. CASE i \in 1 .. n
      BY <1>4, <1>5, <1>6, <3>2 DEF OrderInv, QueuedOnce
    <3> QED BY <1>5, <3>1, <3>2
  <2>4. \A k \in Mails : Excused(mail[k])'
    BY <2>1 DEF Excused, Troubled
  <2> QED BY <1>5, <2>2, <2>3, <2>4 DEF QueuedOnce
<1>9. ASSUME NEW i \in 1 .. n + 1, NEW l \in 1 .. n + 1, i < l, Fresh(mail'[entered'[i]])
      PROVE  /\ mail'[entered'[l]].pc = "waiting" /\ Fresh(mail'[entered'[l]])
             /\ Before(line', entered'[i], entered'[l])
  <2>1. i \in 1 .. n /\ entered'[i] = entered[i] /\ entered[i] # m /\ entered[i] \in Mails
    BY <1>5, <1>6, <1>9
  <2>2. Fresh(mail[entered[i]])
    BY <1>4, <1>9, <2>1
  <2>3. CASE l = n + 1
    <3>1. entered'[l] = m
      BY <1>5, <2>3
    <3>2. Before(line, entered[i], m)
      BY <1>7 DEF Before
    <3>3. Before(line', entered[i], m)
      BY <1>1, <1>7, <2>1, <3>2, BeforeAppend
    <3> QED BY <1>1, <1>3, <2>1, <3>1, <3>3
  <2>4. CASE l \in 1 .. n
    <3>1. entered'[l] = entered[l] /\ mail'[entered[l]] = mail[entered[l]]
      BY <1>4, <1>5, <1>6, <2>4
    <3>2. /\ mail[entered[l]].pc = "waiting" /\ Fresh(mail[entered[l]])
          /\ Before(line, entered[i], entered[l])
      BY <1>5, <1>9, <2>1, <2>2, <2>4 DEF OrderInv, FreshFirst
    <3>3. Before(line', entered[i], entered[l])
      BY <1>1, <1>7, <2>1, <3>2, BeforeAppend
    <3> QED BY <2>1, <3>1, <3>2, <3>3
  <2> QED BY <1>5, <2>3, <2>4
<1>10. FreshFirst'
  BY <1>5, <1>9 DEF FreshFirst
<1> QED BY <1>8, <1>10 DEF OrderInv

(* No mail becomes fresher when it is asked for, or when the process dies. *)
LEMMA EmitMailsOrder ==
  ASSUME MailInv, OrderInv, NEW set \in SUBSET Mails, EmitMails(set)
  PROVE  OrderInv'
<1>1. UNCHANGED <<line, entered>>
  BY DEF EmitMails
<1>2. ASSUME NEW m \in Mails
      PROVE  Ages(m) /\ (mail[m].pc = "waiting" => mail'[m] = mail[m])
  <2> DEFINE o == mail[m]
             j == To(o, "emitted")
  <2>1. CASE m \in set
    <3>1. mail'[m] = j /\ o.pc = "none" /\ o \in Job /\ "emitted" \in Places
      BY <2>1, MailIs DEF EmitMails, Emitted, Is, Places
    <3>2. j.pc = "emitted"
      BY <3>1, JobTo DEF Has
    <3> HIDE DEF j
    <3> QED BY <3>1, <3>2 DEF Ages, Fresh, Excused, InQueue, Stored
  <2>2. CASE m \notin set
    BY <2>2 DEF EmitMails, Emitted, Ages
  <2> QED BY <2>1, <2>2
<1> QED BY <1>1, <1>2, QuietOrder

LEMMA DieOrder ==
  ASSUME MailInv, OrderInv, Die
  PROVE  OrderInv'
<1>1. PICK arrived \in SUBSET Calling : mail' = Survivors(arrived)
  BY DEF Die
<1>2. UNCHANGED <<line, entered>>
  BY DEF Die
<1>3. ASSUME NEW m \in Mails
      PROVE  Ages(m) /\ (mail[m].pc = "waiting" => mail'[m] = mail[m])
  <2> DEFINE o == mail[m]
             g == IF m \in arrived THEN 1 ELSE 0
             p == AfterDeath(o.pc)
             j == To(Brought(o, g), p)
  <2>1. mail'[m] = j /\ o \in Job /\ o.pc \in Places /\ g \in Nat
    BY <1>1, MailIs DEF Survivors, Job
  <2>2. /\ o.pc \in {"emitted", "calling"} => p = "lost"
        /\ o.pc = "active" => p = "stalled"
        /\ o.pc \notin {"emitted", "calling", "active"} => p = o.pc
        /\ p \in Places
    BY <2>1 DEF AfterDeath, Places
  <2>3. o.pc = "waiting" => g = 0
    BY DEF Calling
  <2> HIDE DEF g, p
  <2>4. Has(j, p, o.calls, o.fails, o.stalls, o.copies + g)
    BY <2>1, <2>2, JobsStep
  <2>5. ASSUME o.pc = "waiting" PROVE j = o
    <3>1. p = o.pc /\ o.copies + g = o.copies /\ o \in Job
      BY <2>1, <2>2, <2>3, <2>5 DEF Job
    <3> QED BY <2>4, <3>1 DEF Has, Job
  <2> HIDE DEF j
  <2>6. j.pc = p /\ j.fails = o.fails /\ j.stalls = o.stalls
    BY <2>4 DEF Has
  <2>7. Ages(m)
    BY <2>1, <2>2, <2>6 DEF Ages, Fresh, Excused, Troubled, InQueue, Stored
  <2> QED BY <2>1, <2>5, <2>7
<1> QED BY <1>2, <1>3, QuietOrder

LEMMA MailStepOrder ==
  ASSUME MailInv, OrderInv, [MailNext]_mailVars
  PROVE  OrderInv'
<1>1. CASE UNCHANGED mailVars
  BY <1>1 DEF mailVars, OrderInv, QueuedOnce, FreshFirst, Before, Excused, Troubled, Fresh
<1>2. CASE MailNext
  <2>1. ASSUME NEW set \in Pairs, EmitMails(set) PROVE OrderInv'
    BY <2>1, EmitMailsOrder DEF Pairs
  <2>2. ASSUME NEW m \in Mails, MailStep(m) PROVE OrderInv'
    BY <2>2, DirectOrder, AddToQueueOrder, DelayEndsOrder, ProcessesOrder, RecoverJobOrder
       DEF MailStep, Listens
  <2> QED BY <1>2, <2>1, <2>2, TakeJobOrder, DieOrder DEF MailNext
<1> QED BY <1>1, <1>2

LEMMA OrderInit == MailInit => OrderInv
BY DEF MailInit, NewMail, OrderInv, QueuedOnce, FreshFirst, Excused

LEMMA OrderShows ==
  ASSUME MailInv, OrderInv
  PROVE  OvertakenOnlyIfFailed
<1>1. ASSUME NEW i \in DOMAIN entered, NEW j \in DOMAIN entered,
             i < j, Is(entered[j], "sent"), ~Is(entered[i], "sent"),
             ~Troubled(mail[entered[i]])
      PROVE  FALSE
  <2> DEFINE o == mail[entered[i]]
  <2>1. o.pc \in InQueue /\ o.pc # "sent" /\ entered[i] \in Mails
    BY <1>1 DEF OrderInv, QueuedOnce, Is, MailInv
  <2>2. Excused(o) /\ o.pc # "stalled"
    BY <1>1, <2>1 DEF OrderInv, QueuedOnce, Troubled
  <2>3. Fresh(o)
    BY <1>1, <2>1, <2>2 DEF Fresh, Excused, InQueue, Stored
  <2> QED BY <1>1, <2>3 DEF OrderInv, FreshFirst, Is
<1> QED BY <1>1 DEF OvertakenOnlyIfFailed, Troubled

-----------------------------------------------------------------------------
(* How often a mail is sent.                                               *)

(* Without the queue nothing is stored.                                    *)
Unqueued == queueEnabled \/ \A m \in Mails : mail[m].pc \notin Stored

LEMMA UnqueuedKept ==
  ASSUME MailInv, Unqueued, [MailNext]_mailVars
  PROVE  Unqueued' /\ queueEnabled' = queueEnabled
<1>1. queueEnabled' = queueEnabled
  BY DEF MailNext, mailVars, EmitMails, MailStep, Listens, CallDirectly, AddToQueue,
         ForgetMail, EndDirectly, Processes, JobCompletes, JobFails, DelayEnds,
         RecoverJob, TakeJob, Die
<1>2. CASE queueEnabled
  BY <1>1, <1>2 DEF Unqueued
<1>3. CASE ~queueEnabled
  <2> SUFFICES \A k \in Mails : (mail[k].pc \notin Stored)'
    BY <1>1 DEF Unqueued
  <2>1. ASSUME NEW m \in Mails PROVE mail[m].pc \notin Stored /\ mail[m] \in Job
    BY <1>3, MailIs DEF Unqueued
  <2>2. ~TakeJob
    <3> SUFFICES ASSUME TakeJob PROVE FALSE
      OBVIOUS
    <3>1. Head(line) \in Mails /\ Head(line) \in Waiting
      BY LineTake DEF TakeJob, MailInv
    <3> QED BY <2>1, <3>1 DEF Waiting, Stored
  <2>3. ASSUME NEW m \in Mails, MailStep(m) PROVE \A k \in Mails : mail'[k].pc \notin Stored
    <3>1. CallDirectly(m) \/ EndDirectly(m) \/ ForgetMail(m)
      BY <1>3, <2>1, <2>3 DEF MailStep, Listens, AddToQueue, Processes, JobCompletes,
                              JobFails, DelayEnds, RecoverJob, Is, Stored
    <3>2. {"calling", "sent", "lost"} \subseteq Places
      BY DEF Places
    <3>3. ASSUME NEW j, mail' = [mail EXCEPT ![m] = j], j.pc \in {"calling", "sent", "lost"}
          PROVE  \A k \in Mails : mail'[k].pc \notin Stored
      <4>1. mail \in [Mails -> Job]
        BY DEF MailInv
      <4> QED BY <2>1, <3>3, <4>1 DEF Stored
    <3>4. CASE CallDirectly(m)
      <4> DEFINE j == To(Called(mail[m]), "calling")
      <4>1. mail' = [mail EXCEPT ![m] = j] /\ j.pc = "calling"
        BY <2>1, <3>2, <3>4, JobsStep DEF CallDirectly, Has
      <4> HIDE DEF j
      <4> QED BY <3>3, <4>1
    <3>5. CASE EndDirectly(m)
      <4>1. PICK p \in {"sent", "lost"}, got \in {0, 1} :
              mail' = [mail EXCEPT ![m] = To(Brought(mail[m], got), p)]
        BY <3>5 DEF EndDirectly, Got
      <4> DEFINE j == To(Brought(mail[m], got), p)
      <4>2. Has(j, p, mail[m].calls, mail[m].fails, mail[m].stalls, mail[m].copies + got)
        BY <2>1, <3>2, JobsStep
      <4>3. mail' = [mail EXCEPT ![m] = j] /\ j.pc = p
        BY <4>1, <4>2 DEF Has
      <4> HIDE DEF j
      <4> QED BY <3>3, <4>3
    <3>6. CASE ForgetMail(m)
      <4> DEFINE j == To(mail[m], "lost")
      <4>1. mail' = [mail EXCEPT ![m] = j] /\ j.pc = "lost"
        BY <2>1, <3>2, <3>6, JobTo DEF ForgetMail, Has
      <4> HIDE DEF j
      <4> QED BY <3>3, <4>1
    <3> QED BY <3>1, <3>4, <3>5, <3>6
  <2>4. ASSUME NEW set \in Pairs, EmitMails(set), NEW m \in Mails PROVE mail'[m].pc \notin Stored
    <3> DEFINE j == To(mail[m], "emitted")
    <3>1. mail'[m] = IF m \in set THEN j ELSE mail[m]
      BY <2>4 DEF EmitMails, Emitted
    <3>2. j.pc = "emitted"
      BY <2>1, JobTo DEF Has, Places
    <3> HIDE DEF j
    <3> QED BY <2>1, <3>1, <3>2 DEF Stored
  <2>5. ASSUME Die, NEW m \in Mails PROVE mail'[m].pc \notin Stored
    <3>1. PICK arrived \in SUBSET Calling : mail' = Survivors(arrived)
      BY <2>5 DEF Die
    <3> DEFINE g == IF m \in arrived THEN 1 ELSE 0
               p == AfterDeath(mail[m].pc)
               j == To(Brought(mail[m], g), p)
    <3>2. mail'[m] = j /\ g \in Nat /\ p \in Places /\ p \notin Stored
      BY <2>1, <3>1 DEF Survivors, AfterDeath, Places, Stored, Job
    <3> HIDE DEF g, p
    <3>3. j.pc = p
      BY <2>1, <3>2, JobsStep DEF Has
    <3> QED BY <3>2, <3>3
  <2>6. CASE UNCHANGED mailVars
    BY <2>1, <2>6 DEF mailVars
  <2>7. CASE MailNext
    BY <2>2, <2>3, <2>4, <2>5, <2>7 DEF MailNext
  <2> QED BY <2>6, <2>7
<1> QED BY <1>1, <1>2, <1>3

(* What a mail has cost: one call if it was never stored, and no more      *)
(* copies than calls.                                                      *)
Cost(m) ==
  /\ calls[m] \in Nat /\ copies[m] \in Nat
  /\ copies[m] <= calls[m] /\ calls[m] <= Attempts + MaxStalls
  /\ fate[m] = "none" => calls[m] = 0
  /\ fate[m] = "held" \/ ~queueEnabled => calls[m] <= 1

LEMMA CostKept ==
  ASSUME MailInv, MailInv', Unqueued, Unqueued', queueEnabled' = queueEnabled,
         [Mailing!Next]_(Mailing!vars), NEW m \in Mails, Cost(m)
  PROVE  Cost(m)'
<1>1. \/ Mailing!Hand(m) \/ Mailing!Store(m) \/ Mailing!Try(m) \/ Mailing!Settle(m)
      \/ fate'[m] = fate[m] /\ Mailing!Stays(m)
  BY DEF Mailing!Next, Mailing!vars, Mailing!Stays
<1>2. ~queueEnabled => fate[m] # "stored" /\ fate'[m] # "stored"
  <2>1. mail[m].pc \in Places /\ mail'[m].pc \in Places
    BY DEF MailInv, Job
  <2> QED BY <2>1, FateIs, FateNext DEF Unqueued, Places, Stored
<1> QED BY <1>1, <1>2 DEF Cost, Mailing!Hand, Mailing!Store, Mailing!Try, Mailing!Settle,
                          Mailing!Stays, Mailing!Arrive, Attempts, MaxStalls

-----------------------------------------------------------------------------
(* The theorems.                                                           *)

LEMMA MailInit_Inv == MailInit => MailInv
<1> SUFFICES ASSUME MailInit PROVE MailInv
  OBVIOUS
<1>1. Has(NewMail, "none", 0, 0, 0, 0)
  BY DEF NewMail, Has, Job, Places
<1>2. mail \in [Mails -> Job] /\ \A m \in Mails : mail[m] = NewMail
  BY <1>1 DEF MailInit, Has
<1>3. Accounted(NewMail)
  BY <1>1 DEF Accounted, Stored, Has
<1>4. \A m \in Mails : m \notin Waiting
  BY <1>1, <1>2 DEF Waiting, Has
<1>5. line = <<>> /\ entered = <<>> /\ queueEnabled \in BOOLEAN
  BY DEF MailInit
<1>6. LineIs(line, Waiting)
  BY <1>4, <1>5 DEF LineIs
<1> QED BY <1>2, <1>3, <1>5, <1>6 DEF MailInv

LEMMA MailStepKeeps ==
  ASSUME MailInv, [MailNext]_mailVars
  PROVE  MailInv' /\ [Mailing!Next]_(Mailing!vars)
<1>1. CASE UNCHANGED mailVars
  <2>1. MailInv'
    BY <1>1 DEF mailVars, MailInv, LineIs, Waiting, Accounted
  <2>2. UNCHANGED Mailing!vars
    BY <1>1 DEF mailVars, Mailing!vars, fate, calls, copies
  <2> QED BY <2>1, <2>2
<1>2. CASE MailNext
  <2>1. ASSUME NEW set \in Pairs, EmitMails(set) PROVE Kept
    BY <2>1, EmitMailsKeeps DEF Pairs
  <2>2. ASSUME NEW m \in Mails, MailStep(m) PROVE Kept
    BY <2>2, DirectSteps, AddToQueueKeeps, DelayEndsKeeps, ProcessesKeeps, RecoverJobKeeps
       DEF MailStep, Listens
  <2> QED BY <1>2, <2>1, <2>2, TakeJobKeeps, DieKeeps DEF MailNext, Kept
<1> QED BY <1>1, <1>2

(* The mails' places and counters have their types, and the waiting list   *)
(* is that of the waiting jobs.                                            *)
THEOREM MailTypeCorrect == MailSpec => []MailTypeOK
<1>1. MailInv => MailTypeOK
  <2> SUFFICES ASSUME MailInv PROVE MailTypeOK
    OBVIOUS
  <2>1. \A m \in Mails : m \in Waiting <=> Is(m, "waiting")
    BY DEF Waiting, Is
  <2> QED BY <2>1 DEF MailInv, MailTypeOK, LineIs, Job
<1>2. MailInv /\ [MailNext]_mailVars => MailInv'
  BY MailStepKeeps
<1> QED BY <1>1, <1>2, MailInit_Inv, PTL DEF MailSpec

(* E-mail delivery, with or without the queue, with failing calls and a    *)
(* process that may die at any step, is an Outbox: a queued mail is given  *)
(* up only after two calls, none is sent more often than it is tried, and  *)
(* there are at most four tries.                                           *)
THEOREM OutboxImplemented == MailSpec => ImplementsOutbox
<1>1. MailInit => Mailing!Init
  BY DEF MailInit, NewMail, Mailing!Init, fate, calls, copies
<1>2. MailInv /\ [MailNext]_mailVars => MailInv' /\ [Mailing!Next]_(Mailing!vars)
  BY MailStepKeeps
<1> QED BY <1>1, <1>2, MailInit_Inv, PTL DEF MailSpec, ImplementsOutbox, Mailing!Spec

(* A mail is sent before one queued earlier only if a call for the earlier *)
(* one failed or was cut off by a death of the process.                    *)
THEOREM OvertakenHolds == MailSpec => []OvertakenOnlyIfFailed
<1>1. MailInit => MailInv /\ OrderInv
  BY MailInit_Inv, OrderInit
<1>2. MailInv /\ OrderInv /\ [MailNext]_mailVars => (MailInv /\ OrderInv)'
  BY MailStepKeeps, MailStepOrder
<1>3. MailInv /\ OrderInv => OvertakenOnlyIfFailed
  BY OrderShows
<1> QED BY <1>1, <1>2, <1>3, PTL DEF MailSpec

(* A recipient gets no more copies of a mail than calls were made for it:  *)
(* four at most, and one at most where the queue is off, whatever fails    *)
(* and whenever the process dies.                                          *)
CopiesBounded ==
  \A m \in Mails :
    /\ copies[m] <= calls[m]
    /\ calls[m] <= (IF queueEnabled THEN Attempts + MaxStalls ELSE 1)

(* The cost of each mail, along the steps of Outbox, gives the bound.       *)
THEOREM CopiesBoundedHolds == MailSpec => []CopiesBounded
<1> DEFINE Inv == MailInv /\ Unqueued /\ \A m \in Mails : Cost(m)
<1>1. MailInit => Inv
  <2> SUFFICES ASSUME MailInit PROVE Inv
    OBVIOUS
  <2>1. \A m \in Mails : calls[m] = 0 /\ copies[m] = 0 /\ mail[m].pc = "none"
    BY DEF MailInit, NewMail, calls, copies
  <2> QED BY <2>1, MailInit_Inv DEF Unqueued, Stored, Cost, Attempts, MaxStalls
<1>2. Inv /\ [MailNext]_mailVars => Inv'
  BY MailStepKeeps, UnqueuedKept, CostKept
<1>3. Inv => CopiesBounded
  BY DEF Cost, CopiesBounded
<1> QED BY <1>1, <1>2, <1>3, PTL DEF MailSpec
=============================================================================
