------------------------- MODULE PushDeliveryProofs -------------------------
(***************************************************************************)
(* Theorems about PushDelivery, for any numbers of members, tokens and     *)
(* listeners and any length of a batch.                                    *)
(***************************************************************************)
EXTENDS PushDelivery, FiniteSetTheorems, TLAPS

(* No member is two recipients.                                            *)
Distinct(p) ==
  \A i, j \in DOMAIN p.recipients :
    p.recipients[i].user = p.recipients[j].user => i = j

(* A member was asked about once if his batch was, and else not yet.       *)
Reached(p, u) == \E i \in DOMAIN p.recipients : i < p.next /\ p.recipients[i].user = u
Counted(p) == \A u \in Members : p.asked[u] = IF Reached(p, u) THEN 1 ELSE 0

(* Whoever clears tokens or is done has been through all batches.          *)
Through(p) == p.pc \in {"clearing", "done"} => Len(p.recipients) < p.next

(* Whom a listener takes for stale it has read an unregistered token of.   *)
StaleRead ==
  \A h \in Listeners : \A u \in push[h].stale : ReadUnregistered(h, u)

PushInv ==
  /\ PushTypeOK
  /\ StaleRead
  /\ \A h \in Listeners : Distinct(push[h]) /\ Counted(push[h]) /\ Through(push[h])

LEMMA PushRecord ==
  ASSUME NEW pc \in {"none", "emitted", "sending", "clearing", "done", "dropped"},
         NEW recipients \in Seq(Recipient), NEW next \in Nat,
         NEW stale \in SUBSET Members, NEW asked \in [Members -> Nat]
  PROVE  [pc |-> pc, recipients |-> recipients, next |-> next, stale |-> stale,
          asked |-> asked] \in Push
BY DEF Push

LEMMA NoPushOK ==
  /\ NoPush \in Push /\ Distinct(NoPush) /\ Counted(NoPush) /\ Through(NoPush)
  /\ NoPush.stale = {}
<1>1. NoPush \in Push
  BY SMT DEF NoPush, Push
<1> QED BY <1>1, SMT DEF NoPush, Distinct, Counted, Reached, Through

(* The recipients of some rows are distinct members with tokens.           *)
LEMMA RecipientsOK ==
  ASSUME PushTypeOK, NEW rows \in SUBSET Members, NEW recipients \in RecipientsOf(rows)
  PROVE  /\ recipients \in Seq(Recipient)
         /\ \A i, j \in DOMAIN recipients :
              recipients[i].user = recipients[j].user => i = j
<1> DEFINE told == WithToken(rows)
           n == Cardinality(told)
<1>1. told \subseteq Members /\ n \in Nat
  <2>1. told \subseteq Members
    BY DEF WithToken
  <2> QED BY <2>1, MembersAssumption, FS_Subset, FS_CardinalityType
<1>2. \A u \in told : u \in Members /\ pushToken[u] \in Tokens
  BY <1>1 DEF PushTypeOK, WithToken
<1>3. PICK order \in [1 .. n -> told] :
        /\ \A i, j \in 1 .. n : order[i] = order[j] => i = j
        /\ recipients = [i \in 1 .. n |-> [user |-> order[i], token |-> pushToken[order[i]]]]
  BY DEF RecipientsOf
<1>4. \A i \in 1 .. n : [user |-> order[i], token |-> pushToken[order[i]]] \in Recipient
  BY <1>2, <1>3 DEF Recipient
<1>5. recipients \in Seq(Recipient)
  BY <1>1, <1>3, <1>4, SMT
<1>6. DOMAIN recipients = 1 .. n /\ \A i \in 1 .. n : recipients[i].user = order[i]
  BY <1>3
<1> QED BY <1>3, <1>5, <1>6

(* A batch asks about a member once if he is in it.                        *)
LEMMA OneOfBatch ==
  ASSUME NEW p \in Push, Distinct(p), NEW u
  PROVE  Cardinality({i \in Slice(p) : p.recipients[i].user = u})
           = IF \E i \in Slice(p) : p.recipients[i].user = u THEN 1 ELSE 0
<1> DEFINE mine == {i \in Slice(p) : p.recipients[i].user = u}
<1>1. CASE \E i \in Slice(p) : p.recipients[i].user = u
  <2>1. PICK i \in Slice(p) : p.recipients[i].user = u
    BY <1>1
  <2>2. mine = {i}
    BY <2>1 DEF Slice, Distinct
  <2> QED BY <1>1, <2>2, FS_Singleton
<1>2. CASE ~\E i \in Slice(p) : p.recipients[i].user = u
  <2>1. mine = {}
    BY <1>2
  <2> QED BY <1>2, <2>1, FS_EmptySet
<1> QED BY <1>1, <1>2

LEMMA PushInitInv == PushInit => PushInv
<1> SUFFICES ASSUME PushInit PROVE PushInv
  OBVIOUS
<1>1. \A h \in Listeners : push[h] = NoPush
  BY DEF PushInit
<1> QED BY <1>1, NoPushOK, SMT DEF PushInit, PushInv, PushTypeOK, StaleRead

(* A step that gives one listener a new state and lets the tokens be, or   *)
(* takes some away, keeps the invariant if the new state fits it.          *)
LEMMA OneListener ==
  ASSUME PushInv, NEW h \in Listeners, NEW p,
         push' = [push EXCEPT ![h] = p],
         p \in Push, Distinct(p), Counted(p), Through(p),
         UNCHANGED registered, pushToken' \in [Members -> Tokens \cup {NoToken}],
         \A u \in p.stale : \E i \in DOMAIN p.recipients :
           p.recipients[i].user = u /\ p.recipients[i].token \notin registered
  PROVE  PushInv'
<1>1. push' \in [Listeners -> Push] /\ push'[h] = p
  BY DEF PushInv, PushTypeOK
<1>2. \A g \in Listeners : g # h => push'[g] = push[g]
  BY DEF PushInv, PushTypeOK
<1>3. PushTypeOK'
  BY <1>1 DEF PushInv, PushTypeOK
<1>4. StaleRead'
  BY <1>1, <1>2 DEF PushInv, StaleRead, ReadUnregistered
<1>5. \A g \in Listeners : Distinct(push'[g]) /\ Counted(push'[g]) /\ Through(push'[g])
  BY <1>1, <1>2 DEF PushInv
<1> QED BY <1>3, <1>4, <1>5 DEF PushInv

LEMMA PushStepInv == PushInv /\ [PushNext]_pushVars => PushInv'
<1> SUFFICES ASSUME PushInv, [PushNext]_pushVars PROVE PushInv'
  OBVIOUS
<1>t. PushTypeOK /\ push \in [Listeners -> Push]
  BY DEF PushInv, PushTypeOK
<1>1. ASSUME NEW u \in Members, NEW t \in Tokens, SaveToken(u, t) PROVE PushInv'
  BY <1>1, SMT DEF SaveToken, PushInv, PushTypeOK, StaleRead, ReadUnregistered
<1>2. ASSUME NEW t \in Tokens, Unregister(t) PROVE PushInv'
  BY <1>2, SMT DEF Unregister, PushInv, PushTypeOK, StaleRead, ReadUnregistered
<1>3. ASSUME NEW h \in Listeners, EmitMessage(h) PROVE PushInv'
  <2> DEFINE p == [NoPush EXCEPT !.pc = "emitted"]
  <2>1. push' = [push EXCEPT ![h] = p] /\ UNCHANGED <<pushToken, registered>>
    BY <1>3 DEF EmitMessage
  <2>2. /\ p \in Push /\ p.recipients = NoPush.recipients /\ p.next = NoPush.next
        /\ p.asked = NoPush.asked /\ p.stale = {} /\ p.pc = "emitted"
    BY NoPushOK DEF Push, NoPush
  <2> HIDE DEF p
  <2>3. Distinct(p) /\ Counted(p) /\ Through(p)
    BY <2>2, NoPushOK DEF Distinct, Counted, Reached, Through
  <2> QED BY <1>t, <2>1, <2>2, <2>3, OneListener DEF PushTypeOK, p
<1>4. ASSUME NEW h \in Listeners, Lookup(h) PROVE PushInv'
  <2>1. PICK rows \in SUBSET Members : \E recipients \in RecipientsOf(rows) :
          push' = [push EXCEPT ![h] =
            [pc |-> IF recipients = <<>> THEN "done" ELSE "sending",
             recipients |-> recipients, next |-> 1, stale |-> {}, asked |-> NoPush.asked]]
    BY <1>4 DEF Lookup
  <2>2. PICK recipients \in RecipientsOf(rows) :
          push' = [push EXCEPT ![h] =
            [pc |-> IF recipients = <<>> THEN "done" ELSE "sending",
             recipients |-> recipients, next |-> 1, stale |-> {}, asked |-> NoPush.asked]]
    BY <2>1
  <2>3. /\ recipients \in Seq(Recipient)
        /\ \A i, j \in DOMAIN recipients :
             recipients[i].user = recipients[j].user => i = j
    BY <1>t, RecipientsOK
  <2> DEFINE p ==
        [pc |-> IF recipients = <<>> THEN "done" ELSE "sending",
         recipients |-> recipients, next |-> 1, stale |-> {}, asked |-> NoPush.asked]
  <2>4. /\ p.recipients = recipients /\ p.next = 1 /\ p.stale = {}
        /\ p.asked = [u \in Members |-> 0]
        /\ p.pc \in {"done", "sending"} /\ (p.pc = "done" => recipients = <<>>)
    BY DEF NoPush
  <2>5. p \in Push
    <3>1. NoPush.asked \in [Members -> Nat]
      BY DEF NoPush
    <3> QED BY <2>3, <3>1, PushRecord
  <2>6. Distinct(p) /\ Counted(p) /\ Through(p)
    <3>1. \A i \in DOMAIN recipients : ~(i < 1)
      BY <2>3, SMT
    <3>2. Distinct(p) /\ Counted(p)
      BY <2>3, <2>4, <3>1 DEF Distinct, Counted, Reached
    <3>3. Through(p)
      BY <2>4, SMT DEF Through
    <3> QED BY <3>2, <3>3
  <2> HIDE DEF p
  <2> QED
    BY <1>4, <1>t, <2>2, <2>4, <2>5, <2>6, OneListener DEF Lookup, PushTypeOK, p
<1>5. ASSUME NEW h \in Listeners, SendBatch(h) PROVE PushInv'
  <2> DEFINE p == push[h]
             unregistered == {i \in Slice(p) : p.recipients[i].token \notin registered}
             ended == p.next + Batch > Len(p.recipients)
             Found(reported) == p.stale \cup {OfTicket(p, i) : i \in reported}
             After(stale) ==
               [pc |-> IF ~ended THEN "sending" ELSE IF stale = {} THEN "done" ELSE "clearing",
                recipients |-> p.recipients,
                next |-> p.next + Batch,
                stale |-> stale,
                asked |-> [u \in Members |-> p.asked[u]
                  + Cardinality({i \in Slice(p) : p.recipients[i].user = u})]]
  <2>1. PICK reported \in SUBSET unregistered :
          push' = [push EXCEPT ![h] = After(Found(reported))]
    BY <1>5 DEF SendBatch
  <2>p. p \in Push /\ Distinct(p) /\ Counted(p)
    BY <1>t DEF PushInv
  <2> DEFINE stale == Found(reported)
             q == After(stale)
  <2>2. /\ q.recipients = p.recipients /\ q.next = p.next + Batch /\ q.stale = stale
        /\ q.pc \in {"sending", "done", "clearing"}
        /\ q.pc # "sending" => p.next + Batch > Len(p.recipients)
        /\ q.asked = [u \in Members |->
             p.asked[u] + Cardinality({i \in Slice(p) : p.recipients[i].user = u})]
    BY <2>p DEF Push
  <2>3. \A i \in reported :
          /\ i \in DOMAIN p.recipients /\ p.recipients[i] \in Recipient
          /\ p.recipients[i].token \notin registered
    BY <2>p DEF Slice, Push
  <2>4. stale \in SUBSET Members
    BY <2>3, <2>p DEF OfTicket, Push, Recipient
  <2>5. ASSUME NEW u \in Members
        PROVE  q.asked[u] = IF Reached(q, u) THEN 1 ELSE 0
    <3> DEFINE here == \E i \in Slice(p) : p.recipients[i].user = u
    <3>1. q.asked[u] = p.asked[u] + (IF here THEN 1 ELSE 0)
      <4> HIDE DEF q, p
      <4>1. q.asked[u] =
              p.asked[u] + Cardinality({i \in Slice(p) : p.recipients[i].user = u})
        BY <2>2
      <4> QED BY <2>p, <4>1, OneOfBatch
    <3>2. p.asked[u] = IF Reached(p, u) THEN 1 ELSE 0
      BY <2>p DEF Counted
    <3>3. Reached(q, u) <=> Reached(p, u) \/ here
      <4>1. p.recipients \in Seq(Recipient) /\ p.next \in Nat /\ Batch \in Nat
        BY <2>p, BatchAssumption DEF Push
      <4>2. DOMAIN p.recipients \subseteq Nat
        BY <4>1, SMT
      <4> HIDE DEF q
      <4> QED BY <2>2, <4>1, <4>2, SMT DEF Reached, Slice
    <3>4. ~(Reached(p, u) /\ here)
      <4>1. p.recipients \in Seq(Recipient) /\ p.next \in Nat
        BY <2>p DEF Push
      <4>2. DOMAIN p.recipients \subseteq Nat
        BY <4>1, SMT
      <4> QED BY <2>p, <4>1, <4>2, SMT DEF Reached, Slice, Distinct
    <3> QED BY <3>1, <3>2, <3>3, <3>4, SMT
  <2>6. q \in Push
    <3>1. q.asked \in [Members -> Nat]
      <4> HIDE DEF q
      <4>1. \A u \in Members : q.asked[u] \in Nat
        BY <2>5
      <4>2. q.asked = [u \in Members |-> q.asked[u]]
        BY <2>2
      <4> QED BY <4>1, <4>2
    <3>2. p.next + Batch \in Nat
      BY <2>p, BatchAssumption, SMT DEF Push
    <3>4. p.recipients \in Seq(Recipient)
      BY <2>p DEF Push
    <3> DEFINE asked == [u \in Members |->
                  p.asked[u] + Cardinality({i \in Slice(p) : p.recipients[i].user = u})]
    <3>5. asked \in [Members -> Nat]
      BY <2>2, <3>1
    <3> HIDE DEF stale, asked, p
    <3> QED BY <2>4, <3>2, <3>4, <3>5, PushRecord DEF asked
  <2>7. Distinct(q) /\ Counted(q) /\ Through(q)
    <3> HIDE DEF q
    <3>1. Distinct(q)
      BY <2>p, <2>2 DEF Distinct
    <3>2. Counted(q)
      BY <2>5 DEF Counted
    <3>3. Through(q)
      <4>1. p.next \in Nat /\ Batch \in Nat /\ Len(p.recipients) \in Nat
        BY <2>p, BatchAssumption, SMT DEF Push
      <4> QED BY <2>2, <4>1, SMT DEF Through
    <3> QED BY <3>1, <3>2, <3>3
  <2>8. \A u \in q.stale : \E i \in DOMAIN q.recipients :
          q.recipients[i].user = u /\ q.recipients[i].token \notin registered
    <3>1. \A u \in p.stale : ReadUnregistered(h, u)
      BY DEF PushInv, StaleRead
    <3> SUFFICES ASSUME NEW u \in stale
                 PROVE  \E i \in DOMAIN p.recipients :
                          p.recipients[i].user = u /\ p.recipients[i].token \notin registered
      BY <2>2
    <3>2. CASE u \in p.stale
      BY <3>1, <3>2 DEF ReadUnregistered
    <3>3. CASE u \in {OfTicket(p, i) : i \in reported}
      BY <2>3, <3>3 DEF OfTicket
    <3> QED BY <3>2, <3>3
  <2>9. push' = [push EXCEPT ![h] = q] /\ UNCHANGED <<pushToken, registered>>
    BY <1>5, <2>1 DEF SendBatch
  <2> HIDE DEF q
  <2> QED BY <1>t, <2>6, <2>7, <2>8, <2>9, OneListener DEF PushTypeOK
<1>6. ASSUME NEW h \in Listeners, ClearStale(h) PROVE PushInv'
  <2> DEFINE p == push[h]
             q == [p EXCEPT !.pc = "done"]
  <2>1. push' = [push EXCEPT ![h] = q] /\ UNCHANGED registered
    BY <1>6 DEF ClearStale
  <2>p. p \in Push /\ Distinct(p) /\ Counted(p) /\ Through(p)
    BY <1>t DEF PushInv
  <2>2. /\ q.recipients = p.recipients /\ q.next = p.next /\ q.stale = p.stale
        /\ q.asked = p.asked /\ q.pc = "done" /\ q \in Push
    BY <2>p, SMT DEF Push
  <2>3. Distinct(q) /\ Counted(q)
    BY <2>p, <2>2 DEF Distinct, Counted, Reached
  <2>4. Through(q)
    BY <1>6, <2>p, <2>2 DEF Through, ClearStale
  <2>5. pushToken' \in [Members -> Tokens \cup {NoToken}]
    BY <1>6, <1>t DEF ClearStale, PushTypeOK
  <2>6. \A u \in q.stale : \E i \in DOMAIN q.recipients :
          q.recipients[i].user = u /\ q.recipients[i].token \notin registered
    BY <2>2 DEF PushInv, StaleRead, ReadUnregistered
  <2> HIDE DEF q
  <2> QED BY <2>1, <2>2, <2>3, <2>4, <2>5, <2>6, OneListener
<1>7. ASSUME NEW h \in Listeners, DropPush(h) PROVE PushInv'
  <2> DEFINE p == push[h]
             q == [p EXCEPT !.pc = "dropped"]
  <2>1. push' = [push EXCEPT ![h] = q] /\ UNCHANGED <<pushToken, registered>>
    BY <1>7 DEF DropPush
  <2>p. p \in Push /\ Distinct(p) /\ Counted(p)
    BY <1>t DEF PushInv
  <2>2. /\ q.recipients = p.recipients /\ q.next = p.next /\ q.stale = p.stale
        /\ q.asked = p.asked /\ q.pc = "dropped" /\ q \in Push
    BY <2>p, SMT DEF Push
  <2>3. Distinct(q) /\ Counted(q) /\ Through(q)
    BY <2>p, <2>2 DEF Distinct, Counted, Reached, Through
  <2>6. \A u \in q.stale : \E i \in DOMAIN q.recipients :
          q.recipients[i].user = u /\ q.recipients[i].token \notin registered
    BY <2>2 DEF PushInv, StaleRead, ReadUnregistered
  <2> HIDE DEF q
  <2> QED BY <1>t, <2>1, <2>2, <2>3, <2>6, OneListener DEF PushTypeOK
<1>8. ASSUME UNCHANGED pushVars PROVE PushInv'
  BY <1>8 DEF pushVars, PushInv, PushTypeOK, StaleRead, ReadUnregistered
<1> QED
  BY <1>1, <1>2, <1>3, <1>4, <1>5, <1>6, <1>7, <1>8 DEF PushNext

LEMMA PushInvariant == PushSpec => []PushInv
BY PushInitInv, PushStepInv, PTL DEF PushSpec

(* Tokens and listeners keep their types (push-sender.service.ts:21-64).   *)
THEOREM PushTypeCorrect == PushSpec => []PushTypeOK
<1>1. PushInv => PushTypeOK
  BY DEF PushInv
<1> QED BY <1>1, PushInvariant, PTL

(* The batches reach every recipient, and none twice                       *)
(* (push-sender.service.ts:30-41), whatever their number and length.       *)
THEOREM AskedOnceHolds == PushSpec => []AskedOnce
<1>1. PushInv => AskedOnce
  <2> SUFFICES ASSUME PushInv, NEW h \in Listeners, NEW u \in Members
               PROVE  /\ push[h].asked[u] <= 1
                      /\ push[h].pc \in {"clearing", "done"} =>
                           (push[h].asked[u] = 1 <=> u \in Told(push[h]))
    BY DEF AskedOnce
  <2> DEFINE p == push[h]
  <2>1. p \in Push /\ p.asked[u] = (IF Reached(p, u) THEN 1 ELSE 0) /\ Through(p)
    BY DEF PushInv, PushTypeOK, Counted
  <2>2. p.pc \in {"clearing", "done"} => \A i \in DOMAIN p.recipients : i < p.next
    <3>1. p.recipients \in Seq(Recipient) /\ p.next \in Nat
      BY <2>1 DEF Push
    <3> QED BY <2>1, <3>1, SMT DEF Through
  <2>3. p.pc \in {"clearing", "done"} => (Reached(p, u) <=> u \in Told(p))
    BY <2>2 DEF Reached, Told
  <2> QED BY <2>1, <2>3, SMT
<1> QED BY <1>1, PushInvariant, PTL

(* Nobody loses his token but to a listener that had read an unregistered  *)
(* one of his (messages.listener.ts:78-82).                                *)
THEOREM OnlyStaleClearedHolds == PushSpec => OnlyStaleCleared
<1> DEFINE Clears ==
      \A u \in Members :
        pushToken[u] # NoToken /\ pushToken'[u] = NoToken =>
          \E h \in Listeners : push[h].pc = "clearing" /\ ReadUnregistered(h, u)
<1>1. PushInv /\ [PushNext]_pushVars => [Clears]_pushVars
  <2> SUFFICES ASSUME PushInv, PushNext, NEW u \in Members,
                      pushToken[u] # NoToken, pushToken'[u] = NoToken
               PROVE  \E h \in Listeners : push[h].pc = "clearing" /\ ReadUnregistered(h, u)
    BY DEF pushVars
  <2>1. ~\E v \in Members, t \in Tokens : SaveToken(v, t)
    BY NoTokenAssumption DEF SaveToken, PushInv, PushTypeOK
  <2>2. PICK h \in Listeners : ClearStale(h)
    BY <2>1 DEF PushNext, Unregister, EmitMessage, Lookup, SendBatch, DropPush
  <2>3. u \in push[h].stale /\ push[h].pc = "clearing"
    BY <2>2 DEF ClearStale
  <2> QED BY <2>3 DEF PushInv, StaleRead
<1> QED BY <1>1, PushInvariant, PTL DEF PushSpec, OnlyStaleCleared
=============================================================================
