---------------------------- MODULE PushDelivery ----------------------------
(***************************************************************************)
(* Push notifications about a message (messages.listener.ts,               *)
(* channel-messages.listener.ts, push-sender.service.ts): a listener looks *)
(* up the members' tokens, hands them to Expo in batches, and clears the   *)
(* tokens Expo calls unregistered, while users save tokens and devices     *)
(* lose theirs.                                                            *)
(*                                                                         *)
(* The two listeners differ in whose tokens they look up, the members of   *)
(* an organization or of a channel; here they are any users.  What a       *)
(* notification says is not modelled.                                      *)
(***************************************************************************)
EXTENDS Integers, Sequences, FiniteSets

CONSTANTS
  Members,       \* users who may be told
  Tokens,        \* push tokens; one device may be that of two users
  Batch,         \* BATCH_SIZE
  Listeners      \* handlers of message events in progress at one time

ASSUME BatchAssumption == Batch \in Nat \ {0}
ASSUME MembersAssumption == IsFiniteSet(Members)

NoToken == "none"
ASSUME NoTokenAssumption == NoToken \notin Tokens

VARIABLES
  pushToken,     \* pushToken[u]: the column of users
  registered,    \* the tokens that still lead to a device: Expo's knowledge
  push           \* push[h]: what listener h remembers

pushVars == <<pushToken, registered, push>>

Recipient == [user : Members, token : Tokens]

(* next is the index the next batch begins at.  asked, the number of times *)
(* Expo was asked to notify each member, is history.                       *)
NoPush == [pc |-> "none", recipients |-> <<>>, next |-> 1, stale |-> {},
           asked |-> [u \in Members |-> 0]]

PushInit ==
  /\ pushToken = [u \in Members |-> NoToken]
  /\ registered = Tokens
  /\ push = [h \in Listeners |-> NoPush]

-----------------------------------------------------------------------------
(* Users and their devices.                                                *)

SaveToken(u, t) ==
  /\ t \in registered
  /\ pushToken' = [pushToken EXCEPT ![u] = t]
  /\ UNCHANGED <<registered, push>>

Unregister(t) ==
  /\ t \in registered
  /\ registered' = registered \ {t}
  /\ UNCHANGED <<pushToken, push>>

-----------------------------------------------------------------------------
(* The listener.                                                           *)

(* A message is stored, its event emitted, the listener called.            *)
EmitMessage(h) ==
  /\ push[h].pc \in {"none", "done", "dropped"}
  /\ push' = [push EXCEPT ![h] = [NoPush EXCEPT !.pc = "emitted"]]
  /\ UNCHANGED <<pushToken, registered>>

(* Mutant: users without a token are not left out.                         *)
EveryRow(rows) == rows

WithToken(rows) == {u \in rows : pushToken[u] # NoToken}

(* One recipient for each of the members but the author who has a token,   *)
(* in the order of the rows.                                               *)
RecipientsOf(rows) ==
  LET told == WithToken(rows)
  IN {[i \in 1 .. Cardinality(told) |-> [user |-> order[i], token |-> pushToken[order[i]]]] :
        order \in {f \in [1 .. Cardinality(told) -> told] :
                     \A i, j \in DOMAIN f : f[i] = f[j] => i = j}}

Lookup(h) ==
  /\ push[h].pc = "emitted"
  /\ \E rows \in SUBSET Members : \E recipients \in RecipientsOf(rows) :
       push' = [push EXCEPT ![h] =
         [pc |-> IF recipients = <<>> THEN "done" ELSE "sending",
          recipients |-> recipients, next |-> 1, stale |-> {}, asked |-> NoPush.asked]]
  /\ UNCHANGED <<pushToken, registered>>

(* Mutant: a batch lacks its last recipient.                               *)
SliceShort(p) == {i \in DOMAIN p.recipients : p.next <= i /\ i < p.next + Batch - 1}

(* recipients.slice(i, i + BATCH_SIZE)                                     *)
Slice(p) == {i \in DOMAIN p.recipients : p.next <= i /\ i < p.next + Batch}

(* Mutant: a ticket's index in the batch is taken for one of all           *)
(* recipients.                                                             *)
OfTicketUnshifted(p, i) == p.recipients[i - p.next + 1].user

(* The index of a ticket is one of the batch: its recipient.               *)
OfTicket(p, i) == p.recipients[i].user

(* Expo answers with a ticket for each token of the batch, and may say     *)
(* DeviceNotRegistered of those that are not, or the whole request fails,  *)
(* and the loop continues with the next batch.                             *)
SendBatch(h) ==
  LET p == push[h]
      unregistered == {i \in Slice(p) : p.recipients[i].token \notin registered}
      ended == p.next + Batch > Len(p.recipients)
  IN /\ p.pc = "sending"
     /\ \E reported \in SUBSET unregistered :
          LET stale == p.stale \cup {OfTicket(p, i) : i \in reported}
          IN push' = [push EXCEPT ![h] =
               [pc |-> IF ~ended THEN "sending" ELSE IF stale = {} THEN "done" ELSE "clearing",
                recipients |-> p.recipients,
                next |-> p.next + Batch,
                stale |-> stale,
                asked |-> [u \in Members |-> p.asked[u]
                  + Cardinality({i \in Slice(p) : p.recipients[i].user = u})]]]
     /\ UNCHANGED <<pushToken, registered>>

(* UPDATE users SET "pushToken" = NULL WHERE id IN (...)                   *)
ClearStale(h) ==
  /\ push[h].pc = "clearing"
  /\ pushToken' = [u \in Members |->
                     IF u \in push[h].stale THEN NoToken ELSE pushToken[u]]
  /\ push' = [push EXCEPT ![h].pc = "done"]
  /\ UNCHANGED registered

(* The organization is gone, a statement or fetch throws into the catch    *)
(* clause, or the process dies: the rest is not done.                      *)
DropPush(h) ==
  /\ push[h].pc \in {"emitted", "sending", "clearing"}
  /\ push' = [push EXCEPT ![h].pc = "dropped"]
  /\ UNCHANGED <<pushToken, registered>>

PushNext ==
  \/ \E u \in Members, t \in Tokens : SaveToken(u, t)
  \/ \E t \in Tokens : Unregister(t)
  \/ \E h \in Listeners :
       EmitMessage(h) \/ Lookup(h) \/ SendBatch(h) \/ ClearStale(h) \/ DropPush(h)

PushSpec == PushInit /\ [][PushNext]_pushVars

-----------------------------------------------------------------------------
(* Properties.                                                             *)

Push == [pc : {"none", "emitted", "sending", "clearing", "done", "dropped"},
         recipients : Seq(Recipient), next : Nat, stale : SUBSET Members,
         asked : [Members -> Nat]]
PushTypeOK ==
  /\ pushToken \in [Members -> Tokens \cup {NoToken}]
  /\ registered \in SUBSET Tokens
  /\ push \in [Listeners -> Push]

(* Expo is asked about every recipient once and only once before a         *)
(* listener clears tokens or ends, and never twice if it is dropped        *)
(* (push-sender.service.ts:30-41): the batches cut the recipients into     *)
(* pieces that meet without a gap.                                         *)
Told(p) == {p.recipients[i].user : i \in DOMAIN p.recipients}
AskedOnce ==
  \A h \in Listeners, u \in Members :
    /\ push[h].asked[u] <= 1
    /\ push[h].pc \in {"clearing", "done"} =>
         (push[h].asked[u] = 1 <=> u \in Told(push[h]))

(* "Stale tokens are cleared automatically" (src/README.md:265): a user    *)
(* loses his token only to a listener that had read an unregistered token  *)
(* of his (messages.listener.ts:49-82, push-sender.service.ts:51-58).  The *)
(* one he loses need not be that token: he may have saved it since.        *)
ReadUnregistered(h, u) ==
  \E i \in DOMAIN push[h].recipients :
    /\ push[h].recipients[i].user = u
    /\ push[h].recipients[i].token \notin registered
OnlyStaleCleared ==
  [][\A u \in Members :
       pushToken[u] # NoToken /\ pushToken'[u] = NoToken =>
         \E h \in Listeners : push[h].pc = "clearing" /\ ReadUnregistered(h, u)]_pushVars
=============================================================================
