-------------------------- MODULE MessageFeedProofs -------------------------
(***************************************************************************)
(* Theorems about MessageFeed, for any numbers of clients and messages and *)
(* any limit.                                                              *)
(***************************************************************************)
EXTENDS MessageFeed, FiniteSetTheorems, TLAPS

(* A message keeps its createdAt while the room is open and it is stored,  *)
(* and a deleted room stores nothing.                                      *)
Timed ==
  /\ clock \in Instants
  /\ message \in [Messages -> [pc : {"none", "begun", "stored"}, at : Instants]]
  /\ ~open => Stored = {}

(* What a client of a channel was shown is no older than its cursor, and   *)
(* what it was not shown and found there is older, or shares the           *)
(* millisecond of some cursor.                                             *)
HoldsStored(w) == open => w.seen \cup w.page \cup w.had \subseteq Stored
ShownIsNewer(w) ==
  open /\ w.pc \in {"asked", "more"} =>
    \A m \in w.seen \cup w.page : w.before <= CreatedAt(m)
RestIsOlder(w) ==
  \A m \in (Stored \cap w.had) \ (w.seen \cup w.page) :
    \/ w.pc \in {"asked", "more"} /\ CreatedAt(m) < w.before
    \/ Milli(CreatedAt(m)) \in w.cursors
Follows(w) ==
  /\ HoldsStored(w)
  /\ ShownIsNewer(w)
  /\ RestIsOlder(w)
  /\ w.page \cap w.seen = {}
  /\ w.pc = "asked" => w.page = {}

Reading(w) ==
  /\ w \in Walk
  /\ Cardinality(w.page) <= Limit
  /\ room = "channel" => Follows(w)

FeedInv ==
  /\ room \in {"channel", "board"}
  /\ open \in BOOLEAN
  /\ inRoom \in SUBSET Clients
  /\ Timed
  /\ walk \in [Clients -> Walk]
  /\ \A c \in Clients : Reading(walk[c])

-----------------------------------------------------------------------------
(* Times.                                                                  *)

LEMMA Whole ==
  ASSUME NEW n \in Nat, NEW d \in Nat \ {0}
  PROVE  n \div d \in Nat /\ d * (n \div d) <= n /\ n < d * (n \div d) + d
OBVIOUS

LEMMA MilliIs ==
  ASSUME NEW t \in Nat
  PROVE  Milli(t) \in Nat /\ Milli(t) <= t /\ t < Milli(t) + Millisecond
<1> DEFINE q == t \div Millisecond
<1>1. q \in Nat /\ Millisecond * q <= t /\ t < Millisecond * q + Millisecond
  BY Whole, MillisecondAssumption
<1>2. Milli(t) = Millisecond * q
  BY DEF Milli
<1> HIDE DEF q
<1> QED BY <1>1, <1>2, MillisecondAssumption

(* What is no newer is older than the millisecond, or in it.               *)
LEMMA SameMilli ==
  ASSUME NEW a \in Nat, NEW b \in Nat, a <= b
  PROVE  a < Milli(b) \/ Milli(a) = Milli(b)
<1> DEFINE p == a \div Millisecond
           q == b \div Millisecond
<1>1. /\ p \in Nat /\ Millisecond * p <= a /\ a < Millisecond * p + Millisecond
      /\ q \in Nat /\ Millisecond * q <= b /\ b < Millisecond * q + Millisecond
  BY Whole, MillisecondAssumption
<1>2. Milli(a) = Millisecond * p /\ Milli(b) = Millisecond * q
  BY DEF Milli
<1> HIDE DEF p, q
<1>m. Millisecond \in Nat \ {0}
  BY MillisecondAssumption
<1>3. CASE p < q
  <2>1. Millisecond * (p + 1) <= Millisecond * q
    BY <1>1, <1>3, <1>m
  <2>2. Millisecond * (p + 1) = Millisecond * p + Millisecond
    BY <1>1, <1>m
  <2> QED BY <1>1, <1>2, <1>m, <2>1, <2>2
<1>4. CASE p = q
  BY <1>2, <1>4
<1>5. CASE q < p
  <2>1. Millisecond * (q + 1) <= Millisecond * p
    BY <1>1, <1>5, <1>m
  <2>2. Millisecond * (q + 1) = Millisecond * q + Millisecond
    BY <1>1, <1>m
  <2> QED BY <1>1, <1>m, <2>1, <2>2
<1> QED BY <1>1, <1>3, <1>4, <1>5

-----------------------------------------------------------------------------
(* Pages.                                                                  *)

LEMMA FirstRowsAre ==
  ASSUME NEW n \in Nat, NEW all \in SUBSET Messages, NEW rows \in FirstRows(n, all)
  PROVE  /\ rows \subseteq all /\ IsFiniteSet(rows)
         /\ Cardinality(rows) \in Nat /\ Cardinality(rows) <= n
         /\ Cardinality(rows) < n => rows = all
         /\ \A m \in rows, k \in all \ rows : CreatedAt(k) <= CreatedAt(m)
<1>1. rows \subseteq all /\ NewestOf(rows, all)
      /\ IF Cardinality(all) <= n THEN rows = all ELSE Cardinality(rows) = n
  BY DEF FirstRows
<1>2. IsFiniteSet(rows) /\ IsFiniteSet(all)
  BY <1>1, MessagesAssumption, FS_Subset
<1>3. Cardinality(rows) \in Nat /\ Cardinality(all) \in Nat
  BY <1>2, FS_CardinalityType
<1> QED BY <1>1, <1>2, <1>3 DEF NewestOf

LEMMA ItemsAre ==
  ASSUME NEW rows \in SUBSET Messages, Cardinality(rows) = Limit + 1, NEW extra \in rows
  PROVE  Cardinality(Items(rows, extra)) = Limit
<1>1. IsFiniteSet(rows)
  BY MessagesAssumption, FS_Subset
<1>2. Cardinality(rows \ {extra}) = Cardinality(rows) - 1
  BY <1>1, FS_RemoveElement
<1> QED BY <1>2, LimitAssumption DEF Items

-----------------------------------------------------------------------------
(* Steps of the messages.                                                  *)

MessagesKept ==
  /\ open' \in BOOLEAN
  /\ open' => /\ open
              /\ \A m \in Stored : m \in Stored' /\ CreatedAt(m)' = CreatedAt(m)

LEMMA FollowsKept ==
  ASSUME FeedInv, Timed', MessagesKept, NEW w, Follows(w)
  PROVE  Follows(w)'
<1>1. HoldsStored(w)'
  BY DEF HoldsStored, MessagesKept, Follows
<1>2. ShownIsNewer(w)'
  BY DEF HoldsStored, MessagesKept, Follows, ShownIsNewer
<1>3. RestIsOlder(w)'
  <2> SUFFICES ASSUME NEW m \in Stored', m \in w.had, m \notin w.seen \cup w.page
               PROVE  \/ w.pc \in {"asked", "more"} /\ CreatedAt(m)' < w.before
                      \/ Milli(CreatedAt(m)') \in w.cursors
    BY DEF RestIsOlder, Milli
  <2>1. open' /\ open
    BY DEF Timed, MessagesKept
  <2>2. m \in Stored
    BY <2>1 DEF Follows, HoldsStored
  <2>3. CreatedAt(m)' = CreatedAt(m)
    BY <2>1, <2>2 DEF MessagesKept
  <2> QED BY <2>2, <2>3 DEF Follows, RestIsOlder
<1> QED BY <1>1, <1>2, <1>3 DEF Follows

(* A step of none of the clients' walks.                                   *)
Unread ==
  /\ Timed' /\ MessagesKept
  /\ UNCHANGED <<room, walk>> /\ inRoom' \in SUBSET Clients

LEMMA MessageStep ==
  ASSUME FeedInv, Unread
  PROVE  FeedInv'
<1>1. ASSUME NEW c \in Clients PROVE Reading(walk[c])'
  <2>1. PICK w : w = walk[c]
    OBVIOUS
  <2>2. Reading(w) /\ walk'[c] = w
    BY <2>1 DEF FeedInv, Unread
  <2>3. room = "channel" => Follows(w)'
    BY <2>2, FollowsKept DEF Reading, Unread
  <2>4. Reading(w)'
    BY <2>2, <2>3 DEF Reading, Unread
  <2> QED BY <2>2, <2>4
<1> QED BY <1>1 DEF FeedInv, MessagesKept, Unread

LEMMA MessageRecord ==
  ASSUME NEW row \in [pc : {"none", "begun", "stored"}, at : Instants],
         NEW p \in {"none", "begun", "stored"}
  PROVE  LET x == [row EXCEPT !.pc = p]
         IN  /\ x \in [pc : {"none", "begun", "stored"}, at : Instants]
             /\ x.pc = p /\ x.at = row.at
OBVIOUS

LEMMA PostsUnread ==
  ASSUME FeedInv, NEW m \in Messages, Posts(m)
  PROVE  Unread
<1>1. /\ clock \in Instants /\ open \in BOOLEAN /\ (~open => Stored = {})
      /\ message \in [Messages -> [pc : {"none", "begun", "stored"}, at : Instants]]
  BY DEF FeedInv, Timed
<1>2. PICK row : /\ message' = [message EXCEPT ![m] = row]
                 /\ row \in [pc : {"none", "begun", "stored"}, at : Instants]
                 /\ row.pc = "stored" => open /\ row.at = message[m].at
                 /\ message[m].pc # "stored"
  <2>1. CASE Post(m)
    <3>1. [pc |-> "begun", at |-> clock] \in [pc : {"none", "begun", "stored"}, at : Instants]
      BY <1>1
    <3> QED BY <2>1, <3>1 DEF Post
  <2>2. CASE Insert(m)
    <3> DEFINE p == IF open THEN "stored" ELSE "none"
    <3>1. message' = [message EXCEPT ![m] = [message[m] EXCEPT !.pc = p]]
      BY <2>2 DEF Insert
    <3>2. p \in {"none", "begun", "stored"} /\ (p = "stored" => open)
      OBVIOUS
    <3> HIDE DEF p
    <3> QED BY <1>1, <2>2, <3>1, <3>2, MessageRecord DEF Insert
  <2>3. CASE AbortPost(m)
    <3>1. message' = [message EXCEPT ![m] = [message[m] EXCEPT !.pc = "none"]]
      BY <2>3 DEF AbortPost
    <3> QED BY <1>1, <2>3, <3>1, MessageRecord DEF AbortPost
  <2> QED BY <2>1, <2>2, <2>3 DEF Posts
<1>3. UNCHANGED <<room, open, inRoom, clock, walk>>
  BY DEF Posts, Post, Insert, AbortPost
<1>4. \A k \in Messages : k # m => message'[k] = message[k]
  BY <1>1, <1>2
<1>5. message'[m] = row
  BY <1>1, <1>2
<1>6. Timed'
  <2>1. message' \in [Messages -> [pc : {"none", "begun", "stored"}, at : Instants]]
    BY <1>1, <1>2
  <2>2. ~open => Stored' = {}
    BY <1>1, <1>2, <1>4, <1>5 DEF Stored
  <2> QED BY <1>1, <1>3, <2>1, <2>2 DEF Timed, Instants
<1>7. MessagesKept
  BY <1>1, <1>2, <1>3, <1>4 DEF MessagesKept, Stored, CreatedAt
<1> QED BY <1>3, <1>6, <1>7 DEF FeedInv, Unread

LEMMA OthersUnread ==
  ASSUME FeedInv,
         (\E c \in Clients : Leaves(c)) \/ DeleteRoom \/ ClockTick \/ UNCHANGED feedVars
  PROVE  Unread
<1>t. /\ clock \in Instants /\ open \in BOOLEAN /\ (~open => Stored = {})
      /\ message \in [Messages -> [pc : {"none", "begun", "stored"}, at : Instants]]
      /\ inRoom \in SUBSET Clients
  BY DEF FeedInv, Timed
<1>1. CASE DeleteRoom
  <2>1. \A m \in Messages : message'[m] =
          IF m \in Stored THEN [message[m] EXCEPT !.pc = "none"] ELSE message[m]
    BY <1>1 DEF DeleteRoom
  <2>2. ASSUME NEW m \in Messages
        PROVE  /\ message'[m] \in [pc : {"none", "begun", "stored"}, at : Instants]
               /\ message'[m].pc # "stored"
    BY <1>t, <2>1, MessageRecord DEF Stored
  <2>3. message' \in [Messages -> [pc : {"none", "begun", "stored"}, at : Instants]]
    BY <1>1, <2>2 DEF DeleteRoom
  <2>4. Stored' = {}
    BY <2>2 DEF Stored
  <2>5. Timed'
    BY <1>t, <1>1, <2>3, <2>4 DEF DeleteRoom, Timed, Instants
  <2> QED BY <1>1, <2>5 DEF DeleteRoom, MessagesKept, Unread
<1>2. CASE UNCHANGED <<room, open, message, walk>> /\ inRoom' \in SUBSET Clients
           /\ clock' \in Instants
  <2>1. Timed'
    BY <1>t, <1>2 DEF Timed, Stored, Instants
  <2>2. MessagesKept
    BY <1>t, <1>2 DEF MessagesKept, Stored, CreatedAt
  <2> QED BY <1>2, <2>1, <2>2 DEF Unread
<1>3. ClockTick => clock' \in Instants
  BY <1>t, MaxClockAssumption DEF ClockTick, Instants
<1> QED BY <1>t, <1>1, <1>2, <1>3 DEF Leaves, ClockTick, feedVars

-----------------------------------------------------------------------------
(* Steps of the clients.                                                   *)

LEMMA ReadingStep ==
  ASSUME FeedInv, UNCHANGED <<room, open, inRoom, clock, message>>,
         NEW c \in Clients, NEW w, walk' = [walk EXCEPT ![c] = w], Reading(w)
  PROVE  FeedInv'
<1>1. walk' \in [Clients -> Walk] /\ walk'[c] = w /\ \A d \in Clients : d # c => walk'[d] = walk[d]
  BY DEF FeedInv, Reading
<1>2. \A x : Reading(x) => Reading(x)'
  BY DEF Reading, Follows, HoldsStored, ShownIsNewer, RestIsOlder, Stored, CreatedAt, Milli
<1>3. \A d \in Clients : \A x : x = walk'[d] => Reading(x)'
  BY <1>1, <1>2 DEF FeedInv
<1>4. \A d \in Clients : Reading(walk[d])'
  BY <1>3
<1> QED BY <1>1, <1>4 DEF FeedInv, Timed, Stored, Instants

LEMMA NoWalkIs ==
  /\ NoWalk \in Walk /\ NoWalk.pc = "none" /\ NoWalk.before = Newest
  /\ NoWalk.page = {} /\ NoWalk.seen = {} /\ NoWalk.had = {}
BY MaxClockAssumption DEF NoWalk, Walk, Newest

LEMMA NoWalkOK == Reading(NoWalk)
<1>1. NoWalk \in Walk /\ NoWalk.page = {} /\ NoWalk.seen = {} /\ NoWalk.had = {}
      /\ NoWalk.pc = "none"
  BY NoWalkIs
<1>2. Cardinality({}) <= Limit
  BY FS_EmptySet, LimitAssumption
<1> QED BY <1>1, <1>2 DEF Reading, Follows, HoldsStored, ShownIsNewer, RestIsOlder

LEMMA StartWalkInv ==
  ASSUME FeedInv, NEW c \in Clients, StartWalk(c)
  PROVE  FeedInv'
<1> DEFINE w == [NoWalk EXCEPT !.pc = "asked", !.number = 1, !.had = Stored]
<1>1. /\ w \in Walk /\ w.pc = "asked" /\ w.seen = {} /\ w.page = {} /\ w.had = Stored
      /\ w.before = Newest
  <2>1. Stored \subseteq Messages
    BY DEF Stored
  <2> QED BY <2>1, NoWalkIs DEF Walk
<1>2. UNCHANGED <<room, open, inRoom, clock, message>> /\ walk' = [walk EXCEPT ![c] = w]
  BY DEF StartWalk
<1> HIDE DEF w
<1>3. \A m \in Stored : CreatedAt(m) < Newest
  BY MaxClockAssumption DEF Stored, CreatedAt, Newest, FeedInv, Timed, Instants
<1>4. Cardinality(w.page) <= Limit
  BY <1>1, FS_EmptySet, LimitAssumption
<1>5. Reading(w)
  BY <1>1, <1>3, <1>4 DEF Reading, Follows, HoldsStored, ShownIsNewer, RestIsOlder
<1> QED BY <1>2, <1>5, ReadingStep

LEMMA WalkRecord ==
  ASSUME NEW w \in Walk, NEW p \in {"none", "asked", "more", "end"}, NEW b \in Int,
         NEW n \in Nat, NEW seen \in SUBSET Messages, NEW page \in SUBSET Messages,
         NEW cursors \in SUBSET Int
  PROVE  /\ LET x == [w EXCEPT !.pc = p, !.seen = seen, !.page = page]
            IN  /\ x \in Walk /\ x.pc = p /\ x.seen = seen /\ x.page = page
                /\ x.before = w.before /\ x.had = w.had /\ x.cursors = w.cursors
         /\ LET x == [w EXCEPT !.pc = p, !.page = page]
            IN  /\ x \in Walk /\ x.pc = p /\ x.seen = w.seen /\ x.page = page
                /\ x.before = w.before /\ x.had = w.had /\ x.cursors = w.cursors
         /\ LET x == [w EXCEPT !.pc = p, !.page = page, !.before = b, !.cursors = cursors]
            IN  /\ x \in Walk /\ x.pc = p /\ x.seen = w.seen /\ x.page = page
                /\ x.before = b /\ x.had = w.had /\ x.cursors = cursors
         /\ LET x == [w EXCEPT !.pc = p, !.number = n, !.page = page]
            IN  x \in Walk /\ x.page = page
BY DEF Walk

LEMMA NextPageInv ==
  ASSUME FeedInv, NEW c \in Clients, NextPage(c)
  PROVE  FeedInv'
<1> DEFINE old == walk[c]
           w == [old EXCEPT !.pc = "asked", !.seen = @ \cup old.page, !.page = {}]
<1>1. /\ UNCHANGED <<room, open, inRoom, clock, message>> /\ old.pc = "more"
      /\ walk' = [walk EXCEPT ![c] = IF MayRead(c) THEN w ELSE NoWalk]
  BY DEF NextPage
<1>2. old \in Walk /\ Reading(old)
  BY DEF FeedInv
<1>3. old.seen \cup old.page \subseteq Messages /\ old.seen \subseteq Messages
  BY <1>2 DEF Walk
<1>4. /\ w \in Walk /\ w.pc = "asked" /\ w.seen = old.seen \cup old.page /\ w.page = {}
      /\ w.before = old.before /\ w.had = old.had /\ w.cursors = old.cursors
  <2> HIDE DEF old
  <2> QED BY <1>2, <1>3 DEF Walk
<1> HIDE DEF w, old
<1>5. Cardinality(w.page) <= Limit
  BY <1>4, FS_EmptySet, LimitAssumption
<1>6. Reading(w)
  BY <1>1, <1>2, <1>4, <1>5 DEF Reading, Follows, HoldsStored, ShownIsNewer, RestIsOlder
<1> QED BY <1>1, <1>6, NoWalkOK, ReadingStep

(* The last row of a page by cursor, and the one after it that is not      *)
(* shown.                                                                  *)
LEMMA ShowMoreReading ==
  ASSUME FeedInv, room = "channel", NEW c \in Clients, walk[c].pc = "asked",
         NEW rows \in FindPageByChannel(walk[c].before), Cardinality(rows) > Limit,
         NEW extra \in OldestIn(rows), NEW last \in OldestIn(Items(rows, extra)),
         NEW w,
         w = [walk[c] EXCEPT !.pc = "more", !.page = Items(rows, extra),
                             !.before = Cursor(last), !.cursors = @ \cup {Cursor(last)}]
  PROVE  Reading(w)
<1> DEFINE old == walk[c]
           items == Items(rows, extra)
           b == Cursor(last)
           all == Older(old.before)
           cs == old.cursors \cup {b}
<1>1. old \in Walk /\ Follows(old) /\ old.pc = "asked" /\ old.page = {}
  BY DEF FeedInv, Reading, Follows
<1>2. all \in SUBSET Messages /\ all \subseteq Stored
  BY DEF Older, Stored
<1>3. /\ rows \subseteq all /\ Cardinality(rows) = Limit + 1
      /\ \A m \in rows, k \in all \ rows : CreatedAt(k) <= CreatedAt(m)
  <2>1. Limit + 1 \in Nat /\ rows \in FirstRows(Limit + 1, all)
    BY LimitAssumption DEF FindPageByChannel
  <2> QED BY <1>2, <2>1, FirstRowsAre, LimitAssumption
<1>4. extra \in rows /\ \A n \in rows : CreatedAt(extra) <= CreatedAt(n)
  BY DEF OldestIn
<1>5. items = rows \ {extra} /\ last \in items /\ \A n \in items : CreatedAt(last) <= CreatedAt(n)
  BY DEF OldestIn, Items
<1>6. Cardinality(items) = Limit
  BY <1>2, <1>3, <1>4, ItemsAre
<1>7. \A m \in Stored : CreatedAt(m) \in Nat
  BY DEF FeedInv, Timed, Instants, Stored, CreatedAt
<1>8. last \in Stored /\ b = Milli(CreatedAt(last)) /\ b \in Nat /\ b <= CreatedAt(last)
  <2>1. last \in Stored
    BY <1>2, <1>3, <1>5
  <2> QED BY <1>7, <2>1, MilliIs DEF Cursor
<1>9. items \subseteq Messages /\ cs \subseteq Int
  BY <1>1, <1>2, <1>3, <1>5, <1>8 DEF Walk
<1>10. /\ w \in Walk /\ w.pc = "more" /\ w.seen = old.seen /\ w.page = items
       /\ w.before = b /\ w.had = old.had /\ w.cursors = cs
  <2>1. w = [old EXCEPT !.pc = "more", !.page = items, !.before = b, !.cursors = cs]
    BY <1>1 DEF Walk
  <2> HIDE DEF old, items, b, cs
  <2> QED BY <1>1, <1>8, <1>9, <2>1 DEF Walk
<1>11. \A m \in all : m \in Stored /\ CreatedAt(m) < old.before
  BY DEF Older
<1>b. old.before \in Int
  BY <1>1 DEF Walk
<1> HIDE DEF old, items, b, cs, all
<1>12. HoldsStored(w)
  BY <1>1, <1>2, <1>3, <1>5, <1>10 DEF Follows, HoldsStored
<1>13. ShownIsNewer(w)
  <2> SUFFICES ASSUME open, NEW m \in old.seen \cup items PROVE b <= CreatedAt(m)
    BY <1>10 DEF ShownIsNewer
  <2>1. CASE m \in items
    <3>1. CreatedAt(last) <= CreatedAt(m) /\ m \in Stored
      BY <1>2, <1>3, <1>5, <2>1
    <3> QED BY <1>7, <1>8, <3>1
  <2>2. CASE m \in old.seen
    <3>1. old.before <= CreatedAt(m) /\ m \in Stored
      BY <1>1, <2>2 DEF Follows, ShownIsNewer, HoldsStored
    <3>2. CreatedAt(last) < old.before
      BY <1>3, <1>5, <1>11
    <3> QED BY <1>b, <1>7, <1>8, <3>1, <3>2
  <2> QED BY <2>1, <2>2
<1>14. RestIsOlder(w)
  <2> SUFFICES ASSUME NEW m \in Stored, m \in old.had, m \notin old.seen, m \notin items
               PROVE  CreatedAt(m) < b \/ Milli(CreatedAt(m)) \in cs
    BY <1>10 DEF RestIsOlder
  <2>1. CASE Milli(CreatedAt(m)) \in old.cursors
    BY <2>1 DEF cs
  <2>2. CASE CreatedAt(m) < old.before
    <3>1. m \in all
      BY <2>2 DEF all, Older
    <3>2. CreatedAt(m) <= CreatedAt(extra)
      <4>1. CASE m \in rows
        <5>1. m = extra
          BY <1>5, <4>1
        <5> QED BY <1>7, <5>1
      <4>2. CASE m \notin rows
        BY <1>3, <1>4, <3>1, <4>2
      <4> QED BY <4>1, <4>2
    <3>3. CreatedAt(m) <= CreatedAt(last)
      <4>1. last \in rows /\ extra \in Stored /\ last \in Stored
        BY <1>2, <1>3, <1>4, <1>5
      <4> QED BY <1>4, <1>7, <3>2, <4>1
    <3> QED BY <1>7, <1>8, <3>3, SameMilli DEF cs
  <2>3. CreatedAt(m) < old.before \/ Milli(CreatedAt(m)) \in old.cursors
    BY <1>1 DEF Follows, RestIsOlder
  <2> QED BY <2>1, <2>2, <2>3
<1>15. items \cap old.seen = {}
  <2> SUFFICES ASSUME NEW m, m \in items, m \in old.seen PROVE FALSE
    OBVIOUS
  <2>1. m \in all /\ m \in Stored
    BY <1>2, <1>3, <1>5
  <2>2. open
    BY <2>1 DEF FeedInv, Timed
  <2>3. old.before <= CreatedAt(m) /\ CreatedAt(m) < old.before
    BY <1>1, <1>11, <2>1, <2>2 DEF Follows, ShownIsNewer
  <2> QED BY <1>b, <1>7, <2>1, <2>3
<1> QED BY <1>6, <1>10, <1>12, <1>13, <1>14, <1>15, LimitAssumption DEF Reading, Follows

LEMMA ShowEndReading ==
  ASSUME FeedInv, room = "channel", NEW c \in Clients, walk[c].pc = "asked",
         NEW rows \in FindPageByChannel(walk[c].before), ~(Cardinality(rows) > Limit),
         NEW w, w = [walk[c] EXCEPT !.pc = "end", !.page = rows]
  PROVE  Reading(w)
<1> DEFINE old == walk[c]
           all == Older(old.before)
<1>1. old \in Walk /\ Follows(old) /\ old.pc = "asked" /\ old.page = {}
  BY DEF FeedInv, Reading, Follows
<1>2. all \in SUBSET Messages /\ all \subseteq Stored
  BY DEF Older, Stored
<1>3. rows = all /\ Cardinality(rows) <= Limit
  <2>1. Limit + 1 \in Nat /\ rows \in FirstRows(Limit + 1, all)
    BY LimitAssumption DEF FindPageByChannel
  <2> QED BY <1>2, <2>1, FirstRowsAre, LimitAssumption
<1>4. /\ w \in Walk /\ w.pc = "end" /\ w.seen = old.seen /\ w.page = rows
      /\ w.had = old.had /\ w.cursors = old.cursors
  <2> HIDE DEF old, all
  <2> QED BY <1>1, <1>2, <1>3 DEF Walk, old
<1>5. \A m \in Stored : CreatedAt(m) \in Nat
  BY DEF FeedInv, Timed, Instants, Stored, CreatedAt
<1>6. old.before \in Int
  BY <1>1 DEF Walk
<1>7. all = {m \in Stored : CreatedAt(m) < old.before}
  BY DEF Older
<1> HIDE DEF old, all
<1>8. HoldsStored(w) /\ ShownIsNewer(w)
  BY <1>1, <1>2, <1>3, <1>4 DEF Follows, HoldsStored, ShownIsNewer
<1>9. RestIsOlder(w)
  BY <1>1, <1>3, <1>4, <1>7 DEF Follows, RestIsOlder
<1>10. rows \cap old.seen = {}
  <2> SUFFICES ASSUME NEW m, m \in rows, m \in old.seen PROVE FALSE
    OBVIOUS
  <2>1. m \in Stored /\ CreatedAt(m) < old.before
    BY <1>3, <1>7
  <2>2. open
    BY <2>1 DEF FeedInv, Timed
  <2>3. old.before <= CreatedAt(m)
    BY <1>1, <2>1, <2>2 DEF Follows, ShownIsNewer
  <2> QED BY <1>5, <1>6, <2>1, <2>3
<1> QED BY <1>3, <1>4, <1>8, <1>9, <1>10 DEF Reading, Follows

LEMMA ShowByOffsetReading ==
  ASSUME FeedInv, room = "board", NEW c \in Clients,
         NEW rows \in SUBSET Messages, NEW items \in FirstRows(Limit, rows),
         NEW p \in {"more", "end"}, NEW w,
         w = [walk[c] EXCEPT !.pc = p, !.number = @ + 1, !.page = items]
  PROVE  Reading(w)
<1> DEFINE old == walk[c]
<1>1. old \in Walk /\ old.number + 1 \in Nat
  BY DEF FeedInv, Walk
<1>2. items \subseteq Messages /\ Cardinality(items) <= Limit
  BY FirstRowsAre, LimitAssumption
<1>3. w \in Walk /\ w.page = items
  <2> HIDE DEF old
  <2> QED BY <1>1, <1>2 DEF Walk, old
<1> QED BY <1>2, <1>3 DEF Reading

LEMMA ShowsInv ==
  ASSUME FeedInv, NEW c \in Clients, Shows(c)
  PROVE  FeedInv'
<1>1. CASE ShowByCursor(c)
  <2>1. PICK rows \in FindPageByChannel(walk[c].before) :
          IF Cardinality(rows) > Limit
          THEN \E extra \in OldestIn(rows) : \E last \in OldestIn(Items(rows, extra)) :
                 walk' = [walk EXCEPT ![c] =
                   [walk[c] EXCEPT !.pc = "more", !.page = Items(rows, extra),
                                   !.before = Cursor(last),
                                   !.cursors = @ \cup {Cursor(last)}]]
          ELSE walk' = [walk EXCEPT ![c] = [walk[c] EXCEPT !.pc = "end", !.page = rows]]
    BY <1>1 DEF ShowByCursor
  <2>2. PICK w : walk' = [walk EXCEPT ![c] = w] /\ Reading(w)
    <3>1. CASE Cardinality(rows) > Limit
      <4>0. PICK extra \in OldestIn(rows) : \E last \in OldestIn(Items(rows, extra)) :
              walk' = [walk EXCEPT ![c] =
                [walk[c] EXCEPT !.pc = "more", !.page = Items(rows, extra),
                                !.before = Cursor(last),
                                !.cursors = @ \cup {Cursor(last)}]]
        BY <2>1, <3>1
      <4>1. PICK last \in OldestIn(Items(rows, extra)) :
              walk' = [walk EXCEPT ![c] =
                [walk[c] EXCEPT !.pc = "more", !.page = Items(rows, extra),
                                !.before = Cursor(last),
                                !.cursors = @ \cup {Cursor(last)}]]
        BY <4>0
      <4> DEFINE w == [walk[c] EXCEPT !.pc = "more", !.page = Items(rows, extra),
                                      !.before = Cursor(last),
                                      !.cursors = @ \cup {Cursor(last)}]
      <4>2. Reading(w)
        BY <1>1, <3>1, ShowMoreReading DEF ShowByCursor
      <4>3. walk' = [walk EXCEPT ![c] = w]
        BY <4>1
      <4> QED BY <4>2, <4>3
    <3>2. CASE ~(Cardinality(rows) > Limit)
      BY <1>1, <2>1, <3>2, ShowEndReading DEF ShowByCursor
    <3> QED BY <3>1, <3>2
  <2> QED BY <1>1, <2>2, ReadingStep DEF ShowByCursor
<1>2. CASE ShowByOffset(c)
  <2> DEFINE p == IF walk[c].number * Limit < Cardinality(Stored) THEN "more" ELSE "end"
  <2>1. PICK skipped \in FirstRows(Skip(walk[c].number), Stored) :
          \E items \in FirstRows(Limit, Stored \ skipped) :
            walk' = [walk EXCEPT ![c] =
              [walk[c] EXCEPT !.pc = p, !.number = @ + 1, !.page = items]]
    BY <1>2 DEF ShowByOffset
  <2> DEFINE rows == Stored \ skipped
  <2>2. PICK items \in FirstRows(Limit, rows) :
          walk' = [walk EXCEPT ![c] =
            [walk[c] EXCEPT !.pc = p, !.number = @ + 1, !.page = items]]
    BY <2>1
  <2>3. rows \in SUBSET Messages /\ p \in {"more", "end"} /\ room = "board"
    BY <1>2 DEF Stored, ShowByOffset
  <2> DEFINE w == [walk[c] EXCEPT !.pc = p, !.number = @ + 1, !.page = items]
  <2> HIDE DEF p, rows
  <2>4. Reading(w)
    BY <2>2, <2>3, ShowByOffsetReading
  <2>5. walk' = [walk EXCEPT ![c] = w]
    BY <2>2
  <2> HIDE DEF w
  <2> QED BY <1>2, <2>4, <2>5, ReadingStep DEF ShowByOffset
<1> QED BY <1>1, <1>2 DEF Shows

-----------------------------------------------------------------------------
(* The invariant holds.                                                    *)

LEMMA FeedInitInv == FeedInit => FeedInv
<1> SUFFICES ASSUME FeedInit PROVE FeedInv
  OBVIOUS
<1>1. /\ walk \in [Clients -> Walk]
      /\ \A c \in Clients : walk[c] = NoWalk
  BY NoWalkIs DEF FeedInit
<1>2. \A c \in Clients : Reading(walk[c])
  BY <1>1, NoWalkOK
<1>3. Timed
  BY MaxClockAssumption DEF FeedInit, Timed, Instants
<1> QED BY <1>1, <1>2, <1>3 DEF FeedInit, FeedInv

LEMMA FeedStepInv == FeedInv /\ [FeedNext]_feedVars => FeedInv'
<1> SUFFICES ASSUME FeedInv, [FeedNext]_feedVars PROVE FeedInv'
  OBVIOUS
<1>1. ASSUME NEW m \in Messages, Posts(m) PROVE FeedInv'
  BY <1>1, PostsUnread, MessageStep
<1>2. ASSUME NEW c \in Clients, Reads(c) PROVE FeedInv'
  BY <1>2, StartWalkInv, NextPageInv, ShowsInv DEF Reads
<1>3. ASSUME (\E c \in Clients : Leaves(c)) \/ DeleteRoom \/ ClockTick \/ UNCHANGED feedVars
      PROVE  FeedInv'
  BY <1>3, OthersUnread, MessageStep
<1> QED BY <1>1, <1>2, <1>3 DEF FeedNext

LEMMA FeedInvHolds == FeedSpec => []FeedInv
BY FeedInitInv, FeedStepInv, PTL DEF FeedSpec

(* Messages and walks keep their types, and no page exceeds the limit.     *)
THEOREM FeedTypeCorrect == FeedSpec => []FeedTypeOK
<1>1. FeedInv => FeedTypeOK
  BY MaxClockAssumption DEF FeedInv, FeedTypeOK, Timed, Instants, Reading
<1> QED BY <1>1, FeedInvHolds, PTL

(* Whoever follows the cursor is shown no message of a channel twice.      *)
THEOREM NoRepeatHolds == FeedSpec => []NoRepeat
<1>1. FeedInv => NoRepeat
  BY DEF FeedInv, NoRepeat, Reading, Follows
<1> QED BY <1>1, FeedInvHolds, PTL

(* At the end of a channel nothing that was there at the start is missing, *)
(* but in the milliseconds of the cursors.                                 *)
THEOREM SkipsShareInstantHolds == FeedSpec => []SkipsShareInstant
<1>1. FeedInv => SkipsShareInstant
  BY DEF FeedInv, SkipsShareInstant, Reading, Follows, RestIsOlder, Shown
<1> QED BY <1>1, FeedInvHolds, PTL

-----------------------------------------------------------------------------
(* Paging by offset.                                                       *)

Newer(m) == {k \in Stored : CreatedAt(k) > CreatedAt(m)}
Alone(m) == \A k \in Stored \ {m} : CreatedAt(k) # CreatedAt(m)

(* What a client has not been shown of what was there when it began.       *)
Missing(w) == (Stored \cap w.had) \ (w.seen \cup w.page)

(* All that the pages passed over or showed is newer than a message not    *)
(* shown, so it lies beyond them: unless it shares its instant.            *)
Pages(w) ==
  /\ open => w.had \subseteq Stored
  /\ w.pc \in {"asked", "more"} => w.number \in Nat \ {0}
  /\ w.pc = "asked" => w.page = {}
  /\ w.pc \in {"asked", "more"} =>
       \A m \in Missing(w) : Alone(m) => Cardinality(Newer(m)) >= Skip(w.number)
  /\ w.pc = "end" => \A m \in Missing(w) : ~Alone(m)
  /\ w.pc = "more" => Skip(w.number) < Cardinality(Messages)
BoardInv == room = "board" => \A c \in Clients : Pages(walk[c])

LEMMA NewerIs ==
  ASSUME NEW m
  PROVE  /\ Newer(m) \subseteq Stored /\ IsFiniteSet(Newer(m))
         /\ Cardinality(Newer(m)) \in Nat
         /\ IsFiniteSet(Stored) /\ Cardinality(Stored) \in Nat
         /\ Cardinality(Stored) <= Cardinality(Messages) /\ Cardinality(Messages) \in Nat
         /\ FeedInv /\ m \in Stored => Cardinality(Stored) >= Cardinality(Newer(m)) + 1
<1>1. Newer(m) \subseteq Stored /\ Stored \subseteq Messages
  BY DEF Newer, Stored
<1>2. IsFiniteSet(Stored) /\ IsFiniteSet(Newer(m))
  BY <1>1, MessagesAssumption, FS_Subset
<1>3. /\ Cardinality(Stored) \in Nat /\ Cardinality(Newer(m)) \in Nat
      /\ Cardinality(Stored) <= Cardinality(Messages) /\ Cardinality(Messages) \in Nat
  BY <1>1, <1>2, MessagesAssumption, FS_CardinalityType, FS_Subset
<1>4. ASSUME FeedInv, m \in Stored PROVE Cardinality(Stored) >= Cardinality(Newer(m)) + 1
  <2>1. m \notin Newer(m)
    BY <1>4 DEF Newer, FeedInv, Timed, Instants, Stored, CreatedAt
  <2>2. Cardinality(Newer(m) \cup {m}) = Cardinality(Newer(m)) + 1
    BY <1>2, <2>1, FS_AddElement
  <2>3. Newer(m) \cup {m} \subseteq Stored
    BY <1>1, <1>4
  <2>4. Cardinality(Newer(m) \cup {m}) <= Cardinality(Stored)
    BY <1>2, <2>3, FS_Subset
  <2> QED BY <1>3, <2>2, <2>4
<1> QED BY <1>1, <1>2, <1>3, <1>4

(* More messages only put more before the one that is missing.             *)
LEMMA PagesKept ==
  ASSUME FeedInv, Unread, NEW w, Pages(w)
  PROVE  Pages(w)'
<1>1. open' => open /\ w.had \subseteq Stored
               /\ \A k \in Stored : k \in Stored' /\ CreatedAt(k)' = CreatedAt(k)
  BY DEF Pages, Unread, MessagesKept
<1>2. ASSUME NEW m \in Missing(w)'
      PROVE  /\ m \in Missing(w) /\ (Alone(m)' => Alone(m))
             /\ Cardinality(Newer(m))' \in Nat
             /\ Cardinality(Newer(m))' >= Cardinality(Newer(m))
  <2>1. open' /\ m \in Stored' /\ m \in w.had /\ m \notin w.seen \cup w.page
    BY DEF Missing, Unread, Timed
  <2>2. m \in Stored /\ m \in Missing(w) /\ CreatedAt(m)' = CreatedAt(m)
    BY <1>1, <2>1 DEF Missing
  <2>3. Alone(m)' => Alone(m)
    BY <1>1, <2>1, <2>2 DEF Alone
  <2>4. Newer(m) \subseteq Newer(m)'
    BY <1>1, <2>1, <2>2 DEF Newer
  <2>5. IsFiniteSet(Newer(m)')
    <3>1. Newer(m)' \subseteq Messages
      BY DEF Newer, Stored
    <3> QED BY <3>1, MessagesAssumption, FS_Subset
  <2>6. Cardinality(Newer(m)) <= Cardinality(Newer(m)')
    BY <2>4, <2>5, FS_Subset
  <2>7. Cardinality(Newer(m)') \in Nat
    BY <2>5, FS_CardinalityType
  <2> QED BY <2>2, <2>3, <2>6, <2>7, NewerIs
<1>3. open' => w.had \subseteq Stored'
  BY <1>1
<1>4. ASSUME w.pc \in {"asked", "more"}, NEW m \in Missing(w)', Alone(m)'
      PROVE  Cardinality(Newer(m))' >= Skip(w.number)
  <2>1. Cardinality(Newer(m)) >= Skip(w.number)
    BY <1>2, <1>4 DEF Pages
  <2>2. Skip(w.number) \in Int /\ Cardinality(Newer(m)) \in Nat
    BY <1>4, NewerIs, LimitAssumption DEF Pages, Skip
  <2> QED BY <1>2, <1>4, <2>1, <2>2
<1>5. ASSUME w.pc = "end", NEW m \in Missing(w)' PROVE ~Alone(m)'
  BY <1>2, <1>5 DEF Pages
<1> QED BY <1>3, <1>4, <1>5 DEF Pages, Skip

(* A step that changes one walk and nothing that is stored.                *)
LEMMA OneWalk ==
  ASSUME FeedInv, BoardInv, UNCHANGED <<room, open, message>>,
         NEW c \in Clients, NEW w, walk' = [walk EXCEPT ![c] = w],
         room = "board" => Pages(w)
  PROVE  BoardInv'
<1>1. \A d \in Clients : walk'[d] = IF d = c THEN w ELSE walk[d]
  BY DEF FeedInv
<1>2. \A x : Pages(x) => Pages(x)'
  BY DEF Pages, Missing, Alone, Newer, Stored, CreatedAt, Skip
<1>3. ASSUME room = "board" PROVE \A d \in Clients : Pages(walk[d])'
  <2>1. \A d \in Clients : \A x : x = walk'[d] => Pages(x)'
    BY <1>1, <1>2, <1>3 DEF BoardInv
  <2> QED BY <2>1
<1> QED BY <1>3 DEF BoardInv

LEMMA UnreadBoard ==
  ASSUME FeedInv, BoardInv, Unread
  PROVE  BoardInv'
<1>1. ASSUME room = "board" PROVE \A c \in Clients : Pages(walk[c])'
  <2>1. \A c \in Clients : \A x : x = walk'[c] => Pages(x)'
    BY <1>1, PagesKept DEF BoardInv, Unread
  <2> QED BY <2>1
<1> QED BY <1>1 DEF BoardInv, Unread

LEMMA NoWalkPages == Pages(NoWalk)
BY NoWalkIs DEF Pages

LEMMA StartWalkBoard ==
  ASSUME FeedInv, BoardInv, NEW c \in Clients, StartWalk(c)
  PROVE  BoardInv'
<1> DEFINE w == [NoWalk EXCEPT !.pc = "asked", !.number = 1, !.had = Stored]
<1>1. /\ w.pc = "asked" /\ w.number = 1 /\ w.page = {} /\ w.had = Stored
  BY DEF NoWalk
<1>2. UNCHANGED <<room, open, message>> /\ walk' = [walk EXCEPT ![c] = w]
  BY DEF StartWalk
<1> HIDE DEF w
<1>3. Skip(1) = 0
  BY LimitAssumption DEF Skip
<1>4. Pages(w)
  BY <1>1, <1>3, NewerIs DEF Pages
<1> QED BY <1>2, <1>4, OneWalk

LEMMA NextPageBoard ==
  ASSUME FeedInv, BoardInv, NEW c \in Clients, NextPage(c)
  PROVE  BoardInv'
<1> DEFINE old == walk[c]
           w == [old EXCEPT !.pc = "asked", !.seen = @ \cup old.page, !.page = {}]
<1>1. /\ UNCHANGED <<room, open, message>> /\ old.pc = "more" /\ old \in Walk
      /\ walk' = [walk EXCEPT ![c] = IF MayRead(c) THEN w ELSE NoWalk]
  BY DEF NextPage, FeedInv
<1>2. room = "board" => Pages(old)
  BY DEF BoardInv
<1>3. /\ w.pc = "asked" /\ w.seen = old.seen \cup old.page /\ w.page = {}
      /\ w.had = old.had /\ w.number = old.number
  <2> HIDE DEF old
  <2> QED BY <1>1 DEF Walk
<1> HIDE DEF w, old
<1>4. Missing(w) = Missing(old)
  BY <1>3 DEF Missing
<1>5. room = "board" => Pages(w)
  BY <1>1, <1>2, <1>3, <1>4 DEF Pages
<1> QED BY <1>1, <1>5, NoWalkPages, OneWalk

LEMMA SkipIs ==
  ASSUME NEW n \in Nat \ {0}
  PROVE  /\ Skip(n) \in Nat /\ Skip(n) + Limit = n * Limit /\ Skip(n + 1) = n * Limit
         /\ n * Limit \in Nat
<1> DEFINE k == n - 1
<1>1. k \in Nat /\ n = k + 1 /\ Limit \in Nat
  BY LimitAssumption
<1> HIDE DEF k
<1>2. Skip(n) = k * Limit /\ Skip(n + 1) = (k + 1) * Limit
  BY <1>1 DEF Skip
<1>3. k * Limit \in Nat /\ (k + 1) * Limit = k * Limit + Limit
  BY <1>1
<1> QED BY <1>1, <1>2, <1>3

(* What a page neither passed over nor shows, alone at its instant, is     *)
(* older than all that it did.                                             *)
LEMMA BeyondPage ==
  ASSUME FeedInv, NEW n \in Nat \ {0},
         NEW skipped \in FirstRows(Skip(n), Stored),
         NEW items \in FirstRows(Limit, Stored \ skipped),
         NEW m \in Stored, Cardinality(Newer(m)) >= Skip(n), m \notin items, Alone(m)
  PROVE  Cardinality(Newer(m)) >= n * Limit
<1>1. /\ Skip(n) \in Nat /\ Skip(n) + Limit = n * Limit /\ Limit \in Nat
  BY SkipIs, LimitAssumption
<1>2. \A k \in Stored : CreatedAt(k) \in Nat
  BY DEF FeedInv, Timed, Instants, Stored, CreatedAt
<1>3. /\ skipped \subseteq Stored /\ IsFiniteSet(skipped)
      /\ Cardinality(skipped) \in Nat /\ Cardinality(skipped) <= Skip(n)
      /\ Cardinality(skipped) < Skip(n) => skipped = Stored
      /\ \A x \in skipped, k \in Stored \ skipped : CreatedAt(k) <= CreatedAt(x)
  <2>1. Stored \in SUBSET Messages
    BY DEF Stored
  <2> QED BY <1>1, <2>1, FirstRowsAre
<1>4. /\ items \subseteq Stored \ skipped /\ IsFiniteSet(items)
      /\ Cardinality(items) \in Nat /\ Cardinality(items) <= Limit
      /\ Cardinality(items) < Limit => items = Stored \ skipped
      /\ \A x \in items, k \in (Stored \ skipped) \ items : CreatedAt(k) <= CreatedAt(x)
  <2>1. Stored \ skipped \in SUBSET Messages
    BY DEF Stored
  <2> QED BY <1>1, <2>1, FirstRowsAre
<1>5. m \notin skipped
  <2> SUFFICES ASSUME m \in skipped PROVE FALSE
    OBVIOUS
  <2>1. Newer(m) \cup {m} \subseteq skipped
    BY <1>2, <1>3 DEF Newer
  <2>2. m \notin Newer(m)
    BY <1>2 DEF Newer
  <2>3. Cardinality(Newer(m) \cup {m}) = Cardinality(Newer(m)) + 1
    BY <2>2, NewerIs, FS_AddElement
  <2>4. Cardinality(Newer(m) \cup {m}) <= Cardinality(skipped)
    BY <1>3, <2>1, FS_Subset
  <2> QED BY <1>1, <1>3, <2>3, <2>4, NewerIs
<1>6. Cardinality(skipped) = Skip(n) /\ Cardinality(items) = Limit
  BY <1>1, <1>3, <1>4, <1>5
<1>7. skipped \cup items \subseteq Newer(m)
  <2>1. \A x \in skipped \cup items : x \in Stored /\ x # m /\ CreatedAt(m) <= CreatedAt(x)
    BY <1>3, <1>4, <1>5
  <2> QED BY <1>2, <2>1 DEF Newer, Alone
<1>8. Cardinality(skipped \cup items) = n * Limit
  <2>1. skipped \cap items = {} /\ Cardinality({}) = 0
    BY <1>4, FS_EmptySet
  <2>2. Cardinality(skipped \cup items) = Cardinality(skipped) + Cardinality(items) - 0
    BY <1>3, <1>4, <2>1, FS_Union
  <2> QED BY <1>1, <1>6, <2>2
<1>9. Cardinality(skipped \cup items) <= Cardinality(Newer(m))
  BY <1>7, NewerIs, FS_Subset
<1> QED BY <1>1, <1>8, <1>9, NewerIs

LEMMA ShowByOffsetBoard ==
  ASSUME FeedInv, BoardInv, NEW c \in Clients, ShowByOffset(c)
  PROVE  BoardInv'
<1> DEFINE old == walk[c]
           p == IF old.number * Limit < Cardinality(Stored) THEN "more" ELSE "end"
<1>1. /\ UNCHANGED <<room, open, message>> /\ room = "board"
      /\ old.pc = "asked" /\ old \in Walk /\ Pages(old)
  BY DEF ShowByOffset, FeedInv, BoardInv
<1>2. PICK skipped \in FirstRows(Skip(old.number), Stored) :
        \E items \in FirstRows(Limit, Stored \ skipped) :
          walk' = [walk EXCEPT ![c] = [old EXCEPT !.pc = p, !.number = @ + 1, !.page = items]]
  BY DEF ShowByOffset
<1>3. PICK items \in FirstRows(Limit, Stored \ skipped) :
        walk' = [walk EXCEPT ![c] = [old EXCEPT !.pc = p, !.number = @ + 1, !.page = items]]
  BY <1>2
<1> DEFINE n == old.number
           w == [old EXCEPT !.pc = p, !.number = @ + 1, !.page = items]
<1>4. n \in Nat \ {0} /\ old.page = {}
  BY <1>1 DEF Pages
<1>5. \/ p = "more" /\ n * Limit < Cardinality(Stored)
      \/ p = "end" /\ n * Limit >= Cardinality(Stored)
  <2>1. n * Limit \in Nat /\ Cardinality(Stored) \in Nat
    BY <1>4, SkipIs, NewerIs
  <2> HIDE DEF old
  <2> QED BY <2>1
<1>6. walk' = [walk EXCEPT ![c] = w]
  BY <1>3
<1> HIDE DEF p
<1>7. /\ w.pc = p /\ w.number = n + 1 /\ w.page = items /\ w.seen = old.seen
      /\ w.had = old.had
  <2> HIDE DEF old
  <2> QED BY <1>1 DEF Walk, old
<1> HIDE DEF w, n, old
<1>8. ASSUME NEW m \in Missing(w), Alone(m) PROVE Cardinality(Newer(m)) >= n * Limit
  <2>1. m \in Missing(old) /\ m \in Stored /\ m \notin items
    BY <1>4, <1>7, <1>8 DEF Missing
  <2>2. Cardinality(Newer(m)) >= Skip(n)
    BY <1>1, <1>8, <2>1 DEF Pages, n
  <2> QED BY <1>4, <1>8, <2>1, <2>2, BeyondPage DEF n
<1>9. ASSUME p = "more", NEW m \in Missing(w), Alone(m)
      PROVE  Cardinality(Newer(m)) >= Skip(w.number)
  BY <1>4, <1>7, <1>8, <1>9, SkipIs
<1>10. ASSUME p = "end", NEW m \in Missing(w), Alone(m) PROVE FALSE
  <2>1. m \in Stored
    BY <1>10 DEF Missing
  <2>2. Cardinality(Stored) >= Cardinality(Newer(m)) + 1
    BY <2>1, NewerIs
  <2>3. n * Limit >= Cardinality(Stored) /\ Cardinality(Newer(m)) >= n * Limit
    BY <1>5, <1>8, <1>10
  <2> QED BY <1>4, <2>2, <2>3, NewerIs, SkipIs
<1>11. ASSUME p = "more" PROVE Skip(w.number) < Cardinality(Messages)
  <2>1. n * Limit < Cardinality(Stored)
    BY <1>5, <1>11
  <2>2. /\ Cardinality(Stored) <= Cardinality(Messages)
        /\ Cardinality(Stored) \in Nat /\ Cardinality(Messages) \in Nat
    BY NewerIs
  <2>3. n * Limit \in Nat /\ Skip(n + 1) = n * Limit
    BY <1>4, SkipIs
  <2> QED BY <1>7, <2>1, <2>2, <2>3
<1>12. Pages(w)
  BY <1>1, <1>4, <1>5, <1>7, <1>9, <1>10, <1>11 DEF Pages
<1> QED BY <1>1, <1>6, <1>12, OneWalk

LEMMA BoardStep == FeedInv /\ BoardInv /\ [FeedNext]_feedVars => BoardInv'
<1> SUFFICES ASSUME FeedInv, BoardInv, [FeedNext]_feedVars PROVE BoardInv'
  OBVIOUS
<1>1. ASSUME NEW m \in Messages, Posts(m) PROVE BoardInv'
  BY <1>1, PostsUnread, UnreadBoard
<1>2. ASSUME NEW c \in Clients, Reads(c) PROVE BoardInv'
  <2>1. CASE ShowByCursor(c)
    BY <2>1 DEF ShowByCursor, BoardInv
  <2> QED BY <1>2, <2>1, StartWalkBoard, NextPageBoard, ShowByOffsetBoard DEF Reads, Shows
<1>3. ASSUME (\E c \in Clients : Leaves(c)) \/ DeleteRoom \/ ClockTick \/ UNCHANGED feedVars
      PROVE  BoardInv'
  BY <1>3, OthersUnread, UnreadBoard
<1> QED BY <1>1, <1>2, <1>3 DEF FeedNext

(* Who pages through the announcements by offset misses none but those     *)
(* that share their instant with another, however many are posted          *)
(* meanwhile.                                                              *)
THEOREM OffsetSkipsHolds == FeedSpec => []OffsetSkipsOnlyTies
<1>1. FeedInit => BoardInv
  BY NoWalkPages DEF FeedInit, BoardInv
<1>2. BoardInv => OffsetSkipsOnlyTies
  BY DEF BoardInv, OffsetSkipsOnlyTies, Pages, Missing, Shown, Alone
<1> QED BY <1>1, <1>2, FeedInvHolds, BoardStep, PTL DEF FeedSpec

-----------------------------------------------------------------------------
(* Why a client comes to the end.                                          *)

(* Each page that is not the last moves the cursor back, and no cursor is  *)
(* negative: there are at most as many pages as instants.                  *)
CursorFalls ==
  \A c \in Clients :
    room = "channel" /\ walk[c].pc = "asked" /\ walk'[c].pc = "more" =>
      0 <= walk'[c].before /\ walk'[c].before < walk[c].before

LEMMA CursorStep ==
  ASSUME FeedInv, [FeedNext]_feedVars
  PROVE  CursorFalls
<1> SUFFICES ASSUME NEW c \in Clients, room = "channel",
                    walk[c].pc = "asked", walk'[c].pc = "more"
             PROVE  0 <= walk'[c].before /\ walk'[c].before < walk[c].before
  BY DEF CursorFalls
<1>1. walk'[c] # walk[c]
  OBVIOUS
<1>2. walk \in [Clients -> Walk]
  BY DEF FeedInv
<1>3. ShowByCursor(c)
  <2>1. ASSUME NEW d \in Clients, Reads(d) PROVE d = c /\ ShowByCursor(c)
    <3>1. \A e \in Clients : e # d => walk'[e] = walk[e]
      BY <1>2, <2>1 DEF Reads, StartWalk, NextPage, Shows, ShowByCursor, ShowByOffset
    <3>2. d = c
      BY <1>1, <3>1
    <3> QED BY <2>1, <3>2 DEF Reads, StartWalk, NextPage, Shows, ShowByOffset
  <2>2. ASSUME NEW m \in Messages, Posts(m) PROVE FALSE
    BY <1>1, <2>2 DEF Posts, Post, Insert, AbortPost
  <2> QED BY <1>1, <2>1, <2>2 DEF FeedNext, Leaves, DeleteRoom, ClockTick, feedVars
<1>4. /\ walk[c] \in Walk /\ walk[c].before \in Int
      /\ \A m \in Stored : CreatedAt(m) \in Nat
  BY <1>2 DEF Walk, FeedInv, Timed, Instants, Stored, CreatedAt
<1>5. PICK rows \in FindPageByChannel(walk[c].before) :
        IF Cardinality(rows) > Limit
        THEN \E extra \in OldestIn(rows) : \E last \in OldestIn(Items(rows, extra)) :
               walk' = [walk EXCEPT ![c] =
                 [walk[c] EXCEPT !.pc = "more", !.page = Items(rows, extra),
                                 !.before = Cursor(last),
                                 !.cursors = @ \cup {Cursor(last)}]]
        ELSE walk' = [walk EXCEPT ![c] = [walk[c] EXCEPT !.pc = "end", !.page = rows]]
  BY <1>3 DEF ShowByCursor
<1>6. Cardinality(rows) > Limit
  <2> SUFFICES ASSUME walk' = [walk EXCEPT ![c] = [walk[c] EXCEPT !.pc = "end", !.page = rows]]
               PROVE  FALSE
    BY <1>5
  <2> QED BY <1>2, <1>4 DEF Walk
<1>7. PICK extra \in OldestIn(rows) : \E last \in OldestIn(Items(rows, extra)) :
        walk' = [walk EXCEPT ![c] =
          [walk[c] EXCEPT !.pc = "more", !.page = Items(rows, extra),
                          !.before = Cursor(last), !.cursors = @ \cup {Cursor(last)}]]
  BY <1>5, <1>6
<1>8. PICK last \in OldestIn(Items(rows, extra)) :
        walk' = [walk EXCEPT ![c] =
          [walk[c] EXCEPT !.pc = "more", !.page = Items(rows, extra),
                          !.before = Cursor(last), !.cursors = @ \cup {Cursor(last)}]]
  BY <1>7
<1>9. walk'[c].before = Cursor(last)
  BY <1>2, <1>4, <1>8 DEF Walk
<1>10. last \in Stored /\ CreatedAt(last) < walk[c].before
  <2>1. last \in rows /\ rows \subseteq Older(walk[c].before)
    BY DEF OldestIn, Items, FindPageByChannel, FirstRows
  <2> QED BY <2>1 DEF Older
<1>11. Cursor(last) \in Nat /\ Cursor(last) <= CreatedAt(last)
  BY <1>4, <1>10, MilliIs DEF Cursor
<1> QED BY <1>4, <1>9, <1>10, <1>11

(* The cursor is the measure by which a client comes nearer to the end of  *)
(* a channel, whatever is posted.                                          *)
THEOREM CursorAlwaysFalls == FeedSpec => [][CursorFalls]_feedVars
BY FeedInvHolds, CursorStep, PTL DEF FeedSpec

(* A client asks for another page of the announcements only while there    *)
(* may be rows in it.                                                      *)
PagesBounded ==
  \A c \in Clients :
    room = "board" /\ walk[c].pc = "more" =>
      Skip(walk[c].number) < Cardinality(Messages)

(* No client pages through the announcements for ever: its pages are       *)
(* bounded by the messages there can be.                                   *)
THEOREM PagesBoundedHolds == FeedSpec => []PagesBounded
<1>1. FeedInit => BoardInv
  BY NoWalkPages DEF FeedInit, BoardInv
<1>2. BoardInv => PagesBounded
  BY DEF BoardInv, PagesBounded, Pages
<1> QED BY <1>1, <1>2, FeedInvHolds, BoardStep, PTL DEF FeedSpec
=============================================================================
