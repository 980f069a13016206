----------------------------- MODULE MessageFeed ----------------------------
(***************************************************************************)
(* The messages of a channel (channel-messages.service.ts), which a client *)
(* pages through by cursor, and the announcements of an organization       *)
(* (messages.service.ts), which it pages through by offset, while others   *)
(* post.                                                                   *)
(*                                                                         *)
(* createdAt is a column of microseconds; a JavaScript Date, and so the    *)
(* cursor, has milliseconds.  The column's default is the time at which    *)
(* the INSERT's transaction began, so rows appear in another order than    *)
(* that of their createdAt.                                                *)
(***************************************************************************)
EXTENDS Integers, FiniteSets

CONSTANTS
  Clients,       \* the users' clients, each going through the pages once at a time
  Messages,      \* message ids: a bound on how many messages are ever stored
  Limit,         \* query parameter limit, the length of a page
  Millisecond,   \* ticks of the database's clock in a millisecond
  MaxClock       \* bound on the clock

ASSUME LimitAssumption == Limit \in Nat \ {0}
ASSUME MessagesAssumption == IsFiniteSet(Messages)
ASSUME MaxClockAssumption == MaxClock \in Nat
ASSUME MillisecondAssumption == Millisecond \in Nat \ {0}

VARIABLES
  room,          \* "channel" or "board": what is read, fixed from the start
  open,          \* the channel, or organization, exists
  inRoom,        \* clients whose users are members of it
  clock,         \* the database's clock
  message,       \* message[m]: whether m is stored, and its createdAt
  walk           \* walk[c]: how far client c has got

feedVars == <<room, open, inRoom, clock, message, walk>>

Instants == 0 .. MaxClock
(* before = Newest: no cursor is sent.                                     *)
Newest == MaxClock + 1

(* before is the cursor, number the page, to ask for next.  seen holds     *)
(* what the earlier pages showed, page what the last one did.              *)
(* had (what was stored when the walk began) and cursors are history.      *)
NoWalk == [pc |-> "none", before |-> Newest, number |-> 0, seen |-> {},
           page |-> {}, had |-> {}, cursors |-> {}]

Stored == {m \in Messages : message[m].pc = "stored"}
CreatedAt(m) == message[m].at
Milli(t) == Millisecond * (t \div Millisecond)

FeedInit ==
  /\ room \in {"channel", "board"}
  /\ open = TRUE
  /\ inRoom = Clients
  /\ clock = 0
  /\ message = [m \in Messages |-> [pc |-> "none", at |-> 0]]
  /\ walk = [c \in Clients |-> NoWalk]

-----------------------------------------------------------------------------
(* Posting.                                                                *)

(* A member posts; save() begins a transaction, whose start createdAt is.  *)
Post(m) ==
  /\ open /\ inRoom # {}
  /\ message[m].pc = "none"
  /\ message' = [message EXCEPT ![m] = [pc |-> "begun", at |-> clock]]
  /\ UNCHANGED <<room, open, inRoom, clock, walk>>

(* INSERT and COMMIT.  The foreign key refuses a row of a deleted room,    *)
(* and nothing asks again whether the author is still a member.            *)
Insert(m) ==
  /\ message[m].pc = "begun"
  /\ message' = [message EXCEPT ![m].pc = IF open THEN "stored" ELSE "none"]
  /\ UNCHANGED <<room, open, inRoom, clock, walk>>

AbortPost(m) ==
  /\ message[m].pc = "begun"
  /\ message' = [message EXCEPT ![m].pc = "none"]
  /\ UNCHANGED <<room, open, inRoom, clock, walk>>

-----------------------------------------------------------------------------
(* Paging.  ORDER BY createdAt DESC leaves the order of equal times open.  *)

NewestOf(set, rows) ==
  \A m \in set, n \in rows \ set : CreatedAt(n) <= CreatedAt(m)
OldestIn(set) == {m \in set : \A n \in set : CreatedAt(m) <= CreatedAt(n)}

(* The first n of the rows, or all of them: LIMIT n.                       *)
FirstRows(n, rows) ==
  {set \in SUBSET rows :
     /\ NewestOf(set, rows)
     /\ IF Cardinality(rows) <= n THEN set = rows ELSE Cardinality(set) = n}

(* WHERE createdAt < :before.                                              *)
Older(before) == {m \in Stored : CreatedAt(m) < before}
OlderOrEqual(before) == {m \in Stored : CreatedAt(m) <= before}

(* Mutant: the cursor is inclusive.                                        *)
FindPageInclusive(before) == FirstRows(Limit + 1, OlderOrEqual(before))

FindPageByChannel(before) == FirstRows(Limit + 1, Older(before))

(* Mutant: the cursor loses a millisecond more.                            *)
CursorRoundedDown(last) == Milli(CreatedAt(last)) - Millisecond

(* The cursor of a page, from the createdAt of its last message.           *)
Cursor(last) == Milli(CreatedAt(last))

(* The guard of the room lets a member ask for a page.                     *)
MayRead(c) == open /\ c \in inRoom

StartWalk(c) ==
  /\ walk[c].pc \in {"none", "end"}
  /\ MayRead(c)
  /\ walk' = [walk EXCEPT ![c] =
       [NoWalk EXCEPT !.pc = "asked", !.number = 1, !.had = Stored]]
  /\ UNCHANGED <<room, open, inRoom, clock, message>>

NextPage(c) ==
  /\ walk[c].pc = "more"
  /\ walk' = [walk EXCEPT ![c] =
       IF MayRead(c)
       THEN [walk[c] EXCEPT !.pc = "asked", !.seen = @ \cup walk[c].page,
                            !.page = {}]
       ELSE NoWalk]
  /\ UNCHANGED <<room, open, inRoom, clock, message>>

(* Mutant: the extra row is shown too.                                     *)
ItemsAndExtra(rows, extra) == rows

(* listByChannel: one row more than the limit tells whether to go on, and  *)
(* is not shown.  The cursor is that of the last row shown.                *)
Items(rows, extra) == rows \ {extra}
ShowByCursor(c) ==
  /\ room = "channel"
  /\ walk[c].pc = "asked"
  /\ \E rows \in FindPageByChannel(walk[c].before) :
       IF Cardinality(rows) > Limit
       THEN \E extra \in OldestIn(rows) : \E last \in OldestIn(Items(rows, extra)) :
              walk' = [walk EXCEPT ![c] =
                [walk[c] EXCEPT !.pc = "more", !.page = Items(rows, extra),
                                !.before = Cursor(last),
                                !.cursors = @ \cup {Cursor(last)}]]
       ELSE walk' = [walk EXCEPT ![c] = [walk[c] EXCEPT !.pc = "end", !.page = rows]]
  /\ UNCHANGED <<room, open, inRoom, clock, message>>

(* Mutant: pages are counted from zero.                                    *)
SkipFromZero(number) == number * Limit

(* listByOrgPaginated: skip (page - 1) * limit, take limit.                *)
Skip(number) == (number - 1) * Limit

(* The count, a statement of its own, is taken with the rows: as nothing   *)
(* but the whole room is deleted, a later one only makes the client ask    *)
(* for one more page.                                                      *)
ShowByOffset(c) ==
  /\ room = "board"
  /\ walk[c].pc = "asked"
  /\ \E skipped \in FirstRows(Skip(walk[c].number), Stored) :
     \E items \in FirstRows(Limit, Stored \ skipped) :
       walk' = [walk EXCEPT ![c] =
         [walk[c] EXCEPT
            !.pc = IF walk[c].number * Limit < Cardinality(Stored) THEN "more" ELSE "end",
            !.number = @ + 1,
            !.page = items]]
  /\ UNCHANGED <<room, open, inRoom, clock, message>>

-----------------------------------------------------------------------------
(* What else happens.                                                      *)

Leaves(c) ==
  /\ c \in inRoom
  /\ inRoom' = inRoom \ {c}
  /\ UNCHANGED <<room, open, clock, message, walk>>

(* The rows go by ON DELETE CASCADE.                                       *)
DeleteRoom ==
  /\ open
  /\ open' = FALSE
  /\ inRoom' = {}
  /\ message' = [m \in Messages |->
       IF m \in Stored THEN [message[m] EXCEPT !.pc = "none"] ELSE message[m]]
  /\ UNCHANGED <<room, clock, walk>>

ClockTick ==
  /\ clock < MaxClock
  /\ clock' = clock + 1
  /\ UNCHANGED <<room, open, inRoom, message, walk>>

Shows(c) == ShowByCursor(c) \/ ShowByOffset(c)
Reads(c) == StartWalk(c) \/ NextPage(c) \/ Shows(c)
Posts(m) == Post(m) \/ Insert(m) \/ AbortPost(m)

FeedNext ==
  \/ \E m \in Messages : Posts(m)
  \/ \E c \in Clients : Reads(c) \/ Leaves(c)
  \/ DeleteRoom
  \/ ClockTick

FeedSpec == FeedInit /\ [][FeedNext]_feedVars

(* A client that has begun to page goes on, and is answered.               *)
FeedFairness ==
  \A c \in Clients : WF_feedVars(NextPage(c) \/ Shows(c))

-----------------------------------------------------------------------------
(* Properties.                                                             *)

(* What a client holds and what is stored have their types, and no page is *)
(* longer than the limit asked for.                                        *)
Walk == [pc : {"none", "asked", "more", "end"}, before : Int, number : Nat,
         seen : SUBSET Messages, page : SUBSET Messages,
         had : SUBSET Messages, cursors : SUBSET Int]
FeedTypeOK ==
  /\ room \in {"channel", "board"}
  /\ open \in BOOLEAN
  /\ inRoom \in SUBSET Clients
  /\ clock \in Nat
  /\ message \in [Messages -> [pc : {"none", "begun", "stored"}, at : Nat]]
  /\ walk \in [Clients -> Walk]
  /\ \A c \in Clients : Cardinality(walk[c].page) <= Limit

(* A client that follows the cursor is shown no message of a channel twice *)
(* (channel-messages.repository.ts:22-27), however many are posted, and    *)
(* however late, while it reads.                                           *)
NoRepeat ==
  \A c \in Clients : room = "channel" => walk[c].page \cap walk[c].seen = {}

Shown(c) == walk[c].seen \cup walk[c].page

(* A client that has come to the end of a channel was shown every message  *)
(* that was there when it began, except of those milliseconds a cursor     *)
(* fell into (channel-messages.service.ts:50).                             *)
SkipsShareInstant ==
  \A c \in Clients : room = "channel" /\ walk[c].pc = "end" =>
    \A m \in (Stored \cap walk[c].had) \ Shown(c) :
      Milli(CreatedAt(m)) \in walk[c].cursors

(* Announcements are never deleted on their own, so those posted while a   *)
(* client pages by offset make it see some twice, but skip none            *)
(* (messages.repository.ts:30-42), unless two were stored at one instant.  *)
OffsetSkipsOnlyTies ==
  \A c \in Clients : room = "board" /\ walk[c].pc = "end" =>
    \A m \in (Stored \cap walk[c].had) \ Shown(c) :
      \E n \in Stored \ {m} : CreatedAt(n) = CreatedAt(m)

(* Who begins to page comes to an end, though others go on posting: each   *)
(* cursor is older than the one before (channel-messages.service.ts:47-51).*)
WalkEnds ==
  \A c \in Clients : walk[c].pc = "asked" ~> walk[c].pc \in {"end", "none"}
=============================================================================
