# IRB Forge: a TLA+ project

IRB Forge (`src/README.md`) is a NestJS API for mentorship communities: organizations with
members and roles, invitations, programs with enrollments, channels, announcements and Stripe
subscriptions, on Postgres (TypeORM), Redis, BullMQ, Expo push and Resend. The process keeps
next to no state: everything is in the database, and what is hard is that **every `await` of a
handler is a point where any other request may run**, that almost nothing is in a transaction,
and that a request may die at any of those points. The modules here model the handlers at that
grain: one action per database statement.

Paths below are relative to `src/src/modules/`.

## 1. Inventory

| Component | State | Operations | Hard behaviour | Correct when |
|---|---|---|---|---|
| programs | table `programs` (status, capacity, creator), cached first page | create, update, delete | `update` saves the entity it read (TypeORM `save`: SELECT, then UPDATE or INSERT) | status follows the transition table; capacity binds enrollments |
| enrollments | table `enrollments`, unique (user, program) | enroll (transaction, `FOR UPDATE` on the program), drop, updateStatus | capacity race, stale saves, deletes by id after a check | never a seat beyond the capacity; ended enrollments are not revived |
| memberships | table `memberships`, unique (user, organization), cached first page | updateRole, removeMember, leave | lookup, then write by id; channel rows deleted in a second statement | one owner; decisions hit the membership they were about |
| invitations | table `invitations` (status, token, expiry) | invite, accept (transaction), decline, cancel, resend | status writes by id after a check; no constraint on pending ones | joining needs an invitation; no invitation is reopened |
| channels | tables `channels`, `channel_members` | create, delete, addMember, removeMember | membership read before the INSERT; create without a transaction | only people the organization admitted are in a channel; members are in the default one |
| organizations | table `organizations` | create (transaction with owner membership and default channel), update, delete | slug race (unique index), cascades, a handler that decides by the row its guard read | exists with an owner and a default channel; the slug is its owner's choice |
| subscriptions, payments | tables `subscriptions` (one per organization), `payments` (unique event id); Stripe | checkout, cancel; webhook handlers | duplicated, reordered and retried webhooks, crash between statements | each payment recorded once, plan follows Stripe |
| auth, users | columns `refreshToken`, reset and verification tokens of `users`; Redis blacklist | register, login, refresh, logout, changePassword, forgot/reset, verify | a refresh in flight against a logout; rounding a token's remaining life; one-time tokens; 72-byte bcrypt prefix; a code of six digits looked up among all accounts | a logout lasts; a cleared session stays cleared until a sign-in; a code does not outlive the verification |
| list caches | Redis keys of the first page of programs and of members | cached read, deletion of the key after a write, lifetime | a page stored after the deletion that should have removed it, a crash before the deletion, writers that do not delete | an older page stays only after an overlap, and never for good |
| channel messages | table `channel_messages` | post, list by cursor | equal and truncated times at the cursor, rows that become visible late | nothing is shown twice, and what is skipped shares a cursor's millisecond |
| messages | table `messages` | post, list by offset | rows that shift while a client pages | nothing that stood there is skipped, but for ties |
| notifications: push | column `pushToken` of `users`; Expo | save a token, look up, send in batches, clear stale tokens | tokens that change or become unregistered on the way, a batch that fails, tickets matched by position | each recipient asked once, only stale tokens cleared |
| notifications: e-mail | BullMQ queue in Redis, or none; Resend | listeners, `NotificationsService`, processor | failing calls that did send, retries with backoff, death of the process, stalled jobs | a queued mail is not given up early, nor sent without bound |

Interaction: services call each other's repositories directly (invitations and channels use
memberships, channels use subscriptions, enrollments use programs); the database's unique
indexes, foreign keys with cascades and one row lock are the only synchronisation;
notifications listen to in-process events; Stripe calls the webhook.
`PROJECT.json` lists the hazards at their lines.

## 2. Modules

| Module | Models | Status |
|---|---|---|
| `SeatPool` | abstract: offered capacity and the members seated | done |
| `ProgramEnrollment` | programs and enrollments, detailed; implements `SeatPool` | done |
| `ProgramEnrollmentProofs` | theorems about it | done |
| `Roster` | abstract: roles, and offers of roles | done |
| `OrgMembership` | memberships, invitations and channels, detailed; implements `Roster` | done |
| `Ledger` | abstract: charges made, recorded and confirmed | done |
| `Billing` | subscriptions, webhook handlers and Stripe as an environment that repeats, reorders and retries; implements `Ledger` | done |
| `BillingProofs` | theorems about it | done |
| `Sessions` | refresh tokens, logout and blacklist, password change and reset of one user, with a clock | done |
| `Verification` | the codes that verify an account, and Google's word that does | done |
| `Organizations` | founding, renaming and deleting organizations, their slugs | done |
| `AccountsProofs` | theorems about `Sessions`, `Verification` and `Organizations` | done |
| `OrgMembershipProofs` | theorems about it | done |
| `ListCache` | a cached first page, its readers and writers, its lifetime | done |
| `ListCacheProofs` | theorems about it | done |
| `MessageFeed` | posting to, and paging through, a channel (by cursor) and the announcements (by offset) | done |
| `MessageFeedProofs` | theorems about it | done |
| `PushDelivery` | push tokens, batches, tickets, the clearing of stale tokens | done |
| `PushDeliveryProofs` | theorems about it | done |
| `Outbox` | abstract: a mail that is held in memory, or stored, and the tries made for it | done |
| `MailQueue` | e-mail with and without the queue, deaths of the process; implements `Outbox` | done |
| `MailQueueProofs` | theorems about it | done |

`MC*` modules instantiate a module for TLC (symmetry sets, slices of a state space). `MCServices` puts the four parts
`ListCache`, `MessageFeed`, `PushDelivery` and `MailQueue` into one run, `MCAccounts` the three parts `Sessions`,
`Verification` and `Organizations`. Order of work: the seats first, as
they are the one place where the code uses a lock on purpose; then membership, on which every
authorization rests; then money; then sessions, the read paths and what is sent out.

### How state and actions correspond to the code

* **Requests.** `req[r]` is a slot for one HTTP call: `pc` names the statement it will run next,
  the other fields hold the local variables still needed. A slot is reused when its call ends,
  so two slots are two calls *at a time*, with any number one after another. A handler that refuses
  its caller before writing anything is an action that does not happen.
* **Statements.** A statement is atomic and sees committed data (READ COMMITTED). A row lock is a
  variable (`lock`) where it is held across statements. `accept`'s transaction is one step,
  because everything that decides its outcome (unique indexes, the invitation's row) stays locked
  from the deciding statement to the commit.
* **TypeORM `save(entity)`** is a load step, which compares the entity with the row and keeps the
  columns that differ, and a save step, which updates those columns, or inserts the entity again if
  the load found no row. **`remove(entity)`, `update(id, ...)`, `delete(id)`** are one statement by id.
* **Failures.** `Abort` ends a request at any step and rolls its transaction back: an exception, a
  lost connection, a dead process.
* **Ids and times** a request draws anew are values nobody remembers (`FreshIds`, `Now`), so a few
  values stand for arbitrarily many.
* **Stripe** is the environment of `Billing`: `stripe[s]` is what it knows of a checkout session and its
  subscription, `events` what it has emitted. An event is never taken out of the set: any delivery may come at
  any time, again, and next to another. In `Billing` and `Sessions` a handler's first statement is taken together with its
  arrival, as the handler knows nothing before it.
* **Time.** `Sessions` counts ticks, of which a second has `Second`: JWT expiry and the blacklist's lifetime are whole
  seconds, the moments at which they are computed and take effect are not. `now` is bounded by `MaxNow`, which must only
  outlast a token or two.
* **Sessions of one user.** `account` is his row of `users`. `refresh` says whether a refresh token's hash is stored, not
  which: bcrypt looks at 72 bytes, and a JWT's header and the start of its subject fill them. `cleared` is a history
  variable: it says what was on its way when the column was last cleared. The guard of a protected endpoint
  (`Accepted`) is taken with the request's arrival.
* **Guard.** `OrgRolesGuard` is the first step of each request of `OrgMembership`; the handler's lookups
  come later and may see another state. In `ProgramEnrollment` the caller's role is an input, as
  no membership is modelled there.
* **Accounts.** In `Verification` the ten minutes of a code are a flag (`fresh`) that drops at some time. `findByVerificationToken`
  asks for the code alone: of several accounts with one code the lookup may find any, and that one's expiry and stage decide. A verified account
  is never unverified again. `overlapped` is history.
* **Organizations.** A request keeps the row its guard read, compares with it, and writes by its id. Founders are a constant, for
  `isVerified` is never taken back. What role the guard finds is left open (`OrgMembership` models it), only the owner is the owner.
  The random endings `generateUniqueSlug` tries are slugs of the small set, and their number is not counted: the last may
  be taken, and the unique index then refuses the INSERT. `chosen` is history.

* **Pages and versions.** In `ListCache` a table is known by its version, a counter, and a page by the version its query
  saw; `list` chooses between the two cached lists, which differ in their writers: an accepted invitation, a removal with its
  second statement, and a change of profile (which shows in the list and does not delete its key) exist for members only.
  Redis' EX is a number of ticks; a key may also be lost.
* **Times of messages.** `message[m].at` is the row's `createdAt` in ticks of the database (microseconds there), of which a
  cursor's millisecond has `Millisecond`: `pg` reads the column into a JavaScript Date. An INSERT takes its time when it
  begins and is visible when it ends, so rows need not appear in the order of their times. Where `ORDER BY createdAt` does not
  decide, any order is taken. `had`, `seen` and `cursors` of a client are history.
* **Push.** Expo is the environment: `registered` are the tokens that lead to a device. A batch may fail as a whole, and then
  no ticket of it is read. The two listeners differ in whose tokens they look up; the model's users are either.
* **E-mail.** A mail is a record with a place (`pc`) and counters. BullMQ is modelled from the options and the processor the
  code gives it: `attempts: 3`, exponential backoff (a delayed job goes behind those waiting), one job at a time, and a stalled
  job put back once at the head (its default `maxStalledCount`). Resend may have taken a mail whose call failed or
  whose caller died. `entered` is history.

## 3. What the runs check

### `pe_safety` (passes): `MCProgramEnrollment`
One program, two members, two requests, capacity 1 or unlimited, two enrollment ids, three
instants. Two requests are what every race here needs (a lock holder and an intruder; a
stale save and whoever made it stale), and capacity 1 makes the second member one too many.
* `TypeOK`
* `LockedViewCurrent`: while enroll's transaction is open, it alone holds the program's lock and the
  program it read is still the committed row.
* `SeatReserved`: capacity and uniqueness, once checked, hold until the INSERT.
* `NeverReactivated`: an enrollment becomes active only by enroll's INSERT under the lock.
* `EditsBind`: an enrollment is edited or dropped only by a request that looked this very enrollment up. A member may drop, or
  be dropped, and enroll anew while an earlier PATCH or DELETE is on its way; that one, being late, leaves the new enrollment alone.
  Two enrollment ids are enough for an old and a new one.
* `CompletionLostOnlyToDrop`: a completed enrollment is deleted only with its program, or by a drop that read this very
  enrollment while it was active. The drop checks what it read and deletes by id, so a completion in between is lost; who has
  dropped, enrolled anew and completed loses nothing to a late drop.
* `ImplementsSeatPool`: the refinement. `offer[p]` is the capacity of an active program,
  `seated[p]` its active enrollments. An offer may drop below what is seated; a seat is never
  taken without room *at that moment*.

### `pe_liveness` (passes)
`LockWaitersAnswered`: whoever waits for the row lock is answered, though holders crash, are refused or
see the program deleted. Fairness: strong, per request. The event loop runs every
continuation, and Postgres grants a row lock in order of arrival, so a waiter cannot be
overtaken for ever; weak fairness would allow that, because the lock is taken and
released again and again. One member is enough, as waiting does not depend on who enrolls.

### `pe_v_transitions` (violation)
* `LegalTransitions`: two updates each pass the check against the row they read; the second
  overwrites the first (draft to cancelled, then active). `LegalIfSerial` proves that nothing else breaks it.

### `om_safety` (passes): `MCOrgMembership`
The owner and two users, two requests, in two slices (the CONSTRAINT `Slices`), for together they are too many states.
* `OneUser`: one user, two invitations, the roles admin and member, the default channel. Two invitations let the user leave
  and come back while a request still remembers his first membership; three membership ids are enough, for at most the
  owner's, a current and a remembered one exist when a new one is drawn.
* `OneInvitation`: two users, one invitation, the role mentor, who may create channels, and a second channel.

The properties:
* `TypeOK`
* `OneOwner`: the creator is the one owner at all times.
* `DecisionsBind`: a change or deletion of a membership comes from a request that looked up this very
  membership; a late request about a former membership of the same user does nothing.
* `NeverPendingAgain`: resend, finding an invitation pending, does not reopen it if it was answered since.
* `ImplementsRoster`: users join only with a role offered to them by some invitation; the owner is out of
  reach of every change. An invitation may admit its user after it was cancelled, and twice, if the
  requests overlap: `Roster` does not promise otherwise, because the code does not.
* `ChannelsAdmitted`: whoever is in a channel, or created one, is the owner or was invited. A *former* member may be in a
  channel: addMember and create insert after the membership check without a lock.

### `om_v_default` (violation)
* `MembersInDefault`: two removals of one user overlap; between them he is invited and joins again; the
  second one's `DELETE FROM channel_members` by user takes the new row. `DefaultIfOneRemoval` proves that nothing else breaks it.

### `bl_safety` (passes): `MCBilling`
One organization, two checkouts, two requests or deliveries at a time. Two subscriptions are what a late cancellation
or event of an earlier one needs to hit a later one; two deliveries are what a duplicate needs to overlap.
* `TypeOK`
* `RecordedIsActivated`: no checkout is in the history while its organization has no subscription; Stripe would
  not deliver it again.
* `WithdrawnOnlyIfLapsed`: the plan goes only after a reported lapse of the very subscription in the row.

### `bl_liveness` (passes)
One subscription whose renewals are recorded too, so that a checkout and a renewal are two kinds of charge, and two requests or
deliveries at a time.
* `ImplementsLedger`: a charge is recorded at most once, and confirmed at most once and after that. The confirmation
  may be lost, for the process can die between the INSERT and the event; the record cannot.
* `PaidIsRecorded`: every charge reaches the history.
* `CancelReachesRow`: a subscription that has ended leaves the row.

Fairness: Stripe repeats a delivery until it is answered with success
(it gives up after days; the model does not), a request goes on or dies, and not every delivery of one event
dies at the same statement (strong fairness of each statement). A subscription's renewals are recorded only if it is in
`Tagged`: the handler wants the organization in the *subscription's* metadata, and checkout sets it on the
*session* only, so without help at Stripe no renewal is ever recorded.

### `bl_v_two`, `bl_v_cancel` (violations)
* `OneSubscription`: two sessions are opened while the row says free, and both are paid. This one has no single cause: two
  checkouts at once, a session left open and paid later, and a payment whose webhook is late all lead to it.
* `CancelledStays`: an update with status active, delivered after the deletion, restores the plan. `CancelledReturnsLate` and
  `CancelledStaysIfPrompt` prove that only such a late delivery does.

### `se_safety` (passes): `MCAccounts`
Three parts that share no variable; `awake` picks one at the start, as in `services` below.

*Sessions* (one user, two requests at a time, two access tokens, half seconds, tokens of two seconds, a clock up to 3.5
seconds). Two tokens make one outlive the other's logout; half a second is what a rounding error needs to show; the clock passes
the expiry of a token issued at once, and of one issued a second later.
* `TypeOK`, with the lifetime sent to Redis at least one second.
* `LogoutLasts`: an access token whose logout was answered is never accepted again, though its remaining life is rounded
  to seconds, computed at one moment and counted by Redis from another, and may be set twice.
* `LoggedOutStaysOut`: a clearing of the refresh token that nothing raced with stands until a sign-in arrives.

*Verification* (two accounts, two codes, two requests at a time: a code that meets an equal one, and one that is being stored while
its account is verified).
* `LeftoverOnlyByOverlap`: a verified account keeps a code only if a resend or the registration was about to store it meanwhile,
  or Google verified the account (`linkGoogleId` does not clear the columns).

*Organizations* (two users, two organizations, two slugs, two requests at a time: a renaming next to another, to a founding
with the freed slug, or to a deletion).
* `SlugsAreOwners`: an organization only has slugs its owner gave it. So "Only the owner can change the organization slug"
  (`organizations/services/organizations.service.ts:107`) holds up to this: an administrator whose request repeats the slug his
  guard read is let through, and, being late, undoes a renaming by the owner in between.

### `se_v_clear` (violation): `MCSessions`
`ClearingEndsSessions`: a refresh has read the stored hash, a logout clears it, the refresh stores a new one. No sign-in
took part. `ClearingEndsIfNoRefresh` proves that this race is the only cause.

### `services` (passes): `MCServices`
Four parts that share no variable. The variable `awake` picks one at the start and the others stand still, so the run's states
are the union of four state spaces and not their product; each property is about one part, and the fairness of a part that
sleeps asks nothing.

*Feed* (three messages, a page of one, two ticks to a millisecond, the clock at 0 to 2, one client next to any posters;
clients do not affect each other). Three messages make three pages, two fall into one millisecond and the third in another.
* `FeedTypeOK`
* `NoRepeat`: paging by cursor shows nothing twice.
* `SkipsShareInstant`: what stood in the channel when a walk began and was not shown at its end has a time in the millisecond
  of a cursor. So the comment at `channels/repositories/channel-messages.repository.ts:22-24` and `src/README.md:213` are right
  up to that millisecond only.
* `OffsetSkipsOnlyTies`: by offset, new announcements make a client see old ones again, and skip only such as share their
  time with another.
* `WalkEnds` (weak fairness of the client's requests): cursors only grow older, offsets meet the end.

*Push* (three users, two tokens, batches of two, one listener; a second token lets a user renew his, and three recipients make
two batches, one of them short).
* `PushTypeOK`
* `AskedOnce`: the batches cut the recipients without gap or overlap.
* `OnlyStaleCleared`: a user loses his token only to a listener that had read an unregistered one of his.
  *Not* only that one: a token saved since is cleared with it (`messages.listener.ts:78-82` updates by user).

*Mail* (two mails, as for a registration; with or without the queue).
* `MailTypeOK`, in which the waiting list is that of the waiting jobs.
* `ImplementsOutbox`: what is held in memory is tried at most once and may be forgotten at any time; what is stored
  is given up only after two tries, and is tried four times at most.
* `OvertakenOnlyIfFailed`: a mail reaches Resend before an earlier one only if a call for the earlier failed or was cut off.
* `MailSettles` (weak fairness of the listeners, the worker, BullMQ's delays and its recovery): each mail is sent or given up.

*Cache* (two requests, a lifetime of two ticks, the table changed up to three times; a reader and a writer are what a race
needs, and three changes let a page be older than two writes, one finished, one not).
* `CacheTypeOK`
* `StaleOnlyByOverlap`: a page older than a finished write was queried before, and stored after, the deletion of its key.
* `ChangesShow` (weak fairness of the requests and of the keys' ageing): whatever was changed is at last in every page
  shown, though invalidations are overtaken, fail, die or were never written.

## 4. What is proved

Every invariant, action property and refinement the passing runs check is a theorem. Beside these there are three kinds of theorem
that no run states:

* *Conditional* ones, named `...IfSerial`, `...IfPrompt` and the like, say what does hold where the code alone promises nothing:
  either a violation run shows the property to fail, or nothing in the repository claims it. The hypothesis only excludes that
  particular requests overlap (two updates of one program, two removals or two invitations of one user, two status changes of one
  enrollment, a refresh next to a clearing, an event handled after the end of its subscription). Crashes, failures, lost requests and
  the interleaving of everything else stay, and every behaviour in which requests follow one another and events are handled in the
  order of Stripe satisfies the hypothesis. So each names the one thing to repair.
* *Consequences of an abstract specification*, proved of `SeatPool` and of `Ledger` alone and carried to the detailed module by its
  refinement.
* *Measures* behind a liveness property, whose fairness part is left to TLC.

`ProgramEnrollmentProofs`, for every number of requests, programs, members (finite), ids
and capacities:

* `TypeCorrect`: `Spec => []TypeOK`
* `LockedViewHolds`, `SeatReservedHolds`: the other two invariants of `pe_safety`
* `NeverReactivatedHolds`, `EditsBindHolds`, `CompletionLostInOneWay`: its action properties
* `SeatPoolImplemented`: `Spec => Seats!Spec`

The inductive invariant is `Inv == TypeOK /\ LockedViewCurrent /\ EditsEndEnrollments /\ SeatReserved`.
`SeatReserved` is not inductive alone. That the count stays below the capacity between count and
INSERT needs that nobody else inserts (the lock, `LockedViewCurrent`), that no update changes the
program's capacity meanwhile (again the lock: an UPDATE waits for it), and that no save turns an ended
enrollment into an active one (`EditsEndEnrollments`, a part of the invariant only: no save in flight carries the status active); drops and deletions only lower the count,
which needs that a subset of a finite set is no larger (`FewerFit`). The refinement maps EnrollInsert to
`Seat`, saves and removals of an active enrollment to `Vacate`, program writes to `Repost`, deletion to
`Withdraw`, all else to stuttering.

From the refinement, and from steps of `SeatPool` only:

* `SeatsGrowInRoom`: the active enrollments become more by one at a time, in an active program that has room for it.
* `NeverOverbooked`: if no edit of a program puts its capacity below what is seated, or makes it active with too many, active enrollments
  never exceed the capacity. The code does not forbid such an edit (`programs.service.ts` compares nothing), hence the hypothesis.

On more invariants:

* `EditsBindHolds` and `CompletionLostInOneWay`: both rest on `StepEdits`, which says who changes an enrollment that is there; the
  second also on `DropsRead`: a drop about to delete has read its enrollment active.
* `LegalIfSerial`: `Spec /\ []OneUpdate => LegalTransitions`, with `HeldFollows`: what an update is about to store still follows from what
  is stored, deletions and insertions of the program included.
* `CompletedTimedIfSerial`: `Spec /\ []OnePatch => []CompletedTimed`, a completed enrollment has its time of completion. `TimeInv` adds that
  the entity in flight has it, and that the columns `save()` has noted are still those in which it differs from the row (`DiffExact`):
  deletions, new enrollments and drops may come between SELECT and UPDATE, but not another status change. TLC finds the row without a
  time if two of them overlap.

Assumptions: the named `ASSUME`s of `ProgramEnrollment`: null values are not rows or
requests, null is not an instant, a capacity is a positive number or null (`create-program.dto.ts`, `@Min(1)`), there are
finitely many members.

`BillingProofs`, for every number of requests and subscriptions: `TypeCorrect`, `RecordedHolds`
(`RecordedIsActivated`), `WithdrawnHolds` (`WithdrawnOnlyIfLapsed`), `LedgerImplemented`
(`Spec => History!Spec`). The inductive invariant `Inv` adds to the properties
* `RowFirst`: a checkout that updates the row has one, so even `TypeOK` is not inductive alone;
* `ActivatedFirst`: a delivery past its activation finds the organization on a subscription, whatever others did since;
* `CancelReported`: a cancellation about to write has ended its subscription at Stripe;
* `ChargesHandled`: a delivery works on an emitted event, and one about to confirm has recorded it, is alone in this,
  and it is unconfirmed. Its proof rests on the unique event id: of two deliveries only the one whose INSERT
  succeeds goes on.

`ConfirmedOnceHolds` follows from the refinement: a charge is confirmed at most once, and only one that Stripe made and the
history holds. `CancelledReturnsLate`: a row marked cancelled takes up the same subscription again only by a `LateDelivery`, of an event
that reports a subscription as running, or just paid, and is handled after its end; `CancelledStaysIfPrompt` is `CancelledStays` under the
hypothesis that there is none. The invariant is `EndedAtStripe`: the row says cancelled, and a deletion is reported, only of a
subscription that has ended at Stripe, which never starts one again.

The assumptions are `TaggedAssumption` and `NullAssumption` of `Billing`.

`AccountsProofs`, about `Sessions`, for every number of requests and access tokens, every resolution `Second` of the clock and every
life of a token: `TypeCorrect`, `LogoutLastsHolds`, `StaysOutHolds`. The inductive invariant adds
* `AccountExists`: requests that update the account, and issued tokens, imply that there is one;
* `Issued`: a token being logged out was issued, so its remaining life is a number;
* `LongEnough`: a lifetime computed and not yet set reaches from *now* at least to the expiry. It is rounded down at
  its computation, and time only passes after that;
* `Covered`: a logged-out token has expired or is on the blacklist to its end, also when set again. `LogoutLasts` alone is not
  inductive: it does not say how long the key is kept;
* `NobodyStores`: after a quiet clearing no request is about to store a token.

The arithmetic is three lemmas about `\div` (`Whole`, `Floor`, `Grows`). Assumptions: `ClockAssumption` (a second has ticks, a
token lives at least a second), `NullAssumption`, `NoAccountAssumption`.

`ClearingEndsIfNoRefresh`: `Spec /\ []NoRefreshBeside => []ClearingEndsSessions`. No refresh stands between its check and its UPDATE while a
logout or a password change is about to clear; then no clearing is a raced one, and `LoggedOutStaysOut` gives the rest.

About `Verification`, for every number of accounts, codes and requests: `LeftoverHolds`. The invariant adds `LateCode`: a code
about to be stored with a verified account was on its way when the account became verified. About `Organizations`, for every
number of users, organizations, slugs and requests: `SlugsAreOwnersHolds`. The invariant adds `CallSound`: the slug in the row a
guard has read is one the owner gave, its owner is still the owner if the organization is still there (`Recalls`; ids are
not used twice), and who is about to write repeats that slug or is the owner. So `DeletedByOwner`: an organization goes only
by a delete of the user who owns it at that moment.

`OrgMembershipProofs`, for every number of requests, users, invitations, membership ids and channels: `TypeCorrect`,
`OneOwnerHolds`, `ChannelsAdmittedHolds`, `DecisionsBindHold`, `NeverPendingAgainHolds`, `RosterImplemented`. The inductive
invariant `Inv` is
* the types of the tables (`TablesTyped`) and `IdsDistinct`: no two current memberships have one id, which is why a write by id
  hits at most one;
* `OneOwner` and `MembersAdmitted`: who is a member is the owner or was invited;
* `ChannelsAdmitted`;
* `Sound` of every request: a membership id it remembers is that of its own user or of nobody any more
  (`NamesOnlyItsUser`, for a new membership gets an id nobody remembers), is not the owner's and was found under the rules of
  its handler (`Remembers`), the invitation it works on exists and is its user's (`FindsInvitation`), and
  whoever it is about to put into a channel was admitted.

`DefaultIfOneRemoval`: `Spec /\ []OneRemoval => []MembersInDefault`. A removal whose membership is deleted and whose channel rows are
not (`Knows`) still has its user's row in the default channel, and that row's unique index keeps him from joining again until it
goes: the two statements of one removal need no transaction. `OnePendingIfSerial`: `Spec /\ []OneInvite => []OnePending`; while an
invitation is between its check and its INSERT, nobody else makes one of that user pending (`PendingInv`).

`MessageFeedProofs`, for every page size, clock, resolution and number of clients, and finitely many messages:
`FeedTypeCorrect`, `NoRepeatHolds`, `SkipsShareInstantHolds`. The inductive invariant says of a client on its way through a
channel (`Follows`) that what it was shown is not older than the cursor (`ShownIsNewer`), and that what it found at the beginning
and was not yet shown is older than the cursor or in the millisecond of some cursor (`RestIsOlder`). A page is older than
the cursor, so it repeats nothing; what a page leaves out is not newer than its last row, so it is older than
the next cursor or shares its millisecond.

`OffsetSkipsHolds` (`OffsetSkipsOnlyTies`) counts: the announcements newer than one that has an instant to itself and was not yet shown
are at least as many as the pages passed have rows (`Pages`, in `BoardInv`). A page is the next rows of *some* order by time, so
what it leaves out is ahead of it or behind it, and posting only adds newer ones. `CursorAlwaysFalls` (each page that is not the last moves
the cursor back) and `PagesBoundedHolds` (a client asks for another page only while there may be rows in it) are the measures
behind `WalkEnds`.

`PushDeliveryProofs`, for every number of users, tokens, listeners and every batch size: `PushTypeCorrect`,
`AskedOnceHolds`, `OnlyStaleClearedHolds`. The inductive invariant: a listener's recipients are distinct users, those asked are
those before the next batch (`Counted`), and every user on the list of the stale had a token read and unregistered (`StaleRead`).

`ListCacheProofs`, for every number of requests, lifetime and bound on the table's versions: `CacheTypeCorrect`,
`StaleOnlyByOverlapHolds`. The inductive invariant adds `PageHasKnown`: the page of a reader about to store it has every write
that had finished when it was queried.

`MailQueueProofs`, for every number of mails: `MailTypeCorrect`, `OutboxImplemented`. The inductive invariant `MailInv` counts:
a stored mail's calls are those that failed, those a death cut off, and the one in progress, and its copies are no more
(`Accounted`); the waiting list holds the waiting jobs, each once (`LineIs`, with a lemma for each of Append, Head and Tail, and
putting a job in front).

`OvertakenHolds` (`OvertakenOnlyIfFailed`) adds `OrderInv`: a mail whose calls were never in trouble stands in the line before all that was
queued after it, and they wait untouched. Delayed jobs go to the end of the line and a recovered one to its head, but those are in
trouble themselves. `CopiesBoundedHolds`: a recipient gets no more copies of a mail than calls were made for it, four at most,
and one at most without the queue; the bound on the calls is the measure behind `MailSettles`.

The assumptions are the named `ASSUME`s of the modules: sizes and lifetimes are positive, messages and members are finitely many,
null values are no values, the owner is a user and the default channel a channel.

## 5. Only model-checked, and not modelled

* Liveness (`LockWaitersAnswered`, `PaidIsRecorded`, `CancelReachesRow`, `WalkEnds`, `MailSettles`, `ChangesShow`) rests on
  fairness and is out of the prover's reach. Everything else the passing runs check is proved.
* `OneSubscription` fails in more than one way, so no conditional theorem stands beside it.
* Not modelled, with reasons, in `PROJECT.json` "components": configuration, response and error shaping, API documentation,
  seeds; names, descriptions, dates, wording and templates of mails; `listByOrg` of
  announcements and `expireStale` of invitations, which nothing calls.
* Not modelled in `Billing`: the deletion of the organization, whose cascade takes the row and the history with it, and more than one
  renewal of a subscription.
* Not modelled in `Sessions`: several users, losing Redis' data, and the seven days of a refresh token.
* Some hazards of `PROJECT.json` happen in this code, and the property named there says what is lost at most, not that nothing is;
  their notes say so.
* Behaviour the models have and no property speaks of: a password change that dies before it clears the sessions (`auth.service.ts:84-86`), a reset token used by two requests at once,
  equal codes of two accounts (entering one verifies either, or is refused because of the other's expiry or stage).
* Reachable, and of what nothing in the repository claims the opposite, so that no run does: a row with status completed and no
  completion time (a save writes only the columns it saw differ), and two pending invitations to one address
  (`invitations.service.ts:46-76`). The conditional theorems of section 4 say when.
