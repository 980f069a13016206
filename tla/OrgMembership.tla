---------------------------- MODULE OrgMembership ---------------------------
(***************************************************************************)
(* Memberships, invitations and channel membership of one organization     *)
(* (memberships.service.ts, invitations.service.ts, channels.service.ts)   *)
(* as concurrent HTTP requests see them, from the moment the organization  *)
(* has been created (organizations.service.ts).                            *)
(*                                                                         *)
(* Each request runs its handler one database statement at a time; the     *)
(* organization guard that looks up the caller's role is a statement of    *)
(* its own, before the handler.  The transaction that accepts an           *)
(* invitation is one step: its INSERTs keep the unique indexes and its     *)
(* UPDATE the invitation's row locked until it commits, so whatever        *)
(* decides its outcome stays decided, and nobody sees its writes earlier.  *)
(*                                                                         *)
(* An invitation's token is not modelled: accepting by token asks for what *)
(* accepting by id asks for, and the token besides.  Nor are a channel's   *)
(* name and the plan: a name in use, and the free plan, whose one channel  *)
(* is the default one, only refuse the creation of a channel.              *)
(***************************************************************************)
CONSTANTS
  Requests,      \* request slots of the API: a slot serves one call at a time
  Users,         \* users with a verified email
  Owner,         \* the user who created the organization
  Roles,         \* the roles of invitations and of changes of role
  Invitations,   \* invitation ids: a bound on how many are ever sent
  MemberIds,     \* membership ids; one may serve again once nobody knows it
  Channels,      \* channel ids, reused in the same way
  Default,       \* the channel called general
  Null           \* what findOne returns for no row

ASSUME OwnerAssumption == Owner \in Users
ASSUME RolesAssumption ==
  "owner" \notin Roles /\ Roles \subseteq {"admin", "mentor", "member"}
ASSUME DefaultAssumption == Default \in Channels

InvitationStatus == {"pending", "accepted", "declined", "expired"}

Membership == [id : MemberIds, role : Roles \cup {"owner"}]
(* live: expiresAt is still to come.                                       *)
Invitation ==
  [user : Users, role : Roles, status : InvitationStatus, live : BOOLEAN]
(* A channel with the users of its rows in channel_members.                *)
Channel == [createdById : Users, members : SUBSET Users]

ASSUME NullAssumption ==
  Null \notin Membership \cup Invitation \cup Channel \cup MemberIds
              \cup Users \cup Roles \cup Invitations \cup Channels \cup {"owner"}

VARIABLES
  member,        \* member[u]: the row of table memberships, or Null
                 \* (one at most: UNIQUE (userId, organizationId))
  invitation,    \* invitation[i]: the row of table invitations, or Null
  channel,       \* channel[c]: the row of table channels, or Null
  req            \* req[r]: where request r stands and what it remembers

vars == <<member, invitation, channel, req>>

(* A request at a step, with a user, a role, an invitation and a channel   *)
(* (or Null) to remember.                                                  *)
Call(step, u, x, i, c) ==
  [pc |-> step, user |-> u, role |-> x, id |-> Null, invitation |-> i, channel |-> c]
Idle == Call("idle", Null, Null, Null, Null)

(* OrganizationsService.create, in one transaction.                        *)
Init ==
  /\ \E id \in MemberIds :
       member = [u \in Users |-> IF u = Owner THEN [id |-> id, role |-> "owner"]
                                              ELSE Null]
  /\ invitation = [i \in Invitations |-> Null]
  /\ channel = [c \in Channels |->
                  IF c = Default THEN [createdById |-> Owner, members |-> {Owner}]
                                 ELSE Null]
  /\ req = [r \in Requests |-> Idle]

-----------------------------------------------------------------------------
(* Requests.                                                               *)

At(r, step) == req[r].pc = step

Begin(r, call) == At(r, "idle") /\ req' = [req EXCEPT ![r] = call]
Goto(r, step) == req' = [req EXCEPT ![r].pc = step]
GotoWith(r, step, id) ==
  req' = [req EXCEPT ![r] = [@ EXCEPT !.pc = step, !.id = id]]
Finish(r) == req' = [req EXCEPT ![r] = Idle]

Tables == <<member, invitation, channel>>

-----------------------------------------------------------------------------
(* OrgRolesGuard: the caller's role when the request arrives.  What the    *)
(* handler compares with that row only (the caller's own id, his role) is  *)
(* settled here too; a refused request changes nothing.                    *)

IsMember(u) == member[u] # Null
Manages(u) == IsMember(u) /\ member[u].role \in {"owner", "admin"}

(* assertCanManageMembers.  That the channel exists is settled here too:   *)
(* when it has gone by the handler's lookup, the last statement of the     *)
(* request finds no row or breaks a foreign key, and nothing changes.      *)
ManagesChannel(u, c) ==
  /\ channel[c] # Null
  /\ IsMember(u)
  /\ Manages(u) \/ channel[c].createdById = u

Invite(r, actor, u, role) ==
  /\ Manages(actor)
  /\ actor # u
  /\ Begin(r, Call("invite.pending", u, role, Null, Null))
  /\ UNCHANGED Tables

Cancel(r, actor, i) ==
  /\ Manages(actor)
  /\ Begin(r, Call("cancel.find", Null, Null, i, Null))
  /\ UNCHANGED Tables

Resend(r, actor, i) ==
  /\ Manages(actor)
  /\ Begin(r, Call("resend.find", Null, Null, i, Null))
  /\ UNCHANGED Tables

UpdateRole(r, actor, u, role) ==
  /\ Manages(actor)
  /\ actor # u
  /\ Begin(r, Call("role.find", u, role, Null, Null))
  /\ UNCHANGED Tables

RemoveMember(r, actor, u) ==
  /\ Manages(actor)
  /\ actor # u
  /\ Begin(r, Call("remove.find", u, Null, Null, Null))
  /\ UNCHANGED Tables

(* leave goes the way of removeMember from the lookup on.                  *)
Leave(r, u) ==
  /\ IsMember(u)
  /\ Begin(r, Call("remove.find", u, Null, Null, Null))
  /\ UNCHANGED Tables

AddMember(r, actor, c, u) ==
  /\ ManagesChannel(actor, c)
  /\ Begin(r, Call("add.member", u, Null, Null, c))
  /\ UNCHANGED Tables

RemoveFromChannel(r, actor, c, u) ==
  /\ c # Default
  /\ ManagesChannel(actor, c)
  /\ Begin(r, Call("channel.remove", u, Null, Null, c))
  /\ UNCHANGED Tables

CreateChannel(r, actor) ==
  /\ IsMember(actor)
  /\ member[actor].role \in {"owner", "admin", "mentor"}
  /\ Begin(r, Call("channel.insert", actor, Null, Null, Null))
  /\ UNCHANGED Tables

(* Mutant: the default channel may be deleted like any other.              *)
DeleteAnyChannel(r, actor, c) ==
  /\ Manages(actor)
  /\ channel[c] # Null
  /\ Begin(r, Call("channel.delete", Null, Null, Null, c))
  /\ UNCHANGED Tables

DeleteChannel(r, actor, c) ==
  /\ Manages(actor)
  /\ channel[c] # Null
  /\ c # Default
  /\ Begin(r, Call("channel.delete", Null, Null, Null, c))
  /\ UNCHANGED Tables

-----------------------------------------------------------------------------
(* Invitations.                                                            *)

IsPending(i) == invitation[i] # Null /\ invitation[i].status = "pending"

InvitePending(r) ==
  /\ At(r, "invite.pending")
  /\ IF \E i \in Invitations : IsPending(i) /\ invitation[i].user = req[r].user
       THEN Finish(r)
       ELSE Goto(r, "invite.member")
  /\ UNCHANGED Tables

InviteMember(r) ==
  /\ At(r, "invite.member")
  /\ IF IsMember(req[r].user) THEN Finish(r) ELSE Goto(r, "invite.insert")
  /\ UNCHANGED Tables

InviteInsert(r) ==
  /\ At(r, "invite.insert")
  /\ \E i \in Invitations :
       /\ invitation[i] = Null
       /\ invitation' = [invitation EXCEPT ![i] =
                           [user |-> req[r].user, role |-> req[r].role,
                            status |-> "pending", live |-> TRUE]]
  /\ Finish(r)
  /\ UNCHANGED <<member, channel>>

(* accept and acceptById: find the pending invitation, which must be the   *)
(* caller's and not past its expiry.                                       *)
Accept(r, u, i) ==
  /\ IsPending(i)
  /\ invitation[i].live
  /\ invitation[i].user = u
  /\ Begin(r, Call("accept.member", u, invitation[i].role, i, Null))
  /\ UNCHANGED Tables

AcceptMember(r) ==
  /\ At(r, "accept.member")
  /\ IF IsMember(req[r].user) THEN Finish(r) ELSE Goto(r, "accept.commit")
  /\ UNCHANGED Tables

FreshIds ==
  MemberIds \ ({member[u].id : u \in {v \in Users : IsMember(v)}}
               \cup {req[r].id : r \in Requests})

(* Mutant: the new row's role is left to the column's default.             *)
JoinedAsMember(id, role) == [id |-> id, role |-> "member"]

Joined(id, role) == [id |-> id, role |-> role]

(* The transaction: membership, invitation, default channel.  A row that   *)
(* is already in either table breaks a unique index and rolls it all back. *)
AcceptCommit(r) ==
  LET u == req[r].user IN
  /\ At(r, "accept.commit")
  /\ IF IsMember(u) \/ u \in channel[Default].members
       THEN UNCHANGED Tables
       ELSE /\ \E id \in FreshIds :
                 member' = [member EXCEPT ![u] = Joined(id, req[r].role)]
            /\ invitation' =
                 [invitation EXCEPT ![req[r].invitation].status = "accepted"]
            /\ channel' = [channel EXCEPT ![Default].members = @ \cup {u}]
  /\ Finish(r)

Decline(r, u, i) ==
  /\ IsPending(i)
  /\ invitation[i].live
  /\ invitation[i].user = u
  /\ Begin(r, Call("decline.update", Null, Null, i, Null))
  /\ UNCHANGED Tables

CancelFind(r) ==
  /\ At(r, "cancel.find")
  /\ IF IsPending(req[r].invitation) THEN Goto(r, "cancel.update") ELSE Finish(r)
  /\ UNCHANGED Tables

(* updateStatus: an UPDATE by id, whatever the status is by now.           *)
UpdateInvitation(r) ==
  /\ \/ At(r, "decline.update")
     \/ At(r, "cancel.update")
  /\ invitation' =
       [invitation EXCEPT ![req[r].invitation].status =
          IF At(r, "cancel.update") THEN "expired" ELSE "declined"]
  /\ Finish(r)
  /\ UNCHANGED <<member, channel>>

ResendFind(r) ==
  /\ At(r, "resend.find")
  /\ IF IsPending(req[r].invitation) THEN Goto(r, "resend.refresh") ELSE Finish(r)
  /\ UNCHANGED Tables

(* Mutant: the refresh saves the entity that was read, status and all.     *)
RefreshedEntity(row) == [row EXCEPT !.live = TRUE, !.status = "pending"]

(* refreshToken writes the token and the expiry, no other column.          *)
Refreshed(row) == [row EXCEPT !.live = TRUE]

ResendRefresh(r) ==
  /\ At(r, "resend.refresh")
  /\ invitation' = [invitation EXCEPT ![req[r].invitation] = Refreshed(@)]
  /\ Finish(r)
  /\ UNCHANGED <<member, channel>>

(* Time passes: a pending invitation reaches expiresAt.  Its status stays  *)
(* pending, for nothing calls expireStale.                                 *)
Lapse(i) ==
  /\ IsPending(i)
  /\ invitation[i].live
  /\ invitation' = [invitation EXCEPT ![i].live = FALSE]
  /\ UNCHANGED <<member, channel, req>>

-----------------------------------------------------------------------------
(* Members.                                                                *)

(* Mutant: no check of the target's role.                                  *)
AnyTarget(u) == IsMember(u)

(* The lookup of updateRole, removeMember and leave refuses the owner.     *)
Target(u) == IsMember(u) /\ member[u].role # "owner"

RoleFind(r) ==
  LET u == req[r].user IN
  /\ At(r, "role.find")
  /\ IF Target(u) THEN GotoWith(r, "role.write", member[u].id) ELSE Finish(r)
  /\ UNCHANGED Tables

RemoveFind(r) ==
  LET u == req[r].user IN
  /\ At(r, "remove.find")
  /\ IF Target(u) THEN GotoWith(r, "member.delete", member[u].id) ELSE Finish(r)
  /\ UNCHANGED Tables

(* Mutant: the row is addressed by the user, not by the id looked up.      *)
NamesByUser(r, u) == IsMember(u) /\ req[r].user = u

(* UPDATE and DELETE address the row by the id that was looked up.         *)
Names(r, u) == IsMember(u) /\ member[u].id = req[r].id

RoleWrite(r) ==
  /\ At(r, "role.write")
  /\ member' = [u \in Users |-> IF Names(r, u)
                                  THEN [member[u] EXCEPT !.role = req[r].role]
                                  ELSE member[u]]
  /\ Finish(r)
  /\ UNCHANGED <<invitation, channel>>

DeleteMember(r) ==
  /\ At(r, "member.delete")
  /\ member' = [u \in Users |-> IF Names(r, u) THEN Null ELSE member[u]]
  /\ GotoWith(r, "channels.delete", Null)
  /\ UNCHANGED <<invitation, channel>>

(* DELETE of the user's rows in channel_members.                           *)
Without(row, u) ==
  IF row = Null THEN Null ELSE [row EXCEPT !.members = @ \ {u}]

(* removeFromChannels: a second statement, by user.                        *)
DeleteFromChannels(r) ==
  /\ At(r, "channels.delete")
  /\ channel' = [c \in Channels |-> Without(channel[c], req[r].user)]
  /\ Finish(r)
  /\ UNCHANGED <<member, invitation>>

-----------------------------------------------------------------------------
(* Channels.                                                               *)

(* Mutant: the target's membership is not looked up.                       *)
AddAnyone(r) ==
  /\ At(r, "add.member")
  /\ Goto(r, "add.exists")
  /\ UNCHANGED Tables

AddFindMember(r) ==
  /\ At(r, "add.member")
  /\ IF IsMember(req[r].user) THEN Goto(r, "add.exists") ELSE Finish(r)
  /\ UNCHANGED Tables

AddFindExisting(r) ==
  LET row == channel[req[r].channel] IN
  /\ At(r, "add.exists")
  /\ IF row # Null /\ req[r].user \in row.members THEN Finish(r)
                                                  ELSE Goto(r, "add.insert")
  /\ UNCHANGED Tables

With(row, u) ==
  IF row = Null THEN Null ELSE [row EXCEPT !.members = @ \cup {u}]

(* INSERT into channel_members; it fails when the channel is gone (foreign *)
(* key) or the row is there (unique index).                                *)
AddInsert(r) ==
  /\ At(r, "add.insert")
  /\ channel' = [channel EXCEPT ![req[r].channel] = With(@, req[r].user)]
  /\ Finish(r)
  /\ UNCHANGED <<member, invitation>>

RemoveChannelMember(r) ==
  /\ At(r, "channel.remove")
  /\ channel' = [channel EXCEPT ![req[r].channel] = Without(@, req[r].user)]
  /\ Finish(r)
  /\ UNCHANGED <<member, invitation>>

(* The channel, then its creator as a member: two statements, and no       *)
(* transaction around them.                                                *)
InsertChannel(r) ==
  /\ At(r, "channel.insert")
  /\ \E c \in Channels \ {req[q].channel : q \in Requests} :
       /\ channel[c] = Null
       /\ channel' = [channel EXCEPT ![c] =
                        [createdById |-> req[r].user, members |-> {}]]
       /\ req' = [req EXCEPT ![r] =
                    [@ EXCEPT !.pc = "add.insert", !.channel = c]]
  /\ UNCHANGED <<member, invitation>>

(* DELETE with its cascade to channel_members.                             *)
RemoveChannel(r) ==
  /\ At(r, "channel.delete")
  /\ channel' = [channel EXCEPT ![req[r].channel] = Null]
  /\ Finish(r)
  /\ UNCHANGED <<member, invitation>>

-----------------------------------------------------------------------------
(* A statement fails, or the connection or the process is lost.            *)
Abort(r) ==
  /\ ~At(r, "idle")
  /\ Finish(r)
  /\ UNCHANGED Tables

Arrive(r) ==
  \/ \E actor \in Users :
       \/ \E u \in Users, role \in Roles :
            Invite(r, actor, u, role) \/ UpdateRole(r, actor, u, role)
       \/ \E u \in Users : RemoveMember(r, actor, u)
       \/ \E i \in Invitations : Cancel(r, actor, i) \/ Resend(r, actor, i)
       \/ \E c \in Channels, u \in Users :
            AddMember(r, actor, c, u) \/ RemoveFromChannel(r, actor, c, u)
       \/ CreateChannel(r, actor)
       \/ \E c \in Channels : DeleteChannel(r, actor, c)
  \/ \E u \in Users :
       \/ Leave(r, u)
       \/ \E i \in Invitations : Accept(r, u, i) \/ Decline(r, u, i)

InvitationStep(r) ==
  \/ InvitePending(r) \/ InviteMember(r) \/ InviteInsert(r)
  \/ AcceptMember(r) \/ AcceptCommit(r)
  \/ CancelFind(r) \/ UpdateInvitation(r)
  \/ ResendFind(r) \/ ResendRefresh(r)

MemberStep(r) ==
  \/ RoleFind(r) \/ RoleWrite(r)
  \/ RemoveFind(r) \/ DeleteMember(r) \/ DeleteFromChannels(r)

ChannelStep(r) ==
  \/ AddFindMember(r) \/ AddFindExisting(r) \/ AddInsert(r)
  \/ RemoveChannelMember(r) \/ InsertChannel(r) \/ RemoveChannel(r)

Next ==
  \/ \E r \in Requests :
       Arrive(r) \/ InvitationStep(r) \/ MemberStep(r) \/ ChannelStep(r) \/ Abort(r)
  \/ \E i \in Invitations : Lapse(i)

Spec == Init /\ [][Next]_vars

-----------------------------------------------------------------------------
(* Properties.                                                             *)

InvitationSteps ==
  {"accept.member", "accept.commit", "decline.update", "cancel.find",
   "cancel.update", "resend.find", "resend.refresh"}
WriteSteps == {"accept.commit", "accept.member", "decline.update",
               "cancel.update", "resend.refresh"}
UserSteps ==
  {"invite.pending", "invite.member", "invite.insert", "accept.member",
   "accept.commit", "role.find", "role.write", "remove.find", "member.delete",
   "channels.delete", "add.member", "add.exists", "add.insert", "channel.remove",
   "channel.insert"}
RoleSteps == {"invite.pending", "invite.member", "invite.insert",
              "accept.member", "accept.commit", "role.find", "role.write"}
IdSteps == {"role.write", "member.delete"}
ChannelSteps ==
  {"add.member", "add.exists", "add.insert", "channel.remove", "channel.delete"}

RequestState ==
  [pc : {"idle"} \cup UserSteps \cup InvitationSteps \cup ChannelSteps,
   user : Users \cup {Null}, role : Roles \cup {Null},
   id : MemberIds \cup {Null}, invitation : Invitations \cup {Null},
   channel : Channels \cup {Null}]

(* What a request remembers fits the step it is at; a request about to     *)
(* write an invitation has found one, and no invitation is ever deleted.   *)
RequestOK(r) ==
  /\ req[r].pc \in UserSteps => req[r].user \in Users
  /\ req[r].pc \in RoleSteps => req[r].role \in Roles
  /\ req[r].pc \in IdSteps <=> req[r].id # Null
  /\ req[r].pc \in ChannelSteps => req[r].channel \in Channels
  /\ req[r].pc \in InvitationSteps => req[r].invitation \in Invitations
  /\ req[r].pc \in WriteSteps => invitation[req[r].invitation] # Null

(* Types of the tables and the requests.                                   *)
TypeOK ==
  /\ member \in [Users -> Membership \cup {Null}]
  /\ invitation \in [Invitations -> Invitation \cup {Null}]
  /\ channel \in [Channels -> Channel \cup {Null}]
  /\ channel[Default] # Null
  /\ req \in [Requests -> RequestState]
  /\ \A r \in Requests : RequestOK(r)

(* The creator stays the organization's one owner, whatever changes of     *)
(* role, removals, departures and acceptances are in flight                *)
(* (memberships.service.ts:85-87, 110-112, 133-137): nobody demotes or     *)
(* removes him, and nobody else comes to hold the role.                    *)
OneOwner ==
  \A u \in Users : (IsMember(u) /\ member[u].role = "owner") <=> u = Owner

(* A change or deletion of a membership comes from a request that looked   *)
(* up this very membership (memberships.service.ts:92, 119, 139): a member *)
(* who left and joined again is not demoted or removed by a late request   *)
(* that was decided about his former membership.                           *)
DecisionsBind ==
  [][\A u \in Users :
       IsMember(u) /\ member'[u] # member[u] =>
         \E r \in Requests :
           /\ req[r].pc \in IdSteps
           /\ req[r].id = member[u].id
           /\ req[r].user = u]_member

(* An invitation that was accepted, declined or cancelled never becomes    *)
(* acceptable again, though resend may have found it pending before        *)
(* (invitations.service.ts:286-303, invitations.repository.ts:68-74).      *)
NeverPendingAgain ==
  [][\A i \in Invitations :
       invitation[i] # Null /\ ~IsPending(i) => ~IsPending(i)']_invitation

(* Memberships and invitations implement Roster: a user joins only with a  *)
(* role some invitation offered to him (invitations.service.ts:129-172,    *)
(* 214-251), and a change of role or a departure never touches the owner.  *)
role == [u \in Users |-> IF IsMember(u) THEN member[u].role ELSE Null]
offered ==
  [u \in Users |-> {invitation[i].role : i \in {j \in Invitations :
                      invitation[j] # Null /\ invitation[j].user = u}}]

Members == INSTANCE Roster WITH OwnerRole <- "owner"
ImplementsRoster == Members!Spec

(* Nobody gets into a channel, or comes to own one, whom the organization  *)
(* has never let in: the creator, or a user it has invited                 *)
(* (channels.service.ts:83-103, 52-57).  That he is still a member by the  *)
(* time his row is inserted the code does not ensure.                      *)
Admitted(u) == u = Owner \/ offered[u] # {}
ChannelsAdmitted ==
  \A c \in Channels : channel[c] # Null =>
    \A u \in channel[c].members \cup {channel[c].createdById} : Admitted(u)

(* Claimed by src/README.md:202, "auto-created general channel that all    *)
(* members join automatically" (and channels.service.ts:127, "Members of   *)
(* the default channel are managed automatically").                        *)
MembersInDefault ==
  \A u \in Users : IsMember(u) => u \in channel[Default].members
=============================================================================
