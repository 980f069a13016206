------------------------ MODULE OrgMembershipProofs ------------------------
(***************************************************************************)
(* Theorems about OrgMembership, for any numbers of requests, users,       *)
(* invitations and channels.                                               *)
(***************************************************************************)
EXTENDS OrgMembership, TLAPS

Steps == {"idle"} \cup UserSteps \cup InvitationSteps \cup ChannelSteps

AcceptSteps == {"accept.member", "accept.commit"}
AdmittedSteps == {"add.exists", "add.insert", "channel.insert"}

(* What request q remembers fits the tables.  A request that will write a  *)
(* membership names no other user's, and not the owner's; one that accepts *)
(* remembers what the invitation offers; one that will put somebody into a *)
(* channel has found him to be a member.                                   *)
NamesOnlyItsUser(q) ==
  q.pc \in IdSteps =>
    \A u \in Users : IsMember(u) /\ member[u].id = q.id => u = q.user /\ u # Owner
Remembers(q) ==
  /\ q.pc \in UserSteps => q.user \in Users
  /\ q.pc \in RoleSteps => q.role \in Roles
  /\ q.pc \in IdSteps <=> q.id # Null
  /\ q.pc \in ChannelSteps => q.channel \in Channels
  /\ q.pc = "channel.delete" => q.channel # Default
  /\ q.pc \in InvitationSteps => q.invitation \in Invitations
FindsInvitation(q) ==
  /\ q.pc \in WriteSteps => invitation[q.invitation] # Null
  /\ q.pc \in AcceptSteps => /\ invitation[q.invitation].user = q.user
                             /\ invitation[q.invitation].role = q.role
Sound(q) ==
  /\ q \in RequestState
  /\ Remembers(q)
  /\ FindsInvitation(q)
  /\ q.pc \in AdmittedSteps => Admitted(q.user)
  /\ NamesOnlyItsUser(q)

IdsDistinct ==
  \A u, v \in Users :
    IsMember(u) /\ IsMember(v) /\ member[u].id = member[v].id => u = v
MembersAdmitted == \A u \in Users : IsMember(u) => Admitted(u)

TablesTyped ==
  /\ member \in [Users -> Membership \cup {Null}]
  /\ invitation \in [Invitations -> Invitation \cup {Null}]
  /\ channel \in [Channels -> Channel \cup {Null}]
  /\ channel[Default] # Null

Inv ==
  /\ TablesTyped
  /\ req \in [Requests -> RequestState]
  /\ \A r \in Requests : Sound(req[r])
  /\ OneOwner
  /\ IdsDistinct
  /\ MembersAdmitted
  /\ ChannelsAdmitted

-----------------------------------------------------------------------------
(* Records of requests.                                                    *)

LEMMA IdleOK ==
  /\ Idle \in RequestState /\ Idle.pc = "idle" /\ Idle.id = Null
  /\ Sound(Idle) /\ Sound(Idle)'
<1>1. Idle \in RequestState /\ Idle.pc = "idle" /\ Idle.id = Null
  BY DEF Idle, Call, RequestState
<1> QED BY <1>1 DEF Sound, Remembers, FindsInvitation, NamesOnlyItsUser, UserSteps,
          RoleSteps, IdSteps, ChannelSteps, InvitationSteps, WriteSteps, AcceptSteps,
          AdmittedSteps

LEMMA RequestStateIs ==
  RequestState =
    [pc : Steps, user : Users \cup {Null}, role : Roles \cup {Null},
     id : MemberIds \cup {Null}, invitation : Invitations \cup {Null},
     channel : Channels \cup {Null}]
BY DEF RequestState, Steps

LEMMA GotoOK ==
  ASSUME NEW q \in RequestState, NEW p \in Steps
  PROVE  LET x == [q EXCEPT !.pc = p]
         IN  /\ x \in RequestState
             /\ x.pc = p /\ x.user = q.user /\ x.role = q.role /\ x.id = q.id
             /\ x.invitation = q.invitation /\ x.channel = q.channel
BY RequestStateIs

-----------------------------------------------------------------------------
(* What a step keeps.                                                      *)

InvitationsKept ==
  \A i \in Invitations : invitation[i] # Null =>
    /\ invitation'[i] # Null
    /\ invitation'[i].user = invitation[i].user
    /\ invitation'[i].role = invitation[i].role

(* A membership that is there was there, or has an id no request knows.    *)
IdsKept ==
  \A u \in Users : member'[u] # Null =>
    \/ member[u] # Null /\ member'[u].id = member[u].id
    \/ u # Owner /\ \A r \in Requests : member'[u].id # req[r].id

LEMMA AdmittedKept ==
  ASSUME InvitationsKept, NEW u \in Users, Admitted(u)
  PROVE  Admitted(u)'
<1>1. CASE u = Owner
  BY <1>1 DEF Admitted
<1>2. CASE offered[u] # {}
  <2>1. PICK i \in Invitations : invitation[i] # Null /\ invitation[i].user = u
    BY <1>2 DEF offered
  <2>2. invitation'[i] # Null /\ invitation'[i].user = u
    BY <2>1 DEF InvitationsKept
  <2>3. invitation'[i].role \in offered'[u]
    BY <2>2 DEF offered
  <2> QED BY <2>3 DEF Admitted
<1> QED BY <1>1, <1>2 DEF Admitted

LEMMA InvitedAdmitted ==
  ASSUME NEW i \in Invitations, invitation[i] # Null, invitation[i].user \in Users
  PROVE  Admitted(invitation[i].user)
<1>1. invitation[i].role \in offered[invitation[i].user]
  BY DEF offered
<1> QED BY <1>1 DEF Admitted

(* The other requests stay sound.                                          *)
LEMMA SoundKept ==
  ASSUME Inv, InvitationsKept, IdsKept, NEW g \in Requests
  PROVE  Sound(req[g]) => \A q : q = req[g] => Sound(q)'
<1> SUFFICES ASSUME NEW q, q = req[g], Sound(q) PROVE Sound(q)'
  OBVIOUS
<1>1. q \in RequestState /\ Remembers(q) /\ FindsInvitation(q)
  BY DEF Sound
<1>2. FindsInvitation(q)'
  <2>1. ASSUME q.pc \in WriteSteps PROVE q.invitation \in Invitations
    BY <1>1, <2>1 DEF Remembers, WriteSteps, InvitationSteps
  <2>2. q.pc \in AcceptSteps => q.pc \in WriteSteps
    BY DEF AcceptSteps, WriteSteps
  <2> QED BY <1>1, <2>1, <2>2 DEF FindsInvitation, InvitationsKept
<1>3. ASSUME q.pc \in AdmittedSteps PROVE Admitted(q.user)'
  <2>1. q.user \in Users /\ Admitted(q.user)
    BY <1>1, <1>3 DEF Sound, Remembers, AdmittedSteps, UserSteps
  <2> QED BY <2>1, AdmittedKept
<1>4. NamesOnlyItsUser(q)'
  <2> SUFFICES ASSUME q.pc \in IdSteps, NEW u \in Users, member'[u] # Null, member'[u].id = q.id
               PROVE  u = q.user /\ u # Owner
    BY DEF NamesOnlyItsUser, IsMember
  <2>1. member[u] # Null /\ member'[u].id = member[u].id
    BY DEF IdsKept
  <2> QED BY <2>1 DEF Sound, NamesOnlyItsUser, IsMember
<1> QED BY <1>1, <1>2, <1>3, <1>4 DEF Sound, Remembers

LEMMA OneRequest ==
  ASSUME Inv, InvitationsKept, IdsKept, NEW r \in Requests, NEW q,
         req' = [req EXCEPT ![r] = q], Sound(q)'
  PROVE  req' \in [Requests -> RequestState] /\ \A g \in Requests : Sound(req[g])'
<1>1. q \in RequestState
  BY DEF Sound
<1>2. req' \in [Requests -> RequestState] /\ req'[r] = q
  BY <1>1 DEF Inv
<1>3. ASSUME NEW g \in Requests, g # r PROVE Sound(req[g])'
  <2>1. req'[g] = req[g]
    BY <1>3 DEF Inv
  <2>2. \A x : x = req[g] => Sound(x)'
    BY SoundKept DEF Inv
  <2> QED BY <2>1, <2>2
<1>4. Sound(req[r])'
  BY <1>2
<1> QED BY <1>2, <1>3, <1>4

LEMMA TablesKept == UNCHANGED Tables => InvitationsKept /\ IdsKept
BY DEF Tables, InvitationsKept, IdsKept

LEMMA ReadStep ==
  ASSUME Inv, UNCHANGED Tables, NEW r \in Requests, NEW q,
         req' = [req EXCEPT ![r] = q], Sound(q)
  PROVE  Inv'
<1>1. Sound(q)'
  BY DEF Tables, Sound, Remembers, FindsInvitation, NamesOnlyItsUser, Admitted,
     offered, IsMember
<1>2. req' \in [Requests -> RequestState] /\ \A g \in Requests : Sound(req[g])'
  BY <1>1, OneRequest, TablesKept
<1>3. TablesTyped' /\ OneOwner' /\ IdsDistinct'
  BY DEF Inv, Tables, TablesTyped, OneOwner, IdsDistinct, IsMember
<1>4. \A u : Admitted(u)' <=> Admitted(u)
  BY DEF Tables, Admitted, offered
<1>5. MembersAdmitted' /\ ChannelsAdmitted'
  BY <1>4 DEF Inv, Tables, MembersAdmitted, ChannelsAdmitted, IsMember
<1> QED BY <1>2, <1>3, <1>5 DEF Inv

LEMMA FinishReads ==
  ASSUME Inv, UNCHANGED Tables, NEW r \in Requests, Finish(r)
  PROVE  Inv'
BY ReadStep, IdleOK DEF Finish

(* A request goes on to a step that asks for nothing more to be remembered *)
(* than the one before, or has just found what it asks for.                *)
LEMMA GotoReads ==
  ASSUME Inv, UNCHANGED Tables, NEW r \in Requests, NEW p \in Steps, Goto(r, p),
         p \notin IdSteps, p # "channel.delete", req[r].pc \notin IdSteps,
         p \in UserSteps => req[r].pc \in UserSteps,
         p \in RoleSteps => req[r].pc \in RoleSteps,
         p \in ChannelSteps => req[r].pc \in ChannelSteps,
         p \in InvitationSteps => req[r].pc \in InvitationSteps,
         p \in AcceptSteps => req[r].pc \in AcceptSteps,
         p \in WriteSteps => invitation[req[r].invitation] # Null,
         p \in AdmittedSteps => Admitted(req[r].user)
  PROVE  Inv'
<1> DEFINE q == [req[r] EXCEPT !.pc = p]
<1>1. req[r] \in RequestState /\ Sound(req[r]) /\ req' = [req EXCEPT ![r] = q]
  BY DEF Inv, Goto
<1>2. /\ q \in RequestState /\ q.pc = p /\ q.user = req[r].user
      /\ q.role = req[r].role /\ q.invitation = req[r].invitation
      /\ q.id = req[r].id /\ q.channel = req[r].channel
  BY <1>1, GotoOK
<1> HIDE DEF q
<1>3. Remembers(q)
  BY <1>1, <1>2 DEF Sound, Remembers
<1>4. FindsInvitation(q)
  BY <1>1, <1>2 DEF Sound, FindsInvitation
<1>5. Sound(q)
  BY <1>1, <1>2, <1>3, <1>4 DEF Sound, NamesOnlyItsUser
<1> QED BY <1>1, <1>5, ReadStep

-----------------------------------------------------------------------------
(* Requests that begin.                                                    *)

LEMMA CallOK ==
  ASSUME NEW p \in Steps,
         NEW u \in Users \cup {Null}, NEW x \in Roles \cup {Null},
         NEW i \in Invitations \cup {Null}, NEW c \in Channels \cup {Null}
  PROVE  LET q == Call(p, u, x, i, c)
         IN  /\ q \in RequestState
             /\ q.pc = p /\ q.user = u /\ q.role = x /\ q.id = Null
             /\ q.invitation = i /\ q.channel = c
BY DEF Call, RequestState, Steps

LEMMA CallAboutInvitation ==
  ASSUME NEW p \in Steps, NEW i \in Invitations
  PROVE  LET q == Call(p, Null, Null, i, Null)
         IN  q \in RequestState /\ q.pc = p /\ q.id = Null /\ q.invitation = i
<1> DEFINE q == Call(p, Null, Null, i, Null)
<1>1. Null \in Users \cup {Null} /\ Null \in Roles \cup {Null}
      /\ i \in Invitations \cup {Null} /\ Null \in Channels \cup {Null}
  OBVIOUS
<1> QED BY <1>1, CallOK

LEMMA ArriveInv ==
  ASSUME Inv, NEW r \in Requests, Arrive(r)
  PROVE  Inv'
<1>1. ASSUME NEW actor \in Users, NEW u \in Users, NEW x \in Roles, Invite(r, actor, u, x)
      PROVE  Inv'
  <2> DEFINE q == Call("invite.pending", u, x, Null, Null)
  <2>s. "invite.pending" \in Steps
    BY DEF Steps, UserSteps, InvitationSteps, ChannelSteps
  <2>1. q \in RequestState /\ q.pc = "invite.pending" /\ q.id = Null /\ q.user = u /\ q.role = x
    BY <2>s, CallOK
  <2>2. UNCHANGED Tables /\ req' = [req EXCEPT ![r] = q]
    BY <1>1 DEF Invite, Begin
  <2> HIDE DEF q
  <2>3. Sound(q)
    BY <2>1 DEF Sound, Remembers, FindsInvitation, NamesOnlyItsUser, UserSteps,
       RoleSteps, IdSteps, ChannelSteps, InvitationSteps, WriteSteps, AcceptSteps,
       AdmittedSteps
  <2> QED BY <2>2, <2>3, ReadStep
<1>2. ASSUME NEW actor \in Users, NEW u \in Users, NEW x \in Roles, UpdateRole(r, actor, u, x)
      PROVE  Inv'
  <2> DEFINE q == Call("role.find", u, x, Null, Null)
  <2>s. "role.find" \in Steps
    BY DEF Steps, UserSteps, InvitationSteps, ChannelSteps
  <2>1. q \in RequestState /\ q.pc = "role.find" /\ q.id = Null /\ q.user = u /\ q.role = x
    BY <2>s, CallOK
  <2>2. UNCHANGED Tables /\ req' = [req EXCEPT ![r] = q]
    BY <1>2 DEF UpdateRole, Begin
  <2> HIDE DEF q
  <2>3. Sound(q)
    BY <2>1 DEF Sound, Remembers, FindsInvitation, NamesOnlyItsUser, UserSteps,
       RoleSteps, IdSteps, ChannelSteps, InvitationSteps, WriteSteps, AcceptSteps,
       AdmittedSteps
  <2> QED BY <2>2, <2>3, ReadStep
<1>3. ASSUME NEW u \in Users,
             Leave(r, u) \/ \E actor \in Users : RemoveMember(r, actor, u)
      PROVE  Inv'
  <2> DEFINE q == Call("remove.find", u, Null, Null, Null)
  <2>s. "remove.find" \in Steps
    BY DEF Steps, UserSteps, InvitationSteps, ChannelSteps
  <2>1. q \in RequestState /\ q.pc = "remove.find" /\ q.id = Null /\ q.user = u
    BY <2>s, CallOK
  <2>2. UNCHANGED Tables /\ req' = [req EXCEPT ![r] = q]
    BY <1>3 DEF Leave, RemoveMember, Begin
  <2> HIDE DEF q
  <2>3. Sound(q)
    BY <2>1 DEF Sound, Remembers, FindsInvitation, NamesOnlyItsUser, UserSteps,
       RoleSteps, IdSteps, ChannelSteps, InvitationSteps, WriteSteps, AcceptSteps,
       AdmittedSteps
  <2> QED BY <2>2, <2>3, ReadStep
<1>4. ASSUME NEW actor \in Users, NEW i \in Invitations, Cancel(r, actor, i)
      PROVE  Inv'
  <2> DEFINE q == Call("cancel.find", Null, Null, i, Null)
  <2>s. "cancel.find" \in Steps
    BY DEF Steps, UserSteps, InvitationSteps, ChannelSteps
  <2>1. q \in RequestState /\ q.pc = "cancel.find" /\ q.id = Null /\ q.invitation = i
    BY <2>s, CallAboutInvitation
  <2>2. UNCHANGED Tables /\ req' = [req EXCEPT ![r] = q]
    BY <1>4 DEF Cancel, Begin
  <2> HIDE DEF q
  <2>3. Sound(q)
    BY <2>1 DEF Sound, Remembers, FindsInvitation, NamesOnlyItsUser, UserSteps,
       RoleSteps, IdSteps, ChannelSteps, InvitationSteps, WriteSteps, AcceptSteps,
       AdmittedSteps
  <2> QED BY <2>2, <2>3, ReadStep
<1>5. ASSUME NEW actor \in Users, NEW i \in Invitations, Resend(r, actor, i)
      PROVE  Inv'
  <2> DEFINE q == Call("resend.find", Null, Null, i, Null)
  <2>s. "resend.find" \in Steps
    BY DEF Steps, UserSteps, InvitationSteps, ChannelSteps
  <2>1. q \in RequestState /\ q.pc = "resend.find" /\ q.id = Null /\ q.invitation = i
    BY <2>s, CallAboutInvitation
  <2>2. UNCHANGED Tables /\ req' = [req EXCEPT ![r] = q]
    BY <1>5 DEF Resend, Begin
  <2> HIDE DEF q
  <2>3. Sound(q)
    BY <2>1 DEF Sound, Remembers, FindsInvitation, NamesOnlyItsUser, UserSteps,
       RoleSteps, IdSteps, ChannelSteps, InvitationSteps, WriteSteps, AcceptSteps,
       AdmittedSteps
  <2> QED BY <2>2, <2>3, ReadStep
<1>6. ASSUME NEW actor \in Users, NEW c \in Channels, NEW u \in Users,
             AddMember(r, actor, c, u)
      PROVE  Inv'
  <2> DEFINE q == Call("add.member", u, Null, Null, c)
  <2>s. "add.member" \in Steps
    BY DEF Steps, UserSteps, InvitationSteps, ChannelSteps
  <2>1. q \in RequestState /\ q.pc = "add.member" /\ q.id = Null /\ q.user = u /\ q.channel = c
    BY <2>s, CallOK
  <2>2. UNCHANGED Tables /\ req' = [req EXCEPT ![r] = q]
    BY <1>6 DEF AddMember, Begin
  <2> HIDE DEF q
  <2>3. Sound(q)
    BY <2>1 DEF Sound, Remembers, FindsInvitation, NamesOnlyItsUser, UserSteps,
       RoleSteps, IdSteps, ChannelSteps, InvitationSteps, WriteSteps, AcceptSteps,
       AdmittedSteps
  <2> QED BY <2>2, <2>3, ReadStep
<1>7. ASSUME NEW actor \in Users, NEW c \in Channels, NEW u \in Users,
             RemoveFromChannel(r, actor, c, u)
      PROVE  Inv'
  <2> DEFINE q == Call("channel.remove", u, Null, Null, c)
  <2>s. "channel.remove" \in Steps
    BY DEF Steps, UserSteps, InvitationSteps, ChannelSteps
  <2>1. q \in RequestState /\ q.pc = "channel.remove" /\ q.id = Null /\ q.user = u /\ q.channel = c
    BY <2>s, CallOK
  <2>2. UNCHANGED Tables /\ req' = [req EXCEPT ![r] = q]
    BY <1>7 DEF RemoveFromChannel, Begin
  <2> HIDE DEF q
  <2>3. Sound(q)
    BY <2>1 DEF Sound, Remembers, FindsInvitation, NamesOnlyItsUser, UserSteps,
       RoleSteps, IdSteps, ChannelSteps, InvitationSteps, WriteSteps, AcceptSteps,
       AdmittedSteps
  <2> QED BY <2>2, <2>3, ReadStep
<1>8. ASSUME NEW u \in Users, CreateChannel(r, u)
      PROVE  Inv'
  <2> DEFINE q == Call("channel.insert", u, Null, Null, Null)
  <2>s. "channel.insert" \in Steps
    BY DEF Steps, UserSteps, InvitationSteps, ChannelSteps
  <2>0. Admitted(u)
    BY <1>8 DEF CreateChannel, Inv, MembersAdmitted
  <2>1. q \in RequestState /\ q.pc = "channel.insert" /\ q.id = Null /\ q.user = u
    BY <2>0, <2>s, CallOK
  <2>2. UNCHANGED Tables /\ req' = [req EXCEPT ![r] = q]
    BY <1>8 DEF CreateChannel, Begin
  <2> HIDE DEF q
  <2>3. Sound(q)
    BY <2>0, <2>1 DEF Sound, Remembers, FindsInvitation, NamesOnlyItsUser, UserSteps,
       RoleSteps, IdSteps, ChannelSteps, InvitationSteps, WriteSteps, AcceptSteps,
       AdmittedSteps
  <2> QED BY <2>2, <2>3, ReadStep
<1>9. ASSUME NEW actor \in Users, NEW c \in Channels, DeleteChannel(r, actor, c)
      PROVE  Inv'
  <2> DEFINE q == Call("channel.delete", Null, Null, Null, c)
  <2>s. "channel.delete" \in Steps
    BY DEF Steps, UserSteps, InvitationSteps, ChannelSteps
  <2>0. c # Default
    BY <1>9 DEF DeleteChannel
  <2>1. q \in RequestState /\ q.pc = "channel.delete" /\ q.id = Null /\ q.channel = c
    BY <2>s, CallOK
  <2>2. UNCHANGED Tables /\ req' = [req EXCEPT ![r] = q]
    BY <1>9 DEF DeleteChannel, Begin
  <2> HIDE DEF q
  <2>3. Sound(q)
    BY <2>0, <2>1 DEF Sound, Remembers, FindsInvitation, NamesOnlyItsUser, UserSteps,
       RoleSteps, IdSteps, ChannelSteps, InvitationSteps, WriteSteps, AcceptSteps,
       AdmittedSteps
  <2> QED BY <2>2, <2>3, ReadStep
<1>10. ASSUME NEW u \in Users, NEW i \in Invitations, Accept(r, u, i)
      PROVE  Inv'
  <2> DEFINE q == Call("accept.member", u, invitation[i].role, i, Null)
  <2>s. "accept.member" \in Steps
    BY DEF Steps, UserSteps, InvitationSteps, ChannelSteps
  <2>0. invitation[i] # Null /\ invitation[i].user = u /\ invitation[i].role \in Roles
    BY <1>10 DEF Accept, IsPending, Inv, TablesTyped, Invitation
  <2>1. q \in RequestState /\ q.pc = "accept.member" /\ q.id = Null /\ q.user = u /\ q.role = invitation[i].role /\ q.invitation = i
    BY <2>0, <2>s, CallOK
  <2>2. UNCHANGED Tables /\ req' = [req EXCEPT ![r] = q]
    BY <1>10 DEF Accept, Begin
  <2> HIDE DEF q
  <2>3. Sound(q)
    BY <2>0, <2>1 DEF Sound, Remembers, FindsInvitation, NamesOnlyItsUser, UserSteps,
       RoleSteps, IdSteps, ChannelSteps, InvitationSteps, WriteSteps, AcceptSteps,
       AdmittedSteps
  <2> QED BY <2>2, <2>3, ReadStep
<1>11. ASSUME NEW u \in Users, NEW i \in Invitations, Decline(r, u, i)
      PROVE  Inv'
  <2> DEFINE q == Call("decline.update", Null, Null, i, Null)
  <2>s. "decline.update" \in Steps
    BY DEF Steps, UserSteps, InvitationSteps, ChannelSteps
  <2>0. invitation[i] # Null
    BY <1>11 DEF Decline, IsPending
  <2>1. q \in RequestState /\ q.pc = "decline.update" /\ q.id = Null /\ q.invitation = i
    BY <2>s, CallAboutInvitation
  <2>2. UNCHANGED Tables /\ req' = [req EXCEPT ![r] = q]
    BY <1>11 DEF Decline, Begin
  <2> HIDE DEF q
  <2>3. Sound(q)
    BY <2>0, <2>1 DEF Sound, Remembers, FindsInvitation, NamesOnlyItsUser, UserSteps,
       RoleSteps, IdSteps, ChannelSteps, InvitationSteps, WriteSteps, AcceptSteps,
       AdmittedSteps
  <2> QED BY <2>2, <2>3, ReadStep
<1> QED BY <1>1, <1>2, <1>3, <1>4, <1>5, <1>6, <1>7, <1>8, <1>9, <1>10, <1>11
      DEF Arrive

-----------------------------------------------------------------------------
(* Requests that look something up.                                        *)

LEMMA LookupInv ==
  ASSUME Inv, NEW r \in Requests,
         \/ InvitePending(r) \/ InviteMember(r) \/ AcceptMember(r) \/ CancelFind(r)
         \/ ResendFind(r) \/ AddFindMember(r) \/ AddFindExisting(r) \/ Abort(r)
  PROVE  Inv'
<1>1. UNCHANGED Tables
  BY DEF InvitePending, InviteMember, AcceptMember, CancelFind, ResendFind,
     AddFindMember, AddFindExisting, Abort
<1>2. CASE Finish(r)
  BY <1>1, <1>2, FinishReads
<1>3. ASSUME req[r].pc = "invite.pending", Goto(r, "invite.member") PROVE Inv'
  BY <1>1, <1>3, GotoReads DEF Steps, UserSteps, InvitationSteps, ChannelSteps, IdSteps,
     RoleSteps, AcceptSteps, WriteSteps, AdmittedSteps
<1>4. ASSUME req[r].pc = "invite.member", Goto(r, "invite.insert") PROVE Inv'
  BY <1>1, <1>4, GotoReads DEF Steps, UserSteps, InvitationSteps, ChannelSteps, IdSteps,
     RoleSteps, AcceptSteps, WriteSteps, AdmittedSteps
<1>5. ASSUME req[r].pc = "accept.member", Goto(r, "accept.commit") PROVE Inv'
  <2>1. invitation[req[r].invitation] # Null
    BY <1>5 DEF Inv, Sound, FindsInvitation, WriteSteps
  <2> QED BY <1>1, <1>5, <2>1, GotoReads DEF Steps, UserSteps, InvitationSteps, ChannelSteps,
       IdSteps, RoleSteps, AcceptSteps, WriteSteps, AdmittedSteps
<1>6. ASSUME req[r].pc = "cancel.find", IsPending(req[r].invitation),
             Goto(r, "cancel.update")
      PROVE  Inv'
  <2>1. invitation[req[r].invitation] # Null
    BY <1>6 DEF IsPending
  <2> QED BY <1>1, <1>6, <2>1, GotoReads DEF Steps, UserSteps, InvitationSteps, ChannelSteps,
       IdSteps, RoleSteps, AcceptSteps, WriteSteps, AdmittedSteps
<1>7. ASSUME req[r].pc = "resend.find", IsPending(req[r].invitation),
             Goto(r, "resend.refresh")
      PROVE  Inv'
  <2>1. invitation[req[r].invitation] # Null
    BY <1>7 DEF IsPending
  <2> QED BY <1>1, <1>7, <2>1, GotoReads DEF Steps, UserSteps, InvitationSteps, ChannelSteps,
       IdSteps, RoleSteps, AcceptSteps, WriteSteps, AdmittedSteps
<1>8. ASSUME req[r].pc = "add.member", IsMember(req[r].user), Goto(r, "add.exists")
      PROVE  Inv'
  <2>1. req[r].user \in Users
    BY <1>8 DEF Inv, Sound, Remembers, UserSteps
  <2>2. Admitted(req[r].user)
    BY <1>8, <2>1 DEF Inv, MembersAdmitted
  <2> QED BY <1>1, <1>8, <2>2, GotoReads DEF Steps, UserSteps, InvitationSteps, ChannelSteps,
       IdSteps, RoleSteps, AcceptSteps, WriteSteps, AdmittedSteps
<1>9. ASSUME req[r].pc = "add.exists", Goto(r, "add.insert") PROVE Inv'
  <2>1. Admitted(req[r].user)
    BY <1>9 DEF Inv, Sound, AdmittedSteps
  <2> QED BY <1>1, <1>9, <2>1, GotoReads DEF Steps, UserSteps, InvitationSteps, ChannelSteps,
       IdSteps, RoleSteps, AcceptSteps, WriteSteps, AdmittedSteps
<1> QED BY <1>2, <1>3, <1>4, <1>5, <1>6, <1>7, <1>8, <1>9 DEF At, InvitePending,
      InviteMember, AcceptMember, CancelFind, ResendFind, AddFindMember, AddFindExisting,
      Abort

(* The membership that was found is the user's, and he is not the owner.   *)
LEMMA FindInv ==
  ASSUME Inv, NEW r \in Requests, RoleFind(r) \/ RemoveFind(r)
  PROVE  Inv'
<1> DEFINE u == req[r].user
<1>1. UNCHANGED Tables
  BY DEF RoleFind, RemoveFind
<1>2. CASE Finish(r)
  BY <1>1, <1>2, FinishReads
<1>3. ASSUME NEW p \in IdSteps, Target(u), GotoWith(r, p, member[u].id),
             p = "role.write" => req[r].pc = "role.find",
             req[r].pc \in {"role.find", "remove.find"}
      PROVE  Inv'
  <2> DEFINE q == [req[r] EXCEPT !.pc = p, !.id = member[u].id]
  <2>1. u \in Users /\ req[r] \in RequestState /\ Sound(req[r])
    BY <1>3 DEF Inv, Sound, Remembers, UserSteps
  <2>2. member[u].id \in MemberIds /\ member[u].id # Null /\ u # Owner
    BY <1>3, <2>1, NullAssumption DEF Target, IsMember, Inv, TablesTyped, Membership, OneOwner
  <2>3. p \in Steps
    BY DEF IdSteps, Steps, UserSteps
  <2>4. /\ q \in RequestState /\ q.pc = p /\ q.user = u /\ q.role = req[r].role
        /\ q.id = member[u].id
    <3> DEFINE row == req[r]
               id == member[u].id
    <3>1. row \in RequestState /\ id \in MemberIds
      BY <2>1, <2>2
    <3>2. q = [row EXCEPT !.pc = p, !.id = id] /\ row.user = u /\ row.role = req[r].role
      OBVIOUS
    <3> HIDE DEF row, id, q
    <3>3. q \in RequestState /\ q.pc = p /\ q.user = row.user /\ q.role = row.role /\ q.id = id
      BY <2>3, <3>1, <3>2, RequestStateIs
    <3> QED BY <3>2, <3>3 DEF id
  <2>5. req' = [req EXCEPT ![r] = q]
    BY <1>3 DEF GotoWith
  <2> HIDE DEF q
  <2>6. NamesOnlyItsUser(q)
    BY <1>3, <2>1, <2>2, <2>4 DEF NamesOnlyItsUser, Inv, IdsDistinct, Target
  <2>7. Remembers(q)
    BY <1>3, <2>1, <2>2, <2>4 DEF Sound, Remembers, IdSteps, UserSteps, RoleSteps,
       ChannelSteps, InvitationSteps
  <2>8. Sound(q)
    BY <1>3, <2>4, <2>6, <2>7 DEF Sound, FindsInvitation, IdSteps, WriteSteps, AcceptSteps,
       AdmittedSteps
  <2> QED BY <1>1, <2>5, <2>8, ReadStep
<1> QED BY <1>2, <1>3 DEF RoleFind, RemoveFind, At, IdSteps

-----------------------------------------------------------------------------
(* Requests that write channels.                                           *)

LEMMA ChannelWrite ==
  ASSUME Inv, UNCHANGED <<member, invitation>>, NEW r \in Requests, NEW q,
         req' = [req EXCEPT ![r] = q], Sound(q),
         channel' \in [Channels -> Channel \cup {Null}], channel'[Default] # Null,
         \A c \in Channels : channel'[c] # Null =>
           \A u \in channel'[c].members \cup {channel'[c].createdById} : Admitted(u)
  PROVE  Inv'
<1>0. \A u : Admitted(u)' <=> Admitted(u)
  BY DEF Admitted, offered
<1>1. Sound(q)'
  BY <1>0 DEF Sound, Remembers, FindsInvitation, NamesOnlyItsUser, IsMember
<1>2. InvitationsKept /\ IdsKept
  BY DEF InvitationsKept, IdsKept
<1>3. req' \in [Requests -> RequestState] /\ \A g \in Requests : Sound(req[g])'
  BY <1>1, <1>2, OneRequest
<1>4. TablesTyped' /\ OneOwner' /\ IdsDistinct'
  BY DEF Inv, TablesTyped, OneOwner, IdsDistinct, IsMember
<1>5. MembersAdmitted' /\ ChannelsAdmitted'
  BY <1>0 DEF Inv, MembersAdmitted, ChannelsAdmitted, IsMember
<1> QED BY <1>3, <1>4, <1>5 DEF Inv

LEMMA WithoutOK ==
  ASSUME NEW row \in Channel \cup {Null}, NEW u
  PROVE  /\ Without(row, u) \in Channel \cup {Null}
         /\ Without(row, u) = Null <=> row = Null
         /\ row # Null => /\ Without(row, u).members \subseteq row.members
                          /\ Without(row, u).createdById = row.createdById
BY NullAssumption DEF Without, Channel

LEMMA WithOK ==
  ASSUME NEW row \in Channel \cup {Null}, NEW u \in Users
  PROVE  /\ With(row, u) \in Channel \cup {Null}
         /\ With(row, u) = Null <=> row = Null
         /\ row # Null => /\ With(row, u).members \subseteq row.members \cup {u}
                          /\ With(row, u).createdById = row.createdById
BY NullAssumption DEF With, Channel

LEMMA ChannelStepInv ==
  ASSUME Inv, NEW r \in Requests,
         DeleteFromChannels(r) \/ RemoveChannelMember(r) \/ AddInsert(r) \/ RemoveChannel(r)
  PROVE  Inv'
<1>1. /\ channel \in [Channels -> Channel \cup {Null}] /\ channel[Default] # Null
      /\ Default \in Channels /\ Sound(req[r])
  BY DefaultAssumption DEF Inv, TablesTyped
<1>2. \A c \in Channels : channel[c] # Null =>
        \A u \in channel[c].members \cup {channel[c].createdById} : Admitted(u)
  BY DEF Inv, ChannelsAdmitted
<1>3. UNCHANGED <<member, invitation>> /\ req' = [req EXCEPT ![r] = Idle]
  BY DEF DeleteFromChannels, RemoveChannelMember, AddInsert, RemoveChannel, Finish
<1>4. CASE DeleteFromChannels(r)
  <2>1. channel' = [c \in Channels |-> Without(channel[c], req[r].user)]
    BY <1>4 DEF DeleteFromChannels
  <2>2. channel' \in [Channels -> Channel \cup {Null}] /\ channel'[Default] # Null
    BY <1>1, <2>1, WithoutOK
  <2>3. ASSUME NEW c \in Channels, channel'[c] # Null
        PROVE  \A u \in channel'[c].members \cup {channel'[c].createdById} : Admitted(u)
    <3>1. /\ channel[c] # Null /\ channel'[c].members \subseteq channel[c].members
          /\ channel'[c].createdById = channel[c].createdById
      BY <1>1, <2>1, <2>3, WithoutOK
    <3> QED BY <1>2, <3>1
  <2> QED BY <1>3, <2>2, <2>3, IdleOK, ChannelWrite
<1>5. CASE RemoveChannelMember(r)
  <2> DEFINE d == req[r].channel
  <2>1. channel' = [channel EXCEPT ![d] = Without(channel[d], req[r].user)] /\ d \in Channels
    BY <1>1, <1>5 DEF RemoveChannelMember, At, Sound, Remembers, ChannelSteps
  <2> HIDE DEF d
  <2> DEFINE row == Without(channel[d], req[r].user)
  <2>r. channel[d] \in Channel \cup {Null}
    BY <1>1, <2>1
  <2>2. channel' \in [Channels -> Channel \cup {Null}] /\ channel'[Default] # Null
    <3>1. row \in Channel \cup {Null} /\ (row = Null <=> channel[d] = Null)
      BY <2>r, WithoutOK
    <3>2. channel' = [channel EXCEPT ![d] = row]
      BY <2>1
    <3> HIDE DEF row
    <3> QED BY <1>1, <3>1, <3>2
  <2>3. ASSUME NEW c \in Channels, channel'[c] # Null
        PROVE  \A u \in channel'[c].members \cup {channel'[c].createdById} : Admitted(u)
    <3>1. /\ channel[c] # Null /\ channel'[c].members \subseteq channel[c].members
          /\ channel'[c].createdById = channel[c].createdById
      BY <1>1, <2>1, <2>3, WithoutOK
    <3> QED BY <1>2, <3>1
  <2> QED BY <1>3, <2>2, <2>3, IdleOK, ChannelWrite
<1>6. CASE AddInsert(r)
  <2> DEFINE d == req[r].channel
             w == req[r].user
             row == With(channel[d], w)
  <2>1. channel' = [channel EXCEPT ![d] = row]
    BY <1>6 DEF AddInsert
  <2>2. w \in Users /\ Admitted(w) /\ d \in Channels
    BY <1>1, <1>6 DEF AddInsert, At, Sound, Remembers, UserSteps, ChannelSteps, AdmittedSteps
  <2>3. /\ row \in Channel \cup {Null} /\ (row = Null <=> channel[d] = Null)
        /\ channel[d] # Null => /\ row.members \subseteq channel[d].members \cup {w}
                                /\ row.createdById = channel[d].createdById
    <3>1. channel[d] \in Channel \cup {Null}
      BY <1>1, <2>2
    <3> QED BY <2>2, <3>1, WithOK
  <2> HIDE DEF d, w, row
  <2>4. channel' \in [Channels -> Channel \cup {Null}] /\ channel'[Default] # Null
    BY <1>1, <2>1, <2>3
  <2>5. ASSUME NEW c \in Channels, channel'[c] # Null
        PROVE  \A u \in channel'[c].members \cup {channel'[c].createdById} : Admitted(u)
    <3>1. /\ channel[c] # Null /\ channel'[c].members \subseteq channel[c].members \cup {w}
          /\ channel'[c].createdById = channel[c].createdById
      BY <1>1, <2>1, <2>3, <2>5
    <3> QED BY <1>2, <2>2, <3>1
  <2> QED BY <1>3, <2>4, <2>5, IdleOK, ChannelWrite
<1>7. CASE RemoveChannel(r)
  <2> DEFINE d == req[r].channel
  <2>1. channel' = [channel EXCEPT ![d] = Null] /\ d # Default
    BY <1>1, <1>7 DEF RemoveChannel, At, Sound, Remembers
  <2> HIDE DEF d
  <2>2. channel' \in [Channels -> Channel \cup {Null}] /\ channel'[Default] # Null
    BY <1>1, <2>1
  <2>3. \A c \in Channels : channel'[c] # Null => channel'[c] = channel[c]
    BY <1>1, <2>1
  <2> QED BY <1>2, <1>3, <2>2, <2>3, IdleOK, ChannelWrite
<1> QED BY <1>4, <1>5, <1>6, <1>7

LEMMA InsertChannelInv ==
  ASSUME Inv, NEW r \in Requests, InsertChannel(r)
  PROVE  Inv'
<1> DEFINE w == req[r].user
           row == [createdById |-> w, members |-> {}]
<1>1. PICK c \in Channels :
        /\ channel[c] = Null /\ channel' = [channel EXCEPT ![c] = row]
        /\ req' = [req EXCEPT ![r] = [req[r] EXCEPT !.pc = "add.insert", !.channel = c]]
  BY DEF InsertChannel
<1>2. /\ UNCHANGED <<member, invitation>> /\ req[r].pc = "channel.insert"
      /\ channel \in [Channels -> Channel \cup {Null}] /\ channel[Default] # Null
      /\ req[r] \in RequestState /\ Sound(req[r])
  BY DEF InsertChannel, At, Inv, TablesTyped
<1>3. w \in Users /\ Admitted(w)
  BY <1>2 DEF Sound, Remembers, UserSteps, AdmittedSteps
<1>4. row \in Channel /\ row.members = {} /\ row.createdById = w
  BY <1>3 DEF Channel
<1>5. row # Null
  BY <1>4, NullAssumption
<1> DEFINE old == req[r]
           q == [old EXCEPT !.pc = "add.insert", !.channel = c]
<1>6. old \in RequestState /\ "add.insert" \in Steps /\ w = old.user
  BY <1>2 DEF Steps, UserSteps
<1>7. req' = [req EXCEPT ![r] = q]
  BY <1>1
<1> HIDE DEF row, old
<1>8. q \in RequestState /\ q.pc = "add.insert" /\ q.user = old.user /\ q.id = old.id
      /\ q.channel = c
  BY <1>6, RequestStateIs
<1> HIDE DEF q
<1>9. old.id = Null
  BY <1>2 DEF old, Sound, Remembers, IdSteps
<1>10. Sound(q)
  BY <1>3, <1>6, <1>8, <1>9 DEF Sound, Remembers, FindsInvitation, NamesOnlyItsUser, UserSteps,
     RoleSteps, IdSteps, ChannelSteps, InvitationSteps, WriteSteps, AcceptSteps,
     AdmittedSteps
<1>11. channel' \in [Channels -> Channel \cup {Null}] /\ channel'[Default] # Null
  BY <1>1, <1>2, <1>4, <1>5, DefaultAssumption
<1>12. ASSUME NEW d \in Channels, channel'[d] # Null
       PROVE  \A u \in channel'[d].members \cup {channel'[d].createdById} : Admitted(u)
  <2>1. CASE d = c
    BY <1>1, <1>2, <1>3, <1>4, <2>1
  <2>2. CASE d # c
    BY <1>1, <1>2, <1>12, <2>2 DEF Inv, ChannelsAdmitted
  <2> QED BY <2>1, <2>2
<1> QED BY <1>2, <1>7, <1>10, <1>11, <1>12, ChannelWrite

-----------------------------------------------------------------------------
(* Steps that write invitations and memberships.                           *)

LEMMA InvitationWrite ==
  ASSUME Inv, UNCHANGED <<member, channel>>, InvitationsKept,
         invitation' \in [Invitations -> Invitation \cup {Null}],
         UNCHANGED req \/ \E r \in Requests : Finish(r)
  PROVE  Inv'
<1>1. IdsKept
  BY DEF IdsKept
<1>2. req' \in [Requests -> RequestState] /\ \A g \in Requests : Sound(req[g])'
  <2>1. CASE UNCHANGED req
    <3>1. ASSUME NEW g \in Requests PROVE Sound(req[g])'
      <4>1. \A x : x = req[g] => Sound(x)'
        BY <1>1, SoundKept DEF Inv
      <4> QED BY <2>1, <4>1
    <3> QED BY <2>1, <3>1 DEF Inv
  <2>2. ASSUME NEW r \in Requests, Finish(r)
        PROVE  req' \in [Requests -> RequestState] /\ \A g \in Requests : Sound(req[g])'
    BY <1>1, <2>2, OneRequest, IdleOK DEF Finish
  <2> QED BY <2>1, <2>2
<1>3. TablesTyped' /\ OneOwner' /\ IdsDistinct'
  BY DEF Inv, TablesTyped, OneOwner, IdsDistinct, IsMember
<1>4. MembersAdmitted'
  BY AdmittedKept DEF Inv, MembersAdmitted, IsMember
<1>5. ChannelsAdmitted'
  <2>1. \A c \in Channels : channel[c] # Null =>
          \A u \in channel[c].members \cup {channel[c].createdById} : u \in Users
    BY DEF Inv, TablesTyped, Channel
  <2> QED BY <2>1, AdmittedKept DEF Inv, ChannelsAdmitted
<1> QED BY <1>2, <1>3, <1>4, <1>5 DEF Inv

(* A step that gives one invitation another status, or another expiry.     *)
LEMMA StatusWrite ==
  ASSUME Inv, NEW i \in Invitations, invitation[i] # Null,
         \/ \E s \in InvitationStatus :
              invitation' = [invitation EXCEPT ![i] = [invitation[i] EXCEPT !.status = s]]
         \/ \E l \in BOOLEAN :
              invitation' = [invitation EXCEPT ![i] = [invitation[i] EXCEPT !.live = l]]
  PROVE  InvitationsKept /\ invitation' \in [Invitations -> Invitation \cup {Null}]
<1>1. invitation[i] \in Invitation /\ invitation \in [Invitations -> Invitation \cup {Null}]
  BY DEF Inv, TablesTyped
<1>2. PICK row : /\ invitation' = [invitation EXCEPT ![i] = row]
                 /\ row \in Invitation /\ row.user = invitation[i].user
                 /\ row.role = invitation[i].role
  <2>1. CASE \E s \in InvitationStatus :
               invitation' = [invitation EXCEPT ![i] = [invitation[i] EXCEPT !.status = s]]
    BY <1>1, <2>1 DEF Invitation
  <2>2. CASE \E l \in BOOLEAN :
               invitation' = [invitation EXCEPT ![i] = [invitation[i] EXCEPT !.live = l]]
    BY <1>1, <2>2 DEF Invitation
  <2> QED BY <2>1, <2>2
<1> QED BY <1>1, <1>2, NullAssumption DEF InvitationsKept

LEMMA InvitationStepInv ==
  ASSUME Inv,
         \/ \E r \in Requests : InviteInsert(r) \/ UpdateInvitation(r) \/ ResendRefresh(r)
         \/ \E i \in Invitations : Lapse(i)
  PROVE  Inv'
<1>1. ASSUME NEW r \in Requests, InviteInsert(r) PROVE Inv'
  <2> DEFINE row == [user |-> req[r].user, role |-> req[r].role,
                     status |-> "pending", live |-> TRUE]
  <2>1. PICK i \in Invitations :
          invitation[i] = Null /\ invitation' = [invitation EXCEPT ![i] = row]
    BY <1>1 DEF InviteInsert
  <2>2. req[r].user \in Users /\ req[r].role \in Roles
    BY <1>1 DEF InviteInsert, At, Inv, Sound, Remembers, UserSteps, RoleSteps
  <2>3. row \in Invitation
    BY <2>2 DEF Invitation, InvitationStatus
  <2> HIDE DEF row
  <2>4. InvitationsKept /\ invitation' \in [Invitations -> Invitation \cup {Null}]
    BY <2>1, <2>3 DEF InvitationsKept, Inv, TablesTyped
  <2> QED BY <1>1, <2>4, InvitationWrite DEF InviteInsert
<1>2. ASSUME NEW r \in Requests, UpdateInvitation(r) PROVE Inv'
  <2> DEFINE i == req[r].invitation
             s == IF At(r, "cancel.update") THEN "expired" ELSE "declined"
  <2>1. i \in Invitations /\ invitation[i] # Null
    BY <1>2 DEF UpdateInvitation, At, Inv, Sound, Remembers, FindsInvitation, WriteSteps,
       InvitationSteps
  <2>2. /\ s \in InvitationStatus
        /\ invitation' = [invitation EXCEPT ![i] = [invitation[i] EXCEPT !.status = s]]
    BY <1>2 DEF UpdateInvitation, InvitationStatus
  <2> HIDE DEF i, s
  <2>3. InvitationsKept /\ invitation' \in [Invitations -> Invitation \cup {Null}]
    BY <2>1, <2>2, StatusWrite
  <2> QED BY <1>2, <2>3, InvitationWrite DEF UpdateInvitation
<1>3. ASSUME NEW r \in Requests, ResendRefresh(r) PROVE Inv'
  <2> DEFINE i == req[r].invitation
  <2>1. i \in Invitations /\ invitation[i] # Null
    BY <1>3 DEF ResendRefresh, At, Inv, Sound, Remembers, FindsInvitation, WriteSteps,
       InvitationSteps
  <2>2. invitation' = [invitation EXCEPT ![i] = [invitation[i] EXCEPT !.live = TRUE]]
    BY <1>3 DEF ResendRefresh, Refreshed
  <2> HIDE DEF i
  <2>3. InvitationsKept /\ invitation' \in [Invitations -> Invitation \cup {Null}]
    BY <2>1, <2>2, StatusWrite
  <2> QED BY <1>3, <2>3, InvitationWrite DEF ResendRefresh
<1>4. ASSUME NEW i \in Invitations, Lapse(i) PROVE Inv'
  <2>1. /\ invitation[i] # Null
        /\ invitation' = [invitation EXCEPT ![i] = [invitation[i] EXCEPT !.live = FALSE]]
    BY <1>4 DEF Lapse, IsPending
  <2>2. InvitationsKept /\ invitation' \in [Invitations -> Invitation \cup {Null}]
    BY <2>1, StatusWrite
  <2> QED BY <1>4, <2>2, InvitationWrite DEF Lapse
<1> QED BY <1>1, <1>2, <1>3, <1>4

(* Who writes a membership by its id writes its user's, and not the        *)
(* owner's.                                                                *)
LEMMA NamesUser ==
  ASSUME Inv, NEW r \in Requests, req[r].pc \in IdSteps, NEW u \in Users, Names(r, u)
  PROVE  u = req[r].user /\ u # Owner
BY DEF Inv, Sound, NamesOnlyItsUser, Names

LEMMA RoleWriteInv ==
  ASSUME Inv, NEW r \in Requests, RoleWrite(r)
  PROVE  Inv'
<1> DEFINE row(u) == IF Names(r, u) THEN [member[u] EXCEPT !.role = req[r].role] ELSE member[u]
<1>1. /\ member \in [Users -> Membership \cup {Null}]
      /\ req[r].pc = "role.write" /\ Sound(req[r])
      /\ UNCHANGED <<invitation, channel>> /\ req' = [req EXCEPT ![r] = Idle]
      /\ member' = [u \in Users |-> row(u)]
  BY DEF Inv, TablesTyped, RoleWrite, At, Finish
<1>2. req[r].role \in Roles
  BY <1>1 DEF Sound, Remembers, RoleSteps
<1>3. ASSUME NEW u \in Users
      PROVE  /\ row(u) \in Membership \cup {Null}
             /\ row(u) = Null <=> member[u] = Null
             /\ member[u] # Null => row(u).id = member[u].id
             /\ member[u] # Null => (row(u).role = "owner" <=> member[u].role = "owner")
  <2>1. CASE Names(r, u)
    <3>1. member[u] \in Membership /\ u # Owner
      BY <1>1, <2>1, NamesUser DEF Names, IsMember, IdSteps
    <3>2. member[u].role # "owner"
      BY <2>1, <3>1 DEF Inv, OneOwner, Names
    <3>3. row(u) \in Membership /\ row(u).id = member[u].id /\ row(u).role = req[r].role
      BY <1>2, <2>1, <3>1 DEF Membership
    <3> QED BY <1>2, <3>1, <3>2, <3>3, NullAssumption, RolesAssumption
  <2>2. CASE ~Names(r, u)
    BY <1>1, <2>2
  <2> QED BY <2>1, <2>2
<1> HIDE DEF row
<1>4. /\ member' \in [Users -> Membership \cup {Null}]
      /\ \A u \in Users : member'[u] = row(u)
  BY <1>1, <1>3
<1>5. InvitationsKept /\ IdsKept
  BY <1>1, <1>3, <1>4 DEF InvitationsKept, IdsKept
<1>6. req' \in [Requests -> RequestState] /\ \A g \in Requests : Sound(req[g])'
  BY <1>1, <1>5, OneRequest, IdleOK
<1>7. TablesTyped' /\ OneOwner' /\ IdsDistinct'
  BY <1>1, <1>3, <1>4 DEF Inv, TablesTyped, OneOwner, IdsDistinct, IsMember
<1>8. \A u : Admitted(u)' <=> Admitted(u)
  BY <1>1 DEF Admitted, offered
<1>9. MembersAdmitted' /\ ChannelsAdmitted'
  BY <1>1, <1>3, <1>4, <1>8 DEF Inv, MembersAdmitted, ChannelsAdmitted, IsMember
<1> QED BY <1>6, <1>7, <1>9 DEF Inv

LEMMA DeleteMemberInv ==
  ASSUME Inv, NEW r \in Requests, DeleteMember(r)
  PROVE  Inv'
<1> DEFINE old == req[r]
           q == [old EXCEPT !.pc = "channels.delete", !.id = Null]
<1>1. /\ member \in [Users -> Membership \cup {Null}]
      /\ old \in RequestState /\ old.pc = "member.delete" /\ Sound(old)
      /\ UNCHANGED <<invitation, channel>> /\ req' = [req EXCEPT ![r] = q]
      /\ member' = [u \in Users |-> IF Names(r, u) THEN Null ELSE member[u]]
  BY DEF Inv, TablesTyped, DeleteMember, At, GotoWith
<1>2. /\ member' \in [Users -> Membership \cup {Null}]
      /\ \A u \in Users : member'[u] # Null => member'[u] = member[u]
  BY <1>1
<1>3. member'[Owner] = member[Owner]
  BY <1>1, NamesUser, OwnerAssumption DEF IdSteps
<1>4. old.user \in Users
  BY <1>1 DEF Sound, Remembers, UserSteps
<1>5. "channels.delete" \in Steps
  BY DEF Steps, UserSteps
<1> HIDE DEF old
<1>6. q \in RequestState /\ q.pc = "channels.delete" /\ q.user = old.user /\ q.id = Null
  BY <1>1, <1>5, RequestStateIs
<1> HIDE DEF q
<1>q. PICK k : k = q
  OBVIOUS
<1>7. Sound(k)'
  BY <1>4, <1>6, <1>q DEF Sound, Remembers, FindsInvitation, NamesOnlyItsUser, UserSteps,
     RoleSteps, IdSteps, ChannelSteps, InvitationSteps, WriteSteps, AcceptSteps,
     AdmittedSteps
<1>8. InvitationsKept /\ IdsKept
  BY <1>1, <1>2 DEF InvitationsKept, IdsKept
<1>9. req' \in [Requests -> RequestState] /\ \A g \in Requests : Sound(req[g])'
  BY <1>1, <1>7, <1>8, <1>q, OneRequest
<1>10. OneOwner'
  BY <1>2, <1>3, OwnerAssumption DEF Inv, OneOwner, IsMember
<1>11. TablesTyped' /\ IdsDistinct'
  BY <1>1, <1>2 DEF Inv, TablesTyped, IdsDistinct, IsMember
<1>12. \A u : Admitted(u)' <=> Admitted(u)
  BY <1>1 DEF Admitted, offered
<1>13. MembersAdmitted' /\ ChannelsAdmitted'
  BY <1>1, <1>2, <1>12 DEF Inv, MembersAdmitted, ChannelsAdmitted, IsMember
<1> QED BY <1>9, <1>10, <1>11, <1>13 DEF Inv

(* What accepting an invitation writes, if it is not rolled back.          *)
LEMMA JoinedIs ==
  ASSUME Inv, NEW r \in Requests, AcceptCommit(r), ~UNCHANGED Tables
  PROVE  LET u == req[r].user
             i == req[r].invitation
         IN  /\ u \in Users /\ member[u] = Null /\ u # Owner
             /\ i \in Invitations /\ invitation[i] # Null /\ req[r].role \in Roles
             /\ invitation[i].user = u /\ invitation[i].role = req[r].role
             /\ \E id \in FreshIds :
                  member' = [member EXCEPT ![u] = [id |-> id, role |-> req[r].role]]
             /\ invitation' =
                  [invitation EXCEPT ![i] = [invitation[i] EXCEPT !.status = "accepted"]]
             /\ channel' = [channel EXCEPT ![Default] =
                              [channel[Default] EXCEPT !.members = @ \cup {u}]]
<1>1. Sound(req[r]) /\ req[r].pc = "accept.commit"
  BY DEF Inv, AcceptCommit, At
<1>2. /\ req[r].user \in Users /\ req[r].role \in Roles /\ req[r].invitation \in Invitations
      /\ invitation[req[r].invitation] # Null
      /\ invitation[req[r].invitation].user = req[r].user
      /\ invitation[req[r].invitation].role = req[r].role
  BY <1>1 DEF Sound, Remembers, FindsInvitation, UserSteps, RoleSteps, InvitationSteps,
     WriteSteps, AcceptSteps
<1>3. member[req[r].user] = Null
  BY DEF AcceptCommit, IsMember
<1>4. req[r].user # Owner
  BY <1>3, OwnerAssumption DEF Inv, OneOwner, IsMember
<1>5. /\ \E id \in FreshIds :
           member' = [member EXCEPT ![req[r].user] = [id |-> id, role |-> req[r].role]]
      /\ invitation' = [invitation EXCEPT ![req[r].invitation] =
                          [invitation[req[r].invitation] EXCEPT !.status = "accepted"]]
      /\ channel' = [channel EXCEPT ![Default] =
                       [channel[Default] EXCEPT !.members = @ \cup {req[r].user}]]
  BY DEF AcceptCommit, Joined
<1> QED BY <1>2, <1>3, <1>4, <1>5

LEMMA AcceptCommitInv ==
  ASSUME Inv, NEW r \in Requests, AcceptCommit(r)
  PROVE  Inv'
<1>1. CASE UNCHANGED Tables
  BY <1>1, FinishReads DEF AcceptCommit
<1>2. CASE ~UNCHANGED Tables
  <2>u. PICK u : u = req[r].user
    OBVIOUS
  <2> DEFINE i == req[r].invitation
             row == [channel[Default] EXCEPT !.members = @ \cup {u}]
             x == req[r].role
             inv == [invitation[i] EXCEPT !.status = "accepted"]
  <2>1. /\ u \in Users /\ member[u] = Null /\ u # Owner
        /\ i \in Invitations /\ invitation[i] # Null /\ x \in Roles
        /\ invitation[i].user = u
        /\ invitation' = [invitation EXCEPT ![i] = inv]
        /\ channel' = [channel EXCEPT ![Default] = row]
    BY <1>2, <2>u, JoinedIs
  <2>2. PICK id \in FreshIds : member' = [member EXCEPT ![u] = [id |-> id, role |-> x]]
    BY <1>2, <2>u, JoinedIs
  <2>3. /\ id \in MemberIds /\ \A g \in Requests : id # req[g].id
        /\ \A v \in Users : member[v] # Null => member[v].id # id
    BY <2>2 DEF FreshIds, IsMember
  <2>4. /\ member \in [Users -> Membership \cup {Null}]
        /\ channel \in [Channels -> Channel \cup {Null}] /\ channel[Default] \in Channel
        /\ req' = [req EXCEPT ![r] = Idle] /\ Default \in Channels
    BY DefaultAssumption DEF Inv, TablesTyped, AcceptCommit, Finish
  <2>5. row \in Channel /\ row.members = channel[Default].members \cup {u}
        /\ row.createdById = channel[Default].createdById
    BY <2>1, <2>4 DEF Channel
  <2>6. InvitationsKept /\ invitation' \in [Invitations -> Invitation \cup {Null}]
    <3>1. "accepted" \in InvitationStatus
      BY DEF InvitationStatus
    <3> QED BY <2>1, <3>1, StatusWrite
  <2> DEFINE joined == [id |-> id, role |-> x]
  <2>7. joined \in Membership /\ joined.id = id /\ joined.role = x /\ joined # Null
    <3>1. joined \in Membership
      BY <2>1, <2>3 DEF Membership
    <3> QED BY <3>1, NullAssumption
  <2>8. member' = [member EXCEPT ![u] = joined] /\ x # "owner"
    BY <2>1, <2>2, RolesAssumption
  <2> HIDE DEF joined, row, inv, i, x
  <2>9. IdsKept
    BY <2>1, <2>3, <2>4, <2>7, <2>8 DEF IdsKept
  <2>10. req' \in [Requests -> RequestState] /\ \A g \in Requests : Sound(req[g])'
    BY <2>4, <2>6, <2>9, OneRequest, IdleOK
  <2>11. TablesTyped'
    BY <2>1, <2>4, <2>5, <2>6, <2>7, <2>8, NullAssumption DEF TablesTyped
  <2>12. OneOwner' /\ IdsDistinct'
    BY <2>1, <2>3, <2>4, <2>7, <2>8 DEF Inv, OneOwner, IdsDistinct, IsMember
  <2>13. Admitted(u)'
    <3>1. Admitted(u)
      BY <2>1, InvitedAdmitted
    <3> QED BY <2>1, <2>6, <3>1, AdmittedKept
  <2>14. MembersAdmitted'
    BY <2>1, <2>4, <2>6, <2>8, <2>13, AdmittedKept DEF Inv, MembersAdmitted, IsMember
  <2>15. ChannelsAdmitted'
    <3>1. ASSUME NEW c \in Channels, channel'[c] # Null,
                 NEW v \in channel'[c].members \cup {channel'[c].createdById}
          PROVE  Admitted(v)'
      <4>1. CASE v = u
        BY <2>13, <4>1
      <4>2. CASE v # u
        <5>1. channel[c] # Null /\ v \in channel[c].members \cup {channel[c].createdById}
          BY <2>1, <2>4, <2>5, <3>1, <4>2, NullAssumption
        <5>2. v \in Users
          BY <2>4, <5>1 DEF Channel
        <5> QED BY <2>6, <5>1, <5>2, AdmittedKept DEF Inv, ChannelsAdmitted
      <4> QED BY <4>1, <4>2
    <3> QED BY <3>1 DEF ChannelsAdmitted
  <2> QED BY <2>10, <2>11, <2>12, <2>14, <2>15 DEF Inv
<1> QED BY <1>1, <1>2

-----------------------------------------------------------------------------
(* The invariant holds.                                                    *)

LEMMA InitInv == Init => Inv
<1> SUFFICES ASSUME Init PROVE Inv
  OBVIOUS
<1>1. PICK id \in MemberIds :
        member = [u \in Users |-> IF u = Owner THEN [id |-> id, role |-> "owner"] ELSE Null]
  BY DEF Init
<1> DEFINE row == [id |-> id, role |-> "owner"]
           general == [createdById |-> Owner, members |-> {Owner}]
<1>2. row \in Membership /\ row # Null /\ row.role = "owner"
  BY NullAssumption DEF Membership
<1>3. general \in Channel /\ general # Null
      /\ general.createdById = Owner /\ general.members = {Owner}
  BY NullAssumption, OwnerAssumption DEF Channel
<1>4. channel = [c \in Channels |-> IF c = Default THEN general ELSE Null]
  BY DEF Init
<1>5. member = [u \in Users |-> IF u = Owner THEN row ELSE Null]
  BY <1>1
<1> HIDE DEF row, general
<1>6. TablesTyped
  BY <1>2, <1>3, <1>4, <1>5, DefaultAssumption DEF Init, TablesTyped
<1>7. OneOwner /\ IdsDistinct
  BY <1>2, <1>5, OwnerAssumption DEF OneOwner, IdsDistinct, IsMember
<1>8. MembersAdmitted /\ ChannelsAdmitted
  BY <1>3, <1>4, <1>5 DEF MembersAdmitted, ChannelsAdmitted, IsMember, Admitted
<1>9. req \in [Requests -> RequestState] /\ \A r \in Requests : Sound(req[r])
  BY IdleOK DEF Init
<1> QED BY <1>6, <1>7, <1>8, <1>9 DEF Inv

LEMMA StepInv == Inv /\ [Next]_vars => Inv'
<1> SUFFICES ASSUME Inv, [Next]_vars PROVE Inv'
  OBVIOUS
<1>1. ASSUME NEW r \in Requests, Arrive(r) PROVE Inv'
  BY <1>1, ArriveInv
<1>2. ASSUME NEW r \in Requests, InvitationStep(r) PROVE Inv'
  BY <1>2, LookupInv, InvitationStepInv, AcceptCommitInv DEF InvitationStep
<1>3. ASSUME NEW r \in Requests, MemberStep(r) PROVE Inv'
  BY <1>3, FindInv, RoleWriteInv, DeleteMemberInv, ChannelStepInv DEF MemberStep
<1>4. ASSUME NEW r \in Requests, ChannelStep(r) PROVE Inv'
  BY <1>4, LookupInv, ChannelStepInv, InsertChannelInv DEF ChannelStep
<1>5. ASSUME NEW r \in Requests, Abort(r) PROVE Inv'
  BY <1>5, LookupInv
<1>6. ASSUME NEW i \in Invitations, Lapse(i) PROVE Inv'
  BY <1>6, InvitationStepInv
<1>7. CASE UNCHANGED vars
  <2>1. \A g \in Requests : \A q : q = req[g] => Sound(q)'
    BY <1>7, SoundKept, TablesKept DEF Inv, vars, Tables
  <2>2. \A g \in Requests : Sound(req[g])'
    BY <1>7, <2>1 DEF vars
  <2>3. \A u : Admitted(u)' <=> Admitted(u)
    BY <1>7 DEF vars, Admitted, offered
  <2> QED BY <1>7, <2>2, <2>3 DEF vars, Inv, TablesTyped, OneOwner, IdsDistinct,
        MembersAdmitted, ChannelsAdmitted, IsMember
<1> QED BY <1>1, <1>2, <1>3, <1>4, <1>5, <1>6, <1>7 DEF Next

LEMMA InvHolds == Spec => []Inv
BY InitInv, StepInv, PTL DEF Spec

LEMMA InvType == Inv => TypeOK
BY DEF Inv, TablesTyped, TypeOK, RequestOK, Sound, Remembers, FindsInvitation

(* The tables and the requests keep their types, and a request about to    *)
(* write an invitation has found one.                                      *)
THEOREM TypeCorrect == Spec => []TypeOK
BY InvHolds, InvType, PTL

(* The creator stays the organization's one owner, however many requests   *)
(* change roles, remove, leave and join at once.                           *)
THEOREM OneOwnerHolds == Spec => []OneOwner
<1>1. Inv => OneOwner
  BY DEF Inv
<1> QED BY <1>1, InvHolds, PTL

(* Nobody is in a channel, or its creator, whom the organization has never *)
(* let in.                                                                 *)
THEOREM ChannelsAdmittedHolds == Spec => []ChannelsAdmitted
<1>1. Inv => ChannelsAdmitted
  BY DEF Inv
<1> QED BY <1>1, InvHolds, PTL

-----------------------------------------------------------------------------
(* What a step may do to memberships and invitations.                      *)

(* Most steps leave memberships and invitations alone, or change one.      *)
LEMMA ArrivalsRead == \A r : Arrive(r) => UNCHANGED Tables
BY DEF Arrive, Invite, Cancel, Resend, UpdateRole, RemoveMember, Leave, AddMember,
   RemoveFromChannel, CreateChannel, DeleteChannel, Accept, Decline

LEMMA StepsWrite ==
  ASSUME NEW r
  PROVE  /\ InvitationStep(r) =>
              \/ UNCHANGED Tables
              \/ UNCHANGED member /\ (InviteInsert(r) \/ UpdateInvitation(r) \/ ResendRefresh(r))
              \/ AcceptCommit(r) /\ ~UNCHANGED Tables
         /\ MemberStep(r) =>
              UNCHANGED invitation /\ (UNCHANGED member \/ RoleWrite(r) \/ DeleteMember(r))
         /\ ChannelStep(r) => UNCHANGED <<member, invitation>>
<1>1. InvitationStep(r) =>
        \/ UNCHANGED Tables
        \/ UNCHANGED member /\ (InviteInsert(r) \/ UpdateInvitation(r) \/ ResendRefresh(r))
        \/ AcceptCommit(r) /\ ~UNCHANGED Tables
  BY DEF InvitationStep, InvitePending, InviteMember, InviteInsert, AcceptMember,
     CancelFind, UpdateInvitation, ResendFind, ResendRefresh
<1>2. MemberStep(r) =>
        UNCHANGED invitation /\ (UNCHANGED member \/ RoleWrite(r) \/ DeleteMember(r))
  BY DEF MemberStep, RoleFind, RoleWrite, RemoveFind, DeleteMember, DeleteFromChannels,
     Tables
<1>3. ChannelStep(r) => UNCHANGED <<member, invitation>>
  BY DEF ChannelStep, AddFindMember, AddFindExisting, AddInsert, RemoveChannelMember,
     InsertChannel, RemoveChannel, Tables
<1> QED BY <1>1, <1>2, <1>3

LEMMA Changes ==
  ASSUME [Next]_vars
  PROVE  \/ UNCHANGED <<member, invitation>>
         \/ /\ UNCHANGED invitation
            /\ \E r \in Requests : RoleWrite(r) \/ DeleteMember(r)
         \/ /\ UNCHANGED member
            /\ \/ \E r \in Requests :
                    InviteInsert(r) \/ UpdateInvitation(r) \/ ResendRefresh(r)
               \/ \E i \in Invitations : Lapse(i)
         \/ \E r \in Requests : AcceptCommit(r) /\ ~UNCHANGED Tables
<1>1. CASE UNCHANGED vars
  BY <1>1 DEF vars
<1>2. ASSUME NEW r \in Requests, Arrive(r) \/ Abort(r)
      PROVE  UNCHANGED <<member, invitation>>
  BY <1>2, ArrivalsRead DEF Abort, Tables
<1>3. ASSUME NEW i \in Invitations, Lapse(i) PROVE UNCHANGED member
  BY <1>3 DEF Lapse
<1> QED BY <1>1, <1>2, <1>3, StepsWrite DEF Next, Tables

LEMMA StepBinds ==
  ASSUME Inv, [Next]_vars, NEW u \in Users, IsMember(u), member'[u] # member[u]
  PROVE  \E r \in Requests :
           req[r].pc \in IdSteps /\ req[r].id = member[u].id /\ req[r].user = u
<1>1. ASSUME NEW r \in Requests, AcceptCommit(r), ~UNCHANGED Tables PROVE FALSE
  BY <1>1, JoinedIs DEF IsMember, Inv, TablesTyped
<1>2. ASSUME NEW r \in Requests, RoleWrite(r) \/ DeleteMember(r)
      PROVE  req[r].pc \in IdSteps /\ req[r].id = member[u].id /\ req[r].user = u
  <2>1. req[r].pc \in IdSteps /\ Names(r, u)
    BY <1>2 DEF RoleWrite, DeleteMember, At, IdSteps
  <2> QED BY <2>1, NamesUser DEF Names
<1> QED BY <1>1, <1>2, Changes

(* A membership is changed or deleted only by a request that looked up     *)
(* this very membership, of this user.                                     *)
THEOREM DecisionsBindHold == Spec => DecisionsBind
<1>1. Inv /\ [Next]_vars =>
        [\A u \in Users :
           IsMember(u) /\ member'[u] # member[u] =>
             \E r \in Requests :
               /\ req[r].pc \in IdSteps
               /\ req[r].id = member[u].id
               /\ req[r].user = u]_member
  BY StepBinds
<1> QED BY <1>1, InvHolds, PTL DEF Spec, DecisionsBind

LEMMA StepNeverPendingAgain ==
  ASSUME Inv, [Next]_vars, NEW i \in Invitations, invitation[i] # Null, ~IsPending(i)
  PROVE  ~IsPending(i)'
<1> DEFINE row == invitation[i]
<1>1. invitation \in [Invitations -> Invitation \cup {Null}] /\ row.status # "pending"
  BY DEF Inv, TablesTyped, IsPending
<1>2. ASSUME NEW r \in Requests, InviteInsert(r) PROVE invitation'[i] = row
  BY <1>1, <1>2 DEF InviteInsert
<1>3. ASSUME NEW r \in Requests, UpdateInvitation(r) PROVE invitation'[i].status # "pending"
  <2> DEFINE s == IF At(r, "cancel.update") THEN "expired" ELSE "declined"
  <2>1. /\ s # "pending"
        /\ invitation' = [invitation EXCEPT ![req[r].invitation] =
                            [invitation[req[r].invitation] EXCEPT !.status = s]]
    BY <1>3 DEF UpdateInvitation
  <2> HIDE DEF s
  <2> QED BY <1>1, <2>1 DEF Invitation
<1>4. ASSUME NEW r \in Requests, ResendRefresh(r) PROVE invitation'[i].status # "pending"
  <2>1. invitation' = [invitation EXCEPT ![req[r].invitation] =
                        [invitation[req[r].invitation] EXCEPT !.live = TRUE]]
    BY <1>4 DEF ResendRefresh, Refreshed
  <2> QED BY <1>1, <2>1 DEF Invitation
<1>5. ASSUME NEW r \in Requests, AcceptCommit(r), ~UNCHANGED Tables
      PROVE  invitation'[i].status # "pending"
  <2>1. invitation' = [invitation EXCEPT ![req[r].invitation] =
                        [invitation[req[r].invitation] EXCEPT !.status = "accepted"]]
    BY <1>5, JoinedIs
  <2> QED BY <1>1, <2>1 DEF Invitation
<1>6. ASSUME NEW j \in Invitations, Lapse(j) PROVE invitation'[i] = row
  BY <1>1, <1>6 DEF Lapse, IsPending
<1> QED BY <1>1, <1>2, <1>3, <1>4, <1>5, <1>6, Changes DEF IsPending

(* A settled invitation stays settled.                                     *)
THEOREM NeverPendingAgainHolds == Spec => NeverPendingAgain
<1>1. Inv /\ [Next]_vars =>
        [\A i \in Invitations :
           invitation[i] # Null /\ ~IsPending(i) => ~IsPending(i)']_invitation
  BY StepNeverPendingAgain
<1> QED BY <1>1, InvHolds, PTL DEF Spec, NeverPendingAgain

-----------------------------------------------------------------------------
(* Memberships and invitations implement Roster.                           *)

LEMMA RosterInit == Init => Members!Init
<1> SUFFICES ASSUME Init PROVE Members!Init
  OBVIOUS
<1>1. PICK id \in MemberIds :
        member = [u \in Users |-> IF u = Owner THEN [id |-> id, role |-> "owner"] ELSE Null]
  BY DEF Init
<1>2. [id |-> id, role |-> "owner"] \in Membership
  BY DEF Membership
<1>3. role = [u \in Users |-> IF u = Owner THEN "owner" ELSE Null]
  BY <1>1, <1>2, NullAssumption DEF role, IsMember
<1>4. offered = [u \in Users |-> {}]
  BY DEF Init, offered
<1> QED BY <1>3, <1>4 DEF Members!Init

LEMMA OfferedKept ==
  ASSUME Inv, InvitationsKept, \A i \in Invitations : invitation[i] = Null => invitation'[i] = Null
  PROVE  UNCHANGED offered
<1>1. \A u \in Users :
        {i \in Invitations : invitation'[i] # Null /\ invitation'[i].user = u}
          = {i \in Invitations : invitation[i] # Null /\ invitation[i].user = u}
  BY DEF InvitationsKept
<1>2. ASSUME NEW u \in Users
      PROVE  {invitation'[i].role : i \in {j \in Invitations :
                invitation'[j] # Null /\ invitation'[j].user = u}}
               = {invitation[i].role : i \in {j \in Invitations :
                    invitation[j] # Null /\ invitation[j].user = u}}
  BY <1>1 DEF InvitationsKept
<1> QED BY <1>2 DEF offered

LEMMA StepImplements ==
  ASSUME Inv, [Next]_vars
  PROVE  [Members!Next]_<<role, offered>>
<1>t. /\ member \in [Users -> Membership \cup {Null}]
      /\ invitation \in [Invitations -> Invitation \cup {Null}]
  BY DEF Inv, TablesTyped
<1>0. UNCHANGED member => UNCHANGED role
  BY DEF role, IsMember
<1>00. UNCHANGED invitation => UNCHANGED offered
  BY DEF offered
<1>1. ASSUME NEW r \in Requests, InviteInsert(r), UNCHANGED member
      PROVE  Members!Next
  <2> DEFINE w == req[r].user
             x == req[r].role
             row == [user |-> w, role |-> x, status |-> "pending", live |-> TRUE]
  <2>1. PICK i \in Invitations :
          invitation[i] = Null /\ invitation' = [invitation EXCEPT ![i] = row]
    BY <1>1 DEF InviteInsert
  <2>2. w \in Users /\ x \in Roles
    BY <1>1 DEF InviteInsert, At, Inv, Sound, Remembers, UserSteps, RoleSteps
  <2>3. row \in Invitation /\ row.user = w /\ row.role = x
    BY <2>2 DEF Invitation, InvitationStatus
  <2>4. row # Null
    BY <2>3, NullAssumption
  <2> HIDE DEF row, w, x
  <2> DEFINE Sent(u) == {j \in Invitations : invitation[j] # Null /\ invitation[j].user = u}
             SentNow(u) == {j \in Invitations : invitation'[j] # Null /\ invitation'[j].user = u}
  <2>5. \A u \in Users : SentNow(u) = Sent(u) \cup (IF u = w THEN {i} ELSE {})
    BY <1>t, <2>1, <2>3, <2>4
  <2>6. /\ invitation'[i].role = x
        /\ \A j \in Invitations : j # i => invitation'[j].role = invitation[j].role
        /\ \A u \in Users : i \notin Sent(u) /\ Sent(u) \subseteq Invitations
    BY <1>t, <2>1, <2>3
  <2>7. offered' = [u \in Users |-> {invitation'[j].role : j \in SentNow(u)}]
    BY DEF offered
  <2>8. offered = [u \in Users |-> {invitation[j].role : j \in Sent(u)}]
    BY DEF offered
  <2> HIDE DEF Sent, SentNow
  <2>9. \A u \in Users :
          offered'[u] = offered[u] \cup (IF u = w THEN {x} ELSE {})
    BY <2>5, <2>6, <2>7, <2>8
  <2>10. offered' = [offered EXCEPT ![w] = @ \cup {x}]
    BY <2>2, <2>7, <2>8, <2>9
  <2> QED BY <1>0, <1>1, <2>2, <2>10 DEF Members!Next, Members!Offer
<1>2. ASSUME NEW r \in Requests, UpdateInvitation(r) \/ ResendRefresh(r), UNCHANGED member
      PROVE  UNCHANGED <<role, offered>>
  <2> DEFINE i == req[r].invitation
             s == IF At(r, "cancel.update") THEN "expired" ELSE "declined"
  <2>1. i \in Invitations /\ invitation[i] # Null
    BY <1>2 DEF UpdateInvitation, ResendRefresh, At, Inv, Sound, Remembers, FindsInvitation,
       WriteSteps, InvitationSteps
  <2>2. \/ /\ s \in InvitationStatus
           /\ invitation' = [invitation EXCEPT ![i] = [invitation[i] EXCEPT !.status = s]]
        \/ invitation' = [invitation EXCEPT ![i] = [invitation[i] EXCEPT !.live = TRUE]]
    BY <1>2 DEF UpdateInvitation, ResendRefresh, Refreshed, InvitationStatus
  <2> HIDE DEF i, s
  <2>3. InvitationsKept
    BY <2>1, <2>2, StatusWrite
  <2> QED BY <1>t, <1>0, <1>2, <2>1, <2>2, <2>3, OfferedKept
<1>3. ASSUME NEW i \in Invitations, Lapse(i), UNCHANGED member
      PROVE  UNCHANGED <<role, offered>>
  <2>1. /\ invitation[i] # Null
        /\ invitation' = [invitation EXCEPT ![i] = [invitation[i] EXCEPT !.live = FALSE]]
    BY <1>3 DEF Lapse, IsPending
  <2>2. InvitationsKept
    BY <2>1, StatusWrite
  <2> QED BY <1>t, <1>0, <1>3, <2>1, <2>2, OfferedKept
<1>4. ASSUME NEW r \in Requests, AcceptCommit(r), ~UNCHANGED Tables
      PROVE  Members!Next
  <2> DEFINE u == req[r].user
             i == req[r].invitation
             x == req[r].role
  <2>1. /\ u \in Users /\ member[u] = Null
        /\ i \in Invitations /\ invitation[i] # Null /\ x \in Roles
        /\ invitation[i].user = u /\ invitation[i].role = x
        /\ invitation' = [invitation EXCEPT ![i] = [invitation[i] EXCEPT !.status = "accepted"]]
    BY <1>4, JoinedIs
  <2>2. PICK id \in FreshIds : member' = [member EXCEPT ![u] = [id |-> id, role |-> x]]
    BY <1>4, JoinedIs
  <2> DEFINE joined == [id |-> id, role |-> x]
  <2>3. joined \in Membership /\ joined.role = x
    BY <2>1, <2>2 DEF FreshIds, Membership
  <2>4. member' = [member EXCEPT ![u] = joined] /\ joined # Null
    BY <2>2, <2>3, NullAssumption
  <2> HIDE DEF u, i, x, joined
  <2>5. role' = [role EXCEPT ![u] = x] /\ role[u] = Null
    BY <1>t, <2>1, <2>3, <2>4 DEF role, IsMember
  <2>6. x \in offered[u]
    BY <2>1 DEF offered
  <2>7. UNCHANGED offered
    <3>1. "accepted" \in InvitationStatus
      BY DEF InvitationStatus
    <3>2. InvitationsKept
      BY <2>1, <3>1, StatusWrite
    <3> QED BY <1>t, <2>1, <3>2, OfferedKept
  <2> QED BY <2>1, <2>5, <2>6, <2>7 DEF Members!Next, Members!Join
<1>5. ASSUME NEW r \in Requests, RoleWrite(r) \/ DeleteMember(r), UNCHANGED invitation
      PROVE  [Members!Next]_<<role, offered>>
  <2> DEFINE w == req[r].user
             x == IF RoleWrite(r) THEN req[r].role ELSE Null
  <2>1. req[r].pc \in IdSteps /\ x \in Roles \cup {Null}
    BY <1>5 DEF RoleWrite, DeleteMember, At, IdSteps, Inv, Sound, Remembers, RoleSteps
  <2>2. \A u \in Users : ~Names(r, u) => member'[u] = member[u]
    BY <1>5 DEF RoleWrite, DeleteMember
  <2>3. CASE \A u \in Users : ~Names(r, u)
    BY <1>00, <1>5, <2>2, <2>3 DEF role, IsMember
  <2>4. ASSUME NEW u \in Users, Names(r, u) PROVE Members!Next
    <3>1. u = w /\ u # Owner /\ member[u] \in Membership
      BY <1>t, <2>1, <2>4, NamesUser DEF Names, IsMember
    <3>2. \A v \in Users : v # u => member'[v] = member[v]
      BY <2>1, <2>2, <3>1, NamesUser
    <3>3. role'[u] = x
      <4>1. CASE RoleWrite(r)
        <5>1. member'[u] = [member[u] EXCEPT !.role = req[r].role]
          BY <2>4, <4>1 DEF RoleWrite
        <5>2. req[r].role \in Roles
          BY <4>1 DEF RoleWrite, At, Inv, Sound, Remembers, RoleSteps
        <5>3. member'[u] \in Membership /\ member'[u].role = req[r].role
          BY <3>1, <5>1, <5>2 DEF Membership
        <5> QED BY <4>1, <5>3, NullAssumption DEF role, IsMember
      <4>2. CASE ~RoleWrite(r)
        BY <1>5, <2>4, <4>2 DEF DeleteMember, role, IsMember
      <4> QED BY <4>1, <4>2
    <3>4. role' = [role EXCEPT ![u] = x]
      BY <3>2, <3>3 DEF role, IsMember
    <3>5. role[u] # Null
      BY <2>4, <3>1, NullAssumption DEF role, Names, Membership
    <3> QED BY <1>00, <1>5, <2>1, <3>1, <3>4, <3>5 DEF Members!Next, Members!Assign
  <2> QED BY <2>3, <2>4
<1> QED BY <1>0, <1>00, <1>1, <1>2, <1>3, <1>4, <1>5, Changes

(* However requests interleave and fail, a user joins only with a role     *)
(* that was offered to him, and the owner's role is never touched.         *)
THEOREM RosterImplemented == Spec => ImplementsRoster
BY RosterInit, StepImplements, InvHolds, PTL DEF Spec, ImplementsRoster, Members!Spec
-----------------------------------------------------------------------------
(* Where members are missing from the default channel: nowhere but where   *)
(* two removals of one user overlap.                                       *)

(* The request has found the membership it will delete, and has not ended. *)
Removing(r) == req[r].pc \in {"member.delete", "channels.delete"}

(* No two removals of one user overlap.                                    *)
OneRemoval ==
  \A q, r \in Requests :
    Removing(q) /\ Removing(r) /\ req[q].user = req[r].user => q = r

(* What request q remembers still holds: the membership it found is there, *)
(* or it has deleted it and nobody has joined in its place, which the row  *)
(* left in the default channel prevents.                                   *)
Knows(q) ==
  /\ q.pc = "member.delete" => IsMember(q.user) /\ member[q.user].id = q.id
  /\ q.pc = "channels.delete" => ~IsMember(q.user) /\ q.user \in channel[Default].members
  /\ q.pc = "channel.remove" => q.channel # Default

DefaultInv == MembersInDefault /\ \A r \in Requests : Knows(req[r])

SameFor(u) ==
  /\ member'[u] = Null <=> member[u] = Null
  /\ member[u] # Null => member'[u].id = member[u].id
  /\ u \in channel[Default].members => u \in channel'[Default].members

(* A step of request r that joins or removes users in W only.              *)
LEMMA DefaultKept ==
  ASSUME Inv, DefaultInv, NEW r \in Requests, NEW W,
         \A g \in Requests \ {r} : req'[g] = req[g],
         \A x : x = req'[r] => Knows(x)',
         \A u \in Users \ W : SameFor(u),
         \A u \in Users \cap W : member'[u] # Null => u \in channel'[Default].members,
         \A g \in Requests \ {r} : Removing(g) => req[g].user \notin W
  PROVE  DefaultInv'
<1>1. MembersInDefault'
  BY DEF DefaultInv, MembersInDefault, SameFor, IsMember
<1>2. ASSUME NEW g \in Requests, g # r PROVE \A x : x = req[g] => Knows(x)'
  <2>1. Removing(g) => req[g].user \in Users
    BY DEF Inv, Sound, Remembers, Removing, UserSteps
  <2>2. Removing(g) => SameFor(req[g].user)
    BY <1>2, <2>1
  <2>3. Knows(req[g])
    BY DEF DefaultInv
  <2> QED BY <2>2, <2>3 DEF Knows, Removing, SameFor, IsMember
<1>3. \A g \in Requests : \A x : x = req'[g] => Knows(x)'
  BY <1>2
<1>4. \A g \in Requests : Knows(req[g])'
  BY <1>3
<1> QED BY <1>1, <1>4 DEF DefaultInv

(* A step that joins and removes nobody.                                   *)
LEMMA NobodyMoves ==
  ASSUME Inv, DefaultInv, NEW r \in Requests,
         \A g \in Requests \ {r} : req'[g] = req[g],
         req'[r].pc \notin {"member.delete", "channels.delete"},
         req'[r].pc = "channel.remove" => req'[r].channel # Default,
         \A u \in Users : SameFor(u)
  PROVE  DefaultInv'
<1>1. \A x : x = req'[r] => Knows(x)'
  BY DEF Knows
<1>2. /\ \A u \in Users \ {} : SameFor(u)
      /\ \A u \in Users \cap {} : member'[u] # Null => u \in channel'[Default].members
      /\ \A g \in Requests \ {r} : Removing(g) => req[g].user \notin {}
  OBVIOUS
<1> QED BY <1>1, <1>2, DefaultKept

LEMMA TablesSame ==
  ASSUME UNCHANGED member, channel[Default].members \subseteq channel'[Default].members
  PROVE  \A u \in Users : SameFor(u)
BY DEF SameFor

LEMMA ArriveKnows ==
  ASSUME Inv, NEW r \in Requests, Arrive(r)
  PROVE  /\ req'[r].pc \notin {"member.delete", "channels.delete"}
         /\ req'[r].pc = "channel.remove" => req'[r].channel # Default
         /\ \A g \in Requests \ {r} : req'[g] = req[g]
<1>1. req \in [Requests -> RequestState]
  BY DEF Inv
<1> QED BY <1>1 DEF Arrive, Invite, Cancel, Resend, UpdateRole, RemoveMember, Leave, AddMember,
      RemoveFromChannel, CreateChannel, DeleteChannel, Accept, Decline, Begin, Call

(* After these steps a request remembers no membership to remove, and is   *)
(* not about to take anybody out of a channel.                             *)
LEMMA ReadersKnow ==
  ASSUME Inv, NEW r \in Requests,
         \/ InvitationStep(r) \/ RoleFind(r) \/ RoleWrite(r) \/ ChannelStep(r) \/ Abort(r)
  PROVE  /\ req'[r].pc \notin {"member.delete", "channels.delete", "channel.remove"}
         /\ \A g \in Requests \ {r} : req'[g] = req[g]
<1>0. req \in [Requests -> RequestState] /\ req[r] \in RequestState
  BY DEF Inv
<1>1. ASSUME NEW step \in Steps \ {"member.delete", "channels.delete", "channel.remove"},
             Goto(r, step)
      PROVE  /\ req'[r].pc = step
             /\ \A g \in Requests \ {r} : req'[g] = req[g]
  BY <1>0, <1>1, GotoOK DEF Goto
<1>2. ASSUME Finish(r)
      PROVE  /\ req'[r].pc = "idle"
             /\ \A g \in Requests \ {r} : req'[g] = req[g]
  BY <1>0, <1>2, IdleOK DEF Finish
<1>3. ASSUME GotoWith(r, "role.write", member[req[r].user].id)
      PROVE  /\ req'[r].pc = "role.write"
             /\ \A g \in Requests \ {r} : req'[g] = req[g]
  BY <1>0, <1>3, RequestStateIs DEF GotoWith
<1>4. ASSUME InsertChannel(r)
      PROVE  /\ req'[r].pc = "add.insert"
             /\ \A g \in Requests \ {r} : req'[g] = req[g]
  BY <1>0, <1>4, RequestStateIs DEF InsertChannel
<1>5. {"invite.member", "invite.insert", "accept.commit", "cancel.update", "resend.refresh",
       "add.exists", "add.insert"}
        \subseteq Steps \ {"member.delete", "channels.delete", "channel.remove"}
  BY DEF Steps, UserSteps, InvitationSteps
<1>6. CASE InvitationStep(r)
  BY <1>1, <1>2, <1>5, <1>6 DEF InvitationStep, InvitePending, InviteMember, InviteInsert,
     AcceptMember, AcceptCommit, CancelFind, UpdateInvitation, ResendFind, ResendRefresh
<1>7. CASE ChannelStep(r)
  BY <1>1, <1>2, <1>4, <1>5, <1>7 DEF ChannelStep, AddFindMember, AddFindExisting, AddInsert,
     RemoveChannelMember, RemoveChannel
<1>8. CASE RoleFind(r) \/ RoleWrite(r) \/ Abort(r)
  BY <1>2, <1>3, <1>8 DEF RoleFind, RoleWrite, Abort
<1> QED BY <1>6, <1>7, <1>8
LEMMA JoinKnows ==
  ASSUME Inv, DefaultInv, NEW r \in Requests, AcceptCommit(r), ~UNCHANGED Tables
  PROVE  DefaultInv'
<1>u. PICK u : u = req[r].user
  OBVIOUS
<1>1. /\ u \in Users /\ member[u] = Null /\ u \notin channel[Default].members
      /\ channel' = [channel EXCEPT ![Default] = [channel[Default] EXCEPT !.members = @ \cup {u}]]
      /\ \E id \in FreshIds : member' = [member EXCEPT ![u] = [id |-> id, role |-> req[r].role]]
  BY <1>u, JoinedIs DEF AcceptCommit
<1>2. /\ member \in [Users -> Membership \cup {Null}]
      /\ channel \in [Channels -> Channel \cup {Null}] /\ channel[Default] \in Channel
      /\ Default \in Channels
  BY DefaultAssumption DEF Inv, TablesTyped
<1>3. /\ \A v \in Users \ {u} : member'[v] = member[v]
      /\ channel'[Default].members = channel[Default].members \cup {u}
  BY <1>1, <1>2 DEF Channel
<1>4. /\ req'[r].pc \notin {"member.delete", "channels.delete", "channel.remove"}
      /\ \A g \in Requests \ {r} : req'[g] = req[g]
  BY ReadersKnow DEF InvitationStep
<1>5. ASSUME NEW g \in Requests, Removing(g) PROVE req[g].user \notin {u}
  BY <1>1, <1>5 DEF DefaultInv, Knows, Removing, IsMember
<1>6. \A x : x = req'[r] => Knows(x)'
  BY <1>4 DEF Knows
<1> QED BY <1>3, <1>4, <1>5, <1>6, DefaultKept DEF SameFor

(* What was found for the removal is there, and nobody else removes it.    *)
LEMMA RemoveFindKnows ==
  ASSUME Inv, DefaultInv, NEW r \in Requests, RemoveFind(r)
  PROVE  DefaultInv'
<1>1. UNCHANGED Tables /\ req \in [Requests -> RequestState] /\ req[r] \in RequestState
  BY DEF RemoveFind, Inv
<1>2. \A u \in Users : SameFor(u)
  BY <1>1, TablesSame DEF Tables
<1>3. CASE Finish(r)
  BY <1>1, <1>2, <1>3, IdleOK, NobodyMoves DEF Finish
<1>4. CASE Target(req[r].user) /\ GotoWith(r, "member.delete", member[req[r].user].id)
  <2>u. PICK u : u = req[r].user
    OBVIOUS
  <2>1. /\ req'[r].pc = "member.delete" /\ req'[r].user = u /\ req'[r].id = member[u].id
        /\ \A g \in Requests \ {r} : req'[g] = req[g]
        /\ IsMember(u)
    <3> DEFINE old == req[r]
               q == [old EXCEPT !.pc = "member.delete", !.id = member[u].id]
    <3>1. req' = [req EXCEPT ![r] = q] /\ IsMember(u)
      BY <1>4, <2>u DEF GotoWith, Target
    <3>2. q.pc = "member.delete" /\ q.user = old.user /\ q.id = member[u].id
      BY <1>1, RequestStateIs
    <3> HIDE DEF q
    <3> QED BY <1>1, <2>u, <3>1, <3>2
  <2>2. \A x : x = req'[r] => Knows(x)'
    BY <1>1, <2>1 DEF Knows, IsMember, Tables
  <2>3. /\ \A v \in Users \ {} : SameFor(v)
        /\ \A v \in Users \cap {} : member'[v] # Null => v \in channel'[Default].members
        /\ \A g \in Requests \ {r} : Removing(g) => req[g].user \notin {}
    BY <1>2
  <2> QED BY <2>1, <2>2, <2>3, DefaultKept
<1> QED BY <1>3, <1>4 DEF RemoveFind

LEMMA DeleteMemberKnows ==
  ASSUME Inv, DefaultInv, OneRemoval, NEW r \in Requests, DeleteMember(r)
  PROVE  DefaultInv'
<1>u. PICK u : u = req[r].user
  OBVIOUS
<1>1. /\ req[r].pc = "member.delete" /\ req[r] \in RequestState /\ u \in Users
      /\ req \in [Requests -> RequestState] /\ UNCHANGED channel
      /\ member' = [v \in Users |-> IF Names(r, v) THEN Null ELSE member[v]]
  BY <1>u DEF DeleteMember, At, Inv, Sound, Remembers, UserSteps
<1>2. Names(r, u) /\ u \in channel[Default].members
  BY <1>1, <1>u DEF DefaultInv, Knows, Names, MembersInDefault
<1>3. member'[u] = Null /\ \A v \in Users \ {u} : member'[v] = member[v]
  BY <1>1, <1>2, <1>u, NamesUser DEF IdSteps
<1>4. /\ req'[r].pc = "channels.delete" /\ req'[r].user = u
      /\ \A g \in Requests \ {r} : req'[g] = req[g]
  <2> DEFINE old == req[r]
             q == [old EXCEPT !.pc = "channels.delete", !.id = Null]
  <2>1. req' = [req EXCEPT ![r] = q]
    BY DEF DeleteMember, GotoWith
  <2>2. q.pc = "channels.delete" /\ q.user = old.user
    BY <1>1, RequestStateIs
  <2> HIDE DEF q
  <2> QED BY <1>1, <1>u, <2>1, <2>2
<1>5. \A x : x = req'[r] => Knows(x)'
  BY <1>1, <1>2, <1>3, <1>4 DEF Knows, IsMember
<1>6. \A g \in Requests \ {r} : Removing(g) => req[g].user \notin {u}
  BY <1>1, <1>u DEF OneRemoval, Removing
<1>7. \A v \in Users \ {u} : SameFor(v)
  BY <1>1, <1>3 DEF SameFor
<1> QED BY <1>3, <1>4, <1>5, <1>6, <1>7, DefaultKept

LEMMA DeleteRowsKnows ==
  ASSUME Inv, DefaultInv, OneRemoval, NEW r \in Requests, DeleteFromChannels(r)
  PROVE  DefaultInv'
<1>u. PICK u : u = req[r].user
  OBVIOUS
<1>1. /\ req[r].pc = "channels.delete" /\ UNCHANGED member
      /\ req \in [Requests -> RequestState] /\ req' = [req EXCEPT ![r] = Idle]
      /\ channel' = [c \in Channels |-> Without(channel[c], u)]
      /\ channel[Default] \in Channel /\ Default \in Channels
  BY <1>u, DefaultAssumption DEF DeleteFromChannels, At, Finish, Inv, TablesTyped
<1>2. member[u] = Null
  BY <1>1, <1>u DEF DefaultInv, Knows, IsMember
<1>3. channel'[Default].members = channel[Default].members \ {u}
  BY <1>1, NullAssumption DEF Without, Channel
<1>4. \A x : x = req'[r] => Knows(x)'
  BY <1>1, IdleOK DEF Knows
<1>5. \A g \in Requests \ {r} : Removing(g) => req[g].user \notin {u}
  BY <1>1, <1>u DEF OneRemoval, Removing
<1>6. \A v \in Users \ {u} : SameFor(v)
  BY <1>1, <1>3 DEF SameFor
<1>7. \A g \in Requests \ {r} : req'[g] = req[g]
  BY <1>1
<1>8. \A v \in Users \cap {u} : member'[v] # Null => v \in channel'[Default].members
  BY <1>1, <1>2
<1> QED BY <1>4, <1>5, <1>6, <1>7, <1>8, DefaultKept

LEMMA ChannelStepKnows ==
  ASSUME Inv, DefaultInv, NEW r \in Requests, ChannelStep(r)
  PROVE  DefaultInv'
<1>1. UNCHANGED member
  BY StepsWrite
<1>2. /\ channel \in [Channels -> Channel \cup {Null}] /\ channel[Default] \in Channel
      /\ Default \in Channels /\ channel[Default] # Null
  BY DefaultAssumption DEF Inv, TablesTyped
<1>3. channel[Default].members \subseteq channel'[Default].members
  <2>1. CASE UNCHANGED channel
    BY <2>1
  <2>2. CASE AddInsert(r)
    <3> DEFINE d == req[r].channel
    <3>1. channel' = [channel EXCEPT ![d] = With(channel[d], req[r].user)]
      BY <2>2 DEF AddInsert
    <3> HIDE DEF d
    <3>2. CASE d = Default
      BY <1>2, <3>1, <3>2 DEF With, Channel
    <3>3. CASE d # Default
      BY <1>2, <3>1, <3>3
    <3> QED BY <3>2, <3>3
  <2>3. CASE RemoveChannelMember(r) \/ RemoveChannel(r)
    <3>1. req[r].channel # Default
      BY <2>3 DEF RemoveChannelMember, RemoveChannel, At, DefaultInv, Knows, Inv, Sound, Remembers
    <3> QED BY <1>2, <2>3, <3>1 DEF RemoveChannelMember, RemoveChannel
  <2>4. CASE InsertChannel(r)
    BY <1>2, <2>4 DEF InsertChannel
  <2> QED BY <2>1, <2>2, <2>3, <2>4 DEF ChannelStep, AddFindMember, AddFindExisting, Tables
<1> QED BY <1>1, <1>3, TablesSame, ReadersKnow, NobodyMoves

LEMMA DefaultStep ==
  ASSUME Inv, DefaultInv, OneRemoval, [Next]_vars
  PROVE  DefaultInv'
<1>q. ASSUME NEW r \in Requests, UNCHANGED member, UNCHANGED channel,
             \/ Arrive(r) \/ InvitationStep(r) \/ RoleFind(r) \/ Abort(r)
      PROVE  DefaultInv'
  <2>1. /\ req'[r].pc \notin {"member.delete", "channels.delete"}
        /\ req'[r].pc = "channel.remove" => req'[r].channel # Default
        /\ \A g \in Requests \ {r} : req'[g] = req[g]
    BY <1>q, ArriveKnows, ReadersKnow
  <2> QED BY <1>q, <2>1, TablesSame, NobodyMoves
<1>1. ASSUME NEW r \in Requests, Arrive(r) \/ Abort(r) PROVE DefaultInv'
  BY <1>1, <1>q, ArrivalsRead DEF Abort, Tables
<1>2. ASSUME NEW r \in Requests, InvitationStep(r) PROVE DefaultInv'
  <2>1. CASE AcceptCommit(r) /\ ~UNCHANGED Tables
    BY <2>1, JoinKnows
  <2>2. CASE UNCHANGED <<member, channel>>
    BY <1>2, <1>q, <2>2
  <2> QED BY <1>2, <2>1, <2>2, StepsWrite DEF Tables, InviteInsert, UpdateInvitation, ResendRefresh
<1>3. ASSUME NEW r \in Requests, RoleWrite(r) PROVE DefaultInv'
  <2>1. ASSUME NEW u \in Users PROVE SameFor(u)
    <3>1. /\ member'[u] = IF Names(r, u) THEN [member[u] EXCEPT !.role = req[r].role]
                                        ELSE member[u]
          /\ member[u] \in Membership \cup {Null} /\ UNCHANGED channel
      BY <1>3 DEF RoleWrite, Inv, TablesTyped
    <3>2. req[r].role \in Roles
      BY <1>3 DEF RoleWrite, At, Inv, Sound, Remembers, RoleSteps
    <3>3. ASSUME Names(r, u)
          PROVE  member'[u] # Null /\ member[u] # Null /\ member'[u].id = member[u].id
      <4>1. member[u] \in Membership
        BY <3>1, <3>3 DEF Names, IsMember
      <4>2. member'[u] \in Membership /\ member'[u].id = member[u].id
        BY <3>1, <3>2, <3>3, <4>1 DEF Membership
      <4> QED BY <4>1, <4>2, NullAssumption
    <3> QED BY <3>1, <3>3 DEF SameFor
  <2> QED BY <1>3, <2>1, ReadersKnow, NobodyMoves
<1>4. ASSUME NEW r \in Requests, MemberStep(r) PROVE DefaultInv'
  <2>1. CASE RoleFind(r)
    BY <1>q, <2>1 DEF RoleFind, Tables
  <2> QED BY <1>3, <1>4, <2>1, RemoveFindKnows, DeleteMemberKnows, DeleteRowsKnows DEF MemberStep
<1>5. ASSUME NEW r \in Requests, ChannelStep(r) PROVE DefaultInv'
  BY <1>5, ChannelStepKnows
<1>6. CASE UNCHANGED <<member, channel, req>>
  <2>1. MembersInDefault'
    BY <1>6 DEF DefaultInv, MembersInDefault, IsMember
  <2>2. ASSUME NEW g \in Requests PROVE Knows(req[g])'
    BY <1>6 DEF DefaultInv, Knows, IsMember
  <2> QED BY <2>1, <2>2 DEF DefaultInv
<1> QED BY <1>1, <1>2, <1>4, <1>5, <1>6 DEF Next, Lapse, vars

(* If no two removals of one user overlap, every member is in the default  *)
(* channel, as the documentation says, whatever invitations, departures    *)
(* and failures fall between the statements: such an overlap is the only   *)
(* cause of what the run om_v_default shows.                               *)
THEOREM DefaultIfOneRemoval == Spec /\ []OneRemoval => []MembersInDefault
<1>1. Init => DefaultInv
  <2> SUFFICES ASSUME Init PROVE DefaultInv
    OBVIOUS
  <2>1. \A u \in Users : IsMember(u) => u = Owner
    BY DEF Init, IsMember
  <2>2. channel[Default] = [createdById |-> Owner, members |-> {Owner}]
    BY DefaultAssumption DEF Init
  <2>3. \A r \in Requests : Knows(req[r])
    BY IdleOK DEF Init, Knows
  <2> QED BY <2>1, <2>2, <2>3 DEF DefaultInv, MembersInDefault
<1>2. Inv /\ DefaultInv /\ OneRemoval /\ [Next]_vars => DefaultInv'
  BY DefaultStep
<1>3. DefaultInv => MembersInDefault
  BY DEF DefaultInv
<1> QED BY <1>1, <1>2, <1>3, InvHolds, PTL DEF Spec

-----------------------------------------------------------------------------
(* At most one pending invitation of a user, unless two invitations of him *)
(* overlap.                                                                *)

Inviting(r) == req[r].pc \in {"invite.member", "invite.insert"}
OneInvite ==
  \A q, r \in Requests : Inviting(q) /\ Inviting(r) /\ req[q].user = req[r].user => q = r
NonePending(u) == \A i \in Invitations : IsPending(i) => invitation[i].user # u
OnePending ==
  \A i, j \in Invitations :
    IsPending(i) /\ IsPending(j) /\ invitation[i].user = invitation[j].user => i = j
PendingInv ==
  /\ OnePending
  /\ \A r \in Requests : Inviting(r) => NonePending(req[r].user)

LEMMA OnlyInviteSends ==
  ASSUME Inv, [Next]_vars, NEW i \in Invitations, IsPending(i)'
  PROVE  \/ IsPending(i) /\ invitation'[i].user = invitation[i].user
         \/ \E r \in Requests : InviteInsert(r)
<1>1. ASSUME \A r \in Requests : ~InviteInsert(r)
      PROVE  InvitationsKept /\ (invitation[i] = Null => invitation'[i] = Null)
  <2>1. CASE UNCHANGED invitation
    BY <2>1 DEF InvitationsKept
  <2>2. ASSUME NEW j \in Invitations, invitation[j] # Null,
               \/ \E s \in InvitationStatus :
                    invitation' = [invitation EXCEPT ![j] = [invitation[j] EXCEPT !.status = s]]
               \/ \E l \in BOOLEAN :
                    invitation' = [invitation EXCEPT ![j] = [invitation[j] EXCEPT !.live = l]]
        PROVE  InvitationsKept /\ (invitation[i] = Null => invitation'[i] = Null)
    BY <2>2, StatusWrite DEF Inv, TablesTyped
  <2>3. ASSUME NEW r \in Requests, UpdateInvitation(r)
        PROVE  InvitationsKept /\ (invitation[i] = Null => invitation'[i] = Null)
    <3> DEFINE j == req[r].invitation
               s == IF At(r, "cancel.update") THEN "expired" ELSE "declined"
    <3>1. j \in Invitations /\ invitation[j] # Null
      BY <2>3 DEF UpdateInvitation, At, Inv, Sound, Remembers, FindsInvitation, WriteSteps,
         InvitationSteps
    <3>2. /\ s \in InvitationStatus
          /\ invitation' = [invitation EXCEPT ![j] = [invitation[j] EXCEPT !.status = s]]
      BY <2>3 DEF UpdateInvitation, InvitationStatus
    <3> HIDE DEF j, s
    <3> QED BY <2>2, <3>1, <3>2
  <2>4. ASSUME NEW r \in Requests, ResendRefresh(r)
        PROVE  InvitationsKept /\ (invitation[i] = Null => invitation'[i] = Null)
    <3> DEFINE j == req[r].invitation
    <3>1. j \in Invitations /\ invitation[j] # Null
      BY <2>4 DEF ResendRefresh, At, Inv, Sound, Remembers, FindsInvitation, WriteSteps,
         InvitationSteps
    <3>2. invitation' = [invitation EXCEPT ![j] = [invitation[j] EXCEPT !.live = TRUE]]
      BY <2>4 DEF ResendRefresh, Refreshed
    <3> HIDE DEF j
    <3> QED BY <2>2, <3>1, <3>2
  <2>5. ASSUME NEW r \in Requests, AcceptCommit(r), ~UNCHANGED Tables
        PROVE  InvitationsKept /\ (invitation[i] = Null => invitation'[i] = Null)
    <3> DEFINE j == req[r].invitation
    <3>1. j \in Invitations /\ invitation[j] # Null
      BY <2>5 DEF AcceptCommit, At, Inv, Sound, Remembers, FindsInvitation, WriteSteps,
         InvitationSteps
    <3>2. invitation' = [invitation EXCEPT ![j] = [invitation[j] EXCEPT !.status = "accepted"]]
      BY <2>5, JoinedIs
    <3>3. "accepted" \in InvitationStatus
      BY DEF InvitationStatus
    <3> HIDE DEF j
    <3> QED BY <2>2, <3>1, <3>2, <3>3
  <2>6. ASSUME NEW j \in Invitations, Lapse(j)
        PROVE  InvitationsKept /\ (invitation[i] = Null => invitation'[i] = Null)
    <3>1. /\ invitation[j] # Null
          /\ invitation' = [invitation EXCEPT ![j] = [invitation[j] EXCEPT !.live = FALSE]]
      BY <2>6 DEF Lapse, IsPending
    <3> QED BY <2>2, <3>1
  <2> QED BY <1>1, <2>1, <2>3, <2>4, <2>5, <2>6, Changes
<1>2. invitation[i] # Null /\ ~IsPending(i) => ~IsPending(i)'
  BY StepNeverPendingAgain
<1> QED BY <1>1, <1>2 DEF InvitationsKept, IsPending

(* Who is about to invite a user has found no pending invitation of him.   *)
LEMMA InvitingFound ==
  ASSUME Inv, [Next]_vars, NEW r \in Requests, Inviting(r)'
  PROVE  /\ req'[r].user = req[r].user
         /\ \/ Inviting(r)
            \/ UNCHANGED invitation /\ NonePending(req[r].user)
<1>0. req \in [Requests -> RequestState] /\ req[r] \in RequestState
  BY DEF Inv
<1>1. CASE req'[r] = req[r]
  BY <1>1 DEF Inviting
<1>2. CASE req'[r] # req[r]
  <2>1. PICK q \in Requests :
          Arrive(q) \/ InvitationStep(q) \/ MemberStep(q) \/ ChannelStep(q) \/ Abort(q)
    BY <1>2 DEF Next, Lapse, vars
  <2>2. ASSUME NEW step \in Steps \ {"invite.member", "invite.insert"}, Goto(q, step) PROVE FALSE
    BY <1>0, <1>2, <2>2, GotoOK DEF Goto, Inviting
  <2>3. ~Finish(q)
    BY <1>0, <1>2, IdleOK DEF Finish, Inviting
  <2>4. CASE Arrive(q)
    BY <1>0, <1>2, <2>4
    DEF Arrive, Invite, Cancel, Resend, UpdateRole, RemoveMember, Leave, AddMember,
        RemoveFromChannel, CreateChannel, DeleteChannel, Accept, Decline, Begin, Call, Inviting
  <2>5. ASSUME NEW step \in Steps \ {"invite.member", "invite.insert"}, NEW id, GotoWith(q, step, id)
        PROVE  FALSE
    <3> DEFINE x == [req[q] EXCEPT !.pc = step, !.id = id]
    <3>1. x.pc = step /\ req' = [req EXCEPT ![q] = x]
      BY <1>0, <2>5, RequestStateIs DEF GotoWith
    <3> HIDE DEF x
    <3> QED BY <1>0, <1>2, <3>1 DEF Inviting
  <2>6. ~InsertChannel(q)
    BY <1>0, <1>2, RequestStateIs DEF InsertChannel, Inviting
  <2>7. {"accept.commit", "cancel.update", "resend.refresh", "add.exists", "add.insert",
         "role.write", "member.delete", "channels.delete"}
          \subseteq Steps \ {"invite.member", "invite.insert"}
    BY DEF Steps, UserSteps, InvitationSteps
  <2>8. CASE MemberStep(q)
    BY <2>3, <2>5, <2>7, <2>8
    DEF MemberStep, RoleFind, RoleWrite, RemoveFind, DeleteMember, DeleteFromChannels
  <2>9. CASE ChannelStep(q)
    BY <2>2, <2>3, <2>6, <2>7, <2>9
    DEF ChannelStep, AddFindMember, AddFindExisting, AddInsert, RemoveChannelMember, RemoveChannel
  <2>10. CASE InvitationStep(q)
    <3>1. InvitePending(q) \/ InviteMember(q)
      BY <2>2, <2>3, <2>7, <2>10
      DEF InvitationStep, InviteInsert, AcceptMember, AcceptCommit, CancelFind,
          UpdateInvitation, ResendFind, ResendRefresh
    <3>2. q = r
      BY <1>0, <1>2, <3>1 DEF InvitePending, InviteMember, Finish, Goto
    <3>3. {"invite.member", "invite.insert"} \subseteq Steps
      BY DEF Steps, UserSteps
    <3>4. PICK step \in {"invite.member", "invite.insert"} : Goto(r, step)
      BY <2>3, <3>1, <3>2 DEF InvitePending, InviteMember
    <3>5. req'[r].user = req[r].user
      BY <1>0, <3>3, <3>4, GotoOK DEF Goto
    <3>6. CASE InviteMember(q)
      BY <3>2, <3>5, <3>6 DEF InviteMember, At, Inviting
    <3>7. CASE InvitePending(q)
      BY <2>3, <3>2, <3>5, <3>7 DEF InvitePending, Tables, NonePending
    <3> QED BY <3>1, <3>6, <3>7
  <2> QED BY <2>1, <2>3, <2>4, <2>8, <2>9, <2>10 DEF Abort
<1> QED BY <1>1, <1>2

LEMMA PendingStep ==
  ASSUME Inv, PendingInv, OneInvite, [Next]_vars
  PROVE  PendingInv'
<1>0. invitation \in [Invitations -> Invitation \cup {Null}] /\ req \in [Requests -> RequestState]
  BY DEF Inv, TablesTyped
<1>1. CASE \A r \in Requests : ~InviteInsert(r)
  <2>1. \A i \in Invitations :
          IsPending(i)' => IsPending(i) /\ invitation'[i].user = invitation[i].user
    BY <1>1, OnlyInviteSends
  <2>2. OnePending'
    BY <2>1 DEF PendingInv, OnePending
  <2>3. ASSUME NEW r \in Requests, Inviting(r)' PROVE NonePending(req[r].user)'
    <3>1. req'[r].user = req[r].user /\ NonePending(req[r].user)
      BY <2>3, InvitingFound DEF PendingInv
    <3> QED BY <2>1, <3>1 DEF NonePending
  <2> QED BY <2>2, <2>3 DEF PendingInv
<1>2. ASSUME NEW r \in Requests, InviteInsert(r) PROVE PendingInv'
  <2>u. PICK u : u = req[r].user
    OBVIOUS
  <2>1. PICK i \in Invitations :
          /\ invitation[i] = Null /\ invitation'[i].user = u
          /\ \A j \in Invitations \ {i} : invitation'[j] = invitation[j]
    <3>1. PICK i \in Invitations :
            /\ invitation[i] = Null
            /\ invitation' = [invitation EXCEPT ![i] =
                                [user |-> u, role |-> req[r].role,
                                 status |-> "pending", live |-> TRUE]]
      BY <1>2, <2>u DEF InviteInsert
    <3> QED BY <1>0, <3>1
  <2>2. Inviting(r) /\ NonePending(u)
    BY <1>2, <2>u DEF InviteInsert, At, Inviting, PendingInv
  <2>3. \A j \in Invitations \ {i} : IsPending(j)' => IsPending(j) /\ invitation'[j].user # u
    BY <2>1, <2>2 DEF NonePending, IsPending
  <2>4. OnePending'
    BY <2>1, <2>3 DEF PendingInv, OnePending
  <2>5. ASSUME NEW q \in Requests, Inviting(q)' PROVE NonePending(req[q].user)'
    <3>1. q # r
      BY <1>0, <1>2, <2>5, IdleOK DEF InviteInsert, Finish, Inviting
    <3>2. req'[q] = req[q]
      BY <1>0, <1>2, <3>1 DEF InviteInsert, Finish
    <3>3. Inviting(q) /\ NonePending(req[q].user)
      BY <2>5, <3>2 DEF Inviting, PendingInv
    <3>4. req[q].user # u
      BY <2>u, <2>2, <3>1, <3>3 DEF OneInvite
    <3> QED BY <2>1, <2>3, <3>2, <3>3, <3>4 DEF NonePending
  <2> QED BY <2>4, <2>5 DEF PendingInv
<1> QED BY <1>1, <1>2

(* A user never has two pending invitations, unless two managers invite    *)
(* him at once: no resending, cancelling, declining or failure in between  *)
(* makes a second one.  The check and the INSERT are two statements        *)
(* (invitations.service.ts:46, 76), and no unique index stands behind them.*)
THEOREM OnePendingIfSerial == Spec /\ []OneInvite => []OnePending
<1>1. Init => PendingInv
  BY IdleOK DEF Init, PendingInv, OnePending, IsPending, Inviting
<1>2. Inv /\ PendingInv /\ OneInvite /\ [Next]_vars => PendingInv'
  BY PendingStep
<1>3. PendingInv => OnePending
  BY DEF PendingInv
<1> QED BY <1>1, <1>2, <1>3, InvHolds, PTL DEF Spec
=============================================================================
