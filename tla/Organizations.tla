---------------------------- MODULE Organizations --------------------------
(***************************************************************************)
(* Founding, renaming and deleting organizations (organizations.service.ts *)
(* and the guard before it).  An organization is addressed by its slug;    *)
(* the handler works with the row the guard has read.                      *)
(*                                                                         *)
(* Only verified users found organizations; as isVerified is never taken   *)
(* back, they are a constant.  A member's role, which OrgMembership        *)
(* models, may be anything when the guard looks it up, except that the     *)
(* owner is the owner.  Names and descriptions are left out.               *)
(***************************************************************************)
CONSTANTS
  Managers,      \* verified users: whoever founds, or helps to run, organizations
  OrgIds,        \* ids: a bound on how many organizations are ever founded
  Slugs,         \* slugs
  Calls,         \* request slots: a slot serves one call at a time
  NoOrg          \* no row

VARIABLES
  organization,  \* organization[o]: the row, or NoOrg
  call,          \* call[r]: where request r stands and what it remembers
  chosen         \* chosen[o]: the slugs its owner has given it: history

organizationVars == <<organization, call, chosen>>

Row == [slug : Slugs, owner : Managers]
ASSUME NoOrgAssumption == NoOrg \notin Row

(* slug: the one to be stored; org: the row the guard has read.            *)
NoCall == [pc |-> "idle", user |-> NoOrg, id |-> NoOrg, slug |-> NoOrg, org |-> NoOrg]

OrganizationsInit ==
  /\ organization = [o \in OrgIds |-> NoOrg]
  /\ call = [r \in Calls |-> NoCall]
  /\ chosen = [o \in OrgIds |-> {}]

Awaits(r, step) == call[r].pc = step
Proceeds(r, step) == call' = [call EXCEPT ![r].pc = step]
Answers(r) == call' = [call EXCEPT ![r] = NoCall]

Exists(o) == organization[o] # NoOrg
Taken(s) == \E o \in OrgIds : Exists(o) /\ organization[o].slug = s

-----------------------------------------------------------------------------
(* Founding.                                                               *)

FoundAs(r, u, s, step) ==
  /\ Awaits(r, "idle")
  /\ call' = [call EXCEPT ![r] =
       [pc |-> step, user |-> u, id |-> NoOrg, slug |-> s, org |-> NoOrg]]
  /\ UNCHANGED <<organization, chosen>>

(* create, with a slug or with a name to derive one from.                  *)
CreateOrganization(r, u, s) ==
  FoundAs(r, u, s, "create.taken") \/ FoundAs(r, u, s, "create.derive")

(* generateUniqueSlug tries the name and up to ten random endings, and     *)
(* returns the last one even if that is taken as well.                     *)
GenerateUniqueSlug(r) ==
  /\ Awaits(r, "create.derive")
  /\ \/ Proceeds(r, "create.insert")
     \/ /\ Taken(call[r].slug)
        /\ \E s \in Slugs : call' = [call EXCEPT ![r].slug = s]
  /\ UNCHANGED <<organization, chosen>>

FindTaken(r) ==
  /\ Awaits(r, "create.taken")
  /\ IF Taken(call[r].slug) THEN Answers(r) ELSE Proceeds(r, "create.insert")
  /\ UNCHANGED <<organization, chosen>>

(* The slug is unique.  An id is not drawn twice.                          *)
InsertOrganization(r) ==
  LET s == call[r].slug IN
  /\ Awaits(r, "create.insert")
  /\ IF Taken(s)
       THEN UNCHANGED <<organization, chosen>>
       ELSE \E o \in OrgIds :
              /\ chosen[o] = {}
              /\ organization' = [organization EXCEPT ![o] = [slug |-> s, owner |-> call[r].user]]
              /\ chosen' = [chosen EXCEPT ![o] = {s}]
  /\ Answers(r)

-----------------------------------------------------------------------------
(* Renaming and deleting.                                                  *)

(* The guard finds the organization by the slug in the URL ...             *)
Guard(r, u, o, s, step) ==
  /\ Awaits(r, "idle")
  /\ Exists(o)
  /\ call' = [call EXCEPT ![r] =
       [pc |-> step, user |-> u, id |-> o, slug |-> s, org |-> organization[o]]]
  /\ UNCHANGED <<organization, chosen>>
UpdateOrganization(r, u, o, s) == Guard(r, u, o, s, "update.guard")
DeleteOrganization(r, u, o) == Guard(r, u, o, organization[o].slug, "delete.guard")

(* Mutant: whoever manages the organization may change its slug.           *)
MayRenameAnyway(r) == TRUE

(* ... and then the caller's membership, which is gone with the            *)
(* organization.  The handler compares the slug with that in the row read. *)
Keeps(r) == call[r].slug = call[r].org.slug
MayRename(r) == call[r].org.owner = call[r].user
UpdateGuard(r) ==
  /\ Awaits(r, "update.guard")
  /\ CASE Exists(call[r].id) /\ Keeps(r) -> Proceeds(r, "update.write")
       [] Exists(call[r].id) /\ ~Keeps(r) /\ MayRename(r) -> Proceeds(r, "update.taken")
       [] OTHER -> Answers(r)
  /\ UNCHANGED <<organization, chosen>>

UpdateTaken(r) ==
  /\ Awaits(r, "update.taken")
  /\ IF Taken(call[r].slug) THEN Answers(r) ELSE Proceeds(r, "update.write")
  /\ UNCHANGED <<organization, chosen>>

(* The UPDATE by id stores the slug if the request has one; it fails if    *)
(* another organization has it, and does nothing if the row is gone.       *)
UpdateWrite(r) ==
  LET o == call[r].id
      s == call[r].slug
  IN
  /\ Awaits(r, "update.write")
  /\ IF Exists(o) /\ ~(\E p \in OrgIds \ {o} : Exists(p) /\ organization[p].slug = s)
       THEN /\ organization' = [organization EXCEPT ![o].slug = s]
            /\ chosen' = IF call[r].user = organization[o].owner
                           THEN [chosen EXCEPT ![o] = @ \cup {s}] ELSE chosen
       ELSE UNCHANGED <<organization, chosen>>
  /\ Answers(r)

DeleteGuard(r) ==
  /\ Awaits(r, "delete.guard")
  /\ IF Exists(call[r].id) /\ call[r].user = call[r].org.owner
       THEN Proceeds(r, "delete.write") ELSE Answers(r)
  /\ UNCHANGED <<organization, chosen>>

(* Memberships, channels and all else go with it.                          *)
DeleteWrite(r) ==
  /\ Awaits(r, "delete.write")
  /\ organization' = [organization EXCEPT ![call[r].id] = NoOrg]
  /\ Answers(r)
  /\ UNCHANGED chosen

AbandonCall(r) ==
  /\ ~Awaits(r, "idle")
  /\ Answers(r)
  /\ UNCHANGED <<organization, chosen>>

Asks(r) ==
  \E u \in Managers :
    \/ \E s \in Slugs : CreateOrganization(r, u, s)
    \/ \E o \in OrgIds, s \in Slugs : UpdateOrganization(r, u, o, s)
    \/ \E o \in OrgIds : DeleteOrganization(r, u, o)
Writes(r) ==
  \/ GenerateUniqueSlug(r) \/ FindTaken(r) \/ InsertOrganization(r)
  \/ UpdateGuard(r) \/ UpdateTaken(r) \/ UpdateWrite(r)
  \/ DeleteGuard(r) \/ DeleteWrite(r)

OrganizationsNext == \E r \in Calls : Asks(r) \/ Writes(r) \/ AbandonCall(r)

OrganizationsSpec == OrganizationsInit /\ [][OrganizationsNext]_organizationVars

-----------------------------------------------------------------------------
(* Properties.                                                             *)

(* An organization has no slug but those its owner has given it, however   *)
(* late others' changes of it are (organizations.service.ts:104-120).  It  *)
(* need not be the last one: an administrator who sends the slug his guard *)
(* read undoes a renaming in between.                                      *)
SlugsAreOwners ==
  \A o \in OrgIds : Exists(o) => organization[o].slug \in chosen[o]
=============================================================================
