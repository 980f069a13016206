------------------------------ MODULE ListCache -----------------------------
(***************************************************************************)
(* The cached first page of an organization's programs, or of its members  *)
(* (programs.service.ts, memberships.service.ts): a reader that misses     *)
(* queries the table and stores the page in Redis with a lifetime; who     *)
(* changes the table deletes the key afterwards, in a statement of its own.*)
(*                                                                         *)
(* The table is known by its version, a page by the table's version when   *)
(* the first statement of its query ran.  Pages other than the first and   *)
(* filtered lists touch the key neither way and are left out.              *)
(***************************************************************************)
EXTENDS Integers

CONSTANTS
  Tasks,         \* request slots: a slot serves one request at a time
  Ttl,           \* PROGRAMS_CACHE_TTL, MEMBERS_CACHE_TTL
  MaxVersion     \* bound on how often the table changes

ASSUME TtlAssumption == Ttl \in Nat \ {0}

VARIABLES
  list,          \* "programs" or "members": which list it is, fixed from the start
  table,         \* the version of the table
  cached,        \* the key: the page it holds and its lifetime, or Empty
  task,          \* task[r]: where request r stands, and the version it has read or written
  finished       \* versions whose writer has deleted the key: history

cacheVars == <<list, table, cached, task, finished>>

(* late, the versions finished between the query and the storing of a      *)
(* page, and known, those finished before its query, are history.          *)
Empty == [page |-> -1, left |-> 0, late |-> {}]
NoTask == [pc |-> "idle", version |-> -1, known |-> {}]

CacheInit ==
  /\ list \in {"programs", "members"}
  /\ table = 0
  /\ cached = Empty
  /\ task = [r \in Tasks |-> NoTask]
  /\ finished = {}

Waits(r, step) == task[r].pc = step
Ends(r) == task' = [task EXCEPT ![r] = NoTask]
Continue(r, step, version, known) ==
  task' = [task EXCEPT ![r] = [pc |-> step, version |-> version, known |-> known]]

-----------------------------------------------------------------------------
(* Readers: listByOrgPaginated, findAllByOrgPaginated.                     *)

(* GET misses; a hit is answered and changes nothing.                      *)
Miss(r) ==
  /\ Waits(r, "idle")
  /\ cached = Empty
  /\ Continue(r, "query", -1, {})
  /\ UNCHANGED <<list, table, cached, finished>>

(* findAndCount                                                            *)
QueryPage(r) ==
  /\ Waits(r, "query")
  /\ Continue(r, "store", table, finished)
  /\ UNCHANGED <<list, table, cached, finished>>

(* Mutant: the lifetime is given in milliseconds.                          *)
LifetimeInMilliseconds == 1000 * Ttl

(* SET with EX                                                             *)
Lifetime == Ttl
StorePage(r) ==
  /\ Waits(r, "store")
  /\ cached' = [page |-> task[r].version, left |-> Lifetime,
                late |-> finished \ task[r].known]
  /\ Ends(r)
  /\ UNCHANGED <<list, table, finished>>

-----------------------------------------------------------------------------
(* Writers.                                                                *)

(* Mutant: a change does not delete the key.                               *)
ChangeListOnly(r) ==
  /\ Waits(r, "idle")
  /\ table < MaxVersion
  /\ table' = table + 1
  /\ finished' = finished \cup {table'}
  /\ UNCHANGED <<list, cached, task>>

(* The statement or transaction that changes the list: create, update and  *)
(* delete of a program; updateRole, removeMember and leave of a membership,*)
(* and an accepted invitation.  It may find its row gone.  A removal goes  *)
(* on with the rows of the user's channels.                                *)
ChangeList(r) ==
  /\ Waits(r, "idle")
  /\ \E version \in {table, table + 1} :
       /\ version <= MaxVersion
       /\ table' = version
       /\ \/ Continue(r, "invalidate", version, {})
          \/ list = "members" /\ Continue(r, "channels", version, {})
  /\ UNCHANGED <<list, cached, finished>>

RemoveFromChannels(r) ==
  /\ Waits(r, "channels")
  /\ Continue(r, "invalidate", task[r].version, {})
  /\ UNCHANGED <<list, table, cached, finished>>

(* invalidateProgramsCache, invalidateMembersCache: DEL                    *)
Invalidate(r) ==
  /\ Waits(r, "invalidate")
  /\ cached' = Empty
  /\ finished' = finished \cup {task[r].version}
  /\ Ends(r)
  /\ UNCHANGED <<list, table>>

(* updateProfile: the members' page shows their names; nobody deletes the  *)
(* key.                                                                    *)
UpdateProfile ==
  /\ list = "members"
  /\ table < MaxVersion
  /\ table' = table + 1
  /\ UNCHANGED <<list, cached, task, finished>>

-----------------------------------------------------------------------------
(* A statement or command fails, or the process dies.                      *)
AbortTask(r) ==
  /\ ~Waits(r, "idle")
  /\ Ends(r)
  /\ UNCHANGED <<list, table, cached, finished>>

(* Mutant: the key is stored without a lifetime.                           *)
Unaged(entry) == entry

(* A unit of time passes for the key, and it is gone at the end.           *)
Aged(entry) ==
  IF entry.left = 1 THEN Empty ELSE [entry EXCEPT !.left = @ - 1]
KeyAges ==
  /\ cached # Empty
  /\ cached' = Aged(cached)
  /\ UNCHANGED <<list, table, task, finished>>

(* Redis starts again without the key, or evicts it.                       *)
KeyLost ==
  /\ cached # Empty
  /\ cached' = Empty
  /\ UNCHANGED <<list, table, task, finished>>

Goes(r) == QueryPage(r) \/ StorePage(r) \/ RemoveFromChannels(r) \/ Invalidate(r)

CacheNext ==
  \/ \E r \in Tasks : Miss(r) \/ ChangeList(r) \/ Goes(r) \/ AbortTask(r)
  \/ UpdateProfile
  \/ KeyAges
  \/ KeyLost

CacheSpec == CacheInit /\ [][CacheNext]_cacheVars

(* A request that has begun goes on, and the key's lifetime runs off.      *)
CacheFairness ==
  /\ \A r \in Tasks : WF_cacheVars(Goes(r))
  /\ WF_cacheVars(KeyAges)

-----------------------------------------------------------------------------
(* Properties.                                                             *)

(* The key, the requests and the history have their types; no page is of a *)
(* later version than the table.                                           *)
Versions == 0 .. table
Key == [page : Versions, left : 1 .. Ttl, late : SUBSET Versions]
Task == [pc : {"store", "channels", "invalidate"}, version : Versions,
         known : SUBSET Versions]
CacheTypeOK ==
  /\ list \in {"programs", "members"}
  /\ table \in Nat
  /\ cached \in Key \cup {Empty}
  /\ task \in [Tasks -> Task \cup {NoTask, [NoTask EXCEPT !.pc = "query"]}]
  /\ finished \in SUBSET Versions

(* Once a writer has deleted the key, readers are shown his change, unless *)
(* the page they are shown was queried before he had deleted the key and   *)
(* stored after (programs.service.ts:69-81, memberships.service.ts:56-69): *)
(* no other order of readers and writers leaves an older page behind.      *)
StaleOnlyByOverlap ==
  cached # Empty =>
    \A v \in finished : cached.page < v => v \in cached.late

(* Whatever is changed, finished or not, is at last in every page readers  *)
(* are shown (programs.service.ts:77-81, redis.service.ts:22-24): the      *)
(* lifetime makes up for invalidations that were overtaken, failed or      *)
(* never sent.                                                             *)
ShowsVersion(v) == cached = Empty \/ cached.page >= v
ChangesShow == \A v \in 1 .. MaxVersion : table >= v ~> []ShowsVersion(v)
=============================================================================
