--------------------------- MODULE ListCacheProofs --------------------------
(***************************************************************************)
(* Theorems about ListCache, for any numbers of requests and changes: its  *)
(* types, and that only an overlap leaves an older page in the cache.      *)
(***************************************************************************)
EXTENDS ListCache, TLAPS

(* What a reader about to store a page knows to be finished is in the page.*)
PageHasKnown ==
  \A r \in Tasks : Waits(r, "store") =>
    \A v \in task[r].known : v <= task[r].version

CacheInv == CacheTypeOK /\ PageHasKnown /\ StaleOnlyByOverlap

(* Aging changes neither the page nor its history, and ends its life.      *)
LEMMA AgedKey ==
  ASSUME CacheTypeOK, cached # Empty
  PROVE  /\ Aged(cached) \in Key \cup {Empty}
         /\ Aged(cached) # Empty =>
              Aged(cached).page = cached.page /\ Aged(cached).late = cached.late
BY TtlAssumption, SMT DEF CacheTypeOK, Aged, Key, Empty, Versions

LEMMA CacheInitInv == CacheInit => CacheInv
BY SMT DEF CacheInit, CacheInv, CacheTypeOK, PageHasKnown, StaleOnlyByOverlap,
  Versions, Waits, NoTask

(* A step that changes the requests alone, or the table too, and keeps the *)
(* types, keeps the rest if no reader comes to store a page.               *)
LEMMA CacheKept ==
  ASSUME CacheInv, UNCHANGED <<cached, finished>>,
         \A r \in Tasks : task'[r] = task[r] \/ ~Waits(r, "store")'
  PROVE  PageHasKnown' /\ StaleOnlyByOverlap'
BY SMT DEF CacheInv, PageHasKnown, StaleOnlyByOverlap, Waits

LEMMA CacheStepInv == CacheInv /\ [CacheNext]_cacheVars => CacheInv'
<1> SUFFICES ASSUME CacheInv, [CacheNext]_cacheVars PROVE CacheInv'
  OBVIOUS
<1> USE DEF CacheInv
<1> DEFINE States == Task \cup {NoTask, [NoTask EXCEPT !.pc = "query"]}
<1>t. /\ list \in {"programs", "members"} /\ table \in Nat
      /\ cached \in Key \cup {Empty} /\ finished \in SUBSET Versions
      /\ task \in [Tasks -> States]
  BY DEF CacheTypeOK
<1>1. ASSUME NEW r \in Tasks, Miss(r) PROVE CacheInv'
  <2>0. task' = [task EXCEPT ![r] = [pc |-> "query", version |-> -1, known |-> {}]]
    BY <1>1 DEF Miss, Continue
  <2>a. [pc |-> "query", version |-> -1, known |-> {}] \in States
    BY DEF NoTask
  <2>b. States' = States /\ Versions' = Versions /\ Key' = Key
    BY <1>1 DEF Miss, Versions, Task, Key, NoTask
  <2>c. task' \in [Tasks -> States]
    BY <1>t, <2>0, <2>a
  <2>1. CacheTypeOK'
    BY <1>1, <1>t, <2>b, <2>c DEF Miss, CacheTypeOK
  <2>2. \A q \in Tasks : task'[q] = task[q] \/ ~Waits(q, "store")'
    BY <1>1, SMT DEF Miss, Continue, Waits
  <2> QED BY <1>1, <2>1, <2>2, CacheKept DEF Miss
<1>2. ASSUME NEW r \in Tasks, QueryPage(r) PROVE CacheInv'
  <2>1. task' = [task EXCEPT ![r] = [pc |-> "store", version |-> table, known |-> finished]]
    BY <1>2 DEF QueryPage, Continue
  <2>2. CacheTypeOK'
    BY <1>2, <1>t, <2>1, SMT DEF QueryPage, CacheTypeOK, Versions, Key, Task, NoTask
  <2>3. PageHasKnown'
    BY <1>2, <1>t, <2>1, SMT DEF QueryPage, PageHasKnown, Waits, Versions
  <2> QED BY <1>2, <2>2, <2>3, SMT DEF QueryPage, StaleOnlyByOverlap
<1>3. ASSUME NEW r \in Tasks, StorePage(r) PROVE CacheInv'
  <2>1. cached' = [page |-> task[r].version, left |-> Ttl, late |-> finished \ task[r].known]
    BY <1>3 DEF StorePage, Lifetime
  <2>2. task[r] \in Task
    BY <1>3, <1>t, SMT DEF StorePage, Waits, NoTask
  <2>3. cached' \in Key
    BY <1>t, <2>1, <2>2, TtlAssumption, SMT DEF Key, Task, Versions
  <2>4. CacheTypeOK'
    BY <1>3, <1>t, <2>3, SMT DEF StorePage, CacheTypeOK, Ends, Versions, Key, Task, NoTask
  <2>5. PageHasKnown'
    BY <1>3, SMT DEF StorePage, PageHasKnown, Waits, Ends, NoTask
  <2>6. StaleOnlyByOverlap'
    <3> SUFFICES ASSUME NEW v \in finished, task[r].version < v
                 PROVE  v \notin task[r].known
      BY <1>3, <2>1, SMT DEF StorePage, StaleOnlyByOverlap
    <3>1. \A w \in task[r].known : w <= task[r].version
      BY <1>3 DEF StorePage, PageHasKnown
    <3> QED BY <3>1, <1>t, <2>2, SMT DEF Versions, Task
  <2> QED BY <2>4, <2>5, <2>6
<1>4. ASSUME NEW r \in Tasks, ChangeList(r) PROVE CacheInv'
  <2>1. PICK version \in {table, table + 1} :
          /\ table' = version
          /\ \/ task' = [task EXCEPT ![r] = [pc |-> "invalidate", version |-> version, known |-> {}]]
             \/ task' = [task EXCEPT ![r] = [pc |-> "channels", version |-> version, known |-> {}]]
    BY <1>4 DEF ChangeList, Continue
  <2>2. /\ table' \in Nat /\ Versions \subseteq Versions'
        /\ version \in Versions' /\ list' = list /\ UNCHANGED <<cached, finished>>
    BY <1>4, <1>t, <2>1, SMT DEF ChangeList, Versions
  <2>3. /\ Key \subseteq Key' /\ Task \subseteq Task'
        /\ [pc |-> "invalidate", version |-> version, known |-> {}] \in Task'
        /\ [pc |-> "channels", version |-> version, known |-> {}] \in Task'
    BY <2>2, SMT DEF Key, Task
  <2>a. task' \in [Tasks -> States']
    BY <1>t, <2>1, <2>3
  <2>b. cached \in Key' \cup {Empty} /\ finished \in SUBSET Versions'
    BY <1>t, <2>2, <2>3
  <2>4. CacheTypeOK'
    BY <1>t, <2>2, <2>a, <2>b DEF CacheTypeOK
  <2>5. \A q \in Tasks : task'[q] = task[q] \/ ~Waits(q, "store")'
    BY <1>t, <2>1, SMT DEF Waits
  <2> QED BY <2>2, <2>4, <2>5, CacheKept
<1>5. ASSUME NEW r \in Tasks, RemoveFromChannels(r) PROVE CacheInv'
  <2>1. task' = [task EXCEPT ![r] = [pc |-> "invalidate", version |-> task[r].version, known |-> {}]]
    BY <1>5 DEF RemoveFromChannels, Continue
  <2>2. task[r] \in Task
    BY <1>5, <1>t, SMT DEF RemoveFromChannels, Waits, NoTask
  <2>3. CacheTypeOK'
    BY <1>5, <1>t, <2>1, <2>2, SMT
       DEF RemoveFromChannels, CacheTypeOK, Versions, Key, Task, NoTask
  <2>4. \A q \in Tasks : task'[q] = task[q] \/ ~Waits(q, "store")'
    BY <2>1, SMT DEF Waits
  <2> QED BY <1>5, <2>3, <2>4, CacheKept DEF RemoveFromChannels
<1>6. ASSUME NEW r \in Tasks, Invalidate(r) PROVE CacheInv'
  <2>1. task[r] \in Task
    BY <1>6, <1>t, SMT DEF Invalidate, Waits, NoTask
  <2>2. CacheTypeOK'
    BY <1>6, <1>t, <2>1, SMT
       DEF Invalidate, CacheTypeOK, Ends, Versions, Key, Task, NoTask
  <2>3. PageHasKnown'
    BY <1>6, SMT DEF Invalidate, PageHasKnown, Waits, Ends, NoTask
  <2> QED BY <1>6, <2>2, <2>3, SMT DEF Invalidate, StaleOnlyByOverlap
<1>7. ASSUME NEW r \in Tasks, AbortTask(r) PROVE CacheInv'
  <2>1. CacheTypeOK'
    BY <1>7, <1>t, SMT DEF AbortTask, CacheTypeOK, Ends, Versions, Key, Task, NoTask
  <2>2. \A q \in Tasks : task'[q] = task[q] \/ ~Waits(q, "store")'
    BY <1>7, SMT DEF AbortTask, Ends, Waits, NoTask
  <2> QED BY <1>7, <2>1, <2>2, CacheKept DEF AbortTask
<1>8. ASSUME UpdateProfile PROVE CacheInv'
  <2>1. /\ table' \in Nat /\ Versions \subseteq Versions'
        /\ UNCHANGED <<list, cached, finished, task>>
    BY <1>8, <1>t, SMT DEF UpdateProfile, Versions
  <2>2. Key \subseteq Key' /\ Task \subseteq Task'
    BY <2>1, SMT DEF Key, Task
  <2>3. CacheTypeOK'
    BY <1>t, <2>1, <2>2, SMT DEF CacheTypeOK
  <2> QED BY <2>1, <2>3, CacheKept
<1>9. ASSUME KeyAges PROVE CacheInv'
  <2>1. /\ cached' \in Key \cup {Empty}
        /\ cached' # Empty => cached'.page = cached.page /\ cached'.late = cached.late
    BY <1>9, AgedKey DEF KeyAges
  <2>2. CacheTypeOK'
    BY <1>9, <1>t, <2>1, SMT DEF KeyAges, CacheTypeOK, Versions, Key, Task
  <2>3. PageHasKnown'
    BY <1>9, SMT DEF KeyAges, PageHasKnown, Waits
  <2> QED BY <1>9, <2>1, <2>2, <2>3, SMT DEF KeyAges, StaleOnlyByOverlap
<1>10. ASSUME KeyLost PROVE CacheInv'
  BY <1>10, <1>t, SMT DEF KeyLost, CacheTypeOK, PageHasKnown, StaleOnlyByOverlap,
     Waits, Versions, Key, Task
<1>11. ASSUME UNCHANGED cacheVars PROVE CacheInv'
  BY <1>11, <1>t, SMT DEF cacheVars, CacheTypeOK, PageHasKnown, StaleOnlyByOverlap,
     Waits, Versions, Key, Task
<1> QED
  BY <1>1, <1>2, <1>3, <1>4, <1>5, <1>6, <1>7, <1>8, <1>9, <1>10, <1>11
     DEF CacheNext, Goes

LEMMA CacheInvariant == CacheSpec => []CacheInv
BY CacheInitInv, CacheStepInv, PTL DEF CacheSpec

(* The key, the requests and the history keep their types, for any number  *)
(* of requests (programs.service.ts:52-85, memberships.service.ts:42-72).  *)
THEOREM CacheTypeCorrect == CacheSpec => []CacheTypeOK
<1>1. CacheInv => CacheTypeOK
  BY DEF CacheInv
<1> QED BY <1>1, CacheInvariant, PTL

(* Only a page queried before a writer deleted the key and stored after    *)
(* can hide his change (programs.service.ts:69-81, 124).                   *)
THEOREM StaleOnlyByOverlapHolds == CacheSpec => []StaleOnlyByOverlap
<1>1. CacheInv => StaleOnlyByOverlap
  BY DEF CacheInv
<1> QED BY <1>1, CacheInvariant, PTL
=============================================================================
