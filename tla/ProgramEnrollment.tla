-------------------------- MODULE ProgramEnrollment -------------------------
(***************************************************************************)
(* Programs and enrollments of one organization (programs.service.ts,      *)
(* programs.repository.ts, enrollments.service.ts,                         *)
(* enrollments.repository.ts) as concurrent HTTP requests see them.        *)
(*                                                                         *)
(* Each request runs its handler one database statement at a time: between *)
(* two awaits any other request may run.  Postgres executes a statement    *)
(* atomically (READ COMMITTED); the only lock held across statements is    *)
(* the FOR UPDATE lock of enroll's transaction on the program row.  A      *)
(* transaction with one writing statement is one step.                     *)
(*                                                                         *)
(* TypeORM's save(entity), used with an id, is two steps, as in the        *)
(* library: it first SELECTs the row and notes the columns in which the    *)
(* entity differs from it; then it UPDATEs those columns, or INSERTs the   *)
(* entity when it found no row.                                            *)
(***************************************************************************)
EXTENDS Naturals, FiniteSets

CONSTANTS
  Requests,      \* request slots of the API: a slot serves one call at a time
  Programs,      \* program ids
  Members,       \* users with the role MEMBER
  Mentors,       \* users with the role MENTOR
  Managers,      \* users with the role OWNER or ADMIN
  Ids,           \* enrollment ids; one may serve again once nobody knows it
  Stamps,        \* instants of completion, reused in the same way
  Capacities,    \* capacities clients send, with Null for "unlimited"
  Null,          \* the null of a column, and what findOne returns for no row
  Undefined      \* a field left out of an update's body

ProgramStatus == {"draft", "active", "completed", "cancelled"}
EnrollmentStatus == {"active", "completed", "dropped"}

ProgramRow ==
  [status : ProgramStatus, capacity : Capacities,
   createdById : Mentors \cup Managers]
EnrollmentRow ==
  [id : Ids, status : EnrollmentStatus, completedAt : Stamps \cup {Null}]

ASSUME RowAssumption == Null \notin ProgramRow \cup EnrollmentRow
ASSUME CapacityAssumption ==
  Null \notin Nat /\ Capacities \subseteq (Nat \ {0}) \cup {Null}
ASSUME UndefinedAssumption ==
  Undefined \notin Capacities /\ Undefined \notin ProgramStatus
ASSUME RequestAssumption == Null \notin Requests
ASSUME StampAssumption == Null \notin Stamps
ASSUME MemberAssumption == IsFiniteSet(Members)

(* VALID_TRANSITIONS: completed and cancelled have no entry.               *)
ValidTransitions ==
  [s \in ProgramStatus |->
     CASE s = "draft"  -> {"active", "cancelled"}
       [] s = "active" -> {"completed", "cancelled"}
       [] OTHER        -> {}]

(* UpdateProgramDto, as far as the fields modelled go.                     *)
UpdateProgramDto ==
  [status : ProgramStatus \cup {Undefined},
   capacity : Capacities \cup {Undefined}]

VARIABLES
  program,       \* program[p]: the row of table programs, or Null
  enrollment,    \* enrollment[p][u]: the row of table enrollments, or Null
                 \* (one at most: UNIQUE (userId, programId))
  lock,          \* lock[p]: the request whose transaction holds the row
                 \* lock FOR UPDATE on program p, or Null
  req            \* req[r]: where request r stands and what it remembers

vars == <<program, enrollment, lock, req>>

(* held: the entity the handler works on; diff: the columns save() is to   *)
(* UPDATE, or Null when it is to INSERT.                                   *)
Idle == [pc |-> "idle", program |-> Null, user |-> Null,
         held |-> Null, diff |-> Null]

EnrollSteps  == {"lock", "count", "exists", "insert"}
LockedSteps  == {"count", "exists", "insert"}
ProgramSteps == {"program.load", "program.save", "program.remove"}
EnrollmentSteps == {"enrollment.load", "enrollment.save", "enrollment.remove"}

Init ==
  /\ program = [p \in Programs |-> Null]
  /\ enrollment = [p \in Programs |-> [u \in Members |-> Null]]
  /\ lock = [p \in Programs |-> Null]
  /\ req = [r \in Requests |-> Idle]

-----------------------------------------------------------------------------
(* Requests.                                                               *)

At(r, step) == req[r].pc = step

Begin(r, step, p, u, held) ==
  /\ At(r, "idle")
  /\ req' = [req EXCEPT ![r] = [pc |-> step, program |-> p, user |-> u,
                                held |-> held, diff |-> Null]]

Goto(r, step, held, diff) ==
  req' = [req EXCEPT ![r] = [pc |-> step, program |-> req[r].program,
                             user |-> req[r].user, held |-> held, diff |-> diff]]

Finish(r) == req' = [req EXCEPT ![r] = Idle]

(* The end of enroll's transaction, commit or rollback.                    *)
Unlock(r) ==
  lock' = [p \in Programs |-> IF lock[p] = r THEN Null ELSE lock[p]]

-----------------------------------------------------------------------------
(* Rows.                                                                   *)

IsActive(row) == row # Null /\ row.status = "active"

ActiveEnrollments(p) == {u \in Members : IsActive(enrollment[p][u])}

(* Mutant: the limit itself still admits one more.                         *)
HasCapacityOffByOne(row, count) == row.capacity = Null \/ count <= row.capacity

HasCapacity(row, count) == row.capacity = Null \/ count < row.capacity

(* save()'s SELECT: the columns in which the entity differs from the row.  *)
DiffColumns(row, entity, columns) ==
  IF row = Null THEN Null ELSE {c \in columns : entity[c] # row[c]}

(* What the program draws anew, a uuid or the time of day, is a value that *)
(* nobody remembers.                                                       *)
Editing(p, u) ==
  {r \in Requests : /\ req[r].pc \in EnrollmentSteps
                    /\ req[r].program = p
                    /\ req[r].user = u}
Known(p, u) ==
  ({enrollment[p][u]} \cup {req[r].held : r \in Editing(p, u)}) \ {Null}
FreshIds(p, u) == Ids \ {row.id : row \in Known(p, u)}
Now(p, u) == Stamps \ {row.completedAt : row \in Known(p, u)}

SetEnrollment(p, u, row) == enrollment' = [enrollment EXCEPT ![p][u] = row]
SetProgram(p, row) == program' = [program EXCEPT ![p] = row]

-----------------------------------------------------------------------------
(* Programs.                                                               *)

(* POST programs: one INSERT, under an id nobody has seen yet.  The body   *)
(* may name any status.                                                    *)
CreateProgram(p, creator, status, capacity) ==
  /\ program[p] = Null
  /\ \A q \in Requests : req[q].program # p
  /\ SetProgram(p, [status |-> status, capacity |-> capacity,
                    createdById |-> creator])
  /\ UNCHANGED <<enrollment, lock, req>>

MayUpdate(caller, row) == caller \in Managers \/ row.createdById = caller

MayBecome(row, status) ==
  status \in {Undefined, row.status} \cup ValidTransitions[row.status]

(* Mutant: fields left out of the body are assigned too.                   *)
AssignedAll(row, dto) == [row EXCEPT !.status = dto.status,
                                     !.capacity = dto.capacity]

(* Object.assign(program, {...}): the fields of the body that are present. *)
Assigned(row, dto) ==
  [row EXCEPT
     !.status = IF dto.status = Undefined THEN @ ELSE dto.status,
     !.capacity = IF dto.capacity = Undefined THEN @ ELSE dto.capacity]

(* PATCH programs/:id, first statement: read the program, check the caller *)
(* and the transition, assign the body to the entity.  A rejected request  *)
(* changes nothing and stays where it is.                                  *)
UpdateProgram(r, p, caller, dto) ==
  /\ program[p] # Null
  /\ MayUpdate(caller, program[p])
  /\ MayBecome(program[p], dto.status)
  /\ Begin(r, "program.load", p, Null, Assigned(program[p], dto))
  /\ UNCHANGED <<program, enrollment, lock>>

LoadProgram(r) ==
  /\ At(r, "program.load")
  /\ Goto(r, "program.save", req[r].held,
          DiffColumns(program[req[r].program], req[r].held, {"status", "capacity"}))
  /\ UNCHANGED <<program, enrollment, lock>>

(* save() found the row: an UPDATE with a column to write waits for the    *)
(* row lock.  It changes nothing if the row has gone since.                *)
SaveProgram(r) ==
  LET p == req[r].program
      diff == req[r].diff
      Written(c) == IF c \in diff THEN req[r].held[c] ELSE program[p][c]
  IN
  /\ At(r, "program.save")
  /\ diff # Null
  /\ diff = {} \/ lock[p] = Null
  /\ IF program[p] = Null
       THEN UNCHANGED program
       ELSE SetProgram(p, [status |-> Written("status"),
                           capacity |-> Written("capacity"),
                           createdById |-> program[p].createdById])
  /\ Finish(r)
  /\ UNCHANGED <<enrollment, lock>>

(* save() found no row: it INSERTs the entity under its old id.            *)
ReinsertProgram(r) ==
  LET p == req[r].program IN
  /\ At(r, "program.save")
  /\ req[r].diff = Null
  /\ IF program[p] = Null THEN SetProgram(p, req[r].held) ELSE UNCHANGED program
  /\ Finish(r)
  /\ UNCHANGED <<enrollment, lock>>

(* DELETE programs/:id: read, then DELETE with its cascade.                *)
DeleteProgram(r, p) ==
  /\ program[p] # Null
  /\ Begin(r, "program.remove", p, Null, Null)
  /\ UNCHANGED <<program, enrollment, lock>>

RemoveProgram(r) ==
  LET p == req[r].program IN
  /\ At(r, "program.remove")
  /\ lock[p] = Null
  /\ SetProgram(p, Null)
  /\ enrollment' = [enrollment EXCEPT ![p] = [u \in Members |-> Null]]
  /\ Finish(r)
  /\ UNCHANGED lock

-----------------------------------------------------------------------------
(* Enrollments.                                                            *)

(* POST .../enrollments: the role check, before the transaction begins.    *)
Enroll(r, p, u) ==
  /\ Begin(r, "lock", p, u, Null)
  /\ UNCHANGED <<program, enrollment, lock>>

(* Mutant: the SELECT without setLock('pessimistic_write').                *)
EnrollReadUnlocked(r) ==
  LET p == req[r].program IN
  /\ At(r, "lock")
  /\ IsActive(program[p])
  /\ Goto(r, IF program[p].capacity = Null THEN "exists" ELSE "count",
          program[p], Null)
  /\ UNCHANGED <<program, enrollment, lock>>

(* SELECT ... FOR UPDATE: waits for the row lock, then sees the committed  *)
(* row.                                                                    *)
EnrollLock(r) ==
  LET p == req[r].program IN
  /\ At(r, "lock")
  /\ lock[p] = Null
  /\ IsActive(program[p])
  /\ lock' = [lock EXCEPT ![p] = r]
  /\ Goto(r, IF program[p].capacity = Null THEN "exists" ELSE "count",
          program[p], Null)
  /\ UNCHANGED <<program, enrollment>>

(* Program not found, or not active: the transaction rolls back.           *)
EnrollRefused(r) ==
  LET p == req[r].program IN
  /\ At(r, "lock")
  /\ lock[p] = Null
  /\ ~IsActive(program[p])
  /\ Finish(r)
  /\ UNCHANGED <<program, enrollment, lock>>

(* Mutant: the transaction ends with the count.                            *)
EnrollCountAlone(r) ==
  LET count == Cardinality(ActiveEnrollments(req[r].program)) IN
  /\ At(r, "count")
  /\ IF HasCapacity(req[r].held, count) THEN Goto(r, "exists", req[r].held, Null)
                                          ELSE Finish(r)
  /\ Unlock(r)
  /\ UNCHANGED <<program, enrollment>>

(* Mutant: the rejection leaves the transaction open.                      *)
EnrollCountLeaks(r) ==
  LET count == Cardinality(ActiveEnrollments(req[r].program)) IN
  /\ At(r, "count")
  /\ IF HasCapacity(req[r].held, count) THEN Goto(r, "exists", req[r].held, Null)
                                          ELSE Finish(r)
  /\ UNCHANGED <<program, enrollment, lock>>

EnrollCount(r) ==
  LET count == Cardinality(ActiveEnrollments(req[r].program)) IN
  /\ At(r, "count")
  /\ IF HasCapacity(req[r].held, count)
       THEN Goto(r, "exists", req[r].held, Null) /\ UNCHANGED lock
       ELSE Finish(r) /\ Unlock(r)
  /\ UNCHANGED <<program, enrollment>>

EnrollExists(r) ==
  /\ At(r, "exists")
  /\ IF enrollment[req[r].program][req[r].user] = Null
       THEN Goto(r, "insert", req[r].held, Null) /\ UNCHANGED lock
       ELSE Finish(r) /\ Unlock(r)
  /\ UNCHANGED <<program, enrollment>>

(* INSERT and commit.  A row already there would break the unique index    *)
(* and roll the transaction back.                                          *)
EnrollInsert(r) ==
  LET p == req[r].program
      u == req[r].user
  IN
  /\ At(r, "insert")
  /\ \E id \in FreshIds(p, u) :
       IF enrollment[p][u] = Null
         THEN SetEnrollment(p, u, [id |-> id, status |-> "active",
                                   completedAt |-> Null])
         ELSE UNCHANGED enrollment
  /\ Finish(r)
  /\ Unlock(r)
  /\ UNCHANGED program

(* Mutant: the row of the member and the program, whatever its id.         *)
RowOfMember(r) == enrollment[req[r].program][req[r].user]

(* The row of the entity's id, if the table still has it.                  *)
RowOf(r) ==
  LET row == enrollment[req[r].program][req[r].user] IN
  IF row # Null /\ row.id = req[r].held.id THEN row ELSE Null

(* Mutant: an enrollment may be dropped whatever its status.               *)
DropAny(r, p, u) ==
  /\ enrollment[p][u] # Null
  /\ Begin(r, "enrollment.remove", p, u, enrollment[p][u])
  /\ UNCHANGED <<program, enrollment, lock>>

(* DELETE .../enrollments/me.  The program is looked up first; an          *)
(* enrollment cannot outlive its program, so the second lookup decides.    *)
Drop(r, p, u) ==
  /\ IsActive(enrollment[p][u])
  /\ Begin(r, "enrollment.remove", p, u, enrollment[p][u])
  /\ UNCHANGED <<program, enrollment, lock>>

RemoveEnrollment(r) ==
  /\ At(r, "enrollment.remove")
  /\ IF RowOf(r) = Null
       THEN UNCHANGED enrollment
       ELSE SetEnrollment(req[r].program, req[r].user, Null)
  /\ Finish(r)
  /\ UNCHANGED <<program, lock>>

(* Mutant: only a completion assigns the status.                           *)
MarkedIfCompleted(row, status, now) ==
  IF status = "completed" THEN [row EXCEPT !.status = status, !.completedAt = now]
                          ELSE row

(* enrollment.status = status; completedAt = new Date() when completed.    *)
Marked(row, status, now) ==
  [row EXCEPT !.status = status,
              !.completedAt = IF status = "completed" THEN now ELSE @]

(* PATCH .../enrollments/:userId: the two lookups, as in Drop, then the    *)
(* entity is changed in memory.                                            *)
UpdateStatus(r, p, u, status) ==
  /\ enrollment[p][u] # Null
  /\ \E now \in Now(p, u) :
       Begin(r, "enrollment.load", p, u, Marked(enrollment[p][u], status, now))
  /\ UNCHANGED <<program, enrollment, lock>>

LoadEnrollment(r) ==
  /\ At(r, "enrollment.load")
  /\ Goto(r, "enrollment.save", req[r].held,
          DiffColumns(RowOf(r), req[r].held, {"status", "completedAt"}))
  /\ UNCHANGED <<program, enrollment, lock>>

SaveEnrollment(r) ==
  LET diff == req[r].diff
      Written(c) == IF c \in diff THEN req[r].held[c] ELSE RowOf(r)[c]
  IN
  /\ At(r, "enrollment.save")
  /\ diff # Null
  /\ IF RowOf(r) = Null
       THEN UNCHANGED enrollment
       ELSE SetEnrollment(req[r].program, req[r].user,
              [id |-> RowOf(r).id, status |-> Written("status"),
               completedAt |-> Written("completedAt")])
  /\ Finish(r)
  /\ UNCHANGED <<program, lock>>

(* save() found no row: INSERT.  It needs a share lock on the program row  *)
(* for its foreign key, so it waits for FOR UPDATE; it fails if the        *)
(* program is gone or the member has enrolled anew.                        *)
ReinsertEnrollment(r) ==
  LET p == req[r].program
      u == req[r].user
  IN
  /\ At(r, "enrollment.save")
  /\ req[r].diff = Null
  /\ lock[p] = Null
  /\ IF program[p] # Null /\ enrollment[p][u] = Null
       THEN SetEnrollment(p, u, req[r].held)
       ELSE UNCHANGED enrollment
  /\ Finish(r)
  /\ UNCHANGED <<program, lock>>

-----------------------------------------------------------------------------
(* A request may die at any await: a statement fails, the connection or    *)
(* the process is lost.  Its open transaction is rolled back.              *)
Abort(r) ==
  /\ ~At(r, "idle")
  /\ Finish(r)
  /\ Unlock(r)
  /\ UNCHANGED <<program, enrollment>>

Arrive(r) ==
  \E p \in Programs :
    \/ \E caller \in Mentors \cup Managers, dto \in UpdateProgramDto :
         UpdateProgram(r, p, caller, dto)
    \/ DeleteProgram(r, p)
    \/ \E u \in Members :
         \/ Enroll(r, p, u)
         \/ Drop(r, p, u)
         \/ \E status \in {"completed", "dropped"} : UpdateStatus(r, p, u, status)

EnrollStep(r) ==
  \/ EnrollLock(r) \/ EnrollRefused(r)
  \/ EnrollCount(r) \/ EnrollExists(r) \/ EnrollInsert(r)

ProgramStep(r) ==
  LoadProgram(r) \/ SaveProgram(r) \/ ReinsertProgram(r) \/ RemoveProgram(r)

EnrollmentStep(r) ==
  \/ RemoveEnrollment(r) \/ LoadEnrollment(r)
  \/ SaveEnrollment(r) \/ ReinsertEnrollment(r)

Step(r) == EnrollStep(r) \/ ProgramStep(r) \/ EnrollmentStep(r)

Next ==
  \/ \E p \in Programs, creator \in Mentors \cup Managers,
       status \in ProgramStatus, capacity \in Capacities :
       CreateProgram(p, creator, status, capacity)
  \/ \E r \in Requests : Arrive(r) \/ Step(r) \/ Abort(r)

Spec == Init /\ [][Next]_vars

(* The event loop and Postgres run every statement that can run.  Requests *)
(* waiting for one row lock are served in the order they came (Postgres    *)
(* queues them), so none is passed over for ever: strong fairness.         *)
Fairness == \A r \in Requests : SF_vars(Step(r))

FairSpec == Spec /\ Fairness

-----------------------------------------------------------------------------
(* Properties.                                                             *)

RequestState ==
  [pc : {"idle"} \cup EnrollSteps \cup ProgramSteps \cup EnrollmentSteps,
   program : Programs \cup {Null},
   user : Members \cup {Null},
   held : ProgramRow \cup EnrollmentRow \cup {Null},
   diff : {Null} \cup SUBSET {"status", "capacity", "completedAt"}]

(* What a request remembers fits the step it is at.                        *)
RequestOK(r) ==
  /\ ~At(r, "idle") => req[r].program \in Programs
  /\ req[r].pc \in EnrollSteps \cup EnrollmentSteps => req[r].user \in Members
  /\ req[r].pc \in LockedSteps => req[r].held \in ProgramRow
  /\ req[r].pc \in {"program.load", "program.save"} => req[r].held \in ProgramRow
  /\ req[r].pc \in EnrollmentSteps => req[r].held \in EnrollmentRow

(* Types of the tables, the locks and the requests.                        *)
TypeOK ==
  /\ program \in [Programs -> ProgramRow \cup {Null}]
  /\ enrollment \in [Programs -> [Members -> EnrollmentRow \cup {Null}]]
  /\ lock \in [Programs -> Requests \cup {Null}]
  /\ req \in [Requests -> RequestState]
  /\ \A r \in Requests : RequestOK(r)

(* enroll's transaction works on the truth (enrollments.service.ts:37-51): *)
(* while it is open it alone holds the lock of its program, nobody holds a *)
(* lock without such a transaction, and the program it read is still the   *)
(* committed row, active and with the same capacity.                       *)
LockedViewCurrent ==
  /\ \A r \in Requests : req[r].pc \in LockedSteps =>
       /\ lock[req[r].program] = r
       /\ program[req[r].program] = req[r].held
       /\ req[r].held.status = "active"
  /\ \A p \in Programs : lock[p] # Null =>
       req[lock[p]].pc \in LockedSteps /\ req[lock[p]].program = p

(* What enroll has checked stays true until it inserts, whatever updates,  *)
(* drops, deletions and late saves run in between                          *)
(* (enrollments.service.ts:53-75): room under the capacity, and no row     *)
(* that would make the INSERT break the unique index.                      *)
SeatReserved ==
  \A r \in Requests :
    LET p == req[r].program IN
    /\ req[r].pc \in {"exists", "insert"} =>
         /\ IsActive(program[p])
         /\ HasCapacity(program[p], Cardinality(ActiveEnrollments(p)))
    /\ At(r, "insert") => enrollment[p][req[r].user] = Null

(* An active enrollment only ever comes from enroll's INSERT, under the    *)
(* program's lock and where no row was: one that was completed or dropped  *)
(* is not revived by a late save of a stale entity, nor by a save that     *)
(* inserts a deleted row again (enrollments.repository.ts:41-50).          *)
NeverReactivated ==
  [][\A p \in Programs, u \in Members :
       ~IsActive(enrollment[p][u]) /\ IsActive(enrollment'[p][u]) =>
         /\ enrollment[p][u] = Null
         /\ lock[p] # Null
         /\ At(lock[p], "insert")
         /\ req[lock[p]].user = u]_enrollment

(* An enrollment is edited or dropped only by a request that looked this   *)
(* very enrollment up, and keeps its id: one that comes late, after the    *)
(* member has dropped and enrolled anew, leaves the new enrollment alone,  *)
(* whatever it does about the old one (enrollments.service.ts:129, 150,    *)
(* enrollments.repository.ts:49, 66).                                      *)
EditsBind ==
  [][\A p \in Programs, u \in Members :
       enrollment[p][u] # Null /\ enrollment'[p][u] # enrollment[p][u] =>
         \/ program'[p] = Null
         \/ \E r \in Requests :
              /\ req[r].pc \in {"enrollment.save", "enrollment.remove"}
              /\ req[r].program = p /\ req[r].user = u
              /\ req[r].held.id = enrollment[p][u].id
              /\ enrollment'[p][u] # Null =>
                   enrollment'[p][u].id = enrollment[p][u].id]_enrollment

(* A completed enrollment is deleted only together with its program, or by *)
(* a drop that read this very enrollment while it was active               *)
(* (enrollments.service.ts:125-129): who has completed it is refused, and  *)
(* who has enrolled anew, and completed that, loses nothing to a late drop.*)
CompletionLostOnlyToDrop ==
  [][\A p \in Programs, u \in Members :
       enrollment[p][u] # Null /\ enrollment[p][u].status = "completed"
         /\ enrollment'[p][u] = Null =>
         \/ program'[p] = Null
         \/ \E r \in Requests :
              /\ At(r, "enrollment.remove")
              /\ req[r].program = p /\ req[r].user = u
              /\ req[r].held.id = enrollment[p][u].id
              /\ req[r].held.status = "active"]_enrollment

(* Programs and enrollments implement SeatPool: an active enrollment       *)
(* appears only in an active program with room for it, counted against the *)
(* capacity of that very moment (enrollments.service.ts:36-76).            *)
offer == [p \in Programs |-> IF IsActive(program[p]) THEN program[p].capacity
                             ELSE Undefined]
seated == [p \in Programs |-> ActiveEnrollments(p)]

Seats == INSTANCE SeatPool WITH Shut <- Undefined
ImplementsSeatPool == Seats!Spec

(* Every call that waits for the lock is answered                          *)
(* (enrollments.service.ts:37): no rejection, deletion or crash of another *)
(* request leaves the row locked.                                          *)
LockWaitersAnswered ==
  \A r \in Requests : At(r, "lock") ~> At(r, "idle")

(* Claimed by programs.service.ts:118, "Cannot transition program from     *)
(* ... to ...": a stored status only moves along VALID_TRANSITIONS.        *)
LegalTransitions ==
  [][\A p \in Programs :
       program[p] # Null /\ program'[p] # Null =>
         program'[p].status \in {program[p].status}
                                \cup ValidTransitions[program[p].status]]_program
=============================================================================
