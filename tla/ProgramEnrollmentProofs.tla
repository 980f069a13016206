----------------------- MODULE ProgramEnrollmentProofs ----------------------
(***************************************************************************)
(* Proofs about ProgramEnrollment, for every set of requests, programs,    *)
(* members and capacities.                                                 *)
(***************************************************************************)
EXTENDS ProgramEnrollment, FiniteSetTheorems, TLAPS

USE RowAssumption, CapacityAssumption, RequestAssumption

-----------------------------------------------------------------------------
(* Type correctness.  Three ways of changing req cover all the actions.    *)

RequestsOK ==
  /\ req \in [Requests -> RequestState]
  /\ \A r \in Requests : RequestOK(r)

LEMMA FinishTypes ==
  ASSUME NEW r \in Requests, RequestsOK, Finish(r)
  PROVE  RequestsOK'
<1>1. req' \in [Requests -> RequestState]
  BY DEF RequestsOK, RequestState, Finish, Idle
<1>2. ASSUME NEW q \in Requests PROVE RequestOK(q)'
  <2>1. CASE q = r
    BY <1>1, <2>1 DEF RequestsOK, RequestState, Finish, Idle, RequestOK, At,
         EnrollSteps, LockedSteps, EnrollmentSteps
  <2>2. CASE q # r
    BY <1>1, <2>2 DEF RequestsOK, RequestState, Finish, Idle, RequestOK, At
  <2> QED BY <2>1, <2>2
<1> QED BY <1>1, <1>2 DEF RequestsOK

LEMMA BeginTypes ==
  ASSUME NEW r \in Requests, RequestsOK,
         NEW step \in {"lock"} \cup ProgramSteps \cup EnrollmentSteps,
         NEW p \in Programs, NEW u \in Members \cup {Null},
         NEW held \in ProgramRow \cup EnrollmentRow \cup {Null},
         step \in {"lock"} \cup EnrollmentSteps => u \in Members,
         step \in {"program.load", "program.save"} => held \in ProgramRow,
         step \in EnrollmentSteps => held \in EnrollmentRow,
         Begin(r, step, p, u, held)
  PROVE  RequestsOK'
<1>1. req' \in [Requests -> RequestState]
  BY DEF RequestsOK, RequestState, Begin, EnrollSteps, ProgramSteps, EnrollmentSteps
<1>2. ASSUME NEW q \in Requests PROVE RequestOK(q)'
  <2>1. CASE q = r
    BY <1>1, <2>1 DEF RequestsOK, RequestState, Begin, RequestOK, At,
         EnrollSteps, LockedSteps, ProgramSteps, EnrollmentSteps
  <2>2. CASE q # r
    BY <1>1, <2>2 DEF RequestsOK, RequestState, Begin, RequestOK, At
  <2> QED BY <2>1, <2>2
<1> QED BY <1>1, <1>2 DEF RequestsOK

LEMMA UnlockTypes ==
  ASSUME NEW r \in Requests, lock \in [Programs -> Requests \cup {Null}], Unlock(r)
  PROVE  lock' \in [Programs -> Requests \cup {Null}]
BY DEF Unlock

LEMMA InitTypes == Init => TypeOK
BY DEF Init, TypeOK, Idle, RequestState, RequestOK, At,
       EnrollSteps, LockedSteps, EnrollmentSteps

(* The steps inside a handler that keep the request's program and user.    *)
LEMMA GotoTypes ==
  ASSUME NEW r \in Requests, RequestsOK, ~At(r, "idle"),
         NEW step \in LockedSteps \cup {"program.save", "enrollment.save"},
         NEW held \in ProgramRow \cup EnrollmentRow,
         NEW diff \in {Null} \cup SUBSET {"status", "capacity", "completedAt"},
         step \in LockedSteps => At(r, "lock") \/ req[r].pc \in LockedSteps,
         step \in LockedSteps \cup {"program.save"} => held \in ProgramRow,
         step = "enrollment.save" =>
           req[r].pc \in EnrollmentSteps /\ held \in EnrollmentRow,
         Goto(r, step, held, diff)
  PROVE  RequestsOK'
<1>1. req' \in [Requests -> RequestState]
  BY DEF Goto, RequestsOK, RequestState, EnrollSteps, LockedSteps, ProgramSteps,
         EnrollmentSteps
<1>2. ASSUME NEW q \in Requests PROVE RequestOK(q)'
  <2>1. CASE q = r
    BY <1>1, <2>1 DEF Goto, RequestsOK, RequestState, RequestOK, At,
         EnrollSteps, LockedSteps, ProgramSteps, EnrollmentSteps
  <2>2. CASE q # r
    BY <1>1, <2>2 DEF Goto, RequestsOK, RequestState, RequestOK, At
  <2> QED BY <2>1, <2>2
<1> QED BY <1>1, <1>2 DEF RequestsOK

LEMMA NextTypes == TypeOK /\ [Next]_vars => TypeOK'
<1> SUFFICES ASSUME TypeOK, [Next]_vars PROVE TypeOK'
  OBVIOUS
<1> DEFINE Programs_(t) == t \in [Programs -> ProgramRow \cup {Null}]
           Enrollments_(t) ==
             t \in [Programs -> [Members -> EnrollmentRow \cup {Null}]]
           Locks_(t) == t \in [Programs -> Requests \cup {Null}]
<1>0. /\ RequestsOK
      /\ Programs_(program) /\ Enrollments_(enrollment) /\ Locks_(lock)
  BY DEF TypeOK, RequestsOK
<1>k. SUFFICES /\ RequestsOK'
               /\ Programs_(program') /\ Enrollments_(enrollment') /\ Locks_(lock')
  BY DEF TypeOK, RequestsOK
<1>a. ASSUME UNCHANGED req PROVE RequestsOK'
  BY <1>0, <1>a DEF RequestsOK, RequestOK, At
<1> HIDE DEF Programs_, Enrollments_, Locks_
<1>1. CASE UNCHANGED vars
  BY <1>0, <1>1, <1>a DEF vars
<1>2. ASSUME NEW p \in Programs, NEW creator \in Mentors \cup Managers,
             NEW status \in ProgramStatus, NEW capacity \in Capacities,
             CreateProgram(p, creator, status, capacity)
      PROVE  RequestsOK' /\ Programs_(program') /\ Enrollments_(enrollment')
             /\ Locks_(lock')
  <2>1. Programs_(program')
    BY <1>0, <1>2 DEF CreateProgram, SetProgram, ProgramRow, Programs_
  <2> QED BY <1>0, <1>2, <1>a, <2>1 DEF CreateProgram
<1>3. ASSUME NEW r \in Requests, Arrive(r)
      PROVE  RequestsOK' /\ Programs_(program') /\ Enrollments_(enrollment')
             /\ Locks_(lock')
  <2>1. RequestsOK'
    <3>1. PICK p \in Programs :
            \/ \E caller \in Mentors \cup Managers, dto \in UpdateProgramDto :
                 UpdateProgram(r, p, caller, dto)
            \/ DeleteProgram(r, p)
            \/ \E u \in Members :
                 \/ Enroll(r, p, u)
                 \/ Drop(r, p, u)
                 \/ \E status \in {"completed", "dropped"} :
                      UpdateStatus(r, p, u, status)
      BY <1>3 DEF Arrive
    <3>2. ASSUME NEW caller \in Mentors \cup Managers, NEW dto \in UpdateProgramDto,
                 UpdateProgram(r, p, caller, dto)
          PROVE  RequestsOK'
      <4>1. Assigned(program[p], dto) \in ProgramRow
        BY <1>0, <3>2 DEF Programs_, UpdateProgram, Assigned, ProgramRow,
             UpdateProgramDto
      <4> QED BY <1>0, <3>2, <4>1, BeginTypes
            DEF UpdateProgram, ProgramSteps, EnrollmentSteps
    <3>3. ASSUME DeleteProgram(r, p) PROVE RequestsOK'
      BY <1>0, <3>3, BeginTypes DEF DeleteProgram, ProgramSteps, EnrollmentSteps
    <3>4. ASSUME NEW u \in Members, Enroll(r, p, u) PROVE RequestsOK'
      BY <1>0, <3>4, BeginTypes DEF Enroll, ProgramSteps, EnrollmentSteps
    <3>5. ASSUME NEW u \in Members, Drop(r, p, u) PROVE RequestsOK'
      <4>1. enrollment[p][u] \in EnrollmentRow
        BY <1>0, <3>5 DEF Enrollments_, Drop, IsActive
      <4> QED BY <1>0, <3>5, <4>1, BeginTypes
            DEF Drop, ProgramSteps, EnrollmentSteps
    <3>6. ASSUME NEW u \in Members, NEW status \in {"completed", "dropped"},
                 UpdateStatus(r, p, u, status)
          PROVE  RequestsOK'
      <4>1. PICK now \in Now(p, u) :
              Begin(r, "enrollment.load", p, u,
                    Marked(enrollment[p][u], status, now))
        BY <3>6 DEF UpdateStatus
      <4>2. enrollment[p][u] \in EnrollmentRow /\ now \in Stamps
        BY <1>0, <3>6 DEF Enrollments_, UpdateStatus, Now
      <4>3. Marked(enrollment[p][u], status, now) \in EnrollmentRow
        BY <4>2 DEF Marked, EnrollmentRow, EnrollmentStatus
      <4> QED BY <1>0, <4>1, <4>3, BeginTypes DEF ProgramSteps, EnrollmentSteps
    <3> QED BY <3>1, <3>2, <3>3, <3>4, <3>5, <3>6
  <2>2. UNCHANGED <<program, enrollment, lock>>
    BY <1>3 DEF Arrive, UpdateProgram, DeleteProgram, Enroll, Drop, UpdateStatus
  <2> QED BY <1>0, <2>1, <2>2
<1>4. ASSUME NEW r \in Requests, Step(r)
      PROVE  RequestsOK' /\ Programs_(program') /\ Enrollments_(enrollment')
             /\ Locks_(lock')
  <2> DEFINE p == req[r].program
             u == req[r].user
  <2>0. /\ ~At(r, "idle") => p \in Programs
        /\ req[r].pc \in EnrollSteps \cup EnrollmentSteps => u \in Members
        /\ req[r].pc \in LockedSteps \cup {"program.load", "program.save"} =>
             req[r].held \in ProgramRow
        /\ req[r].pc \in EnrollmentSteps => req[r].held \in EnrollmentRow
        /\ req[r] \in RequestState
    BY <1>0 DEF RequestsOK, RequestOK, LockedSteps
  <2>e. ASSUME NEW row \in EnrollmentRow \cup {Null}, u \in Members,
               ~At(r, "idle"), SetEnrollment(p, u, row)
        PROVE  Enrollments_(enrollment')
    BY <1>0, <2>0, <2>e DEF Enrollments_, SetEnrollment
  <2>p. ASSUME NEW row \in ProgramRow \cup {Null}, ~At(r, "idle"), SetProgram(p, row)
        PROVE  Programs_(program')
    BY <1>0, <2>0, <2>p DEF Programs_, SetProgram
  <2>g. ASSUME NEW step \in LockedSteps, req[r].pc \in LockedSteps,
               Goto(r, step, req[r].held, Null)
        PROVE  RequestsOK'
    BY <1>0, <2>0, <2>g, GotoTypes DEF At, LockedSteps
  <2>u. Unlock(r) => Locks_(lock')
    BY <1>0, UnlockTypes DEF Locks_
  <2>f. Finish(r) => RequestsOK'
    BY <1>0, FinishTypes
  <2> HIDE DEF p, u
  <2>1. CASE EnrollLock(r)
    <3>1. p \in Programs /\ program[p] \in ProgramRow
      BY <1>0, <2>0, <2>1 DEF EnrollLock, At, IsActive, Programs_, p
    <3> DEFINE step == IF program[p].capacity = Null THEN "exists" ELSE "count"
    <3>2. Goto(r, step, program[p], Null)
      BY <2>1 DEF EnrollLock, p
    <3>4. step \in LockedSteps /\ step \in {"exists", "count"}
      BY DEF LockedSteps
    <3>5. At(r, "lock") /\ ~At(r, "idle")
      BY <2>1 DEF EnrollLock, At
    <3> HIDE DEF step
    <3>6. RequestsOK'
      BY <1>0, <3>1, <3>2, <3>4, <3>5, GotoTypes
    <3>7. Locks_(lock')
      BY <1>0, <2>1, <3>1 DEF EnrollLock, Locks_, p
    <3> QED BY <1>0, <2>1, <3>6, <3>7 DEF EnrollLock
  <2>2. CASE EnrollRefused(r)
    BY <1>0, <2>2, <2>f DEF EnrollRefused
  <2>3. CASE EnrollCount(r)
    <3>1. req[r].pc \in LockedSteps /\ "exists" \in LockedSteps
      BY <2>3 DEF EnrollCount, At, LockedSteps
    <3> QED BY <1>0, <2>3, <2>f, <2>g, <2>u, <3>1 DEF EnrollCount
  <2>4. CASE EnrollExists(r)
    <3>1. req[r].pc \in LockedSteps /\ "insert" \in LockedSteps
      BY <2>4 DEF EnrollExists, At, LockedSteps
    <3> QED BY <1>0, <2>4, <2>f, <2>g, <2>u, <3>1 DEF EnrollExists
  <2>5. CASE EnrollInsert(r)
    <3>1. u \in Members /\ ~At(r, "idle")
      BY <2>0, <2>5 DEF EnrollInsert, At, EnrollSteps
    <3>2. PICK id \in FreshIds(p, u) :
            IF enrollment[p][u] = Null
              THEN SetEnrollment(p, u, [id |-> id, status |-> "active",
                                        completedAt |-> Null])
              ELSE UNCHANGED enrollment
      BY <2>5 DEF EnrollInsert, p, u
    <3>3. [id |-> id, status |-> "active", completedAt |-> Null] \in EnrollmentRow
      BY DEF FreshIds, EnrollmentRow, EnrollmentStatus
    <3>4. Enrollments_(enrollment')
      BY <1>0, <2>e, <3>1, <3>2, <3>3
    <3> QED BY <1>0, <2>5, <2>f, <2>u, <3>4 DEF EnrollInsert
  <2>6. CASE LoadProgram(r)
    <3> DEFINE diff == DiffColumns(program[p], req[r].held, {"status", "capacity"})
    <3>1. diff \in {Null} \cup SUBSET {"status", "capacity", "completedAt"}
      BY DEF DiffColumns
    <3>2. Goto(r, "program.save", req[r].held, diff)
      BY <2>6 DEF LoadProgram, p
    <3>3. req[r].held \in ProgramRow /\ ~At(r, "idle")
      BY <2>0, <2>6 DEF LoadProgram, At
    <3> HIDE DEF diff
    <3>4. RequestsOK'
      BY <1>0, <3>1, <3>2, <3>3, GotoTypes DEF LockedSteps
    <3> QED BY <1>0, <2>6, <3>4 DEF LoadProgram
  <2>7. CASE SaveProgram(r)
    <3>1. ~At(r, "idle") /\ p \in Programs /\ req[r].held \in ProgramRow
      BY <2>0, <2>7 DEF SaveProgram, At
    <3>2. program[p] # Null =>
            [status |-> IF "status" \in req[r].diff THEN req[r].held["status"]
                        ELSE program[p]["status"],
             capacity |-> IF "capacity" \in req[r].diff THEN req[r].held["capacity"]
                          ELSE program[p]["capacity"],
             createdById |-> program[p].createdById] \in ProgramRow
      BY <1>0, <3>1 DEF Programs_, ProgramRow
    <3>3. Programs_(program')
      BY <1>0, <2>7, <2>p, <3>1, <3>2 DEF SaveProgram, p
    <3> QED BY <1>0, <2>7, <2>f, <3>3 DEF SaveProgram
  <2>8. CASE ReinsertProgram(r)
    <3>1. ~At(r, "idle") /\ req[r].held \in ProgramRow
      BY <2>0, <2>8 DEF ReinsertProgram, At
    <3> QED BY <1>0, <2>8, <2>f, <2>p, <3>1 DEF ReinsertProgram, p
  <2>9. CASE RemoveProgram(r)
    <3>1. ~At(r, "idle") /\ p \in Programs
      BY <2>0, <2>9 DEF RemoveProgram, At
    <3>2. Enrollments_(enrollment')
      BY <1>0, <2>9, <3>1 DEF RemoveProgram, Enrollments_, p
    <3> QED BY <1>0, <2>9, <2>f, <2>p, <3>1, <3>2 DEF RemoveProgram, p
  <2>10. CASE RemoveEnrollment(r)
    <3>1. ~At(r, "idle") /\ u \in Members
      BY <2>0, <2>10 DEF RemoveEnrollment, At, EnrollmentSteps
    <3> QED BY <1>0, <2>10, <2>e, <2>f, <3>1 DEF RemoveEnrollment, p, u
  <2>11. CASE LoadEnrollment(r)
    <3> DEFINE diff == DiffColumns(RowOf(r), req[r].held, {"status", "completedAt"})
    <3>1. diff \in {Null} \cup SUBSET {"status", "capacity", "completedAt"}
      BY DEF DiffColumns
    <3>2. Goto(r, "enrollment.save", req[r].held, diff)
      BY <2>11 DEF LoadEnrollment
    <3>3. /\ req[r].pc \in EnrollmentSteps /\ ~At(r, "idle")
          /\ req[r].held \in EnrollmentRow
      BY <2>0, <2>11 DEF LoadEnrollment, At, EnrollmentSteps
    <3> HIDE DEF diff
    <3>4. RequestsOK'
      BY <1>0, <3>1, <3>2, <3>3, GotoTypes DEF LockedSteps
    <3> QED BY <1>0, <2>11, <3>4 DEF LoadEnrollment
  <2>12. CASE SaveEnrollment(r)
    <3>1. /\ ~At(r, "idle") /\ p \in Programs /\ u \in Members
          /\ req[r].held \in EnrollmentRow
      BY <2>0, <2>12 DEF SaveEnrollment, At, EnrollmentSteps
    <3>2. RowOf(r) # Null =>
            [id |-> RowOf(r).id,
             status |-> IF "status" \in req[r].diff THEN req[r].held["status"]
                        ELSE RowOf(r)["status"],
             completedAt |-> IF "completedAt" \in req[r].diff
                               THEN req[r].held["completedAt"]
                               ELSE RowOf(r)["completedAt"]] \in EnrollmentRow
      <4>1. RowOf(r) \in EnrollmentRow \cup {Null}
        BY <1>0, <3>1 DEF Enrollments_, RowOf, p, u
      <4> QED BY <3>1, <4>1 DEF EnrollmentRow
    <3>3. Enrollments_(enrollment')
      BY <1>0, <2>12, <2>e, <3>1, <3>2 DEF SaveEnrollment, p, u
    <3> QED BY <1>0, <2>12, <2>f, <3>3 DEF SaveEnrollment
  <2>13. CASE ReinsertEnrollment(r)
    <3>1. ~At(r, "idle") /\ u \in Members /\ req[r].held \in EnrollmentRow
      BY <2>0, <2>13 DEF ReinsertEnrollment, At, EnrollmentSteps
    <3> QED BY <1>0, <2>13, <2>e, <2>f, <3>1 DEF ReinsertEnrollment, p, u
  <2> QED
    BY <1>4, <2>1, <2>2, <2>3, <2>4, <2>5, <2>6, <2>7, <2>8, <2>9, <2>10, <2>11,
       <2>12, <2>13 DEF Step, EnrollStep, ProgramStep, EnrollmentStep
<1>5. ASSUME NEW r \in Requests, Abort(r)
      PROVE  RequestsOK' /\ Programs_(program') /\ Enrollments_(enrollment')
             /\ Locks_(lock')
  BY <1>0, <1>5, FinishTypes, UnlockTypes DEF Abort, Locks_
<1> QED BY <1>1, <1>2, <1>3, <1>4, <1>5 DEF Next

(* The tables, the locks and the memory of the requests keep their types   *)
(* through every interleaving of the programs and enrollments handlers.    *)
THEOREM TypeCorrect == Spec => []TypeOK
BY InitTypes, NextTypes, PTL DEF Spec

-----------------------------------------------------------------------------
(* The row lock.  Every action is one of four kinds: it leaves the locked  *)
(* rows alone, it ends a transaction, it begins one, or it moves on inside *)
(* one.                                                                    *)

(* What a step of r does to the memory of the other requests: nothing.     *)
OthersKeep(r) == \A q \in Requests \ {r} : req'[q] = req[q]

LEMMA LockedOutside ==
  ASSUME TypeOK, LockedViewCurrent, NEW r \in Requests, OthersKeep(r),
         req[r].pc \notin LockedSteps, req'[r].pc \notin LockedSteps,
         lock' = lock,
         \A p \in Programs : lock[p] # Null => program'[p] = program[p]
  PROVE  LockedViewCurrent'
<1>1. ASSUME NEW q \in Requests, req'[q].pc \in LockedSteps
      PROVE  /\ lock'[req'[q].program] = q
             /\ program'[req'[q].program] = req'[q].held
             /\ req'[q].held.status = "active"
  <2>1. q # r /\ req'[q] = req[q]
    BY <1>1 DEF OthersKeep
  <2>2. req[q].program \in Programs
    BY <1>1, <2>1 DEF TypeOK, RequestOK, At, LockedSteps
  <2> QED BY <1>1, <2>1, <2>2 DEF LockedViewCurrent
<1>2. ASSUME NEW p \in Programs, lock'[p] # Null
      PROVE  req'[lock'[p]].pc \in LockedSteps /\ req'[lock'[p]].program = p
  BY <1>2 DEF LockedViewCurrent, OthersKeep, TypeOK
<1> QED BY <1>1, <1>2 DEF LockedViewCurrent

LEMMA LockedRelease ==
  ASSUME TypeOK, LockedViewCurrent, NEW r \in Requests,
         Finish(r), Unlock(r), program' = program
  PROVE  LockedViewCurrent'
<1>0. /\ \A q \in Requests : req'[q] = IF q = r THEN Idle ELSE req[q]
      /\ \A p \in Programs : lock'[p] = IF lock[p] = r THEN Null ELSE lock[p]
  BY DEF Finish, Unlock, TypeOK
<1>1. ASSUME NEW q \in Requests, req'[q].pc \in LockedSteps
      PROVE  /\ lock'[req'[q].program] = q
             /\ program'[req'[q].program] = req'[q].held
             /\ req'[q].held.status = "active"
  <2>1. q # r /\ req'[q] = req[q]
    BY <1>0, <1>1 DEF Idle, LockedSteps
  <2>2. req[q].program \in Programs
    BY <1>1, <2>1 DEF TypeOK, RequestOK, At, LockedSteps
  <2> QED BY <1>0, <1>1, <2>1, <2>2 DEF LockedViewCurrent
<1>2. ASSUME NEW p \in Programs, lock'[p] # Null
      PROVE  req'[lock'[p]].pc \in LockedSteps /\ req'[lock'[p]].program = p
  BY <1>0, <1>2 DEF LockedViewCurrent, TypeOK
<1> QED BY <1>1, <1>2 DEF LockedViewCurrent

LEMMA LockedBegin ==
  ASSUME TypeOK, LockedViewCurrent, NEW r \in Requests, EnrollLock(r)
  PROVE  LockedViewCurrent'
<1> DEFINE p == req[r].program
<1>0. /\ p \in Programs /\ lock[p] = Null
      /\ program[p] \in ProgramRow /\ program[p].status = "active"
      /\ program' = program
      /\ \A q \in Requests \ {r} : req'[q] = req[q]
      /\ req'[r].pc \in LockedSteps /\ req'[r].program = p
      /\ req'[r].held = program[p]
      /\ \A x \in Programs : lock'[x] = IF x = p THEN r ELSE lock[x]
  BY DEF EnrollLock, Goto, TypeOK, RequestOK, At, IsActive, LockedSteps
<1> HIDE DEF p
<1>1. ASSUME NEW q \in Requests, req'[q].pc \in LockedSteps
      PROVE  /\ lock'[req'[q].program] = q
             /\ program'[req'[q].program] = req'[q].held
             /\ req'[q].held.status = "active"
  <2>1. CASE q = r
    BY <1>0, <2>1
  <2>2. CASE q # r
    <3>1. req[q].pc \in LockedSteps /\ req'[q] = req[q]
      BY <1>0, <1>1, <2>2
    <3>2. req[q].program \in Programs
      BY <3>1 DEF TypeOK, RequestOK, At, LockedSteps
    <3> QED BY <1>0, <3>1, <3>2 DEF LockedViewCurrent
  <2> QED BY <2>1, <2>2
<1>2. ASSUME NEW x \in Programs, lock'[x] # Null
      PROVE  req'[lock'[x]].pc \in LockedSteps /\ req'[lock'[x]].program = x
  <2>1. CASE x = p
    BY <1>0, <2>1
  <2>2. CASE x # p
    <3>1. lock'[x] = lock[x] /\ lock[x] # r /\ lock[x] \in Requests
      <4>1. req[r].pc \notin LockedSteps
        BY DEF EnrollLock, At, LockedSteps
      <4> QED BY <1>0, <1>2, <2>2, <4>1 DEF LockedViewCurrent, TypeOK
    <3> QED BY <1>0, <1>2, <3>1 DEF LockedViewCurrent
  <2> QED BY <2>1, <2>2
<1> QED BY <1>1, <1>2 DEF LockedViewCurrent

LEMMA LockedInside ==
  ASSUME TypeOK, LockedViewCurrent, NEW r \in Requests, req[r].pc \in LockedSteps,
         NEW step \in LockedSteps, Goto(r, step, req[r].held, Null),
         lock' = lock, program' = program
  PROVE  LockedViewCurrent'
<1>0. \A q \in Requests :
        /\ req'[q].pc \in LockedSteps <=> req[q].pc \in LockedSteps
        /\ req'[q].program = req[q].program
        /\ req'[q].held = req[q].held
  BY DEF Goto, TypeOK
<1> QED BY <1>0 DEF LockedViewCurrent, TypeOK

LEMMA LockedNext ==
  TypeOK /\ LockedViewCurrent /\ [Next]_vars => LockedViewCurrent'
<1> SUFFICES ASSUME TypeOK, LockedViewCurrent, [Next]_vars PROVE LockedViewCurrent'
  OBVIOUS
<1>0. req \in [Requests -> RequestState] /\ program \in [Programs -> ProgramRow \cup {Null}]
  BY DEF TypeOK
<1>h. \A p \in Programs : lock[p] # Null => program[p] # Null
  BY DEF LockedViewCurrent, TypeOK, RequestOK
<1>f. ASSUME NEW r \in Requests, Finish(r)
      PROVE  OthersKeep(r) /\ req'[r].pc \notin LockedSteps
  BY <1>0, <1>f DEF Finish, OthersKeep, Idle, LockedSteps
<1>1. CASE UNCHANGED vars
  BY <1>1 DEF vars, LockedViewCurrent
<1>2. ASSUME NEW p \in Programs, NEW creator \in Mentors \cup Managers,
             NEW status \in ProgramStatus, NEW capacity \in Capacities,
             CreateProgram(p, creator, status, capacity)
      PROVE  LockedViewCurrent'
  <2>1. \A q \in Programs : lock[q] # Null => program'[q] = program[q]
    BY <1>0, <1>2, <1>h DEF CreateProgram, SetProgram
  <2>2. req' = req /\ lock' = lock
    BY <1>2 DEF CreateProgram
  <2>3. \A r \in Requests : req[r].pc \in LockedSteps => req[r].program \in Programs
    BY DEF TypeOK, RequestOK, At, LockedSteps
  <2>4. \A r \in Requests : req[r].pc \in LockedSteps => lock[req[r].program] # Null
    BY <2>3 DEF LockedViewCurrent
  <2> QED BY <2>1, <2>2, <2>3, <2>4 DEF LockedViewCurrent
<1>3. ASSUME NEW r \in Requests, Arrive(r) PROVE LockedViewCurrent'
  <2>1. ASSUME NEW p, NEW u, NEW held,
               NEW step \in {"lock"} \cup ProgramSteps \cup EnrollmentSteps,
               Begin(r, step, p, u, held)
        PROVE  /\ OthersKeep(r)
               /\ req[r].pc \notin LockedSteps /\ req'[r].pc \notin LockedSteps
    BY <1>0, <2>1 DEF Begin, OthersKeep, At, LockedSteps, ProgramSteps, EnrollmentSteps
  <2>2. OthersKeep(r) /\ req[r].pc \notin LockedSteps /\ req'[r].pc \notin LockedSteps
    BY <1>3, <2>1 DEF Arrive, UpdateProgram, DeleteProgram, Enroll, Drop, UpdateStatus,
         ProgramSteps, EnrollmentSteps
  <2>3. UNCHANGED <<program, lock>>
    BY <1>3 DEF Arrive, UpdateProgram, DeleteProgram, Enroll, Drop, UpdateStatus
  <2> QED BY <2>2, <2>3, LockedOutside
<1>4. ASSUME NEW r \in Requests, EnrollStep(r) PROVE LockedViewCurrent'
  <2>1. CASE EnrollLock(r)
    BY <2>1, LockedBegin
  <2>2. CASE EnrollRefused(r)
    BY <2>2, <1>f, LockedOutside DEF EnrollRefused, At, LockedSteps
  <2>3. CASE EnrollCount(r)
    <3>1. req[r].pc \in LockedSteps /\ "exists" \in LockedSteps /\ program' = program
      BY <2>3 DEF EnrollCount, At, LockedSteps
    <3> QED BY <2>3, <3>1, LockedInside, LockedRelease DEF EnrollCount
  <2>4. CASE EnrollExists(r)
    <3>1. req[r].pc \in LockedSteps /\ "insert" \in LockedSteps /\ program' = program
      BY <2>4 DEF EnrollExists, At, LockedSteps
    <3> QED BY <2>4, <3>1, LockedInside, LockedRelease DEF EnrollExists
  <2>5. CASE EnrollInsert(r)
    BY <2>5, LockedRelease DEF EnrollInsert
  <2> QED BY <1>4, <2>1, <2>2, <2>3, <2>4, <2>5 DEF EnrollStep
<1>5. ASSUME NEW r \in Requests, ProgramStep(r) PROVE LockedViewCurrent'
  <2>0. req[r].program \in Programs /\ req[r].pc \notin LockedSteps
    BY <1>5 DEF ProgramStep, LoadProgram, SaveProgram, ReinsertProgram, RemoveProgram,
         At, LockedSteps, TypeOK, RequestOK
  <2>1. CASE LoadProgram(r)
    BY <1>0, <2>0, <2>1, LockedOutside DEF LoadProgram, Goto, OthersKeep, LockedSteps
  <2>2. CASE SaveProgram(r)
    <3> DEFINE p == req[r].program
               row == program[p]
    <3>1. \/ lock[p] = Null
          \/ row # Null /\ req[r].diff = {}
             /\ SetProgram(p, [status |-> row["status"], capacity |-> row["capacity"],
                               createdById |-> row.createdById])
          \/ program' = program
      BY <2>2 DEF SaveProgram
    <3>2. row # Null => row = [status |-> row["status"], capacity |-> row["capacity"],
                               createdById |-> row.createdById]
      BY <1>0, <2>0 DEF ProgramRow
    <3>3. \A q \in Programs \ {p} : program'[q] = program[q]
      BY <1>0, <2>0, <2>2 DEF SaveProgram, SetProgram
    <3>4. lock[p] # Null => program'[p] = program[p]
      BY <1>0, <2>0, <3>1, <3>2 DEF SetProgram
    <3>5. lock' = lock /\ Finish(r)
      BY <2>2 DEF SaveProgram
    <3> QED BY <1>f, <2>0, <3>3, <3>4, <3>5, LockedOutside
  <2>3. CASE ReinsertProgram(r)
    <3>1. \A q \in Programs : lock[q] # Null => program'[q] = program[q]
      BY <1>0, <1>h, <2>0, <2>3 DEF ReinsertProgram, SetProgram
    <3> QED BY <1>f, <2>0, <2>3, <3>1, LockedOutside DEF ReinsertProgram
  <2>4. CASE RemoveProgram(r)
    <3>1. \A q \in Programs : lock[q] # Null => program'[q] = program[q]
      BY <1>0, <2>0, <2>4 DEF RemoveProgram, SetProgram
    <3> QED BY <1>f, <2>0, <2>4, <3>1, LockedOutside DEF RemoveProgram
  <2> QED BY <1>5, <2>1, <2>2, <2>3, <2>4 DEF ProgramStep
<1>6. ASSUME NEW r \in Requests, EnrollmentStep(r) PROVE LockedViewCurrent'
  <2>1. req[r].pc \notin LockedSteps /\ UNCHANGED <<program, lock>>
    BY <1>6 DEF EnrollmentStep, RemoveEnrollment, LoadEnrollment, SaveEnrollment,
         ReinsertEnrollment, At, LockedSteps
  <2>2. OthersKeep(r) /\ req'[r].pc \notin LockedSteps
    <3>1. CASE LoadEnrollment(r)
      BY <1>0, <3>1 DEF LoadEnrollment, Goto, OthersKeep, LockedSteps
    <3>2. CASE Finish(r)
      BY <1>f, <3>2
    <3> QED BY <1>6, <3>1, <3>2 DEF EnrollmentStep, RemoveEnrollment, SaveEnrollment,
              ReinsertEnrollment
  <2> QED BY <2>1, <2>2, LockedOutside
<1>7. ASSUME NEW r \in Requests, Abort(r) PROVE LockedViewCurrent'
  BY <1>7, LockedRelease DEF Abort
<1> QED BY <1>1, <1>2, <1>3, <1>4, <1>5, <1>6, <1>7 DEF Next, Step

(* enroll's transaction always works on the committed row of its program   *)
(* and holds its lock alone, for any number of concurrent requests.        *)
THEOREM LockedViewHolds == Spec => []LockedViewCurrent
<1>1. Init => LockedViewCurrent
  BY DEF Init, LockedViewCurrent, Idle, LockedSteps
<1> QED BY <1>1, LockedNext, TypeCorrect, PTL DEF Spec

-----------------------------------------------------------------------------
(* Saves of enrollments.                                                   *)

(* What a save carries ends an enrollment: a part of the invariant, with   *)
(* which a save of a stale entity can be seen to revive nothing.           *)
EditsEndEnrollments ==
  \A r \in Requests :
    req[r].pc \in {"enrollment.load", "enrollment.save"} =>
      req[r].held.status # "active"

LEMMA EditsNext ==
  TypeOK /\ EditsEndEnrollments /\ [Next]_vars => EditsEndEnrollments'
<1> SUFFICES ASSUME TypeOK, EditsEndEnrollments, [Next]_vars
             PROVE  EditsEndEnrollments'
  OBVIOUS
<1>0. /\ req \in [Requests -> RequestState]
      /\ enrollment \in [Programs -> [Members -> EnrollmentRow \cup {Null}]]
  BY DEF TypeOK
<1>f. ASSUME NEW r \in Requests, Finish(r) PROVE EditsEndEnrollments'
  BY <1>0, <1>f DEF Finish, Idle, EditsEndEnrollments
<1>g. ASSUME NEW r \in Requests, NEW step, NEW held, NEW diff, Goto(r, step, held, diff),
             step = "enrollment.save" => At(r, "enrollment.load") /\ held = req[r].held,
             step # "enrollment.load"
      PROVE  EditsEndEnrollments'
  BY <1>0, <1>g DEF Goto, At, EditsEndEnrollments
<1>b. ASSUME NEW r \in Requests, NEW step, NEW p, NEW u, NEW held,
             Begin(r, step, p, u, held),
             step \in {"enrollment.load", "enrollment.save"} => held.status # "active"
      PROVE  EditsEndEnrollments'
  BY <1>0, <1>b DEF Begin, EditsEndEnrollments
<1>1. CASE UNCHANGED req
  BY <1>1 DEF EditsEndEnrollments
<1>3. ASSUME NEW r \in Requests, Arrive(r) PROVE EditsEndEnrollments'
  <2>1. PICK p \in Programs :
          \/ \E caller \in Mentors \cup Managers, dto \in UpdateProgramDto :
               UpdateProgram(r, p, caller, dto)
          \/ DeleteProgram(r, p)
          \/ \E u \in Members :
               \/ Enroll(r, p, u)
               \/ Drop(r, p, u)
               \/ \E status \in {"completed", "dropped"} : UpdateStatus(r, p, u, status)
    BY <1>3 DEF Arrive
  <2>2. ASSUME NEW u \in Members, NEW status \in {"completed", "dropped"},
               UpdateStatus(r, p, u, status)
        PROVE  EditsEndEnrollments'
    <3>1. PICK now \in Now(p, u) :
            Begin(r, "enrollment.load", p, u, Marked(enrollment[p][u], status, now))
      BY <2>2 DEF UpdateStatus
    <3>2. Marked(enrollment[p][u], status, now).status = status
      BY <1>0, <2>2 DEF Marked, UpdateStatus, EnrollmentRow
    <3> QED BY <1>b, <3>1, <3>2
  <2> QED BY <1>b, <2>1, <2>2 DEF UpdateProgram, DeleteProgram, Enroll, Drop
<1>4. ASSUME NEW r \in Requests, Step(r) PROVE EditsEndEnrollments'
  <2>1. CASE EnrollStep(r)
    BY <1>f, <1>g, <2>1 DEF EnrollStep, EnrollLock, EnrollRefused, EnrollCount,
         EnrollExists, EnrollInsert
  <2>2. CASE ProgramStep(r)
    BY <1>f, <1>g, <2>2 DEF ProgramStep, LoadProgram, SaveProgram, ReinsertProgram,
         RemoveProgram
  <2>3. CASE EnrollmentStep(r)
    BY <1>f, <1>g, <2>3 DEF EnrollmentStep, RemoveEnrollment, LoadEnrollment,
         SaveEnrollment, ReinsertEnrollment
  <2> QED BY <1>4, <2>1, <2>2, <2>3 DEF Step
<1> QED BY <1>1, <1>3, <1>4, <1>f DEF Next, CreateProgram, Abort, vars

-----------------------------------------------------------------------------
(* What becomes of the enrollments of a program in one step.               *)

(* A step of an enrollment handler after its lookup deletes or edits one   *)
(* row; it makes none active, and inserts only into an unlocked program.   *)
LEMMA EnrollmentStepRows ==
  ASSUME TypeOK, EditsEndEnrollments, NEW r \in Requests, EnrollmentStep(r)
  PROVE  /\ req[r].program \in Programs /\ req[r].user \in Members
         /\ program' = program
         /\ \A p \in Programs, u \in Members :
              /\ p # req[r].program \/ u # req[r].user =>
                   enrollment'[p][u] = enrollment[p][u]
              /\ IsActive(enrollment'[p][u]) => IsActive(enrollment[p][u])
              /\ enrollment[p][u] = Null /\ enrollment'[p][u] # Null => lock[p] = Null
<1> DEFINE p == req[r].program
           u == req[r].user
<1>0. /\ p \in Programs /\ u \in Members /\ program' = program
      /\ enrollment \in [Programs -> [Members -> EnrollmentRow \cup {Null}]]
      /\ req[r].held \in EnrollmentRow
  BY DEF EnrollmentStep, RemoveEnrollment, LoadEnrollment, SaveEnrollment,
       ReinsertEnrollment, At, EnrollmentSteps, TypeOK, RequestOK
<1> HIDE DEF p, u
<1>1. ASSUME NEW row, SetEnrollment(p, u, row),
             IsActive(row) => IsActive(enrollment[p][u]),
             enrollment[p][u] = Null /\ row # Null => lock[p] = Null
      PROVE  \A x \in Programs, y \in Members :
               /\ x # p \/ y # u => enrollment'[x][y] = enrollment[x][y]
               /\ IsActive(enrollment'[x][y]) => IsActive(enrollment[x][y])
               /\ enrollment[x][y] = Null /\ enrollment'[x][y] # Null => lock[x] = Null
  BY <1>0, <1>1 DEF SetEnrollment
<1>2. ~IsActive(Null)
  BY DEF IsActive
<1>3. \/ UNCHANGED enrollment
      \/ \E row : /\ SetEnrollment(p, u, row)
                  /\ IsActive(row) => IsActive(enrollment[p][u])
                  /\ enrollment[p][u] = Null /\ row # Null => lock[p] = Null
  <2>1. CASE RemoveEnrollment(r)
    BY <1>2, <2>1 DEF RemoveEnrollment, p, u
  <2>2. CASE LoadEnrollment(r)
    BY <2>2 DEF LoadEnrollment
  <2>3. CASE SaveEnrollment(r)
    <3> DEFINE diff == req[r].diff
               row == [id |-> RowOf(r).id,
                       status |-> IF "status" \in diff THEN req[r].held["status"]
                                  ELSE RowOf(r)["status"],
                       completedAt |-> IF "completedAt" \in diff
                                         THEN req[r].held["completedAt"]
                                         ELSE RowOf(r)["completedAt"]]
    <3>1. \/ UNCHANGED enrollment
          \/ RowOf(r) # Null /\ SetEnrollment(p, u, row)
      BY <2>3 DEF SaveEnrollment, p, u
    <3>2. RowOf(r) # Null => RowOf(r) = enrollment[p][u] /\ enrollment[p][u] # Null
      BY DEF RowOf, p, u
    <3>3. req[r].held.status # "active"
      BY <2>3 DEF SaveEnrollment, At, EditsEndEnrollments
    <3>4. RowOf(r) # Null /\ IsActive(row) => IsActive(enrollment[p][u])
      BY <1>0, <3>2, <3>3 DEF IsActive, EnrollmentRow
    <3> HIDE DEF row
    <3> QED BY <3>1, <3>2, <3>4
  <2>4. CASE ReinsertEnrollment(r)
    <3>1. lock[p] = Null
      BY <2>4 DEF ReinsertEnrollment, p
    <3>2. ~IsActive(req[r].held)
      BY <2>4 DEF ReinsertEnrollment, At, EditsEndEnrollments, IsActive
    <3>3. UNCHANGED enrollment \/ SetEnrollment(p, u, req[r].held)
      BY <2>4 DEF ReinsertEnrollment, p, u
    <3> QED BY <3>1, <3>2, <3>3
  <2> QED BY <2>1, <2>2, <2>3, <2>4 DEF EnrollmentStep
<1> QED BY <1>0, <1>1, <1>3 DEF p, u

(* While q's transaction is open, no step but its own INSERT adds a row to *)
(* its program or makes one active.                                        *)
LEMMA LockedRowsKept ==
  ASSUME TypeOK, LockedViewCurrent, EditsEndEnrollments, [Next]_vars,
         NEW q \in Requests, req[q].pc \in LockedSteps, ~EnrollInsert(q)
  PROVE  \A u \in Members :
           /\ IsActive(enrollment'[req[q].program][u]) =>
                IsActive(enrollment[req[q].program][u])
           /\ enrollment[req[q].program][u] = Null =>
                enrollment'[req[q].program][u] = Null
<1> DEFINE p == req[q].program
<1>0. /\ p \in Programs /\ lock[p] = q /\ q # Null
      /\ enrollment \in [Programs -> [Members -> EnrollmentRow \cup {Null}]]
      /\ req \in [Requests -> RequestState]
  BY DEF TypeOK, RequestOK, At, LockedSteps, LockedViewCurrent
<1>u. CASE enrollment' = enrollment
  BY <1>0, <1>u
<1>1. ASSUME NEW r \in Requests, EnrollInsert(r) PROVE enrollment'[p] = enrollment[p]
  <2>0. r # q
    BY <1>1
  <2>1. req[r].program # p /\ req[r].program \in Programs
    BY <1>0, <1>1, <2>0 DEF EnrollInsert, At, LockedSteps, LockedViewCurrent, TypeOK, RequestOK
  <2> QED BY <1>0, <1>1, <2>1 DEF EnrollInsert, SetEnrollment
<1>2. ASSUME NEW r \in Requests, RemoveProgram(r) PROVE enrollment'[p] = enrollment[p]
  BY <1>0, <1>2 DEF RemoveProgram
<1>3. ASSUME NEW r \in Requests, EnrollmentStep(r)
      PROVE  \A u \in Members :
               /\ IsActive(enrollment'[p][u]) => IsActive(enrollment[p][u])
               /\ enrollment[p][u] = Null => enrollment'[p][u] = Null
  BY <1>0, <1>3, EnrollmentStepRows
<1>4. CASE UNCHANGED vars
  BY <1>u, <1>4 DEF vars
<1>5. ASSUME NEW r \in Requests, Arrive(r) PROVE enrollment' = enrollment
  BY <1>5 DEF Arrive, UpdateProgram, DeleteProgram, Enroll, Drop, UpdateStatus
<1>6. ASSUME NEW r \in Requests, Step(r)
      PROVE  \/ enrollment' = enrollment
             \/ EnrollInsert(r) \/ RemoveProgram(r) \/ EnrollmentStep(r)
  BY <1>6 DEF Step, EnrollStep, ProgramStep, EnrollLock, EnrollRefused, EnrollCount,
       EnrollExists, LoadProgram, SaveProgram, ReinsertProgram
<1>7. ASSUME NEW r \in Requests, Abort(r) PROVE enrollment' = enrollment
  BY <1>7 DEF Abort
<1>8. ASSUME NEW x \in Programs, NEW creator \in Mentors \cup Managers,
             NEW status \in ProgramStatus, NEW capacity \in Capacities,
             CreateProgram(x, creator, status, capacity)
      PROVE  enrollment' = enrollment
  BY <1>8 DEF CreateProgram
<1> QED BY <1>u, <1>1, <1>2, <1>3, <1>4, <1>5, <1>6, <1>7, <1>8 DEF Next

LEMMA ActiveFinite ==
  ASSUME NEW S \in SUBSET Members
  PROVE  IsFiniteSet(S) /\ Cardinality(S) \in Nat
BY MemberAssumption, FS_Subset, FS_CardinalityType

(* Fewer active enrollments fit wherever more did.                         *)
LEMMA FewerFit ==
  ASSUME NEW row \in ProgramRow, NEW T \in SUBSET Members, NEW S \in SUBSET T,
         HasCapacity(row, Cardinality(T))
  PROVE  HasCapacity(row, Cardinality(S))
<1>1. /\ Cardinality(S) \in Nat /\ Cardinality(T) \in Nat
      /\ Cardinality(S) <= Cardinality(T)
  BY ActiveFinite, FS_Subset
<1>2. row.capacity \in Nat \cup {Null}
  BY DEF ProgramRow
<1> QED BY <1>1, <1>2 DEF HasCapacity

LEMMA ReservedNext ==
  /\ TypeOK /\ LockedViewCurrent /\ EditsEndEnrollments /\ SeatReserved
  /\ [Next]_vars
  => SeatReserved'
<1> SUFFICES ASSUME TypeOK, LockedViewCurrent, EditsEndEnrollments, SeatReserved,
                    [Next]_vars,
                    NEW q \in Requests, req'[q].pc \in {"exists", "insert"}
             PROVE  /\ IsActive(program'[req'[q].program])
                    /\ HasCapacity(program'[req'[q].program],
                                   Cardinality(ActiveEnrollments(req[q].program)'))
                    /\ req'[q].program = req[q].program
                    /\ req'[q].pc = "insert" =>
                         enrollment'[req'[q].program][req'[q].user] = Null
  BY DEF SeatReserved, At
<1> DEFINE p == req[q].program
<1>0. /\ TypeOK' /\ LockedViewCurrent'
      /\ req \in [Requests -> RequestState]
  BY NextTypes, LockedNext DEF TypeOK
<1>1. /\ req'[q].program \in Programs /\ program'[req'[q].program] = req'[q].held
      /\ IsActive(program'[req'[q].program]) /\ req'[q].held \in ProgramRow
  BY <1>0 DEF TypeOK, RequestOK, At, LockedSteps, LockedViewCurrent, IsActive
<1>2. \/ req'[q] = req[q]
      \/ EnrollLock(q) \/ EnrollCount(q) \/ EnrollExists(q)
  <2>f. ASSUME NEW r \in Requests, Finish(r) PROVE req'[q] = req[q]
    BY <1>0, <2>f DEF Finish, Idle
  <2>b. ASSUME NEW r \in Requests, NEW step, NEW x, NEW u, NEW held,
               Begin(r, step, x, u, held), step \notin {"exists", "insert"}
        PROVE  req'[q] = req[q]
    BY <1>0, <2>b DEF Begin
  <2>g. ASSUME NEW r \in Requests, NEW step, NEW held, NEW diff,
               Goto(r, step, held, diff),
               r # q \/ step \notin {"exists", "insert"}
        PROVE  req'[q] = req[q]
    BY <1>0, <2>g DEF Goto
  <2>1. ASSUME NEW r \in Requests, Arrive(r) PROVE req'[q] = req[q]
    BY <2>1, <2>b DEF Arrive, UpdateProgram, DeleteProgram, Enroll, Drop, UpdateStatus
  <2>2. ASSUME NEW r \in Requests, ProgramStep(r) PROVE req'[q] = req[q]
    BY <2>2, <2>f, <2>g DEF ProgramStep, LoadProgram, SaveProgram, ReinsertProgram,
         RemoveProgram
  <2>3. ASSUME NEW r \in Requests, EnrollmentStep(r) PROVE req'[q] = req[q]
    BY <2>3, <2>f, <2>g DEF EnrollmentStep, RemoveEnrollment, LoadEnrollment,
         SaveEnrollment, ReinsertEnrollment
  <2>4. ASSUME NEW r \in Requests, r # q, EnrollStep(r) PROVE req'[q] = req[q]
    BY <2>4, <2>f, <2>g DEF EnrollStep, EnrollLock, EnrollRefused, EnrollCount,
         EnrollExists, EnrollInsert
  <2>5. CASE EnrollRefused(q) \/ EnrollInsert(q)
    BY <2>5, <2>f DEF EnrollRefused, EnrollInsert
  <2>6. ASSUME NEW r \in Requests, Abort(r) PROVE req'[q] = req[q]
    BY <2>6, <2>f DEF Abort
  <2>7. ASSUME NEW x \in Programs, NEW creator \in Mentors \cup Managers,
               NEW status \in ProgramStatus, NEW capacity \in Capacities,
               CreateProgram(x, creator, status, capacity)
        PROVE  req'[q] = req[q]
    BY <2>7 DEF CreateProgram
  <2>8. CASE UNCHANGED vars
    BY <2>8 DEF vars
  <2>9. ASSUME NEW r \in Requests, EnrollStep(r)
        PROVE  \/ req'[q] = req[q]
               \/ EnrollLock(q) \/ EnrollCount(q) \/ EnrollExists(q)
    BY <2>4, <2>5, <2>9 DEF EnrollStep
  <2> QED BY <2>1, <2>2, <2>3, <2>6, <2>7, <2>8, <2>9 DEF Next, Step
<1>s. ActiveEnrollments(p) \in SUBSET Members /\ ActiveEnrollments(p)' \in SUBSET Members
  BY DEF ActiveEnrollments
<1>3. CASE req'[q] = req[q]
  <2>1. req[q].pc \in LockedSteps /\ ~EnrollInsert(q)
    <3>1. EnrollInsert(q) => req'[q].pc = "idle"
      BY <1>0 DEF EnrollInsert, Finish, Idle
    <3> QED BY <1>3, <3>1 DEF LockedSteps
  <2>2. \A u \in Members :
          /\ IsActive(enrollment'[p][u]) => IsActive(enrollment[p][u])
          /\ enrollment[p][u] = Null => enrollment'[p][u] = Null
    BY <2>1, LockedRowsKept
  <2>3. ActiveEnrollments(p)' \in SUBSET ActiveEnrollments(p)
    BY <1>3, <2>2 DEF ActiveEnrollments
  <2>4. program[p] = program'[p] /\ program[p] \in ProgramRow
    BY <1>1, <1>3, <2>1 DEF LockedViewCurrent
  <2>5. HasCapacity(program[p], Cardinality(ActiveEnrollments(p)))
    BY <1>3 DEF SeatReserved
  <2>6. HasCapacity(program[p], Cardinality(ActiveEnrollments(p)'))
    BY <1>s, <2>3, <2>4, <2>5, FewerFit
  <2>7. req'[q].pc = "insert" => enrollment'[p][req[q].user] = Null
    <3>1. req[q].user \in Members
      BY <2>1 DEF TypeOK, RequestOK, EnrollSteps, LockedSteps
    <3> QED BY <1>3, <2>2, <3>1 DEF SeatReserved, At
  <2> QED BY <1>1, <1>3, <2>4, <2>6, <2>7
<1>4. CASE EnrollLock(q)
  <2>1. req'[q].program = p /\ program' = program
    BY <1>0, <1>4 DEF EnrollLock, Goto
  <2>2. program[p].capacity = Null /\ req'[q].pc = "exists"
    BY <1>0, <1>4 DEF EnrollLock, Goto
  <2> QED BY <1>1, <2>1, <2>2 DEF HasCapacity
<1>5. CASE EnrollCount(q)
  <2>1. /\ req'[q].program = p /\ program' = program /\ enrollment' = enrollment
        /\ req'[q].pc = "exists" /\ req'[q].held = req[q].held
        /\ HasCapacity(req[q].held, Cardinality(ActiveEnrollments(p)))
    BY <1>0, <1>5 DEF EnrollCount, Goto, Finish, Idle
  <2>2. ActiveEnrollments(p)' = ActiveEnrollments(p)
    BY <2>1 DEF ActiveEnrollments
  <2> QED BY <1>1, <2>1, <2>2
<1>6. CASE EnrollExists(q)
  <2>1. /\ req'[q].program = p /\ program' = program /\ enrollment' = enrollment
        /\ req'[q].user = req[q].user /\ enrollment[p][req[q].user] = Null
    BY <1>0, <1>6 DEF EnrollExists, Goto, Finish, Idle
  <2>2. ActiveEnrollments(p)' = ActiveEnrollments(p)
    BY <2>1 DEF ActiveEnrollments
  <2>3. HasCapacity(program[p], Cardinality(ActiveEnrollments(p)))
    BY <1>6 DEF EnrollExists, At, SeatReserved
  <2> QED BY <1>1, <2>1, <2>2, <2>3
<1> QED BY <1>2, <1>3, <1>4, <1>5, <1>6

(* The invariant the remaining theorems rest on.                           *)
Inv == TypeOK /\ LockedViewCurrent /\ EditsEndEnrollments /\ SeatReserved

LEMMA InvHolds == Spec => []Inv
<1>1. Init => Inv
  <2>1. Init => EditsEndEnrollments /\ SeatReserved /\ LockedViewCurrent
    BY DEF Init, EditsEndEnrollments, SeatReserved, LockedViewCurrent, Idle, At,
         LockedSteps
  <2> QED BY <2>1, InitTypes DEF Inv
<1>2. Inv /\ [Next]_vars => Inv'
  BY NextTypes, LockedNext, EditsNext, ReservedNext DEF Inv
<1> QED BY <1>1, <1>2, PTL DEF Spec

(* A seat that enroll has found free is still free when it inserts: the    *)
(* capacity and the absence of an earlier enrollment hold up to the INSERT.*)
THEOREM SeatReservedHolds == Spec => []SeatReserved
BY InvHolds, PTL DEF Inv

-----------------------------------------------------------------------------
(* The refinement.                                                         *)

USE UndefinedAssumption

LEMMA SeatsInit == Init => Seats!Init
<1>1. ~IsActive(Null)
  BY DEF IsActive
<1> QED BY <1>1 DEF Init, Seats!Init, offer, seated, ActiveEnrollments

(* Changing one program's row is a Repost.                                 *)
LEMMA RepostStep ==
  ASSUME TypeOK, TypeOK', NEW p \in Programs,
         \A x \in Programs \ {p} : program'[x] = program[x],
         enrollment' = enrollment
  PROVE  Seats!Next
<1>1. offer' = [offer EXCEPT ![p] = offer'[p]]
  <2>1. \A x \in Programs \ {p} : offer'[x] = offer[x]
    BY DEF offer, IsActive
  <2> QED BY <2>1 DEF offer
<1>2. offer'[p] \in Seats!Offers
  BY DEF offer, TypeOK, ProgramRow, IsActive, Seats!Offers
<1>3. seated' = seated
  BY DEF seated, ActiveEnrollments
<1> QED BY <1>1, <1>2, <1>3 DEF Seats!Next, Seats!Repost

(* Ending or deleting one enrollment is a Vacate, or not seen at all.      *)
LEMMA VacateStep ==
  ASSUME TypeOK, EditsEndEnrollments, NEW r \in Requests, EnrollmentStep(r)
  PROVE  Seats!Next \/ UNCHANGED <<offer, seated>>
<1> DEFINE p == req[r].program
           u == req[r].user
<1>1. /\ p \in Programs /\ u \in Members /\ program' = program
      /\ \A x \in Programs, y \in Members :
           /\ x # p \/ y # u => enrollment'[x][y] = enrollment[x][y]
           /\ IsActive(enrollment'[x][y]) => IsActive(enrollment[x][y])
  BY EnrollmentStepRows
<1> HIDE DEF p, u
<1>2. offer' = offer
  BY <1>1 DEF offer
<1>3. \A x \in Programs \ {p} : ActiveEnrollments(x)' = ActiveEnrollments(x)
  BY <1>1 DEF ActiveEnrollments
<1>4. \/ seated'[p] = seated[p]
      \/ u \in seated[p] /\ seated'[p] = seated[p] \ {u}
  BY <1>1 DEF seated, ActiveEnrollments
<1>5. seated' = [seated EXCEPT ![p] = seated'[p]]
  BY <1>1, <1>3 DEF seated
<1>6. CASE seated'[p] = seated[p]
  <2>1. seated' = seated
    BY <1>1, <1>5, <1>6 DEF seated
  <2> QED BY <1>2, <2>1
<1>7. CASE u \in seated[p] /\ seated'[p] = seated[p] \ {u}
  BY <1>1, <1>2, <1>5, <1>7 DEF Seats!Next, Seats!Vacate
<1> QED BY <1>4, <1>6, <1>7

LEMMA SeatStep ==
  ASSUME Inv, NEW r \in Requests, EnrollInsert(r)
  PROVE  Seats!Next
<1> DEFINE p == req[r].program
           u == req[r].user
<1>1. /\ p \in Programs /\ u \in Members /\ enrollment[p][u] = Null
      /\ IsActive(program[p])
      /\ HasCapacity(program[p], Cardinality(ActiveEnrollments(p)))
      /\ program[p] \in ProgramRow /\ program' = program
      /\ enrollment \in [Programs -> [Members -> EnrollmentRow \cup {Null}]]
  BY DEF Inv, TypeOK, RequestOK, EnrollInsert, At, EnrollSteps, SeatReserved,
       LockedSteps, IsActive
<1>2. PICK id \in FreshIds(p, u) :
        SetEnrollment(p, u, [id |-> id, status |-> "active", completedAt |-> Null])
  BY <1>1 DEF EnrollInsert
<1> HIDE DEF p, u
<1>3. [id |-> id, status |-> "active", completedAt |-> Null] \in EnrollmentRow
  BY DEF FreshIds, EnrollmentRow, EnrollmentStatus
<1>4. IsActive(enrollment'[p][u])
  BY <1>1, <1>2, <1>3 DEF SetEnrollment, IsActive
<1>5. \A x \in Programs, y \in Members :
        x # p \/ y # u => enrollment'[x][y] = enrollment[x][y]
  BY <1>1, <1>2 DEF SetEnrollment
<1>6. /\ \A x \in Programs \ {p} : ActiveEnrollments(x)' = ActiveEnrollments(x)
      /\ \A x \in Programs : x = p =>
           ActiveEnrollments(x)' = ActiveEnrollments(x) \cup {u}
  BY <1>1, <1>4, <1>5 DEF ActiveEnrollments
<1>7. seated' = [seated EXCEPT ![p] = @ \cup {u}]
  BY <1>1, <1>6 DEF seated
<1>8. offer' = offer
  BY <1>1 DEF offer
<1>9. u \notin seated[p]
  BY <1>1 DEF seated, ActiveEnrollments, IsActive
<1>10. Seats!HasRoom(p)
  <2>1. offer[p] = program[p].capacity /\ seated[p] = ActiveEnrollments(p)
    BY <1>1 DEF offer, seated
  <2>2. program[p].capacity # Undefined
    BY <1>1 DEF ProgramRow
  <2>3. offer[p] = Null \/ Cardinality(seated[p]) < offer[p]
    BY <1>1, <2>1 DEF HasCapacity
  <2>4. Seats!Cardinality(seated[p]) = Cardinality(seated[p])
    BY Zenon DEF Seats!Cardinality, Cardinality
  <2> QED BY <2>1, <2>2, <2>3, <2>4 DEF Seats!HasRoom
<1> QED BY <1>1, <1>7, <1>8, <1>9, <1>10 DEF Seats!Next, Seats!Seat

LEMMA WithdrawStep ==
  ASSUME TypeOK, NEW r \in Requests, RemoveProgram(r)
  PROVE  Seats!Next
<1> DEFINE p == req[r].program
<1>1. /\ p \in Programs
      /\ program' = [program EXCEPT ![p] = Null]
      /\ enrollment' = [enrollment EXCEPT ![p] = [u \in Members |-> Null]]
  BY DEF TypeOK, RequestOK, RemoveProgram, At, SetProgram
<1> HIDE DEF p
<1>2. ~IsActive(Null)
  BY DEF IsActive
<1>3. \A x \in Programs :
        /\ offer'[x] = IF x = p THEN Undefined ELSE offer[x]
        /\ seated'[x] = IF x = p THEN {} ELSE seated[x]
  BY <1>1, <1>2 DEF offer, seated, ActiveEnrollments, TypeOK
<1>4. /\ offer' = [offer EXCEPT ![p] = Undefined]
      /\ seated' = [seated EXCEPT ![p] = {}]
  BY <1>1, <1>3 DEF offer, seated
<1> QED BY <1>1, <1>4 DEF Seats!Next, Seats!Withdraw

LEMMA StepImplements ==
  Inv /\ Inv' /\ [Next]_vars => [Seats!Next]_<<offer, seated>>
<1> SUFFICES ASSUME Inv, Inv', [Next]_vars
             PROVE  Seats!Next \/ UNCHANGED <<offer, seated>>
  OBVIOUS
<1>0. TypeOK /\ TypeOK' /\ EditsEndEnrollments
  BY DEF Inv
<1>u. ASSUME UNCHANGED <<program, enrollment>> PROVE UNCHANGED <<offer, seated>>
  BY <1>u DEF offer, seated, ActiveEnrollments
<1>1. CASE UNCHANGED vars
  BY <1>u, <1>1 DEF vars
<1>2. ASSUME NEW p \in Programs, NEW creator \in Mentors \cup Managers,
             NEW status \in ProgramStatus, NEW capacity \in Capacities,
             CreateProgram(p, creator, status, capacity)
      PROVE  Seats!Next
  BY <1>0, <1>2, RepostStep DEF CreateProgram, SetProgram, TypeOK
<1>3. ASSUME NEW r \in Requests, Arrive(r) PROVE UNCHANGED <<program, enrollment>>
  BY <1>3 DEF Arrive, UpdateProgram, DeleteProgram, Enroll, Drop, UpdateStatus
<1>4. ASSUME NEW r \in Requests, EnrollStep(r)
      PROVE  Seats!Next \/ UNCHANGED <<program, enrollment>>
  BY <1>4, SeatStep DEF EnrollStep, EnrollLock, EnrollRefused, EnrollCount, EnrollExists
<1>5. ASSUME NEW r \in Requests, ProgramStep(r)
      PROVE  Seats!Next \/ UNCHANGED <<program, enrollment>>
  <2>0. req[r].program \in Programs
    BY <1>0, <1>5 DEF ProgramStep, LoadProgram, SaveProgram, ReinsertProgram,
         RemoveProgram, At, TypeOK, RequestOK
  <2>1. CASE LoadProgram(r)
    BY <2>1 DEF LoadProgram
  <2>2. CASE SaveProgram(r) \/ ReinsertProgram(r)
    <3>1. /\ \A x \in Programs \ {req[r].program} : program'[x] = program[x]
          /\ enrollment' = enrollment
      BY <1>0, <2>0, <2>2 DEF SaveProgram, ReinsertProgram, SetProgram, TypeOK
    <3> QED BY <1>0, <2>0, <3>1, RepostStep
  <2>3. CASE RemoveProgram(r)
    BY <1>0, <2>3, WithdrawStep
  <2> QED BY <1>5, <2>1, <2>2, <2>3 DEF ProgramStep
<1>6. ASSUME NEW r \in Requests, EnrollmentStep(r)
      PROVE  Seats!Next \/ UNCHANGED <<offer, seated>>
  BY <1>0, <1>6, VacateStep
<1>7. ASSUME NEW r \in Requests, Abort(r) PROVE UNCHANGED <<program, enrollment>>
  BY <1>7 DEF Abort
<1> QED BY <1>u, <1>1, <1>2, <1>3, <1>4, <1>5, <1>6, <1>7 DEF Next, Step

(* Programs and enrollments implement the seat pool: however requests      *)
(* interleave, an active enrollment appears only in an active program with *)
(* a seat left.                                                            *)
THEOREM SeatPoolImplemented == Spec => ImplementsSeatPool
BY SeatsInit, StepImplements, InvHolds, PTL DEF Spec, ImplementsSeatPool, Seats!Spec

-----------------------------------------------------------------------------
(* An enrollment becomes active in enroll's INSERT, under the lock, where  *)
(* no row was, and in no other way.                                        *)
LEMMA StepReactivatesNot ==
  ASSUME Inv, [Next]_vars, NEW p \in Programs, NEW u \in Members,
         ~IsActive(enrollment[p][u]), IsActive(enrollment'[p][u])
  PROVE  /\ enrollment[p][u] = Null /\ lock[p] # Null
         /\ At(lock[p], "insert") /\ req[lock[p]].user = u
<1>1. PICK r \in Requests : EnrollInsert(r) \/ RemoveProgram(r) \/ EnrollmentStep(r)
  <2>1. enrollment' # enrollment
    OBVIOUS
  <2>2. PICK r \in Requests : Arrive(r) \/ Step(r) \/ Abort(r)
    BY <2>1 DEF Next, CreateProgram, vars
  <2>3. ~Arrive(r) /\ ~Abort(r)
    BY <2>1 DEF Arrive, UpdateProgram, DeleteProgram, Enroll, Drop, UpdateStatus, Abort
  <2> QED BY <2>1, <2>2, <2>3 DEF Step, EnrollStep, ProgramStep, EnrollLock,
            EnrollRefused, EnrollCount, EnrollExists, LoadProgram, SaveProgram,
            ReinsertProgram
<1>2. ~EnrollmentStep(r)
  BY EnrollmentStepRows DEF Inv
<1>3. ~RemoveProgram(r)
  <2>1. ASSUME RemoveProgram(r) PROVE enrollment'[p][u] = Null \/ enrollment'[p] = enrollment[p]
    BY <2>1 DEF RemoveProgram, Inv, TypeOK
  <2> QED BY <2>1 DEF IsActive
<1>4. EnrollInsert(r)
  BY <1>1, <1>2, <1>3
<1>5. /\ lock[req[r].program] = r /\ req[r].program \in Programs
      /\ req[r].user \in Members /\ r # Null
  BY <1>4 DEF Inv, LockedViewCurrent, TypeOK, RequestOK, EnrollInsert, At, LockedSteps,
       EnrollSteps
<1>6. p = req[r].program /\ u = req[r].user
  BY <1>4, <1>5 DEF EnrollInsert, SetEnrollment, Inv, TypeOK
<1> QED BY <1>4, <1>5, <1>6 DEF EnrollInsert, Inv, SeatReserved, At

(* A completed or dropped enrollment never becomes active again.           *)
THEOREM NeverReactivatedHolds == Spec => NeverReactivated
<1>1. Inv /\ [Next]_vars =>
        [\A p \in Programs, u \in Members :
           ~IsActive(enrollment[p][u]) /\ IsActive(enrollment'[p][u]) =>
             /\ enrollment[p][u] = Null
             /\ lock[p] # Null
             /\ At(lock[p], "insert")
             /\ req[lock[p]].user = u]_enrollment
  BY StepReactivatesNot
<1> QED BY <1>1, InvHolds, PTL DEF Spec, NeverReactivated

-----------------------------------------------------------------------------
(* Where the statuses of programs leave VALID_TRANSITIONS: nowhere but in  *)
(* two updates of one program that overlap.                                *)

Updating(r, p) ==
  req[r].pc \in {"program.load", "program.save"} /\ req[r].program = p

(* No two updates of one program overlap.                                  *)
OneUpdate ==
  \A p \in Programs, q, r \in Requests : Updating(q, p) /\ Updating(r, p) => q = r

Moves(from, to) == to \in {from} \cup ValidTransitions[from]

(* What an update is about to store still follows from what is stored.     *)
HeldFollows ==
  \A p \in Programs, r \in Requests :
    Updating(r, p) /\ program[p] # Null => Moves(program[p].status, req[r].held.status)

StatusesMove ==
  \A p \in Programs :
    program[p] # Null /\ program'[p] # Null => Moves(program[p].status, program'[p].status)

LEMMA SavesFollow ==
  ASSUME HeldFollows,
         \A p \in Programs :
           \/ program'[p] = program[p] \/ program'[p] = Null
           \/ \A r \in Requests : ~Updating(r, p)',
         \A p \in Programs, r \in Requests :
           Updating(r, p)' => Updating(r, p) /\ req'[r].held = req[r].held
  PROVE  HeldFollows'
BY DEF HeldFollows, Moves

LEMMA SerialStep ==
  ASSUME TypeOK, HeldFollows, OneUpdate, [Next]_vars
  PROVE  HeldFollows' /\ StatusesMove
<1>0. /\ req \in [Requests -> RequestState]
      /\ program \in [Programs -> ProgramRow \cup {Null}]
  BY DEF TypeOK
<1>f. ASSUME NEW r \in Requests, Finish(r)
      PROVE  \A p \in Programs, q \in Requests :
               Updating(q, p)' => q # r /\ Updating(q, p) /\ req'[q].held = req[q].held
  BY <1>0, <1>f DEF Finish, Idle, Updating
<1>k. ASSUME UNCHANGED program PROVE StatusesMove
  BY <1>k DEF StatusesMove, Moves
<1>u. CASE UNCHANGED <<program, req>>
  BY <1>k, <1>u, SavesFollow DEF Updating
<1>1. ASSUME NEW p \in Programs, NEW creator \in Mentors \cup Managers,
             NEW status \in ProgramStatus, NEW capacity \in Capacities,
             CreateProgram(p, creator, status, capacity)
      PROVE  HeldFollows' /\ StatusesMove
  <2>1. /\ program[p] = Null /\ \A q \in Programs : q # p => program'[q] = program[q]
        /\ req' = req /\ \A r \in Requests : req[r].program # p
    BY <1>0, <1>1 DEF CreateProgram, SetProgram
  <2>2. StatusesMove
    BY <2>1 DEF StatusesMove, Moves
  <2>3. HeldFollows'
    BY <2>1, SavesFollow DEF Updating
  <2> QED BY <2>2, <2>3
<1>2. ASSUME NEW r \in Requests, Arrive(r) PROVE HeldFollows' /\ StatusesMove
  <2>1. UNCHANGED program
    BY <1>2 DEF Arrive, UpdateProgram, DeleteProgram, Enroll, Drop, UpdateStatus
  <2>2. PICK p \in Programs :
          \/ \E caller \in Mentors \cup Managers, dto \in UpdateProgramDto :
               UpdateProgram(r, p, caller, dto)
          \/ DeleteProgram(r, p)
          \/ \E u \in Members :
               \/ Enroll(r, p, u)
               \/ Drop(r, p, u)
               \/ \E status \in {"completed", "dropped"} : UpdateStatus(r, p, u, status)
    BY <1>2 DEF Arrive
  <2>3. ASSUME NEW x, NEW u, NEW held,
               NEW step \in {"lock", "program.remove"} \cup EnrollmentSteps,
               Begin(r, step, x, u, held)
        PROVE  HeldFollows'
    <3>1. \A y \in Programs, q \in Requests :
            Updating(q, y)' => Updating(q, y) /\ req'[q].held = req[q].held
      BY <1>0, <2>3 DEF Begin, Updating, EnrollmentSteps
    <3> QED BY <2>1, <3>1, SavesFollow
  <2>4. ASSUME NEW caller \in Mentors \cup Managers, NEW dto \in UpdateProgramDto,
               UpdateProgram(r, p, caller, dto)
        PROVE  HeldFollows'
    <3> DEFINE held == Assigned(program[p], dto)
    <3>1. /\ program[p] \in ProgramRow
          /\ dto.status \in {Undefined, program[p].status}
                            \cup ValidTransitions[program[p].status]
          /\ Begin(r, "program.load", p, Null, held)
      BY <1>0, <2>4 DEF UpdateProgram, MayBecome
    <3>2. held.status = IF dto.status = Undefined THEN program[p].status ELSE dto.status
      BY <3>1 DEF Assigned, ProgramRow
    <3>3. Moves(program[p].status, held.status)
      BY <3>1, <3>2 DEF Moves
    <3> HIDE DEF held
    <3>4. /\ req'[r].program = p /\ req'[r].held = held
          /\ \A q \in Requests : q # r => req'[q] = req[q]
      BY <1>0, <3>1 DEF Begin
    <3> QED BY <2>1, <3>3, <3>4 DEF HeldFollows, Updating
  <2>5. HeldFollows'
    <3>1. ASSUME NEW u \in Members, NEW status \in {"completed", "dropped"},
                 UpdateStatus(r, p, u, status)
          PROVE  HeldFollows'
      BY <2>3, <3>1 DEF UpdateStatus, EnrollmentSteps
    <3>2. ASSUME NEW u \in Members, Enroll(r, p, u) \/ Drop(r, p, u) PROVE HeldFollows'
      BY <2>3, <3>2 DEF Enroll, Drop, EnrollmentSteps
    <3>3. ASSUME DeleteProgram(r, p) PROVE HeldFollows'
      BY <2>3, <3>3 DEF DeleteProgram
    <3> QED BY <2>2, <2>4, <3>1, <3>2, <3>3
  <2> QED BY <1>k, <2>1, <2>5
<1>3. ASSUME NEW r \in Requests, ProgramStep(r) PROVE HeldFollows' /\ StatusesMove
  <2>0. PICK p \in Programs :
          /\ req[r].program = p
          /\ req[r].pc \in {"program.load", "program.save"} => Updating(r, p)
    BY <1>3 DEF ProgramStep, LoadProgram, SaveProgram, ReinsertProgram, RemoveProgram,
         At, TypeOK, RequestOK, Updating
  <2>1. CASE LoadProgram(r)
    <3>1. \A y \in Programs, q \in Requests :
            Updating(q, y)' => Updating(q, y) /\ req'[q].held = req[q].held
      BY <1>0, <2>1 DEF LoadProgram, Goto, At, Updating
    <3>2. UNCHANGED program
      BY <2>1 DEF LoadProgram
    <3> QED BY <1>k, <3>1, <3>2, SavesFollow
  <2>2. ASSUME Finish(r), Updating(r, p), \A q \in Programs : q # p => program'[q] = program[q]
        PROVE  HeldFollows'
    <3>1. \A y \in Programs, q \in Requests :
            Updating(q, y)' => q # r /\ Updating(q, y) /\ req'[q].held = req[q].held
      BY <1>f, <2>2
    <3>2. \A q \in Requests : Updating(q, p) => q = r
      BY <2>0, <2>2 DEF OneUpdate
    <3>3. \A q \in Requests : ~Updating(q, p)'
      BY <2>0, <3>1, <3>2 DEF Updating
    <3>4. \A y \in Programs :
            program'[y] = program[y] \/ \A q \in Requests : ~Updating(q, y)'
      BY <2>2, <3>3 DEF Updating
    <3> QED BY <3>1, <3>4, SavesFollow
  <2>3. CASE SaveProgram(r)
    <3> DEFINE new == [status |-> IF "status" \in req[r].diff THEN req[r].held["status"]
                                  ELSE program[p]["status"],
                       capacity |-> IF "capacity" \in req[r].diff THEN req[r].held["capacity"]
                                    ELSE program[p]["capacity"],
                       createdById |-> program[p].createdById]
    <3>1. /\ Finish(r) /\ Updating(r, p)
          /\ \/ program' = program
             \/ program[p] # Null /\ program' = [program EXCEPT ![p] = new]
      BY <2>0, <2>3 DEF SaveProgram, At, SetProgram
    <3>2. new.status \in {req[r].held.status, program[p].status}
      OBVIOUS
    <3> HIDE DEF new
    <3>3. program[p] # Null => Moves(program[p].status, new.status)
      BY <2>0, <3>1, <3>2 DEF HeldFollows, Moves
    <3>4. /\ \A q \in Programs : q # p => program'[q] = program[q]
          /\ StatusesMove
      BY <1>0, <2>0, <3>1, <3>3 DEF StatusesMove, Moves
    <3> QED BY <2>2, <3>1, <3>4
  <2>4. CASE ReinsertProgram(r)
    <3>1. /\ Finish(r) /\ Updating(r, p)
          /\ \A q \in Programs : q # p => program'[q] = program[q]
          /\ program[p] # Null => program'[p] = program[p]
      BY <1>0, <2>0, <2>4 DEF ReinsertProgram, At, SetProgram
    <3>2. StatusesMove
      BY <3>1 DEF StatusesMove, Moves
    <3> QED BY <2>2, <3>1, <3>2
  <2>5. CASE RemoveProgram(r)
    <3>1. /\ Finish(r) /\ program'[p] = Null
          /\ \A q \in Programs : q # p => program'[q] = program[q]
      BY <1>0, <2>0, <2>5 DEF RemoveProgram, SetProgram
    <3>2. StatusesMove
      BY <3>1 DEF StatusesMove, Moves
    <3>3. HeldFollows'
      BY <1>f, <3>1, SavesFollow
    <3> QED BY <3>2, <3>3
  <2> QED BY <1>3, <2>1, <2>3, <2>4, <2>5 DEF ProgramStep
<1>4. ASSUME NEW r \in Requests, EnrollStep(r) \/ EnrollmentStep(r)
      PROVE  HeldFollows' /\ StatusesMove
  <2>1. UNCHANGED program
    BY <1>4 DEF EnrollStep, EnrollmentStep, EnrollLock, EnrollRefused, EnrollCount,
         EnrollExists, EnrollInsert, RemoveEnrollment, LoadEnrollment, SaveEnrollment,
         ReinsertEnrollment
  <2>2. ASSUME NEW step \in LockedSteps \cup {"enrollment.save"}, NEW held, NEW diff,
               Goto(r, step, held, diff)
        PROVE  HeldFollows'
    <3>1. \A y \in Programs, q \in Requests :
            Updating(q, y)' => Updating(q, y) /\ req'[q].held = req[q].held
      BY <1>0, <2>2 DEF Goto, Updating, LockedSteps
    <3> QED BY <2>1, <3>1, SavesFollow
  <2>3. ASSUME Finish(r) PROVE HeldFollows'
    BY <1>f, <2>1, <2>3, SavesFollow
  <2>4. CASE EnrollStep(r)
    BY <1>k, <2>1, <2>2, <2>3, <2>4 DEF EnrollStep, EnrollLock, EnrollRefused, EnrollCount,
         EnrollExists, EnrollInsert, LockedSteps
  <2>5. CASE EnrollmentStep(r)
    BY <1>k, <2>1, <2>2, <2>3, <2>5 DEF EnrollmentStep, RemoveEnrollment, LoadEnrollment,
         SaveEnrollment, ReinsertEnrollment
  <2> QED BY <1>4, <2>4, <2>5
<1>5. ASSUME NEW r \in Requests, Abort(r) PROVE HeldFollows' /\ StatusesMove
  <2>1. Finish(r) /\ UNCHANGED program
    BY <1>5 DEF Abort
  <2> QED BY <1>f, <1>k, <2>1, SavesFollow
<1>6. CASE UNCHANGED vars
  BY <1>u, <1>6 DEF vars
<1> QED BY <1>1, <1>2, <1>3, <1>4, <1>5, <1>6 DEF Next, Step

(* If no two updates of one program overlap, a stored status only moves    *)
(* along VALID_TRANSITIONS, whatever deletions, enrollments and crashes    *)
(* fall between the statements: overlap is the only cause of what the run  *)
(* pe_v_transitions shows.                                                 *)
THEOREM LegalIfSerial == Spec /\ []OneUpdate => LegalTransitions
<1>1. Init => HeldFollows
  BY DEF Init, HeldFollows
<1>2. TypeOK /\ HeldFollows /\ OneUpdate /\ [Next]_vars => HeldFollows'
  BY SerialStep
<1>3. TypeOK /\ HeldFollows /\ OneUpdate /\ [Next]_vars =>
        [\A p \in Programs :
           program[p] # Null /\ program'[p] # Null =>
             program'[p].status \in {program[p].status}
                                    \cup ValidTransitions[program[p].status]]_program
  BY SerialStep DEF StatusesMove, Moves
<1> QED BY <1>1, <1>2, <1>3, TypeCorrect, PTL DEF Spec, LegalTransitions

-----------------------------------------------------------------------------
(* What the pool of seats promises, in numbers.                            *)

(* The active enrollments of p are within its capacity, if it has one and  *)
(* is active.                                                              *)
Fits(p) ==
  offer[p] \in Capacities \ {Null} => Cardinality(seated[p]) <= offer[p]

(* When the active enrollments of a program become more, they become one   *)
(* more, in an active program whose capacity has room for it.              *)
Grows(p) ==
  Cardinality(seated'[p]) > Cardinality(seated[p]) =>
    /\ offer[p] # Undefined /\ offer'[p] = offer[p]
    /\ Cardinality(seated'[p]) = Cardinality(seated[p]) + 1
    /\ Fits(p)'

PoolTyped ==
  offer \in [Programs -> Seats!Offers] /\ seated \in [Programs -> SUBSET Members]

LEMMA PoolStep ==
  ASSUME PoolTyped, Seats!Next
  PROVE  /\ PoolTyped'
         /\ \A p \in Programs :
              /\ Grows(p)
              /\ Fits(p) /\ (offer'[p] # offer[p] => Fits(p)') => Fits(p)'
<1>c. \A x \in Programs : \A S \in SUBSET Members :
        IsFiniteSet(S) /\ Cardinality(S) \in Nat
  BY MemberAssumption, FS_Subset, FS_CardinalityType
<1>n. Capacities \ {Null} \subseteq Nat /\ Capacities \subseteq Seats!Offers
      /\ Undefined \in Seats!Offers
  BY DEF Seats!Offers
<1>k. ASSUME NEW p \in Programs, seated'[p] \subseteq seated[p]
      PROVE  Grows(p) /\ (offer'[p] = offer[p] /\ Fits(p) => Fits(p)')
  <2>1. seated[p] \in SUBSET Members /\ seated'[p] \in SUBSET seated[p]
        /\ seated'[p] \in SUBSET Members
    BY <1>k DEF PoolTyped
  <2>2. Cardinality(seated'[p]) <= Cardinality(seated[p])
    BY <1>c, <2>1, FS_Subset
  <2>3. Cardinality(seated'[p]) \in Nat /\ Cardinality(seated[p]) \in Nat
    BY <1>c, <2>1
  <2>4. Grows(p)
    BY <2>2, <2>3 DEF Grows
  <2>5. ASSUME offer'[p] = offer[p], Fits(p) PROVE Fits(p)'
    <3>1. offer[p] \in Capacities \ {Null} =>
            offer[p] \in Nat /\ Cardinality(seated[p]) <= offer[p]
      BY <1>n, <2>5 DEF Fits
    <3> QED BY <2>2, <2>3, <2>5, <3>1 DEF Fits
  <2> QED BY <2>4, <2>5
<1>1. ASSUME NEW p \in Programs, NEW u \in Members, Seats!Seat(p, u)
      PROVE  /\ PoolTyped'
             /\ \A x \in Programs : Grows(x) /\ (Fits(x) => Fits(x)')
  <2>1. /\ UNCHANGED offer /\ u \notin seated[p]
        /\ seated' = [seated EXCEPT ![p] = seated[p] \cup {u}]
        /\ offer[p] # Undefined
        /\ offer[p] = Null \/ Cardinality(seated[p]) < offer[p]
    BY <1>1 DEF Seats!Seat, Seats!HasRoom, Seats!Cardinality, Cardinality
  <2>2. /\ PoolTyped'
        /\ seated'[p] = seated[p] \cup {u}
        /\ \A x \in Programs \ {p} : seated'[x] = seated[x]
    BY <2>1 DEF PoolTyped
  <2>3. /\ Cardinality(seated[p]) \in Nat
        /\ Cardinality(seated'[p]) = Cardinality(seated[p]) + 1
    BY <1>c, <2>1, <2>2, FS_AddElement DEF PoolTyped
  <2>4. Fits(p)'
    <3>1. offer'[p] \in Capacities \ {Null} => Cardinality(seated[p]) + 1 <= offer'[p]
      BY <1>n, <2>1, <2>3
    <3> QED BY <2>3, <3>1 DEF Fits
  <2>5. Grows(p)
    BY <2>1, <2>3, <2>4 DEF Grows
  <2>6. ASSUME NEW x \in Programs, x # p PROVE Grows(x) /\ (Fits(x) => Fits(x)')
    BY <1>k, <2>1, <2>2, <2>6
  <2> QED BY <2>2, <2>4, <2>5, <2>6
<1>2. ASSUME NEW p \in Programs, NEW u \in Members, Seats!Vacate(p, u)
      PROVE  /\ PoolTyped'
             /\ \A x \in Programs : Grows(x) /\ (Fits(x) => Fits(x)')
  <2>1. UNCHANGED offer /\ PoolTyped' /\ \A x \in Programs : seated'[x] \subseteq seated[x]
    BY <1>2 DEF Seats!Vacate, PoolTyped
  <2> QED BY <1>k, <2>1
<1>3. ASSUME NEW p \in Programs, \/ \E o \in Seats!Offers : Seats!Repost(p, o)
                                \/ Seats!Withdraw(p)
      PROVE  /\ PoolTyped'
             /\ \A x \in Programs : seated'[x] \subseteq seated[x]
  BY <1>3, <1>n DEF Seats!Repost, Seats!Withdraw, PoolTyped
<1>4. ASSUME PoolTyped', \A x \in Programs : seated'[x] \subseteq seated[x], NEW x \in Programs
      PROVE  Grows(x) /\ (Fits(x) /\ (offer'[x] # offer[x] => Fits(x)') => Fits(x)')
  BY <1>k, <1>4
<1> QED BY <1>1, <1>2, <1>3, <1>4 DEF Seats!Next

LEMMA PoolInit == Seats!Init => PoolTyped /\ \A p \in Programs : Fits(p)
<1>1. Undefined \in Seats!Offers
  BY DEF Seats!Offers
<1> QED BY <1>1, UndefinedAssumption DEF Seats!Init, PoolTyped, Fits

LEMMA PoolTypes == Seats!Spec => []PoolTyped
<1>1. PoolTyped /\ UNCHANGED <<offer, seated>> => PoolTyped'
  BY DEF PoolTyped
<1>2. PoolTyped /\ [Seats!Next]_<<offer, seated>> => PoolTyped'
  BY <1>1, PoolStep
<1> QED BY <1>2, PoolInit, PTL DEF Seats!Spec

(* Nobody is enrolled beyond the capacity of that very moment: the number  *)
(* of active enrollments grows by one, in an active program with room for  *)
(* it, however many enroll at once.                                        *)
THEOREM SeatsGrowInRoom == Spec => [][\A p \in Programs : Grows(p)]_<<offer, seated>>
<1>1. PoolTyped /\ [Seats!Next]_<<offer, seated>> =>
        [\A p \in Programs : Grows(p)]_<<offer, seated>>
  BY PoolStep
<1> QED BY <1>1, PoolTypes, SeatPoolImplemented, PTL DEF ImplementsSeatPool, Seats!Spec

(* A program is over its capacity only after an edit that lowered the      *)
(* capacity, or made the program active, with more seated than it allows:  *)
(* if no edit does that, active enrollments never exceed the capacity.     *)
THEOREM NeverOverbooked ==
  Spec /\ [][\A p \in Programs : offer'[p] # offer[p] => Fits(p)']_<<offer, seated>>
    => [](\A p \in Programs : Fits(p))
<1> DEFINE AllFit == \A p \in Programs : Fits(p)
           EditsFit == \A p \in Programs : offer'[p] # offer[p] => Fits(p)'
<1>1. Seats!Init => AllFit
  BY PoolInit
<1>2. AllFit /\ UNCHANGED <<offer, seated>> => AllFit'
  BY DEF Fits
<1>3. PoolTyped /\ AllFit /\ [Seats!Next]_<<offer, seated>> /\ [EditsFit]_<<offer, seated>>
        => AllFit'
  BY <1>2, PoolStep
<1> HIDE DEF AllFit, EditsFit
<1>4. Spec /\ [][EditsFit]_<<offer, seated>> => []AllFit
  BY <1>1, <1>3, PoolTypes, SeatPoolImplemented, PTL DEF ImplementsSeatPool, Seats!Spec
<1> QED BY <1>4 DEF AllFit, EditsFit

-----------------------------------------------------------------------------
(* Who changes an enrollment that is there.                                *)

(* The program's deletion, or a request at its write, about the row of the *)
(* id it has looked up: a drop deletes it, a save keeps its id.            *)
LEMMA StepEdits ==
  ASSUME Inv, [Next]_vars, NEW p \in Programs, NEW u \in Members,
         enrollment[p][u] # Null, enrollment'[p][u] # enrollment[p][u]
  PROVE  \/ program'[p] = Null
         \/ \E r \in Requests :
              /\ req[r].program = p /\ req[r].user = u
              /\ req[r].held.id = enrollment[p][u].id
              /\ \/ At(r, "enrollment.remove") /\ enrollment'[p][u] = Null
                 \/ /\ At(r, "enrollment.save")
                    /\ enrollment'[p][u] # Null
                    /\ enrollment'[p][u].id = enrollment[p][u].id
<1>0. /\ enrollment \in [Programs -> [Members -> EnrollmentRow \cup {Null}]]
      /\ program \in [Programs -> ProgramRow \cup {Null}]
  BY DEF Inv, TypeOK
<1>1. PICK r \in Requests : EnrollInsert(r) \/ RemoveProgram(r) \/ EnrollmentStep(r)
  <2>1. enrollment' # enrollment
    OBVIOUS
  <2>2. PICK r \in Requests : Arrive(r) \/ Step(r) \/ Abort(r)
    BY <2>1 DEF Next, CreateProgram, vars
  <2>3. ~Arrive(r) /\ ~Abort(r)
    BY <2>1 DEF Arrive, UpdateProgram, DeleteProgram, Enroll, Drop, UpdateStatus, Abort
  <2> QED BY <2>1, <2>2, <2>3 DEF Step, EnrollStep, ProgramStep, EnrollLock,
            EnrollRefused, EnrollCount, EnrollExists, LoadProgram, SaveProgram,
            ReinsertProgram
<1>2. CASE EnrollInsert(r)
  BY <1>0, <1>2 DEF EnrollInsert, SetEnrollment
<1>3. CASE RemoveProgram(r)
  <2>1. p = req[r].program
    BY <1>0, <1>3 DEF RemoveProgram
  <2> QED BY <1>0, <1>3, <2>1 DEF RemoveProgram, SetProgram
<1>4. CASE EnrollmentStep(r)
  <2>1. /\ p = req[r].program /\ u = req[r].user
        /\ req[r].pc \in EnrollmentSteps => req[r].held \in EnrollmentRow
    BY <1>4, EnrollmentStepRows DEF Inv, TypeOK, RequestOK
  <2>2. ASSUME NEW row, SetEnrollment(p, u, row) PROVE enrollment'[p][u] = row
    BY <1>0, <2>2 DEF SetEnrollment
  <2>3. CASE SaveEnrollment(r)
    <3> DEFINE diff == req[r].diff
               row == [id |-> RowOf(r).id,
                       status |-> IF "status" \in diff THEN req[r].held["status"]
                                  ELSE RowOf(r)["status"],
                       completedAt |-> IF "completedAt" \in diff
                                         THEN req[r].held["completedAt"]
                                         ELSE RowOf(r)["completedAt"]]
    <3>1. RowOf(r) # Null /\ SetEnrollment(p, u, row)
      BY <2>1, <2>3 DEF SaveEnrollment
    <3>2. RowOf(r) \in EnrollmentRow /\ req[r].held \in EnrollmentRow
      <4>1. RowOf(r) = enrollment[p][u]
        BY <2>1, <3>1 DEF RowOf
      <4>2. req[r].held \in EnrollmentRow
        BY <2>1, <2>3 DEF SaveEnrollment, At, EnrollmentSteps
      <4> QED BY <1>0, <4>1, <4>2
    <3>3. row \in EnrollmentRow /\ row.id = RowOf(r).id
      BY <3>2 DEF EnrollmentRow
    <3>4. RowOf(r) = enrollment[p][u] /\ req[r].held.id = enrollment[p][u].id
      BY <2>1, <3>1 DEF RowOf
    <3>5. At(r, "enrollment.save")
      BY <2>3 DEF SaveEnrollment
    <3> HIDE DEF row
    <3> QED BY <2>1, <2>2, <3>1, <3>3, <3>4, <3>5, RowAssumption
  <2>4. CASE RemoveEnrollment(r)
    BY <2>1, <2>2, <2>4 DEF RemoveEnrollment, RowOf
  <2>5. CASE LoadEnrollment(r) \/ ReinsertEnrollment(r)
    BY <2>1, <2>5 DEF LoadEnrollment, ReinsertEnrollment
  <2> QED BY <1>4, <2>3, <2>4, <2>5 DEF EnrollmentStep
<1> QED BY <1>1, <1>2, <1>3, <1>4

(* A request that comes late leaves the next enrollment of a member alone. *)
THEOREM EditsBindHolds == Spec => EditsBind
<1>1. Inv /\ [Next]_vars =>
        [\A p \in Programs, u \in Members :
           enrollment[p][u] # Null /\ enrollment'[p][u] # enrollment[p][u] =>
             \/ program'[p] = Null
             \/ \E r \in Requests :
                  /\ req[r].pc \in {"enrollment.save", "enrollment.remove"}
                  /\ req[r].program = p /\ req[r].user = u
                  /\ req[r].held.id = enrollment[p][u].id
                  /\ enrollment'[p][u] # Null =>
                       enrollment'[p][u].id = enrollment[p][u].id]_enrollment
  BY StepEdits DEF At
<1> QED BY <1>1, InvHolds, PTL DEF Spec, EditsBind

-----------------------------------------------------------------------------
(* How a completed enrollment can be lost.                                 *)

(* A drop deletes by the id of an enrollment it has read as active.        *)
DropsRead == \A r \in Requests : At(r, "enrollment.remove") => req[r].held.status = "active"

LEMMA DropsReadNext == TypeOK /\ DropsRead /\ [Next]_vars => DropsRead'
<1> SUFFICES ASSUME TypeOK, DropsRead, [Next]_vars PROVE DropsRead'
  OBVIOUS
<1>0. req \in [Requests -> RequestState]
  BY DEF TypeOK
<1>f. ASSUME NEW r \in Requests, Finish(r) PROVE DropsRead'
  BY <1>0, <1>f DEF Finish, Idle, DropsRead, At
<1>g. ASSUME NEW r \in Requests, NEW step, NEW held, NEW diff, Goto(r, step, held, diff),
             step # "enrollment.remove"
      PROVE  DropsRead'
  BY <1>0, <1>g DEF Goto, At, DropsRead
<1>b. ASSUME NEW r \in Requests, NEW step, NEW p, NEW u, NEW held, Begin(r, step, p, u, held),
             step = "enrollment.remove" => held.status = "active"
      PROVE  DropsRead'
  BY <1>0, <1>b DEF Begin, At, DropsRead
<1>1. CASE UNCHANGED req
  BY <1>1 DEF DropsRead, At
<1>2. ASSUME NEW r \in Requests, Arrive(r) PROVE DropsRead'
  <2>1. ASSUME NEW p \in Programs, NEW u \in Members, Drop(r, p, u) PROVE DropsRead'
    BY <1>b, <2>1 DEF Drop, IsActive
  <2> QED BY <1>b, <1>2, <2>1 DEF Arrive, UpdateProgram, DeleteProgram, Enroll, UpdateStatus
<1>3. ASSUME NEW r \in Requests, Step(r) PROVE DropsRead'
  <2>1. CASE EnrollStep(r)
    BY <1>f, <1>g, <2>1 DEF EnrollStep, EnrollLock, EnrollRefused, EnrollCount,
         EnrollExists, EnrollInsert
  <2>2. CASE ProgramStep(r)
    BY <1>f, <1>g, <2>2 DEF ProgramStep, LoadProgram, SaveProgram, ReinsertProgram,
         RemoveProgram
  <2>3. CASE EnrollmentStep(r)
    BY <1>f, <1>g, <2>3 DEF EnrollmentStep, RemoveEnrollment, LoadEnrollment,
         SaveEnrollment, ReinsertEnrollment
  <2> QED BY <1>3, <2>1, <2>2, <2>3 DEF Step
<1> QED BY <1>1, <1>2, <1>3, <1>f DEF Next, CreateProgram, Abort, vars

(* A completed enrollment is deleted only together with its program, or by *)
(* a drop that read this very enrollment while it was active.              *)
THEOREM CompletionLostInOneWay == Spec => CompletionLostOnlyToDrop
<1>1. Init => DropsRead
  BY DEF Init, DropsRead, At, Idle
<1>2. Inv /\ DropsRead /\ [Next]_vars => DropsRead'
  BY DropsReadNext DEF Inv
<1>3. Inv /\ DropsRead /\ [Next]_vars =>
        [\A p \in Programs, u \in Members :
           enrollment[p][u] # Null /\ enrollment[p][u].status = "completed"
             /\ enrollment'[p][u] = Null =>
             \/ program'[p] = Null
             \/ \E r \in Requests :
                  /\ At(r, "enrollment.remove")
                  /\ req[r].program = p /\ req[r].user = u
                  /\ req[r].held.id = enrollment[p][u].id
                  /\ req[r].held.status = "active"]_enrollment
  BY StepEdits DEF DropsRead, At
<1> QED BY <1>1, <1>2, <1>3, InvHolds, PTL DEF Spec, CompletionLostOnlyToDrop

-----------------------------------------------------------------------------
(* A completed enrollment has a time of completion, unless two changes of  *)
(* its status overlap.                                                     *)

Patching(r) == req[r].pc \in {"enrollment.load", "enrollment.save"}
OnePatch ==
  \A q, r \in Requests :
    Patching(q) /\ Patching(r) /\ req[q].program = req[r].program /\ req[q].user = req[r].user
      => q = r

Timed(row) == row.status = "completed" => row.completedAt # Null
CompletedTimed ==
  \A p \in Programs, u \in Members : enrollment[p][u] # Null => Timed(enrollment[p][u])

(* The columns save() noted are still those in which its entity differs.   *)
DiffExact(r) ==
  At(r, "enrollment.save") /\ req[r].diff # Null /\ RowOf(r) # Null =>
    /\ "status" \in req[r].diff <=> req[r].held.status # RowOf(r).status
    /\ "completedAt" \in req[r].diff <=> req[r].held.completedAt # RowOf(r).completedAt

TimeInv ==
  /\ CompletedTimed
  /\ \A r \in Requests : (Patching(r) => Timed(req[r].held)) /\ DiffExact(r)

(* A status change in flight began now, has noted its columns now, or is   *)
(* where it was.                                                           *)
LEMMA PatchFrom ==
  ASSUME TypeOK, [Next]_vars, NEW q \in Requests, Patching(q)', req'[q] # req[q]
  PROVE  \/ LoadEnrollment(q)
         \/ \E p \in Programs, u \in Members, status \in {"completed", "dropped"} :
              UpdateStatus(q, p, u, status)
<1>0. req \in [Requests -> RequestState]
  BY DEF TypeOK
<1>f. ASSUME NEW r \in Requests, Finish(r) PROVE FALSE
  BY <1>0, <1>f DEF Finish, Idle, Patching
<1>g. ASSUME NEW r \in Requests, NEW step, NEW held, NEW diff, Goto(r, step, held, diff),
             step \notin {"enrollment.load", "enrollment.save"}
      PROVE  FALSE
  BY <1>0, <1>g DEF Goto, Patching
<1>b. ASSUME NEW r \in Requests, NEW step, NEW p, NEW u, NEW held, Begin(r, step, p, u, held),
             step \notin {"enrollment.load", "enrollment.save"}
      PROVE  FALSE
  BY <1>0, <1>b DEF Begin, Patching
<1>1. PICK r \in Requests : Arrive(r) \/ Step(r) \/ Abort(r)
  BY DEF Next, CreateProgram, vars
<1>2. CASE Arrive(r)
  <2>1. PICK p \in Programs, u \in Members, status \in {"completed", "dropped"} :
          UpdateStatus(r, p, u, status)
    BY <1>b, <1>2 DEF Arrive, UpdateProgram, DeleteProgram, Enroll, Drop
  <2>2. r = q
    BY <1>0, <2>1 DEF UpdateStatus, Begin
  <2> QED BY <2>1, <2>2
<1>3. CASE Step(r)
  <2>1. LoadEnrollment(r)
    BY <1>f, <1>g, <1>3 DEF Step, EnrollStep, ProgramStep, EnrollmentStep,
         EnrollLock, EnrollRefused, EnrollCount, EnrollExists, EnrollInsert,
         LoadProgram, SaveProgram, ReinsertProgram, RemoveProgram,
         RemoveEnrollment, SaveEnrollment, ReinsertEnrollment
  <2>2. r = q
    BY <1>0, <2>1 DEF LoadEnrollment, Goto
  <2> QED BY <2>1, <2>2
<1> QED BY <1>1, <1>2, <1>3, <1>f DEF Abort

LEMMA RowFrom ==
  ASSUME Inv, TimeInv, [Next]_vars, NEW p \in Programs, NEW u \in Members,
         enrollment'[p][u] # Null, enrollment'[p][u] # enrollment[p][u]
  PROVE  \/ enrollment'[p][u].status = "active" /\ enrollment'[p][u].id \in FreshIds(p, u)
         \/ \E r \in Requests : /\ Patching(r) /\ req[r].program = p /\ req[r].user = u
                               /\ ~Patching(r)' /\ Timed(enrollment'[p][u])
<1>0. /\ enrollment \in [Programs -> [Members -> EnrollmentRow \cup {Null}]]
      /\ req \in [Requests -> RequestState]
  BY DEF Inv, TypeOK
<1>1. PICK r \in Requests : EnrollInsert(r) \/ RemoveProgram(r) \/ EnrollmentStep(r)
  <2>1. enrollment' # enrollment
    OBVIOUS
  <2>2. PICK r \in Requests : Arrive(r) \/ Step(r) \/ Abort(r)
    BY <2>1 DEF Next, CreateProgram, vars
  <2>3. ~Arrive(r) /\ ~Abort(r)
    BY <2>1 DEF Arrive, UpdateProgram, DeleteProgram, Enroll, Drop, UpdateStatus, Abort
  <2> QED BY <2>1, <2>2, <2>3 DEF Step, EnrollStep, ProgramStep, EnrollLock,
            EnrollRefused, EnrollCount, EnrollExists, LoadProgram, SaveProgram,
            ReinsertProgram
<1>2. CASE EnrollInsert(r)
  <2>1. PICK id \in FreshIds(req[r].program, req[r].user) :
          SetEnrollment(req[r].program, req[r].user,
                        [id |-> id, status |-> "active", completedAt |-> Null])
    BY <1>2 DEF EnrollInsert
  <2>2. p = req[r].program /\ u = req[r].user
    BY <1>0, <2>1 DEF SetEnrollment
  <2> QED BY <1>0, <2>1, <2>2 DEF SetEnrollment
<1>3. ~RemoveProgram(r)
  <2>1. ASSUME RemoveProgram(r) PROVE enrollment'[p][u] = Null \/ enrollment'[p] = enrollment[p]
    BY <1>0, <2>1 DEF RemoveProgram
  <2> QED BY <2>1
<1>4. CASE EnrollmentStep(r)
  <2>1. /\ p = req[r].program /\ u = req[r].user
        /\ req[r].pc \in EnrollmentSteps => req[r].held \in EnrollmentRow
    BY <1>4, EnrollmentStepRows DEF Inv, TypeOK, RequestOK
  <2>2. ASSUME NEW row, SetEnrollment(p, u, row) PROVE enrollment'[p][u] = row
    BY <1>0, <2>2 DEF SetEnrollment
  <2>3. CASE SaveEnrollment(r)
    <3> DEFINE diff == req[r].diff
               row == [id |-> RowOf(r).id,
                       status |-> IF "status" \in diff THEN req[r].held["status"]
                                  ELSE RowOf(r)["status"],
                       completedAt |-> IF "completedAt" \in diff
                                         THEN req[r].held["completedAt"]
                                         ELSE RowOf(r)["completedAt"]]
    <3>1. RowOf(r) # Null /\ diff # Null /\ SetEnrollment(p, u, row) /\ Finish(r)
          /\ At(r, "enrollment.save")
      BY <2>1, <2>3 DEF SaveEnrollment
    <3>2. Patching(r) /\ ~Patching(r)'
      BY <1>0, <3>1 DEF Patching, At, Finish, Idle
    <3>3. row.status = req[r].held.status /\ row.completedAt = req[r].held.completedAt
      BY <3>1 DEF TimeInv, DiffExact
    <3>4. Timed(row)
      BY <3>2, <3>3 DEF TimeInv, Timed
    <3> HIDE DEF row
    <3> QED BY <2>1, <2>2, <3>1, <3>2, <3>4
  <2>4. CASE ReinsertEnrollment(r)
    <3>1. SetEnrollment(p, u, req[r].held) /\ Finish(r) /\ At(r, "enrollment.save")
      BY <2>1, <2>4 DEF ReinsertEnrollment
    <3>2. Patching(r) /\ ~Patching(r)'
      BY <1>0, <3>1 DEF Patching, At, Finish, Idle
    <3> QED BY <2>1, <2>2, <3>1, <3>2 DEF TimeInv
  <2>5. ~RemoveEnrollment(r) /\ ~LoadEnrollment(r)
    BY <2>1, <2>2 DEF RemoveEnrollment, LoadEnrollment
  <2> QED BY <1>4, <2>3, <2>4, <2>5 DEF EnrollmentStep
<1> QED BY <1>1, <1>2, <1>3, <1>4

LEMMA TimeNext ==
  ASSUME Inv, TimeInv, OnePatch, [Next]_vars
  PROVE  TimeInv'
<1>0. /\ enrollment \in [Programs -> [Members -> EnrollmentRow \cup {Null}]]
      /\ req \in [Requests -> RequestState]
  BY DEF Inv, TypeOK
<1>1. CompletedTimed'
  <2>1. ASSUME NEW p \in Programs, NEW u \in Members, enrollment'[p][u] # Null
        PROVE  Timed(enrollment'[p][u])
    <3>1. CASE enrollment'[p][u] = enrollment[p][u]
      BY <2>1, <3>1 DEF TimeInv, CompletedTimed
    <3>2. CASE enrollment'[p][u] # enrollment[p][u]
      BY <2>1, <3>2, RowFrom DEF Timed
    <3> QED BY <3>1, <3>2
  <2> QED BY <2>1 DEF CompletedTimed, Timed
<1>2. ASSUME NEW q \in Requests, Patching(q)', req'[q] # req[q], LoadEnrollment(q)
      PROVE  Timed(req'[q].held) /\ DiffExact(q)'
  <2>1. /\ req'[q].program = req[q].program /\ req'[q].user = req[q].user
        /\ req'[q].held = req[q].held /\ enrollment' = enrollment /\ Patching(q)
        /\ req'[q].diff = DiffColumns(RowOf(q), req[q].held, {"status", "completedAt"})
    BY <1>0, <1>2 DEF LoadEnrollment, Goto, At, Patching
  <2>2. RowOf(q)' = RowOf(q)
    BY <2>1 DEF RowOf
  <2>3. DiffExact(q)'
    BY <2>1, <2>2 DEF DiffExact, DiffColumns
  <2> QED BY <2>1, <2>3 DEF TimeInv
<1>3. ASSUME NEW q \in Requests, Patching(q)', NEW p \in Programs, NEW u \in Members,
             NEW status \in {"completed", "dropped"}, UpdateStatus(q, p, u, status)
      PROVE  Timed(req'[q].held) /\ DiffExact(q)'
  <2>1. PICK now \in Now(p, u) :
          Begin(q, "enrollment.load", p, u, Marked(enrollment[p][u], status, now))
    BY <1>3 DEF UpdateStatus
  <2>2. enrollment[p][u] \in EnrollmentRow /\ now # Null
    BY <1>0, <1>3, StampAssumption DEF UpdateStatus, Now
  <2>3. Timed(Marked(enrollment[p][u], status, now))
    BY <2>2 DEF Timed, Marked, EnrollmentRow
  <2>4. req'[q].pc = "enrollment.load" /\ req'[q].held = Marked(enrollment[p][u], status, now)
    BY <1>0, <2>1 DEF Begin
  <2> QED BY <2>3, <2>4 DEF DiffExact, At
<1>4. ASSUME NEW q \in Requests, Patching(q)', req'[q] = req[q]
      PROVE  Timed(req'[q].held) /\ DiffExact(q)'
  <2> DEFINE p == req[q].program
             u == req[q].user
  <2>1. Patching(q) /\ p \in Programs /\ u \in Members
    BY <1>4 DEF Patching, Inv, TypeOK, RequestOK, At, EnrollmentSteps
  <2>2. ASSUME RowOf(q)' # Null PROVE RowOf(q)' = RowOf(q)
    <3>1. /\ RowOf(q)' = enrollment'[p][u] /\ enrollment'[p][u] # Null
          /\ enrollment'[p][u].id = req[q].held.id
      BY <1>4, <2>2 DEF RowOf
    <3>2. req[q].held.id \notin FreshIds(p, u)
      <4>1. q \in Editing(p, u)
        BY <2>1 DEF Editing, Patching, EnrollmentSteps
      <4>2. req[q].held \in EnrollmentRow
        BY <2>1 DEF Patching, Inv, TypeOK, RequestOK, EnrollmentSteps
      <4>3. req[q].held \in Known(p, u)
        BY <4>1, <4>2, RowAssumption DEF Known
      <4> QED BY <4>3 DEF FreshIds
    <3>3. ~(\E r \in Requests : Patching(r) /\ req[r].program = p /\ req[r].user = u
                                /\ ~Patching(r)')
      BY <1>4, <2>1 DEF OnePatch
    <3> HIDE DEF p, u
    <3>4. enrollment'[p][u] = enrollment[p][u]
      BY <2>1, <3>1, <3>2, <3>3, RowFrom
    <3> QED BY <3>1, <3>4 DEF RowOf, p, u
  <2>3. DiffExact(q)'
    BY <1>4, <2>2 DEF DiffExact, TimeInv, At
  <2> QED BY <1>4, <2>1, <2>3 DEF TimeInv
<1>5. ASSUME NEW q \in Requests
      PROVE  (Patching(q)' => Timed(req'[q].held)) /\ DiffExact(q)'
  <2>1. CASE Patching(q)'
    BY <1>2, <1>3, <1>4, <2>1, PatchFrom DEF Inv
  <2>2. CASE ~Patching(q)'
    BY <2>2 DEF Patching, DiffExact, At
  <2> QED BY <2>1, <2>2
<1> QED BY <1>1, <1>5 DEF TimeInv, Timed

(* If no two changes of one enrollment's status overlap, a completed       *)
(* enrollment has its time of completion, whatever drops, new enrollments  *)
(* and deletions of the program fall between save()'s SELECT and UPDATE    *)
(* (enrollments.repository.ts:41-50).  Two that overlap, one of them from  *)
(* before an earlier completion, can leave one without.                    *)
THEOREM CompletedTimedIfSerial == Spec /\ []OnePatch => []CompletedTimed
<1>1. Init => TimeInv
  BY DEF Init, TimeInv, CompletedTimed, Patching, DiffExact, At, Idle
<1>2. Inv /\ TimeInv /\ OnePatch /\ [Next]_vars => TimeInv'
  BY TimeNext
<1>3. TimeInv => CompletedTimed
  BY DEF TimeInv
<1> QED BY <1>1, <1>2, <1>3, InvHolds, PTL DEF Spec
=============================================================================
