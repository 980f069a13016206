---------------------------- MODULE Verification ---------------------------
(***************************************************************************)
(* How accounts come to be verified (auth.service.ts): a code of six       *)
(* digits is stored with the account and mailed, who enters a code is      *)
(* looked up by the code alone, and Google's word verifies as well.        *)
(*                                                                         *)
(* A code's ten minutes are a flag that drops at some time.  Anybody may   *)
(* enter any code: right, mistyped or another's.  The password, sessions   *)
(* and the mail itself are left out.                                       *)
(***************************************************************************)
CONSTANTS
  People,        \* addresses, each of one account at most
  Codes,         \* codes an account may be given
  Visits,        \* request slots: a slot serves one call at a time
  None           \* a null column, nobody

ASSUME NoneAssumption == None \notin Codes

VARIABLES
  person,        \* person[u]: the account of address u
  visit,         \* visit[v]: where request v stands, and for whom
  overlapped     \* accounts that became verified while a code was stored, or
                 \* about to be stored, that this did not clear: history

verificationVars == <<person, visit, overlapped>>

NoPerson == [stage |-> "none", code |-> None, fresh |-> FALSE]
NoVisit == [pc |-> "idle", user |-> None]

VerificationInit ==
  /\ person = [u \in People |-> NoPerson]
  /\ visit = [v \in Visits |-> NoVisit]
  /\ overlapped = {}

Stands(v, step) == visit[v].pc = step
Visited(v, step, u) == visit' = [visit EXCEPT ![v] = [pc |-> step, user |-> u]]
Leaves(v) == visit' = [visit EXCEPT ![v] = NoVisit]

Stage(u, stage) == person[u].stage = stage

-----------------------------------------------------------------------------
(* Codes.                                                                  *)

(* findByEmail, in register: the address is free.                          *)
RegisterVisit(v, u) ==
  /\ Stands(v, "idle")
  /\ Stage(u, "none")
  /\ Visited(v, "person.insert", u)
  /\ UNCHANGED <<person, overlapped>>

(* The address is unique.                                                  *)
InsertPerson(v) ==
  LET u == visit[v].user IN
  /\ Stands(v, "person.insert")
  /\ IF Stage(u, "none")
       THEN /\ person' = [person EXCEPT ![u].stage = "registered"]
            /\ Visited(v, "code.set", u)
       ELSE Leaves(v) /\ UNCHANGED person
  /\ UNCHANGED overlapped

(* Mutant: a code is sent to verified accounts too.                        *)
ResendAnyway(v, u) ==
  /\ Stands(v, "idle")
  /\ ~Stage(u, "none")
  /\ Visited(v, "code.set", u)
  /\ UNCHANGED <<person, overlapped>>

ResendVerification(v, u) ==
  /\ Stands(v, "idle")
  /\ Stage(u, "registered")
  /\ Visited(v, "code.set", u)
  /\ UNCHANGED <<person, overlapped>>

(* The UPDATE does not ask whether the account is verified.                *)
SetVerificationToken(v) ==
  /\ Stands(v, "code.set")
  /\ \E x \in Codes :
       person' = [person EXCEPT ![visit[v].user] = [@ EXCEPT !.code = x, !.fresh = TRUE]]
  /\ Leaves(v)
  /\ UNCHANGED overlapped

CodeLapses(u) ==
  /\ person[u].fresh
  /\ person' = [person EXCEPT ![u].fresh = FALSE]
  /\ UNCHANGED <<visit, overlapped>>

-----------------------------------------------------------------------------
(* Verifying.                                                              *)

(* The account is looked up by the code, and any one found if several have *)
(* it; that account's lapse and stage decide.                              *)
Found(x) == {u \in People : person[u].code = x}
VerifyEmail(v, x) ==
  /\ Stands(v, "idle")
  /\ \/ \E u \in Found(x) :
          person[u].fresh /\ Stage(u, "registered") /\ Visited(v, "verify.mark", u)
     \/ /\ Found(x) = {} \/ \E u \in Found(x) : ~person[u].fresh \/ Stage(u, "verified")
        /\ UNCHANGED visit
  /\ UNCHANGED <<person, overlapped>>

(* A code that will outlast the verification of u by request v.            *)
Outlasts(v, u, code) ==
  \/ code # None
  \/ \E w \in Visits \ {v} : Stands(w, "code.set") /\ visit[w].user = u
Verified(v, u, code) ==
  /\ person' = [person EXCEPT ![u] = [@ EXCEPT !.stage = "verified", !.code = code]]
  /\ overlapped' = IF Outlasts(v, u, code) THEN overlapped \cup {u} ELSE overlapped
  /\ Leaves(v)

MarkAsVerified(v) ==
  /\ Stands(v, "verify.mark")
  /\ Verified(v, visit[v].user, None)

(* googleSignIn of an address Google has not linked before.                *)
GoogleVisit(v, u) ==
  /\ Stands(v, "idle")
  /\ Visited(v, IF Stage(u, "none") THEN "google.insert" ELSE "google.link", u)
  /\ UNCHANGED <<person, overlapped>>

GoogleInsert(v) ==
  LET u == visit[v].user IN
  /\ Stands(v, "google.insert")
  /\ IF Stage(u, "none")
       THEN Verified(v, u, None)
       ELSE Leaves(v) /\ UNCHANGED <<person, overlapped>>

(* linkGoogleId leaves the code in its column.                             *)
LinkGoogleId(v) ==
  LET u == visit[v].user IN
  /\ Stands(v, "google.link")
  /\ Verified(v, u, person[u].code)

(* A request dies with its process or connection.                          *)
AbandonVisit(v) ==
  /\ ~Stands(v, "idle")
  /\ Leaves(v)
  /\ UNCHANGED <<person, overlapped>>

Comes(v) ==
  \/ \E u \in People : RegisterVisit(v, u) \/ ResendVerification(v, u) \/ GoogleVisit(v, u)
  \/ \E x \in Codes : VerifyEmail(v, x)

VerificationNext ==
  \/ \E v \in Visits :
       \/ Comes(v) \/ AbandonVisit(v)
       \/ InsertPerson(v) \/ SetVerificationToken(v) \/ MarkAsVerified(v)
       \/ GoogleInsert(v) \/ LinkGoogleId(v)
  \/ \E u \in People : CodeLapses(u)

VerificationSpec == VerificationInit /\ [][VerificationNext]_verificationVars

-----------------------------------------------------------------------------
(* Properties.                                                             *)

(* A verified account keeps a code only if the code was being stored while *)
(* the account was verified, or Google verified it (auth.service.ts:89-118,*)
(* users.repository.ts:45-83).  A code kept is not harmless: the lookup may*)
(* find it in place of another account's equal one, and refuse that.       *)
LeftoverOnlyByOverlap ==
  \A u \in People :
    Stage(u, "verified") /\ person[u].code # None => u \in overlapped
=============================================================================
