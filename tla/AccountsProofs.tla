---------------------------- MODULE AccountsProofs --------------------------
(***************************************************************************)
(* Proofs about Sessions, for every set of requests and access tokens,     *)
(* every resolution of the clock and every life of a token; then about     *)
(* Verification and Organizations, for every value of their constants.     *)
(***************************************************************************)
EXTENDS Sessions, Verification, Organizations, TLAPS

USE ClockAssumption, NullAssumption, NoAccountAssumption

-----------------------------------------------------------------------------
(* Sessions: the clock in ticks and in seconds.                            *)

LEMMA Whole ==
  ASSUME NEW n \in Nat, NEW d \in Nat \ {0}
  PROVE  n \div d \in Nat /\ d * (n \div d) <= n /\ n < d * (n \div d) + d
OBVIOUS

LEMMA Floor ==
  ASSUME NEW n \in Nat, NEW d \in Nat \ {0}, NEW e \in Nat
  PROVE  n \div d < e <=> n < d * e
<1> DEFINE q == n \div d
<1>0. q \in Nat /\ d * q <= n /\ n < d * q + d
  BY Whole
<1> HIDE DEF q
<1>1. ASSUME q < e PROVE n < d * e
  <2>1. d * (q + 1) <= d * e
    BY <1>0, <1>1
  <2> QED BY <1>0, <2>1
<1>2. ASSUME n < d * e PROVE q < e
  <2>1. SUFFICES ASSUME e <= q PROVE FALSE
    BY <1>0
  <2>2. d * e <= d * q
    BY <1>0, <2>1
  <2> QED BY <1>0, <1>2, <2>2
<1> QED BY <1>1, <1>2 DEF q

LEMMA SecondsType == now \in Nat => Seconds \in Nat
BY Whole DEF Seconds

LEMMA Grows ==
  ASSUME NEW n \in Nat, NEW m \in {n, n + 1}, NEW d \in Nat \ {0}
  PROVE  n \div d <= m \div d
<1> DEFINE q == n \div d
<1>1. q \in Nat /\ d * q <= n /\ m \in Nat /\ m \div d \in Nat
  BY Whole
<1> HIDE DEF q
<1>2. ~(m < d * q) /\ ~(m \div d < q)
  BY <1>1, Floor
<1> QED BY <1>1, <1>2 DEF q

LEMMA SecondsGrow ==
  ASSUME now \in Nat, now' \in {now, now + 1}
  PROVE  Seconds' \in Nat /\ Seconds <= Seconds'
<1> SUFFICES ASSUME NEW m, m = now'
             PROVE  m \div Second \in Nat /\ Seconds <= m \div Second
  BY DEF Seconds
<1>1. m \in Nat /\ m \in {now, now + 1}
  OBVIOUS
<1>2. m \div Second \in Nat
  BY <1>1, Whole
<1>3. now \div Second <= m \div Second
  BY <1>1, Grows
<1> QED BY <1>2, <1>3 DEF Seconds

-----------------------------------------------------------------------------
(* The inductive invariant.                                                *)

AccountlessSteps == {"idle", "register.create", "google.find", "google.create"}
LogoutSteps == {"logout.clear", "logout.ttl", "logout.blacklist"}

(* Who updates the account, and who holds a token, found it there.         *)
AccountExists ==
  /\ \A r \in Requests : req[r].pc \notin AccountlessSteps => account # Null
  /\ \A a \in Tokens : expiry[a] # Null => account # Null

(* The token being logged out was issued.                                  *)
Issued ==
  \A r \in Requests : req[r].pc \in LogoutSteps => expiry[req[r].token] # Null

(* What is asked of Redis reaches to the token's expiry, or beyond.        *)
LongEnough ==
  \A r \in Requests :
    At(r, "logout.blacklist") => expiry[req[r].token] <= Seconds + req[r].secs

(* A logged-out token has expired, or is on the blacklist until it does.   *)
Covered ==
  \A a \in loggedOut : expiry[a] <= Seconds \/ Second * expiry[a] <= blacklist[a]

(* After a quiet clearing nobody is about to store a token.                *)
NobodyStores ==
  cleared = "quiet" =>
    /\ account # Null /\ ~account.refresh
    /\ \A r \in Requests : req[r].pc \notin StoringSteps

Inv ==
  /\ TypeOK /\ AccountExists /\ Issued
  /\ LongEnough /\ Covered /\ NobodyStores

LEMMA InitInv == Init => Inv
BY DEF Init, Inv, TypeOK, AccountExists, Issued, LongEnough, Covered, NobodyStores,
       Idle, RequestState, PlainSteps, At, AccountlessSteps, LogoutSteps, StoringSteps,
       SigningIn

-----------------------------------------------------------------------------
(* Type correctness.                                                       *)

Requests_ == req \in [Requests -> RequestState]

LEMMA RequestAt ==
  ASSUME Requests_, NEW r \in Requests
  PROVE  /\ req[r] \in RequestState
         /\ req[r].pc \in PlainSteps => req[r] = [pc |-> req[r].pc, token |-> Null, secs |-> Null]
         /\ req[r].pc \in {"store", "refresh.store"} => req[r].token = Null /\ req[r].secs \in Nat
         /\ req[r].pc \in LogoutSteps => req[r].token \in Tokens
         /\ At(r, "logout.blacklist") => req[r].secs \in Nat \ {0}
         /\ req[r].pc \in {"logout.clear", "logout.ttl"} => req[r].secs = Null
BY DEF Requests_, RequestState, PlainSteps, SigningIn, LogoutSteps, At

LEMMA StepTypes ==
  ASSUME Requests_, NEW r \in Requests, NEW s \in RequestState,
         req' = [req EXCEPT ![r] = s]
  PROVE  Requests_'
BY DEF Requests_

LEMMA ArriveSteps ==
  ASSUME NEW r \in Requests, Arrive(r)
  PROVE  \/ \E next \in {"store", "refresh.store"} : Sign(r, next)
         \/ \E next \in PlainSteps : Goto(r, next)
         \/ \E a \in Tokens : Logout(r, a)
BY DEF Arrive, Register, Login, Google, Refresh, ForgotPassword, ResetPassword,
       ChangePassword, Begin, Goto, PlainSteps, SigningIn

LEMMA RequestTypes ==
  ASSUME TypeOK, Issued, [Next]_vars
  PROVE  Requests_'
<1>0. Requests_ /\ Seconds \in Nat
  BY SecondsType DEF TypeOK, Requests_
<1>1. CASE UNCHANGED req
  BY <1>0, <1>1 DEF Requests_
<1>2. ASSUME NEW r \in Requests, Finish(r) PROVE Requests_'
  <2>1. Idle \in RequestState
    BY DEF Idle, RequestState, PlainSteps
  <2> QED BY <1>0, <1>2, <2>1, StepTypes DEF Finish
<1>3. ASSUME NEW r \in Requests, NEW next \in {"store", "refresh.store"}, Sign(r, next)
      PROVE  Requests_'
  <2>1. [pc |-> next, token |-> Null, secs |-> Seconds + Life] \in RequestState
    BY <1>0 DEF RequestState
  <2> QED BY <1>0, <1>3, <2>1, StepTypes DEF Sign
<1>4. ASSUME NEW r \in Requests, NEW next \in PlainSteps, Goto(r, next),
             req[r].pc \in PlainSteps
      PROVE  Requests_'
  <2>1. [req[r] EXCEPT !.pc = next] \in RequestState
    <3>1. req[r] = [pc |-> req[r].pc, token |-> Null, secs |-> Null]
      BY <1>0, <1>4, RequestAt
    <3> QED BY <3>1 DEF RequestState
  <2> QED BY <1>0, <1>4, <2>1 DEF Goto, Requests_
<1>5. ASSUME NEW r \in Requests, Arrive(r) PROVE Requests_'
  <2>1. At(r, "idle") /\ "idle" \in PlainSteps
    BY <1>5 DEF Arrive, Register, Login, Google, Refresh, ForgotPassword,
         ResetPassword, Logout, ChangePassword, Begin, PlainSteps
  <2>2. CASE \E next \in {"store", "refresh.store"} : Sign(r, next)
    BY <1>3, <2>2
  <2>3. CASE \E next \in PlainSteps : Goto(r, next)
    BY <1>4, <2>1, <2>3 DEF At
  <2>4. ASSUME NEW a \in Tokens, Logout(r, a) PROVE Requests_'
    BY <1>0, <2>4, StepTypes DEF Logout, RequestState
  <2> QED BY <1>5, <2>2, <2>3, <2>4, ArriveSteps
<1>6. ASSUME NEW r \in Requests,
             RegisterCreate(r) \/ GoogleFind(r) \/ GoogleLink(r) \/ GoogleCreate(r)
      PROVE  Requests_'
  <2>1. req[r].pc \in PlainSteps
    BY <1>6 DEF RegisterCreate, GoogleFind, GoogleLink, GoogleCreate, At,
         PlainSteps, SigningIn
  <2>2. \/ Finish(r)
        \/ Sign(r, "store")
        \/ \E next \in PlainSteps : Goto(r, next)
    BY <1>6 DEF RegisterCreate, GoogleFind, GoogleLink, GoogleCreate, Create,
         PlainSteps, SigningIn
  <2> QED BY <1>2, <1>3, <1>4, <2>1, <2>2
<1>7. ASSUME NEW r \in Requests, UpdatePassword(r) PROVE Requests_'
  BY <1>4, <1>7 DEF UpdatePassword, At, PlainSteps
<1>8. ASSUME NEW r \in Requests, LogoutClear(r) PROVE Requests_'
  <2>1. [req[r] EXCEPT !.pc = "logout.ttl"] \in RequestState
    BY <1>0, <1>8, RequestAt DEF LogoutClear, At, RequestState, LogoutSteps, PlainSteps, SigningIn
  <2> QED BY <1>0, <1>8, <2>1 DEF LogoutClear, Goto, Requests_
<1>9. ASSUME NEW r \in Requests, LogoutTtl(r) PROVE Requests_'
  <2> DEFINE remaining == expiry[req[r].token] - Seconds
  <2>1. CASE Finish(r)
    BY <1>2, <2>1
  <2>2. CASE ~Finish(r)
    <3>1. At(r, "logout.ttl") /\ remaining > 0 /\ Blacklisting(r, remaining)
      BY <1>9, <2>2 DEF LogoutTtl, KeepFor
    <3>2. req[r].token \in Tokens
      BY <1>0, <3>1, RequestAt DEF At, LogoutSteps
    <3>3. remaining \in Nat \ {0}
      BY <1>0, <3>1, <3>2 DEF TypeOK, Issued, At, LogoutSteps
    <3> HIDE DEF remaining
    <3> QED BY <1>0, <3>1, <3>2, <3>3, StepTypes DEF Blacklisting, RequestState
  <2> QED BY <2>1, <2>2
<1> QED
  BY <1>1, <1>2, <1>5, <1>6, <1>7, <1>8, <1>9
  DEF Next, vars, Continue, Store, LogoutBlacklist, SetPasswordReset, PasswordClear,
      Tick, ResetLapses, Abort

LEMMA NewAccountTypes ==
  NewAccount(TRUE, FALSE) \in Account /\ NewAccount(FALSE, TRUE) \in Account
BY Zenon DEF NewAccount, Account

(* The account is updated only where it exists, and never deleted.         *)
LEMMA AccountTypes ==
  ASSUME TypeOK, AccountExists, [Next]_vars
  PROVE  account' \in Account \cup {Null} /\ (account # Null => account' # Null)
<1> DEFINE Goal == account' \in Account \cup {Null} /\ (account # Null => account' # Null)
<1>1. CASE UNCHANGED account
  BY <1>1 DEF TypeOK
<1>2. CASE account' \in Account
  BY <1>2
<1>3. ASSUME NEW r \in Requests, req[r].pc \notin AccountlessSteps
      PROVE  account \in Account
  BY <1>3 DEF TypeOK, AccountExists
<1>4. ASSUME NEW r \in Requests, RegisterCreate(r) \/ GoogleCreate(r) PROVE Goal
  BY <1>1, <1>2, <1>4, NewAccountTypes DEF RegisterCreate, GoogleCreate, Create
<1>5. ASSUME NEW r \in Requests, GoogleLink(r) PROVE Goal
  <2>1. account \in Account
    BY <1>3, <1>5 DEF GoogleLink, At, AccountlessSteps
  <2> QED BY <1>5, <2>1 DEF GoogleLink, Account
<1>6. ASSUME NEW r \in Requests, Store(r) PROVE Goal
  <2>1. account \in Account
    BY <1>3, <1>6 DEF Store, At, AccountlessSteps
  <2> QED BY <1>6, <2>1 DEF Store, Account
<1>7. ASSUME NEW r \in Requests, LogoutClear(r) \/ PasswordClear(r) PROVE Goal
  <2>1. account \in Account
    BY <1>3, <1>7 DEF LogoutClear, PasswordClear, At, AccountlessSteps
  <2> QED BY <1>7, <2>1 DEF LogoutClear, PasswordClear, Clear, Account
<1>8. ASSUME NEW r \in Requests, SetPasswordReset(r) PROVE Goal
  <2>1. account \in Account
    BY <1>3, <1>8 DEF SetPasswordReset, At, AccountlessSteps
  <2> QED BY <1>8, <2>1 DEF SetPasswordReset, Account
<1>9. ASSUME NEW r \in Requests, UpdatePassword(r) PROVE Goal
  <2>1. account \in Account
    BY <1>3, <1>9 DEF UpdatePassword, At, AccountlessSteps
  <2>2. account' = [account EXCEPT !.password = TRUE, !.reset = FALSE]
    BY <1>9 DEF UpdatePassword
  <2>3. account' = [password |-> TRUE, google |-> account.google,
                    refresh |-> account.refresh, reset |-> FALSE]
    BY <2>1, <2>2, Zenon DEF Account
  <2>4. account.google \in BOOLEAN /\ account.refresh \in BOOLEAN
    BY <2>1 DEF Account
  <2>5. account' \in Account
    BY <2>3, <2>4, Zenon DEF Account
  <2> QED BY <2>5
<1>10. CASE ResetLapses
  BY <1>10 DEF ResetLapses, TypeOK, Account
<1> QED
  BY <1>1, <1>4, <1>5, <1>6, <1>7, <1>8, <1>9, <1>10
  DEF Next, vars, Arrive, Continue, Register, Login, Google, Refresh, ForgotPassword,
      ResetPassword, Logout, ChangePassword, GoogleFind, LogoutTtl, KeepFor,
      LogoutBlacklist, Tick, Abort

(* An issued token keeps its expiry; only its logout's answer adds it to   *)
(* loggedOut.                                                              *)
LEMMA AccessTypes ==
  ASSUME TypeOK, Issued, [Next]_vars
  PROVE  /\ expiry' \in [Tokens -> Nat \cup {Null}]
         /\ blacklist' \in [Tokens -> Nat]
         /\ loggedOut' \subseteq {a \in Tokens : expiry'[a] # Null}
         /\ \A a \in Tokens : expiry[a] # Null => expiry'[a] = expiry[a]
<1> DEFINE Goal == /\ expiry' \in [Tokens -> Nat \cup {Null}]
                   /\ blacklist' \in [Tokens -> Nat]
                   /\ loggedOut' \subseteq {a \in Tokens : expiry'[a] # Null}
                   /\ \A a \in Tokens : expiry[a] # Null => expiry'[a] = expiry[a]
<1>0. Requests_
  BY DEF TypeOK, Requests_
<1>1. CASE UNCHANGED <<expiry, blacklist, loggedOut>>
  BY <1>1 DEF TypeOK
<1>2. ASSUME NEW r \in Requests, Store(r) PROVE Goal
  <2>1. req[r].secs \in Nat
    BY <1>0, <1>2, RequestAt DEF Store, At
  <2> QED BY <1>2, <2>1 DEF Store, TypeOK
<1>3. ASSUME NEW r \in Requests, LogoutTtl(r) PROVE Goal
  <2>1. req[r].token \in Tokens /\ expiry[req[r].token] # Null
    BY <1>0, <1>3, RequestAt DEF LogoutTtl, KeepFor, At, Issued, LogoutSteps
  <2> QED BY <1>3, <2>1 DEF LogoutTtl, KeepFor, Answered, TypeOK
<1>4. ASSUME NEW r \in Requests, LogoutBlacklist(r) PROVE Goal
  <2>1. /\ req[r].token \in Tokens /\ expiry[req[r].token] # Null
        /\ req[r].secs \in Nat
    BY <1>0, <1>4, RequestAt DEF LogoutBlacklist, At, Issued, LogoutSteps
  <2>2. now + Second * req[r].secs \in Nat
    BY <2>1 DEF TypeOK
  <2> QED BY <1>4, <2>1, <2>2 DEF LogoutBlacklist, Answered, TypeOK
<1> QED
  BY <1>1, <1>2, <1>3, <1>4
  DEF Next, vars, Access, Arrive, Continue, Register, Login, Google, Refresh,
      ForgotPassword, ResetPassword, Logout, ChangePassword, RegisterCreate, GoogleFind,
      GoogleLink, GoogleCreate, LogoutClear, SetPasswordReset, UpdatePassword,
      PasswordClear, Tick, ResetLapses, Abort

LEMMA OtherTypes ==
  ASSUME TypeOK, [Next]_vars
  PROVE  now' \in {now, now + 1} /\ cleared' \in {"no", "racing", "quiet"}
BY DEF TypeOK, Next, vars, Arrive, Continue, Register, Login, Google, Refresh,
       ForgotPassword, ResetPassword, Logout, ChangePassword, RegisterCreate, GoogleFind,
       GoogleLink, GoogleCreate, Store, LogoutClear, LogoutTtl, KeepFor, LogoutBlacklist,
       SetPasswordReset, UpdatePassword, PasswordClear, Clear, SignInArrives, Tick,
       ResetLapses, Abort

LEMMA TypeStep == Inv /\ [Next]_vars => TypeOK'
<1> SUFFICES ASSUME Inv, [Next]_vars PROVE TypeOK'
  OBVIOUS
<1>1. TypeOK /\ AccountExists /\ Issued
  BY DEF Inv
<1>2. now' \in Nat
  BY <1>1, OtherTypes DEF TypeOK
<1> QED BY <1>1, <1>2, RequestTypes, AccountTypes, AccessTypes, OtherTypes
     DEF TypeOK, Requests_

-----------------------------------------------------------------------------
(* The rest of the invariant.                                              *)

LEMMA ExistsStep == Inv /\ [Next]_vars => AccountExists'
<1> SUFFICES ASSUME Inv, [Next]_vars, account' = Null
             PROVE  /\ \A r \in Requests : req'[r].pc \in AccountlessSteps
                    /\ \A a \in Tokens : expiry'[a] = Null
  BY DEF AccountExists
<1>1. TypeOK /\ AccountExists /\ account = Null
  BY AccountTypes DEF Inv
<1>2. /\ \A r \in Requests : req[r].pc \in AccountlessSteps
      /\ \A a \in Tokens : expiry[a] = Null
  BY <1>1 DEF AccountExists
<1>3. req \in [Requests -> RequestState]
  BY <1>1 DEF TypeOK
<1>4. ASSUME NEW q \in Requests, NEW step \in AccountlessSteps, Goto(q, step) \/ Finish(q),
             UNCHANGED expiry
      PROVE  /\ \A r \in Requests : req'[r].pc \in AccountlessSteps
             /\ \A a \in Tokens : expiry'[a] = Null
  <2>1. ASSUME NEW r \in Requests PROVE req'[r].pc \in AccountlessSteps
    <3>1. CASE r = q
      BY <1>3, <1>4, <3>1 DEF Goto, Finish, Idle, AccountlessSteps, RequestState
    <3>2. CASE r # q
      BY <1>2, <1>3, <1>4, <3>2 DEF Goto, Finish
    <3> QED BY <3>1, <3>2
  <2> QED BY <1>2, <1>4, <2>1
<1>5. ASSUME NEW q \in Requests, Arrive(q)
      PROVE  UNCHANGED expiry /\ (Goto(q, "register.create") \/ Goto(q, "google.find"))
  BY <1>1, <1>2, <1>5 DEF Arrive, Register, Login, Google, Refresh, ForgotPassword,
       ResetPassword, Logout, ChangePassword, Accepted, Begin, Goto, Access
<1>6. ASSUME NEW q \in Requests, Continue(q)
      PROVE  UNCHANGED expiry /\ Goto(q, "google.create")
  <2>1. ~RegisterCreate(q) /\ ~GoogleCreate(q)
    BY <1>1, NewAccountTypes DEF RegisterCreate, GoogleCreate, Create
  <2> QED BY <1>1, <1>2, <1>6, <2>1
       DEF Continue, GoogleFind, GoogleLink, Store, LogoutClear, LogoutTtl, KeepFor,
           LogoutBlacklist, SetPasswordReset, UpdatePassword, PasswordClear, At,
           AccountlessSteps, Access
<1>7. CASE UNCHANGED <<req, expiry>>
  BY <1>2, <1>7
<1> QED
  BY <1>4, <1>5, <1>6, <1>7
  DEF Next, vars, AccountlessSteps, Abort, Tick, ResetLapses, Access

(* A request that is logging a token out goes on with it, or begins.       *)
LEMMA LogoutSource ==
  ASSUME Inv, [Next]_vars, NEW r \in Requests, req'[r].pc \in LogoutSteps
  PROVE  /\ req'[r].token \in Tokens
         /\ expiry[req'[r].token] # Null
         /\ req'[r].pc = "logout.blacklist" =>
              \/ req'[r] = req[r]
              \/ req'[r].secs = expiry[req'[r].token] - Seconds /\ UNCHANGED now
<1> DEFINE Goal == /\ req'[r].token \in Tokens
                   /\ expiry[req'[r].token] # Null
                   /\ req'[r].pc = "logout.blacklist" =>
                        \/ req'[r] = req[r]
                        \/ req'[r].secs = expiry[req'[r].token] - Seconds /\ UNCHANGED now
<1>1. req \in [Requests -> RequestState] /\ Requests_ /\ Issued
  BY DEF Inv, TypeOK, Requests_
<1>2. CASE req'[r] = req[r]
  BY <1>1, <1>2, RequestAt DEF Issued
<1>3. ASSUME NEW q \in Requests, NEW a \in Tokens, Logout(q, a) PROVE Goal
  <2>1. CASE q = r
    BY <1>1, <1>3, <2>1 DEF Logout, Accepted
  <2> QED BY <1>1, <1>2, <1>3, <2>1 DEF Logout
<1>4. ASSUME NEW q \in Requests, LogoutClear(q) PROVE Goal
  <2>1. CASE q = r
    BY <1>1, <1>4, <2>1, RequestAt DEF LogoutClear, Goto, At, Issued, LogoutSteps
  <2> QED BY <1>1, <1>2, <1>4, <2>1 DEF LogoutClear, Goto
<1>5. ASSUME NEW q \in Requests, LogoutTtl(q) PROVE Goal
  <2>1. CASE q = r
    <3>1. ~Finish(q)
      BY <1>1, <2>1 DEF Finish, Idle, LogoutSteps
    <3>2. Blacklisting(q, expiry[req[r].token] - Seconds) /\ At(q, "logout.ttl") /\ UNCHANGED now
      BY <1>5, <2>1, <3>1 DEF LogoutTtl, KeepFor
    <3> QED BY <1>1, <2>1, <3>2, RequestAt DEF Blacklisting, At, Issued, LogoutSteps
  <2> QED BY <1>1, <1>2, <1>5, <2>1 DEF LogoutTtl, KeepFor, Blacklisting, Finish
<1>6. ASSUME NEW q \in Requests, Finish(q) PROVE Goal
  BY <1>1, <1>2, <1>6 DEF Finish, Idle, LogoutSteps
<1>7. ASSUME NEW q \in Requests, NEW step, step \notin LogoutSteps, Goto(q, step)
      PROVE  Goal
  BY <1>1, <1>2, <1>7 DEF Goto
<1>8. ASSUME NEW q \in Requests, NEW step \in {"store", "refresh.store"}, Sign(q, step)
      PROVE  Goal
  BY <1>1, <1>2, <1>8 DEF Sign, LogoutSteps
<1>9. ASSUME NEW q \in Requests, Arrive(q) PROVE Goal
  <2>1. \A step \in PlainSteps : step \notin LogoutSteps
    BY DEF PlainSteps, SigningIn, LogoutSteps
  <2> QED BY <1>3, <1>7, <1>8, <1>9, <2>1, ArriveSteps
<1>10. ASSUME NEW q \in Requests, Continue(q) PROVE Goal
  BY <1>4, <1>5, <1>6, <1>7, <1>8, <1>10
  DEF Continue, RegisterCreate, GoogleFind, GoogleLink, GoogleCreate, Create, Store,
      LogoutBlacklist, SetPasswordReset, UpdatePassword, PasswordClear, LogoutSteps
<1> QED BY <1>2, <1>6, <1>9, <1>10 DEF Next, vars, Abort, Tick, ResetLapses

LEMMA IssuedStep == Inv /\ [Next]_vars => Issued'
<1> SUFFICES ASSUME Inv, [Next]_vars, NEW r \in Requests, req'[r].pc \in LogoutSteps
             PROVE  expiry'[req'[r].token] # Null
  BY DEF Issued
<1>1. req'[r].token \in Tokens /\ expiry[req'[r].token] # Null
  BY LogoutSource
<1> QED BY <1>1, AccessTypes DEF Inv

LEMMA LongEnoughStep == Inv /\ [Next]_vars => LongEnough'
<1> SUFFICES ASSUME Inv, [Next]_vars, NEW r \in Requests,
                    req'[r].pc = "logout.blacklist"
             PROVE  expiry'[req'[r].token] <= Seconds' + req'[r].secs
  BY DEF LongEnough, At
<1> DEFINE e == expiry[req'[r].token]
<1>1. /\ req'[r].token \in Tokens /\ e # Null
      /\ \/ req'[r] = req[r]
         \/ req'[r].secs = e - Seconds /\ UNCHANGED now
  BY LogoutSource DEF LogoutSteps
<1>2. e \in Nat /\ expiry'[req'[r].token] = e
  BY <1>1, AccessTypes DEF Inv, TypeOK
<1>3. Seconds \in Nat /\ Seconds' \in Nat /\ Seconds <= Seconds'
  BY SecondsType, SecondsGrow, OtherTypes DEF Inv, TypeOK
<1>4. CASE req'[r] = req[r]
  <2>1. At(r, "logout.blacklist") /\ req[r].secs \in Nat
    BY <1>4, RequestAt DEF At, Inv, TypeOK, Requests_
  <2>2. e <= Seconds + req[r].secs
    BY <1>4, <2>1 DEF Inv, LongEnough
  <2> HIDE DEF e
  <2> QED BY <1>2, <1>3, <1>4, <2>1, <2>2
<1>5. CASE req'[r].secs = e - Seconds /\ UNCHANGED now
  <2> HIDE DEF e
  <2>1. Seconds' = Seconds
    BY <1>5 DEF Seconds
  <2> QED BY <1>2, <1>3, <1>5, <2>1
<1> QED BY <1>1, <1>4, <1>5

(* The blacklist's key is set, also for a second time, for long enough.    *)
LEMMA CoveredStep == Inv /\ [Next]_vars => Covered'
<1> SUFFICES ASSUME Inv, [Next]_vars, NEW a \in loggedOut'
             PROVE  expiry'[a] <= Seconds' \/ Second * expiry'[a] <= blacklist'[a]
  BY DEF Covered
<1>1. /\ a \in Tokens /\ expiry'[a] \in Nat
      /\ expiry[a] # Null => expiry'[a] = expiry[a] /\ expiry[a] \in Nat
  BY AccessTypes DEF Inv, TypeOK
<1>2. Seconds \in Nat /\ Seconds' \in Nat /\ Seconds <= Seconds'
  BY SecondsType, SecondsGrow, OtherTypes DEF Inv, TypeOK
<1>3. a \in loggedOut => expiry[a] # Null
  BY DEF Inv, TypeOK
<1>4. blacklist \in [Tokens -> Nat] /\ now \in Nat /\ Requests_
  BY DEF Inv, TypeOK, Requests_
<1>5. CASE a \in loggedOut /\ blacklist'[a] = blacklist[a]
  BY <1>1, <1>2, <1>3, <1>5 DEF Inv, Covered
<1>6. ASSUME NEW r \in Requests, LogoutBlacklist(r), a = req[r].token
      PROVE  Second * expiry'[a] <= blacklist'[a]
  <2> DEFINE k == req[r].secs
  <2>1. k \in Nat /\ expiry[a] # Null /\ expiry[a] <= Seconds + k
    BY <1>4, <1>6, RequestAt DEF LogoutBlacklist, At, Inv, Issued, LongEnough, LogoutSteps
  <2>2. blacklist'[a] = now + Second * k
    BY <1>1, <1>4, <1>6 DEF LogoutBlacklist
  <2>3. Second * Seconds <= now
    BY <1>4, Whole DEF Seconds
  <2> HIDE DEF k
  <2>4. Second * expiry[a] <= Second * (Seconds + k)
    BY <1>1, <1>2, <2>1
  <2>5. Second * (Seconds + k) = Second * Seconds + Second * k
    BY <1>2, <2>1
  <2>6. Second * expiry[a] \in Nat /\ Second * Seconds \in Nat /\ Second * k \in Nat
    BY <1>1, <1>2, <2>1
  <2>7. Second * expiry[a] <= now + Second * k
    BY <1>4, <2>3, <2>4, <2>5, <2>6
  <2> QED BY <1>1, <2>1, <2>2, <2>7
<1>7. ASSUME NEW r \in Requests, LogoutBlacklist(r), a # req[r].token
      PROVE  a \in loggedOut /\ blacklist'[a] = blacklist[a]
  BY <1>1, <1>4, <1>7 DEF LogoutBlacklist, Answered
<1>8. ASSUME NEW r \in Requests, LogoutTtl(r)
      PROVE  \/ expiry'[a] <= Seconds'
             \/ a \in loggedOut /\ blacklist'[a] = blacklist[a]
  <2>1. CASE a \in loggedOut
    BY <1>8, <2>1 DEF LogoutTtl, KeepFor
  <2>2. CASE a \notin loggedOut
    <3>1. /\ a = req[r].token /\ expiry' = expiry /\ now' = now
          /\ At(r, "logout.ttl") /\ ~(expiry[a] - Seconds > 0)
      BY <1>8, <2>2 DEF LogoutTtl, KeepFor, Answered
    <3>2. Seconds' = Seconds
      BY <3>1 DEF Seconds
    <3> QED BY <1>1, <1>2, <3>1, <3>2
  <2> QED BY <2>1, <2>2
<1>9. \/ \E r \in Requests : LogoutTtl(r) \/ LogoutBlacklist(r)
      \/ a \in loggedOut /\ blacklist'[a] = blacklist[a]
  BY DEF Next, vars, Access, Arrive, Continue, Register, Login, Google, Refresh,
         ForgotPassword, ResetPassword, Logout, ChangePassword, RegisterCreate, GoogleFind,
         GoogleLink, GoogleCreate, Store, LogoutClear, SetPasswordReset, UpdatePassword,
         PasswordClear, Tick, ResetLapses, Abort
<1> QED BY <1>5, <1>6, <1>7, <1>8, <1>9

(* A quiet clearing stays quiet until a sign-in arrives: a refresh cannot. *)
LEMMA NobodyStoresStep == Inv /\ [Next]_vars => NobodyStores'
<1> DEFINE Goal == /\ account' # Null /\ ~account'.refresh
                   /\ \A r \in Requests : req'[r].pc \notin StoringSteps
<1> SUFFICES ASSUME Inv, [Next]_vars, cleared' = "quiet" PROVE Goal
  BY DEF NobodyStores
<1>1. Requests_ /\ req \in [Requests -> RequestState] /\ AccountExists
  BY DEF Inv, TypeOK, Requests_
<1>2. ASSUME NEW q \in Requests, NEW step, step \notin StoringSteps,
             Goto(q, step) \/ Finish(q),
             \A r \in Requests : req[r].pc \notin StoringSteps
      PROVE  \A r \in Requests : req'[r].pc \notin StoringSteps
  <2>1. ASSUME NEW r \in Requests PROVE req'[r].pc \notin StoringSteps
    <3>1. CASE r = q
      BY <1>1, <1>2, <3>1
      DEF Goto, Finish, Idle, RequestState, StoringSteps, SigningIn
    <3>2. CASE r # q
      BY <1>1, <1>2, <3>2 DEF Goto, Finish
    <3> QED BY <3>1, <3>2
  <2> QED BY <2>1
<1>3. ASSUME NEW q \in Requests, LogoutClear(q) \/ PasswordClear(q) PROVE Goal
  <2>1. account \in Account
    BY <1>1, <1>3 DEF LogoutClear, PasswordClear, At, AccountExists, AccountlessSteps,
         Inv, TypeOK
  <2>2. Clear /\ \A r \in Requests : req[r].pc \notin StoringSteps
    BY <1>3 DEF LogoutClear, PasswordClear, Clear
  <2>3. account' \in Account /\ ~account'.refresh
    BY <2>1, <2>2 DEF Clear, Account
  <2>4. \A r \in Requests : req'[r].pc \notin StoringSteps
    BY <1>2, <1>3, <2>2 DEF LogoutClear, PasswordClear, StoringSteps, SigningIn
  <2> QED BY <2>3, <2>4
<1>4. CASE cleared = "quiet"
  <2>1. /\ account \in Account /\ ~account.refresh
        /\ \A r \in Requests : req[r].pc \notin StoringSteps
    BY <1>4 DEF Inv, NobodyStores, TypeOK
  <2>2. ASSUME NEW q \in Requests, Arrive(q)
        PROVE  Goal
    <3>1. \/ \E step \in {"forgot.set", "password.update"} : Goto(q, step)
          \/ \E a \in Tokens : Logout(q, a)
      BY <2>1, <2>2 DEF Arrive, Register, Login, Google, Refresh, ForgotPassword,
           ResetPassword, ChangePassword, SignInArrives, Begin, Goto
    <3>2. UNCHANGED account
      BY <2>2 DEF Arrive, Register, Login, Google, Refresh, ForgotPassword,
           ResetPassword, ChangePassword, Logout
    <3>3. ASSUME NEW a \in Tokens, Logout(q, a)
          PROVE  \A r \in Requests : req'[r].pc \notin StoringSteps
      BY <1>1, <2>1, <3>3 DEF Logout, StoringSteps, SigningIn
    <3>4. ASSUME NEW step \in {"forgot.set", "password.update"}, Goto(q, step)
          PROVE  \A r \in Requests : req'[r].pc \notin StoringSteps
      <4>1. step \notin StoringSteps
        BY <3>4 DEF StoringSteps, SigningIn
      <4> QED BY <1>2, <2>1, <3>4, <4>1
    <3> QED BY <2>1, <3>1, <3>2, <3>3, <3>4
  <2>3. ASSUME NEW q \in Requests, Continue(q), ~LogoutClear(q), ~PasswordClear(q)
        PROVE  Goal
    <3>1. ~At(q, "store") /\ ~At(q, "refresh.store") /\ req[q].pc \notin SigningIn
      BY <2>1 DEF At, StoringSteps, SigningIn
    <3>2. \/ LogoutTtl(q) \/ LogoutBlacklist(q)
          \/ SetPasswordReset(q) \/ UpdatePassword(q)
      BY <2>3, <3>1 DEF Continue, RegisterCreate, GoogleFind, GoogleLink, GoogleCreate,
           Store, At, SigningIn
    <3>3. account' # Null /\ ~account'.refresh
      <4>1. CASE UNCHANGED account
        BY <2>1, <4>1
      <4>2. CASE SetPasswordReset(q)
        BY <2>1, <4>2, AccountTypes DEF SetPasswordReset, Account, Inv
      <4>3. CASE UpdatePassword(q)
        <5>1. account' = [account EXCEPT !.password = TRUE, !.reset = FALSE]
          BY <4>3 DEF UpdatePassword
        <5>2. account' = [password |-> TRUE, google |-> account.google,
                          refresh |-> account.refresh, reset |-> FALSE]
          BY <2>1, <5>1, Zenon DEF Account
        <5> QED BY <2>1, <5>2, AccountTypes DEF Inv
      <4> QED BY <3>2, <4>1, <4>2, <4>3 DEF LogoutTtl, KeepFor, LogoutBlacklist
    <3>4. CASE LogoutTtl(q)
      BY <1>1, <1>2, <2>1, <3>3, <3>4
      DEF LogoutTtl, KeepFor, Blacklisting, StoringSteps, SigningIn
    <3>5. CASE ~LogoutTtl(q)
      <4>1. Finish(q) \/ Goto(q, "password.clear")
        BY <3>2, <3>5 DEF LogoutBlacklist, SetPasswordReset, UpdatePassword
      <4>2. "password.clear" \notin StoringSteps
        BY DEF StoringSteps, SigningIn
      <4> QED BY <1>2, <2>1, <3>3, <4>1, <4>2
    <3> QED BY <3>4, <3>5
  <2>4. ASSUME NEW q \in Requests, Abort(q) PROVE Goal
    <3>1. "idle" \notin StoringSteps
      BY DEF StoringSteps, SigningIn
    <3> QED BY <1>2, <2>1, <2>4, <3>1 DEF Abort
  <2>5. CASE Tick \/ UNCHANGED vars
    BY <2>1, <2>5 DEF Tick, vars
  <2>6. CASE ResetLapses
    BY <2>1, <2>6, AccountTypes DEF ResetLapses, Account, Inv
  <2> QED BY <1>3, <2>2, <2>3, <2>4, <2>5, <2>6 DEF Next
<1>5. CASE cleared # "quiet"
  <2>1. \E q \in Requests : LogoutClear(q) \/ PasswordClear(q)
    BY <1>5 DEF Next, vars, Arrive, Continue, Register, Login, Google, Refresh,
         ForgotPassword, ResetPassword, Logout, ChangePassword, SignInArrives,
         RegisterCreate, GoogleFind, GoogleLink, GoogleCreate, Store, LogoutTtl, KeepFor,
         LogoutBlacklist, SetPasswordReset, UpdatePassword, Tick, ResetLapses, Abort
  <2> QED BY <1>3, <2>1
<1> QED BY <1>4, <1>5

LEMMA InvHolds == Spec => []Inv
<1>1. Inv /\ [Next]_vars => Inv'
  BY TypeStep, ExistsStep, IssuedStep, LongEnoughStep, CoveredStep, NobodyStoresStep
  DEF Inv
<1> QED BY <1>1, InitInv, PTL DEF Spec

-----------------------------------------------------------------------------
(* Every variable keeps its type, and Redis is never asked for a lifetime  *)
(* of zero or less, whatever the clock does during a logout.               *)
THEOREM TypeCorrect == Spec => []TypeOK
<1>1. Inv => TypeOK
  BY DEF Inv
<1> QED BY <1>1, InvHolds, PTL

(* Once its logout is answered an access token is never accepted again.    *)
THEOREM LogoutLastsHolds == Spec => []LogoutLasts
<1>1. Inv => LogoutLasts
  <2> SUFFICES ASSUME Inv, NEW a \in loggedOut, Accepted(a) PROVE FALSE
    BY DEF LogoutLasts
  <2>1. /\ expiry[a] \in Nat /\ now \in Nat /\ blacklist[a] \in Nat
        /\ Seconds \in Nat /\ Seconds < expiry[a] /\ ~(now < blacklist[a])
    BY SecondsType DEF Inv, TypeOK, Accepted
  <2>2. now < Second * expiry[a]
    BY <2>1, Floor DEF Seconds
  <2>3. Second * expiry[a] <= blacklist[a]
    BY <2>1 DEF Inv, Covered
  <2>4. Second * expiry[a] \in Nat
    BY <2>1
  <2> QED BY <2>1, <2>2, <2>3, <2>4
<1> QED BY <1>1, InvHolds, PTL

(* After a clearing that raced with nothing there is no session until      *)
(* somebody signs in: no refresh, reset or late request starts one.        *)
THEOREM StaysOutHolds == Spec => []LoggedOutStaysOut
<1>1. Inv => LoggedOutStaysOut
  BY DEF Inv, NobodyStores, LoggedOutStaysOut
<1> QED BY <1>1, InvHolds, PTL

Clearing(r) == req[r].pc \in {"logout.clear", "password.clear"}
NoRefreshBeside == \A q, r \in Requests : Clearing(q) => ~At(r, "refresh.store")
NotRacing == cleared # "racing"

LEMMA NeverRacing == NoRefreshBeside /\ NotRacing /\ [Next]_vars => NotRacing'
<1> SUFFICES ASSUME NoRefreshBeside, [Next]_vars, cleared' # cleared
             PROVE  cleared' # "racing"
  BY DEF NotRacing
<1>1. ASSUME NEW q \in Requests, LogoutClear(q) \/ PasswordClear(q)
      PROVE  cleared' # "racing"
  <2>1. Clear /\ \A r \in Requests : req[r].pc # "refresh.store"
    BY <1>1 DEF LogoutClear, PasswordClear, At, NoRefreshBeside, Clearing
  <2>2. \/ \E r \in Requests : req[r].pc \in SigningIn
        \/ \A r \in Requests : req[r].pc \notin StoringSteps
    BY <2>1 DEF StoringSteps
  <2> QED BY <2>1, <2>2 DEF Clear
<1>2. \/ cleared' = "no"
      \/ \E q \in Requests : LogoutClear(q) \/ PasswordClear(q)
  BY DEF Next, vars, Arrive, Continue, Register, Login, Google, Refresh,
       ForgotPassword, ResetPassword, Logout, ChangePassword, SignInArrives,
       RegisterCreate, GoogleFind, GoogleLink, GoogleCreate, Store, LogoutTtl, KeepFor,
       LogoutBlacklist, SetPasswordReset, UpdatePassword, Tick, ResetLapses, Abort
<1> QED BY <1>1, <1>2

(* Logging out and changing the password end the session, as README.md:124 *)
(* and 127 say, if no refresh ever stands between its check and its UPDATE *)
(* while they clear the refresh token: that race is the only cause of what *)
(* the run se_v_clear shows.                                               *)
THEOREM ClearingEndsIfNoRefresh ==
  Spec /\ []NoRefreshBeside => []ClearingEndsSessions
<1>1. Init => NotRacing
  BY DEF Init, NotRacing
<1>2. TypeOK /\ LoggedOutStaysOut /\ NotRacing => ClearingEndsSessions
  BY DEF TypeOK, LoggedOutStaysOut, NotRacing, ClearingEndsSessions
<1> QED BY <1>1, <1>2, NeverRacing, TypeCorrect, StaysOutHolds, PTL DEF Spec

-----------------------------------------------------------------------------
(* Verification.                                                           *)

USE NoneAssumption

Personal == [stage : {"none", "registered", "verified"}, code : Codes \cup {None},
             fresh : BOOLEAN]
VisitSteps ==
  {"idle", "person.insert", "code.set", "verify.mark", "google.insert", "google.link"}
VisitorKnown(v) == ~Stands(v, "idle") => visit[v].user \in People
VisitsTyped ==
  /\ visit \in [Visits -> [pc : VisitSteps, user : People \cup {None}]]
  /\ \A v \in Visits : VisitorKnown(v)

(* A code about to be stored with a verified account was on its way when   *)
(* that became verified.                                                   *)
LateCode(v) ==
  Stands(v, "code.set") /\ Stage(visit[v].user, "verified") => visit[v].user \in overlapped

VerificationInv ==
  /\ person \in [People -> Personal]
  /\ VisitsTyped
  /\ \A v \in Visits : LateCode(v)
  /\ LeftoverOnlyByOverlap

LEMMA VerificationInitInv == VerificationInit => VerificationInv
BY DEF VerificationInit, VerificationInv, Personal, VisitsTyped, VisitSteps, VisitorKnown, LateCode,
       LeftoverOnlyByOverlap, NoPerson, NoVisit, Stands, Stage

(* A request that goes on for an account of the tables, or ends, keeps the *)
(* types of requests.                                                      *)
LEMMA VisitedTypes ==
  ASSUME VisitsTyped, NEW v \in Visits, NEW step \in VisitSteps, NEW u \in People, Visited(v, step, u)
  PROVE  /\ VisitsTyped'
         /\ visit'[v] = [pc |-> step, user |-> u]
         /\ \A w \in Visits \ {v} : visit'[w] = visit[w]
BY DEF VisitsTyped, VisitorKnown, Visited, Stands

LEMMA LeavesTypes ==
  ASSUME VisitsTyped, NEW v \in Visits, Leaves(v)
  PROVE  /\ VisitsTyped'
         /\ visit'[v] = NoVisit
         /\ \A w \in Visits \ {v} : visit'[w] = visit[w]
BY DEF VisitsTyped, VisitorKnown, VisitSteps, Leaves, Stands, NoVisit

(* A step that changes no account, and brings no request to storing a code *)
(* for a verified one.                                                     *)
LEMMA VisitOnly ==
  ASSUME VerificationInv, UNCHANGED <<person, overlapped>>, NEW v \in Visits,
         \/ Leaves(v)
         \/ \E step \in VisitSteps, u \in People :
              /\ Visited(v, step, u)
              /\ step = "code.set" => Stage(u, "registered")
  PROVE  VerificationInv'
<1>1. VisitsTyped' /\ \A w \in Visits \ {v} : visit'[w] = visit[w]
  BY VisitedTypes, LeavesTypes DEF VerificationInv
<1>2. LateCode(v)'
  <2>1. CASE Leaves(v)
    BY <2>1, LeavesTypes DEF VerificationInv, LateCode, Stands, NoVisit
  <2>2. CASE ~Leaves(v)
    <3>1. PICK step \in VisitSteps, u \in People :
            Visited(v, step, u) /\ (step = "code.set" => Stage(u, "registered"))
      BY <2>2
    <3>2. visit'[v] = [pc |-> step, user |-> u]
      BY <3>1, VisitedTypes DEF VerificationInv
    <3> QED BY <3>1, <3>2 DEF LateCode, Stands, Stage
  <2> QED BY <2>1, <2>2
<1>3. \A w \in Visits : LateCode(w)'
  BY <1>1, <1>2 DEF VerificationInv, LateCode, Stands, Stage
<1> QED BY <1>1, <1>3 DEF VerificationInv, LeftoverOnlyByOverlap, Stage

LEMMA VerifiedInv ==
  ASSUME VerificationInv, NEW v \in Visits, NEW u \in People, NEW code \in {None, person[u].code},
         Verified(v, u, code)
  PROVE  VerificationInv'
<1>1. VisitsTyped' /\ visit'[v] = NoVisit /\ \A w \in Visits \ {v} : visit'[w] = visit[w]
  BY LeavesTypes DEF VerificationInv, Verified
<1>2. person' \in [People -> Personal]
  BY DEF VerificationInv, Verified, Personal
<1>3. /\ person'[u].stage = "verified" /\ person'[u].code = code
      /\ \A p \in People \ {u} : person'[p] = person[p]
  BY DEF VerificationInv, Verified, Personal
<1>4. overlapped \subseteq overlapped' /\ (Outlasts(v, u, code) => u \in overlapped')
  BY DEF Verified
<1>5. ASSUME NEW w \in Visits PROVE LateCode(w)'
  <2>1. CASE w = v
    BY <1>1, <2>1 DEF LateCode, Stands, NoVisit
  <2>2. CASE w # v
    BY <1>1, <1>3, <1>4, <2>2
       DEF VerificationInv, LateCode, Stands, Stage, Outlasts, VisitsTyped, VisitorKnown
  <2> QED BY <2>1, <2>2
<1>6. LeftoverOnlyByOverlap'
  BY <1>3, <1>4 DEF VerificationInv, LeftoverOnlyByOverlap, Stage, Outlasts
<1> QED BY <1>1, <1>2, <1>5, <1>6 DEF VerificationInv

LEMMA InsertPersonInv ==
  ASSUME VerificationInv, NEW v \in Visits, InsertPerson(v)
  PROVE  VerificationInv'
<1> DEFINE u == visit[v].user
<1>1. u \in People
  BY DEF VerificationInv, VisitsTyped, VisitorKnown, InsertPerson, Stands
<1>2. CASE ~Stage(u, "none")
  BY <1>2, VisitOnly DEF InsertPerson
<1>3. CASE Stage(u, "none")
  <2>1. /\ person' = [person EXCEPT ![u].stage = "registered"]
        /\ Visited(v, "code.set", u) /\ overlapped' = overlapped
    BY <1>3 DEF InsertPerson
  <2>2. person' \in [People -> Personal]
    BY <1>1, <2>1 DEF VerificationInv, Personal
  <2>3. person'[u].stage = "registered" /\ \A p \in People \ {u} : person'[p] = person[p]
    BY <1>1, <2>1 DEF VerificationInv, Personal
  <2>4. /\ VisitsTyped' /\ visit'[v] = [pc |-> "code.set", user |-> u]
        /\ \A w \in Visits \ {v} : visit'[w] = visit[w]
    BY <1>1, <2>1, VisitedTypes DEF VerificationInv, VisitSteps
  <2>5. ASSUME NEW w \in Visits PROVE LateCode(w)'
    <3>1. CASE w = v
      BY <2>3, <2>4, <3>1 DEF LateCode, Stands, Stage
    <3>2. CASE w # v
      BY <2>1, <2>3, <2>4, <3>2 DEF VerificationInv, LateCode, Stands, Stage, VisitsTyped, VisitorKnown
    <3> QED BY <3>1, <3>2
  <2>6. LeftoverOnlyByOverlap'
    BY <2>1, <2>3 DEF VerificationInv, LeftoverOnlyByOverlap, Stage
  <2> QED BY <2>2, <2>4, <2>5, <2>6 DEF VerificationInv
<1> QED BY <1>2, <1>3

LEMMA SetTokenInv ==
  ASSUME VerificationInv, NEW v \in Visits, SetVerificationToken(v)
  PROVE  VerificationInv'
<1> DEFINE u == visit[v].user
<1>1. u \in People /\ LateCode(v)
  BY DEF VerificationInv, VisitsTyped, VisitorKnown, SetVerificationToken, Stands
<1>2. PICK x \in Codes : person' = [person EXCEPT ![u] = [@ EXCEPT !.code = x, !.fresh = TRUE]]
  BY DEF SetVerificationToken
<1>3. person' \in [People -> Personal]
  BY <1>1, <1>2 DEF VerificationInv, Personal
<1>4. /\ \A p \in People : person'[p].stage = person[p].stage
      /\ \A p \in People \ {u} : person'[p] = person[p]
  BY <1>1, <1>2 DEF VerificationInv, Personal
<1>5. VisitsTyped' /\ visit'[v] = NoVisit /\ \A w \in Visits \ {v} : visit'[w] = visit[w]
  BY LeavesTypes DEF VerificationInv, SetVerificationToken
<1>6. overlapped' = overlapped
  BY DEF SetVerificationToken
<1>7. ASSUME NEW w \in Visits PROVE LateCode(w)'
  BY <1>4, <1>5, <1>6 DEF VerificationInv, LateCode, Stands, Stage, NoVisit, VisitsTyped, VisitorKnown
<1>8. LeftoverOnlyByOverlap'
  BY <1>1, <1>4, <1>6
     DEF VerificationInv, LeftoverOnlyByOverlap, Stage, LateCode, SetVerificationToken
<1> QED BY <1>3, <1>5, <1>7, <1>8 DEF VerificationInv

LEMMA LapsesInv ==
  ASSUME VerificationInv, NEW u \in People, CodeLapses(u)
  PROVE  VerificationInv'
<1>1. person' \in [People -> Personal]
  BY DEF VerificationInv, Personal, CodeLapses
<1>2. \A p \in People : person'[p].stage = person[p].stage /\ person'[p].code = person[p].code
  BY DEF VerificationInv, Personal, CodeLapses
<1> QED BY <1>1, <1>2 DEF VerificationInv, VisitsTyped, VisitorKnown, LateCode, Stands, Stage,
           LeftoverOnlyByOverlap, CodeLapses

LEMMA VerificationStep == VerificationInv /\ [VerificationNext]_verificationVars => VerificationInv'
<1> SUFFICES ASSUME VerificationInv, [VerificationNext]_verificationVars
             PROVE  VerificationInv'
  OBVIOUS
<1>1. CASE UNCHANGED verificationVars
  BY <1>1 DEF verificationVars, VerificationInv, VisitsTyped, VisitorKnown, LateCode, Stands, Stage,
     LeftoverOnlyByOverlap
<1>2. ASSUME NEW u \in People, CodeLapses(u) PROVE VerificationInv'
  BY <1>2, LapsesInv
<1>3. ASSUME NEW v \in Visits, Comes(v) PROVE VerificationInv'
  <2>1. UNCHANGED <<person, overlapped>>
    BY <1>3 DEF Comes, RegisterVisit, ResendVerification, GoogleVisit, VerifyEmail
  <2>2. CASE UNCHANGED visit
    BY <2>1, <2>2 DEF VerificationInv, VisitsTyped, VisitorKnown, LateCode, Stands, Stage,
       LeftoverOnlyByOverlap
  <2>3. CASE \E u \in People : RegisterVisit(v, u)
    BY <2>1, <2>3, VisitOnly DEF RegisterVisit, VisitSteps
  <2>4. CASE \E u \in People : ResendVerification(v, u)
    BY <2>1, <2>4, VisitOnly DEF ResendVerification, VisitSteps
  <2>5. CASE \E u \in People : GoogleVisit(v, u)
    <3>1. PICK u \in People :
            \/ Visited(v, "google.insert", u)
            \/ Visited(v, "google.link", u)
      BY <2>5 DEF GoogleVisit
    <3> QED BY <2>1, <3>1, VisitOnly DEF VisitSteps
  <2>6. CASE \E x \in Codes : VerifyEmail(v, x)
    <3>1. PICK x \in Codes : VerifyEmail(v, x)
      BY <2>6
    <3>2. CASE \E u \in Found(x) : Visited(v, "verify.mark", u)
      BY <2>1, <3>2, VisitOnly DEF Found, VisitSteps
    <3> QED BY <2>2, <3>1, <3>2 DEF VerifyEmail
  <2> QED BY <1>3, <2>3, <2>4, <2>5, <2>6 DEF Comes
<1>4. ASSUME NEW v \in Visits, AbandonVisit(v) PROVE VerificationInv'
  BY <1>4, VisitOnly DEF AbandonVisit
<1>5. ASSUME NEW v \in Visits, MarkAsVerified(v) PROVE VerificationInv'
  BY <1>5, VerifiedInv DEF MarkAsVerified, VerificationInv, VisitsTyped, VisitorKnown, Stands
<1>6. ASSUME NEW v \in Visits, LinkGoogleId(v) PROVE VerificationInv'
  BY <1>6, VerifiedInv DEF LinkGoogleId, VerificationInv, VisitsTyped, VisitorKnown, Stands
<1>7. ASSUME NEW v \in Visits, GoogleInsert(v) PROVE VerificationInv'
  <2>1. visit[v].user \in People
    BY <1>7 DEF GoogleInsert, VerificationInv, VisitsTyped, VisitorKnown, Stands
  <2>2. CASE Leaves(v) /\ UNCHANGED <<person, overlapped>>
    BY <2>2, VisitOnly
  <2>3. CASE Verified(v, visit[v].user, None)
    BY <2>1, <2>3, VerifiedInv
  <2> QED BY <1>7, <2>2, <2>3 DEF GoogleInsert
<1> QED BY <1>1, <1>2, <1>3, <1>4, <1>5, <1>6, <1>7, InsertPersonInv, SetTokenInv
        DEF VerificationNext

(* A code outlives the verification of its account only by an overlap, or  *)
(* by Google's word (auth.service.ts:89-118, users.repository.ts:45-83).   *)
THEOREM LeftoverHolds == VerificationSpec => []LeftoverOnlyByOverlap
<1>1. VerificationInv => LeftoverOnlyByOverlap
  BY DEF VerificationInv
<1> QED BY <1>1, VerificationInitInv, VerificationStep, PTL DEF VerificationSpec

-----------------------------------------------------------------------------
(* Organizations.                                                          *)

USE NoOrgAssumption

FoundingSteps == {"create.taken", "create.derive", "create.insert"}
GuardedSteps == {"update.guard", "update.taken", "update.write", "delete.guard", "delete.write"}
CallState ==
  [pc : {"idle"} \cup FoundingSteps \cup GuardedSteps, user : Managers \cup {NoOrg},
   id : OrgIds \cup {NoOrg}, slug : Slugs \cup {NoOrg}, org : Row \cup {NoOrg}]

(* The row a request's guard has read had a slug the owner gave it, and    *)
(* the owner is still the owner, if the organization still is; who is      *)
(* about to delete it is the owner.                                        *)
Recalls(c) ==
  /\ c.id \in OrgIds /\ c.org \in Row
  /\ c.org.slug \in chosen[c.id]
  /\ Exists(c.id) => organization[c.id].owner = c.org.owner

CallSound(c) ==
  /\ c.pc \in FoundingSteps \cup GuardedSteps => c.user \in Managers /\ c.slug \in Slugs
  /\ c.pc \in GuardedSteps => Recalls(c)
  /\ c.pc \in {"update.taken", "update.write"} => c.slug = c.org.slug \/ c.org.owner = c.user
  /\ c.pc = "delete.write" => c.org.owner = c.user

OrganizationsInv ==
  /\ organization \in [OrgIds -> Row \cup {NoOrg}]
  /\ chosen \in [OrgIds -> SUBSET Slugs]
  /\ call \in [Calls -> CallState]
  /\ \A r \in Calls : CallSound(call[r])
  /\ SlugsAreOwners

LEMMA OrganizationsInitInv == OrganizationsInit => OrganizationsInv
BY DEF OrganizationsInit, OrganizationsInv, CallState, CallSound, NoCall, FoundingSteps,
       GuardedSteps, SlugsAreOwners, Exists

(* A step of one request that leaves the organizations alone.              *)
LEMMA CallOnly ==
  ASSUME OrganizationsInv, UNCHANGED <<organization, chosen>>, NEW r \in Calls,
         NEW c \in CallState, CallSound(c), call' = [call EXCEPT ![r] = c]
  PROVE  OrganizationsInv'
<1>1. call' \in [Calls -> CallState]
  BY DEF OrganizationsInv
<1>2. ASSUME NEW q \in Calls PROVE CallSound(call[q])'
  <2>1. CASE q = r
    <3>1. call'[q] = c
      BY <2>1 DEF OrganizationsInv
    <3> QED BY <3>1 DEF CallSound, Recalls, Exists
  <2>2. CASE q # r
    <3>1. call'[q] = call[q] /\ CallSound(call[q])
      BY <2>2 DEF OrganizationsInv
    <3> QED BY <3>1 DEF CallSound, Recalls, Exists
  <2> QED BY <2>1, <2>2
<1> QED BY <1>1, <1>2 DEF OrganizationsInv, SlugsAreOwners, Exists

LEMMA AnswersInv ==
  ASSUME OrganizationsInv, UNCHANGED <<organization, chosen>>, NEW r \in Calls, Answers(r)
  PROVE  OrganizationsInv'
<1>1. NoCall \in CallState /\ CallSound(NoCall)
  BY DEF NoCall, CallState, CallSound, FoundingSteps, GuardedSteps
<1> QED BY <1>1, CallOnly DEF Answers

LEMMA ProceedsInv ==
  ASSUME OrganizationsInv, UNCHANGED <<organization, chosen>>, NEW r \in Calls,
         NEW step \in FoundingSteps \cup GuardedSteps,
         call[r].pc \in FoundingSteps \cup GuardedSteps,
         step \in GuardedSteps => call[r].pc \in GuardedSteps,
         step \in {"update.taken", "update.write"} => Keeps(r) \/ MayRename(r),
         step = "delete.write" => MayRename(r),
         Proceeds(r, step)
  PROVE  OrganizationsInv'
<1> DEFINE c == [call[r] EXCEPT !.pc = step]
<1>1. call[r] \in CallState /\ CallSound(call[r])
  BY DEF OrganizationsInv
<1>2. /\ c \in CallState /\ c.pc = step /\ c.user = call[r].user /\ c.id = call[r].id
      /\ c.slug = call[r].slug /\ c.org = call[r].org
  BY <1>1 DEF CallState
<1>3. CallSound(c)
  BY <1>1, <1>2 DEF CallSound, Recalls, Keeps, MayRename
<1>4. call' = [call EXCEPT ![r] = c]
  BY DEF Proceeds
<1> QED BY <1>2, <1>3, <1>4, CallOnly

(* A step that writes an organization, and answers.  Slugs chosen are never*)
(* forgotten, an organization keeps its owner, and one is founded under a  *)
(* new id only: what other requests recall stays true.                     *)
LEMMA WritesInv ==
  ASSUME OrganizationsInv, NEW r \in Calls, Answers(r),
         organization' \in [OrgIds -> Row \cup {NoOrg}], chosen' \in [OrgIds -> SUBSET Slugs],
         SlugsAreOwners',
         \A o \in OrgIds : chosen[o] \subseteq chosen'[o],
         \A o \in OrgIds : Exists(o)' =>
            chosen[o] = {} \/ (Exists(o) /\ organization'[o].owner = organization[o].owner)
  PROVE  OrganizationsInv'
<1>1. call' \in [Calls -> CallState]
  BY DEF OrganizationsInv, Answers, CallState, NoCall
<1>2. ASSUME NEW q \in Calls PROVE CallSound(call[q])'
  <2>1. CASE q = r
    <3>1. call'[q] = NoCall
      BY <2>1 DEF OrganizationsInv, Answers
    <3> QED BY <3>1 DEF CallSound, NoCall, FoundingSteps, GuardedSteps
  <2>2. CASE q # r
    <3>1. call'[q] = call[q] /\ CallSound(call[q])
      BY <2>2 DEF OrganizationsInv, Answers
    <3> QED BY <3>1 DEF CallSound, Recalls
  <2> QED BY <2>1, <2>2
<1> QED BY <1>1, <1>2 DEF OrganizationsInv

LEMMA InsertInv ==
  ASSUME OrganizationsInv, NEW r \in Calls, InsertOrganization(r)
  PROVE  OrganizationsInv'
<1>1. CASE UNCHANGED <<organization, chosen>>
  BY <1>1, AnswersInv DEF InsertOrganization
<1>2. CASE ~UNCHANGED <<organization, chosen>>
  <2> DEFINE row == [slug |-> call[r].slug, owner |-> call[r].user]
  <2>1. row \in Row /\ call[r].slug \in Slugs
    BY DEF InsertOrganization, OrganizationsInv, CallSound, Awaits, FoundingSteps, Row
  <2>2. PICK o \in OrgIds : /\ chosen[o] = {}
                            /\ organization' = [organization EXCEPT ![o] = row]
                            /\ chosen' = [chosen EXCEPT ![o] = {call[r].slug}]
    BY <1>2 DEF InsertOrganization
  <2>3. /\ organization' \in [OrgIds -> Row \cup {NoOrg}]
        /\ chosen' \in [OrgIds -> SUBSET Slugs]
    BY <2>1, <2>2 DEF OrganizationsInv
  <2>4. SlugsAreOwners'
    BY <2>2 DEF OrganizationsInv, SlugsAreOwners, Exists
  <2>5. \A p \in OrgIds : chosen[p] \subseteq chosen'[p]
    BY <2>2 DEF OrganizationsInv
  <2>6. \A p \in OrgIds : Exists(p)' =>
          chosen[p] = {} \/ (Exists(p) /\ organization'[p].owner = organization[p].owner)
    BY <2>2 DEF OrganizationsInv, Exists
  <2>7. Answers(r)
    BY DEF InsertOrganization
  <2> QED BY <2>3, <2>4, <2>5, <2>6, <2>7, WritesInv
<1> QED BY <1>1, <1>2

(* Who is not the owner repeats the slug his guard has read, one the owner *)
(* gave.                                                                   *)
LEMMA UpdateInv ==
  ASSUME OrganizationsInv, NEW r \in Calls, UpdateWrite(r)
  PROVE  OrganizationsInv'
<1>1. CASE UNCHANGED <<organization, chosen>>
  BY <1>1, AnswersInv DEF UpdateWrite
<1>2. CASE ~UNCHANGED <<organization, chosen>>
  <2> DEFINE o == call[r].id
             s == call[r].slug
  <2>1. /\ o \in OrgIds /\ s \in Slugs /\ Recalls(call[r])
        /\ s = call[r].org.slug \/ call[r].org.owner = call[r].user
    BY DEF UpdateWrite, OrganizationsInv, CallSound, Recalls, Awaits, GuardedSteps
  <2>2. /\ Exists(o) /\ organization' = [organization EXCEPT ![o].slug = s]
        /\ chosen' = IF call[r].user = organization[o].owner
                       THEN [chosen EXCEPT ![o] = @ \cup {s}] ELSE chosen
    BY <1>2 DEF UpdateWrite
  <2>3. organization[o] \in Row
    BY <2>1, <2>2 DEF OrganizationsInv, Exists
  <2>4. /\ organization' \in [OrgIds -> Row \cup {NoOrg}]
        /\ chosen' \in [OrgIds -> SUBSET Slugs]
    BY <2>1, <2>2, <2>3 DEF OrganizationsInv, Row
  <2>5. /\ organization'[o].slug = s /\ organization'[o].owner = organization[o].owner
        /\ \A p \in OrgIds \ {o} : organization'[p] = organization[p]
    BY <2>1, <2>2, <2>3 DEF OrganizationsInv, Row
  <2>6. \A p \in OrgIds : chosen[p] \subseteq chosen'[p]
    BY <2>1, <2>2 DEF OrganizationsInv
  <2>7. s \in chosen'[o]
    <3>1. CASE call[r].user = organization[o].owner
      BY <2>1, <2>2, <3>1 DEF OrganizationsInv
    <3>2. CASE call[r].user # organization[o].owner
      BY <2>1, <2>2, <2>6, <3>2 DEF Recalls
    <3> QED BY <3>1, <3>2
  <2>8. SlugsAreOwners'
    BY <2>5, <2>6, <2>7 DEF OrganizationsInv, SlugsAreOwners, Exists
  <2>9. \A p \in OrgIds : Exists(p)' =>
          chosen[p] = {} \/ (Exists(p) /\ organization'[p].owner = organization[p].owner)
    BY <2>2, <2>5 DEF Exists
  <2>10. Answers(r)
    BY DEF UpdateWrite
  <2> QED BY <2>4, <2>6, <2>8, <2>9, <2>10, WritesInv
<1> QED BY <1>1, <1>2

LEMMA DeleteInv ==
  ASSUME OrganizationsInv, NEW r \in Calls, DeleteWrite(r)
  PROVE  OrganizationsInv'
<1>1. /\ Answers(r) /\ chosen' = chosen
      /\ organization' = [organization EXCEPT ![call[r].id] = NoOrg]
  BY DEF DeleteWrite
<1>2. organization' \in [OrgIds -> Row \cup {NoOrg}]
  BY <1>1 DEF OrganizationsInv
<1>3. \A p \in OrgIds : Exists(p)' => Exists(p) /\ organization'[p] = organization[p]
  BY <1>1 DEF OrganizationsInv, Exists
<1>4. SlugsAreOwners' /\ chosen' \in [OrgIds -> SUBSET Slugs]
  BY <1>1, <1>3 DEF OrganizationsInv, SlugsAreOwners
<1> QED BY <1>1, <1>2, <1>3, <1>4, WritesInv

LEMMA AsksInv ==
  ASSUME OrganizationsInv, NEW r \in Calls, Asks(r)
  PROVE  OrganizationsInv'
<1>1. ASSUME NEW u \in Managers, NEW s \in Slugs, NEW step \in FoundingSteps, FoundAs(r, u, s, step)
      PROVE  OrganizationsInv'
  <2> DEFINE c == [pc |-> step, user |-> u, id |-> NoOrg, slug |-> s, org |-> NoOrg]
  <2>1. c \in CallState /\ CallSound(c)
    BY DEF CallState, CallSound, FoundingSteps, GuardedSteps
  <2> QED BY <1>1, <2>1, CallOnly DEF FoundAs
<1>2. ASSUME NEW u \in Managers, NEW o \in OrgIds, NEW s, NEW step \in {"update.guard", "delete.guard"},
             Exists(o) => s \in Slugs, Guard(r, u, o, s, step)
      PROVE  OrganizationsInv'
  <2> DEFINE c == [pc |-> step, user |-> u, id |-> o, slug |-> s, org |-> organization[o]]
  <2>1. Exists(o) /\ s \in Slugs /\ organization[o] \in Row /\ organization[o].slug \in chosen[o]
    BY <1>2 DEF Guard, Exists, OrganizationsInv, SlugsAreOwners
  <2>2. c \in CallState /\ CallSound(c)
    BY <2>1 DEF CallState, CallSound, Recalls, FoundingSteps, GuardedSteps
  <2> QED BY <1>2, <2>2, CallOnly DEF Guard
<1>3. ASSUME NEW u \in Managers, NEW s \in Slugs, CreateOrganization(r, u, s) PROVE OrganizationsInv'
  BY <1>1, <1>3 DEF CreateOrganization, FoundingSteps
<1>4. ASSUME NEW u \in Managers, NEW o \in OrgIds, NEW s \in Slugs, UpdateOrganization(r, u, o, s)
      PROVE  OrganizationsInv'
  BY <1>2, <1>4 DEF UpdateOrganization
<1>5. ASSUME NEW u \in Managers, NEW o \in OrgIds, DeleteOrganization(r, u, o)
      PROVE  OrganizationsInv'
  <2>1. Exists(o) => organization[o].slug \in Slugs
    BY DEF OrganizationsInv, Exists, Row
  <2> QED BY <1>2, <1>5, <2>1 DEF DeleteOrganization
<1> QED BY <1>3, <1>4, <1>5 DEF Asks

LEMMA WritingInv ==
  ASSUME OrganizationsInv, NEW r \in Calls, Writes(r)
  PROVE  OrganizationsInv'
<1>1. CASE GenerateUniqueSlug(r)
  <2>1. CASE Proceeds(r, "create.insert")
    BY <1>1, <2>1, ProceedsInv DEF GenerateUniqueSlug, Awaits, FoundingSteps, GuardedSteps
  <2>2. CASE \E s \in Slugs : call' = [call EXCEPT ![r].slug = s]
    <3>1. PICK s \in Slugs : call' = [call EXCEPT ![r].slug = s]
      BY <2>2
    <3> DEFINE c == [call[r] EXCEPT !.slug = s]
    <3>2. call[r] \in CallState /\ CallSound(call[r]) /\ call[r].pc = "create.derive"
      BY <1>1 DEF OrganizationsInv, GenerateUniqueSlug, Awaits
    <3>3. c \in CallState /\ c.pc = "create.derive" /\ c.user = call[r].user /\ c.slug = s
      BY <3>2 DEF CallState
    <3>4. CallSound(c)
      BY <3>2, <3>3 DEF CallSound, FoundingSteps, GuardedSteps
    <3>5. call' = [call EXCEPT ![r] = c]
      BY <3>1
    <3> QED BY <1>1, <3>3, <3>4, <3>5, CallOnly DEF GenerateUniqueSlug
  <2> QED BY <1>1, <2>1, <2>2 DEF GenerateUniqueSlug
<1>2. CASE FindTaken(r)
  BY <1>2, AnswersInv, ProceedsInv DEF FindTaken, Awaits, FoundingSteps, GuardedSteps
<1>3. CASE UpdateGuard(r)
  BY <1>3, AnswersInv, ProceedsInv DEF UpdateGuard, Awaits, FoundingSteps, GuardedSteps
<1>4. CASE UpdateTaken(r)
  <2>1. Keeps(r) \/ MayRename(r)
    BY <1>4 DEF UpdateTaken, Awaits, OrganizationsInv, CallSound, Keeps, MayRename
  <2> QED BY <1>4, <2>1, AnswersInv, ProceedsInv DEF UpdateTaken, Awaits, FoundingSteps, GuardedSteps
<1>5. CASE DeleteGuard(r)
  BY <1>5, AnswersInv, ProceedsInv DEF DeleteGuard, Awaits, MayRename, FoundingSteps, GuardedSteps
<1> QED BY <1>1, <1>2, <1>3, <1>4, <1>5, InsertInv, UpdateInv, DeleteInv DEF Writes

LEMMA OrganizationsStep ==
  OrganizationsInv /\ [OrganizationsNext]_organizationVars => OrganizationsInv'
<1> SUFFICES ASSUME OrganizationsInv, [OrganizationsNext]_organizationVars
             PROVE  OrganizationsInv'
  OBVIOUS
<1>1. CASE UNCHANGED organizationVars
  BY <1>1 DEF organizationVars, OrganizationsInv, CallSound, Recalls, SlugsAreOwners, Exists
<1>2. ASSUME NEW r \in Calls, AbandonCall(r) PROVE OrganizationsInv'
  BY <1>2, AnswersInv DEF AbandonCall
<1> QED BY <1>1, <1>2, AsksInv, WritingInv DEF OrganizationsNext

(* An organization has only slugs its owner gave it, however late          *)
(* others' changes of it are (organizations.service.ts:104-120).           *)
THEOREM SlugsAreOwnersHolds == OrganizationsSpec => []SlugsAreOwners
<1>1. OrganizationsInv => SlugsAreOwners
  BY DEF OrganizationsInv
<1> QED BY <1>1, OrganizationsInitInv, OrganizationsStep, PTL DEF OrganizationsSpec

(* An organization goes only when its owner deletes it: the owner the      *)
(* guard has read is still its owner at the DELETE                         *)
(* (organizations.service.ts:123-131).                                     *)
THEOREM DeletedByOwner ==
  OrganizationsSpec =>
    [][\A o \in OrgIds : Exists(o) /\ organization'[o] = NoOrg =>
         \E r \in Calls : /\ Awaits(r, "delete.write") /\ call[r].id = o
                         /\ call[r].user = organization[o].owner]_organizationVars
<1>1. ASSUME OrganizationsInv, OrganizationsNext, NEW o \in OrgIds, Exists(o), organization'[o] = NoOrg
      PROVE  \E r \in Calls : /\ Awaits(r, "delete.write") /\ call[r].id = o
                             /\ call[r].user = organization[o].owner
  <2>1. PICK r \in Calls : Asks(r) \/ Writes(r) \/ AbandonCall(r)
    BY <1>1 DEF OrganizationsNext
  <2>2. organization \in [OrgIds -> Row \cup {NoOrg}] /\ organization[o] # organization'[o]
    BY <1>1 DEF OrganizationsInv, Exists
  <2>3. ~UNCHANGED organization
    BY <2>2
  <2>4. InsertOrganization(r) \/ UpdateWrite(r) \/ DeleteWrite(r)
    BY <2>1, <2>3 DEF Asks, CreateOrganization, FoundAs, UpdateOrganization, DeleteOrganization,
         Guard, Writes, AbandonCall, GenerateUniqueSlug, FindTaken, UpdateGuard, UpdateTaken,
         DeleteGuard
  <2>5. CASE DeleteWrite(r)
    <3>1. Awaits(r, "delete.write") /\ call[r].id = o
      BY <2>2, <2>5 DEF DeleteWrite
    <3>2. CallSound(call[r])
      BY <1>1 DEF OrganizationsInv
    <3> QED BY <1>1, <3>1, <3>2 DEF CallSound, Recalls, GuardedSteps, Awaits
  <2>6. CASE InsertOrganization(r)
    <3>1. PICK p \in OrgIds, row \in {[slug |-> call[r].slug, owner |-> call[r].user]} :
            organization' = [organization EXCEPT ![p] = row]
      BY <2>3, <2>6 DEF InsertOrganization
    <3>2. row \in Row
      BY <1>1, <2>6 DEF InsertOrganization, OrganizationsInv, CallSound, Awaits, FoundingSteps, Row
    <3> QED BY <1>1, <2>2, <3>1, <3>2
  <2>7. CASE UpdateWrite(r)
    <3>1. organization' = [organization EXCEPT ![call[r].id].slug = call[r].slug]
      BY <2>3, <2>7 DEF UpdateWrite
    <3>2. call[r].id = o /\ organization[o] \in Row /\ call[r].slug \in Slugs
      BY <1>1, <2>2, <2>7, <3>1
      DEF OrganizationsInv, Exists, UpdateWrite, CallSound, Awaits, GuardedSteps
    <3>3. organization'[o] \in Row
      BY <2>2, <3>1, <3>2 DEF Row
    <3> QED BY <1>1, <3>3
  <2> QED BY <2>4, <2>5, <2>6, <2>7
<1>2. OrganizationsInv /\ [OrganizationsNext]_organizationVars =>
        [\A o \in OrgIds : Exists(o) /\ organization'[o] = NoOrg =>
           \E r \in Calls : /\ Awaits(r, "delete.write") /\ call[r].id = o
                           /\ call[r].user = organization[o].owner]_organizationVars
  BY <1>1
<1> QED BY <1>2, OrganizationsInitInv, OrganizationsStep, PTL DEF OrganizationsSpec
=============================================================================
