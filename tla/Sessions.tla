------------------------------ MODULE Sessions ------------------------------
(***************************************************************************)
(* The sessions of one user (auth.service.ts, jwt.strategy.ts): how        *)
(* registration, sign-in, refreshing, logging out and changing or          *)
(* resetting the password share one column for the refresh token, and how  *)
(* a logged-out access token is kept on a blacklist until it expires.      *)
(*                                                                         *)
(* A request runs one statement at a time; its first statement is taken    *)
(* with its arrival, and bcrypt and signing with the statement before      *)
(* them.  E-mails are left out, and so is the verification of the address, *)
(* which Verification models: no step here looks at isVerified.            *)
(***************************************************************************)
EXTENDS Integers

CONSTANTS
  Requests,      \* request slots: a slot serves one call at a time
  Tokens,        \* access tokens (their jti): a bound on those followed
  Second,        \* clock ticks in a second
  Life,          \* seconds an access token lives
  MaxNow,        \* a bound on the clock
  Null           \* a null column

ASSUME ClockAssumption == Second \in Nat \ {0} /\ Life \in Nat \ {0} /\ MaxNow \in Nat
ASSUME NullAssumption == Null \notin Tokens \cup Int

(* The user's row of table users.  password, google: a password, googleId  *)
(* is set; which one plays no part, as a wrong one is refused and changes  *)
(* nothing.  refresh: a hash of a refresh token is stored.  Which token is *)
(* not told apart, for bcrypt reads 72 bytes and those are the same in all *)
(* tokens of a user.  reset: a reset token is stored and has not lapsed.   *)
Account == [password : BOOLEAN, google : BOOLEAN, refresh : BOOLEAN, reset : BOOLEAN]

ASSUME NoAccountAssumption == Null \notin Account

VARIABLES
  account,       \* the row, or Null
  now,           \* the clock, in ticks
  expiry,        \* expiry[a]: the second at which token a expires; Null if
                 \* it is not issued
  blacklist,     \* blacklist[a]: the tick until which Redis keeps a's key
  loggedOut,     \* the tokens whose logout was answered
  cleared,       \* of the last clearing of the refresh token: "no" if a
                 \* sign-in was on its way then or has arrived since,
                 \* "racing" if a refresh was on its way then, else "quiet"
  req            \* req[r]: where request r stands and what it remembers

vars == <<account, now, expiry, blacklist, loggedOut, cleared, req>>
Access == <<expiry, blacklist, loggedOut>>

(* token: the one the request came with; secs: the expiry of the token it  *)
(* has signed, or the remaining life of the one to be blacklisted.         *)
Idle == [pc |-> "idle", token |-> Null, secs |-> Null]

Init ==
  /\ account = Null
  /\ now = 0
  /\ expiry = [a \in Tokens |-> Null]
  /\ blacklist = [a \in Tokens |-> 0]
  /\ loggedOut = {}
  /\ cleared = "no"
  /\ req = [r \in Requests |-> Idle]

At(r, step) == req[r].pc = step
Begin(r, step) == At(r, "idle") /\ req' = [req EXCEPT ![r].pc = step]
Goto(r, step) == req' = [req EXCEPT ![r].pc = step]
Finish(r) == req' = [req EXCEPT ![r] = Idle]

-----------------------------------------------------------------------------
(* Access tokens.                                                          *)

Seconds == now \div Second

(* The guard of every protected endpoint: the token's signature and expiry *)
(* in whole seconds, then the blacklist.                                   *)
Accepted(a) ==
  /\ expiry[a] # Null
  /\ Seconds < expiry[a]
  /\ ~(now < blacklist[a])

(* Both tokens are signed; the refresh token remains to be stored.         *)
Sign(r, next) ==
  req' = [req EXCEPT ![r] = [pc |-> next, token |-> Null, secs |-> Seconds + Life]]

-----------------------------------------------------------------------------
(* Signing in.                                                             *)

SignInArrives == cleared' = "no"

Register(r) ==
  /\ account = Null
  /\ Begin(r, "register.create")
  /\ SignInArrives
  /\ UNCHANGED <<account, now, Access>>

NewAccount(password, google) ==
  [password |-> password, google |-> google, refresh |-> FALSE, reset |-> FALSE]

(* The INSERT fails if the address, which is unique, has been taken.       *)
Create(r, password, google) ==
  IF account = Null
    THEN account' = NewAccount(password, google) /\ Sign(r, "store")
    ELSE UNCHANGED account /\ Finish(r)

RegisterCreate(r) ==
  /\ At(r, "register.create")
  /\ Create(r, TRUE, FALSE)
  /\ UNCHANGED <<now, Access, cleared>>

(* An account without a password is signed in only by Google.              *)
Login(r) ==
  /\ account # Null
  /\ account.password
  /\ At(r, "idle")
  /\ Sign(r, "store")
  /\ SignInArrives
  /\ UNCHANGED <<account, now, Access>>

(* Found by googleId.                                                      *)
Google(r) ==
  /\ At(r, "idle")
  /\ IF account # Null /\ account.google THEN Sign(r, "store")
                                       ELSE Begin(r, "google.find")
  /\ SignInArrives
  /\ UNCHANGED <<account, now, Access>>

(* Found by address, or new.                                               *)
GoogleFind(r) ==
  /\ At(r, "google.find")
  /\ Goto(r, IF account = Null THEN "google.create" ELSE "google.link")
  /\ UNCHANGED <<account, now, Access, cleared>>

GoogleLink(r) ==
  /\ At(r, "google.link")
  /\ account' = [account EXCEPT !.google = TRUE]
  /\ Sign(r, "store")
  /\ UNCHANGED <<now, Access, cleared>>

GoogleCreate(r) ==
  /\ At(r, "google.create")
  /\ Create(r, FALSE, TRUE)
  /\ UNCHANGED <<now, Access, cleared>>

(* Mutant: the token is compared with whatever is stored.                  *)
RefreshUnchecked(r) ==
  /\ account # Null
  /\ At(r, "idle")
  /\ Sign(r, "refresh.store")
  /\ UNCHANGED <<account, now, Access, cleared>>

Refresh(r) ==
  /\ account # Null
  /\ account.refresh
  /\ At(r, "idle")
  /\ Sign(r, "refresh.store")
  /\ UNCHANGED <<account, now, Access, cleared>>

(* The UPDATE of storeRefreshToken, then the answer with both tokens.      *)
Store(r) ==
  LET new == {a \in Tokens : expiry[a] = Null} IN
  /\ At(r, "store") \/ At(r, "refresh.store")
  /\ account' = [account EXCEPT !.refresh = TRUE]
  /\ IF new = {}
       THEN UNCHANGED expiry
       ELSE \E a \in new : expiry' = [expiry EXCEPT ![a] = req[r].secs]
  /\ Finish(r)
  /\ UNCHANGED <<now, blacklist, loggedOut, cleared>>

-----------------------------------------------------------------------------
(* Signing out.                                                            *)

SigningIn == {"register.create", "google.find", "google.create", "google.link", "store"}
StoringSteps == SigningIn \cup {"refresh.store"}

(* UPDATE users SET refreshToken = NULL.                                   *)
Clear ==
  /\ account' = [account EXCEPT !.refresh = FALSE]
  /\ cleared' = CASE \E r \in Requests : req[r].pc \in SigningIn -> "no"
                  [] \A r \in Requests : req[r].pc \notin StoringSteps -> "quiet"
                  [] OTHER -> "racing"

Logout(r, a) ==
  /\ Accepted(a)
  /\ At(r, "idle")
  /\ req' = [req EXCEPT ![r] = [pc |-> "logout.clear", token |-> a, secs |-> Null]]
  /\ UNCHANGED <<account, now, Access, cleared>>

LogoutClear(r) ==
  /\ At(r, "logout.clear")
  /\ Clear
  /\ Goto(r, "logout.ttl")
  /\ UNCHANGED <<now, Access>>

Answered(r) == loggedOut' = loggedOut \cup {req[r].token}

Blacklisting(r, secs) ==
  req' = [req EXCEPT ![r] =
            [pc |-> "logout.blacklist", token |-> req[r].token, secs |-> secs]]

(* Mutant: blacklists whatever remains.                                    *)
KeepAny(r, remaining) ==
  /\ At(r, "logout.ttl")
  /\ Blacklisting(r, remaining)
  /\ UNCHANGED <<account, now, Access, cleared>>

(* An expired token needs no blacklist.                                    *)
KeepFor(r, remaining) ==
  /\ At(r, "logout.ttl")
  /\ IF remaining > 0
       THEN Blacklisting(r, remaining) /\ UNCHANGED loggedOut
       ELSE Finish(r) /\ Answered(r)
  /\ UNCHANGED <<account, now, expiry, blacklist, cleared>>

(* Mutant: the clock's seconds are rounded up.                             *)
LogoutTtlCeil(r) ==
  KeepFor(r, expiry[req[r].token] - (now + Second - 1) \div Second)

LogoutTtl(r) == KeepFor(r, expiry[req[r].token] - Seconds)

(* SET ... EX secs, counted from when Redis does it.                       *)
LogoutBlacklist(r) ==
  /\ At(r, "logout.blacklist")
  /\ blacklist' = [blacklist EXCEPT ![req[r].token] = now + Second * req[r].secs]
  /\ Answered(r)
  /\ Finish(r)
  /\ UNCHANGED <<account, now, expiry, cleared>>

-----------------------------------------------------------------------------
(* Passwords.                                                              *)

(* The user knows the current password, which a Google account lacks.      *)
ChangePassword(r, a) ==
  /\ Accepted(a)
  /\ account.password
  /\ Begin(r, "password.update")
  /\ UNCHANGED <<account, now, Access, cleared>>

ForgotPassword(r) ==
  /\ account # Null
  /\ Begin(r, "forgot.set")
  /\ UNCHANGED <<account, now, Access, cleared>>

(* The token goes to the user by e-mail; an earlier one is overwritten.    *)
SetPasswordReset(r) ==
  /\ At(r, "forgot.set")
  /\ account' = [account EXCEPT !.reset = TRUE]
  /\ Finish(r)
  /\ UNCHANGED <<now, Access, cleared>>

ResetPassword(r) ==
  /\ account # Null
  /\ account.reset
  /\ Begin(r, "password.update")
  /\ UNCHANGED <<account, now, Access, cleared>>

(* Both continue alike.                                                    *)
UpdatePassword(r) ==
  /\ At(r, "password.update")
  /\ account' = [account EXCEPT !.password = TRUE, !.reset = FALSE]
  /\ Goto(r, "password.clear")
  /\ UNCHANGED <<now, Access, cleared>>

PasswordClear(r) ==
  /\ At(r, "password.clear")
  /\ Clear
  /\ Finish(r)
  /\ UNCHANGED <<now, Access>>

-----------------------------------------------------------------------------
Tick ==
  /\ now < MaxNow
  /\ now' = now + 1
  /\ UNCHANGED <<account, Access, cleared, req>>

(* The reset token's 15 minutes are over; the model does not count them.   *)
ResetLapses ==
  /\ account # Null
  /\ account.reset
  /\ account' = [account EXCEPT !.reset = FALSE]
  /\ UNCHANGED <<now, Access, cleared, req>>

(* A statement fails, or the process is lost.                              *)
Abort(r) ==
  /\ ~At(r, "idle")
  /\ Finish(r)
  /\ UNCHANGED <<account, now, Access, cleared>>

Arrive(r) ==
  \/ Register(r) \/ Login(r) \/ Google(r) \/ Refresh(r)
  \/ ForgotPassword(r) \/ ResetPassword(r)
  \/ \E a \in Tokens : Logout(r, a) \/ ChangePassword(r, a)

Continue(r) ==
  \/ RegisterCreate(r)
  \/ GoogleFind(r) \/ GoogleLink(r) \/ GoogleCreate(r) \/ Store(r)
  \/ LogoutClear(r) \/ LogoutTtl(r) \/ LogoutBlacklist(r)
  \/ SetPasswordReset(r) \/ UpdatePassword(r) \/ PasswordClear(r)

Next ==
  \/ \E r \in Requests : Arrive(r) \/ Continue(r) \/ Abort(r)
  \/ Tick \/ ResetLapses

Spec == Init /\ [][Next]_vars

-----------------------------------------------------------------------------
(* Properties.                                                             *)

PlainSteps == (SigningIn \ {"store"})
              \cup {"idle", "password.update", "password.clear", "forgot.set"}
RequestState ==
  [pc : PlainSteps, token : {Null}, secs : {Null}]
  \cup [pc : {"store", "refresh.store"}, token : {Null}, secs : Nat]
  \cup [pc : {"logout.clear", "logout.ttl"}, token : Tokens, secs : {Null}]
  \cup [pc : {"logout.blacklist"}, token : Tokens, secs : Nat \ {0}]

(* Types; Redis is never asked for a lifetime it would refuse              *)
(* (auth.service.ts:211).                                                  *)
TypeOK ==
  /\ account \in Account \cup {Null}
  /\ now \in Nat
  /\ expiry \in [Tokens -> Nat \cup {Null}]
  /\ blacklist \in [Tokens -> Nat]
  /\ loggedOut \subseteq {a \in Tokens : expiry[a] # Null}
  /\ cleared \in {"no", "racing", "quiet"}
  /\ req \in [Requests -> RequestState]

(* Once a logout is answered its access token is never accepted again: the *)
(* blacklist, counted in whole seconds from when Redis gets it, holds to   *)
(* the end of the token's last second (auth.service.ts:208-213,            *)
(* jwt.strategy.ts:20, 27-32).                                             *)
LogoutLasts == \A a \in loggedOut : ~Accepted(a)

(* When the refresh token is cleared, and no request is about to store one *)
(* (auth.service.ts:86, 194, 206, 249), none is stored until somebody      *)
(* signs in: no refresh, reset or late request starts a session.           *)
LoggedOutStaysOut == cleared = "quiet" => account # Null /\ ~account.refresh

(* Claimed by src/README.md:124, logout: "Invalidate refresh token", and   *)
(* 127, "Change password (invalidates all sessions)": unless somebody      *)
(* signs in there is none afterwards, also if a refresh was on its way.    *)
ClearingEndsSessions == cleared # "no" => ~account.refresh
=============================================================================
