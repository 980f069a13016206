----------------------------- MODULE MCAccounts -----------------------------
(* Three parts that share no state, each checked on its own: one user's    *)
(* sessions, with two requests at a time and a clock of two ticks a        *)
(* second; the verification of accounts; and organizations with their      *)
(* slugs.  One of them is awake from the start and the others stand still. *)
EXTENDS Sessions, Verification, Organizations, TLC

VARIABLE awake

MCInit ==
  /\ awake \in {"sessions", "verification", "organizations"}
  /\ Init /\ VerificationInit /\ OrganizationsInit

MCNext ==
  /\ UNCHANGED awake
  /\ \/ /\ awake = "sessions"
        /\ Next
        /\ UNCHANGED <<verificationVars, organizationVars>>
     \/ /\ awake = "verification"
        /\ VerificationNext
        /\ UNCHANGED <<vars, organizationVars>>
     \/ /\ awake = "organizations"
        /\ OrganizationsNext
        /\ UNCHANGED <<vars, verificationVars>>

MCSpec == MCInit /\ [][MCNext]_<<awake, vars, verificationVars, organizationVars>>

Interchangeable == Permutations(Requests) \cup Permutations(Tokens)
=============================================================================
