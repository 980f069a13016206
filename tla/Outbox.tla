-------------------------------- MODULE Outbox ------------------------------
(***************************************************************************)
(* What e-mail delivery promises of each mail.  One that is only held in   *)
(* memory is tried at most once and may be forgotten at any time; one that *)
(* was stored in the queue is tried at most MaxCalls times, and given up   *)
(* only after Patience tries.  A try brings one copy at most.              *)
(***************************************************************************)
EXTENDS Naturals

CONSTANTS Mails, Patience, MaxCalls

VARIABLES
  fate,          \* fate[m]: "none", "held", "stored", "sent" or "gone"
  calls,         \* calls[m]: tries begun
  copies         \* copies[m]: copies the recipient gets

Init ==
  /\ fate = [m \in Mails |-> "none"]
  /\ calls = [m \in Mails |-> 0]
  /\ copies = [m \in Mails |-> 0]

Stays(m) == calls'[m] = calls[m] /\ copies'[m] = copies[m]

Hand(m) == fate[m] = "none" /\ fate'[m] = "held" /\ Stays(m)
Store(m) == fate[m] = "held" /\ calls[m] = 0 /\ fate'[m] = "stored" /\ Stays(m)

Try(m) ==
  /\ \/ fate[m] = "held" /\ calls[m] = 0
     \/ fate[m] = "stored" /\ calls[m] < MaxCalls
  /\ fate'[m] = fate[m]
  /\ calls'[m] = calls[m] + 1
  /\ copies'[m] = copies[m]

(* A try brings a copy; whoever made it may not learn of that.             *)
Arrive(m) ==
  /\ copies[m] < calls[m]
  /\ copies'[m] = copies[m] + 1
  /\ calls'[m] = calls[m]

Settle(m) ==
  /\ fate[m] \in {"held", "stored"}
  /\ \/ fate'[m] = "sent" /\ Arrive(m)
     \/ fate'[m] = fate[m] /\ Arrive(m)
     \/ /\ fate'[m] = "gone"
        /\ fate[m] = "stored" => calls[m] >= Patience
        /\ Arrive(m) \/ Stays(m)

Next ==
  \A m \in Mails :
    \/ Hand(m) \/ Store(m) \/ Try(m) \/ Settle(m)
    \/ fate'[m] = fate[m] /\ Stays(m)

vars == <<fate, calls, copies>>
Spec == Init /\ [][Next]_vars
=============================================================================
