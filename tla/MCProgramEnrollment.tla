------------------------- MODULE MCProgramEnrollment ------------------------
(* One program, two members who compete for its seats, and two or three    *)
(* requests in flight.                                                     *)
EXTENDS ProgramEnrollment, TLC

Interchangeable ==
  Permutations(Requests) \cup Permutations(Members)
  \cup Permutations(Ids) \cup Permutations(Stamps)
=============================================================================
