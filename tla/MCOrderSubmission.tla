-------------------------- MODULE MCOrderSubmission --------------------------
(* Small instances of OrderSubmission.                                     *)
EXTENDS OrderSubmissionProperties, TLC

CONSTANTS c1, c2, a1, u1, u2, r1, r2, r3

\* The second customer has no address, but can name the first one's.
OneAddress == [a \in {a1} |-> c1]

MCRequests == {r1, r2, r3}

MCCarts(customers, units) ==
  [customer: customers, address: {a1}, units: units]

\* Three submissions of one line each, or two, one of them of two lines.
MCMixes ==
  {mix \in [MCRequests -> MCCarts({c1, c2}, {{u1}})] : mix[r1].customer = c1} \cup
  {[r \in MCRequests |-> CASE r = r1 -> long [] r = r2 -> short [] r = r3 -> NULL] :
     long \in MCCarts({c1}, {{u1, u2}}), short \in MCCarts({c1}, {{u1}})}
=============================================================================
