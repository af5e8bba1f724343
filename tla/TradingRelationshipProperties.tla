---------------------- MODULE TradingRelationshipProperties ----------------------
(* What the relationship services guarantee to calls that come together, to  *)
(* calls that come one at a time, and what only their comments and tests     *)
(* say.                                                                      *)
EXTENDS TradingRelationship

\* Each variable has its type.
TypeOK ==
  /\ row \in Relationship \cup {NULL}
  /\ membership \in [Customers -> {"none", "active", "inactive"}]
  /\ activeCustomer \subseteq Customers
  /\ entry \in [old: Status \cup {"NONE"}, new: Status \cup {"NONE"}]
  /\ pc \in [Callers -> {"idle", "readRow", "checkCustomer", "readMember", "insertMember",
                         "writeMember", "insertRow", "writeRow", "commit", "aborted"}]
  /\ call \in [Callers -> Call \cup {NULL}]
  /\ seen \in [Callers -> Relationship \cup {NULL}]
  /\ newRow \in [Callers -> Relationship \cup {NULL}]
  /\ newMember \in [Callers -> MemberWrite \cup {NULL}]
  /\ overlapped \in BOOLEAN

\* The row's status and its audit entries implement the status machine, also when
\* the status changes between a call's reading and its writing.
StatusSpec == INSTANCE RelationshipStatusSpec WITH status <- statusOf(row)
ImplementsStatusSpec == StatusSpec!Spec

\* A membership changes only together with the relationship: to active when it
\* becomes ACTIVE, to inactive when it becomes REVOKED.  A call that loses the race
\* for the row leaves no membership behind.
AccessMovesWithStatus ==
  [][\A c \in Customers : membership'[c] # membership[c] =>
       /\ statusOf(row') # statusOf(row)
       /\ membership'[c] = "active" => statusOf(row') = "ACTIVE"
       /\ membership'[c] = "inactive" => statusOf(row') = "REVOKED"]_vars

\* An answer to an invitation or a request, and a revocation, ends, also when it
\* waits for others or for itself to be chosen in a deadlock.
AnswersEnd ==
  \A p \in Callers :
    (call[p] # NULL /\ call[p].op \notin Connecting) ~> call[p] = NULL

\* A call can take its next step: what it writes is not held, or it is one of two
\* that wait for each other, and the database ends one of them.
CanGoOn(p) ==
  \/ pc[p] \in {"readRow", "checkCustomer", "readMember", "commit", "aborted"}
  \/ pc[p] \in {"insertRow", "writeRow"} /\ ~RowHeld(p)
  \/ pc[p] \in {"insertMember", "writeMember"} /\ ~MemberHeld(p)
  \/ \E q \in Callers : WaitsFor(p, q) /\ WaitsFor(q, p)

\* While calls are under way, one of them can take its next step, although
\* acceptances and revocations write the row and the membership in opposite orders:
\* no three wait in a circle, where the two-way check would not see them.
SomeCallGoesOn ==
  (\E p \in Callers : pc[p] # "idle") => \E p \in Callers : CanGoOn(p)

\* The steps that an answer or a revocation has before it at most.
StepsLeft(p) ==
  CASE pc[p] = "idle" -> 0
    [] pc[p] = "commit" -> 1
    [] pc[p] = "writeRow" -> IF call[p].op \in Revoking THEN 5 ELSE 2
    [] pc[p] \in {"insertMember", "writeMember"} -> 3
    [] pc[p] = "readMember" -> 4
    [] pc[p] = "checkCustomer" -> 5
    [] OTHER -> 6

\* An answer or a revocation comes nearer to its end with each of its steps, and no
\* step of another call sets it back: it has nothing to repeat.
AnswersDescend ==
  [][\A p \in Callers : call[p] # NULL /\ call[p].op \notin Connecting =>
       /\ StepsLeft(p) \in 1..6
       /\ Step(p) => StepsLeft(p)' < StepsLeft(p)
       /\ UNCHANGED <<pc[p], call[p]>> \/ StepsLeft(p)' < StepsLeft(p)]_vars

-----------------------------------------------------------------------------
\* As long as no two calls have overlapped: an ACTIVE relationship has an active
\* membership of its customer, and there is no other active membership.
OnlyMember ==
  \A c \in Customers :
    membership[c] = "active" <=> row # NULL /\ row.status = "ACTIVE" /\ row.customerId = c

MembershipFollows == overlapped \/ OnlyMember

\* As long as no two calls have overlapped: a relationship becomes ACTIVE by the
\* answer of the side that did not begin it.
OtherSideAccepts ==
  \A p \in Callers : Commit(p) /\ call[p].op \in Accepting =>
    call[p].op = (IF row.initiatedBy = "SELLER" THEN "accept" ELSE "acceptRequest")

BothSidesAgree == [][overlapped \/ OtherSideAccepts]_vars

\* As long as no two calls have overlapped: "a relationship already tied to a
\* different Customer is never silently relinked" by an invitation.  (It is when
\* the calls come together: only the status is checked again, and it can be what
\* it was.)
InvitesSameCustomer ==
  \A p \in Callers : Commit(p) /\ call[p].op = "invite" /\ row # NULL =>
    row.customerId \in {NULL, call[p].customer}

CustomerKept == [][overlapped \/ InvitesSameCustomer]_vars

-----------------------------------------------------------------------------
\* What is said of the code and holds only as long as calls come one at a time,
\* as does BothSidesAgree.  Here of all calls.

\* A membership is accepted buyer access, so none outlives the relationship that
\* granted it.
NoAccessWithoutRelationship ==
  statusOf(row) = "REVOKED" => \A c \in Customers : membership[c] # "active"
=============================================================================
