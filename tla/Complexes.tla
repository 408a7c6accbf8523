----------------------------- MODULE Complexes -----------------------------
(***************************************************************************)
(* Launch requests of residential complexes: internal/services/complexes.go *)
(* and the admin's status update (handlers/admin/complexes.go).  A call is *)
(* a goroutine that creates a request, verifies one, or writes a status.   *)
(* The complex is read outside the transaction that writes it back whole.  *)
(* VerifyRequest is exported and no handler calls it yet: its caller, who  *)
(* finds the request first, is external.                                   *)
(***************************************************************************)
EXTENDS Integers, FiniteSets

CONSTANTS
  Calls,             \* the calls; each is made once
  ComplexIds,        \* rows of residential_complexes
  Phones,            \* phones that ask for a complex
  Threshold,         \* residential_complexes.threshold_n; 0 or less: none
  ThresholdStatus,   \* the status of a complex that has reached it
  Statuses,          \* what an admin may write as a complex's status
  MaxOpenConns       \* the connections of the pool

RequestIds == ComplexIds \X Phones
Rows == RequestIds \cup ComplexIds

ASSUME ThresholdAssumption ==
  /\ Threshold \in [ComplexIds -> Int]
  /\ ThresholdStatus \in Statuses

ASSUME PoolAssumption == MaxOpenConns \in Nat \ {0}

ASSUME RowsDisjoint == RequestIds \cap ComplexIds = {}

VARIABLES
  status,     \* the status of each complex
  count,      \* its current_requests
  requests,   \* "none" (no row), "pending" or "verified"
  pc,         \* the statement a call runs next
  on,         \* the request or the complex it is about
  seen,       \* the status and count it has read
  target,     \* the status it writes
  locks,      \* the rows its transaction holds locked
  commits     \* history: verifications committed for each complex

tables == <<status, count, requests>>
local  == <<pc, on, seen, target, locks>>
vars   == <<status, count, requests, pc, on, seen, target, locks, commits>>

Seen == [status : Statuses, count : Int]
Unread == [status |-> ThresholdStatus, count |-> 0]
InTx == {"read", "mark", "count", "commit"}

TypeOK ==
  /\ status \in [ComplexIds -> Statuses]
  /\ count \in [ComplexIds -> Int]
  /\ requests \in [RequestIds -> {"none", "pending", "verified"}]
  /\ pc \in [Calls -> InTx \cup {"new", "insert", "begin", "write", "done"}]
  /\ on \in [Calls -> RequestIds]
  /\ seen \in [Calls -> Seen]
  /\ target \in [Calls -> Statuses]
  /\ locks \in [Calls -> SUBSET Rows]
  /\ commits \in [ComplexIds -> Nat]

\* An admin creates a complex with any status and no count; some requests may
\* have been made since.
Init ==
  /\ status \in [ComplexIds -> Statuses]
  /\ count = [c \in ComplexIds |-> 0]
  /\ requests \in [RequestIds -> {"none", "pending"}]
  /\ pc = [r \in Calls |-> "new"]
  /\ \E q \in RequestIds : on = [r \in Calls |-> q]
  /\ seen = [r \in Calls |-> Unread]
  /\ target = [r \in Calls |-> ThresholdStatus]
  /\ locks = [r \in Calls |-> {}]
  /\ commits = [c \in ComplexIds |-> 0]

ComplexOf(r) == on[r][1]
Goto(r, label) == pc' = [pc EXCEPT ![r] = label]
Unlocked(row) == \A r \in Calls : row \notin locks[r]
Lock(r, row) == locks' = [locks EXCEPT ![r] = @ \cup {row}]

\* The pool: a transaction keeps a connection to its end, any other statement
\* takes one for its own duration, and waits while there is none.
Available == Cardinality({r \in Calls : pc[r] \in InTx}) < MaxOpenConns

-----------------------------------------------------------------------------
\* CreateRequest: a request that exists is an error, verified or not; the
\* unique index on (complex_id, phone) refuses one that came to be meanwhile.

FindRequest(r, q) ==
  /\ pc[r] = "new"
  /\ Available
  /\ on' = [on EXCEPT ![r] = q]
  /\ Goto(r, IF requests[q] = "none" THEN "insert" ELSE "done")
  /\ UNCHANGED <<tables, seen, target, locks, commits>>

InsertRequest(r) ==
  /\ pc[r] = "insert"
  /\ Available
  /\ requests' = [requests EXCEPT ![on[r]] = IF @ = "none" THEN "pending" ELSE @]
  /\ Goto(r, "done")
  /\ UNCHANGED <<status, count, on, seen, target, locks, commits>>

-----------------------------------------------------------------------------
\* VerifyRequest, with the request as its caller has read it.

VerifyRequest(r, q) ==
  /\ pc[r] = "new"
  /\ Available
  /\ requests[q] # "none"
  /\ on' = [on EXCEPT ![r] = q]
  /\ Goto(r, IF requests[q] = "verified" THEN "done" ELSE "begin")
  /\ UNCHANGED <<tables, seen, target, locks, commits>>

\* BEGIN, on a connection of the pool.
Begin(r) ==
  /\ pc[r] = "begin"
  /\ Available
  /\ Goto(r, "read")
  /\ UNCHANGED <<tables, on, seen, target, locks, commits>>

\* Complexes.Get, on a second connection of the pool.
ReadComplex(r) ==
  /\ pc[r] = "read"
  /\ Available
  /\ seen' = [seen EXCEPT ![r] = [status |-> status[ComplexOf(r)], count |-> count[ComplexOf(r)]]]
  /\ Goto(r, "mark")
  /\ UNCHANGED <<tables, on, target, locks, commits>>

\* UPDATE complex_requests SET verified = TRUE WHERE id.
MarkVerified(r) ==
  /\ pc[r] = "mark"
  /\ Unlocked(on[r])
  /\ Lock(r, on[r])
  /\ Goto(r, "count")
  /\ UNCHANGED <<tables, on, seen, target, commits>>

\* A bug to catch: the threshold is reached one request late.
ReachedLate(c, n) == Threshold[c] > 0 /\ n > Threshold[c]

Reached(c, n) == Threshold[c] > 0 /\ n >= Threshold[c]

\* A bug to catch: the complex is written on the pool, not in the transaction.
WriteComplexOnPool(r) ==
  /\ pc[r] = "count"
  /\ Unlocked(ComplexOf(r))
  /\ target' = [target EXCEPT ![r] = seen[r].status]
  /\ count' = [count EXCEPT ![ComplexOf(r)] = seen[r].count + 1]
  /\ Goto(r, "commit")
  /\ UNCHANGED <<status, requests, on, seen, locks, commits>>

\* A bug to catch: the new status starts out empty, not as the one read.
WriteComplexEmpty(r) ==
  /\ pc[r] = "count"
  /\ Unlocked(ComplexOf(r))
  /\ Lock(r, ComplexOf(r))
  /\ target' = [target EXCEPT ![r] = IF Reached(ComplexOf(r), seen[r].count + 1)
                                     THEN ThresholdStatus ELSE ""]
  /\ Goto(r, "commit")
  /\ UNCHANGED <<tables, on, seen, commits>>

\* UPDATE residential_complexes SET current_requests, status WHERE id.
WriteComplex(r) ==
  /\ pc[r] = "count"
  /\ Unlocked(ComplexOf(r))
  /\ Lock(r, ComplexOf(r))
  /\ target' = [target EXCEPT ![r] = IF Reached(ComplexOf(r), seen[r].count + 1)
                                     THEN ThresholdStatus ELSE seen[r].status]
  /\ Goto(r, "commit")
  /\ UNCHANGED <<tables, on, seen, commits>>

\* A bug to catch: a return between the last UPDATE and the commit.
CommitForgotten(r) ==
  /\ pc[r] = "commit"
  /\ Goto(r, "done")
  /\ UNCHANGED <<tables, on, seen, target, locks, commits>>

Commit(r) ==
  /\ pc[r] = "commit"
  /\ status' = [status EXCEPT ![ComplexOf(r)] = target[r]]
  /\ count' = [count EXCEPT ![ComplexOf(r)] = seen[r].count + 1]
  /\ requests' = [requests EXCEPT ![on[r]] = "verified"]
  /\ commits' = [commits EXCEPT ![ComplexOf(r)] = @ + 1]
  /\ locks' = [locks EXCEPT ![r] = {}]
  /\ Goto(r, "done")
  /\ UNCHANGED <<on, seen, target>>

\* An error of any statement, or the end of the request's context: the
\* transaction, if there is one, is rolled back.
Rollback(r) ==
  /\ pc[r] \in InTx \cup {"insert", "begin", "write"}
  /\ locks' = [locks EXCEPT ![r] = {}]
  /\ Goto(r, "done")
  /\ UNCHANGED <<tables, on, seen, target, commits>>

-----------------------------------------------------------------------------
\* The admin's status update reads the complex, and writes its count back.

ReadForStatus(r, q, s) ==
  /\ pc[r] = "new"
  /\ Available
  /\ on' = [on EXCEPT ![r] = q]
  /\ target' = [target EXCEPT ![r] = s]
  /\ seen' = [seen EXCEPT ![r] = [status |-> status[q[1]], count |-> count[q[1]]]]
  /\ Goto(r, "write")
  /\ UNCHANGED <<tables, locks, commits>>

\* A bug to catch: the count is reset with the status.
WriteStatusReset(r) ==
  /\ pc[r] = "write"
  /\ Available
  /\ Unlocked(ComplexOf(r))
  /\ status' = [status EXCEPT ![ComplexOf(r)] = target[r]]
  /\ count' = [count EXCEPT ![ComplexOf(r)] = 0]
  /\ Goto(r, "done")
  /\ UNCHANGED <<requests, on, seen, target, locks, commits>>

WriteStatus(r) ==
  /\ pc[r] = "write"
  /\ Available
  /\ Unlocked(ComplexOf(r))
  /\ status' = [status EXCEPT ![ComplexOf(r)] = target[r]]
  /\ count' = [count EXCEPT ![ComplexOf(r)] = seen[r].count]
  /\ Goto(r, "done")
  /\ UNCHANGED <<requests, on, seen, target, locks, commits>>

-----------------------------------------------------------------------------
Statement(r) ==
  \/ InsertRequest(r) \/ Begin(r) \/ ReadComplex(r) \/ MarkVerified(r)
  \/ WriteComplex(r) \/ Commit(r) \/ WriteStatus(r)

Call(r) ==
  \/ \E q \in RequestIds : FindRequest(r, q) \/ VerifyRequest(r, q)
  \/ \E q \in RequestIds, s \in Statuses : ReadForStatus(r, q, s)

Next == \E r \in Calls : Call(r) \/ Statement(r) \/ Rollback(r)

Spec == Init /\ [][Next]_vars

\* Each call goes on once begun, its statements answered by PostgreSQL.
Fairness == \A r \in Calls : WF_vars(Statement(r))

-----------------------------------------------------------------------------
\* Properties.

Verified(c) == {p \in Phones : requests[<<c, p>>] = "verified"}

\* However verifications, admin writes, failures and stale reads interleave,
\* a complex never counts more requests than verifications were committed for
\* it: lost updates only lower current_requests (complexes.go:69-89 and
\* admin/complexes.go:93-99 write back a count read before).
CountBounded == \A c \in ComplexIds : count[c] <= commits[c]

\* What a call has read of the count is bounded in the same way.
SeenBounded ==
  \A r \in Calls : pc[r] \in {"mark", "count", "commit", "write"} =>
    seen[r].count <= commits[ComplexOf(r)]

\* current_requests is the number of verified requests (README.md:123-125).
CountExact == \A c \in ComplexIds : count[c] = Cardinality(Verified(c))

\* The pool is held by verifications that all wait for a second connection.
Exhausted ==
  /\ ~Available
  /\ \A r \in Calls : pc[r] \in InTx => pc[r] = "read"

\* Nothing but the pool stops a call: transactions and single statements never
\* wait for each other in a cycle, and a call that is not answered finds every
\* connection held by a verification that waits for another one
\* (complexes.go:59, complexes.go:69).
EveryCallEnds == \A r \in Calls : pc[r] # "new" ~> (pc[r] = "done" \/ Exhausted)
=============================================================================
