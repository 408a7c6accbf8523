-------------------------- MODULE ComplexesProofs --------------------------
(***************************************************************************)
(* Theorems about Complexes, for every set of calls, complexes and phones. *)
(***************************************************************************)
EXTENDS ComplexesHistory, FiniteSetTheorems, TLAPS

\* The inductive invariant: a count that a call holds is bounded before it is
\* written, because commits only grows.
IInv == TypeOK /\ CountBounded /\ SeenBounded

THEOREM Initially == Init => IInv
BY ThresholdAssumption DEF Init, IInv, TypeOK, CountBounded, SeenBounded, Seen, Unread, InTx

THEOREM StepKeeps == IInv /\ [Next]_vars => IInv'
<1> SUFFICES ASSUME IInv, [Next]_vars PROVE IInv'
  OBVIOUS
<1> USE DEF IInv
<1>0. \A r \in Calls : ComplexOf(r) \in ComplexIds /\ on[r] \in Rows /\ ComplexOf(r) \in Rows
  BY DEF TypeOK, ComplexOf, RequestIds, Rows
<1>1. ASSUME NEW r \in Calls, NEW q \in RequestIds, FindRequest(r, q) \/ VerifyRequest(r, q)
      PROVE  IInv'
  <2>1. TypeOK'
    BY <1>1 DEF TypeOK, FindRequest, VerifyRequest, Goto, tables, InTx
  <2>2. CountBounded' /\ SeenBounded'
    BY <1>1 DEF TypeOK, FindRequest, VerifyRequest, Goto, tables, CountBounded, SeenBounded,
                ComplexOf
  <2>3. QED
    BY <2>1, <2>2
<1>2. ASSUME NEW r \in Calls, InsertRequest(r) PROVE IInv'
  BY <1>2 DEF TypeOK, InsertRequest, Goto, CountBounded, SeenBounded, ComplexOf
<1>3. ASSUME NEW r \in Calls, Begin(r) PROVE IInv'
  BY <1>3 DEF TypeOK, Begin, Goto, tables, InTx, CountBounded, SeenBounded, ComplexOf
<1>4. ASSUME NEW r \in Calls, ReadComplex(r) PROVE IInv'
  <2>1. TypeOK'
    BY <1>0, <1>4 DEF TypeOK, ReadComplex, Goto, tables, InTx, Seen
  <2>2. CountBounded' /\ SeenBounded'
    BY <1>0, <1>4 DEF TypeOK, ReadComplex, Goto, tables, CountBounded, SeenBounded, ComplexOf
  <2>3. QED
    BY <2>1, <2>2
<1>5. ASSUME NEW r \in Calls, MarkVerified(r) PROVE IInv'
  <2>1. TypeOK'
    BY <1>0, <1>5 DEF TypeOK, MarkVerified, Lock, Goto, tables, InTx
  <2>2. CountBounded' /\ SeenBounded'
    BY <1>5 DEF TypeOK, MarkVerified, Goto, tables, CountBounded, SeenBounded, ComplexOf
  <2>3. QED
    BY <2>1, <2>2
<1>6. ASSUME NEW r \in Calls, WriteComplex(r) PROVE IInv'
  <2>1. TypeOK'
    BY <1>0, <1>6, ThresholdAssumption
    DEF TypeOK, WriteComplex, Lock, Goto, tables, InTx, Seen
  <2>2. CountBounded' /\ SeenBounded'
    BY <1>6 DEF TypeOK, WriteComplex, Goto, tables, CountBounded, SeenBounded, ComplexOf
  <2>3. QED
    BY <2>1, <2>2
<1>7. ASSUME NEW r \in Calls, Commit(r) PROVE IInv'
  <2>1. TypeOK'
    BY <1>0, <1>7 DEF TypeOK, Commit, Goto, Seen
  <2>2. \A c \in ComplexIds : commits[c] \in Nat /\ commits'[c] >= commits[c]
    BY <1>7 DEF TypeOK, Commit
  <2>3. CountBounded'
    <3>1. seen[r].count \in Int /\ seen[r].count <= commits[ComplexOf(r)]
      BY <1>7 DEF TypeOK, Commit, SeenBounded, Seen
    <3>2. QED
      BY <1>0, <1>7, <3>1 DEF TypeOK, Commit, CountBounded
  <2>4. SeenBounded'
    <3>1. ASSUME NEW q \in Calls, pc'[q] \in {"mark", "count", "commit", "write"}
          PROVE  seen'[q].count <= commits'[ComplexOf(q)']
      <4>1. pc[q] = pc'[q] /\ seen'[q] = seen[q] /\ ComplexOf(q)' = ComplexOf(q)
        BY <1>7, <3>1 DEF TypeOK, Commit, Goto, ComplexOf
      <4>2. seen[q].count \in Int /\ seen[q].count <= commits[ComplexOf(q)]
        BY <3>1, <4>1 DEF TypeOK, SeenBounded, Seen
      <4>3. QED
        BY <1>0, <2>1, <2>2, <4>1, <4>2 DEF TypeOK
    <3>2. QED
      BY <3>1 DEF SeenBounded
  <2>5. QED
    BY <2>1, <2>3, <2>4
<1>8. ASSUME NEW r \in Calls, Rollback(r) PROVE IInv'
  BY <1>8 DEF TypeOK, Rollback, Goto, tables, CountBounded, SeenBounded, ComplexOf
<1>9. ASSUME NEW r \in Calls, NEW q \in RequestIds, NEW s \in Statuses, ReadForStatus(r, q, s)
      PROVE  IInv'
  <2>1. q[1] \in ComplexIds
    BY DEF RequestIds
  <2>2. TypeOK'
    BY <1>9, <2>1 DEF TypeOK, ReadForStatus, Goto, tables, Seen
  <2>3. CountBounded' /\ SeenBounded'
    BY <1>9, <2>1 DEF TypeOK, ReadForStatus, Goto, tables, CountBounded, SeenBounded, ComplexOf
  <2>4. QED
    BY <2>2, <2>3
<1>10. ASSUME NEW r \in Calls, WriteStatus(r) PROVE IInv'
  <2>1. TypeOK'
    BY <1>0, <1>10 DEF TypeOK, WriteStatus, Goto, Seen
  <2>2. CountBounded' /\ SeenBounded'
    BY <1>0, <1>10 DEF TypeOK, WriteStatus, Goto, CountBounded, SeenBounded, ComplexOf
  <2>3. QED
    BY <2>1, <2>2
<1>11. ASSUME UNCHANGED vars PROVE IInv'
  BY <1>11 DEF vars, TypeOK, CountBounded, SeenBounded, ComplexOf
<1>12. QED
  BY <1>1, <1>2, <1>3, <1>4, <1>5, <1>6, <1>7, <1>8, <1>9, <1>10, <1>11
  DEF Next, Call, Statement

-----------------------------------------------------------------------------
\* No interleaving of verifications, admin writes and rollbacks makes a complex
\* count more requests than were verified: every stale count that is written
\* back was once a count of committed verifications.
THEOREM NeverOvercounted == Spec => []CountBounded
BY Initially, StepKeeps, PTL DEF Spec, IInv

\* The tables and the calls stay well typed.
THEOREM WellTyped == Spec => []TypeOK
BY Initially, StepKeeps, PTL DEF Spec, IInv

-----------------------------------------------------------------------------
\* What calls that do not overlap keep.

\* The calls about a complex that run.
Running(c) == {r \in Calls : pc[r] \notin {"new", "done"} /\ ComplexOf(r) = c}

\* What a call has read is still so, and what it is about to write is right.
UpToDate(r) ==
  LET c == ComplexOf(r)
  IN  /\ pc[r] \in InTx \cup {"begin"} => requests[on[r]] = "pending"
      /\ pc[r] \in {"mark", "count", "commit", "write"} =>
           seen[r] = [status |-> status[c], count |-> count[c]]
      /\ pc[r] = "commit" =>
           target[r] = IF Reached(c, seen[r].count + 1) THEN ThresholdStatus ELSE seen[r].status

Exact(c) == IsFiniteSet(Verified(c)) /\ count[c] = Cardinality(Verified(c))

OneByOne(c) ==
  /\ \A r, q \in Running(c) : r = q
  /\ \A r \in Running(c) : UpToDate(r)
  /\ Exact(c)

HInv == orderly \subseteq ComplexIds /\ \A c \in orderly : OneByOne(c)

\* Nothing runs and nothing is verified.
LEMMA HistoryInitially == HInit => HInv
<1> SUFFICES ASSUME HInit, NEW c \in ComplexIds PROVE OneByOne(c)
  BY DEF HInit, HInv
<1>1. Running(c) = {}
  BY DEF HInit, Init, Running
<1>2. Verified(c) = {}
  BY DEF HInit, Init, Verified, RequestIds
<1>3. Exact(c)
  BY <1>2, FS_EmptySet DEF HInit, Init, Exact
<1> QED BY <1>1, <1>3 DEF OneByOne

\* What a step of one call does, said for the complex it is about and for the
\* others.
LEMMA OneMoves ==
  ASSUME NEW r \in Calls, NEW c \in ComplexIds, OneByOne(c), InOrder(c), TypeOK, TypeOK',
         \A q \in Calls \ {r} : /\ pc'[q] = pc[q] /\ on'[q] = on[q]
                                /\ seen'[q] = seen[q] /\ target'[q] = target[q],
         pc[r] = "new" \/ on'[r] = on[r],
         pc[r] # "done", pc'[r] # "new",
         ComplexOf(r)' # c => /\ status'[c] = status[c] /\ count'[c] = count[c]
                              /\ \A p \in Phones : requests'[<<c, p>>] = requests[<<c, p>>],
         ComplexOf(r)' = c => Exact(c)' /\ (pc'[r] # "done" => UpToDate(r)')
  PROVE  OneByOne(c)'
<1>1. CASE ComplexOf(r)' = c
  <2>1. Running(c)' \subseteq {r}
    <3> SUFFICES ASSUME NEW q \in Calls, q # r, pc'[q] \notin {"new", "done"}, ComplexOf(q)' = c
                 PROVE  FALSE
      BY DEF Running
    <3>1. pc[q] \notin {"new", "done"} /\ on[q][1] = c
      BY DEF ComplexOf
    <3>2. CASE pc[r] = "new"
      BY <1>1, <3>1, <3>2 DEF InOrder, ComplexOf
    <3>3. CASE pc[r] # "new"
      <4>1. r \in Running(c) /\ q \in Running(c)
        BY <1>1, <3>1, <3>3 DEF Running, ComplexOf
      <4> QED BY <4>1 DEF OneByOne
    <3> QED BY <3>2, <3>3
  <2> QED BY <1>1, <2>1 DEF OneByOne, Running
<1>2. CASE ComplexOf(r)' # c
  <2>1. Running(c)' \subseteq Running(c) \ {r}
    BY <1>2 DEF Running, ComplexOf
  <2>2. Exact(c)'
    <3>1. Verified(c)' = Verified(c)
      BY <1>2 DEF Verified
    <3> QED BY <1>2, <3>1 DEF OneByOne, Exact
  <2>3. ASSUME NEW q \in Running(c)' PROVE UpToDate(q)'
    <3>1. q \in Running(c) /\ q # r /\ q \in Calls /\ ComplexOf(q) = c
      BY <2>1 DEF Running
    <3>2. \E p \in Phones : on[q] = <<c, p>>
      BY <3>1 DEF TypeOK, RequestIds, ComplexOf
    <3>3. ComplexOf(q)' = c /\ requests'[on[q]] = requests[on[q]]
      BY <1>2, <3>1, <3>2 DEF ComplexOf
    <3>4. UpToDate(q)
      BY <3>1 DEF OneByOne
    <3> QED BY <1>2, <3>1, <3>3, <3>4 DEF UpToDate, Reached
  <2> QED BY <2>1, <2>2, <2>3 DEF OneByOne
<1> QED BY <1>1, <1>2

\* A count is exact as long as neither it nor what is verified changes.
LEMMA StillExact ==
  ASSUME NEW c, Exact(c), count'[c] = count[c],
         \A p \in Phones : requests'[<<c, p>>] = "verified" <=> requests[<<c, p>>] = "verified"
  PROVE  Exact(c)'
<1>1. Verified(c)' = Verified(c)
  BY DEF Verified
<1> QED BY <1>1 DEF Exact

\* A commit verifies one request more.
LEMMA OneMore ==
  ASSUME TypeOK, NEW r \in Calls, NEW c \in ComplexIds, c = ComplexOf(r), Commit(r), OneByOne(c)
  PROVE  /\ IsFiniteSet(Verified(c)')
         /\ Cardinality(Verified(c)') = count[c] + 1
         /\ seen[r] = [status |-> status[c], count |-> count[c]]
         /\ target[r] = IF Reached(c, count[c] + 1) THEN ThresholdStatus ELSE status[c]
<1>1. r \in Running(c)
  BY DEF Commit, Running
<1>2. /\ requests[on[r]] = "pending"
      /\ seen[r] = [status |-> status[c], count |-> count[c]]
      /\ target[r] = IF Reached(c, count[c] + 1) THEN ThresholdStatus ELSE status[c]
  BY <1>1 DEF OneByOne, UpToDate, Commit, InTx
<1>3. PICK p \in Phones : on[r] = <<c, p>>
  BY DEF TypeOK, RequestIds, ComplexOf
<1>4. p \notin Verified(c) /\ IsFiniteSet(Verified(c)) /\ Cardinality(Verified(c)) = count[c]
  BY <1>2, <1>3 DEF Verified, OneByOne, Exact
<1>5. Verified(c)' = Verified(c) \cup {p}
  <2>1. \A x \in Phones : requests'[<<c, x>>] = IF x = p THEN "verified" ELSE requests[<<c, x>>]
    <3> SUFFICES ASSUME NEW x \in Phones
                 PROVE  requests'[<<c, x>>] = IF x = p THEN "verified" ELSE requests[<<c, x>>]
      OBVIOUS
    <3>1. <<c, x>> \in RequestIds /\ (<<c, x>> = on[r] <=> x = p)
      BY <1>3 DEF RequestIds
    <3>2. requests' = [requests EXCEPT ![on[r]] = "verified"] /\ DOMAIN requests = RequestIds
      BY DEF Commit, TypeOK
    <3> QED BY <3>1, <3>2
  <2> QED BY <2>1 DEF Verified
<1> QED BY <1>2, <1>4, <1>5, FS_AddElement

\* Each action keeps complexes whose calls do not overlap exact.
LEMMA HistoryKeeps == TypeOK /\ TypeOK' /\ HInv /\ [HNext]_hvars => HInv'
<1> SUFFICES ASSUME TypeOK, TypeOK', HInv, [HNext]_hvars PROVE HInv'
  OBVIOUS
<1>0. CASE UNCHANGED hvars
  <2>1. UNCHANGED <<status, count, requests, pc, on, seen, target, orderly>>
    BY <1>0 DEF hvars, vars
  <2>2. \A c : Running(c)' = Running(c) /\ (Exact(c)' <=> Exact(c))
    BY <2>1 DEF Running, ComplexOf, Exact, Verified
  <2>3. \A r \in Calls : UpToDate(r)' <=> UpToDate(r)
    BY <2>1 DEF UpToDate, ComplexOf, Reached
  <2>4. \A c : Running(c) \subseteq Calls
    BY DEF Running
  <2> QED BY <2>1, <2>2, <2>3, <2>4 DEF HInv, OneByOne
<1> SUFFICES ASSUME HNext, NEW c \in orderly' PROVE OneByOne(c)'
  BY <1>0 DEF HInv, HNext
<1>a. c \in ComplexIds /\ OneByOne(c) /\ InOrder(c) /\ Exact(c)
  BY DEF HNext, HInv, OneByOne
<1>b. \A r \in Calls : pc[r] \notin {"new", "done"} /\ ComplexOf(r) = c => UpToDate(r)
  BY <1>a DEF OneByOne, Running
<1>c. \A r \in Calls : on[r] \in RequestIds /\ on[r] = <<ComplexOf(r), on[r][2]>>
                       /\ ComplexOf(r) \in ComplexIds /\ on[r][2] \in Phones
  BY DEF TypeOK, RequestIds, ComplexOf
<1>1. ASSUME NEW r \in Calls, NEW q \in RequestIds, FindRequest(r, q) \/ VerifyRequest(r, q)
      PROVE  OneByOne(c)'
  <2>1. /\ pc[r] = "new" /\ pc'[r] \in {"insert", "begin", "done"}
        /\ pc'[r] = "begin" => requests[q] = "pending"
        /\ on'[r] = q /\ UNCHANGED tables
        /\ \A s \in Calls \ {r} : /\ pc'[s] = pc[s] /\ on'[s] = on[s]
                                  /\ seen'[s] = seen[s] /\ target'[s] = target[s]
    BY <1>1 DEF FindRequest, VerifyRequest, Goto, TypeOK
  <2>2. Exact(c)'
    BY <2>1, <1>a, StillExact DEF tables
  <2>3. UpToDate(r)'
    BY <2>1 DEF UpToDate, tables, InTx
  <2> QED BY <1>a, <2>1, <2>2, <2>3, OneMoves DEF tables
<1>2. ASSUME NEW r \in Calls, InsertRequest(r) PROVE OneByOne(c)'
  <2>1. /\ pc[r] = "insert" /\ pc'[r] = "done"
        /\ UNCHANGED <<status, count, on, seen, target>>
        /\ \A s \in Calls \ {r} : pc'[s] = pc[s]
        /\ requests' = [requests EXCEPT ![on[r]] = IF @ = "none" THEN "pending" ELSE @]
    BY <1>2 DEF InsertRequest, Goto, TypeOK
  <2>2. \A p \in Phones : requests'[<<c, p>>] = "verified" <=> requests[<<c, p>>] = "verified"
    <3> SUFFICES ASSUME NEW p \in Phones
                 PROVE  requests'[<<c, p>>] = "verified" <=> requests[<<c, p>>] = "verified"
      OBVIOUS
    <3>1. <<c, p>> \in RequestIds
      BY <1>a DEF RequestIds
    <3> QED BY <2>1, <3>1 DEF TypeOK
  <2>3. ComplexOf(r) # c => \A p \in Phones : requests'[<<c, p>>] = requests[<<c, p>>]
    BY <2>1, <1>a DEF TypeOK, RequestIds, ComplexOf
  <2>4. Exact(c)'
    BY <2>1, <2>2, <1>a, StillExact
  <2> QED BY <1>a, <2>1, <2>3, <2>4, OneMoves DEF ComplexOf
<1>3. ASSUME NEW r \in Calls, Begin(r) \/ MarkVerified(r) PROVE OneByOne(c)'
  <2>1. /\ \/ pc[r] = "begin" /\ pc'[r] = "read"
           \/ pc[r] = "mark" /\ pc'[r] = "count"
        /\ UNCHANGED <<tables, on, seen, target>>
        /\ \A s \in Calls \ {r} : pc'[s] = pc[s]
    BY <1>3 DEF Begin, MarkVerified, Goto, TypeOK
  <2>2. Exact(c)'
    BY <2>1, <1>a, StillExact DEF tables
  <2>3. ComplexOf(r) = c => UpToDate(r)'
    BY <2>1, <1>b DEF UpToDate, tables, InTx, ComplexOf
  <2> QED BY <1>a, <2>1, <2>2, <2>3, OneMoves DEF ComplexOf, tables
<1>4. ASSUME NEW r \in Calls, ReadComplex(r) PROVE OneByOne(c)'
  <2>1. /\ pc[r] = "read" /\ pc'[r] = "mark"
        /\ UNCHANGED <<tables, on, target>>
        /\ seen'[r] = [status |-> status[ComplexOf(r)], count |-> count[ComplexOf(r)]]
        /\ \A s \in Calls \ {r} : pc'[s] = pc[s] /\ seen'[s] = seen[s]
    BY <1>4 DEF ReadComplex, Goto, TypeOK
  <2>2. Exact(c)'
    BY <2>1, <1>a, StillExact DEF tables
  <2>3. ComplexOf(r) = c => UpToDate(r)'
    BY <2>1, <1>b DEF UpToDate, tables, InTx, ComplexOf
  <2> QED BY <1>a, <2>1, <2>2, <2>3, OneMoves DEF ComplexOf, tables
<1>5. ASSUME NEW r \in Calls, WriteComplex(r) PROVE OneByOne(c)'
  <2>1. /\ pc[r] = "count" /\ pc'[r] = "commit"
        /\ UNCHANGED <<tables, on, seen>>
        /\ target'[r] = IF Reached(ComplexOf(r), seen[r].count + 1)
                        THEN ThresholdStatus ELSE seen[r].status
        /\ \A s \in Calls \ {r} : pc'[s] = pc[s] /\ target'[s] = target[s]
    BY <1>5 DEF WriteComplex, Goto, TypeOK
  <2>2. Exact(c)'
    BY <2>1, <1>a, StillExact DEF tables
  <2>3. ComplexOf(r) = c => UpToDate(r)'
    BY <2>1, <1>b DEF UpToDate, tables, InTx, ComplexOf, Reached
  <2> QED BY <1>a, <2>1, <2>2, <2>3, OneMoves DEF ComplexOf, tables
<1>6. ASSUME NEW r \in Calls, Commit(r) PROVE OneByOne(c)'
  <2>1. /\ pc[r] = "commit" /\ pc'[r] = "done"
        /\ UNCHANGED <<on, seen, target>>
        /\ \A s \in Calls \ {r} : pc'[s] = pc[s]
        /\ status' = [status EXCEPT ![ComplexOf(r)] = target[r]]
        /\ count' = [count EXCEPT ![ComplexOf(r)] = seen[r].count + 1]
        /\ requests' = [requests EXCEPT ![on[r]] = "verified"]
    BY <1>6 DEF Commit, Goto, TypeOK
  <2>2. ComplexOf(r) # c => /\ status'[c] = status[c] /\ count'[c] = count[c]
                            /\ \A p \in Phones : requests'[<<c, p>>] = requests[<<c, p>>]
    BY <2>1, <1>a, <1>c DEF TypeOK, RequestIds
  <2>3. ASSUME ComplexOf(r) = c PROVE Exact(c)'
    <3>1. /\ IsFiniteSet(Verified(c)') /\ Cardinality(Verified(c)') = count[c] + 1
          /\ seen[r] = [status |-> status[c], count |-> count[c]]
      BY <1>6, <1>a, <2>3, OneMore
    <3>2. seen[r].count = count[c]
      BY <3>1
    <3> QED BY <3>1, <3>2, <2>1, <2>3, <1>a DEF Exact, TypeOK
  <2> QED BY <1>a, <2>1, <2>2, <2>3, OneMoves DEF ComplexOf
<1>7. ASSUME NEW r \in Calls, Rollback(r) PROVE OneByOne(c)'
  <2>1. /\ pc[r] \notin {"new", "done"} /\ pc'[r] = "done"
        /\ UNCHANGED <<tables, on, seen, target>>
        /\ \A s \in Calls \ {r} : pc'[s] = pc[s]
    BY <1>7 DEF Rollback, Goto, TypeOK, InTx
  <2>2. Exact(c)'
    BY <2>1, <1>a, StillExact DEF tables
  <2> QED BY <1>a, <2>1, <2>2, OneMoves DEF ComplexOf, tables
<1>8. ASSUME NEW r \in Calls, NEW q \in RequestIds, NEW s \in Statuses, ReadForStatus(r, q, s)
      PROVE  OneByOne(c)'
  <2>1. /\ pc[r] = "new" /\ pc'[r] = "write" /\ on'[r] = q /\ UNCHANGED tables
        /\ seen'[r] = [status |-> status[q[1]], count |-> count[q[1]]]
        /\ \A t \in Calls \ {r} : /\ pc'[t] = pc[t] /\ on'[t] = on[t]
                                  /\ seen'[t] = seen[t] /\ target'[t] = target[t]
    BY <1>8 DEF ReadForStatus, Goto, TypeOK
  <2>2. Exact(c)'
    BY <2>1, <1>a, StillExact DEF tables
  <2>3. UpToDate(r)'
    BY <2>1 DEF UpToDate, tables, InTx, ComplexOf
  <2> QED BY <1>a, <2>1, <2>2, <2>3, OneMoves DEF tables
<1>9. ASSUME NEW r \in Calls, WriteStatus(r) PROVE OneByOne(c)'
  <2>1. /\ pc[r] = "write" /\ pc'[r] = "done"
        /\ UNCHANGED <<requests, on, seen, target>>
        /\ \A s \in Calls \ {r} : pc'[s] = pc[s]
        /\ status' = [status EXCEPT ![ComplexOf(r)] = target[r]]
        /\ count' = [count EXCEPT ![ComplexOf(r)] = seen[r].count]
    BY <1>9 DEF WriteStatus, Goto, TypeOK
  <2>2. ComplexOf(r) # c => status'[c] = status[c] /\ count'[c] = count[c]
    BY <2>1, <1>a, <1>c DEF TypeOK
  <2>3. ASSUME ComplexOf(r) = c PROVE Exact(c)'
    <3>1. seen[r].count = count[c]
      <4>1. UpToDate(r)
        BY <2>1, <2>3, <1>b
      <4> QED BY <2>1, <2>3, <4>1 DEF UpToDate
    <3>2. count'[c] = count[c]
      BY <2>1, <2>3, <3>1, <1>a DEF TypeOK
    <3> QED BY <2>1, <3>2, <1>a, StillExact
  <2> QED BY <1>a, <2>1, <2>2, <2>3, OneMoves DEF ComplexOf
<1> QED
  BY <1>1, <1>2, <1>3, <1>4, <1>5, <1>6, <1>7, <1>8, <1>9 DEF HNext, Next, Call, Statement

\* Complexes with its history keeps both invariants.
LEMMA HistoryInvariant == HSpec => [](IInv /\ HInv)
<1>1. HInit => IInv /\ HInv
  BY Initially, HistoryInitially DEF HInit
<1>2. IInv /\ HInv /\ [HNext]_hvars => (IInv /\ HInv)'
  <2>1. [HNext]_hvars => [Next]_vars
    BY DEF HNext, hvars
  <2>2. (IInv => TypeOK) /\ (IInv' => TypeOK')
    BY DEF IInv
  <2> QED BY <2>1, <2>2, StepKeeps, HistoryKeeps
<1> QED BY <1>1, <1>2, PTL DEF HSpec

\* A complex whose calls do not overlap counts the verified requests exactly,
\* whatever fails and whatever status an admin writes (complexes.go:69-96,
\* admin/complexes.go:93-99).
THEOREM ExactInOrder == HSpec => []CountInOrder
<1>1. IInv /\ HInv => CountInOrder
  BY DEF HInv, OneByOne, Exact, CountInOrder
<1> QED BY HistoryInvariant, <1>1, PTL

\* It launches exactly when the verified requests reach its threshold
\* (README.md:113-115).
THEOREM LaunchesInOrder == HSpec => LaunchInOrder
<1> DEFINE Launch ==
      \A c \in orderly : commits'[c] # commits[c] =>
        LET n == Cardinality(Verified(c)')
        IN  status'[c] = IF Threshold[c] > 0 /\ n >= Threshold[c] THEN ThresholdStatus
                         ELSE status[c]
<1>1. IInv /\ HInv /\ [HNext]_hvars => [Launch]_vars
  <2> SUFFICES ASSUME IInv, HInv, HNext, NEW c \in orderly, commits'[c] # commits[c]
               PROVE  LET n == Cardinality(Verified(c)')
                      IN  status'[c] = IF Threshold[c] > 0 /\ n >= Threshold[c]
                                       THEN ThresholdStatus ELSE status[c]
    BY DEF hvars
  <2>1. TypeOK /\ c \in ComplexIds /\ OneByOne(c)
    BY DEF IInv, HInv
  <2>2. PICK r \in Calls : Commit(r)
    BY DEF HNext, Next, Call, Statement, FindRequest, VerifyRequest, ReadForStatus, InsertRequest,
           Begin, ReadComplex, MarkVerified, WriteComplex, WriteStatus, Rollback
  <2>3. ComplexOf(r) = c
    BY <2>1, <2>2 DEF Commit, TypeOK
  <2>4. status'[c] = target[r]
    BY <2>1, <2>2, <2>3 DEF Commit, TypeOK
  <2>5. /\ Cardinality(Verified(c)') = count[c] + 1
        /\ target[r] = IF Reached(c, count[c] + 1) THEN ThresholdStatus ELSE status[c]
    BY <2>1, <2>2, <2>3, OneMore
  <2> QED BY <2>4, <2>5 DEF Reached
<1> QED BY HistoryInvariant, <1>1, PTL DEF HSpec, LaunchInOrder
=============================================================================
