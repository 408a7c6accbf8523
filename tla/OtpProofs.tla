----------------------------- MODULE OtpProofs -----------------------------
(***************************************************************************)
(* No code is blocked early, for any number of calls, any configuration    *)
(* and any failures.  The invariant is inductive with AttemptsCounted: what *)
(* is stored, or about to be stored, counts no wrong code twice.           *)
(***************************************************************************)
EXTENDS OtpHistory, TLAPS

IInv == TypeOK /\ AttemptsCounted /\ NeverBlockedEarly

\* A code is replaced by one with the same history: the rows keep their
\* number, and every other row what it holds.
LEMMA RowsKept ==
  ASSUME NEW s \in Seq(Code), NEW i \in 1 .. Len(s), NEW c \in Code
  PROVE  /\ [s EXCEPT ![i] = c] \in Seq(Code)
         /\ Len([s EXCEPT ![i] = c]) = Len(s)
         /\ [s EXCEPT ![i] = c][i] = c
         /\ \A j \in 1 .. Len(s) : j # i => [s EXCEPT ![i] = c][j] = s[j]
  OBVIOUS

\* Nothing is sent, counted or blocked before the first call.
THEOREM Initially == Init => IInv
<1> SUFFICES ASSUME Init PROVE IInv
  OBVIOUS
<1> USE ConfigAssumption DEF Init
<1>1. TypeOK
  <2>1. codes \in Seq(Code) /\ wrong \in Seq(Nat)
    OBVIOUS
  <2>2. now \in Nat /\ user \in BOOLEAN
    OBVIOUS
  <2>3. pc \in [Calls -> {"new", "insert", "attempt", "block", "user", "create", "issue", "done"}]
    OBVIOUS
  <2>4. /\ row \in [Calls -> Nat] /\ tried \in [Calls -> Nat]
        /\ result \in [Calls -> {"none", "sent", "tokens", "refused"}]
    OBVIOUS
  <2> QED BY <2>1, <2>2, <2>3, <2>4 DEF TypeOK
<1>2. AttemptsCounted /\ NeverBlockedEarly
  BY DEF AttemptsCounted, NeverBlockedEarly, Rows
<1> QED BY <1>1, <1>2 DEF IInv

\* A step that leaves the codes and the wrong ones alone, and takes a call
\* past the counting or keeps it out of it.
LEMMA Aside ==
  ASSUME IInv, NEW r \in Calls, UNCHANGED <<codes, row, tried, wrong>>,
         NEW label \in {"new", "insert", "user", "create", "issue", "done"},
         pc' = [pc EXCEPT ![r] = label],
         now' \in Nat, user' \in BOOLEAN,
         result' \in [Calls -> {"none", "sent", "tokens", "refused"}]
  PROVE  IInv'
<1>1. TypeOK'
  BY DEF IInv, TypeOK
<1>2. AttemptsCounted'
  BY DEF IInv, TypeOK, AttemptsCounted, Rows
<1>3. NeverBlockedEarly'
  BY DEF IInv, NeverBlockedEarly, Rows
<1> QED BY <1>1, <1>2, <1>3 DEF IInv

\* Each action keeps the invariant.
THEOREM StepKeeps == IInv /\ [Next]_vars => IInv'
<1> SUFFICES ASSUME IInv, [Next]_vars PROVE IInv'
  OBVIOUS
<1> USE ConfigAssumption
<1> DEFINE Labels == {"new", "insert", "attempt", "block", "user", "create", "issue", "done"}
           Results == {"none", "sent", "tokens", "refused"}
<1>t. /\ now \in Nat /\ codes \in Seq(Code) /\ user \in BOOLEAN
      /\ pc \in [Calls -> Labels] /\ row \in [Calls -> Nat] /\ tried \in [Calls -> Nat]
      /\ result \in [Calls -> Results] /\ wrong \in Seq(Nat)
  BY DEF IInv, TypeOK
<1>c. /\ Len(wrong) = Len(codes)
      /\ \A i \in 1 .. Len(codes) : codes[i] \in Code /\ wrong[i] \in Nat
  BY <1>t DEF IInv, AttemptsCounted
<1>1. CASE UNCHANGED vars
  BY <1>1 DEF IInv, TypeOK, AttemptsCounted, NeverBlockedEarly, Rows, vars, local
<1>2. CASE Tick
  BY <1>2, <1>t DEF IInv, TypeOK, AttemptsCounted, NeverBlockedEarly, Rows, Tick, local
<1>3. ASSUME NEW r \in Calls, SendOTP(r) \/ RefuseOTP(r) \/ FailLimit(r) \/ FailCall(r)
      PROVE  IInv'
  <2>1. PICK label \in {"insert", "done"} : pc' = [pc EXCEPT ![r] = label]
    BY <1>3 DEF SendOTP, RefuseOTP, FailLimit, FailCall, Goto, Answer
  <2>2. result' \in [Calls -> Results] /\ UNCHANGED <<now, codes, user, row, tried, wrong>>
    BY <1>3, <1>t DEF SendOTP, RefuseOTP, FailLimit, FailCall, Goto, Answer
  <2> QED BY <2>1, <2>2, <1>t, Aside
<1>4. ASSUME NEW r \in Calls, InsertCode(r) PROVE IInv'
  <2> DEFINE new == [created |-> now, expires |-> now + OTPTTL, attempts |-> 0, blocked |-> 0]
  <2>1. new \in Code
    BY <1>t DEF Code
  <2>2. /\ codes' = Append(codes, new) /\ wrong' = Append(wrong, 0) /\ now' = now + 1
        /\ pc' = [pc EXCEPT ![r] = "done"] /\ result' = [result EXCEPT ![r] = "sent"]
        /\ UNCHANGED <<user, row, tried>>
    BY <1>4 DEF InsertCode, Answer
  <2> HIDE DEF new
  <2>3. /\ codes' \in Seq(Code) /\ wrong' \in Seq(Nat)
        /\ Len(codes') = Len(codes) + 1 /\ Len(wrong') = Len(codes')
        /\ codes'[Len(codes) + 1] = new /\ wrong'[Len(codes) + 1] = 0
        /\ \A i \in 1 .. Len(codes) : codes'[i] = codes[i] /\ wrong'[i] = wrong[i]
    BY <2>1, <2>2, <1>t, <1>c
  <2>4. TypeOK'
    BY <2>2, <2>3, <1>t DEF TypeOK
  <2>5. AttemptsCounted'
    <3>1. \A i \in Rows' : codes'[i].attempts <= wrong'[i]
      <4> SUFFICES ASSUME NEW i \in 1 .. Len(codes) + 1 PROVE codes'[i].attempts <= wrong'[i]
        BY <2>3 DEF Rows
      <4>1. CASE i = Len(codes) + 1
        BY <4>1, <2>3 DEF new
      <4>2. CASE i # Len(codes) + 1
        <5>1. i \in 1 .. Len(codes)
          BY <4>2, <1>t
        <5> QED BY <5>1, <2>3 DEF Rows, IInv, AttemptsCounted
      <4> QED BY <4>1, <4>2
    <3>2. \A q \in Calls : pc'[q] \in {"attempt", "block"} =>
             row'[q] \in Rows' /\ tried'[q] <= wrong'[row'[q]]
      BY <2>2, <2>3, <1>t, <1>c DEF Rows, IInv, AttemptsCounted
    <3>3. \A q \in Calls : pc'[q] = "block" => tried'[q] >= OTPMaxAttempts
      BY <2>2, <1>t DEF IInv, AttemptsCounted
    <3> QED BY <3>1, <3>2, <3>3, <2>3 DEF AttemptsCounted
  <2>6. NeverBlockedEarly'
    <3> SUFFICES ASSUME NEW i \in 1 .. Len(codes) + 1, codes'[i].blocked > 0
                 PROVE  wrong'[i] >= OTPMaxAttempts
      BY <2>3 DEF NeverBlockedEarly, Rows
    <3>1. i # Len(codes) + 1
      BY <2>3 DEF new
    <3>2. i \in 1 .. Len(codes)
      BY <3>1, <1>t
    <3> QED BY <3>2, <2>3 DEF Rows, IInv, NeverBlockedEarly
  <2> QED BY <2>4, <2>5, <2>6 DEF IInv
<1>5. ASSUME NEW r \in Calls, AcceptOTP(r) PROVE IInv'
  <2>1. /\ row' = [row EXCEPT ![r] = Len(codes)] /\ pc' = [pc EXCEPT ![r] = "user"]
        /\ UNCHANGED <<now, codes, user, tried, result, wrong>>
    BY <1>5 DEF AcceptOTP, Goto
  <2>2. TypeOK'
    BY <2>1, <1>t DEF TypeOK
  <2>3. AttemptsCounted'
    BY <2>1, <1>t DEF IInv, AttemptsCounted, Rows
  <2>4. NeverBlockedEarly'
    BY <2>1 DEF IInv, NeverBlockedEarly, Rows
  <2> QED BY <2>2, <2>3, <2>4 DEF IInv
<1>6. ASSUME NEW r \in Calls, RejectOTP(r) PROVE IInv'
  <2> DEFINE n == Len(codes)
  <2>1. /\ n \in 1 .. Len(codes) /\ Latest = codes[n] /\ Latest.attempts \in Nat
    BY <1>6, <1>t, <1>c DEF RejectOTP, Usable, Latest, Code
  <2>2. /\ row' = [row EXCEPT ![r] = n] /\ tried' = [tried EXCEPT ![r] = Latest.attempts + 1]
        /\ wrong' = [wrong EXCEPT ![n] = wrong[n] + 1] /\ pc' = [pc EXCEPT ![r] = "attempt"]
        /\ UNCHANGED <<now, codes, user, result>>
    BY <1>6 DEF RejectOTP, Goto
  <2>3. Latest.attempts <= wrong[n]
    BY <2>1 DEF IInv, AttemptsCounted, Rows
  <2> HIDE DEF n
  <2>4. /\ wrong' \in Seq(Nat) /\ Len(wrong') = Len(wrong)
        /\ \A i \in 1 .. Len(codes) : wrong'[i] >= wrong[i] /\ wrong'[n] = wrong[n] + 1
    <3>1. /\ wrong \in Seq(Nat) /\ Len(wrong) = Len(codes) /\ n \in 1 .. Len(wrong)
          /\ wrong' = [wrong EXCEPT ![n] = wrong[n] + 1]
      BY <2>1, <2>2, <1>t, <1>c
    <3>2. \A i \in 1 .. Len(wrong) : wrong[i] \in Nat
      BY <3>1
    <3>3. wrong' \in Seq(Nat) /\ Len(wrong') = Len(wrong)
      BY <3>1, <3>2
    <3>4. \A i \in 1 .. Len(wrong) : wrong'[i] = IF i = n THEN wrong[n] + 1 ELSE wrong[i]
      BY <3>1
    <3> QED BY <3>1, <3>2, <3>3, <3>4
  <2>5. TypeOK'
    <3>1. /\ row' \in [Calls -> Nat] /\ tried' \in [Calls -> Nat] /\ pc' \in [Calls -> Labels]
      BY <2>1, <2>2, <1>t
    <3> QED BY <2>2, <2>4, <3>1, <1>t DEF TypeOK
  <2>6. AttemptsCounted'
    <3>1. \A i \in Rows' : codes'[i].attempts <= wrong'[i]
      <4> SUFFICES ASSUME NEW i \in 1 .. Len(codes) PROVE codes[i].attempts <= wrong'[i]
        BY <2>2 DEF Rows
      <4>1. codes[i].attempts <= wrong[i] /\ codes[i].attempts \in Nat /\ wrong[i] \in Nat
        BY <1>c DEF IInv, AttemptsCounted, Rows, Code
      <4> QED BY <4>1, <2>4, <2>1, <1>c
    <3>2. ASSUME NEW q \in Calls, pc'[q] \in {"attempt", "block"}
          PROVE  row'[q] \in Rows' /\ tried'[q] <= wrong'[row'[q]]
      <4>1. CASE q = r
        <5>1. row'[r] = n /\ tried'[r] = Latest.attempts + 1
          BY <2>2, <1>t
        <5>2. wrong[n] \in Nat /\ wrong'[n] = wrong[n] + 1
          BY <2>1, <2>4, <1>t, <1>c
        <5>3. n \in Rows'
          BY <2>1, <2>2 DEF Rows
        <5>4. Latest.attempts + 1 <= wrong'[n]
          BY <2>1, <2>3, <5>2
        <5> QED BY <4>1, <5>1, <5>3, <5>4
      <4>2. CASE q # r
        <5>1. row[q] \in 1 .. Len(codes) /\ tried[q] <= wrong[row[q]]
          BY <4>2, <3>2, <2>2, <1>t DEF IInv, AttemptsCounted, Rows
        <5> QED BY <5>1, <4>2, <2>1, <2>2, <2>4, <1>t, <1>c DEF Rows
      <4> QED BY <4>1, <4>2
    <3>3. \A q \in Calls : pc'[q] = "block" => tried'[q] >= OTPMaxAttempts
      BY <2>2, <1>t DEF IInv, AttemptsCounted
    <3> QED BY <3>1, <3>2, <3>3, <2>2, <2>4, <1>c DEF AttemptsCounted
  <2>7. NeverBlockedEarly'
    <3> SUFFICES ASSUME NEW i \in 1 .. Len(codes), codes[i].blocked > 0
                 PROVE  wrong'[i] >= OTPMaxAttempts
      BY <2>2 DEF NeverBlockedEarly, Rows
    <3>1. wrong[i] >= OTPMaxAttempts
      BY DEF IInv, NeverBlockedEarly, Rows
    <3> QED BY <3>1, <2>4, <2>1, <1>c
  <2> QED BY <2>5, <2>6, <2>7 DEF IInv
<1>7. ASSUME NEW r \in Calls, IncrementAttempts(r) \/ FailAttempt(r) PROVE IInv'
  <2> DEFINE i == row[r]
             c == [codes[i] EXCEPT !.attempts = tried[r]]
  <2>1. i \in 1 .. Len(codes) /\ tried[r] <= wrong[i] /\ tried[r] \in Nat
    BY <1>7, <1>t DEF IncrementAttempts, FailAttempt, Attempted, IInv, AttemptsCounted, Rows
  <2>2. /\ codes' = [codes EXCEPT ![i] = c] \/ codes' = codes
        /\ UNCHANGED <<now, user, row, tried, wrong>>
    BY <1>7 DEF IncrementAttempts, FailAttempt, Attempted
  <2>3. /\ c \in Code /\ c.attempts = tried[r] /\ c.blocked = codes[i].blocked
    BY <2>1, <1>c DEF Code
  <2> HIDE DEF c
  <2>4. /\ codes' \in Seq(Code) /\ Len(codes') = Len(codes)
        /\ codes'[i] = c \/ codes'[i] = codes[i]
        /\ \A j \in 1 .. Len(codes) : j # i => codes'[j] = codes[j]
    <3>1. CASE codes' = codes
      BY <3>1, <1>t
    <3>2. CASE codes' = [codes EXCEPT ![i] = c]
      BY <3>2, <2>1, <2>3, <1>t, RowsKept
    <3> QED BY <3>1, <3>2, <2>2
  <2>5. /\ pc' \in [Calls -> Labels] /\ result' \in [Calls -> Results]
        /\ \A q \in Calls : q # r => pc'[q] = pc[q]
        /\ pc'[r] \in {"attempt", "block"} => tried[r] >= OTPMaxAttempts
    BY <1>7, <1>t DEF IncrementAttempts, FailAttempt, Attempted, Goto, Answer, Exhausted
  <2>6. TypeOK'
    BY <2>2, <2>4, <2>5, <1>t DEF TypeOK
  <2>7. AttemptsCounted'
    <3>1. \A j \in Rows' : codes'[j].attempts <= wrong'[j]
      <4> SUFFICES ASSUME NEW j \in 1 .. Len(codes) PROVE codes'[j].attempts <= wrong[j]
        BY <2>2, <2>4 DEF Rows
      <4>1. codes[j].attempts <= wrong[j]
        BY DEF IInv, AttemptsCounted, Rows
      <4> QED BY <4>1, <2>1, <2>3, <2>4
    <3>2. \A q \in Calls : pc'[q] \in {"attempt", "block"} =>
             row'[q] \in Rows' /\ tried'[q] <= wrong'[row'[q]]
      BY <2>1, <2>2, <2>4, <2>5 DEF IInv, AttemptsCounted, Rows
    <3>3. \A q \in Calls : pc'[q] = "block" => tried'[q] >= OTPMaxAttempts
      BY <2>2, <2>5 DEF IInv, AttemptsCounted
    <3> QED BY <3>1, <3>2, <3>3, <2>2, <2>4, <1>c DEF AttemptsCounted
  <2>8. NeverBlockedEarly'
    BY <2>1, <2>2, <2>3, <2>4 DEF IInv, NeverBlockedEarly, Rows
  <2> QED BY <2>6, <2>7, <2>8 DEF IInv
<1>8. ASSUME NEW r \in Calls, Block(r) PROVE IInv'
  <2> DEFINE i == row[r]
             c == [codes[i] EXCEPT !.blocked = now + OTPTTL]
  <2>1. /\ i \in 1 .. Len(codes) /\ tried[r] <= wrong[i] /\ tried[r] >= OTPMaxAttempts
        /\ tried[r] \in Nat
    BY <1>8, <1>t DEF Block, IInv, AttemptsCounted, Rows
  <2>2. /\ codes' = [codes EXCEPT ![i] = c]
        /\ UNCHANGED <<now, user, row, tried, wrong>>
        /\ pc' = [pc EXCEPT ![r] = "done"] /\ result' = [result EXCEPT ![r] = "refused"]
    BY <1>8 DEF Block, Answer
  <2>3. /\ c \in Code /\ c.attempts = codes[i].attempts
    <3>1. codes[i] \in Code /\ now + OTPTTL \in Nat
      BY <2>1, <1>t, <1>c
    <3> QED BY <3>1 DEF Code
  <2> HIDE DEF c
  <2>4. /\ codes' \in Seq(Code) /\ Len(codes') = Len(codes)
        /\ codes'[i] = c
        /\ \A j \in 1 .. Len(codes) : j # i => codes'[j] = codes[j]
    BY <2>1, <2>2, <2>3, <1>t, RowsKept
  <2>5. TypeOK'
    BY <2>2, <2>4, <1>t DEF TypeOK
  <2>6. AttemptsCounted'
    <3>1. \A j \in Rows' : codes'[j].attempts <= wrong'[j]
      BY <2>1, <2>2, <2>3, <2>4 DEF IInv, AttemptsCounted, Rows
    <3>2. \A q \in Calls : pc'[q] \in {"attempt", "block"} =>
             row'[q] \in Rows' /\ tried'[q] <= wrong'[row'[q]]
      BY <2>2, <2>4, <1>t DEF IInv, AttemptsCounted, Rows
    <3>3. \A q \in Calls : pc'[q] = "block" => tried'[q] >= OTPMaxAttempts
      BY <2>2, <1>t DEF IInv, AttemptsCounted
    <3> QED BY <3>1, <3>2, <3>3, <2>2, <2>4, <1>c DEF AttemptsCounted
  <2>7. NeverBlockedEarly'
    <3> SUFFICES ASSUME NEW j \in 1 .. Len(codes), codes'[j].blocked > 0
                 PROVE  wrong[j] >= OTPMaxAttempts
      BY <2>2, <2>4 DEF NeverBlockedEarly, Rows
    <3>1. CASE j = i
      BY <3>1, <2>1, <1>c
    <3>2. CASE j # i
      BY <3>2, <2>4 DEF IInv, NeverBlockedEarly, Rows
    <3> QED BY <3>1, <3>2
  <2> QED BY <2>5, <2>6, <2>7 DEF IInv
<1>9. ASSUME NEW r \in Calls, FindUser(r) \/ CreateUser(r) \/ Issue(r)
      PROVE  IInv'
  <2>1. PICK label \in {"create", "issue", "done"} : pc' = [pc EXCEPT ![r] = label]
    BY <1>9 DEF FindUser, CreateUser, Issue, Goto, Answer
  <2>2. /\ result' \in [Calls -> Results] /\ now' \in Nat /\ user' \in BOOLEAN
        /\ UNCHANGED <<codes, row, tried, wrong>>
    BY <1>9, <1>t DEF FindUser, CreateUser, Issue, Goto, Answer
  <2> QED BY <2>1, <2>2, Aside
<1> QED
  BY <1>1, <1>2, <1>3, <1>4, <1>5, <1>6, <1>7, <1>8, <1>9 DEF Next, Step, Send, Verify, Fail

\* A code is blocked only after OTPMaxAttempts wrong codes were compared with
\* it, whatever calls interleave and statements fail (auth.go:88-93).
THEOREM BlockedInTime == Spec => []NeverBlockedEarly
<1>1. IInv => NeverBlockedEarly
  BY DEF IInv
<1> QED BY Initially, StepKeeps, <1>1, PTL DEF Spec

\* The table and the calls keep their types (auth.go:40-113).
THEOREM WellTyped == Spec => []TypeOK
<1>1. IInv => TypeOK
  BY DEF IInv
<1> QED BY Initially, StepKeeps, <1>1, PTL DEF Spec

-----------------------------------------------------------------------------
\* What holds while calls come one after the other and nothing fails.

Idle(r) == pc[r] \in {"new", "done"}

\* At most one call runs.
OneByOne == \A r, q \in Calls : Idle(r) \/ Idle(q) \/ r = q

\* A code is in its first tick for nobody, and lives OTPTTL from its creation.
Dated ==
  \A i \in Rows : /\ codes[i].created < now
                  /\ codes[i].expires = codes[i].created + OTPTTL

\* Codes are OTPRateLimit apart, and so will be the one about to be inserted.
Spaced ==
  /\ \A i \in Rows \ {1} : codes[i].created - codes[i - 1].created >= OTPRateLimit
  /\ \A r \in Calls : pc[r] = "insert" /\ codes # << >> =>
       now - Latest.created >= OTPRateLimit

\* The user a call is about to create does not exist.
Unknown == \A r \in Calls : pc[r] = "create" => ~user

\* A call that counts an attempt counts it for the last code; the attempts of
\* that code are exact whenever no call is about to write them; and once it
\* has had its wrong codes, and the call that saw the last one is over, its
\* block outlives it.
Counting ==
  /\ WrongBounded
  /\ \A r \in Calls : pc[r] \in {"attempt", "block"} =>
       row[r] = Len(codes) /\ tried[r] = wrong[Len(codes)]
  /\ codes # << >> /\ (\A r \in Calls : pc[r] # "attempt") =>
       Latest.attempts = wrong[Len(codes)]
  /\ codes # << >> /\ (\A r \in Calls : pc[r] \notin {"attempt", "block"})
       /\ wrong[Len(codes)] >= OTPMaxAttempts => Latest.blocked > Latest.expires

Kept == OneByOne /\ Dated /\ Spaced /\ Unknown /\ Counting
HInv == orderly \in BOOLEAN /\ (orderly => Kept)

\* No code has been sent and no call has begun.
LEMMA HistoryInitially == HInit => HInv
BY DEF HInit, Init, HInv, Kept, OneByOne, Idle, Dated, Spaced, Unknown, Counting,
       WrongBounded, Rows

\* When a call moves, the others have not begun or are over.
LEMMA OthersIdle ==
  ASSUME NEW r \in Calls, OneByOne, InOrder, \A q \in Calls \ {r} : pc'[q] = pc[q],
         pc[r] # "done", pc'[r] # "new"
  PROVE  /\ \A q \in Calls \ {r} : Idle(q) /\ pc'[q] = pc[q]
         /\ OneByOne'
<1>1. ASSUME NEW q \in Calls \ {r} PROVE Idle(q)
  <2>1. CASE pc[r] = "new"
    BY <2>1 DEF InOrder, Idle
  <2>2. CASE pc[r] # "new"
    BY <2>2 DEF OneByOne, Idle
  <2> QED BY <2>1, <2>2
<1>2. OneByOne'
  BY <1>1 DEF OneByOne, Idle
<1> QED BY <1>1, <1>2

\* The last code is one of the rows.
LEMMA LastRow ==
  ASSUME TypeOK, codes # << >>
  PROVE  /\ Len(codes) \in Nat \ {0} /\ Len(codes) \in Rows
         /\ Latest = codes[Len(codes)] /\ Latest \in Code
BY DEF TypeOK, Rows, Latest

\* A step that leaves the codes and the wrong ones alone, and in which no call
\* begins or ends to count.
LEMMA LittleMoves ==
  ASSUME IInv, Kept, NEW r \in Calls, InOrder, UNCHANGED <<now, codes, wrong, tried>>,
         \A q \in Calls \ {r} : pc'[q] = pc[q] /\ row'[q] = row[q],
         pc[r] \notin {"done", "attempt", "block"}, pc'[r] \notin {"new", "attempt", "block"},
         pc'[r] = "insert" /\ codes # << >> => now - Latest.created >= OTPRateLimit,
         pc'[r] = "create" => ~user',
         user' # user => pc[r] = "create"
  PROVE  Kept'
<1>1. (\A q \in Calls \ {r} : Idle(q) /\ pc'[q] = pc[q]) /\ OneByOne'
  BY OthersIdle DEF Kept
<1>2. Dated' /\ Spaced'
  BY <1>1 DEF Kept, Dated, Spaced, Rows, Latest, Idle
<1>3. Unknown'
  BY <1>1 DEF Unknown, Idle
<1>4. Counting'
  BY <1>1 DEF Kept, Counting, WrongBounded, Rows, Latest, Idle
<1> QED BY <1>1, <1>2, <1>3, <1>4 DEF Kept

\* The code that a call sends is far enough from the one before it.
LEMMA InsertKeeps ==
  ASSUME IInv, Kept, NEW r \in Calls, InOrder, InsertCode(r)
  PROVE  Kept'
<1> USE ConfigAssumption DEF ConfigAssumption
<1> DEFINE n == Len(codes)
           new == [created |-> now, expires |-> now + OTPTTL, attempts |-> 0, blocked |-> 0]
<1>t. /\ now \in Nat /\ codes \in Seq(Code) /\ wrong \in Seq(Nat) /\ Len(wrong) = n /\ n \in Nat
      /\ pc \in [Calls -> {"new", "insert", "attempt", "block", "user", "create", "issue", "done"}]
  BY DEF IInv, TypeOK, AttemptsCounted
<1>1. /\ codes' = Append(codes, new) /\ wrong' = Append(wrong, 0) /\ now' = now + 1
      /\ pc[r] = "insert" /\ pc' = [pc EXCEPT ![r] = "done"]
      /\ UNCHANGED <<user, row, tried>>
  BY DEF InsertCode, Answer
<1>2. (\A q \in Calls \ {r} : Idle(q) /\ pc'[q] = pc[q]) /\ OneByOne' /\ pc'[r] = "done"
  BY <1>1, <1>t, OthersIdle DEF Kept
<1>3. new \in Code /\ new.created = now /\ new.expires = now + OTPTTL /\ new.attempts = 0
  BY <1>t DEF Code
<1> HIDE DEF new
<1>4. /\ Len(codes') = n + 1 /\ Rows' = 1 .. n + 1 /\ codes' # << >>
      /\ codes'[n + 1] = new /\ wrong'[n + 1] = 0 /\ Latest' = new
      /\ \A i \in 1 .. n : codes'[i] = codes[i] /\ wrong'[i] = wrong[i]
  <2>1. /\ Len(codes') = n + 1 /\ codes'[n + 1] = new
        /\ \A i \in 1 .. n : codes'[i] = codes[i]
    BY <1>1, <1>3, <1>t
  <2>2. wrong'[n + 1] = 0 /\ \A i \in 1 .. n : wrong'[i] = wrong[i]
    BY <1>1, <1>t
  <2>3. Len(codes') # 0 /\ Rows' = 1 .. n + 1 /\ Latest' = new
    BY <2>1, <1>t DEF Rows, Latest
  <2> QED BY <2>1, <2>2, <2>3
<1>5. \A i \in 1 .. n : codes[i] \in Code /\ codes[i].created \in Nat
  <2>1. \A i \in 1 .. n : codes[i] \in Code
    BY <1>t
  <2>2. \A c \in Code : c.created \in Nat
    BY DEF Code
  <2> QED BY <2>1, <2>2
<1>6. Dated'
  <2> SUFFICES ASSUME NEW i \in 1 .. n + 1
               PROVE  codes'[i].created < now + 1 /\ codes'[i].expires = codes'[i].created + OTPTTL
    BY <1>1, <1>4 DEF Dated
  <2>1. CASE i = n + 1
    BY <2>1, <1>3, <1>4, <1>t
  <2>2. CASE i # n + 1
    <3>1. i \in 1 .. n
      BY <2>2, <1>t
    <3> QED BY <3>1, <1>4, <1>5, <1>t DEF Kept, Dated, Rows
  <2> QED BY <2>1, <2>2
<1>7. Spaced'
  <2>1. ASSUME NEW i \in (1 .. n + 1) \ {1}
        PROVE  codes'[i].created - codes'[i - 1].created >= OTPRateLimit
    <3>1. CASE i = n + 1
      <4>1. codes # << >> /\ i - 1 = n /\ n \in 1 .. n
        BY <3>1, <1>t
      <4>2. now - Latest.created >= OTPRateLimit
        BY <4>1, <1>1 DEF Kept, Spaced
      <4> QED BY <4>1, <4>2, <3>1, <1>3, <1>4 DEF Latest
    <3>2. CASE i # n + 1
      <4>1. i \in (1 .. n) \ {1} /\ i - 1 \in 1 .. n
        BY <3>2, <1>t
      <4> QED BY <4>1, <1>4 DEF Kept, Spaced, Rows
    <3> QED BY <3>1, <3>2
  <2>2. \A q \in Calls : pc'[q] # "insert"
    BY <1>2 DEF Idle
  <2> QED BY <2>1, <2>2, <1>4 DEF Spaced
<1>8. Unknown'
  BY <1>2 DEF Unknown, Idle
<1>9. Counting'
  <2>1. WrongBounded'
    <3> SUFFICES ASSUME NEW i \in 1 .. n + 1 PROVE wrong'[i] <= OTPMaxAttempts
      BY <1>4 DEF WrongBounded
    <3>1. CASE i = n + 1
      BY <3>1, <1>4
    <3>2. CASE i # n + 1
      <4>1. i \in 1 .. n
        BY <3>2, <1>t
      <4> QED BY <4>1, <1>4 DEF Kept, Counting, WrongBounded, Rows
    <3> QED BY <3>1, <3>2
  <2>2. \A q \in Calls : pc'[q] \notin {"attempt", "block"}
    BY <1>2 DEF Idle
  <2>3. Latest'.attempts = 0 /\ wrong'[Len(codes')] = 0
    BY <1>3, <1>4
  <2>4. ~(wrong'[Len(codes')] >= OTPMaxAttempts)
    BY <2>3
  <2> QED BY <2>1, <2>2, <2>3, <2>4 DEF Counting
<1> QED BY <1>2, <1>6, <1>7, <1>8, <1>9 DEF Kept

\* A wrong code is compared with the last one only while it may still have one.
LEMMA RejectKeeps ==
  ASSUME IInv, Kept, NEW r \in Calls, InOrder, RejectOTP(r)
  PROVE  Kept'
<1> USE ConfigAssumption DEF ConfigAssumption
<1> DEFINE n == Len(codes)
<1>t. /\ now \in Nat /\ codes \in Seq(Code) /\ wrong \in Seq(Nat) /\ Len(wrong) = n
      /\ pc \in [Calls -> {"new", "insert", "attempt", "block", "user", "create", "issue", "done"}]
      /\ row \in [Calls -> Nat] /\ tried \in [Calls -> Nat]
  BY DEF IInv, TypeOK, AttemptsCounted
<1>1. /\ n \in 1 .. n /\ Latest = codes[n] /\ Latest \in Code /\ codes # << >>
  <2>1. codes # << >>
    BY DEF RejectOTP, Usable
  <2>2. TypeOK
    BY DEF IInv
  <2> QED BY <2>1, <2>2, LastRow DEF Rows
<1>2. /\ pc[r] = "new" /\ pc' = [pc EXCEPT ![r] = "attempt"]
      /\ row' = [row EXCEPT ![r] = n] /\ tried' = [tried EXCEPT ![r] = Latest.attempts + 1]
      /\ wrong' = [wrong EXCEPT ![n] = wrong[n] + 1]
      /\ UNCHANGED <<now, codes, user>>
      /\ Latest.blocked <= now /\ now <= Latest.expires
  BY <1>t DEF RejectOTP, Goto, Usable, Latest, Code
<1>3. (\A q \in Calls \ {r} : Idle(q) /\ pc'[q] = pc[q]) /\ OneByOne' /\ pc'[r] = "attempt"
  BY <1>2, <1>t, OthersIdle DEF Kept
<1>4. \A q \in Calls : pc[q] \notin {"attempt", "block"}
  BY <1>2, <1>3 DEF Idle
<1>5. Latest.attempts = wrong[n] /\ wrong[n] \in Nat /\ wrong[n] < OTPMaxAttempts
  <2>1. Latest.attempts = wrong[n] /\ wrong[n] \in Nat
    BY <1>1, <1>4, <1>t DEF Kept, Counting
  <2>2. ~(Latest.blocked > Latest.expires)
    BY <1>1, <1>2, <1>t DEF Code
  <2>3. ~(wrong[n] >= OTPMaxAttempts)
    BY <1>1, <1>4, <2>2 DEF Kept, Counting
  <2> QED BY <2>1, <2>3
<1>6. /\ wrong'[n] = wrong[n] + 1 /\ \A i \in 1 .. n : i # n => wrong'[i] = wrong[i]
      /\ row'[r] = n /\ tried'[r] = wrong'[n]
  BY <1>1, <1>2, <1>5, <1>t
<1>7. Dated' /\ Spaced' /\ Unknown'
  BY <1>2, <1>3 DEF Kept, Dated, Spaced, Unknown, Rows, Latest, Idle
<1>8. Counting'
  <2>1. WrongBounded'
    BY <1>1, <1>2, <1>5, <1>6 DEF Kept, Counting, WrongBounded, Rows
  <2>2. \A q \in Calls : pc'[q] \in {"attempt", "block"} =>
           row'[q] = Len(codes') /\ tried'[q] = wrong'[Len(codes')]
    BY <1>2, <1>3, <1>6 DEF Idle
  <2> QED BY <1>3, <2>1, <2>2 DEF Counting
<1> QED BY <1>3, <1>7, <1>8 DEF Kept

\* The attempt is written as it was counted; the call ends unless it was the
\* last one the code may have.
LEMMA AttemptKeeps ==
  ASSUME IInv, Kept, NEW r \in Calls, InOrder, IncrementAttempts(r)
  PROVE  Kept'
<1> USE ConfigAssumption DEF ConfigAssumption
<1> DEFINE n == Len(codes)
           c == [codes[n] EXCEPT !.attempts = tried[r]]
<1>t. /\ now \in Nat /\ codes \in Seq(Code) /\ wrong \in Seq(Nat) /\ Len(wrong) = n
      /\ pc \in [Calls -> {"new", "insert", "attempt", "block", "user", "create", "issue", "done"}]
      /\ row \in [Calls -> Nat] /\ tried \in [Calls -> Nat]
  BY DEF IInv, TypeOK, AttemptsCounted
<1>1. pc[r] = "attempt" /\ row[r] = n /\ tried[r] = wrong[n] /\ n \in 1 .. n
  BY <1>t DEF IncrementAttempts, Attempted, Kept, Counting, IInv, AttemptsCounted, Rows
<1>2. /\ codes' = [codes EXCEPT ![n] = c]
      /\ pc' = [pc EXCEPT ![r] = IF tried[r] >= OTPMaxAttempts THEN "block" ELSE "done"]
      /\ UNCHANGED <<now, user, row, tried, wrong>>
  BY <1>1 DEF IncrementAttempts, Attempted, Exhausted, Goto, Answer
<1>3. /\ c \in Code /\ c.attempts = wrong[n] /\ c.created = codes[n].created
      /\ c.expires = codes[n].expires
  <2>1. codes[n] \in Code /\ tried[r] \in Nat
    BY <1>1, <1>t
  <2> QED BY <1>1, <2>1 DEF Code
<1> HIDE DEF c
<1>4. /\ Len(codes') = n /\ codes'[n] = c /\ \A i \in 1 .. n : i # n => codes'[i] = codes[i]
  BY <1>1, <1>2, <1>3, <1>t, RowsKept
<1>5. (\A q \in Calls \ {r} : Idle(q) /\ pc'[q] = pc[q]) /\ OneByOne'
      /\ pc'[r] = IF wrong[n] >= OTPMaxAttempts THEN "block" ELSE "done"
  BY <1>1, <1>2, <1>t, OthersIdle DEF Kept
<1>6. \A i \in 1 .. n : codes'[i].created = codes[i].created /\ codes'[i].expires = codes[i].expires
  BY <1>3, <1>4
<1>7. Dated' /\ Unknown'
  <2>1. Dated'
    BY <1>2, <1>4, <1>6 DEF Kept, Dated, Rows
  <2>2. Unknown'
    <3>1. \A q \in Calls : pc'[q] # "create"
      BY <1>5 DEF Idle
    <3> QED BY <3>1 DEF Unknown
  <2> QED BY <2>1, <2>2
<1>8. Spaced'
  <2>1. \A i \in Rows \ {1} : i \in 1 .. n /\ i - 1 \in 1 .. n
    BY <1>1 DEF Rows
  <2> QED BY <2>1, <1>4, <1>5, <1>6 DEF Kept, Spaced, Rows, Idle
<1>9. Counting'
  <2>1. WrongBounded'
    BY <1>2, <1>4 DEF Kept, Counting, WrongBounded, Rows
  <2>2. /\ Latest'.attempts = wrong'[Len(codes')]
        /\ \A q \in Calls : pc'[q] \in {"attempt", "block"} =>
             row'[q] = Len(codes') /\ tried'[q] = wrong'[Len(codes')]
    BY <1>1, <1>2, <1>3, <1>4, <1>5 DEF Latest, Idle
  <2>3. (\A q \in Calls : pc'[q] \notin {"attempt", "block"}) => ~(wrong'[Len(codes')] >= OTPMaxAttempts)
    BY <1>2, <1>4, <1>5
  <2> QED BY <2>1, <2>2, <2>3 DEF Counting
<1> QED BY <1>5, <1>7, <1>8, <1>9 DEF Kept

\* The block begins after the creation of the code, so it ends after its life.
LEMMA BlockKeeps ==
  ASSUME IInv, Kept, NEW r \in Calls, InOrder, Block(r)
  PROVE  Kept'
<1> USE ConfigAssumption DEF ConfigAssumption
<1> DEFINE n == Len(codes)
           c == [codes[n] EXCEPT !.blocked = now + OTPTTL]
<1>t. /\ now \in Nat /\ codes \in Seq(Code) /\ wrong \in Seq(Nat) /\ Len(wrong) = n
      /\ pc \in [Calls -> {"new", "insert", "attempt", "block", "user", "create", "issue", "done"}]
      /\ row \in [Calls -> Nat] /\ tried \in [Calls -> Nat]
  BY DEF IInv, TypeOK, AttemptsCounted
<1>1. pc[r] = "block" /\ row[r] = n /\ tried[r] = wrong[n] /\ n \in 1 .. n
  BY <1>t DEF Block, Kept, Counting, IInv, AttemptsCounted, Rows
<1>2. /\ codes' = [codes EXCEPT ![n] = c] /\ pc' = [pc EXCEPT ![r] = "done"]
      /\ UNCHANGED <<now, user, row, tried, wrong>>
  BY <1>1 DEF Block, Answer
<1>3. /\ c \in Code /\ c.attempts = codes[n].attempts /\ c.created = codes[n].created
      /\ c.expires = codes[n].expires /\ c.blocked = now + OTPTTL
      /\ codes[n] \in Code /\ codes[n].created \in Nat
  <2>1. codes[n] \in Code /\ now + OTPTTL \in Nat
    BY <1>1, <1>t
  <2> QED BY <1>1, <2>1 DEF Code
<1> HIDE DEF c
<1>4. /\ Len(codes') = n /\ codes'[n] = c /\ \A i \in 1 .. n : i # n => codes'[i] = codes[i]
  BY <1>1, <1>2, <1>3, <1>t, RowsKept
<1>5. (\A q \in Calls \ {r} : Idle(q) /\ pc'[q] = pc[q]) /\ OneByOne' /\ pc'[r] = "done"
  BY <1>1, <1>2, <1>t, OthersIdle DEF Kept
<1>6. \A i \in 1 .. n : codes'[i].created = codes[i].created /\ codes'[i].expires = codes[i].expires
  BY <1>3, <1>4
<1>7. Dated' /\ Unknown'
  <2>1. Dated'
    BY <1>2, <1>4, <1>6 DEF Kept, Dated, Rows
  <2>2. Unknown'
    <3>1. \A q \in Calls : pc'[q] # "create"
      BY <1>5 DEF Idle
    <3> QED BY <3>1 DEF Unknown
  <2> QED BY <2>1, <2>2
<1>8. Spaced'
  <2>1. \A i \in Rows \ {1} : i \in 1 .. n /\ i - 1 \in 1 .. n
    BY <1>1 DEF Rows
  <2> QED BY <2>1, <1>4, <1>5, <1>6 DEF Kept, Spaced, Rows, Idle
<1>9. Counting'
  <2>1. WrongBounded' /\ \A q \in Calls : pc'[q] \notin {"attempt", "block"}
    BY <1>2, <1>4, <1>5 DEF Kept, Counting, WrongBounded, Rows, Idle
  <2>2. Latest'.attempts = wrong'[Len(codes')]
    <3>1. \A q \in Calls : pc[q] # "attempt"
      BY <1>1, <1>5 DEF Idle
    <3>2. codes # << >>
      BY <1>1
    <3>3. Latest.attempts = wrong[n]
      BY <3>1, <3>2 DEF Kept, Counting
    <3> QED BY <3>3, <1>2, <1>3, <1>4 DEF Latest
  <2>3. Latest'.blocked > Latest'.expires
    <3>1. codes[n].created < now /\ codes[n].expires = codes[n].created + OTPTTL
      BY <1>1 DEF Kept, Dated, Rows
    <3> QED BY <3>1, <1>3, <1>4, <1>t DEF Latest
  <2> QED BY <2>1, <2>2, <2>3 DEF Counting
<1> QED BY <1>5, <1>7, <1>8, <1>9 DEF Kept

\* Each action of calls in order keeps what they keep.
LEMMA HistoryKeeps == IInv /\ HInv /\ [HNext]_hvars => HInv'
<1> SUFFICES ASSUME IInv, HInv, [HNext]_hvars PROVE HInv'
  OBVIOUS
<1>0. CASE UNCHANGED hvars
  BY <1>0 DEF hvars, vars, local, HInv, Kept, OneByOne, Idle, Dated, Spaced, Unknown, Counting,
              WrongBounded, Rows, Latest
<1> SUFFICES ASSUME HNext, orderly' PROVE Kept'
  BY <1>0 DEF HInv, HNext
<1>a. Kept /\ InOrder /\ Step /\ TypeOK
  BY DEF HNext, HInv, IInv
<1>t. /\ now \in Nat /\ OTPRateLimit \in Nat /\ row \in [Calls -> Nat]
      /\ pc \in [Calls -> {"new", "insert", "attempt", "block", "user", "create", "issue", "done"}]
  BY <1>a, ConfigAssumption DEF TypeOK, ConfigAssumption
<1>1. CASE Tick
  <2>1. /\ UNCHANGED <<codes, user, pc, row, tried, wrong>> /\ now' = now + 1
        /\ \A i \in Rows : codes[i].created \in Nat
        /\ codes # << >> => Latest.created \in Nat
    <3>1. \A i \in Rows : codes[i] \in Code
      BY <1>a DEF TypeOK, Rows
    <3>2. \A c \in Code : c.created \in Nat
      BY DEF Code
    <3> QED BY <1>1, <3>1, <3>2, <1>a, LastRow DEF Tick, local
  <2>2. OneByOne' /\ Unknown' /\ Counting'
    BY <2>1, <1>a DEF Kept, OneByOne, Idle, Unknown, Counting, WrongBounded, Rows, Latest
  <2>3. Dated'
    BY <2>1, <1>a, <1>t DEF Kept, Dated, Rows
  <2>4. Spaced'
    BY <2>1, <1>a, <1>t DEF Kept, Spaced, Rows, Latest
  <2> QED BY <2>2, <2>3, <2>4 DEF Kept
<1>2. ASSUME NEW r \in Calls, SendOTP(r) PROVE Kept'
  <2>1. /\ UNCHANGED <<now, codes, user, row, tried, wrong>>
        /\ pc[r] = "new" /\ pc'[r] \in {"insert", "done"}
        /\ pc'[r] = "insert" => ~Limited
        /\ \A q \in Calls \ {r} : pc'[q] = pc[q]
    BY <1>2, <1>t DEF SendOTP, Answer, Goto
  <2>2. ~Limited /\ codes # << >> => now - Latest.created >= OTPRateLimit
    <3>1. codes # << >> => Latest.created \in Nat
      BY <1>a, LastRow DEF Code
    <3> QED BY <3>1, <1>t DEF Limited
  <2>3. /\ pc[r] \notin {"done", "attempt", "block"} /\ pc'[r] \notin {"new", "attempt", "block"}
        /\ pc'[r] = "insert" /\ codes # << >> => now - Latest.created >= OTPRateLimit
        /\ pc'[r] # "create" /\ user' = user
        /\ \A q \in Calls \ {r} : pc'[q] = pc[q] /\ row'[q] = row[q]
    BY <2>1, <2>2
  <2> QED BY <2>1, <2>3, <1>a, LittleMoves
<1>3. ASSUME NEW r \in Calls, RefuseOTP(r) \/ AcceptOTP(r) PROVE Kept'
  <2>1. /\ UNCHANGED <<now, codes, user, tried, wrong>>
        /\ pc[r] = "new" /\ pc'[r] \in {"user", "done"}
        /\ \A q \in Calls \ {r} : pc'[q] = pc[q] /\ row'[q] = row[q]
    BY <1>3, <1>t DEF RefuseOTP, AcceptOTP, Answer, Goto
  <2> QED BY <2>1, <1>a, LittleMoves
<1>4. ASSUME NEW r \in Calls, FindUser(r) \/ CreateUser(r) \/ Issue(r) PROVE Kept'
  <2>1. /\ UNCHANGED <<now, codes, row, tried, wrong>>
        /\ pc[r] \in {"user", "create", "issue"} /\ pc'[r] \in {"create", "issue", "done"}
        /\ pc'[r] = "create" => ~user'
        /\ user' # user => pc[r] = "create"
        /\ \A q \in Calls \ {r} : pc'[q] = pc[q]
    BY <1>4, <1>t DEF FindUser, CreateUser, Issue, Answer, Goto
  <2> QED BY <2>1, <1>a, LittleMoves
<1>5. ASSUME NEW r \in Calls, InsertCode(r) PROVE Kept'
  BY <1>5, <1>a, InsertKeeps
<1>6. ASSUME NEW r \in Calls, RejectOTP(r) PROVE Kept'
  BY <1>6, <1>a, RejectKeeps
<1>7. ASSUME NEW r \in Calls, IncrementAttempts(r) PROVE Kept'
  BY <1>7, <1>a, AttemptKeeps
<1>8. ASSUME NEW r \in Calls, Block(r) PROVE Kept'
  BY <1>8, <1>a, BlockKeeps
<1> QED
  BY <1>a, <1>1, <1>2, <1>3, <1>4, <1>5, <1>6, <1>7, <1>8 DEF Step, Send, Verify

\* Otp with its history keeps both invariants.
LEMMA HistoryInvariant == HSpec => [](IInv /\ HInv)
<1>1. HInit => IInv /\ HInv
  BY Initially, HistoryInitially DEF HInit
<1>2. IInv /\ HInv /\ [HNext]_hvars => (IInv /\ HInv)'
  <2>1. [HNext]_hvars => [Next]_vars
    BY DEF HNext, Next, hvars
  <2> QED BY <2>1, StepKeeps, HistoryKeeps
<1> QED BY <1>1, <1>2, PTL DEF HSpec

\* Calls in order compare at most OTPMaxAttempts wrong codes with a code, to the
\* last moment of its life (README.md:92, README.md:698).
THEOREM WrongIsBounded == HSpec => []WrongInOrder
<1>1. IInv /\ HInv => WrongInOrder
  BY DEF HInv, Kept, Counting, WrongInOrder
<1> QED BY HistoryInvariant, <1>1, PTL

\* Calls in order send codes OTPRateLimit apart (README.md:680).
THEOREM RateIsKept == HSpec => []RateInOrder
<1>1. IInv /\ HInv => RateInOrder
  BY DEF HInv, Kept, Spaced, RateInOrder
<1> QED BY HistoryInvariant, <1>1, PTL

\* In order, the right code is answered with tokens (README.md:699), whether
\* the user exists or is created.
THEOREM LoginSucceeds == HSpec => LoginInOrder
<1>1. IInv /\ HInv /\ [HNext]_hvars =>
        [\A r \in Calls : orderly' /\ pc[r] \in {"user", "create", "issue"} /\ pc'[r] = "done" =>
           result'[r] = "tokens"]_vars
  <2> SUFFICES ASSUME IInv, HInv, HNext, NEW r \in Calls, orderly',
                      pc[r] \in {"user", "create", "issue"}, pc'[r] = "done"
               PROVE  result'[r] = "tokens"
    BY DEF hvars
  <2>1. Kept /\ Step /\ TypeOK
    BY DEF HNext, HInv, IInv
  <2>2. PICK q \in Calls : Send(q) \/ Verify(q)
    BY <2>1 DEF Step, Tick, local
  <2>3. q = r
    BY <2>1, <2>2 DEF Send, Verify, SendOTP, InsertCode, RefuseOTP, AcceptOTP, RejectOTP,
                      IncrementAttempts, Attempted, Block, FindUser, CreateUser, Issue, Goto, Answer, TypeOK
  <2>4. FindUser(r) \/ CreateUser(r) \/ Issue(r)
    BY <2>2, <2>3 DEF Send, Verify, SendOTP, InsertCode, RefuseOTP, AcceptOTP, RejectOTP,
                      IncrementAttempts, Attempted, Block
  <2>5. ~FindUser(r)
    BY <2>1 DEF FindUser, Goto, TypeOK
  <2>6. CreateUser(r) => FALSE
    BY <2>1 DEF CreateUser, Kept, Unknown, Goto, TypeOK
  <2> QED BY <2>1, <2>4, <2>5, <2>6 DEF Issue, Answer, TypeOK
<1> QED BY HistoryInvariant, <1>1, PTL DEF HSpec, LoginInOrder
=============================================================================
