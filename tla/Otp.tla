-------------------------------- MODULE Otp --------------------------------
(***************************************************************************)
(* One-time codes: SendOTP and VerifyOTP of internal/services/auth.go over *)
(* otp_codes and users.  Every call is a goroutine, and none of them uses  *)
(* a transaction: each statement is read or written on its own, the number *)
(* of attempts and the block are written from what was read before.        *)
(* Time is counted in ticks; a code is sent to one phone and phones do not *)
(* share rows, so there is a single phone here.                            *)
(***************************************************************************)
EXTENDS Integers, Sequences

CONSTANTS
  Calls,            \* calls of SendOTP and VerifyOTP; each is made once
  OTPTTL, OTPRateLimit, OTPMaxAttempts,   \* the configuration
  MaxTime           \* bound of the clock's own ticks

ASSUME ConfigAssumption ==
  /\ OTPTTL \in Nat \ {0} /\ OTPRateLimit \in Nat /\ OTPMaxAttempts \in Nat \ {0}
  /\ MaxTime \in Nat

VARIABLES
  now,      \* the clock of the service and of the database
  codes,    \* otp_codes, in the order of created_at; blocked is 0 for NULL
  user,     \* whether users has a row for the phone
  pc,       \* what a call does next
  row,      \* the code a call has read, an index of codes
  tried,    \* the attempts it counts for that code
  result,   \* what it has answered
  wrong     \* history: the wrong codes compared with each row

local == <<pc, row, tried, result>>
vars  == <<now, codes, user, pc, row, tried, result, wrong>>

Code == [created : Nat, expires : Nat, attempts : Nat, blocked : Nat]

TypeOK ==
  /\ now \in Nat
  /\ codes \in Seq(Code)
  /\ user \in BOOLEAN
  /\ pc \in [Calls -> {"new", "insert", "attempt", "block", "user", "create", "issue", "done"}]
  /\ row \in [Calls -> Nat]
  /\ tried \in [Calls -> Nat]
  /\ result \in [Calls -> {"none", "sent", "tokens", "refused"}]
  /\ wrong \in Seq(Nat)

Init ==
  /\ now = 1
  /\ codes = << >>
  /\ user = FALSE
  /\ pc = [r \in Calls |-> "new"]
  /\ row = [r \in Calls |-> 0]
  /\ tried = [r \in Calls |-> 0]
  /\ result = [r \in Calls |-> "none"]
  /\ wrong = << >>

\* LatestByPhone.
Latest == codes[Len(codes)]

Goto(r, label) == pc' = [pc EXCEPT ![r] = label] /\ UNCHANGED result

Answer(r, what) ==
  /\ pc' = [pc EXCEPT ![r] = "done"]
  /\ result' = [result EXCEPT ![r] = what]

Tick ==
  /\ now < MaxTime
  /\ now' = now + 1
  /\ UNCHANGED <<codes, user, local, wrong>>

-----------------------------------------------------------------------------
\* A bug to catch: only the block is looked at.
LimitedByBlock == codes # << >> /\ Latest.blocked > now

\* The last code is too recent, or blocked.
Limited ==
  /\ codes # << >>
  /\ now - Latest.created < OTPRateLimit \/ Latest.blocked > now

\* SendOTP reads the last code.
SendOTP(r) ==
  /\ pc[r] = "new"
  /\ IF Limited THEN Answer(r, "refused") ELSE Goto(r, "insert")
  /\ UNCHANGED <<now, codes, user, row, tried, wrong>>

\* OTP.Create; the statement takes time: the code is not known before it ends.
InsertCode(r) ==
  /\ pc[r] = "insert"
  /\ codes' = Append(codes, [created |-> now, expires |-> now + OTPTTL,
                             attempts |-> 0, blocked |-> 0])
  /\ wrong' = Append(wrong, 0)
  /\ now' = now + 1
  /\ Answer(r, "sent")
  /\ UNCHANGED <<user, row, tried>>

-----------------------------------------------------------------------------
\* VerifyOTP reads the last code, and refuses it if blocked or expired.
Usable ==
  /\ codes # << >>
  /\ Latest.blocked <= now
  /\ Latest.expires >= now

RefuseOTP(r) ==
  /\ pc[r] = "new"
  /\ ~Usable
  /\ Answer(r, "refused")
  /\ UNCHANGED <<now, codes, user, row, tried, wrong>>

AcceptOTP(r) ==
  /\ pc[r] = "new"
  /\ Usable
  /\ row' = [row EXCEPT ![r] = Len(codes)]
  /\ Goto(r, "user")
  /\ UNCHANGED <<now, codes, user, tried, wrong>>

\* The code is not the one of the row.
RejectOTP(r) ==
  /\ pc[r] = "new"
  /\ Usable
  /\ row' = [row EXCEPT ![r] = Len(codes)]
  /\ tried' = [tried EXCEPT ![r] = Latest.attempts + 1]
  /\ wrong' = [wrong EXCEPT ![Len(codes)] = @ + 1]
  /\ Goto(r, "attempt")
  /\ UNCHANGED <<now, codes, user>>

\* Bugs to catch: the limit is off by one, to either side.
ExhaustedEarly(n) == n + 1 >= OTPMaxAttempts
ExhaustedLate(n) == n > OTPMaxAttempts

Exhausted(n) == n >= OTPMaxAttempts

\* After the attempt has been stored, or not.
Attempted(r) ==
  /\ pc[r] = "attempt"
  /\ IF Exhausted(tried[r]) THEN Goto(r, "block") ELSE Answer(r, "refused")
  /\ UNCHANGED <<now, user, row, tried, wrong>>

\* IncrementAttempts writes the number counted before.
IncrementAttempts(r) ==
  /\ Attempted(r)
  /\ codes' = [codes EXCEPT ![row[r]].attempts = tried[r]]

\* A bug to catch: the block ends in the past.
BlockPast(r) ==
  /\ pc[r] = "block"
  /\ codes' = [codes EXCEPT ![row[r]].blocked = now - OTPTTL]
  /\ Answer(r, "refused")
  /\ UNCHANGED <<now, user, row, tried, wrong>>

\* Block writes the row that was read, the last one or not.
Block(r) ==
  /\ pc[r] = "block"
  /\ codes' = [codes EXCEPT ![row[r]].blocked = now + OTPTTL]
  /\ Answer(r, "refused")
  /\ UNCHANGED <<now, user, row, tried, wrong>>

-----------------------------------------------------------------------------
\* A bug to catch: an unknown phone is an error.
FindUserOnly(r) ==
  /\ pc[r] = "user"
  /\ IF user THEN Goto(r, "issue") ELSE Answer(r, "refused")
  /\ UNCHANGED <<now, codes, user, row, tried, wrong>>

FindUser(r) ==
  /\ pc[r] = "user"
  /\ Goto(r, IF user THEN "issue" ELSE "create")
  /\ UNCHANGED <<now, codes, user, row, tried, wrong>>

\* users.phone is unique: the second INSERT is an error.
CreateUser(r) ==
  /\ pc[r] = "create"
  /\ user' = TRUE
  /\ IF user THEN Answer(r, "refused") ELSE Goto(r, "issue")
  /\ UNCHANGED <<now, codes, row, tried, wrong>>

\* issueTokens.
Issue(r) ==
  /\ pc[r] = "issue"
  /\ Answer(r, "tokens")
  /\ UNCHANGED <<now, codes, user, row, tried, wrong>>

-----------------------------------------------------------------------------
\* Statements that fail.

\* The lookup of SendOTP: taken for one that has found nothing.
FailLimit(r) ==
  /\ pc[r] = "new"
  /\ Goto(r, "insert")
  /\ UNCHANGED <<now, codes, user, row, tried, wrong>>

\* The errors of IncrementAttempts and Block are dropped.
FailAttempt(r) == Attempted(r) /\ UNCHANGED codes

\* Any other error ends the call, as the one of Block does.
FailCall(r) ==
  /\ pc[r] \in {"new", "insert", "block", "user", "create", "issue"}
  /\ Answer(r, "refused")
  /\ UNCHANGED <<now, codes, user, row, tried, wrong>>

-----------------------------------------------------------------------------
Send(r) == SendOTP(r) \/ InsertCode(r)
Verify(r) ==
  \/ RefuseOTP(r) \/ AcceptOTP(r) \/ RejectOTP(r)
  \/ IncrementAttempts(r) \/ Block(r)
  \/ FindUser(r) \/ CreateUser(r) \/ Issue(r)

Fail(r) == FailLimit(r) \/ FailAttempt(r) \/ FailCall(r)

Step == Tick \/ \E r \in Calls : Send(r) \/ Verify(r)
Next == Step \/ \E r \in Calls : Fail(r)

Spec == Init /\ [][Next]_vars

-----------------------------------------------------------------------------
\* Properties.

Rows == 1 .. Len(codes)

\* However calls interleave and statements fail, a code is blocked only after
\* OTPMaxAttempts wrong codes were compared with it (auth.go:88-93): attempts
\* that are lost, being written from a stale read, only delay the block.
NeverBlockedEarly ==
  \A i \in Rows : codes[i].blocked > 0 => wrong[i] >= OTPMaxAttempts

\* No stored or counted number of attempts exceeds the wrong codes compared.
AttemptsCounted ==
  /\ Len(wrong) = Len(codes)
  /\ \A i \in Rows : codes[i].attempts <= wrong[i]
  /\ \A r \in Calls : pc[r] \in {"attempt", "block"} =>
       row[r] \in Rows /\ tried[r] <= wrong[row[r]]
  /\ \A r \in Calls : pc[r] = "block" => tried[r] >= OTPMaxAttempts

\* At most OTPMaxAttempts wrong codes are compared with a code (README.md:92,
\* README.md:698), to the last moment of its life: the block outlives it.
WrongBounded == \A i \in Rows : wrong[i] <= OTPMaxAttempts
=============================================================================
