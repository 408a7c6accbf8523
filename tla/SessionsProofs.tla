--------------------------- MODULE SessionsProofs ---------------------------
(***************************************************************************)
(* How long an access token is let in, whose role it tells and what a      *)
(* logout ends, for every length of a second, every configuration and any  *)
(* number of calls.                                                        *)
(***************************************************************************)
EXTENDS SessionsHistory, TLAPS

\* What \div is: the whole seconds before a moment, and what is left of it.
LEMMA Division ==
  ASSUME NEW n \in Nat, NEW d \in Nat \ {0}
  PROVE  /\ n \div d \in Nat
         /\ d * (n \div d) <= n
         /\ n < d * (n \div d) + d
  OBVIOUS

\* A product grows by a factor with the other one.
LEMMA Product ==
  ASSUME NEW d \in Nat \ {0}, NEW a \in Nat, NEW b \in Nat, a + 1 <= b
  PROVE  d * a + d <= d * b
<1>1. PICK k \in Nat : b = a + 1 + k
  <2>1. b - a - 1 \in Nat /\ b = a + 1 + (b - a - 1)
    OBVIOUS
  <2> QED BY <2>1
<1>2. d * b = d * a + d + d * k /\ d * a \in Nat /\ d * k \in Nat
  BY <1>1
<1> QED BY <1>2

\* Whole seconds keep the order of moments, and tell moments a second apart.
LEMMA Seconds ==
  ASSUME NEW n \in Nat, NEW e \in Nat, NEW d \in Nat \ {0}
  PROVE  /\ n <= e => n \div d <= e \div d
         /\ n \div d <= e \div d => n < e + d
         /\ d <= e => e \div d > 0
<1> DEFINE a == n \div d
           b == e \div d
<1>1. /\ a \in Nat /\ d * a <= n /\ n < d * a + d /\ d * a \in Nat
      /\ b \in Nat /\ d * b <= e /\ e < d * b + d /\ d * b \in Nat
  BY Division
<1> HIDE DEF a, b
<1>2. b + 1 <= a => d * b + d <= d * a
  BY <1>1, Product
<1>3. a + 1 <= b => d * a + d <= d * b
  BY <1>1, Product
<1>4. n <= e => a <= b
  BY <1>1, <1>2
<1>5. a <= b => n < e + d
  <2>1. a <= b => a = b \/ a + 1 <= b
    BY <1>1
  <2> QED BY <1>1, <1>3
<1>6. d <= e => b > 0
  <2>1. b = 0 => d * b = 0
    OBVIOUS
  <2> QED BY <1>1, <2>1
<1> QED BY <1>4, <1>5, <1>6 DEF a, b

-----------------------------------------------------------------------------
\* A token names the second in which its time is over, after the first second
\* of Unix time.
Stamped ==
  \A r \in Calls : Issued(r) =>
    /\ issued[r] >= Second
    /\ access[r].expires = Unix(issued[r] + AccessTTL)

\* A call reads, or revokes, a token that was issued.
Held == \A r \in Calls : pc[r] \in {"token", "revoke"} => on[r] \in Calls /\ Issued(on[r])

IInv == TypeOK /\ now >= Second /\ Stamped /\ Held

\* The clock has started, and no token has been issued.
THEOREM Initially == Init => IInv
<1> SUFFICES ASSUME Init PROVE IInv
  OBVIOUS
<1> USE ConfigAssumption DEF ConfigAssumption, Init
<1>1. TypeOK
  <2>1. access \in [Calls -> [role : Roles, expires : Nat]]
    BY DEF Roles
  <2>2. tokens \in [Calls -> Token \cup {NoToken}] /\ on \in [Calls -> Calls \cup {NoToken}]
    OBVIOUS
  <2>3. user \in [Calls -> Users] /\ seen \in [Calls -> Roles]
    BY DEF Roles
  <2> QED BY <2>1, <2>2, <2>3 DEF TypeOK
<1>2. now >= Second /\ Stamped /\ Held
  BY DEF Stamped, Held, Issued
<1> QED BY <1>1, <1>2 DEF IInv

\* Each action keeps the invariant.
THEOREM StepKeeps == IInv /\ [Next]_vars => IInv'
<1> SUFFICES ASSUME IInv, [Next]_vars PROVE IInv'
  OBVIOUS
<1> USE ConfigAssumption DEF ConfigAssumption
<1>t. /\ now \in Nat /\ role \in [Users -> Roles]
      /\ tokens \in [Calls -> Token \cup {NoToken}]
      /\ access \in [Calls -> [role : Roles, expires : Nat]]
      /\ issued \in [Calls -> Nat]
      /\ pc \in [Calls -> {"new", "token", "user", "issue", "revoke", "ok", "error"}]
      /\ on \in [Calls -> Calls \cup {NoToken}]
      /\ user \in [Calls -> Users] /\ seen \in [Calls -> Roles]
      /\ now >= Second
  BY DEF IInv, TypeOK
<1>1. CASE UNCHANGED vars
  BY <1>1 DEF IInv, TypeOK, Stamped, Held, Issued, vars
<1>2. CASE Tick
  <2>1. TypeOK'
    BY <1>2, <1>t DEF Tick, TypeOK
  <2>2. Stamped' /\ Held' /\ now' >= Second
    BY <1>2, <1>t DEF Tick, IInv, Stamped, Held, Issued
  <2> QED BY <2>1, <2>2 DEF IInv
<1>3. ASSUME NEW u \in Users, NEW x \in Roles, SetRole(u, x) PROVE IInv'
  <2>1. TypeOK'
    BY <1>3, <1>t DEF SetRole, TypeOK
  <2>2. Stamped' /\ Held' /\ now' >= Second
    BY <1>3, <1>t DEF SetRole, IInv, Stamped, Held, Issued
  <2> QED BY <2>1, <2>2 DEF IInv
<1>4. ASSUME NEW r \in Calls, NEW u \in Users, Login(r, u) PROVE IInv'
  <2>1. TypeOK'
    BY <1>4, <1>t DEF Login, Goto, TypeOK
  <2>2. Stamped' /\ Held' /\ now' >= Second
    BY <1>4, <1>t DEF Login, IInv, Stamped, Held, Issued, Goto
  <2> QED BY <2>1, <2>2 DEF IInv
<1>5. ASSUME NEW r \in Calls, NEW t \in Calls, Refresh(r, t) \/ Logout(r, t) PROVE IInv'
  <2>1. TypeOK'
    <3>1. /\ on' = [on EXCEPT ![r] = t]
          /\ UNCHANGED <<now, role, tokens, access, issued, user, seen>>
      BY <1>5 DEF Refresh, Logout
    <3>2. pc' = [pc EXCEPT ![r] = "token"] \/ pc' = [pc EXCEPT ![r] = "revoke"]
      BY <1>5 DEF Refresh, Logout, Goto
    <3>3. on' \in [Calls -> Calls \cup {NoToken}]
      BY <3>1, <1>t
    <3>4. pc' \in [Calls -> {"new", "token", "user", "issue", "revoke", "ok", "error"}]
      BY <3>2, <1>t
    <3> QED BY <3>1, <3>3, <3>4, <1>t DEF TypeOK
  <2>2. Stamped' /\ now' >= Second
    BY <1>5, <1>t DEF Refresh, Logout, IInv, Stamped, Issued
  <2>3. Held'
    BY <1>5, <1>t DEF Refresh, Logout, Goto, IInv, Held, Issued
  <2> QED BY <2>1, <2>2, <2>3 DEF IInv
<1>6. ASSUME NEW r \in Calls, FindByToken(r) PROVE IInv'
  <2>1. tokens[on[r]].user \in Users
    <3>1. on[r] \in Calls /\ tokens[on[r]] # NoToken
      BY <1>6 DEF FindByToken, IInv, Held, Issued
    <3> QED BY <3>1, <1>t DEF Token
  <2>2. TypeOK'
    BY <1>6, <1>t, <2>1 DEF FindByToken, Goto, TypeOK
  <2>3. Stamped' /\ Held' /\ now' >= Second
    BY <1>6, <1>t DEF FindByToken, Goto, IInv, Stamped, Held, Issued
  <2> QED BY <2>2, <2>3 DEF IInv
<1>7. ASSUME NEW r \in Calls, FindUser(r) PROVE IInv'
  <2>1. TypeOK'
    BY <1>7, <1>t DEF FindUser, Goto, TypeOK
  <2>2. Stamped' /\ Held' /\ now' >= Second
    BY <1>7, <1>t DEF FindUser, IInv, Stamped, Held, Issued, Goto
  <2> QED BY <2>1, <2>2 DEF IInv
<1>8. ASSUME NEW r \in Calls, Issue(r) PROVE IInv'
  <2>1. now + AccessTTL \in Nat /\ Unix(now + AccessTTL) \in Nat
    <3>1. now + AccessTTL \in Nat /\ Second \in Nat \ {0}
      BY <1>t
    <3>2. (now + AccessTTL) \div Second \in Nat
      BY <3>1, Division
    <3> QED BY <3>1, <3>2 DEF Unix
  <2>2. [user |-> user[r], expires |-> now + RefreshTTL, revoked |-> FALSE] \in Token
    BY <1>t DEF Token
  <2>3. TypeOK'
    BY <1>8, <2>1, <2>2, <1>t DEF Issue, Signed, Goto, TypeOK
  <2>4. ASSUME NEW q \in Calls, Issued(q)'
        PROVE  issued'[q] >= Second /\ access'[q].expires = Unix(issued'[q] + AccessTTL)
    <3>1. CASE q = r
      <4>1. issued'[q] = now /\ access'[q].expires = Unix(now + AccessTTL)
        BY <3>1, <1>8, <1>t DEF Issue, Signed
      <4> QED BY <4>1, <1>t
    <3>2. CASE q # r
      <4>1. Issued(q) /\ issued'[q] = issued[q] /\ access'[q] = access[q]
        BY <3>2, <2>4, <1>8, <1>t DEF Issue, Issued
      <4> QED BY <4>1 DEF IInv, Stamped
    <3> QED BY <3>1, <3>2
  <2>5. Stamped' /\ now' >= Second
    BY <2>4, <1>8, <1>t DEF Issue, Stamped, Unix
  <2>6. Held'
    <3>1. \A q \in Calls : Issued(q) => Issued(q)'
      BY <1>8, <2>2, <1>t DEF Issue, Issued
    <3>2. \A q \in Calls : pc'[q] \in {"token", "revoke"} => pc[q] = pc'[q] /\ on'[q] = on[q]
      BY <1>8, <1>t DEF Issue, Goto
    <3> QED BY <3>1, <3>2 DEF IInv, Held, Issued
  <2> QED BY <2>3, <2>5, <2>6 DEF IInv
<1>9. ASSUME NEW r \in Calls, Revoke(r) PROVE IInv'
  <2> DEFINE t == on[r]
  <2>1. /\ t \in Calls
        /\ tokens[t] \in Token
        /\ tokens' = [tokens EXCEPT ![t] = [tokens[t] EXCEPT !.revoked = TRUE]]
        /\ UNCHANGED <<now, role, access, issued, on, user, seen>>
        /\ pc' = [pc EXCEPT ![r] = "ok"]
    BY <1>9, <1>t DEF Revoke, IInv, Held, Issued, Goto
  <2> HIDE DEF t
  <2>2. [tokens[t] EXCEPT !.revoked = TRUE] \in Token
    BY <2>1 DEF Token
  <2>3. TypeOK'
    BY <2>1, <2>2, <1>t DEF TypeOK
  <2>4. \A q \in Calls : Issued(q)' <=> Issued(q)
    BY <2>1, <2>2, <1>t DEF Issued
  <2>5. Stamped' /\ now' >= Second
    BY <2>1, <2>4, <1>t DEF IInv, Stamped
  <2>6. Held'
    <3>1. \A q \in Calls : pc'[q] \in {"token", "revoke"} => pc[q] = pc'[q] /\ on'[q] = on[q]
      BY <2>1, <1>t
    <3> QED BY <3>1, <2>4 DEF IInv, Held, Issued
  <2> QED BY <2>3, <2>5, <2>6 DEF IInv
<1>10. ASSUME NEW r \in Calls, Fail(r) PROVE IInv'
  <2>1. TypeOK'
    BY <1>10, <1>t DEF Fail, Goto, TypeOK
  <2>2. Stamped' /\ Held' /\ now' >= Second
    BY <1>10, <1>t DEF Fail, Goto, IInv, Stamped, Held, Issued
  <2> QED BY <2>1, <2>2 DEF IInv
<1> QED
  BY <1>1, <1>2, <1>3, <1>4, <1>5, <1>6, <1>7, <1>8, <1>9, <1>10 DEF Next

\* What the invariant says of the window.
LEMMA Window == IInv => AccessWindow
<1> SUFFICES ASSUME IInv, NEW r \in Calls, Issued(r)
             PROVE  /\ now < issued[r] + AccessTTL => Accepted(r)
                    /\ Accepted(r) => now < issued[r] + AccessTTL + Second
  BY DEF AccessWindow
<1> DEFINE e == issued[r] + AccessTTL
<1>1. /\ now \in Nat /\ e \in Nat /\ Second \in Nat \ {0} /\ Second <= e
      /\ access[r].expires = e \div Second
  <2>1. now \in Nat /\ issued[r] \in Nat /\ issued[r] >= Second
    BY DEF IInv, TypeOK, Stamped
  <2>2. access[r].expires = e \div Second
    BY DEF IInv, Stamped, Unix
  <2>3. Second \in Nat \ {0} /\ AccessTTL \in Nat
    BY ConfigAssumption DEF ConfigAssumption
  <2> QED BY <2>1, <2>2, <2>3
<1>2. /\ now <= e => now \div Second <= e \div Second
      /\ now \div Second <= e \div Second => now < e + Second
      /\ e \div Second > 0
  BY <1>1, Seconds
<1> QED BY <1>1, <1>2 DEF Accepted, Unix

\* An access token is let in until the expiry its caller was told, and for less
\* than a second after it (jwt.go:64).
THEOREM LetInInTime == Spec => []AccessWindow
<1> QED BY Initially, StepKeeps, Window, PTL DEF Spec

\* Tokens and calls keep their types (auth.go:115-177).
THEOREM WellTyped == Spec => []TypeOK
<1>1. IInv => TypeOK
  BY DEF IInv
<1> QED BY Initially, StepKeeps, <1>1, PTL DEF Spec

-----------------------------------------------------------------------------
\* What the history is needed for.

\* None but a call that was answered "ok" has issued a token.
Begun == \A r \in Calls : pc[r] # "ok" => ~Issued(r)

\* A role that was read is one the user has had during the call, and so is the
\* one a token tells.
RolesRead ==
  \A r \in Calls :
    /\ pc[r] = "issue" => seen[r] \in during[r]
    /\ Issued(r) => access[r].role \in during[r]

\* A token whose Logout was answered is there, revoked.
Ended == \A t \in out : t \in Calls /\ Issued(t) /\ tokens[t].revoked

\* A call that had such a token to read has it still to read, or was refused.
LateOver ==
  \A r \in late : r \in Calls /\ (pc[r] = "error" \/ (pc[r] = "token" /\ on[r] \in out))

HInv == Begun /\ RolesRead /\ Ended /\ LateOver

\* Nothing has begun.
LEMMA HistoryInitially == HInit => HInv
BY DEF HInit, Init, HInv, Begun, RolesRead, Ended, LateOver, Issued

\* What a step of the call r does to the history, when it leaves the others and
\* revoked tokens as they are.
LEMMA Bystanders ==
  ASSUME HInv, Watch, NEW r \in Calls,
         \A q \in Calls \ {r} : /\ pc'[q] = pc[q] /\ on'[q] = on[q] /\ seen'[q] = seen[q]
                                /\ access'[q] = access[q]
                                /\ Issued(q)' <=> Issued(q),
         \A t \in Calls \ {r} : Issued(t) /\ tokens[t].revoked => tokens'[t].revoked,
         pc[r] \notin {"ok", "error"},
         pc'[r] = "issue" => seen'[r] = role[user'[r]],
         Issued(r)' => pc[r] = "issue" /\ pc'[r] = "ok" /\ access'[r].role = seen[r],
         pc[r] = "token" => pc'[r] = "error" \/ ~tokens[on[r]].revoked,
         pc[r] = "revoke" /\ pc'[r] = "ok" =>
           on[r] \in Calls /\ Issued(on[r]) /\ tokens'[on[r]].revoked
  PROVE  HInv'
<1>1. Begun' /\ ~Issued(r)
  BY DEF HInv, Begun, Issued
<1>2. RolesRead'
  <2> SUFFICES ASSUME NEW q \in Calls
               PROVE  /\ pc'[q] = "issue" => seen'[q] \in during'[q]
                      /\ Issued(q)' => access'[q].role \in during'[q]
    BY DEF RolesRead, Issued
  <2>1. during[q] \subseteq during'[q]
    BY DEF Watch
  <2>2. CASE q # r
    BY <2>1, <2>2 DEF HInv, RolesRead, Issued
  <2>3. CASE q = r
    <3>1. pc'[r] = "issue" => role[user'[r]] \in during'[r]
      BY DEF Watch
    <3>2. Issued(r)' => seen[r] \in during[r] /\ access'[r].role = seen[r]
      BY DEF HInv, RolesRead
    <3> QED BY <2>1, <2>3, <3>1, <3>2
  <2> QED BY <2>2, <2>3
<1>3. Ended'
  <2> SUFFICES ASSUME NEW t \in out' PROVE t \in Calls /\ Issued(t)' /\ tokens'[t].revoked
    BY DEF Ended, Issued
  <2>1. CASE t \in out
    <3>1. t \in Calls /\ Issued(t) /\ tokens[t].revoked /\ t # r
      BY <2>1, <1>1 DEF HInv, Ended
    <3> QED BY <3>1
  <2>2. CASE t \notin out
    <3>1. PICK q \in Calls : pc[q] = "revoke" /\ pc'[q] = "ok" /\ t = on[q]
      BY <2>2 DEF Watch
    <3>2. q = r
      BY <3>1
    <3>3. t \in Calls /\ Issued(t) /\ tokens'[t].revoked /\ t # r
      BY <3>1, <3>2, <1>1
    <3> QED BY <3>3
  <2> QED BY <2>1, <2>2
<1>4. LateOver'
  <2> SUFFICES ASSUME NEW q \in late'
               PROVE  q \in Calls /\ (pc'[q] = "error" \/ (pc'[q] = "token" /\ on'[q] \in out'))
    BY DEF LateOver
  <2>1. out \subseteq out'
    BY DEF Watch
  <2>2. CASE q \in late /\ q # r
    BY <2>1, <2>2 DEF HInv, LateOver
  <2>3. CASE q \in late /\ q = r
    <3>1. pc[r] = "token" /\ on[r] \in out
      BY <2>3 DEF HInv, LateOver
    <3>2. tokens[on[r]].revoked
      BY <3>1 DEF HInv, Ended
    <3> QED BY <2>3, <3>1, <3>2
  <2>4. CASE q \notin late
    BY <2>4 DEF Watch
  <2> QED BY <2>2, <2>3, <2>4
<1> QED BY <1>1, <1>2, <1>3, <1>4 DEF HInv

\* What a step does to the history when no call moves.
LEMMA NobodyMoves ==
  ASSUME HInv, Watch, UNCHANGED <<tokens, access, pc, on, seen>>
  PROVE  HInv'
<1>1. Begun'
  BY DEF HInv, Begun, Issued
<1>2. RolesRead'
  <2>1. \A r \in Calls : during[r] \subseteq during'[r]
    BY DEF Watch
  <2> QED BY <2>1 DEF HInv, RolesRead, Issued
<1>3. out' = out
  BY DEF Watch
<1>4. Ended'
  BY <1>3 DEF HInv, Ended, Issued
<1>5. LateOver'
  BY <1>3 DEF HInv, LateOver, Watch
<1> QED BY <1>1, <1>2, <1>4, <1>5 DEF HInv

\* Each action keeps what the history is needed for.
LEMMA HistoryKeeps == IInv /\ HInv /\ [HNext]_hvars => HInv'
<1> SUFFICES ASSUME IInv, HInv, [HNext]_hvars PROVE HInv'
  OBVIOUS
<1>0. CASE UNCHANGED hvars
  BY <1>0 DEF hvars, vars, HInv, Begun, RolesRead, Ended, LateOver, Issued
<1> SUFFICES ASSUME Next, Watch PROVE HInv'
  BY <1>0 DEF HNext
<1>t. /\ tokens \in [Calls -> Token \cup {NoToken}]
      /\ access \in [Calls -> [role : Roles, expires : Nat]]
      /\ pc \in [Calls -> {"new", "token", "user", "issue", "revoke", "ok", "error"}]
      /\ on \in [Calls -> Calls \cup {NoToken}]
      /\ user \in [Calls -> Users] /\ seen \in [Calls -> Roles]
  BY DEF IInv, TypeOK
<1>b. \A q \in Calls : pc[q] # "ok" => tokens[q] = NoToken
  BY DEF HInv, Begun, Issued
<1>1. CASE Tick
  BY <1>1, NobodyMoves DEF Tick
<1>2. ASSUME NEW u \in Users, NEW x \in Roles, SetRole(u, x) PROVE HInv'
  BY <1>2, NobodyMoves DEF SetRole
<1>3. ASSUME NEW r \in Calls, NEW u \in Users, Login(r, u) PROVE HInv'
  <2>1. tokens' = tokens /\ access' = access /\ on' = on
    BY <1>3 DEF Login
  <2>2. \A q \in Calls \ {r} : pc'[q] = pc[q] /\ seen'[q] = seen[q]
    BY <1>3, <1>t DEF Login, Goto
  <2>3. pc[r] = "new" /\ pc'[r] = "issue" /\ seen'[r] = role[user'[r]]
    BY <1>3, <1>t DEF Login, Goto
  <2> QED BY <2>1, <2>2, <2>3, <1>b, Bystanders DEF Issued
<1>4. ASSUME NEW r \in Calls, NEW t \in Calls, Refresh(r, t) \/ Logout(r, t) PROVE HInv'
  <2>1. tokens' = tokens /\ access' = access /\ seen' = seen
    BY <1>4 DEF Refresh, Logout
  <2>2. \A q \in Calls \ {r} : pc'[q] = pc[q] /\ on'[q] = on[q]
    BY <1>4, <1>t DEF Refresh, Logout, Goto
  <2>3. pc[r] = "new" /\ pc'[r] \in {"token", "revoke"}
    BY <1>4, <1>t DEF Refresh, Logout, Goto
  <2> QED BY <2>1, <2>2, <2>3, <1>b, Bystanders DEF Issued
<1>5. ASSUME NEW r \in Calls, FindByToken(r) PROVE HInv'
  <2>1. tokens' = tokens /\ access' = access /\ on' = on /\ seen' = seen
    BY <1>5 DEF FindByToken
  <2>2. \A q \in Calls \ {r} : pc'[q] = pc[q]
    BY <1>5, <1>t DEF FindByToken, Goto
  <2>3. pc[r] = "token" /\ pc'[r] \in {"user", "error"}
    BY <1>5, <1>t DEF FindByToken, Goto
  <2>4. pc'[r] = "error" \/ ~tokens[on[r]].revoked
    BY <1>5, <1>t DEF FindByToken, Goto, Valid
  <2> QED BY <2>1, <2>2, <2>3, <2>4, <1>b, Bystanders DEF Issued
<1>6. ASSUME NEW r \in Calls, FindUser(r) PROVE HInv'
  <2>1. tokens' = tokens /\ access' = access /\ on' = on /\ user' = user
    BY <1>6 DEF FindUser
  <2>2. \A q \in Calls \ {r} : pc'[q] = pc[q] /\ seen'[q] = seen[q]
    BY <1>6, <1>t DEF FindUser, Goto
  <2>3. pc[r] = "user" /\ pc'[r] = "issue" /\ seen'[r] = role[user'[r]]
    BY <1>6, <1>t, <2>1 DEF FindUser, Goto
  <2> QED BY <2>1, <2>2, <2>3, <1>b, Bystanders DEF Issued
<1>7. ASSUME NEW r \in Calls, Issue(r) PROVE HInv'
  <2>1. on' = on /\ seen' = seen
    BY <1>7 DEF Issue
  <2>2. \A q \in Calls \ {r} : /\ pc'[q] = pc[q] /\ access'[q] = access[q]
                               /\ tokens'[q] = tokens[q]
    BY <1>7, <1>t DEF Issue, Goto
  <2>3. pc[r] = "issue" /\ pc'[r] = "ok" /\ access'[r].role = seen[r]
    BY <1>7, <1>t DEF Issue, Goto, Signed
  <2> QED BY <2>1, <2>2, <2>3, Bystanders DEF Issued
<1>8. ASSUME NEW r \in Calls, Revoke(r) PROVE HInv'
  <2> DEFINE t == on[r]
  <2>1. /\ t \in Calls
        /\ tokens[t] \in Token
        /\ tokens' = [tokens EXCEPT ![t] = [tokens[t] EXCEPT !.revoked = TRUE]]
        /\ access' = access /\ on' = on /\ seen' = seen
        /\ pc[r] = "revoke" /\ pc' = [pc EXCEPT ![r] = "ok"]
    BY <1>8, <1>t DEF Revoke, IInv, Held, Issued, Goto
  <2> HIDE DEF t
  <2>2. tokens'[t] \in Token /\ tokens'[t].revoked /\ tokens'[t] # NoToken /\ tokens[t] # NoToken
    BY <2>1, <1>t, ConfigAssumption DEF Token, ConfigAssumption
  <2>3. \A q \in Calls \ {t} : tokens'[q] = tokens[q]
    BY <2>1, <1>t
  <2>4. \A q \in Calls : Issued(q)' <=> Issued(q)
    BY <2>2, <2>3 DEF Issued
  <2>5. \A q \in Calls : tokens[q].revoked => tokens'[q].revoked
    BY <2>2, <2>3
  <2>6. Issued(t) /\ ~Issued(r)
    BY <2>1, <2>2, <1>b DEF Issued
  <2>7. \A q \in Calls \ {r} : pc'[q] = pc[q]
    BY <2>1, <1>t
  <2>8. pc'[r] = "ok"
    BY <2>1, <1>t
  <2>9. t = on[r]
    BY DEF t
  <2> QED BY <2>1, <2>2, <2>4, <2>5, <2>6, <2>7, <2>8, <2>9, Bystanders
<1>9. ASSUME NEW r \in Calls, Fail(r) PROVE HInv'
  <2>1. tokens' = tokens /\ access' = access /\ on' = on /\ seen' = seen
    BY <1>9 DEF Fail
  <2>2. \A q \in Calls \ {r} : pc'[q] = pc[q]
    BY <1>9, <1>t DEF Fail, Goto
  <2>3. pc[r] \in {"token", "user", "issue", "revoke"} /\ pc'[r] = "error"
    BY <1>9, <1>t DEF Fail, Goto
  <2> QED BY <2>1, <2>2, <2>3, <1>b, Bystanders DEF Issued
<1> QED
  BY <1>1, <1>2, <1>3, <1>4, <1>5, <1>6, <1>7, <1>8, <1>9 DEF Next

\* The two invariants of Sessions with its history.
LEMMA HistoryInvariant == HSpec => [](IInv /\ HInv)
<1>1. HInit => IInv /\ HInv
  BY Initially, HistoryInitially DEF HInit
<1>2. IInv /\ HInv /\ [HNext]_hvars => (IInv /\ HInv)'
  <2>1. [HNext]_hvars => [Next]_vars
    BY DEF HNext, hvars
  <2> QED BY <2>1, StepKeeps, HistoryKeeps
<1> QED BY <1>1, <1>2, PTL DEF HSpec

\* Nobody is admitted as an admin on a token whose user was not one at some
\* moment of the call that issued it, however long the chain of refreshes and
\* however often the operator changes roles (auth.go:127-132).
THEOREM AdminsWereAdmins == HSpec => []AdminFollows
<1>1. IInv /\ HInv => AdminFollows
  BY DEF HInv, RolesRead, AdminFollows, Admitted, Accepted
<1> QED BY HistoryInvariant, <1>1, PTL

\* Once a Logout of a token has been answered, no call that has the token still
\* to read gets tokens for it, whether it begins later or was under way
\* (README.md:573), however many refreshes and logouts run.
THEOREM LogoutIsFinal == HSpec => []RevokedIsFinal
<1>1. IInv /\ HInv => RevokedIsFinal
  BY DEF HInv, LateOver, Begun, RevokedIsFinal
<1> QED BY HistoryInvariant, <1>1, PTL
=============================================================================
