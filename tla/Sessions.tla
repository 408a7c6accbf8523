------------------------------ MODULE Sessions ------------------------------
(***************************************************************************)
(* Sessions: issueTokens, Refresh and Logout of internal/services/auth.go  *)
(* over refresh_tokens, and the access tokens that internal/auth/jwt.go    *)
(* signs and internal/http/middleware/auth.go lets in.  Time is counted in *)
(* ticks, some of which make a second; an access token tells it in seconds. *)
(* A token is named after the call that issued it.                         *)
(***************************************************************************)
EXTENDS Integers

CONSTANTS
  Calls,                   \* calls that log in, refresh or log out
  Users,                   \* rows of users
  Second,                  \* ticks in a second
  AccessTTL, RefreshTTL,   \* the configuration, in ticks
  MaxTime,                 \* bound of the clock
  NoToken                  \* no row in refresh_tokens

Roles == {"user", "admin"}
Token == [user : Users, expires : Nat, revoked : BOOLEAN]

ASSUME ConfigAssumption ==
  /\ Second \in Nat \ {0}
  /\ AccessTTL \in Nat /\ RefreshTTL \in Nat
  /\ MaxTime \in Nat
  /\ NoToken \notin Token \cup Calls

VARIABLES
  now,      \* the clock
  role,     \* users.role, which only the operator writes
  tokens,   \* [Calls -> the refresh token it has issued or NoToken]
  access,   \* the role and the second of expiry of the access token with it
  issued,   \* when that was
  pc,       \* what a call does next, or what it was answered
  on,       \* the refresh token it was given
  user,     \* the user it is for
  seen      \* the role it has read

vars == <<now, role, tokens, access, issued, pc, on, user, seen>>

TypeOK ==
  /\ now \in Nat
  /\ role \in [Users -> Roles]
  /\ tokens \in [Calls -> Token \cup {NoToken}]
  /\ access \in [Calls -> [role : Roles, expires : Nat]]
  /\ issued \in [Calls -> Nat]
  /\ pc \in [Calls -> {"new", "token", "user", "issue", "revoke", "ok", "error"}]
  /\ on \in [Calls -> Calls \cup {NoToken}]
  /\ user \in [Calls -> Users]
  /\ seen \in [Calls -> Roles]

\* The clock starts past the first second of Unix time, at which a token's
\* expiry would read as none.
Init ==
  /\ now = Second
  /\ role \in [Users -> Roles]
  /\ tokens = [r \in Calls |-> NoToken]
  /\ access = [r \in Calls |-> [role |-> "user", expires |-> 0]]
  /\ issued = [r \in Calls |-> 0]
  /\ pc = [r \in Calls |-> "new"]
  /\ on = [r \in Calls |-> NoToken]
  /\ \E u \in Users : user = [r \in Calls |-> u]
  /\ seen = [r \in Calls |-> "user"]

Goto(r, label) == pc' = [pc EXCEPT ![r] = label]
Issued(r) == tokens[r] # NoToken

-----------------------------------------------------------------------------
\* The end of VerifyOTP: the user of the phone has been found or made.
Login(r, u) ==
  /\ pc[r] = "new"
  /\ user' = [user EXCEPT ![r] = u]
  /\ seen' = [seen EXCEPT ![r] = role[u]]
  /\ Goto(r, "issue")
  /\ UNCHANGED <<now, role, tokens, access, issued, on>>

\* A client that holds the refresh token t refreshes.
Refresh(r, t) ==
  /\ pc[r] = "new"
  /\ Issued(t)
  /\ on' = [on EXCEPT ![r] = t]
  /\ Goto(r, "token")
  /\ UNCHANGED <<now, role, tokens, access, issued, user, seen>>

Valid(t) == Issued(t) /\ ~tokens[t].revoked /\ now <= tokens[t].expires

\* FindByToken, and what is asked of the row.
FindByToken(r) ==
  /\ pc[r] = "token"
  /\ user' = [user EXCEPT ![r] = tokens[on[r]].user]
  /\ Goto(r, IF Valid(on[r]) THEN "user" ELSE "error")
  /\ UNCHANGED <<now, role, tokens, access, issued, on, seen>>

\* A bug to catch: the role is the one of the token before.
FindUserByClaims(r) ==
  /\ pc[r] = "user"
  /\ seen' = [seen EXCEPT ![r] = access[on[r]].role]
  /\ Goto(r, "issue")
  /\ UNCHANGED <<now, role, tokens, access, issued, on, user>>

\* FindByID.
FindUser(r) ==
  /\ pc[r] = "user"
  /\ seen' = [seen EXCEPT ![r] = role[user[r]]]
  /\ Goto(r, "issue")
  /\ UNCHANGED <<now, role, tokens, access, issued, on, user>>

\* Unix(): the second a moment is in.
Unix(t) == t \div Second

\* The access token: its claims, signed.
Signed(r) == [role |-> seen[r], expires |-> Unix(now + AccessTTL)]

\* issueTokens: the access token is signed, and the refresh token inserted.
\* The token given to Refresh stays as it is.
Issue(r) ==
  /\ pc[r] = "issue"
  /\ tokens' = [tokens EXCEPT ![r] = [user |-> user[r], expires |-> now + RefreshTTL,
                                      revoked |-> FALSE]]
  /\ access' = [access EXCEPT ![r] = Signed(r)]
  /\ issued' = [issued EXCEPT ![r] = now]
  /\ Goto(r, "ok")
  /\ UNCHANGED <<now, role, on, user, seen>>

\* A client that holds t logs out.
Logout(r, t) ==
  /\ pc[r] = "new"
  /\ Issued(t)
  /\ on' = [on EXCEPT ![r] = t]
  /\ Goto(r, "revoke")
  /\ UNCHANGED <<now, role, tokens, access, issued, user, seen>>

\* A bug to catch: the UPDATE looks for the token among the ids, and no row that
\* matches is no error.
RevokeNone(r) ==
  /\ pc[r] = "revoke"
  /\ Goto(r, "ok")
  /\ UNCHANGED <<now, role, tokens, access, issued, on, user, seen>>

\* Revoke, of a token that is revoked or expired as well.
Revoke(r) ==
  /\ pc[r] = "revoke"
  /\ tokens' = [tokens EXCEPT ![on[r]].revoked = TRUE]
  /\ Goto(r, "ok")
  /\ UNCHANGED <<now, role, access, issued, on, user, seen>>

\* A statement fails.
Fail(r) ==
  /\ pc[r] \in {"token", "user", "issue", "revoke"}
  /\ Goto(r, "error")
  /\ UNCHANGED <<now, role, tokens, access, issued, on, user, seen>>

-----------------------------------------------------------------------------
\* A bug to catch: a token ends with the second before the one it names.
AcceptedBefore(r) == Issued(r) /\ Unix(now) < access[r].expires

\* ParseToken, of a token this service has signed; 0 would be no expiry.
Accepted(r) ==
  Issued(r) /\ (access[r].expires > 0 => Unix(now) <= access[r].expires)

\* Auth and RequireRole("admin") before a handler of /api/v1/admin.
Admitted(r) == Accepted(r) /\ access[r].role = "admin"

\* The operator changes a role in the database.
SetRole(u, x) ==
  /\ role' = [role EXCEPT ![u] = x]
  /\ UNCHANGED <<now, tokens, access, issued, pc, on, user, seen>>

Tick ==
  /\ now < MaxTime
  /\ now' = now + 1
  /\ UNCHANGED <<role, tokens, access, issued, pc, on, user, seen>>

Next ==
  \/ Tick
  \/ \E u \in Users, x \in Roles : SetRole(u, x)
  \/ \E r \in Calls :
       \/ \E u \in Users : Login(r, u)
       \/ \E t \in Calls : Refresh(r, t) \/ Logout(r, t)
       \/ FindByToken(r) \/ FindUser(r) \/ Issue(r) \/ Revoke(r) \/ Fail(r)

Spec == Init /\ [][Next]_vars

-----------------------------------------------------------------------------
\* Properties.

\* An access token is let in at every moment before the expiry its caller was
\* told (auth.go:150, auth.go:176), and at none a second or more after it,
\* though jwt.go:64 compares whole seconds.
AccessWindow ==
  \A r \in Calls : Issued(r) =>
    /\ now < issued[r] + AccessTTL => Accepted(r)
    /\ Accepted(r) => now < issued[r] + AccessTTL + Second
=============================================================================
