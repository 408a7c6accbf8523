-------------------------- MODULE SessionsHistory --------------------------
(***************************************************************************)
(* Sessions with the history that two of its promises are about: which     *)
(* roles the user of a call has had while it ran, which refresh tokens     *)
(* clients were told are revoked, and which calls had one of those still   *)
(* to read.  The history is written and never read.                        *)
(***************************************************************************)
EXTENDS Sessions

VARIABLES
  during,   \* the roles that the user of a call has had while it ran
  out,      \* the tokens whose Logout has been answered
  late      \* the calls that had, or have, such a token still to read

hvars == <<vars, during, out, late>>

HInit ==
  /\ Init
  /\ during = [r \in Calls |-> {}]
  /\ out = {}
  /\ late = {}

\* What a step adds to the history.
Watch ==
  /\ during' = [r \in Calls |->
       IF pc'[r] \in {"user", "issue"}
       THEN during[r] \cup {role[user'[r]], role'[user'[r]]} ELSE during[r]]
  /\ out' = out \cup {on[r] : r \in {q \in Calls : pc[q] = "revoke" /\ pc'[q] = "ok"}}
  /\ late' = late \cup {r \in Calls : pc'[r] = "token" /\ on'[r] \in out'}

HNext == Next /\ Watch

HSpec == HInit /\ [][HNext]_hvars

-----------------------------------------------------------------------------
\* Properties.

\* Nobody is admitted as an admin by a token whose user was not one at some
\* moment of the call that issued it: a refresh reads the role again, however
\* many tokens come one of another (auth.go:127-132).
AdminFollows == \A r \in Calls : Admitted(r) => "admin" \in during[r]

\* Once a client is told that it is logged out, its token gives no tokens to any
\* call, but one that has read it already (README.md:573): not to one that begins
\* later, nor to one under way that has it still to read, whatever other refreshes
\* and logouts of the token run.
RevokedIsFinal == \A r \in late : ~Issued(r)
=============================================================================
