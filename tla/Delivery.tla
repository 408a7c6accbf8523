------------------------------ MODULE Delivery ------------------------------
(***************************************************************************)
(* The process (cmd/api/main.go), its HTTP server, and the clients that    *)
(* want something done once and ask again until they are told that it is:  *)
(* a customer who orders, subscribes or refreshes, and the provider that   *)
(* notifies of a payment.  What a request does in the database is one      *)
(* step, as Settlement and Ordering promise; here are the steps around it: *)
(* answers that are late or lost, commits nobody hears of, shutdowns,      *)
(* crashes and restarts.                                                   *)
(* Clients, the network and whoever restarts the process are external.     *)
(***************************************************************************)
EXTENDS Integers, FiniteSets

CONSTANTS
  Posts,          \* what clients POST: each try that succeeds adds a row
  Hooks,          \* payments of which the provider tells that they are PAID
  Tries,          \* the requests of one client that may be under way at once
  WriteTimeout,   \* http.Server.WriteTimeout, in ticks
  Grace,          \* how long Shutdown waits, in ticks
  NewFor,         \* how long net/http takes a connection for new, in ticks
  MaxFaults       \* bound of what goes wrong

Tasks    == Posts \cup Hooks
Requests == Tasks \X Tries

ASSUME TasksAssumption ==
  /\ Posts \cap Hooks = {}
  /\ Tries \cap {"ready", "told"} = {}
  /\ IsFiniteSet(Tries)

\* Both are ten seconds (main.go:128, main.go:143); a connection is new to
\* Server.Shutdown for its first five.
ASSUME TimeoutsAssumption ==
  /\ WriteTimeout \in Nat /\ Grace \in Nat /\ NewFor \in Nat
  /\ WriteTimeout <= Grace

ASSUME BoundAssumption == MaxFaults \in Nat

VARIABLES
  process,   \* "up", "stopping" (in Shutdown) or "down"
  linked,    \* the payments stored with the provider's id
  effects,   \* the rows or settlements committed for each task
  pc,        \* what a request does next, or the status it is answered with
  made,      \* the requests that have committed and not yet answered
  client,    \* "ready" to ask, the try it waits for, or "told" it is done
  age,       \* the ticks since a request was read, up to its deadline, and
             \* before that since its connection was opened, while it is new
  waited,    \* the ticks since Shutdown was called, up to its grace
  slipped,   \* history: the requests being served that were read after it
  lost,      \* history: effects whose client was not told of them
  hasty,     \* history: tasks asked for again while a request was under way
  faults     \* how much has gone wrong

vars == <<process, linked, effects, pc, made, client, age, waited, slipped, lost, hasty, faults>>

\* The client of request a still waits for it.
Awaited(a) == client[a[1]] = a[2]

\* The last that is told of an age: no longer new, or past the deadline.
Limit(a) == IF pc[a] = "sent" THEN NewFor + 1 ELSE WriteTimeout

Running(a) == pc[a] \in {"lookup", "write", "ok", "error"}
Serving == {a \in Requests : Running(a)}

\* The types; and no client waits for a request that is over, nor has one that
\* has committed more to do than to answer.
TypeOK ==
  /\ process \in {"up", "stopping", "down"}
  /\ linked \in SUBSET Hooks
  /\ effects \in [Tasks -> Nat]
  /\ pc \in [Requests -> {"idle", "sent", "lookup", "write", "ok", "error"}]
  /\ made \in SUBSET Requests
  /\ client \in [Tasks -> {"ready", "told"} \cup Tries]
  /\ age \in [Requests -> Nat]
  /\ waited \in 0 .. Grace
  /\ slipped \in SUBSET Serving
  /\ lost \in [Tasks -> Nat]
  /\ hasty \in SUBSET Tasks
  /\ faults \in 0 .. MaxFaults
  /\ \A a \in Requests : age[a] <= Limit(a) /\ (Awaited(a) => pc[a] # "idle")
  /\ \A a \in made : pc[a] \in {"ok", "error"}

Init ==
  /\ process = "up"
  /\ linked = {}
  /\ effects = [t \in Tasks |-> 0]
  /\ pc = [a \in Requests |-> "idle"]
  /\ made = {}
  /\ client = [t \in Tasks |-> "ready"]
  /\ age = [a \in Requests |-> 0]
  /\ waited = 0
  /\ slipped = {}
  /\ lost = [t \in Tasks |-> 0]
  /\ hasty = {}
  /\ faults = 0

Goto(a, label) == pc' = [pc EXCEPT ![a] = label]

\* The connection can no longer be written to.
Late(a) == age[a] = WriteTimeout

Fault == faults < MaxFaults /\ faults' = faults + 1
Lose(t, n) == lost' = [lost EXCEPT ![t] = @ + n]

-----------------------------------------------------------------------------
\* Clients.

\* A client asks, on a connection it opens or on one it has kept.  While nobody
\* listens it is told so at once and is where it was.
Send(t, i, kept) ==
  /\ process = "up"
  /\ client[t] = "ready"
  /\ pc[<<t, i>>] = "idle"
  /\ client' = [client EXCEPT ![t] = i]
  /\ Goto(<<t, i>>, "sent")
  /\ age' = [age EXCEPT ![<<t, i>>] = IF kept THEN NewFor + 1 ELSE 0]
  /\ UNCHANGED <<process, linked, effects, made, waited, slipped, lost, hasty, faults>>

\* It does not wait to the end, and will ask again.
GiveUp(a) ==
  /\ Awaited(a)
  /\ Fault
  /\ client' = [client EXCEPT ![a[1]] = "ready"]
  /\ hasty' = hasty \cup {a[1]}
  /\ Lose(a[1], IF a \in made THEN 1 ELSE 0)
  /\ UNCHANGED <<process, linked, effects, pc, made, age, waited, slipped>>

\* Payments.Init for the order or subscription of k: with the provider's id,
\* or without one, which is stored as NULL.
InitPayment(k, id) ==
  /\ process # "down"
  /\ linked' = IF id = "" THEN linked ELSE linked \cup {k}
  /\ UNCHANGED <<process, effects, pc, made, client, age, waited, slipped, lost, hasty, faults>>

-----------------------------------------------------------------------------
\* The server.

\* The header of a request is read, its write deadline set and its handler called.
Begin(a) ==
  /\ pc[a] = "sent"
  /\ Goto(a, IF a[1] \in Hooks THEN "lookup" ELSE "write")
  /\ age' = [age EXCEPT ![a] = 0]
  /\ slipped' = IF process = "stopping" THEN slipped \cup {a} ELSE slipped
  /\ UNCHANGED <<process, linked, effects, made, client, waited, lost, hasty, faults>>

\* Shutdown takes a connection for new, and leaves it alone.
New(a) == pc[a] = "sent" /\ age[a] <= NewFor

\* A bug to catch: requests are let in as long as the process is there.
AcceptAlways(a) == Begin(a)

\* Shutdown closes the listener and the idle connections.  One that was opened
\* a moment before stays open, and what comes on it is served.
Accept(a) == (process = "up" \/ New(a)) /\ Begin(a)

\* A bug to catch: the client is not told that there is nobody.
RefuseSilently(a) ==
  /\ pc[a] = "sent" /\ ~New(a)
  /\ process = "stopping"
  /\ Goto(a, "idle")
  /\ age' = [age EXCEPT ![a] = 0]
  /\ UNCHANGED <<process, linked, effects, made, client, waited, slipped, lost, hasty, faults>>

\* The connection a request comes on is closed.
Refuse(a) ==
  /\ pc[a] = "sent" /\ ~New(a)
  /\ process = "stopping"
  /\ Goto(a, "idle")
  /\ age' = [age EXCEPT ![a] = 0]
  /\ client' = IF Awaited(a) THEN [client EXCEPT ![a[1]] = "ready"] ELSE client
  /\ UNCHANGED <<process, linked, effects, made, waited, slipped, lost, hasty, faults>>

\* HandleWebhook reads the payment.  One that is found is settled, or, if fresh
\* does not hold, has the status other.
Find(a, fresh, other) ==
  /\ pc[a] = "lookup"
  /\ Goto(a, IF a[1] \notin linked THEN "error" ELSE IF fresh THEN "write" ELSE other)
  /\ UNCHANGED <<process, linked, effects, made, client, age, waited, slipped, lost, hasty, faults>>

\* Bugs to catch: the stored status is not compared; or the notification of a
\* payment that is PAID already is an error.
LookupAny(a) == Find(a, TRUE, "ok")
LookupConflict(a) == Find(a, effects[a[1]] = 0, "error")

\* A payment that cannot be found is an error, one that is PAID already is
\* acknowledged.
Lookup(a) == Find(a, effects[a[1]] = 0, "ok")

\* The INSERT or the transaction of request a is committed.
Effect(a) ==
  /\ pc[a] = "write"
  /\ effects' = [effects EXCEPT ![a[1]] = @ + 1]
  /\ made' = made \cup {a}
  /\ Lose(a[1], IF Awaited(a) THEN 0 ELSE 1)
  /\ UNCHANGED <<process, linked, client, age, waited, slipped, hasty>>

Commit(a) == Effect(a) /\ Goto(a, "ok") /\ UNCHANGED faults

\* A bug to catch: the handler tries again itself.
CommitRetried(a) == Effect(a) /\ UNCHANGED pc /\ Fault

\* PostgreSQL commits, and the connection to it breaks before it says so.
CommitUnheard(a) == Effect(a) /\ Goto(a, "error") /\ Fault

\* A bug to catch: the error is dropped.
FailSilently(a) ==
  /\ pc[a] \in {"lookup", "write"}
  /\ Goto(a, "ok")
  /\ Fault
  /\ UNCHANGED <<process, linked, effects, made, client, age, waited, slipped, lost, hasty>>

\* A statement fails, or the stock does not suffice: nothing is committed.  The
\* context of a request that nobody waits for any more may be cancelled.
Fail(a) ==
  /\ pc[a] \in {"lookup", "write"}
  /\ Goto(a, "error")
  /\ Fault \/ (~Awaited(a) /\ UNCHANGED faults)
  /\ UNCHANGED <<process, linked, effects, made, client, age, waited, slipped, lost, hasty>>

\* The request is over, and its client, if it still waits, told so or not.
Over(a, told) ==
  /\ pc[a] \in {"ok", "error"}
  /\ Goto(a, "idle")
  /\ made' = made \ {a}
  /\ client' = IF Awaited(a)
               THEN [client EXCEPT ![a[1]] = IF told THEN "told" ELSE "ready"] ELSE client
  /\ Lose(a[1], IF a \in made /\ Awaited(a) /\ ~told THEN 1 ELSE 0)
  /\ age' = [age EXCEPT ![a] = 0]
  /\ slipped' = slipped \ {a}
  /\ UNCHANGED <<process, linked, effects, waited, hasty>>

\* A handler runs on past the write deadline; then its answer goes nowhere.
Answer(a) == Over(a, pc[a] = "ok" /\ ~Late(a)) /\ UNCHANGED faults

LoseAnswer(a) == Over(a, FALSE) /\ Fault

-----------------------------------------------------------------------------
\* The process.

\* SIGINT or SIGTERM.
Signal ==
  /\ process = "up"
  /\ Fault
  /\ process' = "stopping"
  /\ UNCHANGED <<linked, effects, pc, made, client, age, waited, slipped, lost, hasty>>

GraceOver == waited = Grace

\* The process is gone, and with it every request it was serving.  Of the
\* transactions, those whose COMMIT had been sent are committed; PostgreSQL
\* rolls back the others.  Connections break, so no client waits.
Halt(sent) ==
  LET cut(t)  == {a \in made : a[1] = t /\ Awaited(a)}
      done(t) == {a \in sent : a[1] = t}
  IN  /\ \A a \in sent : pc[a] = "write"
      /\ process' = "down"
      /\ waited' = 0
      /\ effects' = [t \in Tasks |-> effects[t] + Cardinality(done(t))]
      /\ lost' = [t \in Tasks |-> lost[t] + Cardinality(done(t)) + Cardinality(cut(t))]
      /\ pc' = [a \in Requests |-> "idle"]
      /\ age' = [a \in Requests |-> 0]
      /\ client' = [t \in Tasks |-> IF client[t] = "told" THEN "told" ELSE "ready"]
      /\ made' = {} /\ slipped' = {}
      /\ UNCHANGED <<linked, hasty>>

\* Shutdown returns when no request is served any more and no connection is new,
\* or the grace is over; main returns, whatever Shutdown said.
Exit(sent) ==
  /\ process = "stopping"
  /\ (\A a \in Requests : ~Running(a) /\ ~New(a)) \/ GraceOver
  /\ Halt(sent)
  /\ UNCHANGED faults

Crash(sent) == process # "down" /\ Fault /\ Halt(sent)

\* Whoever runs the process starts it again; the tables are as they were.
Start ==
  /\ process = "down"
  /\ process' = "up"
  /\ UNCHANGED <<linked, effects, pc, made, client, age, waited, slipped, lost, hasty, faults>>

\* Time passes, for connections, for requests being served and for Shutdown.  That a request
\* passes its deadline is a mishap.
Tick ==
  /\ age' = [a \in Requests |-> IF pc[a] # "idle" /\ age[a] < Limit(a) THEN age[a] + 1 ELSE age[a]]
  /\ waited' = IF process = "stopping" /\ ~GraceOver THEN waited + 1 ELSE waited
  /\ IF \E a \in Serving : age'[a] = WriteTimeout /\ ~Late(a)
     THEN Fault ELSE UNCHANGED faults
  /\ UNCHANGED <<process, linked, effects, pc, made, client, slipped, lost, hasty>>

-----------------------------------------------------------------------------
Serve(a) == Accept(a) \/ Refuse(a) \/ Lookup(a) \/ Commit(a) \/ Answer(a)

Mishap(a) == GiveUp(a) \/ CommitUnheard(a) \/ Fail(a) \/ LoseAnswer(a)

Stop == \E sent \in SUBSET Serving : Exit(sent)

Next ==
  \/ \E t \in Tasks, i \in Tries, kept \in BOOLEAN : Send(t, i, kept)
  \/ \E a \in Requests : Serve(a) \/ Mishap(a)
  \/ \E k \in Hooks, id \in {"", "id"} : InitPayment(k, id)
  \/ Signal \/ Stop \/ Start \/ Tick
  \/ \E sent \in SUBSET Serving : Crash(sent)

Spec == Init /\ [][Next]_vars

\* A client asks again, handlers go on, and a process that is gone is started
\* again.  Nothing that goes wrong is fair, nor is the creation of payments.
Fairness ==
  /\ \A t \in Tasks : WF_vars(\E i \in Tries, kept \in BOOLEAN : Send(t, i, kept))
  /\ \A a \in Requests : WF_vars(Serve(a))
  /\ WF_vars(Stop)
  /\ WF_vars(Start)

FairSpec == Spec /\ Fairness

-----------------------------------------------------------------------------
\* Properties.

\* A client that is told something is done finds it done, whatever fails, is
\* cut off or is restarted: no handler answers before its commit, and none
\* answers for a notification it could not use (payments.go:60-68,
\* handlers/payments/payments.go:66-76).
ToldInEffect == \A t \in Tasks : client[t] = "told" => effects[t] >= 1

\* A payment is settled at most once by a provider that notifies again only when
\* its request is over: not late or lost answers, commits nobody heard of, crashes
\* or restarts settle it twice, but only two notifications at once
\* (payments.go:60-64).
OncePatient == \A k \in Hooks : k \notin hasty => effects[k] <= 1

\* Nothing is done twice but what its client was not told of: each order,
\* subscription or pair of tokens beyond the first is one whose answer came
\* late, was lost or said error, as there is no key to tell a retry by
\* (store/orders.go:55, subscriptions.go:51, auth.go:132).
TwiceOnlyUntold == \A t \in Tasks : effects[t] <= 1 + lost[t]

\* A request read before Shutdown is cut off only when it could not be answered
\* any more.  One read after it, on a new connection, has its deadline later than
\* the end of the grace, but all of the grace except the first NewFor
\* (main.go:128, main.go:143).
ShutdownSpares ==
  process = "stopping" /\ GraceOver =>
    \A a \in Serving : Late(a) \/ (a \in slipped /\ age[a] + NewFor >= Grace)

\* Everything asked for is done in the end and its client told so, through
\* retries and restarts; a notification that comes before its payment, or finds
\* it without the provider's id, is not dropped and is settled once the
\* payment can be found (payments.go:48, payments.go:68).
EveryTaskTold ==
  /\ \A t \in Posts : <>(client[t] = "told")
  /\ \A k \in Hooks : k \in linked ~> client[k] = "told"
=============================================================================
