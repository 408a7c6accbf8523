--------------------------- MODULE DeliveryProofs ---------------------------
(***************************************************************************)
(* Theorems about Delivery, for every set of tasks, every number of        *)
(* requests and of mishaps, and all timeouts of which the write deadline   *)
(* is not longer than the grace.                                           *)
(***************************************************************************)
EXTENDS Delivery, FiniteSetTheorems, TLAPS

\* An effect of t the client knows of or is about to be told of.
Heard(t) == client[t] = "told" \/ \E a \in made : a[1] = t /\ Awaited(a)

\* All effects but one are lost on the client; that one, if it does not know.
Counted(t) ==
  /\ effects[t] <= lost[t] + 1
  /\ ~Heard(t) => effects[t] <= lost[t]

\* What is said to be done is done.
Answered(a) == pc[a] = "ok" => effects[a[1]] >= 1

\* A provider that waits has one request under way, and the one that settles
\* found the payment not settled.
Patient(a) ==
  a[1] \in Hooks \ hasty =>
    /\ pc[a] # "idle" => Awaited(a)
    /\ pc[a] = "write" => effects[a[1]] = 0

\* What is served while Shutdown waits was read before it, or slipped in on a
\* connection opened before it and still new.
SinceShutdown ==
  /\ process # "stopping" => waited = 0 /\ slipped = {}
  /\ process = "down" => \A a \in Requests : pc[a] = "idle"
  /\ \A a \in Requests :
       /\ New(a) => waited <= age[a]
       /\ Running(a) => \/ Late(a)
                        \/ waited <= age[a]
                        \/ a \in slipped /\ waited <= age[a] + NewFor

\* The inductive invariant.
IInv ==
  /\ TypeOK
  /\ ToldInEffect
  /\ OncePatient
  /\ SinceShutdown
  /\ \A t \in Tasks : Counted(t)
  /\ \A a \in Requests : Answered(a) /\ Patient(a)

-----------------------------------------------------------------------------
\* A request is a task and a try.
LEMMA Request ==
  /\ \A a \in Requests : /\ a = <<a[1], a[2]>> /\ a[1] \in Tasks /\ a[2] \in Tries
                         /\ a[2] # "ready" /\ a[2] # "told"
  /\ \A t \in Tasks, i \in Tries : <<t, i>> \in Requests
BY TasksAssumption DEF Requests

THEOREM Initially == Init => IInv
<1> SUFFICES ASSUME Init PROVE IInv
  OBVIOUS
<1>1. TypeOK
  BY Request, TimeoutsAssumption, BoundAssumption
  DEF Init, TypeOK, Limit, Serving, Running, Awaited
<1>2. QED
  BY <1>1, Request DEF Init, IInv, ToldInEffect, OncePatient, SinceShutdown, New, Limit,
     Serving, Running, Counted, Heard, Answered, Patient, Tasks

-----------------------------------------------------------------------------
\* Clients.

LEMMA SendStep ==
  ASSUME IInv, NEW t \in Tasks, NEW i \in Tries, NEW kept \in BOOLEAN, Send(t, i, kept)
  PROVE  IInv'
<1>1. TypeOK /\ <<t, i>> \in Requests
  BY Request DEF IInv
<1>2. TypeOK'
  BY <1>1, TimeoutsAssumption, Request DEF TypeOK, Limit, Serving, Running, Send, Goto, Awaited
<1>3. ToldInEffect' /\ OncePatient'
  BY <1>1, Request, TasksAssumption DEF IInv, TypeOK, ToldInEffect, OncePatient, Send
<1>4. SinceShutdown'
  BY <1>1, TimeoutsAssumption
  DEF IInv, TypeOK, SinceShutdown, New, Limit, Serving, Running, Late, Send, Goto
<1>5. ASSUME NEW u \in Tasks PROVE Counted(u)'
  BY <1>1, <1>5, Request DEF IInv, TypeOK, Counted, Heard, Awaited, Send
<1>6. ASSUME NEW a \in Requests PROVE Answered(a)' /\ Patient(a)'
  BY <1>1, <1>6, Request DEF IInv, TypeOK, Answered, Patient, Awaited, Send, Goto
<1>7. QED
  BY <1>2, <1>3, <1>4, <1>5, <1>6 DEF IInv

LEMMA GiveUpStep ==
  ASSUME IInv, NEW r \in Requests, GiveUp(r)
  PROVE  IInv'
<1>1. TypeOK /\ r[1] \in Tasks
  BY Request DEF IInv
<1>2. TypeOK'
  BY <1>1, TimeoutsAssumption, Request, BoundAssumption
  DEF TypeOK, Limit, Serving, Running, GiveUp, Fault, Lose, Awaited
<1>3. ToldInEffect' /\ OncePatient'
  BY <1>1, Request DEF IInv, TypeOK, ToldInEffect, OncePatient, GiveUp
<1>4. SinceShutdown'
  BY DEF IInv, SinceShutdown, New, Limit, Serving, Running, Late, GiveUp
<1>5. ASSUME NEW u \in Tasks PROVE Counted(u)'
  <2>1. CASE u # r[1]
    BY <1>1, <2>1, Request DEF IInv, TypeOK, Counted, Heard, Awaited, GiveUp, Lose
  <2>2. CASE u = r[1] /\ r \in made
    BY <1>1, <2>2, Request DEF IInv, TypeOK, Counted, GiveUp, Lose
  <2>3. CASE u = r[1] /\ r \notin made
    <3>1. client[u] = r[2] /\ r[2] # "told"
      BY <2>3, Request DEF Awaited, GiveUp
    <3>2. \A a \in made : a \in Requests /\ a # r
      BY <1>1, <2>3 DEF TypeOK
    <3>3. ~Heard(u)
      BY <2>3, <3>1, <3>2, Request DEF Heard, Awaited
    <3>4. QED
      BY <1>1, <2>3, <3>3, Request DEF IInv, TypeOK, Counted, GiveUp, Lose
  <2>4. QED
    BY <2>1, <2>2, <2>3
<1>6. ASSUME NEW a \in Requests PROVE Answered(a)' /\ Patient(a)'
  BY <1>1, <1>6, Request DEF IInv, TypeOK, Answered, Patient, Awaited, GiveUp
<1>7. QED
  BY <1>2, <1>3, <1>4, <1>5, <1>6 DEF IInv

LEMMA InitPaymentStep ==
  ASSUME IInv, NEW k \in Hooks, NEW id, InitPayment(k, id)
  PROVE  IInv'
<1>1. TypeOK'
  BY TimeoutsAssumption DEF IInv, TypeOK, Limit, Serving, Running, InitPayment, Awaited
<1>2. QED
  BY <1>1 DEF IInv, InitPayment, ToldInEffect, OncePatient, SinceShutdown, New, Limit,
     Serving, Running, Late, Counted, Heard, Awaited, Answered, Patient

-----------------------------------------------------------------------------
\* The server.

LEMMA AcceptStep ==
  ASSUME IInv, NEW r \in Requests, Accept(r)
  PROVE  IInv'
<1>1. TypeOK /\ r[1] \in Tasks
  BY Request DEF IInv
<1>2. TypeOK'
  BY <1>1, Request, TimeoutsAssumption
  DEF TypeOK, Limit, Serving, Running, Accept, Begin, Goto, Awaited
<1>3. SinceShutdown'
  BY <1>1, TimeoutsAssumption
  DEF IInv, TypeOK, SinceShutdown, New, Limit, Serving, Running, Late, Accept, Begin, Goto
<1>4. ASSUME NEW a \in Requests PROVE Answered(a)' /\ Patient(a)'
  BY <1>1, <1>4, Request, TasksAssumption
  DEF IInv, TypeOK, Answered, Patient, Awaited, Accept, Begin, Goto
<1>5. QED
  BY <1>2, <1>3, <1>4
  DEF IInv, ToldInEffect, OncePatient, Counted, Heard, Awaited, Accept, Begin

LEMMA RefuseStep ==
  ASSUME IInv, NEW r \in Requests, Refuse(r)
  PROVE  IInv'
<1>1. TypeOK /\ r[1] \in Tasks
  BY Request DEF IInv
<1>2. TypeOK'
  BY <1>1, TimeoutsAssumption, Request
  DEF TypeOK, Limit, Serving, Running, Refuse, Goto, Awaited
<1>3. ToldInEffect' /\ OncePatient'
  BY <1>1, Request DEF IInv, TypeOK, ToldInEffect, OncePatient, Refuse
<1>4. SinceShutdown'
  BY <1>1 DEF IInv, TypeOK, SinceShutdown, New, Limit, Serving, Running, Late, Refuse, Goto
<1>5. ASSUME NEW u \in Tasks PROVE Counted(u)'
  <2>1. ASSUME NEW a \in made, Awaited(a) PROVE client'[a[1]] = client[a[1]]
    <3>1. a \in Requests /\ pc[a] # "sent"
      BY <1>1 DEF TypeOK
    <3>2. a[1] # r[1] \/ ~Awaited(r)
      BY <2>1, <3>1, Request DEF Awaited, Refuse
    <3>3. QED
      BY <1>1, <3>1, <3>2, Request DEF TypeOK, Refuse
  <2>2. Heard(u) => Heard(u)'
    BY <1>1, <2>1, Request DEF TypeOK, Heard, Awaited, Refuse
  <2>3. QED
    BY <2>2 DEF IInv, Counted, Refuse
<1>6. ASSUME NEW a \in Requests PROVE Answered(a)' /\ Patient(a)'
  BY <1>1, <1>6, Request DEF IInv, TypeOK, Answered, Patient, Awaited, Refuse, Goto
<1>7. QED
  BY <1>2, <1>3, <1>4, <1>5, <1>6 DEF IInv

LEMMA LookupStep ==
  ASSUME IInv, NEW r \in Requests, Lookup(r)
  PROVE  IInv'
<1>1. TypeOK /\ r[1] \in Tasks
  BY Request DEF IInv
<1>2. /\ pc[r] = "lookup"
      /\ UNCHANGED <<process, linked, effects, made, client, age, waited, slipped, lost, hasty, faults>>
      /\ \/ pc' = [pc EXCEPT ![r] = "error"]
         \/ effects[r[1]] = 0 /\ pc' = [pc EXCEPT ![r] = "write"]
         \/ effects[r[1]] # 0 /\ pc' = [pc EXCEPT ![r] = "ok"]
  BY DEF Lookup, Find, Goto
<1>3. TypeOK'
  BY <1>1, TimeoutsAssumption, <1>2, Request DEF TypeOK, Limit, Serving, Running, Awaited
<1>4. SinceShutdown'
  BY <1>1, <1>2 DEF IInv, TypeOK, SinceShutdown, New, Limit, Serving, Running, Late
<1>5. ASSUME NEW a \in Requests PROVE Answered(a)' /\ Patient(a)'
  BY <1>1, <1>2, <1>5, Request DEF IInv, TypeOK, Answered, Patient, Awaited
<1>6. QED
  BY <1>2, <1>3, <1>4, <1>5
  DEF IInv, ToldInEffect, OncePatient, Counted, Heard, Awaited

\* Whatever the handler is told of its commit.
LEMMA EffectStep ==
  ASSUME IInv, NEW r \in Requests, Effect(r), faults' \in 0 .. MaxFaults,
         Goto(r, "ok") \/ Goto(r, "error")
  PROVE  IInv'
<1>1. TypeOK /\ r[1] \in Tasks
  BY Request DEF IInv
<1>2. TypeOK'
  BY <1>1, TimeoutsAssumption, Request
  DEF TypeOK, Limit, Serving, Running, Effect, Goto, Lose, Awaited
<1>3. ToldInEffect'
  BY <1>1, Request DEF IInv, TypeOK, ToldInEffect, Effect
<1>4. OncePatient'
  BY <1>1, Request DEF IInv, TypeOK, OncePatient, Patient, Effect, Tasks
<1>5. SinceShutdown'
  BY <1>1 DEF IInv, TypeOK, SinceShutdown, New, Limit, Serving, Running, Late, Effect, Goto
<1>6. ASSUME NEW u \in Tasks PROVE Counted(u)'
  <2>1. Heard(u) => Heard(u)'
    BY <1>1 DEF Heard, Awaited, Effect
  <2>2. CASE u # r[1]
    BY <1>1, <2>1, <2>2 DEF IInv, TypeOK, Counted, Effect, Lose
  <2>3. CASE u = r[1] /\ Awaited(r)
    <3>1. Heard(u)'
      BY <1>1, <2>3 DEF Heard, Awaited, Effect
    <3>2. ~Heard(u)
      <4>1. client[u] # "told"
        BY <2>3, Request DEF Awaited
      <4>2. ASSUME NEW a \in made, a[1] = u, Awaited(a) PROVE FALSE
        BY <1>1, <2>3, <4>2, Request DEF TypeOK, Awaited, Effect
      <4>3. QED
        BY <4>1, <4>2 DEF Heard
    <3>3. QED
      BY <1>1, <2>3, <3>1, <3>2 DEF IInv, TypeOK, Counted, Effect, Lose
  <2>4. CASE u = r[1] /\ ~Awaited(r)
    BY <1>1, <2>1, <2>4 DEF IInv, TypeOK, Counted, Effect, Lose
  <2>5. QED
    BY <2>2, <2>3, <2>4
<1>7. ASSUME NEW a \in Requests PROVE Answered(a)' /\ Patient(a)'
  <2>1. Answered(a)'
    BY <1>1, Request DEF IInv, TypeOK, Answered, Effect, Goto
  <2>2. ASSUME a[1] = r[1], a # r, a[1] \in Hooks \ hasty PROVE pc[a] = "idle"
    BY <1>1, <2>2, Request DEF IInv, Patient, Awaited, Effect
  <2>3. Patient(a)'
    BY <1>1, <2>2, Request DEF IInv, TypeOK, Patient, Awaited, Effect, Goto
  <2>4. QED
    BY <2>1, <2>3
<1>8. QED
  BY <1>2, <1>3, <1>4, <1>5, <1>6, <1>7 DEF IInv

LEMMA FailStep ==
  ASSUME IInv, NEW r \in Requests, Fail(r)
  PROVE  IInv'
<1>1. TypeOK /\ r[1] \in Tasks
  BY Request DEF IInv
<1>2. TypeOK'
  BY <1>1, TimeoutsAssumption, Request, BoundAssumption
  DEF TypeOK, Limit, Serving, Running, Fail, Fault, Goto, Awaited
<1>3. SinceShutdown'
  BY <1>1 DEF IInv, TypeOK, SinceShutdown, New, Limit, Serving, Running, Late, Fail, Goto
<1>4. ASSUME NEW a \in Requests PROVE Answered(a)' /\ Patient(a)'
  BY <1>1, <1>4, Request DEF IInv, TypeOK, Answered, Patient, Awaited, Fail, Goto
<1>5. QED
  BY <1>2, <1>3, <1>4
  DEF IInv, ToldInEffect, OncePatient, Counted, Heard, Awaited, Fail

LEMMA OverStep ==
  ASSUME IInv, NEW r \in Requests, NEW told \in BOOLEAN, Over(r, told),
         told => pc[r] = "ok", faults' \in 0 .. MaxFaults
  PROVE  IInv'
<1>1. TypeOK /\ r[1] \in Tasks
  BY Request DEF IInv
<1>2. TypeOK'
  BY <1>1, Request, TimeoutsAssumption
  DEF TypeOK, Limit, Serving, Running, Over, Goto, Lose, Awaited
<1>3. ToldInEffect'
  BY <1>1, Request DEF IInv, TypeOK, ToldInEffect, Answered, Over
<1>4. OncePatient'
  BY DEF IInv, OncePatient, Over
<1>5. SinceShutdown'
  BY <1>1 DEF IInv, TypeOK, SinceShutdown, New, Limit, Serving, Running, Late, Over, Goto
<1>6. ASSUME NEW u \in Tasks PROVE Counted(u)'
  BY <1>1, <1>6, Request DEF IInv, TypeOK, Counted, Heard, Awaited, Over, Lose
<1>7. ASSUME NEW a \in Requests PROVE Answered(a)' /\ Patient(a)'
  BY <1>1, <1>7, Request DEF IInv, TypeOK, Answered, Patient, Awaited, Over, Goto
<1>8. QED
  BY <1>2, <1>3, <1>4, <1>5, <1>6, <1>7 DEF IInv

-----------------------------------------------------------------------------
\* The process.

LEMMA SignalStep ==
  ASSUME IInv, Signal
  PROVE  IInv'
<1>1. TypeOK'
  BY BoundAssumption, TimeoutsAssumption
  DEF IInv, TypeOK, Limit, Serving, Running, Signal, Fault, Awaited
<1>2. SinceShutdown'
  BY DEF IInv, TypeOK, SinceShutdown, New, Limit, Serving, Running, Late, Signal
<1>3. QED
  BY <1>1, <1>2 DEF IInv, Signal, ToldInEffect, OncePatient, Counted, Heard, Awaited,
     Answered, Patient

LEMMA TickStep ==
  ASSUME IInv, Tick
  PROVE  IInv'
<1>1. TypeOK
  BY DEF IInv
<1>2. TypeOK'
  <2>1. /\ age' \in [Requests -> Nat] /\ pc' = pc /\ slipped' = slipped
        /\ \A a \in Requests : age'[a] <= Limit(a)
    BY <1>1, TimeoutsAssumption DEF TypeOK, Tick, Limit
  <2>2. waited' \in 0 .. Grace
    BY <1>1, TimeoutsAssumption DEF TypeOK, Tick, GraceOver
  <2>3. faults' \in 0 .. MaxFaults
    <3>1. Fault \/ faults' = faults
      BY DEF Tick
    <3>2. QED
      BY <1>1, <3>1, BoundAssumption DEF TypeOK, Fault
  <2>4. QED
    <3>1. /\ Serving' = Serving
          /\ \A a \in Requests : Limit(a)' = Limit(a) /\ Awaited(a)' = Awaited(a)
      BY <2>1 DEF Serving, Running, Limit, Awaited, Tick
    <3>2. QED
      BY <1>1, <2>1, <2>2, <2>3, <3>1 DEF TypeOK, Tick
<1>3. SinceShutdown'
  BY <1>1, TimeoutsAssumption
  DEF IInv, TypeOK, SinceShutdown, New, Limit, Serving, Running, Late, GraceOver, Tick
<1>4. QED
  BY <1>2, <1>3 DEF IInv, Tick, ToldInEffect, OncePatient, Counted, Heard, Awaited,
     Answered, Patient

LEMMA StartStep ==
  ASSUME IInv, Start
  PROVE  IInv'
<1>1. TypeOK'
  BY TimeoutsAssumption DEF IInv, TypeOK, Limit, Serving, Running, Start, Awaited
<1>2. QED
  BY <1>1 DEF IInv, TypeOK, Start, ToldInEffect, OncePatient, SinceShutdown, New,
     Limit, Serving, Running, Late, Counted, Heard, Awaited, Answered, Patient

\* The process ends, with the COMMITs of sent on their way.
LEMMA HaltStep ==
  ASSUME IInv, NEW sent \in SUBSET Serving, Halt(sent), faults' \in 0 .. MaxFaults
  PROVE  IInv'
<1> DEFINE cut(t)  == {a \in made : a[1] = t /\ Awaited(a)}
           done(t) == {a \in sent : a[1] = t}
<1>1. TypeOK /\ sent \subseteq Requests
  BY DEF IInv, Serving
<1>2. ASSUME NEW t \in Tasks
      PROVE  /\ IsFiniteSet(cut(t)) /\ Cardinality(cut(t)) \in Nat
             /\ IsFiniteSet(done(t)) /\ Cardinality(done(t)) \in Nat
  <2>1. IsFiniteSet({t}) /\ IsFiniteSet(Tries)
    BY FS_Singleton, TasksAssumption
  <2>2. IsFiniteSet({t} \X Tries)
    BY <2>1, FS_Product
  <2>3. cut(t) \subseteq {t} \X Tries /\ done(t) \subseteq {t} \X Tries
    BY <1>1, Request DEF TypeOK
  <2>4. IsFiniteSet(cut(t)) /\ IsFiniteSet(done(t))
    BY <2>2, <2>3, FS_Subset
  <2>5. QED
    BY <2>4, FS_CardinalityType
<1>3. /\ effects' = [t \in Tasks |-> effects[t] + Cardinality(done(t))]
      /\ lost' = [t \in Tasks |-> lost[t] + Cardinality(done(t)) + Cardinality(cut(t))]
      /\ client' = [t \in Tasks |-> IF client[t] = "told" THEN "told" ELSE "ready"]
      /\ pc' = [a \in Requests |-> "idle"]
      /\ process' = "down" /\ waited' = 0 /\ age' = [a \in Requests |-> 0]
      /\ made' = {} /\ slipped' = {}
      /\ UNCHANGED <<linked, hasty>>
      /\ \A a \in sent : pc[a] = "write"
  BY DEF Halt
<1> HIDE DEF cut, done
<1>4. /\ effects' \in [Tasks -> Nat] /\ lost' \in [Tasks -> Nat]
      /\ \A t \in Tasks : effects'[t] >= effects[t]
  BY <1>1, <1>2, <1>3 DEF TypeOK
<1>5. TypeOK'
  <2>1. ASSUME NEW a \in Requests PROVE ~Awaited(a)' /\ age'[a] <= Limit(a)'
    BY <1>1, <1>3, TimeoutsAssumption, Request DEF TypeOK, Awaited, Limit
  <2>2. /\ pc' \in [Requests -> {"idle", "sent", "lookup", "write", "ok", "error"}]
        /\ client' \in [Tasks -> {"ready", "told"} \cup Tries]
        /\ age' \in [Requests -> Nat]
        /\ waited' \in 0 .. Grace
    BY <1>1, <1>3, TimeoutsAssumption DEF TypeOK
  <2>3. QED
    BY <1>1, <1>3, <1>4, <2>1, <2>2 DEF TypeOK
<1>6. ToldInEffect'
  BY <1>1, <1>3, <1>4 DEF IInv, TypeOK, ToldInEffect
<1>7. SinceShutdown'
  BY <1>1, <1>3 DEF SinceShutdown, New, Running
<1>8. ASSUME NEW u \in Tasks PROVE Counted(u)'
  <2>1. CASE \E a \in made : a[1] = u /\ Awaited(a)
    <3>1. cut(u) # {}
      BY <2>1 DEF cut
    <3>2. Cardinality(cut(u)) >= 1
      BY <1>2, <3>1, FS_EmptySet
    <3>3. QED
      BY <1>1, <1>2, <1>3, <3>2 DEF IInv, TypeOK, Counted
  <2>2. CASE ~ \E a \in made : a[1] = u /\ Awaited(a)
    <3>1. client[u] = "told" => client'[u] = "told"
      BY <1>1, <1>3, Request DEF Awaited, Serving
    <3>2. Heard(u) => Heard(u)'
      BY <2>2, <3>1 DEF Heard
    <3>3. QED
      BY <1>1, <1>2, <1>3, <3>2 DEF IInv, TypeOK, Counted
  <2>3. QED
    BY <2>1, <2>2
<1>9. OncePatient'
  <2> SUFFICES ASSUME NEW k \in Hooks, k \notin hasty
               PROVE  effects'[k] <= 1
    BY <1>3 DEF OncePatient
  <2>1. k \in Tasks /\ effects[k] \in Nat /\ effects[k] <= 1
    BY <1>1 DEF IInv, TypeOK, OncePatient, Tasks
  <2>2. CASE done(k) = {}
    <3>1. Cardinality(done(k)) = 0
      BY <2>2, FS_EmptySet
    <3>2. QED
      BY <1>3, <2>1, <3>1
  <2>3. CASE done(k) # {}
    <3>1. PICK b \in sent : b[1] = k
      BY <2>3 DEF done
    <3>2. \A a \in done(k) : a \in Requests /\ a[1] = k /\ pc[a] = "write"
      BY <1>1, <1>3 DEF done
    <3>3. b \in Requests /\ pc[b] = "write" /\ effects[k] = 0 /\ Awaited(b)
      BY <1>1, <1>3, <3>1 DEF IInv, Patient
    <3>4. done(k) \subseteq {b}
      BY <3>1, <3>2, <3>3, Request DEF IInv, Patient, Awaited
    <3>5. Cardinality(done(k)) <= Cardinality({b}) /\ Cardinality({b}) = 1
      BY <3>4, FS_Singleton, FS_Subset
    <3>6. QED
      BY <1>2, <1>3, <2>1, <3>3, <3>5
  <2>4. QED
    BY <2>2, <2>3
<1>10. ASSUME NEW a \in Requests PROVE Answered(a)' /\ Patient(a)'
  BY <1>3 DEF Answered, Patient
<1>11. QED
  BY <1>5, <1>6, <1>7, <1>8, <1>9, <1>10 DEF IInv

-----------------------------------------------------------------------------
THEOREM Preserved == IInv /\ [Next]_vars => IInv'
<1> SUFFICES ASSUME IInv, [Next]_vars PROVE IInv'
  OBVIOUS
<1>1. CASE \E t \in Tasks, i \in Tries, kept \in BOOLEAN : Send(t, i, kept)
  BY <1>1, SendStep
<1>2. ASSUME NEW r \in Requests, Serve(r) PROVE IInv'
  <2>1. CASE Accept(r)
    BY <2>1, AcceptStep
  <2>2. CASE Refuse(r)
    BY <2>2, RefuseStep
  <2>3. CASE Lookup(r)
    BY <2>3, LookupStep
  <2>4. CASE Commit(r)
    BY <2>4, EffectStep DEF Commit, IInv, TypeOK
  <2>5. CASE Answer(r)
    <3>1. (pc[r] = "ok" /\ ~Late(r)) \in BOOLEAN
      OBVIOUS
    <3>2. QED
      BY <2>5, <3>1, OverStep DEF Answer, IInv, TypeOK
  <2>6. QED
    BY <1>2, <2>1, <2>2, <2>3, <2>4, <2>5 DEF Serve
<1>3. ASSUME NEW r \in Requests, Mishap(r) PROVE IInv'
  <2>1. CASE GiveUp(r)
    BY <2>1, GiveUpStep
  <2>2. CASE CommitUnheard(r)
    BY <2>2, EffectStep, BoundAssumption DEF CommitUnheard, Fault, IInv, TypeOK
  <2>3. CASE Fail(r)
    BY <2>3, FailStep
  <2>4. CASE LoseAnswer(r)
    <3>1. Over(r, FALSE) /\ Fault
      BY <2>4, Zenon DEF LoseAnswer
    <3>2. faults' \in 0 .. MaxFaults
      BY <3>1, BoundAssumption DEF Fault, IInv, TypeOK
    <3>3. QED
      BY <3>1, <3>2, OverStep, Zenon
  <2>5. QED
    BY <1>3, <2>1, <2>2, <2>3, <2>4 DEF Mishap
<1>4. CASE \E k \in Hooks, id \in {"", "id"} : InitPayment(k, id)
  BY <1>4, InitPaymentStep
<1>5. CASE Signal
  BY <1>5, SignalStep
<1>6. CASE Stop
  BY <1>6, HaltStep DEF Stop, Exit, IInv, TypeOK
<1>7. CASE Start
  BY <1>7, StartStep
<1>8. CASE Tick
  BY <1>8, TickStep
<1>9. CASE \E sent \in SUBSET Serving : Crash(sent)
  BY <1>9, HaltStep, BoundAssumption DEF Crash, Fault, IInv, TypeOK
<1>10. CASE UNCHANGED vars
  BY <1>10 DEF vars, IInv, TypeOK, ToldInEffect, OncePatient, SinceShutdown, New,
     Limit, Serving, Running, Late, Counted, Heard, Awaited, Answered, Patient
<1>11. QED
  BY <1>1, <1>2, <1>3, <1>4, <1>5, <1>6, <1>7, <1>8, <1>9, <1>10 DEF Next

THEOREM Invariant == Spec => []IInv
<1>1. Init => IInv
  BY Initially
<1>2. IInv /\ [Next]_vars => IInv'
  BY Preserved
<1>3. QED
  BY <1>1, <1>2, PTL DEF Spec

\* The types; and no client waits for a request that is over.
THEOREM WellTyped == Spec => []TypeOK
<1>1. IInv => TypeOK
  BY DEF IInv
<1>2. QED
  BY <1>1, Invariant, PTL

\* A client that is told something is done finds it done, through any number
\* of failures, cut-offs, crashes and restarts.
THEOREM NoFalsePromise == Spec => []ToldInEffect
<1>1. IInv => ToldInEffect
  BY DEF IInv
<1>2. QED
  BY <1>1, Invariant, PTL

\* A payment whose provider waits before it notifies again is settled at most
\* once, through any number of restarts.
THEOREM PatientProviderSettlesOnce == Spec => []OncePatient
<1>1. IInv => OncePatient
  BY DEF IInv
<1>2. QED
  BY <1>1, Invariant, PTL

\* Nothing is done twice but what a client was not told of.
THEOREM DuplicatesAreLostAnswers == Spec => []TwiceOnlyUntold
<1>1. IInv => TwiceOnlyUntold
  BY DEF IInv, TypeOK, Counted, TwiceOnlyUntold
<1>2. QED
  BY <1>1, Invariant, PTL

\* Shutdown cuts off a request read before it only when it could not be answered
\* any more, and leaves one that slipped in after it most of the grace.
THEOREM ShutdownIsGraceful == Spec => []ShutdownSpares
<1>1. IInv => ShutdownSpares
  <2> SUFFICES ASSUME IInv, GraceOver, NEW a \in Serving, ~Late(a)
               PROVE  a \in slipped /\ age[a] + NewFor >= Grace
    BY DEF ShutdownSpares
  <2>1. a \in Requests /\ Running(a) /\ age[a] \in Nat /\ age[a] <= WriteTimeout
    BY DEF Serving, Running, IInv, TypeOK, Limit
  <2>2. age[a] < Grace /\ waited = Grace
    BY <2>1, TimeoutsAssumption DEF Late, GraceOver
  <2>3. waited <= age[a] \/ (a \in slipped /\ waited <= age[a] + NewFor)
    BY <2>1 DEF IInv, SinceShutdown
  <2>4. QED
    BY <2>1, <2>2, <2>3, TimeoutsAssumption
<1>2. QED
  BY <1>1, Invariant, PTL
=============================================================================
