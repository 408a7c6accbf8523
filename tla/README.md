# nesta: a verification project

TLA+ models of the nesta backend (Go, PostgreSQL), the TLC configurations that
check them and the TLAPS proofs about them.  Paths are those of the repository;
`payments.go:62` alone means `internal/services/payments.go`, and `README.md:NN`
the repository's own README.

```
tlc -workers 2 -config MCPayments.cfg MCPayments      # any cfg, with its MC module
tlapm PaymentsProofs.tla                              # any *Proofs module
```

## 1. The system

nesta sells trash pick-up by subscription to residential complexes, and goods
in a small store.  It is one process: `cmd/api/main.go` opens a PostgreSQL pool
and an HTTP server, and `internal/http/server/server.go:43-99` routes to handlers,
which call services (`internal/services`), which call repositories
(`internal/repositories`), one SQL statement per method.  There are no tests.

Every request is a goroutine of its own.  The process keeps no state between
requests; everything is in PostgreSQL, read and written at READ COMMITTED.  Only
three operations use a transaction: the settlement of a payment, the
verification of a launch request and the creation of an order.  Everything else
is a sequence of single statements, and whatever another request does between
two of them happens.  That is where the system is hard: *what was read, checked
and computed in one statement is written in a later one*.

| component | state | operations | correct when |
|---|---|---|---|
| Payments (`payments.go`, `repositories/payments.go`, webhook handler) | `payments` | `Init`; `HandleWebhook` and its transaction over `payments`, `orders`, `products`, `subscriptions` | a status is recorded with all its effects or none, once; stock never oversold; every webhook answered |
| Orders (`orders.go`, `repositories/orders.go`, `admin/orders.go`) | `orders`, `order_items` | `Create`; the admin's status update | an order is whole or not there; its total is what its lines come to |
| Store catalogue (`repositories/products.go`, `admin/products.go`, `store/products.go`) | `products` | admin's create and update, the admin's list, the store's list by pages | edits and settlements do not corrupt stock or price; a reader of the list misses nothing without a reason |
| Complexes (`complexes.go`, `admin/complexes.go`) | `residential_complexes`, `complex_requests` | `CreateRequest`, `VerifyRequest`, admin's `UpdateStatus` | `current_requests` counts the verified requests; launch at the threshold |
| Subscriptions (`subscriptions.go`, handlers) | `subscriptions` | `Create`; cancel, pause, resume; settlement | only in an ACTIVE complex; ACTIVE only if its plan cost nothing, or it is paid for |
| Plans (`admin/plans.go`) | `plans` | admin's create and update | read consistently by `Create` of a subscription |
| One-time codes (`auth.go:40-113`, `repositories/otp.go`) | `otp_codes`, `users` | `SendOTP`, `VerifyOTP` | rate limit, limit of attempts, no early block, right code logs in |
| Sessions (`auth.go:115-177`, `internal/auth/jwt.go`, middleware) | `refresh_tokens`; signed tokens at clients | `Refresh`, `Logout`, `issueTokens`, `ParseToken`, `RequireRole` | a token is good exactly as long as promised; after a logout was answered it gives nothing; roles follow the database |
| Connection pool (`storage/postgres.go`) | ten connections | `SetMaxOpenConns` | nobody waits for ever for one |
| HTTP server and process (`cmd/api/main.go`) | requests under way | accept, answer, `Shutdown`, restart | who is told that something is done finds it done; a shutdown cuts off what it found being served only too late for an answer |
| User profile, pickup logs, routing, configuration, schema | see `PROJECT.json` | | |

**How they interact.**  All through the database.  A webhook writes `orders`,
`products` and `subscriptions`, which the admin's handlers and the users' actions
write too; making an order reads `products` and, through the foreign key of
`order_items`, locks product rows that a settlement locks `FOR UPDATE`; a
verification and the admin's form both write a whole `residential_complexes` row;
making a subscription reads complexes and plans that an admin edits; login ends in
`issueTokens`.  The payment provider calls the webhook, concurrently and repeatedly
if it likes: in `Payments` it is an environment that may do anything, in `Delivery` one that
asks again until it is told.

**What is hard.**  The hazards are listed, each at its line, in `PROJECT.json`:
stale reads used by absolute writes (the status of a payment, the count of a
complex, the attempts of a code), provider retries and reordered notifications,
row-lock deadlocks, a pool that every webhook enters twice, transactions that are
left open because an error is shadowed (`payments.go:93`), partial failures of
multi-row transactions, wrap-around of totals, expiry compared in whole
seconds, whole rows written from forms that are out of date, pages of a list that
moves, and answers that are late, lost or cut off by a restart, after which a client
asks again with nothing to tell a retry by.

## 2. The modules

| module | models | used by |
|---|---|---|
| `Settlement` | what the payment service promises: the abstract specification, one step per operation | `Payments`, and the settle steps of the other modules |
| `Payments` | the payment service, statement by statement, with every writer of the rows it touches | `MCPayments`, `PaymentsProofs` |
| `Ordering` | what the order service promises: an order is there in one step, whole, or never | `Checkout` |
| `Checkout` | `OrderService.Create` and its transaction, price edits, settlements as lock takers | `MCCheckout`, `CheckoutProofs` |
| `Catalogue` | products, the admin's forms, sales, the store's list page by page | `MCCatalogue`, `CatalogueProofs` |
| `Delivery` | the process and its HTTP server, clients and the provider that ask again; a request's work is one step, as `Settlement` and `Ordering` promise | `MCDelivery`, `DeliveryProofs` |
| `Complexes` | launch requests and the admin's status update | `MCComplexes`, `ComplexesProofs` |
| `Subscriptions` | `Create`, plans, complexes, actions, settlement | `MCSubscriptions`, `SubscriptionsProofs` |
| `Otp` | `SendOTP`, `VerifyOTP` | `MCOtp`, `OtpProofs` |
| `Sessions` | tokens and roles | `MCSessions`, `SessionsProofs` |
| `*History` | a component with a history variable, and the properties that need one (`Payments`, `Complexes`, `Otp`, `Subscriptions`, `Sessions`, `Catalogue`) | `MC*`, `*Proofs` |
| `MC*` | constants for TLC | the runs |
| `*Proofs` | theorems | tlapm |

All modules are written alike.  A *call* (or request) is a goroutine with a
program counter `pc`; each SQL statement is one action; what is computed
between two statements belongs to the action before or after it; an early
return takes the call to `"done"`.  Other handlers that are one statement are one
action without a call (`AdminUpdateOrder`, `UpdatePlan`, ...).  A table is a
function from its keys to rows; identifiers are model values, and a row a call
inserts is named after the call, as random identifiers are taken to be
distinct.  Text that nobody checks in the code (a payment's `type` and `entity_id`, an
order's status) ranges over a set that holds unexpected values too.  Definitions that
begin with "A bug to catch" are no part of any specification: they are plausible
mistakes that show the properties would notice.

**Payments.**  `payments`, `orders`, `subs`, `stock` are the committed tables.
`draft[r]` is what the transaction of request `r` has written to products, `locks[r]`
the rows it has locked, `seen[r]` the stock it has read, `todo[r]` the lines left, and
`cur[r]` the line it is at (rows come back in any order: `Items` has no `ORDER BY`).
`HandleWebhook` reads the payment on the pool and answers at once when the status
is the stored one; `Begin` takes a connection; `UpdatePayment`, `UpdateEntity`,
`ReadItems`, `SelectForUpdate`, `UpdateStock` and `Commit` are the statements of
`updatePaymentAndEntity`.  Line 93 declares a second `err`, so an error after it
leaves the transaction open: `pc` is `"abandoned"`, with its locks and its connection,
until `ReapAbandoned`, the rollback of `database/sql` when the request's context ends.
`StatementFails` and a `DeadlockVictim` at one of these statements lose their locks, as PostgreSQL aborts the
transaction, and keep the connection; `ItemsFail`, the failure of `Orders.Items` on its own connection, keeps both.
`Interrupt` is a failure before that line, which is rolled back, or the end of the context anywhere; a failed lookup in `HandleWebhook` changes
nothing and is the same as an `Interrupt` at `"begin"`.  `Rivals`, `Free`, `Wanted`,
`WaitsFor` and `Deadlocked` are PostgreSQL's row locks and deadlock detector, external
to the repository.  `Available` is the pool; an admin's statement also needs a
connection, but holds none while it waits for a lock, an abstraction.

**Settlement** has the same four tables and no requests: `Record`, `SettleOrder` and
`SettleSub` change everything a status changes in one step.  The refinement is the
identity on the tables, since `Payments` keeps what is not committed apart.

**Checkout.**  A call prices its cart line by line on the pool (`GetProduct`), then
inserts the order and its lines in a transaction.  `Wrap` is Go's `int`, `Int4` the
column.  The foreign key of `order_items` locks a product `FOR KEY SHARE`, so orders do not
exclude each other and settlements exclude both.  A settlement appears only with the
locks it takes on products.

**Ordering** is the abstract specification of `Checkout`: `Quote` reads the price of one line,
`Place` makes the order with all its lines at those prices, `WritePrice` is the admin's.  It has no
statements, locks or failures.  The refinement is `Promise == INSTANCE Ordering WITH ...`: what is
asked for is the call's cart, what is quoted the prices it has read, what is placed the lines of
the committed order, so that rows of an open transaction are not there yet.

**Catalogue.**  Every request is one statement; the hard part is what an admin does between two.
`LoadForm` is the admin's list (its newest `FormLimit` products, `admin/products.go:64`), `SaveForm` the
`PATCH` with every column as it was loaded and the stock it was loaded with, give or take some units;
`SaveWithoutStock` is a body without `stock`, decoded as zero (`admin/products.go:79-89`).  `Sell` is a settlement
as `Settlement` promises it, over whole baskets, and asks only whether the stock suffices.  `shelf` is
the table in the order of `created_at DESC`; `Listed`, `Page` and `TurnPage` are `List` with its filters, `LIMIT` and
`OFFSET`, for a customer who asks for the next page until one is not full.  `supplied`, `sold`,
`missed` and `slack` are the books: what admins meant, what was sold, what moved behind an
open form, and how far the stock may be off because of it.  Left out: the width of `INT`; products created
in the same microsecond or committed later than they were stamped; titles, categories and search, which
filter as `is_active` does.

**Delivery.**  A *task* is something a client wants done once: `Posts` are orders, subscriptions and
refreshes, each success of which adds a row; `Hooks` are payments the provider tells of.  `pc[a]` is where
request `a` is: `"sent"`, `"lookup"` (`HandleWebhook` reads the payment), `"write"` (the `INSERT` or the
transaction), and then what it will be answered, `"ok"` or `"error"`.  `Lookup` gives `"error"` for a payment
not stored, or stored with a NULL id (`InitPayment`, `payments.go:48`), and `"ok"` for one that is PAID already.  `Begin` is a header that is read: it sets
the write deadline (`age`); past it a handler runs on and its answer goes nowhere (`Late`, `Answer`).  `Signal`
begins `Shutdown`, which waits for the requests being served at most `Grace`, and closes the listener (`Send`) and what
connections are idle (`Refuse`).  Go 1.22's server takes a connection on which nothing has been read for new, and leaves
it alone, for its first five seconds (`New`, `NewFor`): what comes on it is served (`Accept`), with a deadline that may be later than
the end of the grace (`slipped`).  Whether a client opens a connection or uses one it has kept is a choice of `Send`.  `Exit` is the end of
`main`, `Crash` any other end, `Start` the supervisor's restart.  At `Halt` every request is gone, and each transaction under way has sent its
`COMMIT` or not: `sent` is any set of those that have, and is committed.  What becomes of a `COMMIT` in flight is
taken to be decided by the time the process is gone or the error answered.  `Fail` is any failure, the stock that
does not suffice included; it is free for a request nobody waits for, as its context may be cancelled.

**Complexes.**  `ReadComplex` reads outside the transaction; `MarkVerified` and
`WriteComplex` are inside; `WriteStatus` is the admin's write of a status *and* of the
count read before.  `Available` is the pool, which `ReadComplex` enters a second time.  `VerifyRequest` is exported by the service and no handler calls it in this commit:
who calls it is external.

**Otp.**  One phone, as phones share no row.  Time is in ticks; `InsertCode` takes one,
since a code reaches nobody before its row is committed.  `expires_at` is taken when the row
is inserted: the microseconds between `time.Now()` and the `INSERT` are abstracted.  Failing statements are
actions of their own (`FailLimit`, `FailAttempt`, `FailCall`), because the code treats
their errors differently: dropped, taken for "no code", or returned.

**Sessions.**  A token is named after the call that issued it.  `Unix` is the
truncation of `issueTokens`; `Refresh` and `Logout` are the calls as they arrive, `FindByToken`, `FindUser`, `Issue` and `Revoke`
their statements, so that a refresh and a logout of one token interleave; `out` holds the tokens whose logout was
answered, `late` the calls that had one of those still to read.  `Accepted` is the comparison of `ParseToken`; `Admitted` is the admin
gate.  Signatures are taken to be unforgeable, the clock of the service and of the database to be one.

**Subscriptions.**  The three statements of `Create`, with everything that writes what they read.
`Settle` is `SettleSub` of `Settlement`, and sets the period.  `free` holds the calls whose plan cost nothing when they
read it: it is told by the price, not by the status the call decides on.

## 3. The runs

Twelve runs, three of them violations; each property of the others has a mutant in `PROJECT.json` that the same run
catches.  Times are for two workers.

| run | what it asks | size |
|---|---|---|
| `settlement` | two webhooks, two payments, two orders on the same two products: refinement of `Settlement`, drafts exact (`TxInv`), stock (`NeverOversold`), shape of deadlocks, settled once if in order, every request answered | 182k states, 100 s |
| `entities` | payments of every type naming an order, a subscription or nothing; pool of two: refinement, and where the service can stop (`StuckOnlyOnPool`) | 354k, 1 min |
| `duplicated` (violation) | `AtMostOnce`: idempotency by `provider_payment_id` | |
| `complexes` | `CountBounded` always; `CountInOrder` and `LaunchInOrder` while calls about the complex do not overlap; `EveryCallEnds`: every call is answered, or the pool of two is exhausted by verifications that each want a second connection | 138k, 40 s |
| `complexes_lost` (violation) | `CountExact` | |
| `otp` | `NeverBlockedEarly` always; `WrongInOrder`, `RateInOrder`, `LoginInOrder` while nothing overlaps or fails | 276k, 45 s |
| `otp_attempts` (violation) | `WrongBounded` | |
| `subscriptions` | `ActiveAccounted`, `PeriodPaid`; `CreatedInQuiet` while the complex is not written | 952k, 70 s |
| `checkout` | refinement of `Ordering` (`Ordered`), `TotalExact`, `DeadlockShape`, `EveryOrderEnds` | 341k, 2 min |
| `catalogue` | `Accounted`; `MissedOnlyByLeavers` and `RepeatedOnlyByComers` of a customer who turns pages while the list changes | 757k, 75 s |
| `delivery` | `ToldInEffect`, `OncePatient`, `TwiceOnlyUntold`, `ShutdownSpares`, `EveryTaskTold` through late and lost answers, crashes and restarts | 275k, 90 s |
| `sessions` | `AccessWindow`, `AdminFollows`, `RevokedIsFinal` | 365k, 15 s |

**Promises that hold in order.**  Several promises of the repository's README hold
only while requests for one thing come one after another: a payment is settled once,
a complex counts exactly and launches at its threshold, codes are rate-limited.
The `*History` modules carry a variable for that (`orderly`, `quiet`) that is
TRUE, or holds the payment or complex, as long as no two such requests have overlapped
(and, for `Otp`, no statement has failed; for `Payments`, nothing but PAID has followed
PAID).  Nothing is excluded from the behaviours: the
invariant says what holds of the orderly ones, next to everything the others
do to other rows, and failures and retries are in.  The violation runs show that order is really
needed.  A history is written by every step and never read, so `HSpec` has exactly the behaviours of `Spec`
(`HFairSpec` those of the fair one); the history of `Sessions` (`during`, `out`, `late`), `Subscriptions` (`free`) and `Catalogue` (`steady`, `came`,
`left`, `again`) is of the same kind, and says what a call or a reader has met while it ran.

**Bounds, and why they are enough.**

- Two webhooks: every violation found needs two, and a third adds nothing but a
  longer queue for the same locks.  The proofs of `Payments` are for any number.
  Two products and two orders with their lines in any order are the smallest
  deadlock; one order has two lines of one product, for which the second `SELECT`
  must read the transaction's own draft.  Stock 2 or 3 lets the first settlement, both, or
  neither succeed.  In `entities` the pool of two is the smallest with a connection held and
  one wanted, and stock of -1 an admin's typo.
- `settlement` has four connections for two webhooks: one to spare, as `EveryRequestEnds` assumes.
- Three calls about a complex: two that overlap and one more to pass the
  threshold of two; two phones, as only the pair of complex and phone is unique.
- Five calls for a phone with `OTP_MAX_ATTEMPTS` 2 and a life of 3 ticks: two
  codes, and wrong attempts at both to the last moment; eight ticks (`MaxTime`) outlive
  the first code and its block.
- One `Int` of four values to either side (`Half = 4`) with carts of one to four lines:
  sums that fit, do not fit, wrap and come back.  `TotalExact` says it holds to four lines:
  from five on a wrapped sum fits the column, and the code does not notice.
- Half-second ticks, lifetimes of 3 and 4 ticks: an expiry in the middle of a second.
- `catalogue`: two products and a third to come, so that one comes, one leaves and one stays; pages of one product,
  so that every place is an edge; two admins whose forms overlap; two writes (`MaxWrites`), a sale or
  save behind an open form and the save of the form; `FormLimit` 2, so that a product is beyond the admin's list.  `MCInit` starts
  with everything in stock and on sale.  The proofs are for any numbers, any page and any start.
- `delivery`: one order and one payment, as tasks share nothing but the process; two requests of one client at
  once, the smallest hasty client; any two mishaps (`MaxFaults`), as of a shutdown and a lost answer; the safety
  properties are proved for any number.  One tick is five seconds: both timeouts
  are two (`WriteTimeout`, `Grace`), a connection is new for one (`NewFor`).  A request that passes its deadline is counted among the mishaps.
- The pool of two in `complexes` is the smallest with a connection held and one wanted by each of two.
- `MaxTime` in `Otp`, `Sessions` and `Subscriptions` bounds the clock only, and is named so.

`CHECK_DEADLOCK FALSE` is set where calls are made once and the world may then stop;
`Payments`, `Subscriptions` and `Catalogue` always have an admin who can write or open a form, `Delivery`
a clock.  Symmetry is used only
in runs without liveness properties.

**Fairness.**  Weak fairness of: a call's own next statement (a goroutine that can run
runs; PostgreSQL answers a statement that waits for nothing; while the pool is exhausted none is enabled), `ReapAbandoned`
(`database/sql` rolls back when the context of `BeginTx`, `payments.go:72`, is cancelled, and
`net/http` cancels it when the handler returns), and `DeadlockVictim` (the detector runs after
`deadlock_timeout`).  No failure is fair, and nothing is assumed of the admin
or the clock.  `Delivery` alone assumes more, which its property is about: a client asks again until it is told
(`Send`), `Shutdown` returns in the end (`Stop`; its context ends, `main.go:143`), and a process that is gone is
started again (`Start`).  The creation of payments is not fair, so `EveryTaskTold` asks of a notification only once its payment is
there with its id.  That a handler goes on (`Serve`) is what the other modules
show: `EveryRequestEnds`, `EveryOrderEnds`.  Weak fairness is enough for a lock because each property is about finitely many calls.

## 4. Findings

Each is a violation run with a trace of a few steps.

1. `duplicated`: the status is compared before the transaction (`payments.go:62`) and not under the
   row lock; two PAID webhooks in flight deduct the stock twice (README.md:886).  The same comes
   of PAID, an older status and PAID again, as the last status is all that is remembered (README.md:423).
2. `complexes_lost`: `current_requests` is read outside the transaction and written back
   (README.md:288); by the same read a threshold is missed or an admin's status undone (README.md:115).
3. `otp_attempts`: wrong attempts in flight together count once (README.md:698).

Differences between the repository's README and the code seen on the way, not given a run:

- two `SendOTP` calls in flight together both find no code, pass the limit and send (README.md:680);
- of two first logins with the right code the second runs into the unique phone and is an error (README.md:699);
- resume makes a PAYMENT_PENDING subscription ACTIVE without a payment (README.md:151, README.md:797);
- a complex can leave ACTIVE between the check of `Create` and its `INSERT` (README.md:163, README.md:796);
- a refresh token is good for any number of refreshes (README.md:462);
- an admin's PAID touches no stock (README.md:211);
- a `PATCH` of a product writes zero and empty over what its body leaves out (README.md:384, README.md:914);
- EXPIRED is never set (README.md:159), `UpdateMe` is not routed (README.md:747), and
  `SUBSCRIPTION_CANCEL_POLICY` is read by nothing (README.md:167).

The models allow the first five as the code does: `RateInOrder`, `LoginInOrder` and `CreatedInQuiet` say what holds where
nobody races, `ActiveAccounted` that nothing but a resume makes one ACTIVE that has a price and is not paid for.

## 5. What is proved

For every value of the constants that satisfies the named assumptions.

| theorem | says | inductive invariant |
|---|---|---|
| `PaymentsProofs!Invariance`, `WellTyped` | types and `TxInv`, for any number of webhooks, orders, lines and products | `TypeOK /\ TxInv` |
| `PaymentsProofs!NoOverselling` | no settlement commits stock below zero | the same |
| `PaymentsProofs!DeadlocksOverProducts` | waiting webhooks form a cycle only over two or more products | the same |
| `PaymentsProofs!Implements` | `Payments` implements `Settlement` | the same |
| `PaymentsProofs!StuckOnPoolAlone` | the service stops only on the pool, never on locks alone | the same, and finitely many transactions are open |
| `PaymentsProofs!SettledOnceInOrder` | a payment notified of in order is settled at most once | `SettledOnce` of every orderly payment |
| `CheckoutProofs!Implements` | `Checkout` implements `Ordering`, for any carts, prices and number of calls | where a call is in its cart, with its rows and quotes so far (`CallInv`) |
| `CheckoutProofs!TotalsAreExact` | an order of up to four lines has the total of its lines, though `int` wraps | `Added`: a total is what was priced, up to whole ranges of `int` |
| `CheckoutProofs!DeadlocksNeedSettlement`, `WellTyped` | every cycle of waiting transactions has a settlement in it | types and locks |
| `CatalogueProofs!BooksBalance`, `WellTyped` | stock and sales come to what was supplied, but for what open forms missed | `Accounted`, `FormCounts` of every form, `Unsold`, types |
| `CatalogueProofs!OnlyLeaversHide`, `OnlyComersRepeat` | pages miss no more than have left and repeat no more than have come, for any list, page and number of writes | `Passed` and `Twice` of every reader |
| `DeliveryProofs!PatientProviderSettlesOnce`, `DuplicatesAreLostAnswers`, `NoFalsePromise`, `ShutdownIsGraceful`, `WellTyped` | as the invariants, for any number of clients, tries and faults | the properties with `Counted`, `Answered`, `Patient`, `SinceShutdown` |
| `ComplexesProofs!NeverOvercounted`, `WellTyped` | no complex counts more than was committed for it | `TypeOK`, `CountBounded` and its bound on what calls have read |
| `ComplexesProofs!ExactInOrder`, `LaunchesInOrder` | counts and launches are exact while calls do not overlap | `OneByOne`, `UpToDate` and `Exact` of every orderly complex |
| `OtpProofs!BlockedInTime`, `WellTyped` | a code is blocked only after the limit of wrong codes | `TypeOK /\ AttemptsCounted /\ NeverBlockedEarly` |
| `OtpProofs!WrongIsBounded`, `RateIsKept`, `LoginSucceeds` | the limit of wrong codes, the rate limit and the login, while nothing overlaps or fails | `OneByOne`, `Dated`, `Spaced`, `Unknown` and `Counting` |
| `SubscriptionsProofs!ActiveIsAccounted`, `PeriodIsPaid`, `WellTyped` | as the invariants | types, the two properties, `Priced`: a status that is to be inserted is the one the price asked for, and that a call's row is not there before it inserts it |
| `SubscriptionsProofs!CreatedInActive` | a row appears in an ACTIVE complex while nobody writes it | `QuietActive`: what a quiet call has read of its complex is still so |
| `SessionsProofs!AdminsWereAdmins`, `LogoutIsFinal` | roles follow the database; after its logout was answered a token gives nothing | `Begun`, `RolesRead`, `Ended`, `LateOver` |
| `SessionsProofs!LetInInTime`, `WellTyped` | an access token is let in to its expiry and less than a second past it | `TypeOK`, a clock past its first second, `Stamped`, `Held` |

*Payments.*  `TxInv` is needed because `NeverOversold` says only what a commit does:
a commit is right when the drafts are, a draft when what it was computed from is
still committed, and that when every writer of a product waits for its lock.  So the invariant
has four parts: rows are locked by one transaction; each stage holds the locks its next
statement relies on; a draft exists only under its lock and is not negative; and a
draft is the committed stock less the units of the lines done.  `Units` stands for the sum of the
quantities of a set of lines and is a constant told by its two equations (`UnitsAssumption`), since
a sum over a set cannot be unfolded by the provers; TLC evaluates the assumption with the real sum.
The step lemmas (`RequestStep`, `OthersStep`, `CommitStep`, ...) show one action each;
`CommitSettles` turns the drafts at a commit into `SettleOrder`, which gives `Implements`.

`StuckOnlyOnPool` rests on `WaitersDeadlock`: requests that each wait for a lock one of them holds have a deadlock among
them.  The least set of them that waits for itself is one, as leaving out a member that nobody waits for would make
it smaller; there is a least one because only finitely many transactions are open, which is part of the invariant and no
assumption about `Requests`.  `OnceInOrder` needs to know that at most one request serves an orderly payment, and that one
that is settled is PAID on disk and served by nobody (`SettledOnce`): a PAID that comes later is answered at once.

*Checkout.*  A commit is `Place` because every row of the transaction is the line it stands for at the price
quoted (`RowExact`), and there are as many rows as lines; every other statement is `Quote`, the admin's write or a stutter.
`TotalExact` speaks of a sum over a sequence, which no prover here can unfold for every length; but it speaks of four lines
at most, so `WorthOfFour` computes the recursion by cases.  `WrapOff` says that `Wrap` adds a multiple of the range; so a total
is what was priced, give or take such a multiple (`Added`), through every step.  At the commit it is an `INT`, or the `INSERT` would have failed,
and four products of an `INT` with a positive `INT` are too small to be a whole range away from one
(`ProductBound`, `SumUnwrapped`): five are not, which is why the property stops there.

*Catalogue.*  The stock is off by what was written over; that a form is off by no more than what has moved since it was
loaded (`FormCounts`) is what a save turns into `slack`.  A product can be sold only once it is there (`Unsold`), or
a creation could not begin its books.

The pages are about what a reader is past (`Ahead`, the first `offset` of the list) and what it has still to come to
(`Behind`).  That it is past no more of the steady products it was not shown than have left (`Passed`), and that what it was shown again,
with what of the rest it has been shown, is no more than came (`Twice`), is inductive.  The step that matters is `Shift`:
no step changes the order of what stays on the shelf (`OrderStays`), so when products slip over the edge of what the
reader is past, everything that was there and stays is there still; and `TopSize` says that there are exactly `offset` of them whenever the list goes on,
so no more can slip in than have left.  Read the other way round the same lemma bounds what slips out by what came.
A page is what comes next (`PageNext`), and one that is not full is the last.

*Delivery.*  `TwiceOnlyUntold` needs to know that while a client has not heard, nor is about to, every effect is lost on it
(`Counted`); `OncePatient`, that a patient provider's one request goes to write only what is not settled (`Patient`);
`ShutdownSpares`, that what is served during `Shutdown` is at least as old as it, or slipped in while its connection was
new, and then at most `NewFor` younger (`SinceShutdown`), where
`WriteTimeout <= Grace` (`TimeoutsAssumption`, `main.go:128` and `main.go:143`) does the rest.

*Complexes.*  The count on disk is bounded by `commits` only together with the counts that calls
have read and will write back plus one: they are bounded by what had been committed when they were read.
In order, one call runs at most (`OneByOne`), what it has read is still so (`UpToDate`: an admin's status counts as a call
too), and the count is the number of verified requests (`Exact`), which are finitely many though `Phones` need not be.

*Otp.*  `tried` is written later than it is computed, so `AttemptsCounted` bounds what is stored, and what is
about to be, by the wrong codes compared.  In order and without failures it is equal to them (`Counting`), which takes
that no call has read another code than the last (`Dated` and `Spaced` order the codes in time) and that the block
outlives the code; a login succeeds because the user it creates is not there (`Unknown`).

*Sessions.*  Rounding to seconds keeps order and tells apart moments a second apart: the lemmas
`Division`, `Product` and `Seconds` are the arithmetic, `Stamped` ties a token to the moment of its issue.
Roles: a call that has read a role has read one its user had meanwhile, and so has the token it issues (`RolesRead`).
Logout: a token whose logout was answered is revoked on disk and stays so (`Ended`), so a call that has it still to
read (`late`) has it to read until it is refused or fails (`LateOver`).

*Subscriptions.*  The one step between reading a complex and inserting the row is where it may be written; for a call
in whose time it is not (`quiet`), it is still ACTIVE (`QuietActive`).

**Only model-checked.**  The four liveness properties (`EveryRequestEnds`, `EveryCallEnds`, `EveryOrderEnds`,
`EveryTaskTold`), which are out of the prover's reach, and the three violations, which are not theorems.  Every invariant
and action property of a passing run is also a theorem.  The types of `Sessions` and `Subscriptions` are
proved only.  The proofs of `Payments` take the sum `Units` from an assumption, as above, and none rests on induction over a recursive definition.

## 6. What is not modelled

- Pickup logs: one statement per request on a table nothing else reads, so there is no step between to interleave
  with.  `UpdateMe` is the same, and not routed.
- Lists other than the store's, routing, request ids, logging, health, configuration: they read or are pure I/O.
- Amounts, currencies and payloads of payments: stored, and read by nothing.
- The pool in modules other than `Payments` and `Complexes`: no other call wants a connection while it holds one.
- One composition of all tables: `Delivery` and `Catalogue` use the settlement and the order as one step, which is what
  `Settles` and `Ordered` allow; that `order_items` do not change is `Ordered` too, and why `Items` may be a constant of `Payments`.
- Signatures, random identifiers and PostgreSQL's own recovery are taken to do what they promise.

## 7. What is left

Done, in this order: `Settlement` and `Payments`, `Complexes`, `Otp`, `Subscriptions`, `Checkout`,
`Sessions`; then the pool in `Complexes`, `Ordering` and the refinement, `Delivery` and `Catalogue`; and the
proofs of all eight.

Proved since: every invariant and action property that the runs check, with the histories in modules of their own.

Left, in order of worth:

1. A module of the two transactions of `Checkout` and `Payments` over one set of tables, with orders that are made and then
   paid for; each is now checked against every writer of its rows, and against the other by its locks.
2. That a history adds nothing: `HSpec` and `Spec` have the same behaviours of `vars`.  That every behaviour of `HSpec` is one of `Spec` is
   plain from `HInit` and `HNext`, the other direction is an argument about the existence of a history.
3. The shape of the deadlocks of `Payments` and `Checkout` together.
