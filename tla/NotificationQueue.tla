------------------------- MODULE NotificationQueue -------------------------
(***************************************************************************)
(* The persistent notification outbox: server/notification-queue.ts and    *)
(* the part of TelegramService.notifyRelease the outbox depends on.        *)
(*                                                                         *)
(* The table notification_queue is shared by the queue instances (one per  *)
(* server process; two overlap while a container is replaced).  SQLite     *)
(* statements and transactions are atomic and survive a crash; a send is   *)
(* not: between the claim of a row and the record of its outcome lie the   *)
(* calls to Telegram, during which time passes, users change their         *)
(* settings, another instance works, and the process may die.              *)
(*                                                                         *)
(* Times are relative: due[n] is the number of ticks until                 *)
(* next_attempt_at (0 or less: due, and how long overdue), leaseLeft[n]    *)
(* the number until lease_until (0: expired).                              *)
(***************************************************************************)
EXTENDS Integers, FiniteSets, Sequences

CONSTANTS
  Notes,          \* notifications, each with a dedupe key of its own
  Users,
  Owner,          \* Owner[n]: the user a notification is for
  Queues,         \* queue instances
  None,           \* SQL NULL
  BackoffBase,    \* 30 seconds, in ticks
  MaxRetry,       \* MAX_RETRY_MS in ticks
  Lease,          \* LEASE_MS in ticks
  RetryAfters,    \* the retry_after values Telegram may answer, in ticks
  PassLimit,      \* claims per pass (100 in the code)
  PhotoMethods,   \* send methods tried before the plain text (3 in the code)
  AttemptCap,     \* bound: attempts saturates here, where the backoff does
  Overdue,        \* bound: ticks a free, running instance may be late
  MaxStops        \* bound: stops and shutdowns in a behaviour

\* min(attempts - 1, 10) in the exponent of the backoff.
Doubling == <<1, 2, 4, 8, 16, 32, 64, 128, 256, 512, 1024>>

\* A claim in flight: its row, row.attempts, and the number of send methods
\* left to try after the current one.
Job == [note : Notes, tries : 1..AttemptCap, methods : 0..PhotoMethods]

ASSUME ConstantsAssumption ==
  /\ Owner \in [Notes -> Users]
  /\ None \notin Queues /\ None \notin Job
  /\ BackoffBase \in Nat \ {0} /\ MaxRetry \in Nat \ {0} /\ Lease \in Nat \ {0}
  /\ RetryAfters \subseteq Nat \ {0}
  /\ PassLimit \in Nat \ {0} /\ PhotoMethods \in Nat
  /\ Overdue \in Nat /\ MaxStops \in Nat
  /\ AttemptCap \in 1..11
  /\ AttemptCap = 11 \/ BackoffBase * Doubling[AttemptCap] >= MaxRetry

VARIABLES
  \* the table
  status,     \* "new" before the enqueue, "pending", "delivered",
              \* "pruned" or "deleted" when the row is gone again
  due,        \* next_attempt_at
  attempts,
  holder,     \* lease_token: the instance that made the claim
  leaseLeft,  \* lease_until
  \* the users
  enabled,    \* users.disabled = 0
  linked,     \* a bot and a chat are configured
  \* each queue instance
  pc,         \* "down", "idle", "loop", "call" or "accepted"
  stopping,
  job,        \* the claim in flight
  claims,     \* claims made in this pass
  \* history, read by no guard but the bound on stops
  copies,     \* copies Telegram has shown, saturating at 2
  excused,    \* a copy was shown that its sender could not record
  limit,      \* ticks left of the rate limit last announced to a user's bot
  deferral,   \* ticks left of the limits announced while a row was waiting
  stops

table == <<status, due, attempts, holder, leaseLeft>>
users == <<enabled, linked>>
local == <<pc, stopping, job, claims>>
history == <<copies, excused, limit, deferral, stops>>
vars == <<table, users, local, history>>

Larger(a, b) == IF a >= b THEN a ELSE b
Smaller(a, b) == IF a <= b THEN a ELSE b

Backoff(a) == Smaller(MaxRetry, BackoffBase * Doubling[a])

InFlight(q) == pc[q] \in {"call", "accepted"}
Pending(n) == status[n] = "pending"
NotesOf(u) == {n \in Notes : Owner[n] = u}

TypeOK ==
  /\ status \in [Notes -> {"new", "pending", "delivered", "pruned", "deleted"}]
  /\ due \in [Notes -> Int]
  /\ attempts \in [Notes -> 0..AttemptCap]
  /\ holder \in [Notes -> Queues \cup {None}]
  /\ leaseLeft \in [Notes -> 0..Lease]
  /\ enabled \in [Users -> BOOLEAN]
  /\ linked \in [Users -> BOOLEAN]
  /\ pc \in [Queues -> {"down", "idle", "loop", "call", "accepted"}]
  /\ stopping \in [Queues -> BOOLEAN]
  /\ job \in [Queues -> Job \cup {None}]
  /\ \A q \in Queues : InFlight(q) <=> job[q] # None
  /\ claims \in [Queues -> 0..PassLimit]
  /\ copies \in [Notes -> 0..2]
  /\ excused \in [Notes -> BOOLEAN]
  /\ limit \in [Users -> Nat]
  /\ deferral \in [Notes -> Nat]
  /\ stops \in 0..MaxStops

Init ==
  /\ status = [n \in Notes |-> "new"]
  /\ due = [n \in Notes |-> 0]
  /\ attempts = [n \in Notes |-> 0]
  /\ holder = [n \in Notes |-> None]
  /\ leaseLeft = [n \in Notes |-> 0]
  /\ enabled = [u \in Users |-> TRUE]
  /\ linked \in [Users -> BOOLEAN]
  /\ pc = [q \in Queues |-> "down"]
  /\ stopping = [q \in Queues |-> FALSE]
  /\ job = [q \in Queues |-> None]
  /\ claims = [q \in Queues |-> 0]
  /\ copies = [n \in Notes |-> 0]
  /\ excused = [n \in Notes |-> FALSE]
  /\ limit = [u \in Users |-> 0]
  /\ deferral = [n \in Notes |-> 0]
  /\ stops = 0
-----------------------------------------------------------------------------
(* The table as its writers and its users see it. *)

\* enqueueNotification, inside the transaction that records the release: due
\* at once, whatever is known of the bot.  Its keys are fresh identifiers, so
\* a row is inserted once.
Enqueue(n) ==
  /\ status[n] = "new"
  /\ status' = [status EXCEPT ![n] = "pending"]
  /\ due' = [due EXCEPT ![n] = 0]
  /\ UNCHANGED <<attempts, holder, leaseLeft, users, local, history>>

\* Deleting a subscription or a collection cascades to its rows, a claimed one
\* included.
Delete(S) ==
  /\ S # {}
  /\ \A n \in S : status[n] \in {"pending", "delivered"}
  /\ \E u \in Users : S \subseteq NotesOf(u)
  /\ status' = [n \in Notes |-> IF n \in S THEN "deleted" ELSE status[n]]
  /\ holder' = [n \in Notes |-> IF n \in S THEN None ELSE holder[n]]
  /\ leaseLeft' = [n \in Notes |-> IF n \in S THEN 0 ELSE leaseLeft[n]]
  /\ due' = [n \in Notes |-> IF n \in S THEN 0 ELSE due[n]]
  /\ attempts' = [n \in Notes |-> IF n \in S THEN 0 ELSE attempts[n]]
  /\ deferral' = [n \in Notes |-> IF n \in S THEN 0 ELSE deferral[n]]
  /\ UNCHANGED <<users, local, copies, excused, limit, stops>>

SetDisabled(u) ==
  /\ enabled' = [enabled EXCEPT ![u] = ~enabled[u]]
  /\ UNCHANGED <<table, linked, local, history>>

SetLinked(u) ==
  /\ linked' = [linked EXCEPT ![u] = ~linked[u]]
  /\ UNCHANGED <<table, enabled, local, history>>
-----------------------------------------------------------------------------
(* One queue instance. *)

Start(q) ==
  /\ pc[q] = "down"
  /\ pc' = [pc EXCEPT ![q] = "idle"]
  /\ UNCHANGED <<table, users, stopping, job, claims, history>>

\* Mutant: the interval goes on after stop().
Wake_Always(q) ==
  /\ pc[q] = "idle"
  /\ pc' = [pc EXCEPT ![q] = "loop"]
  /\ UNCHANGED <<table, users, stopping, job, claims, history>>

\* The five-second interval; drain joins a pass that is already active.
Wake(q) ==
  /\ pc[q] = "idle"
  /\ ~stopping[q]
  /\ pc' = [pc EXCEPT ![q] = "loop"]
  /\ UNCHANGED <<table, users, stopping, job, claims, history>>

\* Mutant: a lease never expires.
Claimable_NoExpiry(n) ==
  /\ Pending(n)
  /\ due[n] <= 0
  /\ holder[n] = None
  /\ enabled[Owner[n]]

\* Mutant: the claim ignores the leases of others.
Claimable_NoLease(n) ==
  /\ Pending(n)
  /\ due[n] <= 0
  /\ enabled[Owner[n]]

Claimable(n) ==
  /\ Pending(n)
  /\ due[n] <= 0
  /\ holder[n] = None \/ leaseLeft[n] = 0
  /\ enabled[Owner[n]]

\* ORDER BY next_attempt_at; the finer order of rows of one tick is left open.
IsNext(n) == Claimable(n) /\ \A m \in Notes : Claimable(m) => due[n] <= due[m]

CanClaim(q) == pc[q] = "loop" /\ claims[q] < PassLimit /\ ~stopping[q]

Sending(n) == {q \in Queues : InFlight(q) /\ job[q].note = n}

\* A claim of a row whose lease ran out while an instance was still sending
\* it: that instance will not be able to record a copy it gets shown.
Steals(n) == holder[n] # None /\ leaseLeft[n] = 0 /\ Sending(n) # {}

\* The claim transaction of a pass.
Claim(q, n) ==
  /\ CanClaim(q)
  /\ IsNext(n)
  /\ linked[Owner[n]]
  /\ holder' = [holder EXCEPT ![n] = q]
  /\ leaseLeft' = [leaseLeft EXCEPT ![n] = Lease]
  /\ attempts' = [attempts EXCEPT ![n] = Smaller(@ + 1, AttemptCap)]
  /\ pc' = [pc EXCEPT ![q] = "call"]
  /\ \E k \in 0..PhotoMethods :
       job' = [job EXCEPT ![q] = [note |-> n, tries |-> attempts'[n], methods |-> k]]
  /\ claims' = [claims EXCEPT ![q] = @ + 1]
  /\ excused' = [excused EXCEPT ![n] = @ \/ Steals(n)]
  /\ UNCHANGED <<status, due, users, stopping, copies, limit, deferral, stops>>

\* The same without a destination: notifyRelease returns a failure before any
\* call, and the claim ends as a failed attempt.
ClaimUnlinked(q, n) ==
  /\ CanClaim(q)
  /\ IsNext(n)
  /\ ~linked[Owner[n]]
  /\ attempts' = [attempts EXCEPT ![n] = Smaller(@ + 1, AttemptCap)]
  /\ due' = [due EXCEPT ![n] = Backoff(attempts'[n])]
  /\ holder' = [holder EXCEPT ![n] = None]
  /\ leaseLeft' = [leaseLeft EXCEPT ![n] = 0]
  /\ claims' = [claims EXCEPT ![q] = @ + 1]
  /\ excused' = [excused EXCEPT ![n] = @ \/ Steals(n)]
  /\ UNCHANGED <<status, users, pc, stopping, job, copies, limit, deferral, stops>>

\* Mutant: old rows are pruned whether or not they were delivered.
EndPass_PrunesOld(q) ==
  /\ pc[q] = "loop"
  /\ CanClaim(q) => ~\E n \in Notes : Claimable(n)
  /\ \E old \in SUBSET {n \in Notes : status[n] \in {"pending", "delivered"}} :
       status' = [n \in Notes |-> IF n \in old THEN "pruned" ELSE status[n]]
  /\ pc' = [pc EXCEPT ![q] = "idle"]
  /\ claims' = [claims EXCEPT ![q] = 0]
  /\ UNCHANGED <<due, attempts, holder, leaseLeft, users, stopping, job, history>>

\* The pass is over: nothing left to claim, its limit reached, or stop().
\* Receipts older than seven days go; which ones is left open.
EndPass(q) ==
  /\ pc[q] = "loop"
  /\ CanClaim(q) => ~\E n \in Notes : Claimable(n)
  /\ \E old \in SUBSET {n \in Notes : status[n] = "delivered"} :
       status' = [n \in Notes |-> IF n \in old THEN "pruned" ELSE status[n]]
  /\ pc' = [pc EXCEPT ![q] = "idle"]
  /\ claims' = [claims EXCEPT ![q] = 0]
  /\ UNCHANGED <<due, attempts, holder, leaseLeft, users, stopping, job, history>>

\* Telegram shows the message; its answer is on its way back.
Accept(q) ==
  /\ pc[q] = "call"
  /\ pc' = [pc EXCEPT ![q] = "accepted"]
  /\ copies' = [copies EXCEPT ![job[q].note] = Smaller(@ + 1, 2)]
  /\ UNCHANGED <<table, users, stopping, job, claims, excused, limit, deferral, stops>>

\* UPDATE ... WHERE id = ? AND lease_token = ? finds the row of this claim.
Holds(q, n) == Pending(n) /\ holder[n] = q

\* The claim is over and the loop goes on.
Release(q) ==
  /\ pc' = [pc EXCEPT ![q] = "loop"]
  /\ job' = [job EXCEPT ![q] = None]

\* The receipt is recorded, if the claim is still this instance's.  The
\* columns nothing reads any more are cleared.
Delivered(q) ==
  LET n == job[q].note IN
  /\ pc[q] = "accepted"
  /\ Release(q)
  /\ IF Holds(q, n)
     THEN /\ status' = [status EXCEPT ![n] = "delivered"]
          /\ holder' = [holder EXCEPT ![n] = None]
          /\ leaseLeft' = [leaseLeft EXCEPT ![n] = 0]
          /\ due' = [due EXCEPT ![n] = 0]
          /\ attempts' = [attempts EXCEPT ![n] = 0]
          /\ deferral' = [deferral EXCEPT ![n] = 0]
     ELSE UNCHANGED <<table, deferral>>
  /\ UNCHANGED <<users, stopping, claims, copies, excused, limit, stops>>

\* Mutant: a rate limit is taken to concern the refused row only.
Limited_One(n) == {n}

\* The rows a rate limit met by row n is passed on to.
Limited(n) == {m \in NotesOf(Owner[n]) : Pending(m)}

\* The catch block: back off, and pass a rate limit (r > 0) on to every
\* undelivered row of the user.  (History: a row that another instance is
\* sending at that moment is not waiting.)
RecordFailure(q, r) ==
  LET n == job[q].note
      delay == Larger(Backoff(job[q].tries), r)
      own == IF Holds(q, n) THEN [due EXCEPT ![n] = delay] ELSE due IN
  /\ Release(q)
  /\ due' = [m \in Notes |-> IF r > 0 /\ m \in Limited(n)
                             THEN Larger(own[m], delay) ELSE own[m]]
  /\ holder' = IF Holds(q, n) THEN [holder EXCEPT ![n] = None] ELSE holder
  /\ leaseLeft' = IF Holds(q, n) THEN [leaseLeft EXCEPT ![n] = 0] ELSE leaseLeft
  /\ IF r > 0
     THEN /\ limit' = [limit EXCEPT ![Owner[n]] = Larger(@, r)]
          /\ deferral' = [m \in Notes |->
               IF Owner[m] = Owner[n] /\ Pending(m) /\ Sending(m) \subseteq {q}
               THEN Larger(deferral[m], r) ELSE deferral[m]]
     ELSE UNCHANGED <<limit, deferral>>
  /\ UNCHANGED <<status, attempts, users, stopping, claims, copies, stops>>

\* A method that failed is followed by the next one, the last one by the
\* catch block.
MethodFailed(q) ==
  IF job[q].methods > 0
  THEN /\ job' = [job EXCEPT ![q].methods = @ - 1]
       /\ pc' = [pc EXCEPT ![q] = "call"]
       /\ UNCHANGED <<table, users, stopping, claims, copies, limit, deferral, stops>>
  ELSE RecordFailure(q, 0)

\* Telegram refuses the call, or it never gets there.
Refused(q) == pc[q] = "call" /\ MethodFailed(q) /\ UNCHANGED excused

\* Telegram answers 429 with retry_after: no other method is tried.
RateLimited(q) ==
  /\ pc[q] = "call"
  /\ \E r \in RetryAfters : RecordFailure(q, r)
  /\ UNCHANGED excused

\* The message was shown but the call timed out or its connection broke:
\* for notifyRelease that is a method that failed.
AnswerLost(q) ==
  /\ pc[q] = "accepted"
  /\ MethodFailed(q)
  /\ excused' = [excused EXCEPT ![job[q].note] = TRUE]
-----------------------------------------------------------------------------
(* The process and the clock. *)

\* stop(): no further claim; the process waits for the active pass.
Stop(q) ==
  /\ pc[q] # "down"
  /\ ~stopping[q]
  /\ stops < MaxStops
  /\ stops' = stops + 1
  /\ stopping' = [stopping EXCEPT ![q] = TRUE]
  /\ UNCHANGED <<table, users, pc, job, claims, copies, excused, limit, deferral>>

\* Mutant: stop() does not await the active pass.
Exit_NoAwait(q) ==
  /\ stopping[q]
  /\ pc' = [pc EXCEPT ![q] = "down"]
  /\ stopping' = [stopping EXCEPT ![q] = FALSE]
  /\ UNCHANGED <<table, users, job, claims, history>>

\* The active pass is over and the process ends, its queue object with it.
Exit(q) ==
  /\ stopping[q]
  /\ pc[q] = "idle"
  /\ pc' = [pc EXCEPT ![q] = "down"]
  /\ stopping' = [stopping EXCEPT ![q] = FALSE]
  /\ UNCHANGED <<table, users, job, claims, history>>

\* The process dies where it stands.  The table keeps its lease.
Crash(q) ==
  /\ pc[q] # "down"
  /\ stops < MaxStops
  /\ stops' = stops + 1
  /\ pc' = [pc EXCEPT ![q] = "down"]
  /\ stopping' = [stopping EXCEPT ![q] = FALSE]
  /\ job' = [job EXCEPT ![q] = None]
  /\ claims' = [claims EXCEPT ![q] = 0]
  /\ excused' = [n \in Notes |-> excused[n] \/ (pc[q] = "accepted" /\ job[q].note = n)]
  /\ UNCHANGED <<table, users, copies, limit, deferral>>

\* A free, running instance wakes every five seconds: it is never more than
\* Overdue ticks late.
Punctual ==
  \A n \in Notes : Claimable(n) /\ due[n] <= -Overdue =>
    \A q \in Queues : pc[q] = "down" \/ InFlight(q) \/ stopping[q]

Tick ==
  /\ Punctual
  /\ due' = [n \in Notes |->
       IF Pending(n) THEN Larger(due[n] - 1, -Overdue) ELSE due[n]]
  /\ leaseLeft' = [n \in Notes |-> Larger(leaseLeft[n] - 1, 0)]
  /\ limit' = [u \in Users |-> Larger(limit[u] - 1, 0)]
  /\ deferral' = [n \in Notes |-> Larger(deferral[n] - 1, 0)]
  /\ UNCHANGED <<status, attempts, holder, users, local, copies, excused, stops>>
-----------------------------------------------------------------------------
Environment ==
  \/ \E n \in Notes : Enqueue(n)
  \/ \E S \in SUBSET Notes : Delete(S)
  \/ \E u \in Users : SetDisabled(u) \/ SetLinked(u)
  \/ Tick

Process(q) ==
  \/ Start(q) \/ Wake(q) \/ EndPass(q) \/ Stop(q) \/ Exit(q) \/ Crash(q)
  \/ \E n \in Notes : Claim(q, n) \/ ClaimUnlinked(q, n)

Send(q) == Accept(q) \/ Delivered(q) \/ Refused(q) \/ RateLimited(q) \/ AnswerLost(q)

Next == Environment \/ \E q \in Queues : Process(q) \/ Send(q)

Spec == Init /\ [][Next]_vars

(***************************************************************************)
(* Fairness.  A process that ended is started again (Containerfile,        *)
(* deploy/: the service is restarted always), the event loop runs the      *)
(* timers and continuations that are due, every call ends (it has a        *)
(* timeout), and time passes.  Of Telegram it is assumed that it does not  *)
(* fail forever: of the calls made for a row over and over, one is         *)
(* accepted and answered at last.                                          *)
(***************************************************************************)
Fairness ==
  /\ WF_vars(Tick)
  /\ \A q \in Queues :
       /\ WF_vars(Start(q))
       /\ WF_vars(Wake(q))
       /\ WF_vars(\E n \in Notes : Claim(q, n) \/ ClaimUnlinked(q, n))
       /\ WF_vars(EndPass(q))
       /\ WF_vars(Exit(q))
       /\ WF_vars(Send(q))
  /\ \A n \in Notes :
       /\ SF_vars(\E q \in Sending(n) : Accept(q))
       /\ SF_vars(\E q \in Sending(n) : Delivered(q))

FairSpec == Spec /\ Fairness
-----------------------------------------------------------------------------
(* Properties. *)

(***************************************************************************)
(* The outbox keeps its promise: no row is acknowledged before Telegram    *)
(* showed a copy, none disappears while it is owed (by pruning, by a       *)
(* failure, a crash or a rate limit), whichever instances work on it.      *)
(***************************************************************************)
Debt(n) ==
  CASE status[n] = "new" -> "none"
    [] status[n] = "pending" -> "owed"
    [] status[n] \in {"delivered", "pruned"} -> "settled"
    [] status[n] = "deleted" -> "cancelled"

Promise == INSTANCE Outbox WITH
  debt <- [n \in Notes |-> Debt(n)],
  shown <- [n \in Notes |-> copies[n] > 0]

OutboxPromise == Promise!Spec

(***************************************************************************)
(* A user sees a second copy only if the sender of an earlier one could    *)
(* not record it: it crashed, lost the answer, or outlived its lease.      *)
(* Neither two instances, a restart, a shutdown nor a retry alone          *)
(* duplicates a message.                                                   *)
(***************************************************************************)
NoUnexplainedDuplicate == \A n \in Notes : copies[n] > 1 => excused[n]

(***************************************************************************)
(* Why: as long as nothing went unrecorded, a row has at most one sender,  *)
(* that sender holds its lease, and a copy shown of an undelivered row is  *)
(* the one whose answer that sender still waits for.  (Inductive; the      *)
(* proofs use it, TLC's runs check its consequences.)                      *)
(***************************************************************************)
SoleSender(n) ==
  /\ \A p, q \in Sending(n) : p = q
  /\ Pending(n) => \A q \in Sending(n) : holder[n] = q
  /\ copies[n] > 0 => \A q \in Sending(n) : pc[q] = "accepted"
  /\ copies[n] > 0 /\ Pending(n) => Sending(n) # {}
  /\ copies[n] <= 1

SenderInv ==
  /\ \A n \in Notes : excused[n] \/ SoleSender(n)
  /\ \A n \in Notes : status[n] = "new" => copies[n] = 0 /\ Sending(n) = {}
  /\ \A q \in Queues : pc[q] = "accepted" => copies[job[q].note] > 0

(***************************************************************************)
(* "A bot-level rate limit applies to all its pending sends": a row that   *)
(* was waiting when the limit was announced is not due before the limit    *)
(* is over, whatever happens to the other rows in the meantime.            *)
(***************************************************************************)
RateLimitDefers ==
  \A n \in Notes : deferral[n] > 0 => due[n] >= deferral[n]

\* Why (inductive): nobody is sending a deferral row.
DeferralInv ==
  \A n \in Notes : deferral[n] > 0 =>
    Pending(n) /\ due[n] >= deferral[n] /\ Sending(n) = {}

(***************************************************************************)
(* A notification of a user who stays enabled and linked is delivered in   *)
(* the end (or deleted), in spite of leases left by crashed instances,     *)
(* backoff, rate limits and other rows that keep failing.                  *)
(***************************************************************************)
EventuallyDelivered ==
  \A n \in Notes :
    <>[](enabled[Owner[n]] /\ linked[Owner[n]]) => (Pending(n) ~> ~Pending(n))

(***************************************************************************)
(* stop() returns: the pass that is active when it is called makes no      *)
(* further claim, so the process ends once the send in flight does.        *)
(***************************************************************************)
ShutdownCompletes ==
  \A q \in Queues : stopping[q] ~> pc[q] = "down"

(***************************************************************************)
(* notification-queue.ts:99 and README.md:101 say that the outbox honors   *)
(* Telegram's rate limits: no send to a user's bot starts before the limit *)
(* Telegram announced for it is over.                                      *)
(***************************************************************************)
LimitHonoured ==
  [][\A q \in Queues :
       job[q] = None /\ job'[q] # None => limit[Owner[job'[q].note]] = 0]_vars
=============================================================================
