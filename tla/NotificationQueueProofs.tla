----------------------- MODULE NotificationQueueProofs -----------------------
(* Proofs about NotificationQueue, for every value of its constants. *)
EXTENDS NotificationQueue, TLAPS

\* The backoff the catch block computes is a number of ticks.
LEMMA BackoffNat == \A a \in 1..AttemptCap : Backoff(a) \in Nat
<1>1. \A a \in 1..11 : Doubling[a] \in Nat
  BY DEF Doubling
<1>2. ASSUME NEW b \in Nat, NEW d \in Nat PROVE b * d \in Nat
  OBVIOUS
<1>3. QED
  BY <1>1, <1>2, ConstantsAssumption DEF Backoff, Smaller

\* The catch block keeps the types, whatever retry_after it is given.
LEMMA FailureKeepsTypes ==
  ASSUME TypeOK, NEW q \in Queues, InFlight(q), NEW r \in Nat, RecordFailure(q, r),
         excused' \in [Notes -> BOOLEAN]
  PROVE  TypeOK'
<1> DEFINE n == job[q].note
           delay == Larger(Backoff(job[q].tries), r)
           own == IF Holds(q, n) THEN [due EXCEPT ![n] = delay] ELSE due
<1>1. job[q] \in Job /\ n \in Notes
  BY ConstantsAssumption DEF TypeOK, Job
<1>2. delay \in Nat
  BY <1>1, BackoffNat DEF Larger, Job
<1>3. own \in [Notes -> Int]
  BY <1>1, <1>2 DEF TypeOK
<1>4. due' = [m \in Notes |-> IF r > 0 /\ m \in Limited(n)
                              THEN Larger(own[m], delay) ELSE own[m]]
  BY DEF RecordFailure
<1>5. due' \in [Notes -> Int]
  BY <1>2, <1>3, <1>4 DEF Larger
<1>6. holder' \in [Notes -> Queues \cup {None}] /\ leaseLeft' \in [Notes -> 0..Lease]
  BY <1>1, ConstantsAssumption DEF TypeOK, RecordFailure
<1>7. limit' \in [Users -> Nat] /\ deferral' \in [Notes -> Nat]
  BY <1>1, ConstantsAssumption DEF TypeOK, RecordFailure, Larger
<1>8. /\ pc' \in [Queues -> {"down", "idle", "loop", "call", "accepted"}]
      /\ job' \in [Queues -> Job \cup {None}]
      /\ \A p \in Queues : InFlight(p)' <=> job'[p] # None
  BY DEF TypeOK, RecordFailure, Release, InFlight
<1>9. QED
  BY <1>5, <1>6, <1>7, <1>8 DEF TypeOK, RecordFailure, users

\* Type correctness is inductive by itself.
LEMMA TypeStep == TypeOK /\ [Next]_vars => TypeOK'
<1> SUFFICES ASSUME TypeOK, [Next]_vars PROVE TypeOK'
  OBVIOUS
<1> USE ConstantsAssumption
<1>1. ASSUME NEW n \in Notes, Enqueue(n) PROVE TypeOK'
  BY <1>1 DEF TypeOK, Enqueue, users, local, history, InFlight
<1>2. ASSUME NEW S \in SUBSET Notes, Delete(S) PROVE TypeOK'
  BY <1>2 DEF TypeOK, Delete, users, local, InFlight
<1>3. ASSUME NEW u \in Users, SetDisabled(u) PROVE TypeOK'
  BY <1>3 DEF TypeOK, SetDisabled, table, local, history, InFlight
<1>4. ASSUME NEW u \in Users, SetLinked(u) PROVE TypeOK'
  BY <1>4 DEF TypeOK, SetLinked, table, local, history, InFlight
<1>5. ASSUME Tick PROVE TypeOK'
  BY <1>5 DEF TypeOK, Tick, users, local, InFlight, Larger
<1>6. ASSUME NEW q \in Queues, Start(q) PROVE TypeOK'
  BY <1>6 DEF TypeOK, Start, table, users, history, InFlight
<1>7. ASSUME NEW q \in Queues, Wake(q) PROVE TypeOK'
  BY <1>7 DEF TypeOK, Wake, table, users, history, InFlight
<1>8. ASSUME NEW q \in Queues, EndPass(q) PROVE TypeOK'
  <2>1. status' \in [Notes -> {"new", "pending", "delivered", "pruned", "deleted"}]
    BY <1>8 DEF TypeOK, EndPass
  <2>2. QED
    BY <1>8, <2>1 DEF TypeOK, EndPass, users, history, InFlight
<1>9. ASSUME NEW q \in Queues, Stop(q) PROVE TypeOK'
  BY <1>9 DEF TypeOK, Stop, table, users, InFlight
<1>10. ASSUME NEW q \in Queues, Exit(q) PROVE TypeOK'
  BY <1>10 DEF TypeOK, Exit, table, users, history, InFlight
<1>11. ASSUME NEW q \in Queues, Crash(q) PROVE TypeOK'
  <2>1. excused' \in [Notes -> BOOLEAN]
    BY <1>11 DEF TypeOK, Crash
  <2>2. QED
    BY <1>11, <2>1 DEF TypeOK, Crash, table, users, InFlight
<1>12. ASSUME NEW q \in Queues, NEW n \in Notes, Claim(q, n) PROVE TypeOK'
  <2>1. attempts' \in [Notes -> 0..AttemptCap] /\ attempts'[n] \in 1..AttemptCap
    BY <1>12 DEF TypeOK, Claim, Smaller
  <2>2. PICK k \in 0..PhotoMethods : job' =
          [job EXCEPT ![q] = [note |-> n, tries |-> attempts'[n], methods |-> k]]
    BY <1>12 DEF Claim
  <2>3. job' \in [Queues -> Job \cup {None}]
    BY <2>1, <2>2 DEF TypeOK, Job
  <2>4. \A p \in Queues : InFlight(p)' <=> job'[p] # None
    BY <1>12, <2>1, <2>2 DEF TypeOK, Claim, InFlight, Job
  <2>5. excused' \in [Notes -> BOOLEAN]
    BY <1>12 DEF TypeOK, Claim, Steals
  <2>6. claims' \in [Queues -> 0..PassLimit]
    BY <1>12 DEF TypeOK, Claim, CanClaim
  <2>7. QED
    BY <1>12, <2>1, <2>3, <2>4, <2>5, <2>6 DEF TypeOK, Claim, users
<1>13. ASSUME NEW q \in Queues, NEW n \in Notes, ClaimUnlinked(q, n) PROVE TypeOK'
  <2>1. attempts' \in [Notes -> 0..AttemptCap] /\ attempts'[n] \in 1..AttemptCap
    BY <1>13 DEF TypeOK, ClaimUnlinked, Smaller
  <2>2. due' \in [Notes -> Int]
    BY <1>13, <2>1, BackoffNat DEF TypeOK, ClaimUnlinked
  <2>3. excused' \in [Notes -> BOOLEAN]
    BY <1>13 DEF TypeOK, ClaimUnlinked, Steals
  <2>4. claims' \in [Queues -> 0..PassLimit]
    BY <1>13 DEF TypeOK, ClaimUnlinked, CanClaim
  <2>5. QED
    BY <1>13, <2>1, <2>2, <2>3, <2>4 DEF TypeOK, ClaimUnlinked, users, InFlight
<1>14. ASSUME NEW q \in Queues, Accept(q) PROVE TypeOK'
  <2>1. job[q] \in Job /\ job[q].note \in Notes
    BY <1>14 DEF TypeOK, Accept, InFlight, Job
  <2>2. copies' \in [Notes -> 0..2]
    BY <1>14, <2>1 DEF TypeOK, Accept, Smaller
  <2>3. QED
    BY <1>14, <2>2 DEF TypeOK, Accept, table, users, InFlight
<1>15. ASSUME NEW q \in Queues, Delivered(q) PROVE TypeOK'
  <2>1. /\ pc' \in [Queues -> {"down", "idle", "loop", "call", "accepted"}]
        /\ job' \in [Queues -> Job \cup {None}]
        /\ \A p \in Queues : InFlight(p)' <=> job'[p] # None
    BY <1>15 DEF TypeOK, Delivered, Release, InFlight
  <2>2. QED
    BY <1>15, <2>1 DEF TypeOK, Delivered, table, users
<1>16. ASSUME NEW q \in Queues, MethodFailed(q), InFlight(q),
              excused' \in [Notes -> BOOLEAN]
       PROVE  TypeOK'
  <2>1. CASE job[q].methods > 0
    <3>1. job[q] \in Job
      BY <1>16 DEF TypeOK
    <3>2. job' \in [Queues -> Job \cup {None}] /\ job'[q] \in Job
      BY <1>16, <2>1, <3>1 DEF TypeOK, MethodFailed, Job
    <3>3. \A p \in Queues : InFlight(p)' <=> job'[p] # None
      BY <1>16, <2>1, <3>2 DEF TypeOK, MethodFailed, InFlight
    <3>4. QED
      BY <1>16, <2>1, <3>2, <3>3 DEF TypeOK, MethodFailed, table, users
  <2>2. CASE ~(job[q].methods > 0)
    BY <1>16, <2>2, FailureKeepsTypes DEF MethodFailed
  <2>3. QED
    BY <2>1, <2>2
<1>17. ASSUME NEW q \in Queues, Refused(q) PROVE TypeOK'
  BY <1>16, <1>17 DEF Refused, InFlight, TypeOK
<1>18. ASSUME NEW q \in Queues, RateLimited(q) PROVE TypeOK'
  <2>1. PICK r \in RetryAfters : RecordFailure(q, r)
    BY <1>18 DEF RateLimited
  <2>2. r \in Nat /\ InFlight(q) /\ excused' \in [Notes -> BOOLEAN]
    BY <1>18 DEF RateLimited, InFlight, TypeOK
  <2>3. QED
    BY <2>1, <2>2, FailureKeepsTypes
<1>19. ASSUME NEW q \in Queues, AnswerLost(q) PROVE TypeOK'
  <2>1. excused' \in [Notes -> BOOLEAN] /\ InFlight(q)
    BY <1>19 DEF AnswerLost, TypeOK, InFlight
  <2>2. QED
    BY <1>16, <1>19, <2>1 DEF AnswerLost
<1>20. CASE UNCHANGED vars
  BY <1>20 DEF TypeOK, vars, table, users, local, history, InFlight
<1>21. QED
  BY <1>1, <1>2, <1>3, <1>4, <1>5, <1>6, <1>7, <1>8, <1>9, <1>10, <1>11, <1>12,
     <1>13, <1>14, <1>15, <1>17, <1>18, <1>19, <1>20
  DEF Next, Environment, Process, Send

\* Every reachable state of the outbox is type correct.
THEOREM TypeCorrect == Spec => []TypeOK
<1>1. Init => TypeOK
  BY ConstantsAssumption DEF Init, TypeOK, InFlight
<1>2. QED
  BY <1>1, TypeStep, PTL DEF Spec
-----------------------------------------------------------------------------
(* No unexplained duplicate. *)

\* The steps that leave the senders, the copies, the leases and the excuses
\* alone, and make no row pending, keep the invariant.
LEMMA SenderFrame ==
  ASSUME TypeOK, SenderInv, UNCHANGED <<holder, copies, excused>>,
         \A n \in Notes : status'[n] = status[n] \/ status'[n] \notin {"pending", "new"},
         \A q \in Queues : InFlight(q)' <=> InFlight(q),
         \A q \in Queues : InFlight(q) => pc'[q] = pc[q] /\ job'[q] = job[q]
  PROVE  SenderInv'
<1>1. \A n \in Notes : Sending(n)' = Sending(n)
  BY DEF Sending
<1>2. \A q \in Queues : pc'[q] = "accepted" => pc[q] = "accepted" /\ job'[q] = job[q]
  BY DEF InFlight
<1>3. \A n \in Notes : \A q \in Sending(n) : pc'[q] = pc[q]
  BY DEF Sending
<1>4. ASSUME NEW n \in Notes, SoleSender(n) PROVE SoleSender(n)'
  BY <1>1, <1>3, <1>4 DEF SoleSender, Pending
<1>5. QED
  BY <1>1, <1>2, <1>4 DEF SenderInv

\* A sender that ends keeps the invariant, if the row is no longer pending,
\* or no copy of it was shown, or the loss of the answer is accounted for.
LEMMA SenderEnds ==
  ASSUME TypeOK, SenderInv, NEW q \in Queues, InFlight(q),
         NEW n \in Notes, job[q].note = n, pc'[q] \in {"loop", "down"},
         \A p \in Queues \ {q} : pc'[p] = pc[p] /\ job'[p] = job[p],
         UNCHANGED copies,
         \A m \in Notes : excused[m] => excused'[m],
         \A m \in Notes \ {n} : status'[m] = status[m] /\ holder'[m] = holder[m],
         status'[n] \in {status[n], "delivered"},
         \/ status'[n] # "pending"
         \/ copies[n] = 0
         \/ excused'[n]
  PROVE  SenderInv'
<1>1. q \in Sending(n)
  BY DEF Sending
<1>2. \A m \in Notes : Sending(m)' = Sending(m) \ {q}
  BY DEF Sending, InFlight
<1>3. status[n] # "new"
  BY <1>1 DEF SenderInv
<1>4. \A p \in Queues : pc'[p] = "accepted" => pc[p] = "accepted" /\ job'[p] = job[p]
  BY <1>1
<1>5. \A m \in Notes : \A p \in Sending(m)' : pc'[p] = pc[p]
  BY <1>2 DEF Sending
<1>6. ASSUME NEW m \in Notes, m # n, SoleSender(m) PROVE SoleSender(m)'
  <2>1. q \notin Sending(m)
    BY <1>6 DEF Sending
  <2>2. QED
    BY <1>2, <1>5, <1>6, <2>1 DEF SoleSender, Pending
<1>7. ASSUME SoleSender(n), ~excused'[n] PROVE SoleSender(n)'
  <2>1. Sending(n)' = {}
    BY <1>1, <1>2, <1>7 DEF SoleSender
  <2>2. copies[n] > 0 => status'[n] # "pending"
    BY <1>1, <1>7 DEF TypeOK
  <2>3. QED
    BY <1>1, <1>7, <2>1, <2>2 DEF SoleSender, Pending
<1>8. \A m \in Notes : excused'[m] \/ SoleSender(m)'
  BY <1>6, <1>7 DEF SenderInv
<1>9. ASSUME NEW m \in Notes, status'[m] = "new" PROVE copies'[m] = 0 /\ Sending(m)' = {}
  BY <1>1, <1>2, <1>3, <1>9 DEF SenderInv
<1>10. QED
  BY <1>4, <1>8, <1>9 DEF SenderInv

\* Without an excuse, a copy shown means that no call is still waiting for
\* Telegram to accept it.
LEMMA CallUnseen ==
  ASSUME TypeOK, SenderInv, NEW q \in Queues, pc[q] = "call"
  PROVE  job[q].note \in Notes /\ (copies[job[q].note] = 0 \/ excused[job[q].note])
<1>1. job[q].note \in Notes /\ q \in Sending(job[q].note)
  BY ConstantsAssumption DEF TypeOK, Job, Sending, InFlight
<1>2. QED
  BY <1>1 DEF SenderInv, SoleSender, TypeOK

LEMMA SenderDelete ==
  ASSUME TypeOK, SenderInv, NEW S \in SUBSET Notes, Delete(S)
  PROVE  SenderInv'
<1>1. \A n \in Notes : Sending(n)' = Sending(n)
  BY DEF Delete, local, Sending, InFlight
<1>2. \A n \in Notes : status'[n] = IF n \in S THEN "deleted" ELSE status[n]
  BY DEF Delete
<1>3. ASSUME NEW n \in Notes, SoleSender(n) PROVE SoleSender(n)'
  <2>1. CASE n \in S
    BY <1>1, <1>2, <1>3, <2>1 DEF SoleSender, Pending, Delete, local
  <2>2. CASE n \notin S
    BY <1>1, <1>2, <1>3, <2>2 DEF SoleSender, Pending, Delete, local, TypeOK
  <2>3. QED
    BY <2>1, <2>2
<1>4. QED
  BY <1>1, <1>2, <1>3 DEF SenderInv, Delete, local

\* A claim that finds the row still being sent is accounted for; one that does
\* not makes its instance the only sender of a row nobody was shown.
LEMMA SenderClaim ==
  ASSUME TypeOK, SenderInv, NEW q \in Queues, NEW n \in Notes, Claim(q, n)
  PROVE  SenderInv'
<1>1. pc[q] = "loop" /\ Pending(n) /\ (holder[n] = None \/ leaseLeft[n] = 0)
  BY DEF Claim, CanClaim, IsNext, Claimable
<1>2. /\ pc' = [pc EXCEPT ![q] = "call"]
      /\ holder'[n] = q
      /\ \A m \in Notes \ {n} : holder'[m] = holder[m] /\ excused'[m] = excused[m]
      /\ excused'[n] = (excused[n] \/ Steals(n))
      /\ UNCHANGED <<status, copies>>
  BY DEF Claim, TypeOK
<1>3. job'[q].note = n /\ \A p \in Queues \ {q} : job'[p] = job[p]
  BY DEF Claim, TypeOK
<1>4. \A m \in Notes : q \notin Sending(m)
  BY <1>1 DEF Sending, InFlight
<1>5. /\ Sending(n)' = Sending(n) \cup {q}
      /\ \A m \in Notes \ {n} : Sending(m)' = Sending(m)
  BY <1>1, <1>2, <1>3 DEF Sending, InFlight, TypeOK
<1>6. ASSUME NEW m \in Notes, m # n, SoleSender(m) PROVE SoleSender(m)'
  BY <1>2, <1>4, <1>5, <1>6 DEF SoleSender, Pending, TypeOK
<1>7. ASSUME SoleSender(n), ~excused'[n] PROVE SoleSender(n)'
  <2>1. ~Steals(n)
    BY <1>2, <1>7
  <2>2. Sending(n) = {}
    <3> SUFFICES ASSUME NEW p \in Sending(n) PROVE FALSE
      OBVIOUS
    <3>1. holder[n] = p /\ p # None
      BY <1>1, <1>7, ConstantsAssumption DEF SoleSender, Sending
    <3>2. QED
      BY <1>1, <2>1, <3>1 DEF Steals
  <2>3. copies[n] = 0
    BY <1>1, <1>7, <2>2 DEF SoleSender, TypeOK
  <2>4. QED
    BY <1>2, <1>5, <2>2, <2>3 DEF SoleSender
<1>8. \A m \in Notes : excused'[m] \/ SoleSender(m)'
  BY <1>2, <1>6, <1>7 DEF SenderInv
<1>9. \A m \in Notes : status'[m] = "new" => copies'[m] = 0 /\ Sending(m)' = {}
  BY <1>1, <1>2, <1>5 DEF SenderInv, Pending
<1>10. \A p \in Queues : pc'[p] = "accepted" => copies'[job'[p].note] > 0
  BY <1>2, <1>3 DEF SenderInv, TypeOK
<1>11. QED
  BY <1>8, <1>9, <1>10 DEF SenderInv

LEMMA SenderClaimUnlinked ==
  ASSUME TypeOK, SenderInv, NEW q \in Queues, NEW n \in Notes, ClaimUnlinked(q, n)
  PROVE  SenderInv'
<1>1. Pending(n) /\ (holder[n] = None \/ leaseLeft[n] = 0)
  BY DEF ClaimUnlinked, IsNext, Claimable
<1>2. /\ \A m \in Notes \ {n} : holder'[m] = holder[m] /\ excused'[m] = excused[m]
      /\ excused'[n] = (excused[n] \/ Steals(n))
      /\ UNCHANGED <<status, copies, pc, job>>
  BY DEF ClaimUnlinked, TypeOK
<1>3. \A m \in Notes : Sending(m)' = Sending(m)
  BY <1>2 DEF Sending, InFlight
<1>4. ASSUME NEW m \in Notes, m # n, SoleSender(m) PROVE SoleSender(m)'
  BY <1>2, <1>3, <1>4 DEF SoleSender, Pending
<1>5. ASSUME SoleSender(n), ~excused'[n] PROVE SoleSender(n)'
  <2>1. Sending(n) = {}
    <3> SUFFICES ASSUME NEW p \in Sending(n) PROVE FALSE
      OBVIOUS
    <3>1. holder[n] = p /\ p # None
      BY <1>1, <1>5, ConstantsAssumption DEF SoleSender, Sending
    <3>2. QED
      BY <1>1, <1>2, <1>5, <3>1 DEF Steals
  <2>2. QED
    BY <1>2, <1>3, <1>5, <2>1 DEF SoleSender, Pending
<1>6. QED
  BY <1>2, <1>3, <1>4, <1>5 DEF SenderInv

LEMMA SenderAccept ==
  ASSUME TypeOK, SenderInv, NEW q \in Queues, Accept(q)
  PROVE  SenderInv'
<1> DEFINE n == job[q].note
<1>1. n \in Notes /\ (copies[n] = 0 \/ excused[n])
  BY CallUnseen DEF Accept
<1>2. /\ pc' = [pc EXCEPT ![q] = "accepted"]
      /\ copies' = [copies EXCEPT ![n] = Smaller(@ + 1, 2)]
      /\ UNCHANGED <<status, holder, job, excused>>
  BY DEF Accept, table
<1>3. \A m \in Notes : Sending(m)' = Sending(m)
  BY <1>2 DEF Sending, InFlight, Accept, TypeOK
<1>4. q \in Sending(n)
  BY DEF Sending, InFlight, Accept
<1>5. copies'[n] > 0 /\ (copies[n] = 0 => copies'[n] = 1)
  BY <1>1, <1>2 DEF TypeOK, Smaller
<1>6. ASSUME NEW m \in Notes, m # n, SoleSender(m) PROVE SoleSender(m)'
  <2>1. q \notin Sending(m)
    BY <1>6 DEF Sending
  <2>2. QED
    BY <1>2, <1>3, <1>6, <2>1 DEF SoleSender, Pending, TypeOK
<1>7. ASSUME SoleSender(n), ~excused[n] PROVE SoleSender(n)'
  BY <1>1, <1>2, <1>3, <1>4, <1>5, <1>7 DEF SoleSender, Pending, TypeOK
<1>8. \A p \in Queues : pc'[p] = "accepted" => copies'[job'[p].note] > 0
  <2> SUFFICES ASSUME NEW p \in Queues, pc'[p] = "accepted" PROVE copies'[job[p].note] > 0
    BY <1>2
  <2>1. job[p].note \in Notes
    BY <1>2, ConstantsAssumption DEF TypeOK, InFlight, Job, Accept
  <2>2. CASE job[p].note = n
    BY <1>5, <2>2
  <2>3. CASE job[p].note # n
    BY <1>2, <2>1, <2>3 DEF SenderInv, TypeOK
  <2>4. QED
    BY <2>2, <2>3
<1>9. \A m \in Notes : status'[m] = "new" => copies'[m] = 0 /\ Sending(m)' = {}
  BY <1>1, <1>2, <1>3, <1>4 DEF SenderInv, TypeOK
<1>10. QED
  BY <1>2, <1>6, <1>7, <1>8, <1>9 DEF SenderInv

\* The catch block ends the sender of a row.
LEMMA SenderFailure ==
  ASSUME TypeOK, SenderInv, NEW q \in Queues, NEW r \in Nat, InFlight(q),
         RecordFailure(q, r),
         \/ pc[q] = "call" /\ UNCHANGED excused
         \/ excused' = [excused EXCEPT ![job[q].note] = TRUE]
  PROVE  SenderInv'
<1> DEFINE n == job[q].note
<1>1. n \in Notes
  BY ConstantsAssumption DEF TypeOK, Job
<1>2. /\ pc' = [pc EXCEPT ![q] = "loop"]
      /\ job' = [job EXCEPT ![q] = None]
      /\ UNCHANGED <<status, copies>>
      /\ \A m \in Notes \ {n} : holder'[m] = holder[m]
  BY <1>1 DEF RecordFailure, Release, TypeOK
<1>3. \A m \in Notes : excused[m] => excused'[m]
  BY <1>1 DEF TypeOK
<1>4. copies[n] = 0 \/ excused'[n]
  BY <1>1, CallUnseen DEF TypeOK
<1>5. QED
  BY <1>1, <1>2, <1>3, <1>4, SenderEnds DEF TypeOK

LEMMA SenderMethodFailed ==
  ASSUME TypeOK, SenderInv, NEW q \in Queues, InFlight(q), MethodFailed(q),
         \/ pc[q] = "call" /\ UNCHANGED excused
         \/ excused' = [excused EXCEPT ![job[q].note] = TRUE]
  PROVE  SenderInv'
<1> DEFINE n == job[q].note
<1>1. CASE ~(job[q].methods > 0)
  BY <1>1, SenderFailure DEF MethodFailed
<1>2. CASE job[q].methods > 0
  <2>1. n \in Notes /\ job[q] \in Job
    BY ConstantsAssumption DEF TypeOK, Job
  <2>2. /\ pc' = [pc EXCEPT ![q] = "call"]
        /\ job' = [job EXCEPT ![q].methods = @ - 1]
        /\ UNCHANGED <<status, holder, copies>>
    BY <1>2 DEF MethodFailed, table
  <2>3. \A p \in Queues : job'[p].note = job[p].note
    BY <2>1, <2>2 DEF TypeOK, Job
  <2>4. \A m \in Notes : Sending(m)' = Sending(m)
    BY <2>2, <2>3 DEF Sending, InFlight, TypeOK
  <2>5. ASSUME NEW m \in Notes, ~excused'[m] PROVE SoleSender(m)'
    <3>1. ~excused[m] /\ SoleSender(m)
      BY <2>1, <2>5 DEF SenderInv, TypeOK
    <3>2. \A p \in Sending(m) : pc[p] = "accepted" => pc'[p] = "accepted"
      BY <2>1, <2>2, <2>5 DEF Sending, TypeOK
    <3>3. QED
      BY <2>2, <2>4, <3>1, <3>2 DEF SoleSender, Pending
  <2>6. QED
    BY <2>2, <2>3, <2>4, <2>5 DEF SenderInv, TypeOK
<1>3. QED
  BY <1>1, <1>2

LEMMA SenderStep == TypeOK /\ SenderInv /\ [Next]_vars => SenderInv'
<1> SUFFICES ASSUME TypeOK, SenderInv, [Next]_vars PROVE SenderInv'
  OBVIOUS
<1>1. ASSUME NEW n \in Notes, Enqueue(n) PROVE SenderInv'
  <2>1. status[n] = "new" /\ copies[n] = 0 /\ Sending(n) = {}
    BY <1>1 DEF Enqueue, SenderInv
  <2>2. \A m \in Notes : Sending(m)' = Sending(m)
    BY <1>1 DEF Enqueue, local, Sending, InFlight
  <2>3. \A m \in Notes \ {n} : status'[m] = status[m]
    BY <1>1 DEF Enqueue, TypeOK
  <2>4. ASSUME NEW m \in Notes, SoleSender(m) PROVE SoleSender(m)'
    BY <1>1, <2>1, <2>2, <2>3, <2>4 DEF SoleSender, Pending, Enqueue, local, history
  <2>5. QED
    BY <1>1, <2>1, <2>2, <2>3, <2>4 DEF SenderInv, Enqueue, local, history, TypeOK
<1>2. ASSUME NEW S \in SUBSET Notes, Delete(S) PROVE SenderInv'
  BY <1>2, SenderDelete
<1>3. ASSUME NEW u \in Users, SetDisabled(u) \/ SetLinked(u) PROVE SenderInv'
  BY <1>3, SenderFrame DEF SetDisabled, SetLinked, table, local, history, InFlight
<1>4. ASSUME Tick PROVE SenderInv'
  BY <1>4, SenderFrame DEF Tick, local, InFlight
<1>5. ASSUME NEW q \in Queues, Start(q) \/ Wake(q) \/ Stop(q) \/ Exit(q) PROVE SenderInv'
  BY <1>5, SenderFrame DEF Start, Wake, Stop, Exit, table, history, InFlight, TypeOK
<1>6. ASSUME NEW q \in Queues, EndPass(q) PROVE SenderInv'
  <2>1. \A n \in Notes : status'[n] = status[n] \/ status'[n] \notin {"pending", "new"}
    BY <1>6 DEF EndPass
  <2>2. QED
    BY <1>6, <2>1, SenderFrame DEF EndPass, history, InFlight, TypeOK
<1>7. ASSUME NEW q \in Queues, Crash(q) PROVE SenderInv'
  <2>1. \A n \in Notes :
          excused'[n] = (excused[n] \/ (pc[q] = "accepted" /\ job[q].note = n))
    BY <1>7 DEF Crash
  <2>2. CASE ~InFlight(q)
    <3>1. UNCHANGED excused
      BY <1>7, <2>1, <2>2 DEF InFlight, Crash, TypeOK
    <3>2. QED
      BY <1>7, <2>2, <3>1, SenderFrame DEF Crash, table, InFlight, TypeOK
  <2>3. CASE InFlight(q)
    <3>1. job[q].note \in Notes
      BY <2>3, ConstantsAssumption DEF TypeOK, Job
    <3>2. copies[job[q].note] = 0 \/ excused'[job[q].note]
      BY <2>1, <2>3, <3>1, CallUnseen DEF InFlight
    <3>3. QED
      BY <1>7, <2>1, <2>3, <3>1, <3>2, SenderEnds DEF Crash, table, TypeOK
  <2>4. QED
    BY <2>2, <2>3
<1>8. ASSUME NEW q \in Queues, NEW n \in Notes, Claim(q, n) \/ ClaimUnlinked(q, n)
      PROVE  SenderInv'
  BY <1>8, SenderClaim, SenderClaimUnlinked
<1>9. ASSUME NEW q \in Queues, Accept(q) PROVE SenderInv'
  BY <1>9, SenderAccept
<1>10. ASSUME NEW q \in Queues, Delivered(q) PROVE SenderInv'
  <2> DEFINE n == job[q].note
  <2>1. n \in Notes /\ InFlight(q) /\ q \in Sending(n)
    BY <1>10, ConstantsAssumption DEF Delivered, TypeOK, Job, InFlight, Sending
  <2>2. status'[n] = "pending" => excused[n]
    <3> SUFFICES ASSUME status'[n] = "pending", ~excused[n] PROVE FALSE
      BY <2>1 DEF TypeOK
    <3>1. Pending(n) /\ ~Holds(q, n)
      BY <1>10, <2>1 DEF Delivered, Pending, Holds, table, TypeOK
    <3>2. QED
      BY <2>1, <3>1 DEF SenderInv, SoleSender, Holds
  <2>3. \A m \in Notes \ {n} : status'[m] = status[m] /\ holder'[m] = holder[m]
    BY <1>10, <2>1 DEF Delivered, table, TypeOK
  <2>4. status'[n] \in {status[n], "delivered"}
    BY <1>10, <2>1 DEF Delivered, table, TypeOK
  <2>5. pc' = [pc EXCEPT ![q] = "loop"] /\ job' = [job EXCEPT ![q] = None]
    BY <1>10 DEF Delivered, Release
  <2>6. UNCHANGED <<copies, excused>>
    BY <1>10 DEF Delivered
  <2>7. QED
    BY <2>1, <2>2, <2>3, <2>4, <2>5, <2>6, SenderEnds DEF TypeOK
<1>11. ASSUME NEW q \in Queues, Refused(q) PROVE SenderInv'
  BY <1>11, SenderMethodFailed DEF Refused, InFlight
<1>12. ASSUME NEW q \in Queues, RateLimited(q) PROVE SenderInv'
  <2>1. PICK r \in RetryAfters : RecordFailure(q, r)
    BY <1>12 DEF RateLimited
  <2>2. r \in Nat
    BY ConstantsAssumption
  <2>3. QED
    BY <1>12, <2>1, <2>2, SenderFailure DEF RateLimited, InFlight
<1>13. ASSUME NEW q \in Queues, AnswerLost(q) PROVE SenderInv'
  BY <1>13, SenderMethodFailed DEF AnswerLost, InFlight
<1>14. CASE UNCHANGED vars
  BY <1>14, SenderFrame DEF vars, table, local, history, InFlight
<1>15. QED
  BY <1>1, <1>2, <1>3, <1>4, <1>5, <1>6, <1>7, <1>8, <1>9, <1>10, <1>11, <1>12,
     <1>13, <1>14
  DEF Next, Environment, Process, Send

\* A second copy is always accounted for by a crash, a lost answer or an
\* outlived lease.
THEOREM NoDuplicate == Spec => []NoUnexplainedDuplicate
<1>1. Init => SenderInv
  BY DEF Init, SenderInv, SoleSender, Sending, InFlight, Pending
<1>2. SenderInv /\ TypeOK => NoUnexplainedDuplicate
  BY DEF SenderInv, SoleSender, NoUnexplainedDuplicate, TypeOK
<1>3. QED
  BY <1>1, <1>2, TypeCorrect, SenderStep, PTL DEF Spec
-----------------------------------------------------------------------------
(* The outbox keeps its promise. *)

\* What a step may do to the promise: a row is handed over, a copy is shown,
\* a shown row is acknowledged, rows are given up, or nothing changes.
LEMMA PromiseStep ==
  TypeOK /\ SenderInv /\ [Next]_vars => [Promise!Next]_Promise!vars
<1> SUFFICES ASSUME TypeOK, SenderInv, [Next]_vars
             PROVE  Promise!Next \/ UNCHANGED Promise!vars
  BY DEF Promise!vars
<1> DEFINE debt == [n \in Notes |-> Debt(n)]
           shown == [n \in Notes |-> copies[n] > 0]
<1>1. ASSUME UNCHANGED copies, \A n \in Notes : Debt(n)' = Debt(n)
      PROVE  UNCHANGED Promise!vars
  BY <1>1 DEF Promise!vars
<1>2. ASSUME UNCHANGED <<status, copies>> PROVE UNCHANGED Promise!vars
  BY <1>1, <1>2 DEF Debt
<1>3. ASSUME NEW n \in Notes, Enqueue(n) PROVE Promise!Owe(n)
  <2>1. Debt(n) = "none" /\ Debt(n)' = "owed"
    BY <1>3 DEF Enqueue, Debt, TypeOK
  <2>2. \A m \in Notes \ {n} : Debt(m)' = Debt(m)
    BY <1>3 DEF Enqueue, Debt, TypeOK
  <2>3. debt' = [debt EXCEPT ![n] = "owed"]
    BY <2>1, <2>2
  <2>4. UNCHANGED shown
    BY <1>3 DEF Enqueue, history
  <2>5. QED
    BY <2>1, <2>3, <2>4 DEF Promise!Owe
<1>4. ASSUME NEW S \in SUBSET Notes, Delete(S) PROVE Promise!Cancel(S)
  <2>1. \A n \in S : Debt(n) \in {"owed", "settled"} /\ Debt(n)' = "cancelled"
    BY <1>4 DEF Delete, Debt
  <2>2. \A m \in Notes \ S : Debt(m)' = Debt(m)
    BY <1>4 DEF Delete, Debt
  <2>3. debt' = [n \in Notes |-> IF n \in S THEN "cancelled" ELSE debt[n]]
    BY <2>1, <2>2
  <2>4. UNCHANGED shown
    BY <1>4 DEF Delete
  <2>5. QED
    BY <2>1, <2>3, <2>4 DEF Promise!Cancel
<1>5. ASSUME NEW q \in Queues, EndPass(q) PROVE UNCHANGED Promise!vars
  <2>1. \A n \in Notes : Debt(n)' = Debt(n)
    BY <1>5 DEF EndPass, Debt, TypeOK
  <2>2. QED
    BY <1>1, <1>5, <2>1 DEF EndPass, history
<1>6. ASSUME NEW q \in Queues, Accept(q) PROVE Promise!Next
  <2>0. PICK n \in Notes : n = job[q].note
    BY <1>6, ConstantsAssumption DEF Accept, TypeOK, Job, InFlight
  <2>1. q \in Sending(n)
    BY <1>6, <2>0 DEF Accept, InFlight, Sending
  <2>2. Debt(n) # "none"
    BY <2>1 DEF SenderInv, Debt, TypeOK
  <2>3. copies' = [copies EXCEPT ![n] = Smaller(copies[n] + 1, 2)] /\ UNCHANGED status
    BY <1>6, <2>0 DEF Accept, table
  <2>4. shown' = [shown EXCEPT ![n] = TRUE]
    <3>1. copies'[n] > 0
      BY <2>3 DEF TypeOK, Smaller
    <3>2. (copies'[n] > 0) = TRUE
      BY <3>1
    <3>3. \A m \in Notes \ {n} : copies'[m] = copies[m]
      BY <2>3 DEF TypeOK
    <3>4. \A m \in Notes : (copies'[m] > 0) = [shown EXCEPT ![n] = TRUE][m]
      BY <3>2, <3>3
    <3>5. QED
      BY <3>4
  <2>5. UNCHANGED debt
    BY <2>3 DEF Debt
  <2>6. Promise!Show(n)
    BY <2>1, <2>2, <2>4, <2>5 DEF Promise!Show
  <2>7. QED
    BY <2>1, <2>6 DEF Promise!Next
<1>7. ASSUME NEW q \in Queues, Delivered(q)
      PROVE  Promise!Next \/ UNCHANGED Promise!vars
  <2>0. PICK n \in Notes : n = job[q].note
    BY <1>7, ConstantsAssumption DEF Delivered, TypeOK, Job, InFlight
  <2>1. copies[n] > 0
    BY <1>7, <2>0 DEF Delivered, SenderInv
  <2>2. CASE ~Holds(q, n)
    BY <1>2, <1>7, <2>0, <2>2 DEF Delivered, table
  <2>3. CASE Holds(q, n)
    <3>1. status' = [status EXCEPT ![n] = "delivered"] /\ UNCHANGED copies
      BY <1>7, <2>0, <2>3 DEF Delivered
    <3>2. Debt(n) = "owed" /\ Debt(n)' = "settled"
      BY <2>1, <2>3, <3>1 DEF Debt, Holds, Pending, TypeOK
    <3>3. \A m \in Notes \ {n} : Debt(m)' = Debt(m)
      BY <2>1, <3>1 DEF Debt, TypeOK
    <3>4. debt' = [debt EXCEPT ![n] = "settled"]
      BY <2>1, <3>2, <3>3
    <3>5. Promise!Settle(n)
      BY <2>1, <3>1, <3>2, <3>4 DEF Promise!Settle
    <3>6. QED
      BY <2>1, <3>5 DEF Promise!Next
  <2>4. QED
    BY <2>2, <2>3
<1>8. ASSUME NEW q \in Queues, MethodFailed(q) PROVE UNCHANGED <<status, copies>>
  BY <1>8 DEF MethodFailed, RecordFailure, table
<1>9. ASSUME NEW q \in Queues, Refused(q) \/ RateLimited(q) \/ AnswerLost(q)
      PROVE  UNCHANGED <<status, copies>>
  BY <1>8, <1>9 DEF Refused, RateLimited, AnswerLost, RecordFailure
<1>10. ASSUME NEW q \in Queues,
              Start(q) \/ Wake(q) \/ Stop(q) \/ Exit(q) \/ Crash(q)
       PROVE  UNCHANGED <<status, copies>>
  BY <1>10 DEF Start, Wake, Stop, Exit, Crash, table, history
<1>11. ASSUME NEW q \in Queues, NEW n \in Notes, Claim(q, n) \/ ClaimUnlinked(q, n)
       PROVE  UNCHANGED <<status, copies>>
  BY <1>11 DEF Claim, ClaimUnlinked
<1>12. ASSUME NEW u \in Users, SetDisabled(u) \/ SetLinked(u)
       PROVE  UNCHANGED <<status, copies>>
  BY <1>12 DEF SetDisabled, SetLinked, table, history
<1>13. ASSUME Tick PROVE UNCHANGED <<status, copies>>
  BY <1>13 DEF Tick
<1>14. CASE UNCHANGED vars
  BY <1>2, <1>14 DEF vars, table, history
<1>15. QED
  BY <1>2, <1>3, <1>4, <1>5, <1>6, <1>7, <1>9, <1>10, <1>11, <1>12, <1>13, <1>14
  DEF Next, Environment, Process, Send, Promise!Next

\* The table with its leases, retries and crashes implements the promise that
\* no notification is lost or acknowledged unseen.
THEOREM KeepsPromise == Spec => OutboxPromise
<1>1. Init => Promise!Init
  <2> SUFFICES ASSUME Init PROVE Promise!Init
    OBVIOUS
  <2>1. \A n \in Notes : Debt(n) = "none" /\ (copies[n] > 0) = FALSE
    BY DEF Init, Debt
  <2>2. QED
    BY <2>1 DEF Promise!Init
<1>2. Init => SenderInv
  BY DEF Init, SenderInv, SoleSender, Sending, InFlight, Pending
<1>3. QED
  BY <1>1, <1>2, TypeCorrect, SenderStep, PromiseStep, PTL
  DEF Spec, OutboxPromise, Promise!Spec
-----------------------------------------------------------------------------
(* A rate limit defers what was waiting. *)

\* The steps that leave times alone and start no sender of a waiting row.
LEMMA DeferralFrame ==
  ASSUME DeferralInv, UNCHANGED deferral,
         \A n \in Notes : deferral[n] > 0 => status'[n] = status[n] /\ due'[n] = due[n],
         \A q \in Queues : InFlight(q)' => \/ InFlight(q) /\ job'[q].note = job[q].note
                                          \/ deferral[job'[q].note] = 0
  PROVE  DeferralInv'
<1>1. \A n \in Notes : deferral[n] > 0 => Sending(n)' \subseteq Sending(n)
  BY DEF Sending
<1>2. QED
  BY <1>1 DEF DeferralInv, Pending

\* The catch block: the rows it defers have no other sender and are not due
\* before the limit is over; neither are those that were deferred already.
LEMMA DeferralFailure ==
  ASSUME TypeOK, DeferralInv, NEW q \in Queues, NEW r \in Nat, InFlight(q),
         RecordFailure(q, r)
  PROVE  DeferralInv'
<1>1. PICK n \in Notes : n = job[q].note
  BY ConstantsAssumption DEF TypeOK, Job
<1>2. PICK delay \in Nat : delay = Larger(Backoff(job[q].tries), r)
  BY BackoffNat DEF TypeOK, Job, Larger
<1>3. delay >= r
  BY <1>2, BackoffNat DEF TypeOK, Job, Larger
<1>4. q \in Sending(n) /\ ~(deferral[n] > 0)
  BY <1>1 DEF Sending, DeferralInv
<1>5. \A m \in Notes : Sending(m)' = Sending(m) \ {q}
  BY DEF RecordFailure, Release, Sending, InFlight, TypeOK
<1>6. UNCHANGED status
  BY DEF RecordFailure
<1>7. ASSUME NEW m \in Notes, deferral'[m] > 0
      PROVE  (Pending(m) /\ due[m] >= deferral[m] /\ Sending(m) = {} /\ due'[m] \in Int
                /\ due'[m] >= deferral'[m])
             \/ (Pending(m) /\ due'[m] >= deferral'[m] /\ Sending(m) \subseteq {q})
  <2> DEFINE own == IF Holds(q, n) THEN [due EXCEPT ![n] = delay] ELSE due
  <2>1. due' = [k \in Notes |-> IF r > 0 /\ k \in Limited(n)
                                THEN Larger(own[k], delay) ELSE own[k]]
    BY <1>1, <1>2 DEF RecordFailure
  <2>2. own[m] \in Int /\ (m # n => own[m] = due[m])
    BY <1>2 DEF TypeOK
  <2>3. due'[m] = IF r > 0 /\ m \in Limited(n) THEN Larger(own[m], delay) ELSE own[m]
    BY <2>1
  <2> HIDE DEF own
  <2>4. CASE r > 0 /\ Owner[m] = Owner[n] /\ Pending(m) /\ Sending(m) \subseteq {q}
    <3>1. deferral'[m] = Larger(deferral[m], r)
      BY <1>1, <2>4 DEF RecordFailure
    <3>2. due'[m] = Larger(own[m], delay)
      BY <2>3, <2>4 DEF Limited, NotesOf
    <3>3. deferral[m] <= own[m] \/ deferral[m] = 0
      BY <1>4, <2>2 DEF DeferralInv, TypeOK
    <3>4. QED
      BY <1>2, <1>3, <2>2, <2>4, <3>1, <3>2, <3>3 DEF Larger, TypeOK
  <2>5. CASE ~(r > 0 /\ Owner[m] = Owner[n] /\ Pending(m) /\ Sending(m) \subseteq {q})
    <3>1. deferral'[m] = deferral[m]
      BY <1>1, <2>5 DEF RecordFailure
    <3>2. m # n /\ Pending(m) /\ due[m] >= deferral[m] /\ Sending(m) = {}
      BY <1>4, <1>7, <3>1 DEF DeferralInv
    <3>3. due'[m] >= due[m]
      BY <1>2, <2>2, <2>3, <3>2 DEF Larger, TypeOK
    <3>4. QED
      BY <2>2, <2>3, <1>2, <3>1, <3>2, <3>3 DEF Larger, TypeOK
  <2>6. QED
    BY <2>4, <2>5
<1>8. QED
  BY <1>5, <1>6, <1>7 DEF DeferralInv, Pending

LEMMA DeferralStep == TypeOK /\ DeferralInv /\ [Next]_vars => DeferralInv'
<1> SUFFICES ASSUME TypeOK, DeferralInv, [Next]_vars PROVE DeferralInv'
  OBVIOUS
<1>1. ASSUME NEW n \in Notes, Enqueue(n) PROVE DeferralInv'
  <2>1. ~(deferral[n] > 0)
    BY <1>1 DEF Enqueue, DeferralInv, Pending
  <2>2. QED
    BY <1>1, <2>1, DeferralFrame DEF Enqueue, local, history, InFlight, TypeOK
<1>2. ASSUME NEW S \in SUBSET Notes, Delete(S) PROVE DeferralInv'
  <2>1. \A n \in Notes : Sending(n)' = Sending(n)
    BY <1>2 DEF Delete, local, Sending, InFlight
  <2>2. QED
    BY <1>2, <2>1 DEF Delete, DeferralInv, Pending
<1>3. ASSUME NEW u \in Users, SetDisabled(u) \/ SetLinked(u) PROVE DeferralInv'
  BY <1>3, DeferralFrame DEF SetDisabled, SetLinked, table, local, history, InFlight
<1>4. ASSUME Tick PROVE DeferralInv'
  <2>1. \A n \in Notes : Sending(n)' = Sending(n)
    BY <1>4 DEF Tick, local, Sending, InFlight
  <2>2. ASSUME NEW n \in Notes, deferral'[n] > 0
        PROVE  Pending(n)' /\ due'[n] >= deferral'[n] /\ Sending(n)' = {}
    <3>1. deferral'[n] = Larger(deferral[n] - 1, 0) /\ deferral[n] \in Nat
      BY <1>4 DEF Tick, TypeOK
    <3>2. deferral[n] > 0 /\ deferral'[n] = deferral[n] - 1
      BY <2>2, <3>1 DEF Larger
    <3>3. Pending(n) /\ due[n] >= deferral[n] /\ Sending(n) = {}
      BY <3>2 DEF DeferralInv
    <3>4. due'[n] = Larger(due[n] - 1, -Overdue) /\ due[n] \in Int
      BY <1>4, <3>3 DEF Tick, TypeOK
    <3>5. due'[n] >= deferral'[n]
      BY <3>1, <3>2, <3>3, <3>4, ConstantsAssumption DEF Larger
    <3>6. QED
      BY <1>4, <2>1, <3>3, <3>5 DEF Tick, Pending
  <2>3. QED
    BY <2>2 DEF DeferralInv
<1>5. ASSUME NEW q \in Queues, Start(q) \/ Wake(q) \/ Stop(q) \/ Exit(q) \/ Crash(q)
      PROVE  DeferralInv'
  BY <1>5, DeferralFrame
  DEF Start, Wake, Stop, Exit, Crash, table, history, InFlight, TypeOK
<1>6. ASSUME NEW q \in Queues, EndPass(q) PROVE DeferralInv'
  <2>1. \A n \in Notes : Pending(n) => status'[n] = status[n]
    BY <1>6 DEF EndPass, Pending
  <2>2. QED
    BY <1>6, <2>1, DeferralFrame DEF EndPass, history, InFlight, DeferralInv, TypeOK
<1>7. ASSUME NEW q \in Queues, NEW n \in Notes, Claim(q, n) PROVE DeferralInv'
  <2>1. deferral[n] = 0
    BY <1>7 DEF Claim, IsNext, Claimable, DeferralInv, TypeOK
  <2>2. /\ UNCHANGED <<status, due, deferral>>
        /\ job'[q].note = n
        /\ \A p \in Queues \ {q} : pc'[p] = pc[p] /\ job'[p] = job[p]
    BY <1>7 DEF Claim, TypeOK
  <2>3. QED
    BY <2>1, <2>2, DeferralFrame DEF InFlight
<1>8. ASSUME NEW q \in Queues, NEW n \in Notes, ClaimUnlinked(q, n) PROVE DeferralInv'
  <2>1. deferral[n] = 0
    BY <1>8 DEF ClaimUnlinked, IsNext, Claimable, DeferralInv, TypeOK
  <2>2. QED
    BY <1>8, <2>1, DeferralFrame DEF ClaimUnlinked, InFlight, TypeOK
<1>9. ASSUME NEW q \in Queues, Accept(q) PROVE DeferralInv'
  BY <1>9, DeferralFrame DEF Accept, table, InFlight, TypeOK
<1>10. ASSUME NEW q \in Queues, Delivered(q) PROVE DeferralInv'
  <2>1. PICK n \in Notes : n = job[q].note
    BY <1>10, ConstantsAssumption DEF Delivered, InFlight, TypeOK, Job
  <2>2. \A m \in Notes : Sending(m)' \subseteq Sending(m)
    BY <1>10 DEF Delivered, Release, Sending, InFlight, TypeOK
  <2>3. \A m \in Notes \ {n} :
          status'[m] = status[m] /\ due'[m] = due[m] /\ deferral'[m] = deferral[m]
    BY <1>10, <2>1 DEF Delivered, table, TypeOK
  <2>4. ~(deferral'[n] > 0)
    BY <1>10, <2>1 DEF Delivered, InFlight, Sending, DeferralInv, TypeOK
  <2>5. QED
    BY <2>2, <2>3, <2>4 DEF DeferralInv, Pending
<1>11. ASSUME NEW q \in Queues, InFlight(q), MethodFailed(q) PROVE DeferralInv'
  <2>1. CASE job[q].methods > 0
    <3>1. job[q] \in Job
      BY <1>11, ConstantsAssumption DEF TypeOK
    <3>2. \A p \in Queues : job'[p].note = job[p].note
      BY <1>11, <2>1, <3>1 DEF MethodFailed, TypeOK, Job
    <3>3. QED
      BY <1>11, <2>1, <3>2, DeferralFrame DEF MethodFailed, table, InFlight, TypeOK
  <2>2. CASE ~(job[q].methods > 0)
    BY <1>11, <2>2, DeferralFailure DEF MethodFailed
  <2>3. QED
    BY <2>1, <2>2
<1>12. ASSUME NEW q \in Queues, Refused(q) \/ AnswerLost(q) PROVE DeferralInv'
  BY <1>11, <1>12 DEF Refused, AnswerLost, InFlight
<1>13. ASSUME NEW q \in Queues, RateLimited(q) PROVE DeferralInv'
  <2>1. PICK r \in RetryAfters : RecordFailure(q, r)
    BY <1>13 DEF RateLimited
  <2>2. r \in Nat
    BY ConstantsAssumption
  <2>3. QED
    BY <1>13, <2>1, <2>2, DeferralFailure DEF RateLimited, InFlight
<1>14. CASE UNCHANGED vars
  BY <1>14, DeferralFrame DEF vars, table, local, history, InFlight
<1>15. QED
  BY <1>1, <1>2, <1>3, <1>4, <1>5, <1>6, <1>7, <1>8, <1>9, <1>10, <1>12, <1>13,
     <1>14
  DEF Next, Environment, Process, Send

\* What was waiting when a rate limit was announced waits until it is over.
THEOREM LimitDefers == Spec => []RateLimitDefers
<1>1. Init => DeferralInv
  BY DEF Init, DeferralInv
<1>2. DeferralInv => RateLimitDefers
  BY DEF DeferralInv, RateLimitDefers
<1>3. QED
  BY <1>1, <1>2, TypeCorrect, DeferralStep, PTL DEF Spec
=============================================================================
