------------------------- MODULE SchedulerRunProofs -------------------------
(***************************************************************************)
(* The safety of SchedulerRun, for any number of rules, trackers, edits,   *)
(* requests and starts of the process.                                     *)
(***************************************************************************)
EXTENDS SchedulerRun, FiniteSetTheorems, TLAPS

\* Only a full run has direct checks to make.
Scoped(run) == run.scope # None => run.direct = "behind"

\* There is no run, or one, which is the current one.
RunInv ==
  \/ current = None /\ runs = {}
  \/ \E run \in Runs : runs = {run} /\ current = run.id /\ Scoped(run)

\* What the types need of the bounds: a timer and a version of a rule are of
\* edits, those of the direct subscription come from requests that waited.
CountInv ==
  /\ handlers <= edits
  /\ timers[Direct] + handlers <= edits
  /\ \A r \in Rules : timers[r] <= edits /\ version[r] <= edits

\* Callers wait for a run and for a check there is, and for a pass.
WaitInv ==
  /\ waiting # <<>> => current # None
  /\ joined > 0 => check # None
  /\ "drain" \in after => pass

Unarmed == timers = NoTimers /\ ~startup /\ ~interval

NoCallers == current = None /\ waiting = <<>> /\ resuming = <<>>

\* What is over at each stage of a shutdown.
StopInv ==
  /\ life # "up" => Unarmed
  /\ life = "up" => interval
  /\ quiet => Stopping
  /\ stopAt # None => life = "stopping"
  /\ stopAt = "pass" \/ life = "closed" => quiet /\ NoCallers /\ check = None
  /\ life = "closed" \/ life = "down" => check = None /\ after = {} /\ ~pass
  /\ life = "down" => NoCallers /\ handlers = 0

RowInv == life = "up" /\ current = None => row = [running |-> FALSE, next |-> TRUE]

IInv == TypeOK /\ RunInv /\ CountInv /\ WaitInv /\ StopInv /\ RowInv

(***************************************************************************)
(* What the operators return.                                              *)
(***************************************************************************)

LEMMA NewRunTyped ==
  ASSUME IInv, current = None, NEW scope \in Rules \cup {None}
  PROVE  NewRun(scope) \in Runs /\ Scoped(NewRun(scope))
  <1>1. runs = {}
    BY SchedulerAssumption DEF IInv, RunInv, Runs
  <1>2. FreeId \in 1..2
    BY <1>1 DEF FreeId
  <1>3. \A r \in Rules : version[r] \in 0..MaxEdits
    BY DEF IInv, TypeOK
  <1> QED BY <1>2, <1>3 DEF NewRun, Runs, Scoped

LEMMA OutdatedRuns ==
  ASSUME TypeOK, RunInv
  PROVE  /\ Outdated(runs) \subseteq Runs
         /\ \/ current = None /\ Outdated(runs) = {}
            \/ \E run \in Runs : Outdated(runs) = {run} /\ current = run.id /\ Scoped(run)
  <1>1. CASE runs = {} /\ current = None
    BY <1>1 DEF Outdated
  <1>2. ASSUME NEW run \in Runs, runs = {run}, current = run.id, Scoped(run)
        PROVE  \E new \in Runs : Outdated(runs) = {new} /\ current = new.id /\ Scoped(new)
    <2>1. Outdated(runs) = {[run EXCEPT !.next = FALSE]}
      BY <1>2 DEF Outdated
    <2>2. /\ [run EXCEPT !.next = FALSE] \in Runs /\ [run EXCEPT !.next = FALSE].id = current
          /\ Scoped([run EXCEPT !.next = FALSE])
      BY <1>2 DEF Runs, Scoped
    <2> QED BY <2>1, <2>2
  <1>3. (runs = {} /\ current = None) \/ \E new \in Runs : Outdated(runs) = {new} /\ current = new.id /\ Scoped(new)
    BY <1>2 DEF RunInv
  <1> QED BY <1>1, <1>3

\* A run may have begun; none has ended.
Moved ==
  /\ runs' \subseteq Runs
  /\ current' \in 1..2 \cup {None}
  /\ row' \in [running : BOOLEAN, next : BOOLEAN]
  /\ RunInv'
  /\ current # None => current' # None
  /\ current # None \/ Stopping => current' = current
  /\ current' = None => row' = row \/ row' = [running |-> FALSE, next |-> TRUE]

LEMMA BeginMoves ==
  ASSUME IInv, current = None, ~Stopping, NEW scope \in Rules \cup {None}, Begin(scope, {})
  PROVE  Moved
  <1> DEFINE run == NewRun(scope)
  <1>1. run \in Runs /\ Scoped(run)
    BY NewRunTyped
  <1>2. runs' = {run} /\ current' = run.id /\ row' = [running |-> TRUE, next |-> TRUE]
    BY DEF Begin
  <1>3. run.id \in 1..2
    BY <1>1 DEF Runs
  <1>4. run.id # None
    BY <1>3, SchedulerAssumption
  <1> HIDE DEF run
  <1> QED BY <1>1, <1>2, <1>3, <1>4 DEF Moved, RunInv

LEMMA NoRuns == ASSUME IInv, current = None PROVE runs = {} /\ Outdated(runs) = {}
  BY SchedulerAssumption DEF IInv, RunInv, Runs, Outdated

LEMMA StillMoves ==
  ASSUME IInv, UNCHANGED <<runs, current, row>> PROVE Moved
  BY DEF IInv, TypeOK, RunInv, Moved

LEMMA FullMoves ==
  ASSUME IInv, NEW told \in BOOLEAN, Full(runs, told) \/ Full(Outdated(runs), told)
  PROVE  Moved
  <1>1. CASE Stopping
    BY <1>1, StillMoves DEF Full
  <1>2. CASE ~Stopping /\ current # None
    <2>1. (runs' = runs \/ runs' = Outdated(runs)) /\ row' = [row EXCEPT !.next = told] /\ current' = current
      BY <1>2 DEF Full
    <2>2. row' \in [running : BOOLEAN, next : BOOLEAN]
      BY <2>1 DEF IInv, TypeOK
    <2>3. runs' \subseteq Runs /\ RunInv'
      BY <2>1, OutdatedRuns DEF IInv, TypeOK, RunInv
    <2> QED BY <1>2, <2>1, <2>2, <2>3 DEF IInv, TypeOK, Moved
  <1>3. CASE ~Stopping /\ current = None
    <2>1. Begin(None, {})
      BY <1>3, NoRuns DEF Full
    <2> QED BY <1>3, <2>1, BeginMoves
  <1> QED BY <1>1, <1>2, <1>3

\* A targeted check begins a run or waits for one.
LEMMA TargetedMoves ==
  ASSUME IInv, NEW s \in Rules, Targeted(s) \/ Again(s)
  PROVE  /\ Moved
         /\ waiting' \in Seq(Rules)
         /\ waiting' # waiting => current # None
  <1>1. CASE current # None
    <2>1. UNCHANGED <<runs, current, row>> /\ (waiting' = waiting \/ waiting' = Append(waiting, s))
      BY <1>1 DEF Targeted, Again
    <2>2. waiting \in Seq(Rules)
      BY DEF IInv, TypeOK
    <2>3. waiting' \in Seq(Rules)
      BY <2>1, <2>2
    <2> QED BY <1>1, <2>1, <2>3, StillMoves
  <1>2. CASE current = None /\ Stopping
    BY <1>2, StillMoves DEF Targeted, Again, IInv, TypeOK
  <1>3. CASE current = None /\ ~Stopping
    <2>1. Begin(s, {}) /\ waiting' = waiting
      BY <1>3, NoRuns DEF Targeted, Again
    <2> QED BY <1>3, <2>1, BeginMoves DEF IInv, TypeOK
  <1> QED BY <1>1, <1>2, <1>3

\* Users begin or join a check, unless the scheduler stops.
CheckRises ==
  /\ check' \in {check, "user"} /\ joined' \in Nat /\ after' = after
  /\ check # None => check' = check
  /\ joined' > 0 => check' # None
  /\ check' # check \/ joined' # joined => ~Stopping

LEMMA CheckStays == ASSUME IInv, UNCHANGED direct PROVE CheckRises
  BY DEF IInv, TypeOK, WaitInv, direct, CheckRises

LEMMA CheckMoves ==
  ASSUME IInv, NEW s \in Subscriptions, CheckSubscription(s)
  PROVE  /\ Moved
         /\ waiting' \in Seq(Rules)
         /\ waiting' # waiting => current # None
         /\ CheckRises
  <1>1. CASE s = Direct
    <2>1. DirectCheck /\ UNCHANGED <<runs, current, waiting, row>>
      BY <1>1 DEF CheckSubscription
    <2>2. CheckRises
      BY <2>1, SchedulerAssumption DEF DirectCheck, CheckRises, IInv, TypeOK, WaitInv
    <2> QED BY <2>1, <2>2, StillMoves DEF IInv, TypeOK
  <1>2. CASE s # Direct
    <2>1. Targeted(s) /\ UNCHANGED direct
      BY <1>2 DEF CheckSubscription
    <2> QED BY <1>2, <2>1, TargetedMoves, CheckStays DEF Subscriptions
  <1> QED BY <1>1, <1>2

(***************************************************************************)
(* Two kinds of steps.  A step that starts something in a process: runs,   *)
(* callers, checks and timers.                                             *)
(***************************************************************************)
Serving ==
  /\ life # "down"
  /\ Moved
  /\ UNCHANGED <<life, stopAt, interval, pass, quiet, checked, restarts>>
  /\ startup' \in BOOLEAN /\ (startup' => startup)
  /\ waiting' \in Seq(Rules) /\ (waiting' # <<>> /\ waiting' # waiting => current' # None)
  /\ resuming' \in Seq(Rules) /\ (resuming = <<>> => resuming' = <<>>)
  /\ CheckRises
  /\ fresh' \subseteq Rules
  /\ edits' \in 0..MaxEdits /\ edits <= edits' /\ requests' \in 0..MaxRequests
  /\ handlers' \in Nat
  /\ timers' \in [Subscriptions -> Nat] /\ version' \in [Rules -> Nat]
  /\ CountInv'
  /\ life # "up" => timers' = timers

LEMMA ServingKeeps == ASSUME IInv, Serving PROVE IInv'
  <1>1. TypeOK'
    <2>1. timers' \in [Subscriptions -> 0..(MaxEdits + MaxRequests)] /\ handlers' \in 0..MaxEdits
      BY SchedulerAssumption DEF Serving, CountInv, Subscriptions
    <2>2. version' \in [Rules -> 0..MaxEdits]
      BY SchedulerAssumption DEF Serving, CountInv
    <2>3. check' \in {"user", "lane", None} /\ joined' \in Nat /\ after' \subseteq {"drain", "end"}
      BY DEF Serving, CheckRises, IInv, TypeOK
    <2> QED BY <2>1, <2>2, <2>3 DEF Serving, Moved, IInv, TypeOK
  <1>2. WaitInv'
    BY DEF Serving, CheckRises, Moved, IInv, WaitInv
  <1>3. StopInv'
    BY DEF Serving, CheckRises, Moved, IInv, StopInv, Stopping, Unarmed, NoCallers, TypeOK
  <1>4. RowInv'
    BY DEF Serving, Moved, IInv, RowInv, StopInv
  <1> QED BY <1>1, <1>2, <1>3, <1>4 DEF IInv, Serving, Moved

LEMMA PollsServe ==
  ASSUME IInv, StartupFires \/ IntervalFires \/ Poll
  PROVE  Serving
  <1>1. CASE StartupFires
    <2>1. Moved
      BY <1>1, FullMoves DEF StartupFires, IInv, TypeOK
    <2>2. startup /\ life = "up"
      BY <1>1 DEF StartupFires, IInv, StopInv, Unarmed
    <2>3. UNCHANGED <<life, stopAt, interval, timers, handlers, calls, direct, queue, rules, bounds>>
      BY <1>1 DEF StartupFires
    <2>4. startup' \in BOOLEAN /\ (startup' => startup)
      BY <1>1, <2>2, Zenon DEF StartupFires
    <2> QED BY <2>1, <2>2, <2>3, <2>4, CheckStays DEF calls, rules, queue, bounds, Serving, IInv, TypeOK, CountInv
  <1>2. CASE IntervalFires
    <2>1. Moved
      BY <1>2, FullMoves DEF IntervalFires
    <2>2. life = "up"
      BY <1>2 DEF IntervalFires, IInv, StopInv, Unarmed
    <2> QED BY <1>2, <2>1, <2>2, CheckStays DEF IntervalFires, control, calls, rules, queue, bounds, Serving, IInv, TypeOK, CountInv
  <1>3. CASE Poll
    <2>1. Moved
      BY <1>3, FullMoves DEF Poll, IInv, TypeOK
    <2>2. life # "down" /\ requests' \in 0..MaxRequests
      BY <1>3, SchedulerAssumption DEF Poll, Request, IInv, TypeOK
    <2> QED BY <1>3, <2>1, <2>2, CheckStays DEF Poll, control, rules, queue, Serving, IInv, TypeOK, CountInv
  <1> QED BY <1>1, <1>2, <1>3

LEMMA IntervalServes == ASSUME IInv, SetPollInterval PROVE Serving
  <1>1. Moved
    <2>1. runs' \subseteq Runs /\ RunInv'
      BY OutdatedRuns DEF SetPollInterval, IInv, RunInv
    <2>2. row' \in [running : BOOLEAN, next : BOOLEAN]
      BY DEF SetPollInterval
    <2>3. current' = None => row' = [running |-> FALSE, next |-> TRUE]
      BY DEF SetPollInterval
    <2> QED BY <2>1, <2>2, <2>3 DEF SetPollInterval, Moved, IInv, TypeOK
  <1>2. requests' \in 0..MaxRequests
    BY SchedulerAssumption DEF SetPollInterval, Request, IInv, TypeOK
  <1> QED BY <1>1, <1>2, CheckStays DEF SetPollInterval, control, calls, rules, queue, Serving, IInv, TypeOK, CountInv

LEMMA ChecksServe ==
  ASSUME IInv, NEW s \in Subscriptions, CheckNow(s) \/ TimerFires(s)
  PROVE  Serving
  <1>1. /\ Moved
        /\ waiting' \in Seq(Rules) /\ (waiting' # waiting => current # None)
        /\ CheckRises
    BY CheckMoves DEF CheckNow, TimerFires
  <1>2. CASE CheckNow(s)
    <2>1. life # "down" /\ requests' \in 0..MaxRequests
      BY <1>2, SchedulerAssumption DEF CheckNow, Request, IInv, TypeOK
    <2> QED BY <1>1, <1>2, <2>1 DEF CheckNow, control, rules, queue, Serving, Moved, IInv, TypeOK, CountInv
  <1>3. CASE TimerFires(s)
    <2>1. life = "up"
      <3>1. s \in Subscriptions /\ timers[s] > 0
        BY <1>3 DEF TimerFires
      <3>2. timers # NoTimers
        BY <3>1 DEF NoTimers
      <3> QED BY <3>2 DEF IInv, StopInv, Unarmed
    <2>2. /\ timers' \in [Subscriptions -> Nat]
          /\ \A x \in Subscriptions : timers'[x] <= timers[x]
      BY <1>3 DEF TimerFires, IInv, TypeOK
    <2>3. CountInv'
      BY <1>3, <2>2 DEF TimerFires, rules, bounds, IInv, TypeOK, CountInv, Subscriptions
    <2> QED BY <1>1, <1>3, <2>1, <2>2, <2>3 DEF TimerFires, control, rules, queue, bounds, Serving, Moved, IInv, TypeOK
  <1> QED BY <1>2, <1>3

LEMMA QueueServes ==
  ASSUME IInv, NEW s \in Subscriptions, QueueSubscriptionCheck(s)
  PROVE  /\ timers' \in [Subscriptions -> Nat]
         /\ timers'[s] <= timers[s] + 1
         /\ \A x \in Subscriptions \ {s} : timers'[x] = timers[x]
         /\ life \notin {"up", "down"} => timers' = timers
  BY DEF QueueSubscriptionCheck, IInv, TypeOK, Stopping

LEMMA EditsServe ==
  ASSUME IInv, (\E r \in Rules : EditRule(r)) \/ EditDirect \/ ArtworkRemoved
  PROVE  Serving
  <1>1. Moved
    BY StillMoves DEF EditRule, EditDirect, ArtworkRemoved
  <1>2. ASSUME NEW r \in Rules, EditRule(r) PROVE Serving
    <2>1. life # "down" /\ edits' = edits + 1 /\ edits' \in 0..MaxEdits
      BY <1>2, SchedulerAssumption DEF EditRule, EditAllowed, IInv, TypeOK
    <2>2. /\ timers' \in [Subscriptions -> Nat]
          /\ timers'[r] <= timers[r] + 1
          /\ \A x \in Subscriptions \ {r} : timers'[x] = timers[x]
          /\ life \notin {"up", "down"} => timers' = timers
      BY <1>2, QueueServes DEF EditRule, Subscriptions
    <2>3. version' \in [Rules -> Nat] /\ \A x \in Rules : version'[x] <= version[x] + 1
      BY <1>2 DEF EditRule, IInv, TypeOK
    <2>4. CountInv'
      <3>1. timers \in [Subscriptions -> Nat] /\ version \in [Rules -> Nat] /\ edits \in Nat /\ handlers \in Nat
        BY DEF IInv, TypeOK
      <3>2. \A x \in Rules : timers'[x] <= timers[x] + 1
        BY <2>2, <3>1 DEF Subscriptions
      <3>3. timers'[Direct] = timers[Direct] /\ handlers' = handlers
        BY <1>2, <2>2, SchedulerAssumption DEF EditRule, Subscriptions
      <3> QED BY <2>1, <2>2, <2>3, <3>1, <3>2, <3>3 DEF IInv, CountInv, Subscriptions
    <2>5. fresh' \subseteq Rules
      BY <1>2 DEF EditRule, IInv, TypeOK
    <2> QED BY <1>1, <1>2, <2>1, <2>2, <2>3, <2>4, <2>5, CheckStays
            DEF EditRule, control, calls, queue, Serving, Moved, IInv, TypeOK
  <1>3. CASE EditDirect
    <2>1. life # "down" /\ edits' = edits + 1 /\ edits' \in 0..MaxEdits
      BY <1>3, SchedulerAssumption DEF EditDirect, EditAllowed, IInv, TypeOK
    <2>2. CountInv'
      BY <1>3, <2>1 DEF EditDirect, rules, IInv, TypeOK, CountInv, Subscriptions
    <2> QED BY <1>1, <1>3, <2>1, <2>2, CheckStays DEF EditDirect, control, calls, queue, rules, Serving, Moved, IInv, TypeOK
  <1>4. CASE ArtworkRemoved
    <2>1. handlers > 0 /\ handlers' = handlers - 1
      BY <1>4 DEF ArtworkRemoved
    <2>2. life # "down"
      BY <1>4, <2>1 DEF ArtworkRemoved, IInv, StopInv
    <2>3. /\ timers' \in [Subscriptions -> Nat]
          /\ timers'[Direct] <= timers[Direct] + 1
          /\ \A x \in Subscriptions \ {Direct} : timers'[x] = timers[x]
          /\ life \notin {"up", "down"} => timers' = timers
      BY <1>4, QueueServes DEF ArtworkRemoved, Subscriptions
    <2>4. CountInv'
      <3>1. timers \in [Subscriptions -> Nat] /\ edits \in Nat /\ handlers \in Nat /\ UNCHANGED <<version, edits>>
        BY <1>4 DEF ArtworkRemoved, rules, bounds, IInv, TypeOK
      <3>2. \A x \in Rules : timers'[x] = timers[x]
        BY <2>3, SchedulerAssumption DEF Subscriptions
      <3> QED BY <2>1, <2>3, <3>1, <3>2 DEF IInv, CountInv, Subscriptions
    <2>5. handlers' \in Nat
      BY <2>1 DEF IInv, TypeOK
    <2> QED BY <1>1, <1>4, <2>2, <2>3, <2>4, <2>5, CheckStays
            DEF ArtworkRemoved, control, calls, queue, rules, bounds, Serving, Moved, IInv, TypeOK
  <1> QED BY <1>2, <1>3, <1>4

LEMMA ResumeServes == ASSUME IInv, Resume PROVE Serving
  <1>1. resuming \in Seq(Rules) /\ resuming # <<>> /\ resuming' = Tail(resuming)
    BY DEF Resume, IInv, TypeOK
  <1>2. Head(resuming) \in Rules /\ resuming' \in Seq(Rules)
    BY <1>1
  <1>3. /\ Moved
        /\ waiting' \in Seq(Rules) /\ (waiting' # waiting => current # None)
    BY <1>2, TargetedMoves DEF Resume
  <1>4. life # "down"
    BY <1>1 DEF IInv, StopInv, NoCallers
  <1>5. UNCHANGED <<control, timers, handlers, direct, queue, rules, bounds>>
    BY DEF Resume
  <1>6. CountInv'
    BY <1>5 DEF rules, bounds, IInv, CountInv
  <1>7. /\ startup \in BOOLEAN /\ fresh \subseteq Rules /\ edits \in 0..MaxEdits /\ requests \in 0..MaxRequests
        /\ handlers \in Nat /\ timers \in [Subscriptions -> Nat] /\ version \in [Rules -> Nat]
    BY DEF IInv, TypeOK
  <1>8. waiting' # waiting => current' # None
    BY <1>3 DEF Moved
  <1> QED BY <1>1, <1>2, <1>3, <1>4, <1>5, <1>6, <1>7, <1>8, CheckStays, SchedulerAssumption
          DEF control, queue, rules, bounds, Serving

(***************************************************************************)
(* Steps of the process, of a run and of what it waits for.                *)
(***************************************************************************)

LEMMA StartKeeps == ASSUME IInv, Start PROVE IInv'
  <1>1. TypeOK'
    BY DEF Start, calls, direct, rules, bounds, IInv, TypeOK
  <1>2. RunInv' /\ CountInv'
    BY DEF Start, calls, rules, bounds, IInv, RunInv, CountInv
  <1>3. WaitInv' /\ StopInv' /\ RowInv'
    BY SchedulerAssumption
    DEF Start, calls, direct, IInv, TypeOK, WaitInv, StopInv, RowInv, Unarmed, NoCallers, Stopping
  <1> QED BY <1>1, <1>2, <1>3 DEF IInv

LEMMA StopsKeep ==
  ASSUME IInv, Stop \/ ChecksStopped \/ Closed
  PROVE  IInv'
  <1>1. UNCHANGED <<handlers, runs, current, calls, direct, pass, row, rules, bounds>>
    BY DEF Stop, ChecksStopped, Closed, queue
  <1>2. timers' \in {timers, NoTimers}
    BY DEF Stop, ChecksStopped, Closed
  <1>3. NoTimers \in [Subscriptions -> 0..(MaxEdits + MaxRequests)] /\ \A s \in Subscriptions : NoTimers[s] = 0
    BY SchedulerAssumption DEF NoTimers
  <1>4. TypeOK'
    <2>1. /\ life' \in {"down", "up", "stopping", "closed"} /\ stopAt' \in {"checks", "pass", None}
          /\ startup' \in BOOLEAN /\ interval' \in BOOLEAN /\ quiet' \in BOOLEAN
      BY Zenon DEF Stop, ChecksStopped, Closed, queue, IInv, TypeOK
    <2>2. timers' \in [Subscriptions -> 0..(MaxEdits + MaxRequests)]
      BY <1>2, <1>3 DEF IInv, TypeOK
    <2> QED BY <1>1, <2>1, <2>2 DEF calls, direct, rules, bounds, IInv, TypeOK
  <1>5. RunInv' /\ WaitInv'
    BY <1>1 DEF calls, direct, IInv, RunInv, WaitInv
  <1>6. CountInv'
    BY <1>1, <1>2, <1>3 DEF rules, bounds, IInv, TypeOK, CountInv, Subscriptions
  <1>7. CASE Stop
    <2>1. life = "up" /\ life' = "stopping" /\ stopAt' = "checks" /\ UNCHANGED quiet
      BY <1>7 DEF Stop, queue
    <2>2. Unarmed'
      BY <1>7 DEF Stop, Unarmed, NoTimers
    <2> QED BY <1>4, <1>5, <1>6, <2>1, <2>2, SchedulerAssumption DEF StopInv, RowInv, Stopping, IInv
  <1>8. CASE ChecksStopped
    <2>1. /\ life = "stopping" /\ UNCHANGED <<life, timers, startup, interval>>
          /\ current = None /\ check = None /\ resuming = <<>> /\ quiet'
      BY <1>8, SchedulerAssumption DEF ChecksStopped, Settled, IInv, StopInv
    <2>2. UNCHANGED <<current, check, resuming, waiting>>
      BY <1>1 DEF calls, direct
    <2>3. Unarmed /\ waiting = <<>>
      BY <2>1 DEF IInv, StopInv, WaitInv
    <2>4. StopInv' /\ RowInv'
      BY <2>1, <2>2, <2>3 DEF StopInv, RowInv, Unarmed, NoCallers, Stopping
    <2> QED BY <1>4, <1>5, <1>6, <2>4 DEF IInv
  <1>9. CASE Closed
    BY <1>1, <1>9, SchedulerAssumption
    DEF Closed, calls, direct, queue, IInv, TypeOK, StopInv, WaitInv, RowInv, Unarmed, NoCallers, Stopping, Settled
  <1> QED BY <1>4, <1>5, <1>6, <1>7, <1>8, <1>9 DEF IInv, StopInv, RowInv

LEMMA ExitKeeps == ASSUME IInv, Exit PROVE IInv'
  <1>1. NoTimers \in [Subscriptions -> 0..(MaxEdits + MaxRequests)] /\ \A s \in Subscriptions : NoTimers[s] = 0
    BY SchedulerAssumption DEF NoTimers
  <1>2. TypeOK'
    <2>1. /\ life' \in {"down", "up", "stopping", "closed"} /\ stopAt' \in {"checks", "pass", None}
          /\ startup' \in BOOLEAN /\ interval' \in BOOLEAN
          /\ runs' \subseteq Runs /\ current' \in 1..2 \cup {None}
          /\ check' \in {"user", "lane", None} /\ after' \subseteq {"drain", "end"} /\ pass' \in BOOLEAN /\ quiet' \in BOOLEAN
          /\ fresh' \subseteq Rules
      BY Zenon DEF Exit
    <2>2. timers' \in [Subscriptions -> 0..(MaxEdits + MaxRequests)] /\ handlers' \in 0..MaxEdits
      BY <1>1, SchedulerAssumption DEF Exit
    <2>3. waiting' \in Seq(Rules) /\ resuming' \in Seq(Rules) /\ joined' \in Nat /\ restarts' \in 0..MaxRestarts
      BY SchedulerAssumption DEF Exit, IInv, TypeOK
    <2>4. UNCHANGED <<row, version, checked, edits, requests>>
      BY DEF Exit
    <2> QED BY <2>1, <2>2, <2>3, <2>4 DEF IInv, TypeOK
  <1>3. RunInv' /\ WaitInv' /\ StopInv' /\ RowInv'
    BY SchedulerAssumption
    DEF Exit, RunInv, WaitInv, StopInv, RowInv, Unarmed, NoCallers, Stopping
  <1>4. CountInv'
    BY <1>1 DEF Exit, IInv, TypeOK, CountInv, Subscriptions
  <1> QED BY <1>2, <1>3, <1>4 DEF IInv

\* While there is a run, the process has not come to the end of its shutdown.
LEMMA RunFacts ==
  ASSUME IInv, NEW run \in runs
  PROVE  /\ run \in Runs /\ runs = {run} /\ current = run.id /\ current # None /\ Scoped(run)
         /\ life \in {"up", "stopping"} /\ stopAt # "pass"
  <1>1. run \in Runs /\ runs = {run} /\ current = run.id /\ Scoped(run)
    BY DEF IInv, RunInv
  <1>2. run.id \in 1..2
    BY <1>1 DEF Runs
  <1> QED BY <1>1, <1>2, SchedulerAssumption DEF IInv, TypeOK, StopInv, NoCallers

\* What a step of a lane keeps: the run, and checks that are awaited.
LEMMA LaneStepKeeps ==
  ASSUME IInv, NEW run \in runs, NEW new \in Runs, runs' = {new}, new.id = run.id, Scoped(new),
         pass' \in BOOLEAN, pass => pass',
         check' \in {"user", "lane", None}, check # None => check' # None,
         UNCHANGED <<control, timers, handlers, current, calls, joined, after, quiet, row, rules, bounds>>
  PROVE  IInv'
  <1>1. /\ run \in Runs /\ current = run.id /\ current # None
        /\ life \in {"up", "stopping"} /\ stopAt # "pass"
    BY RunFacts
  <1>2. TypeOK'
    BY DEF control, calls, rules, bounds, IInv, TypeOK
  <1>3. RunInv'
    BY <1>1 DEF RunInv
  <1>4. WaitInv'
    BY <1>1 DEF calls, IInv, WaitInv
  <1>5. CountInv'
    BY DEF rules, bounds, IInv, CountInv
  <1>6. StopInv' /\ RowInv'
    BY <1>1 DEF control, calls, IInv, StopInv, RowInv, Unarmed, NoCallers, Stopping
  <1> QED BY <1>2, <1>3, <1>4, <1>5, <1>6 DEF IInv

LEMMA LanesKeep ==
  ASSUME IInv, NEW run \in runs, LaneChecks(run) \/ \E t \in Trackers : LaneEnds(run, t)
  PROVE  IInv'
  <1>1. run \in Runs /\ runs = {run} /\ Scoped(run)
    BY RunFacts
  <1>2. ASSUME NEW t \in Trackers, LaneEnds(run, t) PROVE IInv'
    <2>1. PICK new \in Runs : runs' = {new} /\ new.id = run.id /\ Scoped(new)
      <3>1. \E left \in SUBSET Trackers, at \in {"lanes", "drain", "end"} :
              runs' = {[run EXCEPT !.left = left, !.at = at]} \/ runs' = {[run EXCEPT !.left = left]}
        <4>1. run.left \ {t} \in SUBSET Trackers /\ {} \in SUBSET Trackers /\ Drained \in {"lanes", "drain", "end"}
          BY <1>1 DEF Runs, Drained
        <4> QED BY <1>1, <1>2, <4>1 DEF LaneEnds, Update
      <3>2. \A left \in SUBSET Trackers, at \in {"lanes", "drain", "end"} :
              /\ [run EXCEPT !.left = left, !.at = at] \in Runs /\ [run EXCEPT !.left = left] \in Runs
              /\ [run EXCEPT !.left = left, !.at = at].id = run.id /\ [run EXCEPT !.left = left].id = run.id
              /\ Scoped([run EXCEPT !.left = left, !.at = at]) /\ Scoped([run EXCEPT !.left = left])
        BY <1>1 DEF Runs, Scoped
      <3> QED BY <3>1, <3>2
    <2>2. pass' \in BOOLEAN /\ (pass => pass')
      BY <1>2 DEF LaneEnds, IInv, TypeOK
    <2>3. UNCHANGED <<control, timers, handlers, current, calls, direct, quiet, row, rules, bounds>>
      BY <1>2 DEF LaneEnds
    <2>4. check \in {"user", "lane", None}
      BY DEF IInv, TypeOK
    <2> QED BY <2>1, <2>2, <2>3, <2>4, LaneStepKeeps DEF direct
  <1>3. CASE LaneChecks(run)
    <2>1. run.scope = None
      BY <1>1, <1>3 DEF LaneChecks, Scoped
    <2>2. PICK new \in Runs : runs' = {new} /\ new.id = run.id /\ Scoped(new)
      <3>1. runs' = {[run EXCEPT !.direct = "waits"]}
        BY <1>1, <1>3 DEF LaneChecks, Update
      <3>2. [run EXCEPT !.direct = "waits"] \in Runs /\ [run EXCEPT !.direct = "waits"].id = run.id
            /\ Scoped([run EXCEPT !.direct = "waits"])
        BY <1>1, <2>1 DEF Runs, Scoped
      <3> QED BY <3>1, <3>2
    <2>3. check' \in {"user", "lane", None} /\ (check # None => check' # None)
      BY <1>3, SchedulerAssumption DEF LaneChecks, IInv, TypeOK
    <2>4. UNCHANGED <<control, timers, handlers, current, calls, joined, after, pass, quiet, row, rules, bounds>>
      BY <1>3 DEF LaneChecks, queue
    <2>5. pass \in BOOLEAN
      BY DEF IInv, TypeOK
    <2> QED BY <2>2, <2>3, <2>4, <2>5, LaneStepKeeps
  <1> QED BY <1>2, <1>3

LEMMA RunEndsKeeps == ASSUME IInv, NEW run \in runs, RunEnds(run) PROVE IInv'
  <1>1. /\ run \in Runs /\ runs = {run} /\ current = run.id /\ current # None
        /\ life \in {"up", "stopping"} /\ stopAt # "pass"
    BY RunFacts
  <1>2. runs' = {} /\ current' = None /\ waiting' = <<>>
    BY <1>1 DEF RunEnds
  <1>3. UNCHANGED <<control, timers, handlers, direct, queue, version, bounds>>
    BY DEF RunEnds
  <1>4. resuming' \in Seq(Rules)
    <2>1. resuming \in Seq(Rules) /\ waiting \in Seq(Rules)
      BY DEF IInv, TypeOK
    <2> QED BY <2>1 DEF RunEnds
  <1>5. checked' \in [Rules -> 0..MaxEdits] /\ fresh' \subseteq Rules
    <2>1. run.saw \in [Rules -> 0..MaxEdits \cup {None}] /\ checked \in [Rules -> 0..MaxEdits] /\ fresh \subseteq Rules
      BY <1>1 DEF Runs, IInv, TypeOK
    <2> QED BY <2>1 DEF RunEnds
  <1>6. row' = [running |-> FALSE, next |-> interval] /\ interval \in BOOLEAN
    BY DEF RunEnds, Finished, IInv, TypeOK
  <1>7. TypeOK'
    BY <1>2, <1>3, <1>4, <1>5, <1>6 DEF control, direct, queue, bounds, IInv, TypeOK
  <1>8. RunInv' /\ WaitInv' /\ CountInv'
    BY <1>2, <1>3 DEF direct, queue, bounds, IInv, RunInv, WaitInv, CountInv
  <1>9. StopInv'
    BY <1>1, <1>3 DEF control, direct, queue, IInv, StopInv, Unarmed, NoCallers, Stopping
  <1>10. RowInv'
    <2>1. life = "up" => interval = TRUE
      BY <1>6 DEF IInv, StopInv
    <2> QED BY <1>3, <1>6, <2>1 DEF control, RowInv
  <1> QED BY <1>7, <1>8, <1>9, <1>10 DEF IInv

\* A step of the checks and of the queue that leaves all else as it is.
LEMMA CheckStepKeeps ==
  ASSUME IInv, UNCHANGED <<control, timers, handlers, current, calls, quiet, row, rules, bounds>>,
         runs' \subseteq Runs, RunInv',
         pass' \in BOOLEAN, check' \in {"user", "lane", None}, joined' \in Nat, after' \subseteq {"drain", "end"},
         joined' > 0 => check' # None, "drain" \in after' => pass',
         check' # None => check # None,
         life \in {"closed", "down"} => after' = {} /\ ~pass'
  PROVE  IInv'
  <1>1. TypeOK'
    BY DEF control, calls, rules, bounds, IInv, TypeOK
  <1>2. WaitInv' /\ CountInv' /\ RowInv'
    BY DEF control, calls, rules, bounds, IInv, WaitInv, CountInv, RowInv
  <1>3. StopInv'
    BY DEF control, calls, IInv, StopInv, Unarmed, NoCallers, Stopping
  <1> QED BY <1>1, <1>2, <1>3 DEF IInv

\* The run, if there is one, changes in other fields than the id.
LEMMA RunChanges ==
  ASSUME IInv, UNCHANGED current, runs = {} => runs' = {},
         \A run \in Runs : runs = {run} /\ Scoped(run) =>
           \E new \in Runs : runs' = {new} /\ new.id = run.id /\ Scoped(new)
  PROVE  runs' \subseteq Runs /\ RunInv'
  <1>1. CASE runs = {} /\ current = None
    BY <1>1 DEF RunInv
  <1>2. ASSUME NEW run \in Runs, runs = {run}, current = run.id, Scoped(run)
        PROVE  runs' \subseteq Runs /\ RunInv'
    <2>1. PICK new \in Runs : runs' = {new} /\ new.id = run.id /\ Scoped(new)
      BY <1>2
    <2> QED BY <1>2, <2>1 DEF RunInv
  <1> QED BY <1>1, <1>2 DEF IInv, RunInv

LEMMA LoadedKeeps == ASSUME IInv, DirectLoaded PROVE IInv'
  <1> DEFINE On(run) == IF run.direct = "waits" THEN [run EXCEPT !.direct = "behind"] ELSE run
  <1>1. UNCHANGED <<control, timers, handlers, current, calls, quiet, row, rules, bounds>>
    BY DEF DirectLoaded
  <1>2. runs' \subseteq Runs /\ RunInv'
    <2>1. \A run \in Runs : On(run) \in Runs /\ On(run).id = run.id /\ (Scoped(run) => Scoped(On(run)))
      BY DEF Runs, Scoped
    <2>2. runs' = {On(run) : run \in runs} /\ UNCHANGED current
      BY DEF DirectLoaded
    <2> HIDE DEF On
    <2> QED BY <2>1, <2>2, RunChanges
  <1>3. /\ check # None /\ check' \in {"user", None} /\ joined' \in Nat
        /\ joined' > 0 => check' # None
    BY SchedulerAssumption DEF DirectLoaded, GoAgain, IInv, TypeOK
  <1>4. after' \subseteq {"drain", "end"} /\ pass' \in BOOLEAN /\ ("drain" \in after' => pass')
    BY DEF DirectLoaded, Drained, IInv, TypeOK, WaitInv
  <1>5. life \notin {"closed", "down"}
    BY <1>3 DEF IInv, StopInv
  <1> QED BY <1>1, <1>2, <1>3, <1>4, <1>5, CheckStepKeeps

LEMMA DirectKeeps ==
  ASSUME IInv, DirectEnds \/ Wake
  PROVE  IInv'
  <1>1. UNCHANGED <<control, timers, handlers, runs, current, calls, check, joined, quiet, row, rules, bounds>>
    BY DEF DirectEnds, Wake, queue, direct
  <1>2. pass' \in BOOLEAN /\ after' \subseteq after
    BY DEF DirectEnds, Wake, queue, direct, IInv, TypeOK
  <1>3. runs' \subseteq Runs /\ RunInv' /\ after \subseteq {"drain", "end"}
        /\ check \in {"user", "lane", None} /\ joined \in Nat
    BY <1>1 DEF IInv, TypeOK, RunInv
  <1>4. joined > 0 => check # None
    BY DEF IInv, WaitInv
  <1>5. "drain" \in after' => pass'
    BY DEF DirectEnds, Wake, queue, direct, IInv, WaitInv
  <1>6. life \notin {"closed", "down"}
    BY DEF DirectEnds, Wake, IInv, StopInv
  <1> QED BY <1>1, <1>2, <1>3, <1>4, <1>5, <1>6, CheckStepKeeps

LEMMA PassKeeps == ASSUME IInv, PassEnds PROVE IInv'
  <1> DEFINE On(r) == IF r.at = "drain" THEN [r EXCEPT !.at = "end"] ELSE r
  <1>1. UNCHANGED <<control, timers, handlers, current, calls, check, joined, quiet, row, rules, bounds>>
    BY DEF PassEnds
  <1>2. runs' \subseteq Runs /\ RunInv'
    <2>1. \A r \in Runs : On(r) \in Runs /\ On(r).id = r.id /\ (Scoped(r) => Scoped(On(r)))
      BY DEF Runs, Scoped
    <2>2. runs' = {On(r) : r \in runs} /\ UNCHANGED current
      BY DEF PassEnds
    <2> HIDE DEF On
    <2> QED BY <2>1, <2>2, RunChanges
  <1>3. pass /\ pass' = FALSE /\ after' \subseteq {"end"}
    BY DEF PassEnds
  <1>4. check \in {"user", "lane", None} /\ joined \in Nat /\ (joined > 0 => check # None)
    BY DEF IInv, TypeOK, WaitInv
  <1>5. life \notin {"closed", "down"}
    BY <1>3 DEF IInv, StopInv
  <1> QED BY <1>1, <1>2, <1>3, <1>4, <1>5, CheckStepKeeps

(***************************************************************************)
(* The invariant.                                                          *)
(***************************************************************************)

LEMMA InitHolds == Init => IInv
  <1> SUFFICES ASSUME Init PROVE IInv
    OBVIOUS
  <1>1. NoTimers \in [Subscriptions -> 0..(MaxEdits + MaxRequests)] /\ \A s \in Subscriptions : NoTimers[s] = 0
    BY SchedulerAssumption DEF NoTimers
  <1>2. TypeOK
    <2>1. /\ life \in {"down", "up", "stopping", "closed"} /\ stopAt \in {"checks", "pass", None}
          /\ startup \in BOOLEAN /\ interval \in BOOLEAN
          /\ runs \subseteq Runs /\ current \in 1..2 \cup {None}
          /\ check \in {"user", "lane", None} /\ after \subseteq {"drain", "end"} /\ pass \in BOOLEAN /\ quiet \in BOOLEAN
          /\ fresh \subseteq Rules
      BY Zenon DEF Init
    <2>2. row \in [running : BOOLEAN, next : BOOLEAN] /\ joined \in Nat /\ waiting \in Seq(Rules) /\ resuming \in Seq(Rules)
      BY DEF Init
    <2>3. /\ timers \in [Subscriptions -> 0..(MaxEdits + MaxRequests)] /\ handlers \in 0..MaxEdits
          /\ version \in [Rules -> 0..MaxEdits] /\ checked \in [Rules -> 0..MaxEdits]
          /\ edits \in 0..MaxEdits /\ requests \in 0..MaxRequests /\ restarts \in 0..MaxRestarts
      BY <1>1, SchedulerAssumption DEF Init
    <2> QED BY <2>1, <2>2, <2>3 DEF TypeOK
  <1>3. CountInv
    BY <1>1 DEF Init, CountInv, Subscriptions
  <1> QED
    BY <1>2, <1>3, SchedulerAssumption
    DEF Init, IInv, RunInv, WaitInv, StopInv, RowInv, Unarmed, NoCallers, Stopping

LEMMA StutterKeeps == ASSUME IInv, UNCHANGED vars PROVE IInv'
  <1> USE DEF vars, control, calls, direct, queue, rules, bounds
  <1>1. TypeOK' /\ RunInv' /\ CountInv'
    BY DEF IInv, TypeOK, RunInv, CountInv
  <1> QED BY <1>1 DEF IInv, WaitInv, StopInv, RowInv, Unarmed, NoCallers, Stopping

LEMMA NextKeeps == IInv /\ [Next]_vars => IInv'
  <1> SUFFICES ASSUME IInv, [Next]_vars PROVE IInv'
    OBVIOUS
  <1>1. CASE Start \/ Stop \/ ChecksStopped \/ Closed \/ Exit
    BY <1>1, StartKeeps, StopsKeep, ExitKeeps
  <1>2. CASE Timers \/ IntervalFires
    BY <1>2, PollsServe, ChecksServe, ServingKeeps DEF Timers
  <1>3. CASE Handlers \/ ArtworkRemoved
    BY <1>3, PollsServe, IntervalServes, ChecksServe, EditsServe, ServingKeeps DEF Handlers
  <1>4. CASE RunSteps
    BY <1>4, LanesKeep DEF RunSteps
  <1>5. CASE Ends
    BY <1>5, RunEndsKeeps, ResumeServes, ServingKeeps, DirectKeeps DEF Ends
  <1>6. CASE DirectLoaded \/ Wake \/ PassEnds
    BY <1>6, LoadedKeeps, DirectKeeps, PassKeeps
  <1>7. CASE UNCHANGED vars
    BY <1>7, StutterKeeps
  <1> QED BY <1>1, <1>2, <1>3, <1>4, <1>5, <1>6, <1>7 DEF Next

THEOREM Invariant == Spec => []IInv
  <1>1. Init => IInv
    BY InitHolds
  <1>2. IInv /\ [Next]_vars => IInv'
    BY NextKeeps
  <1> QED BY <1>1, <1>2, PTL DEF Spec

(***************************************************************************)
(* Every reachable state of the scheduler is type correct.                 *)
(***************************************************************************)
THEOREM TypeCorrect == Spec => []TypeOK
  <1>1. IInv => TypeOK
    BY DEF IInv
  <1> QED BY <1>1, Invariant, PTL

LEMMA OneRun ==
  ASSUME RunInv
  PROVE  /\ SingleFlight
         /\ Cardinality(runs) = IF current = None THEN 0 ELSE 1
  <1>1. CASE current = None /\ runs = {}
    BY <1>1, FS_EmptySet DEF SingleFlight
  <1>2. ASSUME NEW run \in Runs, runs = {run}, current = run.id
        PROVE  Cardinality(runs) = 1 /\ current # None /\ runs # {}
    <2>1. run.id \in 1..2
      BY <1>2 DEF Runs
    <2>2. current # None
      BY <1>2, <2>1, SchedulerAssumption
    <2> QED BY <1>2, <2>2, FS_Singleton
  <1> QED BY <1>1, <1>2 DEF RunInv, SingleFlight

(***************************************************************************)
(* Inside a process one run executes at a time, and currentRun is that run *)
(* (runWithScope and executeRun).                                          *)
(***************************************************************************)
THEOREM RunsAreSingle == Spec => []SingleFlight
  <1>1. IInv => SingleFlight
    BY OneRun DEF IInv
  <1> QED BY <1>1, Invariant, PTL

(***************************************************************************)
(* When stop() and the shutdown after it are over, no run, check, pass or  *)
(* timer is left that would use the closed database.                       *)
(***************************************************************************)
THEOREM NothingIsLeft == Spec => []ClosedIsQuiet
  <1>1. IInv => ClosedIsQuiet
    BY OneRun DEF IInv, TypeOK, StopInv, WaitInv, Unarmed, NoCallers, ClosedIsQuiet, SingleFlight
  <1> QED BY <1>1, Invariant, PTL

(***************************************************************************)
(* Between runs scheduler_status shows the next poll and that none is      *)
(* running.                                                                *)
(***************************************************************************)
THEOREM StatusStaysTrue == Spec => []StatusIsTrue
  <1>1. IInv => StatusIsTrue
    BY DEF IInv, RowInv, StatusIsTrue
  <1> QED BY <1>1, Invariant, PTL

\* What may happen to a check while the scheduler stops.
CheckFalls ==
  /\ check' = "user" => check = "user"
  /\ joined' <= joined
  /\ check' = "lane" => check = "lane" \/ \E run \in runs : run.scope = None

LEMMA StoppingServes ==
  ASSUME IInv, Serving, life = "stopping"
  PROVE  (current = None => current' = None) /\ CheckFalls
  BY DEF Serving, CheckRises, CheckFalls, Moved, Stopping, IInv, TypeOK

(***************************************************************************)
(* Once stop() was called no run begins, no user begins or joins a check,  *)
(* whoever waits for a run, a check, a timer or a removal then, and no     *)
(* timer is set; a direct check begins for an active full run only.        *)
(***************************************************************************)
THEOREM StopIsFinal == Spec => NothingStartsAfterStop
  <1> DEFINE Quiet ==
        life = "stopping" /\ life' = "stopping" =>
          /\ Cardinality(runs') <= Cardinality(runs)
          /\ current = None => current' = None
          /\ check' = "user" => check = "user"
          /\ joined' <= joined
          /\ check' = "lane" => check = "lane" \/ \E run \in runs : run.scope = None
          /\ timers' = NoTimers
  <1>1. ASSUME IInv, IInv', [Next]_vars, life = "stopping", life' = "stopping"
        PROVE  Quiet
    <2>0. joined \in Nat
      BY <1>1 DEF IInv, TypeOK
    <2>1. (current = None => current' = None) /\ CheckFalls
      <3>1. CASE Start \/ Stop \/ ChecksStopped \/ Closed \/ Exit
        BY <1>1, <2>0, <3>1 DEF Start, Stop, ChecksStopped, Closed, Exit, direct, CheckFalls
      <3>2. CASE Timers \/ IntervalFires
        BY <1>1, <3>2, PollsServe, ChecksServe, StoppingServes DEF Timers
      <3>3. CASE Handlers \/ ArtworkRemoved
        BY <1>1, <3>3, PollsServe, IntervalServes, ChecksServe, EditsServe, StoppingServes DEF Handlers
      <3>4. CASE RunSteps
        <4>1. ASSUME NEW run \in runs, NEW t \in Trackers, LaneEnds(run, t)
              PROVE  (current = None => current' = None) /\ CheckFalls
          BY <2>0, <4>1 DEF LaneEnds, direct, CheckFalls
        <4>2. ASSUME NEW run \in runs, LaneChecks(run)
              PROVE  (current = None => current' = None) /\ CheckFalls
          <5>1. run.scope = None
            BY <1>1, <4>2, RunFacts DEF LaneChecks, Scoped
          <5> QED BY <2>0, <4>2, <5>1, SchedulerAssumption DEF LaneChecks, CheckFalls
        <4> QED BY <3>4, <4>1, <4>2 DEF RunSteps
      <3>5. CASE Resume
        BY <1>1, <3>5, ResumeServes, StoppingServes
      <3>6. ASSUME NEW run \in runs, RunEnds(run)
            PROVE  (current = None => current' = None) /\ CheckFalls
        BY <2>0, <3>6 DEF RunEnds, direct, CheckFalls
      <3>7. CASE DirectEnds \/ Wake \/ PassEnds
        BY <2>0, <3>7 DEF DirectEnds, Wake, PassEnds, direct, CheckFalls
      <3>8. CASE DirectLoaded
        BY <1>1, <2>0, <3>8, SchedulerAssumption DEF DirectLoaded, GoAgain, Stopping, CheckFalls
      <3>9. CASE UNCHANGED vars
        BY <2>0, <3>9 DEF vars, direct, CheckFalls
      <3> QED BY <1>1, <3>1, <3>2, <3>3, <3>4, <3>5, <3>6, <3>7, <3>8, <3>9 DEF Next, Ends
    <2>2. timers' = NoTimers
      BY <1>1 DEF IInv, StopInv, Unarmed, NoTimers
    <2>3. Cardinality(runs') <= Cardinality(runs)
      <3>1. /\ Cardinality(runs) = IF current = None THEN 0 ELSE 1
            /\ RunInv'
        BY <1>1, OneRun DEF IInv
      <3>2. Cardinality(runs') = IF current' = None THEN 0 ELSE 1
        <4>1. CASE current' = None /\ runs' = {}
          BY <4>1, FS_EmptySet
        <4>2. ASSUME NEW run \in Runs, runs' = {run}, current' = run.id
              PROVE  Cardinality(runs') = 1 /\ current' # None
          <5>1. run.id \in 1..2
            BY <4>2 DEF Runs
          <5> QED BY <4>2, <5>1, FS_Singleton, SchedulerAssumption
        <4> QED BY <3>1, <4>1, <4>2 DEF RunInv
      <3> QED BY <2>1, <3>1, <3>2
    <2> QED BY <2>1, <2>2, <2>3 DEF CheckFalls
  <1>2. IInv /\ IInv' /\ [Next]_vars => [Quiet]_vars
    BY <1>1
  <1>3. Spec => [][Next]_vars
    BY DEF Spec
  <1> QED BY <1>2, <1>3, Invariant, PTL DEF NothingStartsAfterStop
=============================================================================
