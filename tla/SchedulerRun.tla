---------------------------- MODULE SchedulerRun ----------------------------
(***************************************************************************)
(* The life of the scheduler and its runs (server/scheduler.ts): one run   *)
(* at a time, full polls that join the active run, targeted checks that    *)
(* wait for it, the timers behind them, and the shutdown that ends them    *)
(* all (server/app.ts, server/index.ts).                                   *)
(*                                                                         *)
(* What a run does with a rule is RulePoll's, what a direct check does is  *)
(* DirectCheck's and what a pass of the notification queue does is         *)
(* NotificationQueue's matter.  Here they only begin and end.  Each rule   *)
(* watches every tracker; there is one direct subscription, whose checks   *)
(* users ask for and the lane of its tracker makes.                        *)
(*                                                                         *)
(* A promise that is settled resumes its callers before the next timer,    *)
(* request or answer is handled: those steps wait for Settled.             *)
(***************************************************************************)
EXTENDS Integers, FiniteSets, Sequences

CONSTANTS
  Rules, Trackers,
  Direct,        \* the direct subscription
  Home,          \* its tracker
  None,
  MaxEdits,      \* bound: edits
  MaxRequests,   \* bound: requests to check or to poll
  MaxRestarts    \* bound: starts of the process after the first

Subscriptions == Rules \cup {Direct}

ASSUME SchedulerAssumption ==
  /\ Direct \notin Rules /\ Home \in Trackers
  /\ None \notin Subscriptions \cup Int \cup {"checks", "pass", "user", "lane"}
  /\ MaxEdits \in Nat /\ MaxRequests \in Nat /\ MaxRestarts \in Nat

VARIABLES
  life,        \* of the process: "down", "up", "stopping", "closed"
  stopAt,      \* what stop() waits for: "checks", "pass", or None
  startup,     \* startupTimer is set
  interval,    \* the interval is set
  timers,      \* subscriptionTimers: how many there are of a subscription
  handlers,    \* edits of the direct subscription that wait for its artwork's removal
  runs,        \* executions of executeRun
  current,     \* currentRun, or None
  waiting,     \* targeted callers that await currentRun
  resuming,    \* those whose run has ended
  check,       \* who began the check that is in directChecks: "user", "lane", or None
  joined,      \* users that await it besides
  after,       \* where the checks begun by users are that have left it: "drain", "end"
  pass,        \* NotificationQueue.active
  quiet,       \* NotificationQueue.stopping
  row,         \* the row scheduler_status
  version,     \* how often a rule was edited
  checked,     \* the version a run that has ended had selected
  fresh,       \* history: rules edited since the process started
  edits, requests, restarts

control == <<life, stopAt, startup, interval>>
calls == <<waiting, resuming>>
direct == <<check, joined, after>>
queue == <<pass, quiet>>
rules == <<version, checked, fresh>>
bounds == <<edits, requests, restarts>>
vars == <<control, timers, handlers, runs, current, calls, direct, queue, row, rules, bounds>>

\* scope: the rule of a RuleScope, or None; left: lanes that have not ended;
\* direct: the direct checks of its lanes are to be made, awaited or behind;
\* saw: the rules' versions when the rows were selected; next: the
\* nextScheduledAt the run began with is still that.
Runs == [id : 1..2, scope : Rules \cup {None}, at : {"lanes", "drain", "end"},
         left : SUBSET Trackers, direct : {"before", "waits", "behind"},
         saw : [Rules -> 0..MaxEdits \cup {None}], next : BOOLEAN]

Stopping == life \in {"stopping", "closed"}

\* No continuation is due.
Settled == resuming = <<>> /\ "end" \notin after /\ \A r \in runs : r.at # "end"

TypeOK ==
  /\ life \in {"down", "up", "stopping", "closed"}
  /\ stopAt \in {"checks", "pass", None}
  /\ startup \in BOOLEAN /\ interval \in BOOLEAN
  /\ timers \in [Subscriptions -> 0..(MaxEdits + MaxRequests)]
  /\ handlers \in 0..MaxEdits
  /\ runs \subseteq Runs /\ current \in 1..2 \cup {None}
  /\ waiting \in Seq(Rules) /\ resuming \in Seq(Rules)
  /\ check \in {"user", "lane", None} /\ joined \in Nat /\ after \subseteq {"drain", "end"}
  /\ pass \in BOOLEAN /\ quiet \in BOOLEAN
  /\ row \in [running : BOOLEAN, next : BOOLEAN]
  /\ version \in [Rules -> 0..MaxEdits] /\ checked \in [Rules -> 0..MaxEdits]
  /\ fresh \subseteq Rules
  /\ edits \in 0..MaxEdits /\ requests \in 0..MaxRequests /\ restarts \in 0..MaxRestarts

NoTimers == [s \in Subscriptions |-> 0]

Init ==
  /\ life = "down" /\ stopAt = None
  /\ startup = FALSE /\ interval = FALSE /\ timers = NoTimers /\ handlers = 0
  /\ runs = {} /\ current = None
  /\ waiting = <<>> /\ resuming = <<>>
  /\ check = None /\ joined = 0 /\ after = {}
  /\ pass = FALSE /\ quiet = FALSE
  /\ row = [running |-> FALSE, next |-> FALSE]
  /\ version = [r \in Rules |-> 0] /\ checked = [r \in Rules |-> 0] /\ fresh = {}
  /\ edits = 0 /\ requests = 0 /\ restarts = 0
-----------------------------------------------------------------------------
(* The row scheduler_status.  next: it tells when the interval fires next. *)

\* nextScheduledAt changes; what was told before is out of date.
Outdated(rs) == {[r EXCEPT !.next = FALSE] : r \in rs}
-----------------------------------------------------------------------------
(* Runs. *)

FreeId == CHOOSE id \in 1..2 : \A r \in runs : r.id # id

\* executeRun up to the selection of its rows, in the step that calls it.
NewRun(scope) ==
  LET rows == IF scope = None THEN Rules ELSE {scope}
  IN  [id |-> FreeId, scope |-> scope, at |-> "lanes", left |-> Trackers,
       direct |-> IF scope = None THEN "before" ELSE "behind",
       saw |-> [r \in Rules |-> IF r \in rows THEN version[r] ELSE None], next |-> TRUE]

Begin(scope, others) ==
  LET run == NewRun(scope)
  IN  /\ runs' = others \cup {run}
      /\ current' = run.id
      /\ row' = [running |-> TRUE, next |-> TRUE]

\* A full poll shares the active run.
Full(others, told) ==
  IF Stopping THEN UNCHANGED <<runs, current, row>>
  ELSE IF current # None
  THEN /\ runs' = others /\ row' = [row EXCEPT !.next = told]
       /\ UNCHANGED current
  ELSE Begin(None, others)

\* Mutant: a targeted check settles for the active run.
Targeted_Joins(s) ==
  IF Stopping \/ current # None THEN UNCHANGED <<runs, current, waiting, row>>
  ELSE Begin(s, runs) /\ UNCHANGED waiting

\* A targeted check waits for it: its rows may have been selected before.
Targeted(s) ==
  IF Stopping THEN UNCHANGED <<runs, current, waiting, row>>
  ELSE IF current # None
  THEN waiting' = Append(waiting, s) /\ UNCHANGED <<runs, current, row>>
  ELSE Begin(s, runs) /\ UNCHANGED waiting

\* Mutant: a caller that has waited looks at stop only before.
Again_Stopped(s) ==
  IF current # None
  THEN waiting' = Append(waiting, s) /\ UNCHANGED <<runs, current, row>>
  ELSE Begin(s, runs) /\ UNCHANGED waiting

\* Mutant: the caller waits for one run, whatever has begun since.
Again_Once(s) ==
  IF Stopping THEN UNCHANGED <<runs, current, waiting, row>>
  ELSE Begin(s, runs) /\ UNCHANGED waiting

\* The loop of runWithScope, when the run it awaited has ended.
Again(s) ==
  IF current # None
  THEN waiting' = Append(waiting, s) /\ UNCHANGED <<runs, current, row>>
  ELSE IF Stopping THEN UNCHANGED <<runs, current, waiting, row>>
  ELSE Begin(s, runs) /\ UNCHANGED waiting

Resume ==
  /\ resuming # <<>>
  /\ resuming' = Tail(resuming)
  /\ Again(Head(resuming))
  /\ UNCHANGED <<control, timers, handlers, direct, queue, rules, bounds>>

\* drain(): it joins the active pass, starts one, or does nothing any more.
Drained == IF quiet THEN "end" ELSE "drain"

Update(run, new) == runs' = (runs \ {run}) \cup {new}

\* Mutant: a lane that fails keeps the run from ending.
LaneEnds_Hangs(run, t) ==
  /\ run.at = "lanes" /\ t \in run.left
  /\ Update(run, [run EXCEPT !.left = {}])
  /\ UNCHANGED <<control, timers, handlers, current, calls, direct, queue, row, rules, bounds>>

\* A lane has ended, whether it has failed or not, perhaps before its direct
\* checks; after the last one the rules are settled and the notifications sent.
LaneEnds(run, t) ==
  /\ run.at = "lanes" /\ t \in run.left
  /\ t = Home => run.direct # "waits"
  /\ LET left == run.left \ {t}
     IN  IF left # {}
         THEN Update(run, [run EXCEPT !.left = left]) /\ UNCHANGED pass
         ELSE /\ Update(run, [run EXCEPT !.left = {}, !.at = Drained])
              /\ pass' = (pass \/ ~quiet)
  /\ UNCHANGED <<control, timers, handlers, current, calls, direct, quiet, row, rules, bounds>>

\* Mutant: the row tells what the run was told when it began.
Finished_Captured(run) == [running |-> FALSE, next |-> run.next]

\* The row after a run; without an interval it tells a guess.
Finished(run) == [running |-> FALSE, next |-> interval]

RunEnds(run) ==
  /\ run.at = "end"
  /\ runs' = runs \ {run}
  /\ current' = None
  /\ row' = Finished(run)
  /\ checked' = [r \in Rules |-> IF run.saw[r] = None THEN checked[r] ELSE run.saw[r]]
  /\ fresh' = {r \in fresh : checked'[r] # version[r]}
  /\ resuming' = resuming \o waiting /\ waiting' = <<>>
  /\ UNCHANGED <<control, timers, handlers, direct, queue, version, bounds>>
-----------------------------------------------------------------------------
(* Direct checks and the notification queue. *)

\* checkSubscription of a direct subscription: a check that is under way is
\* shared.
DirectCheck ==
  /\ check' = IF Stopping \/ check # None THEN check ELSE "user"
  /\ joined' = IF Stopping \/ check = None THEN joined ELSE joined + 1
  /\ UNCHANGED after

\* The lane shares it, or begins a check, also of a scheduler that stops.
LaneChecks(run) ==
  /\ run.at = "lanes" /\ Home \in run.left /\ run.direct = "before"
  /\ Update(run, [run EXCEPT !.direct = "waits"])
  /\ check' = IF check = None THEN "lane" ELSE check
  /\ UNCHANGED <<control, timers, handlers, current, calls, joined, after, queue,
                 row, rules, bounds>>

\* The check was superseded or trusted the feed: the first of the users who
\* have joined it begins another one, the next ones join that.
GoAgain == joined > 0 /\ ~Stopping /\ check' = "user" /\ joined' = joined - 1

\* It has left directChecks; the lane goes on, the user who began it drains.
DirectLoaded ==
  /\ Settled /\ check # None
  /\ runs' = {IF run.direct = "waits" THEN [run EXCEPT !.direct = "behind"] ELSE run : run \in runs}
  /\ \/ GoAgain
     \/ check' = None /\ joined' = 0
  /\ IF check = "user"
     THEN after' = after \cup {Drained} /\ pass' = (pass \/ ~quiet)
     ELSE UNCHANGED <<after, pass>>
  /\ UNCHANGED <<control, timers, handlers, current, calls, quiet, row, rules, bounds>>

DirectEnds ==
  /\ "end" \in after
  /\ after' = after \ {"end"}
  /\ UNCHANGED <<control, timers, handlers, runs, current, calls, check, joined,
                 queue, row, rules, bounds>>

\* The timer of the queue wakes it.
Wake ==
  /\ Settled /\ life \in {"up", "stopping"} /\ ~quiet /\ ~pass
  /\ pass' = TRUE
  /\ UNCHANGED <<control, timers, handlers, runs, current, calls, direct, quiet, row, rules, bounds>>

\* Its pass is over for all that await it.
PassEnds ==
  /\ Settled /\ pass
  /\ pass' = FALSE
  /\ runs' = {IF r.at = "drain" THEN [r EXCEPT !.at = "end"] ELSE r : r \in runs}
  /\ after' = {"end" : a \in after}
  /\ UNCHANGED <<control, timers, handlers, current, calls, check, joined, quiet,
                 row, rules, bounds>>
-----------------------------------------------------------------------------
(* Timers and requests. *)

Start ==
  /\ life = "down"
  /\ life' = "up" /\ stopAt' = None
  /\ startup' = TRUE /\ interval' = TRUE
  /\ pass' = TRUE /\ quiet' = FALSE
  /\ row' = [running |-> FALSE, next |-> TRUE]
  /\ UNCHANGED <<timers, handlers, runs, current, calls, direct, rules, bounds>>

StartupFires ==
  /\ Settled /\ startup
  /\ startup' = FALSE
  /\ Full(runs, row.next)
  /\ UNCHANGED <<life, stopAt, interval, timers, handlers, calls, direct, queue, rules, bounds>>

\* The timer's next time is told by the run it starts or joins.
IntervalFires ==
  /\ Settled /\ interval
  /\ Full(Outdated(runs), FALSE)
  /\ UNCHANGED <<control, timers, handlers, calls, direct, queue, rules, bounds>>

Request == Settled /\ life \in {"up", "stopping"} /\ requests < MaxRequests /\ requests' = requests + 1

\* setPollIntervalMinutes: a new interval, told at once.
SetPollInterval ==
  /\ Request
  /\ life = "up"
  /\ runs' = Outdated(runs)
  /\ row' = [running |-> current # None, next |-> TRUE]
  /\ UNCHANGED <<control, timers, handlers, current, calls, direct, queue, rules, edits, restarts>>

\* POST /api/system/poll.
Poll ==
  /\ Request
  /\ Full(runs, row.next)
  /\ UNCHANGED <<control, timers, handlers, waiting, resuming, direct, queue, rules, edits, restarts>>

\* Mutant: every subscription is checked as a rule.
CheckSubscription_NoType(s) == Targeted(s) /\ UNCHANGED direct

CheckSubscription(s) ==
  IF s = Direct THEN DirectCheck /\ UNCHANGED <<runs, current, waiting, row>>
  ELSE Targeted(s) /\ UNCHANGED direct

\* POST /api/subscriptions/:id/check.
CheckNow(s) ==
  /\ Request
  /\ CheckSubscription(s)
  /\ UNCHANGED <<control, timers, handlers, resuming, queue, rules, edits, restarts>>

\* queueSubscriptionCheck.
QueueSubscriptionCheck(s) ==
  timers' = IF Stopping THEN timers ELSE [timers EXCEPT ![s] = @ + 1]

TimerFires(s) ==
  /\ Settled /\ timers[s] > 0
  /\ timers' = [timers EXCEPT ![s] = @ - 1]
  /\ CheckSubscription(s)
  /\ UNCHANGED <<control, handlers, resuming, queue, rules, bounds>>

EditAllowed == Settled /\ life \in {"up", "stopping"} /\ edits < MaxEdits /\ edits' = edits + 1

\* A rule is created or edited.
EditRule(r) ==
  /\ EditAllowed
  /\ version' = [version EXCEPT ![r] = @ + 1]
  /\ fresh' = fresh \cup {r}
  /\ QueueSubscriptionCheck(r)
  /\ UNCHANGED <<control, handlers, runs, current, calls, direct, queue, row, checked, requests, restarts>>

\* An edit of the direct subscription removes its artwork first.
EditDirect ==
  /\ EditAllowed
  /\ handlers' = handlers + 1
  /\ UNCHANGED <<control, timers, runs, current, calls, direct, queue, row, rules, requests, restarts>>

ArtworkRemoved ==
  /\ Settled /\ handlers > 0
  /\ handlers' = handlers - 1
  /\ QueueSubscriptionCheck(Direct)
  /\ UNCHANGED <<control, runs, current, calls, direct, queue, row, rules, bounds>>
-----------------------------------------------------------------------------
(* The end of the process. *)

\* stop(): no timer fires any more.
Stop ==
  /\ Settled /\ life = "up"
  /\ life' = "stopping" /\ stopAt' = "checks"
  /\ startup' = FALSE /\ interval' = FALSE /\ timers' = NoTimers
  /\ UNCHANGED <<handlers, runs, current, calls, direct, queue, row, rules, bounds>>

\* Mutant: only the run is waited for.
ChecksStopped_RunOnly ==
  /\ Settled /\ stopAt = "checks"
  /\ current = None
  /\ stopAt' = "pass" /\ quiet' = TRUE
  /\ UNCHANGED <<life, startup, interval, timers, handlers, runs, current, calls, direct, pass, row, rules, bounds>>

\* The run and the checks there were are over; the queue stops.
ChecksStopped ==
  /\ Settled /\ stopAt = "checks"
  /\ current = None /\ check = None
  /\ stopAt' = "pass" /\ quiet' = TRUE
  /\ UNCHANGED <<life, startup, interval, timers, handlers, runs, current, calls, direct, pass, row, rules, bounds>>

\* Its pass is over, and the rest follows: bots, browsers, the database.
Closed ==
  /\ Settled /\ stopAt = "pass" /\ ~pass
  /\ life' = "closed" /\ stopAt' = None
  /\ UNCHANGED <<startup, interval, timers, handlers, runs, current, calls, direct, queue, row, rules, bounds>>

\* The process is gone, after its shutdown or in the middle of anything.
Exit ==
  /\ life # "down" /\ restarts < MaxRestarts
  /\ restarts' = restarts + 1
  /\ life' = "down" /\ stopAt' = None
  /\ startup' = FALSE /\ interval' = FALSE /\ timers' = NoTimers /\ handlers' = 0
  /\ runs' = {} /\ current' = None
  /\ waiting' = <<>> /\ resuming' = <<>>
  /\ check' = None /\ joined' = 0 /\ after' = {}
  /\ pass' = FALSE /\ quiet' = FALSE
  /\ fresh' = {}
  /\ UNCHANGED <<row, version, checked, edits, requests>>
-----------------------------------------------------------------------------
RunSteps == Settled /\ \E run \in runs : LaneChecks(run) \/ \E t \in Trackers : LaneEnds(run, t)
Ends == (\E run \in runs : RunEnds(run)) \/ Resume \/ DirectEnds

Timers == StartupFires \/ \E s \in Subscriptions : TimerFires(s)

Handlers ==
  \/ \E r \in Rules : EditRule(r)
  \/ EditDirect
  \/ \E s \in Subscriptions : CheckNow(s)
  \/ Poll \/ SetPollInterval

Next ==
  \/ Start \/ Stop \/ ChecksStopped \/ Closed \/ Exit
  \/ Timers \/ IntervalFires \/ Handlers \/ ArtworkRemoved
  \/ RunSteps \/ Ends
  \/ DirectLoaded \/ Wake \/ PassEnds

Spec == Init /\ [][Next]_vars

(***************************************************************************)
(* Requests end or time out, so what runs and checks do goes on, and a     *)
(* pass ends; timers of the event loop fire, and stop() goes on when what  *)
(* it awaits is over.  Nothing is asked of the interval: what is shown     *)
(* does not wait for the next poll.                                        *)
(***************************************************************************)
Fairness ==
  /\ WF_vars(Timers) /\ WF_vars(RunSteps \/ DirectLoaded \/ Ends)
  /\ WF_vars(PassEnds) /\ WF_vars(ChecksStopped \/ Closed)

FairSpec == Spec /\ Fairness
-----------------------------------------------------------------------------
(* Properties. *)

(***************************************************************************)
(* Inside a process one run executes at a time, however many callers wait  *)
(* for it and begin theirs when it ends, and currentRun is that run.       *)
(***************************************************************************)
SingleFlight ==
  /\ Cardinality(runs) <= 1
  /\ current = None <=> runs = {}

(***************************************************************************)
(* Once stop() was called no run begins, no user begins or joins a direct  *)
(* check and no timer is set, whoever waits for a run, a check, a timer or *)
(* a removal then.  A full run that is active goes on: the direct check of *)
(* its lane may begin yet, and stop() waits for the run.                   *)
(***************************************************************************)
NothingStartsAfterStop ==
  [][life = "stopping" /\ life' = "stopping" =>
       /\ Cardinality(runs') <= Cardinality(runs)
       /\ current = None => current' = None
       /\ check' = "user" => check = "user"
       /\ joined' <= joined
       /\ check' = "lane" => check = "lane" \/ \E run \in runs : run.scope = None
       /\ timers' = NoTimers]_vars

(***************************************************************************)
(* When the database is closed nothing is left that would use it.          *)
(***************************************************************************)
ClosedIsQuiet ==
  life = "closed" =>
    /\ runs = {} /\ waiting = <<>> /\ resuming = <<>>
    /\ check = None /\ joined = 0 /\ after = {}
    /\ ~pass /\ timers = NoTimers /\ ~startup /\ ~interval

(***************************************************************************)
(* Between runs the interface shows when the next poll is, whatever was    *)
(* changed while a run was active, and that none is running, also after a  *)
(* crash during one.                                                       *)
(***************************************************************************)
StatusIsTrue ==
  life = "up" /\ Settled /\ current = None => row = [running |-> FALSE, next |-> TRUE]

(***************************************************************************)
(* "A targeted check must still run if it was added or edited after an     *)
(* active poll selected its rows": an edited rule is checked with its new  *)
(* terms, without waiting for the interval, unless the process ends.       *)
(***************************************************************************)
EditChecked == \A r \in Rules : r \in fresh ~> (r \notin fresh \/ life # "up")

(***************************************************************************)
(* "Shutdown waits for active requests", and ends.                         *)
(***************************************************************************)
ShutdownEnds == life = "stopping" ~> life # "stopping"
=============================================================================
