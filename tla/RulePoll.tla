------------------------------ MODULE RulePoll ------------------------------
(***************************************************************************)
(* The poll of a feed tracker's rules: Scheduler.pollTrackerLane,          *)
(* pollRules and processRuleMatches (server/scheduler.ts), against the     *)
(* handlers that create, edit, disable and delete rules meanwhile          *)
(* (server/routes/subscriptions.ts), and those that disable their owners   *)
(* and the tracker (server/routes/admin.ts), over the feed of FeedCoverage.*)
(*                                                                         *)
(* A poll gives way at four awaits: the feed request, the lane's direct    *)
(* checks, a catch-up search and the enrichment of a match.  Between them  *)
(* it runs alone; its steps there are separate actions ("run") during      *)
(* which no handler acts.                                                  *)
(* Terms are modelled by the topics whose titles they match.               *)
(***************************************************************************)
EXTENDS FeedCoverage

CONSTANTS
  Rules,
  Terms,       \* sets of topics
  MaxEdits     \* bound: edits of rules

\* on: the rule is enabled; init and recovered (gap_recovered_at) are of the
\* tracker's state, error its last_error.
RuleRows == [terms : Terms, on : BOOLEAN, init : BOOLEAN,
             recovered : 0..MaxTime \cup {None}, error : BOOLEAN]

\* A row as the poll holds it.
HeldRows == [terms : Terms, baseline : BOOLEAN, recovered : 0..MaxTime \cup {None}]

\* full: no RuleScope; at: the await, or "run"; held: the selected rows; left:
\* discovery groups to come; group, rows, row, todo: the group, its rows to
\* come, the row and its matches that are being processed; failed: the group's
\* recoveryError; retries: recoveryRetries > 0.
Polls == [full : BOOLEAN, at : {"feed", "direct", "run", "search", "row", "enrich"},
          held : [Rules -> HeldRows \cup {None}],
          left : SUBSET Terms, group : Terms \cup {None}, rows : SUBSET Rules,
          row : Rules \cup {None}, todo : SUBSET Topics, start : 0..MaxTime,
          failed : BOOLEAN, retries : BOOLEAN]

ASSUME RuleAssumption ==
  /\ Terms \subseteq SUBSET Topics
  /\ None \notin Rules \cup Terms \cup RuleRows \cup HeldRows \cup Polls
  /\ MaxEdits \in Nat

VARIABLES
  rule,      \* the subscription with its subscription_tracker_state, or None
  served,    \* the rules whose owner and the tracker's mirror are enabled
  matches,   \* rule_matches
  poll,      \* the lane of the active run, or None
  told,      \* history: matches that were reported
  before,    \* history: what the buffer held when the rule got its terms, and
             \* holds until the baseline
  raced,     \* history: terms count as initialised that no poll has recorded
  owes,      \* history: from when the rule must not miss a release
  edits

ruleVars == <<rule, served, matches, poll, told, before, raced, owes, edits>>
vars == <<feedVars, ruleVars>>

TypeOK ==
  /\ FeedTypeOK
  /\ rule \in [Rules -> RuleRows \cup {None}] /\ served \subseteq Rules
  /\ matches \in [Rules -> SUBSET Topics]
  /\ poll \in Polls \cup {None}
  /\ told \in [Rules -> SUBSET Topics] /\ before \in [Rules -> SUBSET Topics]
  /\ raced \in [Rules -> BOOLEAN] /\ owes \in [Rules -> 0..MaxTime]
  /\ edits \in 0..MaxEdits
  /\ \A r \in Rules : told[r] \subseteq matches[r] /\ (rule[r] = None => matches[r] = {})

Init ==
  /\ FeedInit /\ feed = None
  /\ rule = [r \in Rules |-> None] /\ served = Rules
  /\ matches = [r \in Rules |-> {}] /\ told = [r \in Rules |-> {}]
  /\ before = [r \in Rules |-> {}] /\ raced = [r \in Rules |-> FALSE]
  /\ owes = [r \in Rules |-> 0]
  /\ poll = None
  /\ edits = 0
-----------------------------------------------------------------------------
(* Handlers.  They run while the poll waits. *)

Waiting == poll # None => poll.at \in {"feed", "direct", "search", "enrich"}

Edit == Waiting /\ edits < MaxEdits /\ edits' = edits + 1

Buffered == {t \in Topics : buffer[t] # None}

NewRow(terms) == [terms |-> terms, on |-> TRUE, init |-> FALSE, recovered |-> None,
                  error |-> FALSE]

\* The rule has new terms or is gone: the matches of the old ones are deleted.
Anew(r, row) ==
  /\ rule' = [rule EXCEPT ![r] = row]
  /\ matches' = [matches EXCEPT ![r] = {}]
  /\ told' = [told EXCEPT ![r] = {}]
  /\ before' = [before EXCEPT ![r] = IF row = None THEN {} ELSE row.terms \cap Buffered]
  /\ raced' = [raced EXCEPT ![r] = row # None /\ row.init]
  /\ owes' = [owes EXCEPT ![r] = 0]

\* POST /api/subscriptions with type "rule".
Create(r, terms) ==
  /\ rule[r] = None
  /\ Edit
  /\ Anew(r, NewRow(terms))
  /\ UNCHANGED <<feedVars, served, poll>>

\* PATCH with terms and trackers, as the interface sends them: the tracker's
\* state is replaced too.
PatchRule(r, terms) ==
  /\ rule[r] # None
  /\ Edit
  /\ Anew(r, [NewRow(terms) EXCEPT !.on = rule[r].on])
  /\ UNCHANGED <<feedVars, served, poll>>

\* PATCH with terms alone: the tracker's state stays, initialised or not.
PatchTerms(r, terms) ==
  /\ rule[r] # None
  /\ Edit
  /\ Anew(r, [rule[r] EXCEPT !.terms = terms])
  /\ UNCHANGED <<feedVars, served, poll>>

\* PATCH with "enabled".
Toggle(r) ==
  /\ rule[r] # None
  /\ Edit
  /\ rule' = [rule EXCEPT ![r].on = ~@]
  /\ owes' = [owes EXCEPT ![r] = now]
  /\ UNCHANGED <<feedVars, served, matches, poll, told, before, raced>>

\* DELETE of the rule or of its collection, with its matches and state.
Delete(r) ==
  /\ rule[r] # None
  /\ Edit
  /\ Anew(r, None)
  /\ UNCHANGED <<feedVars, served, poll>>

\* PATCH of an account and PUT of a mirror with "enabled": of the rules of a
\* user, or of the tracker.
Serve(rules) ==
  /\ Edit
  /\ served' = rules
  /\ owes' = [r \in Rules |-> IF r \in served <=> r \in rules THEN owes[r] ELSE now]
  /\ UNCHANGED <<feedVars, rule, matches, poll, told, before, raced>>

Crash ==
  /\ poll # None
  /\ poll' = None
  /\ cache' = None
  /\ UNCHANGED <<world, feed, buffer, shown, skipped, rule, served, matches, told,
                 before, raced, owes, edits>>
-----------------------------------------------------------------------------
(* The run and its feed. *)

\* ruleRows(scope).
Selected(scope) == {r \in scope : rule[r] # None /\ rule[r].on /\ r \in served}

HeldRow(r) == [terms |-> rule[r].terms, baseline |-> ~rule[r].init,
               recovered |-> rule[r].recovered]

\* A full poll, or one of a single rule.  With no rows a lane is there when
\* direct subscriptions of the tracker are.
BeginPoll(full, scope) ==
  /\ poll = None
  /\ ~full => Selected(scope) # {}
  /\ poll' = [full |-> full, at |-> "feed",
              held |-> [r \in Rules |-> IF r \in Selected(scope) THEN HeldRow(r) ELSE None],
              left |-> {rule[r].terms : r \in Selected(scope)},
              group |-> None, rows |-> {}, row |-> None, todo |-> {}, start |-> 0,
              failed |-> FALSE, retries |-> FALSE]
  /\ UNCHANGED <<feedVars, rule, matches, told, before, raced, owes, served, edits>>

Held == {r \in Rules : poll.held[r] # None}
GroupRows == {r \in Held : poll.held[r].terms = poll.group}

PollReads ==
  /\ poll # None /\ poll.at = "feed"
  /\ ReadFeed
  /\ UNCHANGED ruleVars

\* Only a full poll has direct checks to make.
PollIngests ==
  /\ poll # None /\ poll.at = "feed"
  /\ Ingest
  /\ poll' = [poll EXCEPT !.at = IF poll.full THEN "direct" ELSE "run"]
  /\ before' = [r \in Rules |-> IF rule[r] # None /\ ~rule[r].init THEN before[r] \cap Buffered'
                               ELSE before[r]]
  /\ UNCHANGED <<rule, matches, told, raced, owes, served, edits>>

\* The lane's direct checks are done.
DirectsDone ==
  /\ poll # None /\ poll.at = "direct"
  /\ poll' = [poll EXCEPT !.at = "run"]
  /\ UNCHANGED <<feedVars, rule, matches, told, before, raced, owes, served, edits>>

\* An error is stored on some of the rows: on all of them, or, when one of
\* their rules is gone and the statement fails on its foreign key, on those
\* before it.
ErrorOn(rows, state) ==
  \E stored \in SUBSET {r \in rows : rule[r] # None} :
    /\ (\A r \in rows : rule[r] # None) => stored = rows
    /\ rule' = [r \in Rules |-> IF r \in stored THEN [state[r] EXCEPT !.error = TRUE] ELSE state[r]]

\* The feed cannot be read: every group stores the error, after the direct
\* checks, which change nothing here: the step is taken then.
FeedFails ==
  /\ poll # None /\ poll.at = "feed"
  /\ ErrorOn(Held, rule)
  /\ poll' = None
  /\ UNCHANGED <<feedVars, matches, told, before, raced, owes, served, edits>>
-----------------------------------------------------------------------------
(* One discovery group after the other. *)

Gap == feed # None /\ feed.gap # None

\* gap_recovered_at >= caughtUpAfter.
CaughtUp(held) == held.recovered # None /\ held.recovered >= feed.lastGap

Pending(rows) == {r \in rows : ~poll.held[r].baseline /\ ~CaughtUp(poll.held[r])}

\* Mutant: the statement initialises the row it inserts or updates.
Recovered_Initialises(marked) ==
  [r \in Rules |-> IF r \in marked THEN [rule[r] EXCEPT !.recovered = poll.start, !.init = TRUE]
                   ELSE rule[r]]

\* markGapRecovered, a statement for each row; it may fail as in ErrorOn.
Recovered(marked) ==
  [r \in Rules |-> IF r \in marked THEN [rule[r] EXCEPT !.recovered = poll.start] ELSE rule[r]]

\* A statement about a rule that is gone has thrown and so does the catch
\* block's: the lane ends where it is.
LaneDies(state) == ErrorOn(GroupRows, state) /\ poll' = None

\* The next group: it searches when a gap is open and one of its rules may
\* have missed something.
NextGroup(g) ==
  /\ poll # None /\ poll.at = "run" /\ poll.group = None
  /\ g \in poll.left
  /\ LET rows == {r \in Held : poll.held[r].terms = g}
         search == Gap /\ Pending(rows) # {}
     IN  poll' = [poll EXCEPT !.group = g, !.left = @ \ {g}, !.rows = rows, !.start = now,
                              !.at = IF search THEN "search" ELSE "run"]
  /\ UNCHANGED <<feedVars, rule, matches, told, before, raced, owes, served, edits>>

\* What a search returns: of a complete one, all that was listed since the gap
\* began when the search did, and is still listed so (RutrackerSearch).
Results(complete) ==
  {found \in SUBSET {t \in poll.group : listed[t] # None /\ listed[t] >= feed.gap} :
     complete => {t \in poll.group : /\ listed[t] # None /\ listed[t] >= feed.gap
                                     /\ listed[t] - offset < poll.start} \subseteq found}

\* A search whose results are stored; of a short one, what it has read.
SearchFinds(complete) ==
  /\ poll # None /\ poll.at = "search"
  /\ \E found \in Results(complete) :
       CatchUp([t \in Topics |-> IF t \in found THEN listed[t] ELSE None])
  /\ IF ~complete
     THEN /\ poll' = [poll EXCEPT !.at = "run", !.failed = TRUE]
          /\ UNCHANGED rule
     ELSE IF \A r \in GroupRows : rule[r] # None
     THEN /\ rule' = Recovered(GroupRows)
          /\ poll' = [poll EXCEPT !.at = "run"]
     ELSE \E marked \in SUBSET {r \in GroupRows : rule[r] # None} :
            /\ rule' = Recovered(marked)
            /\ poll' = [poll EXCEPT !.at = "run", !.failed = TRUE, !.retries = TRUE]
  /\ UNCHANGED <<matches, told, before, raced, owes, served, edits>>

\* No login or no search for it (final), or an error a later poll may not meet.
SearchFails(final) ==
  /\ poll # None /\ poll.at = "search"
  /\ poll' = [poll EXCEPT !.at = "run", !.failed = TRUE, !.retries = @ \/ ~final]
  /\ UNCHANGED <<feedVars, rule, matches, told, before, raced, owes, served, edits>>

\* The searches of the group are over.
StartRows ==
  /\ poll # None /\ poll.at = "run" /\ poll.group # None
  /\ LET baseline == {r \in GroupRows : poll.held[r].baseline}
         there == {r \in baseline : rule[r] # None}
     IN  IF Gap /\ there # baseline
         THEN \E marked \in SUBSET there : LaneDies(Recovered(marked))
         ELSE /\ rule' = IF Gap THEN Recovered(baseline) ELSE rule
              /\ poll' = [poll EXCEPT !.at = "row"]
  /\ UNCHANGED <<feedVars, matches, told, before, raced, owes, served, edits>>
-----------------------------------------------------------------------------
(* processRuleMatches. *)

\* Mutant: the rule only has to be there.
StillCurrent_Exists(r) == rule[r] # None /\ rule[r].on

\* Mutant: the rule is looked at when the poll selects it.
StillCurrent_Selected(r) == poll.held[r] # None

\* stillCurrent.  Whether the owner and the tracker are still enabled it does
\* not ask.
StillCurrent(r) == rule[r] # None /\ rule[r].on /\ rule[r].terms = poll.held[r].terms

\* The row is marked as initialised, unless its rule is gone.
Evaluated(r) ==
  IF rule[r] = None
  THEN LaneDies(rule) /\ UNCHANGED <<raced, owes>>
  ELSE /\ rule' = [rule EXCEPT ![r].init = TRUE, ![r].error = FALSE]
       /\ raced' = [raced EXCEPT ![r] = @ \/ (~rule[r].init /\ ~(StillCurrent(r) /\ poll.held[r].baseline))]
       /\ owes' = [owes EXCEPT ![r] = IF rule[r].init THEN @ ELSE now]
       /\ poll' = [poll EXCEPT !.at = "row", !.rows = @ \ {r}, !.row = None]

\* What the buffer holds for a row and is not recorded.
Candidates(r) == (Buffered \cap poll.held[r].terms) \ matches[r]

\* A baseline records its matches silently, without an await.
Baseline(r) ==
  /\ poll # None /\ poll.at = "row" /\ poll.row = None
  /\ r \in poll.rows /\ poll.held[r].baseline
  /\ matches' = IF StillCurrent(r) THEN [matches EXCEPT ![r] = @ \cup Candidates(r)] ELSE matches
  /\ Evaluated(r)
  /\ UNCHANGED <<feedVars, told, before, served, edits>>

\* A row with matches waits for the enrichment of the first.
StartRow(r) ==
  /\ poll # None /\ poll.at = "row" /\ poll.row = None
  /\ r \in poll.rows /\ ~poll.held[r].baseline
  /\ IF Candidates(r) = {}
     THEN Evaluated(r)
     ELSE /\ poll' = [poll EXCEPT !.at = "enrich", !.row = r, !.todo = Candidates(r)]
          /\ UNCHANGED <<rule, raced, owes>>
  /\ UNCHANGED <<feedVars, matches, told, before, served, edits>>

\* A match is enriched, or its page failed: if the rule is still as the row
\* has it, the match, its event and its notification are one transaction.
Enriched(t) ==
  /\ poll # None /\ poll.at = "enrich"
  /\ t \in poll.todo
  /\ LET r == poll.row
         new == StillCurrent(r) /\ t \notin matches[r]
     IN  /\ matches' = IF new THEN [matches EXCEPT ![r] = @ \cup {t}] ELSE matches
         /\ told' = IF new THEN [told EXCEPT ![r] = @ \cup {t}] ELSE told
         /\ raced' = [raced EXCEPT ![r] = @ \/ (new /\ ~rule[r].init)]
  /\ poll' = [poll EXCEPT !.todo = @ \ {t},
                          !.at = IF poll.todo = {t} THEN "row" ELSE "enrich"]
  /\ UNCHANGED <<feedVars, rule, before, owes, served, edits>>

RowDone ==
  /\ poll # None /\ poll.at = "row" /\ poll.row # None
  /\ Evaluated(poll.row)
  /\ UNCHANGED <<feedVars, matches, told, before, served, edits>>

NextOf(p) == [p EXCEPT !.at = "run", !.group = None, !.start = 0, !.failed = FALSE]

\* The rows of the group are done; a search that failed is stored on them.
GroupDone ==
  /\ poll # None /\ poll.at = "row" /\ poll.rows = {}
  /\ IF ~poll.failed
     THEN poll' = NextOf(poll) /\ UNCHANGED rule
     ELSE IF \E r \in GroupRows : rule[r] = None
     THEN LaneDies(rule)
     ELSE ErrorOn(GroupRows, rule) /\ poll' = NextOf(poll)
  /\ UNCHANGED <<feedVars, matches, told, before, raced, owes, served, edits>>

\* Mutant: the poll of one rule closes the gap for all.
Attests_Any == ~poll.retries

\* "Only a full poll can attest that every active rule covered the gap."
Attests == poll.full /\ ~poll.retries

EndPoll ==
  /\ poll # None /\ poll.at = "run" /\ poll.group = None /\ poll.left = {}
  /\ IF Gap /\ Attests THEN CloseGap ELSE UNCHANGED feedVars
  /\ poll' = None
  /\ UNCHANGED <<rule, matches, told, before, raced, owes, served, edits>>
-----------------------------------------------------------------------------
Handlers ==
  \E r \in Rules :
    \/ \E terms \in Terms : Create(r, terms) \/ PatchRule(r, terms) \/ PatchTerms(r, terms)
    \/ Toggle(r) \/ Delete(r)

\* The handlers of routes/admin.ts.
Admin == \E rules \in SUBSET Rules : rules # served /\ Serve(rules)

\* Time passes with the tracker's listings here.
Tracker == Waiting /\ (\E t \in Topics : Publish(t)) /\ UNCHANGED ruleVars

FullPoll == BeginPoll(TRUE, Rules)

Lane ==
  \/ PollReads \/ PollIngests \/ DirectsDone
  \/ \E g \in Terms : NextGroup(g)
  \/ \E complete \in BOOLEAN : SearchFinds(complete)
  \/ StartRows
  \/ \E r \in Rules : Baseline(r) \/ StartRow(r)
  \/ \E t \in Topics : Enriched(t)
  \/ RowDone \/ GroupDone \/ EndPoll

Failures == FeedFails \/ \E final \in BOOLEAN : SearchFails(final)

Next ==
  \/ Handlers \/ Admin \/ Tracker \/ Crash
  \/ FullPoll \/ \E r \in Rules : BeginPoll(FALSE, {r})
  \/ Lane \/ Failures

Spec == Init /\ [][Next]_vars
-----------------------------------------------------------------------------
(* Properties. *)

(***************************************************************************)
(* The poll and the handlers keep what RuleWatch promises: no release is   *)
(* told twice, none that was accepted silently, and none by terms the rule *)
(* no longer has or while it is disabled.  Of a rule whose owner or whose  *)
(* tracker is disabled only the poll that had selected it before may tell. *)
(***************************************************************************)
Watch == INSTANCE RuleWatch WITH
  watched <- [r \in Rules |-> IF rule[r] = None THEN None ELSE rule[r].terms],
  active <- [r \in Rules |-> rule[r] # None /\ rule[r].on],
  checked <- IF poll = None THEN {} ELSE Held,
  settled <- matches

WatchPromise == Watch!WatchSpec

(***************************************************************************)
(* "The first check of a rule records a baseline without notifying": what  *)
(* was there when a rule got its terms, and was not forgotten before its   *)
(* baseline, is never told, unless the tracker's state was or became       *)
(* initialised under other terms: by a PATCH of the terms alone, or by a   *)
(* poll during which the rule was edited.                                  *)
(***************************************************************************)
SilentBaseline ==
  \A r \in Rules : told[r] \cap before[r] # {} => raced[r]

\* Releases that neither the feed nor a search has shown and that a rule misses:
\* it was to watch for them before they were listed, they were not listed anew
\* since (which the next page shows), and they are not older than the buffer.
Missed(r) ==
  {t \in skipped :
     /\ t \in rule[r].terms \ matches[r]
     /\ listed[t] = shown[t]
     /\ shown[t] - offset >= owes[r]
     /\ shown[t] - offset >= feed.at - Retention}

\* Active, with terms that were not edited under the poll or alone.
Watches(r) ==
  /\ rule[r] # None /\ rule[r].on /\ r \in served
  /\ rule[r].init /\ ~raced[r]

Known(r) == rule[r].error \/ \A t \in Missed(r) : shown[t] < feed.gap

(***************************************************************************)
(* A gap is closed knowingly: what a rule misses is reported as its error, *)
(* or was listed, by the tracker's clock, before the gap's recorded        *)
(* beginning: in the moments between the reading of the last page and its  *)
(* storing, or while that clock was behind.  A full poll knows the rules   *)
(* it has selected, not one that was enabled under it.                     *)
(***************************************************************************)
GapClosedKnowingly ==
  [][Gap /\ feed'.gap = None =>
       \A r \in Rules :
         Watches(r) /\ (poll.full => poll.held[r] # None) => Known(r)]_vars
=============================================================================
