----------------------------- MODULE RuleWatch -----------------------------
(***************************************************************************)
(* What a rule promises its user, without feeds, polls and awaits.  A rule *)
(* watches for the releases its terms match.  Each of them it either       *)
(* accepts silently or tells once, only while it is enabled and by the     *)
(* terms it has at that moment.  New terms begin anew.                     *)
(*                                                                         *)
(* Releases are looked for in checks, one at a time.  A check takes up     *)
(* enabled rules that are served: neither their owner nor their tracker is *)
(* disabled.  What it took up it may finish.                               *)
(***************************************************************************)
CONSTANTS Rules, Topics, None

VARIABLES
  watched,   \* the topics the terms match, or None
  active,    \* the rule is enabled
  served,
  checked,   \* the rules the check at work has taken up
  settled,   \* releases accepted or told
  told

watchVars == <<watched, active, served, checked, settled, told>>

WatchInit ==
  /\ watched = [r \in Rules |-> None]
  /\ active = [r \in Rules |-> FALSE]
  /\ served = Rules
  /\ checked = {}
  /\ settled = [r \in Rules |-> {}]
  /\ told = [r \in Rules |-> {}]

\* The rule is created, deleted or gets other terms.
Begin(r) ==
  /\ \E terms \in (SUBSET Topics) \cup {None} : watched' = [watched EXCEPT ![r] = terms]
  /\ \E on \in BOOLEAN : active' = [active EXCEPT ![r] = on]
  /\ settled' = [settled EXCEPT ![r] = {}]
  /\ told' = [told EXCEPT ![r] = {}]
  /\ UNCHANGED <<served, checked>>

Switch(r) ==
  /\ active' = [active EXCEPT ![r] = ~@]
  /\ UNCHANGED <<watched, served, checked, settled, told>>

Enable(rules) ==
  /\ served' = rules
  /\ UNCHANGED <<watched, active, checked, settled, told>>

TakeUp(rules) ==
  /\ checked = {}
  /\ \A r \in rules : watched[r] # None /\ active[r] /\ r \in served
  /\ checked' = rules
  /\ UNCHANGED <<watched, active, served, settled, told>>

Finish ==
  /\ checked' = {}
  /\ UNCHANGED <<watched, active, served, settled, told>>

Watching(r, t) ==
  /\ r \in checked
  /\ watched[r] # None /\ active[r]
  /\ t \in watched[r] \ settled[r]

Tell(r, t) ==
  /\ Watching(r, t)
  /\ settled' = [settled EXCEPT ![r] = @ \cup {t}]
  /\ told' = [told EXCEPT ![r] = @ \cup {t}]
  /\ UNCHANGED <<watched, active, served, checked>>

\* A baseline accepts all there is at once.
AcceptAll(r, accepted) ==
  /\ \A t \in accepted : Watching(r, t)
  /\ settled' = [settled EXCEPT ![r] = @ \cup accepted]
  /\ UNCHANGED <<watched, active, served, checked, told>>

WatchNext ==
  \/ \E rules \in SUBSET Rules : Enable(rules) \/ TakeUp(rules)
  \/ Finish
  \/ \E r \in Rules :
       \/ Begin(r) \/ Switch(r)
       \/ \E t \in Topics : Tell(r, t)
       \/ \E accepted \in SUBSET Topics : AcceptAll(r, accepted)

WatchSpec == WatchInit /\ [][WatchNext]_watchVars
=============================================================================
