--------------------------- MODULE AttemptLimiter ---------------------------
(***************************************************************************)
(* Failed sign-ins are counted and spaced out (server/attempt-limiter.ts   *)
(* and its use in server/routes/auth.ts).                                  *)
(*                                                                         *)
(* An attempt is checked, takes its turn in the line of its account, waits *)
(* for it and compares the password; other attempts are checked and end    *)
(* meanwhile, and the check is not repeated.                               *)
(***************************************************************************)
EXTENDS AccountBase, Naturals, FiniteSets

CONSTANTS
  Addresses,
  Window,          \* windowMs
  AddressLimit, PairLimit, ChangeLimit,
  FreeFailures, InitialSpacing, MaximumSpacing, MaximumWait,
  Spacing          \* by failures: the initial spacing, doubled up to the maximum

VARIABLES
  now,
  buckets,   \* AttemptLimiter.buckets; no bucket is one that has run out
  nextTurn,  \* AttemptSpacer.nextTurns; no turn is one that has passed
  attempt,   \* the attempts that wait or compare, or None
  granted,   \* history: the turns that were given out in each line
  forgotten  \* history: lines that were dropped for want of room

limiterVars == <<now, buckets, nextTurn, attempt, granted, forgotten>>

AddressKey(a) == <<"login-address", a>>
PairKey(u, a) == <<"login-account-address", <<u, a>>>>
AccountKey(u) == <<"login-account", u>>
ChangeKey(u) == <<"password-change", u>>

\* The account's failures have no limit.
LimitedKeys == {AddressKey(a) : a \in Addresses} \cup {PairKey(u, a) : u \in Users, a \in Addresses}
               \cup {ChangeKey(u) : u \in Users}

AttemptKeys == LimitedKeys \cup {AccountKey(u) : u \in Users}

Buckets == [failures : Nat, resetAt : Nat]

Limit == [k \in LimitedKeys |-> CASE k[1] = "login-address" -> AddressLimit
                           [] k[1] = "login-account-address" -> PairLimit
                           [] OTHER -> ChangeLimit]

\* rules: what was checked; counted: what a failure counts for; cleared: what a
\* success resets; turn: when it may go on; line: in whose line, or None.
Attempts == [rules : SUBSET LimitedKeys, counted : SUBSET AttemptKeys, cleared : LimitedKeys,
             turn : Nat, line : Users \cup {None}]

LimiterTypeOK ==
  /\ now \in Nat
  /\ buckets \in [AttemptKeys -> Buckets]
  /\ nextTurn \in [Users -> Nat]
  /\ attempt \in [Slots -> Attempts \cup {None}]
  /\ granted \in [Users -> SUBSET Nat] /\ forgotten \subseteq Users

Empty == [failures |-> 0, resetAt |-> 0]

LimiterInit ==
  /\ now \in Nat
  /\ buckets = [k \in AttemptKeys |-> Empty] /\ nextTurn = [u \in Users |-> 0]
  /\ attempt = [s \in Slots |-> None]
  /\ granted = [u \in Users |-> {}] /\ forgotten = {}
-----------------------------------------------------------------------------
\* AttemptLimiter.failures.
Failures(k) == IF buckets[k].resetAt > now THEN buckets[k].failures ELSE 0

\* retryAfterMs is 0.
Room(rules) == \A k \in rules : Failures(k) < Limit[k]

\* recordFailure for one key.
Counted(bucket) ==
  IF bucket.resetAt > now THEN [bucket EXCEPT !.failures = @ + 1]
  ELSE [failures |-> 1, resetAt |-> now + Window]

Admit(s, rules, counted, cleared, turn, line) ==
  /\ attempt[s] = None /\ Room(rules)
  /\ attempt' = [attempt EXCEPT ![s] = [rules |-> rules, counted |-> counted, cleared |-> cleared,
                                        turn |-> turn, line |-> line]]
  /\ UNCHANGED <<now, buckets, forgotten>>

\* The later of now and the end of the line.
Turn(u) == IF nextTurn[u] > now THEN nextTurn[u] ELSE now

LoginRules(u, a) == {AddressKey(a), PairKey(u, a)}

\* POST /api/auth/login while the account has few failures: no turn is taken.
LoginFree(s, u, a) ==
  /\ Failures(AccountKey(u)) < FreeFailures
  /\ Admit(s, LoginRules(u, a), LoginRules(u, a) \cup {AccountKey(u)}, PairKey(u, a), now, None)
  /\ UNCHANGED <<nextTurn, granted>>

\* With many: reserve.  A longer line turns the attempt away, which changes
\* nothing.
LoginInLine(s, u, a) ==
  /\ Failures(AccountKey(u)) >= FreeFailures
  /\ Turn(u) <= now + MaximumWait
  /\ Admit(s, LoginRules(u, a), LoginRules(u, a) \cup {AccountKey(u)}, PairKey(u, a), Turn(u), u)
  /\ nextTurn' = [nextTurn EXCEPT ![u] = Turn(u) + Spacing[Failures(AccountKey(u))]]
  /\ granted' = [granted EXCEPT ![u] = @ \cup {Turn(u)}]

\* POST /api/auth/change-password.
ChangeAttempt(s, u) ==
  /\ Admit(s, {ChangeKey(u)}, {ChangeKey(u)}, ChangeKey(u), now, None)
  /\ UNCHANGED <<nextTurn, granted>>

\* The comparison after the wait does not match.
Fails(s) ==
  /\ attempt[s] # None /\ attempt[s].turn <= now
  /\ buckets' = [k \in AttemptKeys |-> IF k \in attempt[s].counted THEN Counted(buckets[k]) ELSE buckets[k]]
  /\ attempt' = [attempt EXCEPT ![s] = None]
  /\ UNCHANGED <<now, nextTurn, granted, forgotten>>

\* It does: the pair's failures are forgotten, the address's and the account's
\* are not.
Succeeds(s) ==
  /\ attempt[s] # None /\ attempt[s].turn <= now
  /\ buckets' = [buckets EXCEPT ![attempt[s].cleared] = Empty]
  /\ attempt' = [attempt EXCEPT ![s] = None]
  /\ UNCHANGED <<now, nextTurn, granted, forgotten>>

\* prune: there are more than maximumBuckets keys, or maximumKeys lines.
DropBucket(k) ==
  /\ buckets' = [buckets EXCEPT ![k] = Empty]
  /\ UNCHANGED <<now, nextTurn, attempt, granted, forgotten>>

DropLine(u) ==
  /\ nextTurn' = [nextTurn EXCEPT ![u] = 0]
  /\ forgotten' = IF nextTurn[u] > now THEN forgotten \cup {u} ELSE forgotten
  /\ UNCHANGED <<now, buckets, attempt, granted>>

Tick == now' = now + 1 /\ UNCHANGED <<buckets, nextTurn, attempt, granted, forgotten>>

\* The counts live in memory.
Restart ==
  /\ buckets' = [k \in AttemptKeys |-> Empty] /\ nextTurn' = [u \in Users |-> 0]
  /\ attempt' = [s \in Slots |-> None]
  /\ granted' = [u \in Users |-> {}] /\ forgotten' = {}
  /\ UNCHANGED now

LimiterNext ==
  \/ \E s \in Slots, u \in Users, a \in Addresses : LoginFree(s, u, a) \/ LoginInLine(s, u, a)
  \/ \E s \in Slots, u \in Users : ChangeAttempt(s, u)
  \/ \E s \in Slots : Fails(s) \/ Succeeds(s)
  \/ \E k \in AttemptKeys : DropBucket(k)
  \/ \E u \in Users : DropLine(u)
  \/ Tick \/ Restart

LimiterSpec == LimiterInit /\ [][LimiterNext]_limiterVars
-----------------------------------------------------------------------------
(* Properties. *)

\* The attempts that were checked against a key and have not ended.
InFlight(k) == {s \in Slots : attempt[s] # None /\ k \in attempt[s].rules}

(***************************************************************************)
(* An address, an account at an address and a password change get no more  *)
(* failures in a window than their limit and the attempts served at a time *)
(* allow: one that was checked long ago, or in the window before, counts.  *)
(***************************************************************************)
FailuresLimited ==
  \A k \in LimitedKeys :
    Failures(k) + Cardinality(InFlight(k)) < Limit[k] + Cardinality(Slots)

(***************************************************************************)
(* "guesses from any number of addresses are held to one per spacing       *)
(* interval": the turns given out in an account's line are apart by the    *)
(* initial spacing at least, and no two attempts hold the same, unless the *)
(* line was dropped for want of room.                                      *)
(***************************************************************************)
TurnsApart ==
  \A u \in Users \ forgotten :
    /\ \A x, y \in granted[u] : x < y => x + InitialSpacing <= y
    /\ \A s, t \in Slots :
         s # t /\ attempt[s] # None /\ attempt[t] # None
         /\ attempt[s].line = u /\ attempt[t].line = u
         => attempt[s].turn # attempt[t].turn

(***************************************************************************)
(* "instead of blocking it": whoever is in line waits no longer than the   *)
(* maximum, and who is turned away finds room after the maximum spacing,   *)
(* if nobody else has taken it by then.                                    *)
(***************************************************************************)
WaitsBounded ==
  /\ \A s \in Slots : attempt[s] # None => attempt[s].turn <= now + MaximumWait
  /\ \A u \in Users : nextTurn[u] <= now + MaximumWait + MaximumSpacing
=============================================================================
