--------------------------- MODULE KinozalSession ---------------------------
(***************************************************************************)
(* Signing in to Kinozal: KinozalSessionManager.get                        *)
(* (server/trackers/plugins/kinozal/auth.ts) over IntegratedBrowserClient. *)
(*                                                                         *)
(* The checks of a user's subscriptions ask for pages side by side (the    *)
(* tracker's lane, and the timers of queued checks).  They share a session *)
(* entry: a client, whether it is signed in, and a pause after a failure.  *)
(* The entry is replaced when the user's account changes, while others may *)
(* be using it; the new client opens the same profile, with whatever       *)
(* cookie is there.                                                        *)
(***************************************************************************)
EXTENDS BrowserSession, FiniteSets

CONSTANTS
  Accounts,
  Lane,       \* the caller that polls; the others are queued checks
  MaxEvents   \* bound: queued checks, changes of the configured account,
              \* sessions ended by the tracker, and aged or crashed Chromes

ASSUME KinozalAssumption ==
  /\ None \notin Clients \cup Callers \cup Accounts \cup Kinds
  /\ IsFiniteSet(Callers)
  /\ Accounts # {}
  /\ Lane \in Callers
  /\ MaxEvents \in Nat

VARIABLES
  cookie,     \* the account signed in with in the profile, or None
  account,    \* the account configured
  current,    \* the client of the manager's entry, or None
  entry,      \* the entry made with each client, also after it was replaced
  caller,     \* for each: where it is, the entry and the account it holds
  attempts,   \* history: sign-ins of an entry since its pause was last lifted
  events

Entries == [account : Accounts \cup {None}, authenticated : BOOLEAN, paused : BOOLEAN]

vars == <<browser, cookie, account, current, entry, caller, attempts, events>>

Idle == [at |-> "out", client |-> None, account |-> None, again |-> FALSE]
Fresh == [account |-> None, authenticated |-> FALSE, paused |-> FALSE]

Init ==
  /\ browser = [c \in Clients |-> Unused]
  /\ cookie = None
  /\ account = CHOOSE a \in Accounts : TRUE
  /\ current = None
  /\ entry = [c \in Clients |-> Fresh]
  /\ caller = [p \in Callers |-> Idle]
  /\ attempts = [c \in Clients |-> 0]
  /\ events = 0

-----------------------------------------------------------------------------
(* What a caller does in one turn: how it leaves the entry, and the        *)
(* operation it waits for next, or None once it is through.                *)

\* deferRetry, clearRetry.
Paused(e) == [e EXCEPT !.paused = TRUE]
Cleared(e) == [e EXCEPT !.paused = FALSE]

\* ensureAuthenticated, once it did not succeed.
SignInFailed_NoPause(e) == [e EXCEPT !.authenticated = FALSE]
SignInFailed(e) == [Paused(e) EXCEPT !.authenticated = FALSE]
SignedIn(e) == [Cleared(e) EXCEPT !.authenticated = TRUE]

\* get found a login page.
Expired_Kept(e) == e
Expired(e) == [e EXCEPT !.authenticated = FALSE]

\* rejectDuringBackoff, then what ensureAuthenticated or request asks for.
NextKind(e) == IF e.paused THEN None ELSE IF e.authenticated THEN "page" ELSE "landing"

\* p goes on with client c, entry e and the client's state b.
GoOn(p, c, b, e, a, kind, again) ==
  /\ Step(c, IF kind = None THEN b ELSE Enqueued(b, [who |-> p, kind |-> kind]))
  /\ entry' = [entry EXCEPT ![c] = e]
  /\ caller' = [caller EXCEPT
                 ![p] = IF kind = None THEN Idle
                        ELSE [at |-> "waiting", client |-> c, account |-> a, again |-> again]]
  /\ attempts' = [attempts EXCEPT ![c] = IF kind = "form" THEN @ + 1
                                         ELSE IF ~e.paused /\ (entry[c].paused \/ e.authenticated)
                                         THEN 0 ELSE @]

Event == events < MaxEvents /\ events' = events + 1
Call(p) == IF p = Lane THEN UNCHANGED events ELSE Event

\* get, with the entry there and not paused.
Get(p) ==
  /\ Call(p)
  /\ caller[p] = Idle /\ current # None
  /\ entry[current].account = account /\ ~entry[current].paused
  /\ GoOn(p, current, browser[current], entry[current], account,
          NextKind(entry[current]), FALSE)
  /\ UNCHANGED <<cookie, account, current>>

\* entry: a new one is made with a client of its own.
Made(p, c, a) ==
  /\ current' = c
  /\ GoOn(p, c, browser[c], [Fresh EXCEPT !.account = a], a, "landing", FALSE)

\* Bound: there is one that was not used, as ChangeAccount sees to.
ClientLeft == \E c \in Clients : entry[c] = Fresh
NewClient == CHOOSE c \in Clients : entry[c] = Fresh

FirstGet(p) ==
  /\ Call(p) /\ ClientLeft
  /\ caller[p] = Idle /\ current = None
  /\ Made(p, NewClient, account)
  /\ UNCHANGED <<cookie, account>>

\* entry: the account changed; the old client is closed first.
Replace(p) ==
  /\ Call(p)
  /\ caller[p] = Idle /\ current # None /\ entry[current].account # account
  /\ Step(current, Enqueued(browser[current], [who |-> p, kind |-> "close"]))
  /\ caller' = [caller EXCEPT ![p] = [at |-> "replacing", client |-> current,
                                      account |-> account, again |-> FALSE]]
  /\ UNCHANGED <<cookie, account, current, entry, attempts>>

\* Whatever entry is there by now is replaced.
Replaced(p) ==
  LET old == caller[p].client
      c == NewClient
  IN /\ caller[p].at = "replacing" /\ ClientLeft
     /\ browser[old].at = "close" /\ browser[old].chrome = "none"
     /\ Running(old).who = p
     /\ current' = c
     /\ browser' = [browser EXCEPT
                     ![old] = Ended(@),
                     ![c] = Enqueued(@, [who |-> p, kind |-> "landing"])]
     /\ entry' = [entry EXCEPT ![c] = [Fresh EXCEPT !.account = caller[p].account]]
     /\ caller' = [caller EXCEPT ![p] = [@ EXCEPT !.at = "waiting", !.client = c]]
     /\ UNCHANGED <<cookie, account, attempts, events>>

-----------------------------------------------------------------------------
(* The answers of the tracker, each with the turn of the caller it wakes.  *)

Waits(p, kind) ==
  LET c == caller[p].client
  IN /\ caller[p].at = "waiting"
     /\ browser[c].queue # <<>> /\ Running(c) = [who |-> p, kind |-> kind]

Shows(p, kind) ==
  /\ Waits(p, kind)
  /\ browser[caller[p].client].at = "load" /\ browser[caller[p].client].chrome = "up"

\* p's operation ends; it leaves its entry as e and asks for kind next.
Turn(p, e, kind, again) ==
  LET c == caller[p].client
  IN GoOn(p, c, Ended(browser[c]), e, caller[p].account, kind, again)

EntryOf(p) == entry[caller[p].client]

\* The landing page: signed in already, or the form.
Landed(p) ==
  /\ Shows(p, "landing")
  /\ IF cookie # None
     THEN Turn(p, SignedIn(EntryOf(p)), "page", caller[p].again)
     ELSE Turn(p, EntryOf(p), "form", caller[p].again)
  /\ UNCHANGED <<cookie, account, current, events>>

\* The form, if the page still has one, is accepted.
FormAccepted(p) ==
  /\ Shows(p, "form") /\ cookie = None
  /\ cookie' = caller[p].account
  /\ Turn(p, SignedIn(EntryOf(p)), "page", caller[p].again)
  /\ UNCHANGED <<account, current, events>>

\* request answers: the caller is served, unless the tracker shows its login
\* page, which is answered by one more sign-in.
PageServed(p) ==
  /\ Shows(p, "page") /\ cookie # None
  /\ Turn(p, Cleared(EntryOf(p)), None, FALSE)
  /\ UNCHANGED <<cookie, account, current, events>>

PageNeedsLogin(p) ==
  /\ Shows(p, "page") /\ cookie = None
  /\ LET e == Expired(Cleared(EntryOf(p)))
     IN IF caller[p].again THEN Turn(p, Paused(Cleared(EntryOf(p))), None, FALSE)
        ELSE Turn(p, e, NextKind(e), TRUE)
  /\ UNCHANGED <<cookie, account, current, events>>

\* A timeout, an error, a challenge, a refusal, no form on the page any more,
\* Chrome not started or closed again.
Fails(p) ==
  /\ \E kind \in {"landing", "form", "page"} :
       /\ Waits(p, kind)
       /\ \/ Shows(p, kind)
          \/ BrokenAgain(caller[p].client)
          \/ CanLaunch(caller[p].client)
       /\ Turn(p, IF kind = "page" THEN Paused(EntryOf(p)) ELSE SignInFailed(EntryOf(p)),
               None, FALSE)
  /\ UNCHANGED <<cookie, account, current, events>>

\* The pause is over (retryAfter).
PauseEnds(c) ==
  /\ entry[c].paused
  /\ entry' = [entry EXCEPT ![c] = Cleared(@)]
  /\ attempts' = [attempts EXCEPT ![c] = 0]
  /\ UNCHANGED <<browser, cookie, account, current, caller, events>>

-----------------------------------------------------------------------------
(* Environment. *)

\* Bound: as long as there are clients for those who replace one, each of whom
\* leaves one for an account of before, and for every caller after each of them.
ChangeAccount ==
  LET replacing == Cardinality({p \in Callers : caller[p].at = "replacing"})
  IN
  /\ Event
  /\ Cardinality({c \in Clients : entry[c] = Fresh})
       >= replacing + (1 + replacing) * Cardinality(Callers)
  /\ account' \in Accounts \ {account}
  /\ UNCHANGED <<browser, cookie, current, entry, caller, attempts>>

SessionEnds ==
  /\ Event
  /\ cookie # None /\ cookie' = None
  /\ UNCHANGED <<browser, account, current, entry, caller, attempts>>

ChromeFails(c) ==
  /\ Event
  /\ Dies(c) \/ Ages(c)
  /\ UNCHANGED <<cookie, account, current, entry, caller, attempts>>

unbrowsed == <<cookie, account, current, entry, caller, attempts, events>>

Answered(p) == Landed(p) \/ FormAccepted(p) \/ PageServed(p) \/ PageNeedsLogin(p)
Asks(p) == Get(p) \/ FirstGet(p) \/ Replace(p)

Next ==
  \/ \E p \in Callers : Asks(p) \/ Replaced(p) \/ Answered(p) \/ Fails(p)
  \/ \E c \in Clients :
       \/ PauseEnds(c) \/ ChromeFails(c)
       \/ UNCHANGED unbrowsed /\ (Proceeds(c) \/ IdleFires(c))
  \/ ChangeAccount \/ SessionEnds

Spec == Init /\ [][Next]_vars

(***************************************************************************)
(* Fairness.  Polls go on, operations have timeouts, timers fire and       *)
(* pauses end; of the pages and forms tried over and over one is answered. *)
(***************************************************************************)
ClientWorks(c) ==
  \/ UNCHANGED unbrowsed /\ (Proceeds(c) \/ IdleFires(c))
  \/ \E p \in Callers :
       caller[p].client = c /\ (Replaced(p) \/ Answered(p) \/ Fails(p))

Fairness ==
  /\ WF_vars(Asks(Lane))
  /\ \A c \in Clients : WF_vars(ClientWorks(c))
  /\ WF_vars(\E c \in Clients : PauseEnds(c))
  /\ SF_vars(\E c \in Clients : UNCHANGED unbrowsed /\ Launch(c))
  /\ SF_vars(\E p \in Callers : Landed(p))
  /\ SF_vars(\E p \in Callers : FormAccepted(p))
  /\ SF_vars(\E p \in Callers : PageServed(p) \/ PageNeedsLogin(p))

FairSpec == Spec /\ Fairness

-----------------------------------------------------------------------------
(* Properties. *)

TypeOK ==
  /\ browser \in [Clients -> Browsers]
  /\ cookie \in Accounts \cup {None} /\ account \in Accounts
  /\ current \in Clients \cup {None}
  /\ entry \in [Clients -> Entries]
  /\ caller \in [Callers -> [at : {"out", "replacing", "waiting"},
                             client : Clients \cup {None},
                             account : Accounts \cup {None}, again : BOOLEAN]]
  /\ attempts \in [Clients -> Nat]
  /\ events \in 0..MaxEvents

(***************************************************************************)
(* "Kinozal limits login attempts": a failure pauses the session, so of    *)
(* the requests that run side by side each submits the form at most once   *)
(* before the pause ends or a success lifts it.                            *)
(***************************************************************************)
AttemptsLimited ==
  \A c \in Clients : attempts[c] <= Cardinality(Callers)

(***************************************************************************)
(* A client that was replaced does not keep its Chrome and the profile,    *)
(* though the requests that still hold it may have started it again after  *)
(* it was closed: it is closed in the end.                                 *)
(***************************************************************************)
ReplacedCloses ==
  []<>(\A c \in Clients : entry[c] # Fresh /\ c # current => browser[c].chrome = "none")

(***************************************************************************)
(* The session recovers: whatever failures, sign-ins that overlap, expired *)
(* sessions, crashes and changes of the account came before, pages are     *)
(* served again.                                                           *)
(***************************************************************************)
Recovers == []<><<\E p \in Callers : PageServed(p)>>_vars
=============================================================================
