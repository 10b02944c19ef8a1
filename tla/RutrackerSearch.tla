--------------------------- MODULE RutrackerSearch ---------------------------
(***************************************************************************)
(* The search that catches up on a gap of the feed                         *)
(* (server/trackers/plugins/rutracker/search.ts, on the cookie session of  *)
(* trackers/core/transport/http.ts), over the feed of FeedCoverage.        *)
(*                                                                         *)
(* A search reads the tracker's results page by page, the latest listing   *)
(* first, while topics are listed and removed.  The tracker shows results  *)
(* to a signed-in client only; the session is kept between searches, and   *)
(* the tracker may end it at any time.                                     *)
(*                                                                         *)
(* One user's client and one search for each poll are modelled.  A lapsed  *)
(* session is answered with the login page, not with HTTP 401.             *)
(***************************************************************************)
EXTENDS FeedAssist

CONSTANTS
  Queries,            \* sets of topics: what the phrases of a group match
  ResultPage,         \* topics on a page of results
  MaxRecoveryPages,   \* MAX_RECOVERY_PAGES
  Mirrors,            \* addresses the user may reach the tracker at
  MaxChanges          \* bound: changes of the account and of the session

ASSUME SearchAssumption ==
  /\ Queries \subseteq SUBSET Topics
  /\ ResultPage \in Nat \ {0} /\ MaxRecoveryPages \in Nat \ {0}
  /\ MaxChanges \in Nat
  /\ None \notin Mirrors \cup {"due", "complete", "final", "retry"}

VARIABLES
  account,   \* the tracker account of the user and the mirror that is set
  client,    \* the SearchClient
  alive,     \* whether the tracker knows the session in the client's jar
  search,    \* the call of recover, or None
  result,    \* the search of this poll: due, how it ended, or None
  changes

searchVars == <<account, client, alive, search, result, changes>>
trackerVars == <<feedVars, searchVars>>

Accounts == [login : {"right", "wrong", None}, mirror : Mirrors]

\* jar: the mirror whose session cookie the CookieSession holds.
Clients == [authenticated : BOOLEAN, jar : Mirrors \cup {None}]

\* at: the request on its way ("beyond": of a page past the limit); login,
\* mirror: the context of the call; read,
\* start: pages read and where the next begins; got: the releases so far.
\* History: before, what was listed when the search began; shrunk, whether a
\* topic was removed since.
Searches == [at : {"existing", "clearance", "login", "results", "beyond"}, query : Queries,
             login : {"right", "wrong"}, mirror : Mirrors,
             read : 0..MaxRecoveryPages, start : Nat, got : Listings,
             before : Listings, shrunk : BOOLEAN]

SearchTypeOK ==
  /\ FeedTypeOK
  /\ account \in Accounts /\ client \in Clients /\ alive \in BOOLEAN
  /\ search \in Searches \cup {None}
  /\ result \in {"due", "complete", "final", "retry", None}
  /\ changes \in 0..MaxChanges

NewClient == [authenticated |-> FALSE, jar |-> None]

SearchInit ==
  /\ FeedInit
  /\ account \in Accounts /\ account.login = "right"
  /\ client = NewClient /\ alive = FALSE
  /\ search = None /\ result = None
  /\ changes = 0
-----------------------------------------------------------------------------
(* The tracker and the user. *)

Change == changes < MaxChanges /\ changes' = changes + 1

\* The tracker ends the session.
SessionEnds ==
  /\ alive
  /\ alive' = FALSE
  /\ Change
  /\ UNCHANGED <<feedVars, account, client, search, result>>

\* A topic is removed from the tracker: what was listed before it moves up.  It
\* matters, and is modelled, while results are read.
Remove(t) ==
  /\ search # None /\ listed[t] # None
  /\ Change
  /\ listed' = [listed EXCEPT ![t] = None]
  /\ search' = [search EXCEPT !.shrunk = TRUE]
  /\ UNCHANGED <<now, offset, cache, feed, buffer, shown, skipped, account, client, alive, result>>

\* PUT of the tracker's account: credentials, or none, and the mirror.
SetAccount(new) ==
  /\ account # new
  /\ Change
  /\ account' = new
  /\ UNCHANGED <<feedVars, client, alive, search, result>>

World ==
  /\ (\E t \in Topics : Publish(t)) \/ Tick
  /\ UNCHANGED searchVars

\* The process starts again.
Restart ==
  /\ <<cache, client, search, result>> # <<None, NewClient, None, None>>
  /\ cache' = None
  /\ client' = NewClient /\ alive' = FALSE
  /\ search' = None /\ result' = None
  /\ UNCHANGED <<world, feed, buffer, shown, skipped, account, changes>>
-----------------------------------------------------------------------------
(* The poll around the search. *)

LaneReads == search = None /\ ReadFeed /\ UNCHANGED searchVars

\* With a gap the poll goes on to the group's search without giving way.
LaneIngests ==
  /\ search = None
  /\ Ingest
  /\ result' = IF feed'.gap # None THEN "due" ELSE None
  /\ UNCHANGED <<account, client, alive, search, changes>>

\* The rules have caught up before, or accept what is there.
Skip ==
  /\ result = "due"
  /\ result' = "complete"
  /\ UNCHANGED <<feedVars, account, client, alive, search, changes>>

\* A full poll closes the gap unless the search is to be retried.
LaneEnds ==
  /\ result \in {"complete", "final"}
  /\ CloseGap
  /\ result' = None
  /\ UNCHANGED <<account, client, alive, search, changes>>

\* What recover is called with.
Call(q) ==
  [at |-> IF client.authenticated THEN "existing" ELSE "clearance",
   query |-> q, login |-> account.login, mirror |-> account.mirror,
   read |-> 0, start |-> 0, got |-> Nothing, before |-> listed, shrunk |-> FALSE]

\* recover, up to its first request; without credentials it fails for good.
Recover(q) ==
  /\ result = "due"
  /\ IF account.login = None
     THEN result' = "final" /\ UNCHANGED search
     ELSE search' = Call(q) /\ result' = None
  /\ UNCHANGED <<feedVars, account, client, alive, changes>>
-----------------------------------------------------------------------------
(* Pages of results. *)

Found(q) == q \cap Entries(listed)

Position(q, t) == Cardinality(After(listed, t) \cap q)

\* The page from position start on, as the tracker shows it now.
ResultsFrom(q, start) ==
  [t \in Topics |->
     IF t \in Found(q) /\ Position(q, t) \in start..(start + ResultPage - 1)
     THEN listed[t] ELSE None]

\* nextUrl.
HasNext(q, start) == Cardinality(Found(q)) > start + ResultPage

End(outcome) == search' = None /\ result' = outcome

\* The releases read so far are returned, or the next page is asked for, even
\* when no more of them may be read.
TakePage(got, complete) ==
  IF complete
  THEN CatchUp(got) /\ End("complete")
  ELSE /\ search' = [search EXCEPT
            !.at = IF search.read + 1 = MaxRecoveryPages THEN "beyond" ELSE "results",
            !.read = @ + 1, !.start = @ + ResultPage, !.got = got]
       /\ UNCHANGED <<feedVars, result>>

\* A page of results has come: releases older than the gap are dropped, and
\* with one of them, or without a next page, the search is complete.
ReadPage ==
  LET page == ResultsFrom(search.query, search.start)
      got == [t \in Topics |->
                IF search.got[t] = None /\ page[t] # None /\ page[t] >= feed.gap
                THEN page[t] ELSE search.got[t]]
      older == \E t \in Entries(page) : page[t] < feed.gap
  IN  TakePage(got, older \/ ~HasNext(search.query, search.start))
-----------------------------------------------------------------------------
(* The session. *)

\* A request to the mirror carries the session's cookie, and the session lives.
SignedIn == client.jar = search.mirror /\ alive

\* Mutant: the login page of a lapsed session fails the search.
SignInAnew_Throws ==
  /\ End("final")
  /\ client' = [client EXCEPT !.authenticated = FALSE]

\* The client signs in anew.
SignInAnew ==
  /\ search' = [search EXCEPT !.at = "clearance"]
  /\ client' = [client EXCEPT !.authenticated = FALSE]
  /\ UNCHANGED result

\* openSearch with the session of an earlier search: results, or the login page
\* in their place, or a refusal (HTTP 403) of either.
ExistingAnswers ==
  /\ search # None /\ search.at = "existing"
  /\ \/ SignedIn /\ ReadPage /\ UNCHANGED client
     \/ SignInAnew /\ UNCHANGED feedVars
  /\ UNCHANGED <<account, alive, changes>>

\* clear and seedCookies: the browser's cookies replace what the jar holds.
Seeded == [client EXCEPT !.jar = None]

\* captureCookies: the jar takes the session cookie of an answer.
Captured == [client EXCEPT !.jar = search.mirror]

\* The browser returns clearance cookies.
ClearanceComes ==
  /\ search # None /\ search.at = "clearance"
  /\ client' = Seeded /\ alive' = FALSE
  /\ search' = [search EXCEPT !.at = "login"]
  /\ UNCHANGED <<feedVars, account, result, changes>>

\* The form was sent with the right password: the answer's cookie is in the
\* jar, and the answer is the page of results, or another page than it.
LoggedIn ==
  /\ search # None /\ search.at = "login" /\ search.login = "right"
  /\ client' = [Captured EXCEPT !.authenticated = TRUE]
  /\ alive' = TRUE
  /\ \/ ReadPage
     \/ search' = [search EXCEPT !.at = "results"] /\ UNCHANGED <<feedVars, result>>
  /\ UNCHANGED <<account, changes>>

\* The login page again.
LoginRefused ==
  /\ search # None /\ search.at = "login" /\ search.login = "wrong"
  /\ End("final")
  /\ UNCHANGED <<feedVars, account, client, alive, changes>>

\* A page of results has come, or the login page in place of it.
ResultsAnswer ==
  /\ search # None /\ search.at = "results"
  /\ IF SignedIn THEN ReadPage ELSE End("final") /\ UNCHANGED feedVars
  /\ UNCHANGED <<account, client, alive, changes>>

\* Mutant: a search that stops at its limit counts as complete.
LimitReached_Completes ==
  /\ search # None /\ search.at = "beyond"
  /\ CatchUp(search.got) /\ End("complete")
  /\ UNCHANGED <<account, client, alive, changes>>

\* An answer past the limit is not looked at: what was read is returned as
\* incomplete, and a retry would stop there again.
LimitReached ==
  /\ search # None /\ search.at = "beyond"
  /\ CatchUp(search.got) /\ End("final")
  /\ UNCHANGED <<account, client, alive, changes>>

\* A request fails in a way another poll may not meet; of a sign-in, the cookie
\* may have come with a redirect before.
RequestFails ==
  /\ search # None
  /\ End("retry")
  /\ \/ UNCHANGED <<client, alive>>
     \/ /\ search.at = "login" /\ search.login = "right"
        /\ client' = Captured
        /\ alive' = TRUE
  /\ UNCHANGED <<feedVars, account, changes>>

Search ==
  \/ ExistingAnswers \/ ClearanceComes \/ LoggedIn \/ LoginRefused \/ ResultsAnswer
  \/ LimitReached \/ RequestFails

\* What happens while the process waits.
Meanwhile ==
  \/ World \/ SessionEnds
  \/ \E t \in Topics : Remove(t)
  \/ \E new \in Accounts : SetAccount(new)
  \/ LaneReads \/ LaneIngests \/ LaneEnds
  \/ Search

SearchNext ==
  \/ result # "due" /\ Meanwhile
  \/ Skip \/ \E q \in Queries : Recover(q)
  \/ Restart

SearchSpec == SearchInit /\ [][SearchNext]_trackerVars
-----------------------------------------------------------------------------
Ends(outcome) == search # None /\ search' = None /\ result' = outcome

(***************************************************************************)
(* A search that counts as complete has found every release of its phrases *)
(* that was listed since the gap began when the search did, and that is    *)
(* still listed so: a page more or less, and topics that move down while   *)
(* the pages are read, do not hide one.  A topic that is removed meanwhile *)
(* moves the next ones up, over the edge of a page that was read.          *)
(***************************************************************************)
SearchIsComplete ==
  [][Ends("complete") =>
       \A t \in search.query :
         /\ search.before[t] # None /\ search.before[t] >= feed.gap
         /\ listed[t] = search.before[t] /\ ~search.shrunk
         => Holds(buffer', t, search.before[t])]_trackerVars

(***************************************************************************)
(* "Retrying cannot help until the user changes something": a search that  *)
(* is not to be retried was refused the user's password, or read as many   *)
(* pages as it may; or its session ended between two of its pages, which   *)
(* is taken for a refusal although the next search would sign in anew.     *)
(***************************************************************************)
FinalMeansFinal ==
  [][Ends("final") =>
       \/ search.login = "wrong"
       \/ search.read = MaxRecoveryPages
       \/ search.at = "results" /\ ~alive]_trackerVars
=============================================================================
