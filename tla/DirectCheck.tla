---------------------------- MODULE DirectCheck ----------------------------
(***************************************************************************)
(* The check of a direct subscription: Scheduler.checkSubscription,        *)
(* checkDirect and checkDirectOnce (server/scheduler.ts) against the       *)
(* handlers that create, edit and delete the subscription meanwhile        *)
(* (server/routes/subscriptions.ts).                                       *)
(*                                                                         *)
(* Node runs one piece of code at a time; a check gives way at its awaits: *)
(* the page request, the cover request and the file operations after it.   *)
(* Whatever it read before an await may be gone after it.  Everything is   *)
(* keyed by the subscription's identifier, so one identifier is modelled;  *)
(* a deleted one is given out again by the next insert.                    *)
(***************************************************************************)
EXTENDS Naturals, FiniteSets

CONSTANTS
  Users,
  Urls,        \* topics; the tracker follows from the URL
  Versions,    \* fingerprints of a topic's page
  Mirrors,     \* base URLs the tracker is read from
  Callers,     \* bound: overlapping requests and queued checks
  None,        \* SQL NULL, or no row
  MaxEdits,    \* bound: edits of the subscription and its surroundings
  MaxCrashes   \* bound: crashes

\* What a check stores of a page (current_snapshot, current_fingerprint).
\* seen: not the placeholder of a topic the feed did not show; old: written
\* by an earlier version; from (history): the page it was read from.
Snapshots == [fp : Versions, seen : BOOLEAN, old : BOOLEAN, from : Urls]

\* A row as checkDirectOnce holds it: the columns its guards compare.
Rows == [owner : Users, url : Urls, mirror : Mirrors, stored : Snapshots \cup {None}]

\* The subscription in the database; on: it, its owner and its tracker's mirror
\* are enabled; error: last_error is set.
Subscriptions == [owner : Users, url : Urls, on : BOOLEAN,
                  stored : Snapshots \cup {None}, error : BOOLEAN]

\* An entry of directChecks with the state of its check: the await it is at,
\* the row it holds, the snapshot once it is there, and whether refresh cached
\* artwork.
Checks == {c \in [stage : {"skip", "fetch", "retrieve", "tail", "drop"},
                  row : Rows, snap : Snapshots \cup {None}, fetched : BOOLEAN] :
           /\ c.stage \in {"retrieve", "tail"} => c.snap # None
           /\ c.fetched => c.stage \in {"tail", "drop"}}

\* Where a caller of checkSubscription is, and for whom it asks.
Places == [at : {"out", "queued", "ready", "joined", "leading"},
           user : Users \cup {None}]

\* The last change reported; n tells two apart.
Events == [n : 0..1, from : Snapshots \cup {None}, to : Snapshots \cup {None},
           user : Users \cup {None}]

ASSUME ConstantsAssumption ==
  /\ None \notin Users \cup Urls \cup Versions
  /\ None \notin Snapshots /\ None \notin Subscriptions /\ None \notin Checks
  /\ MaxEdits \in Nat /\ MaxCrashes \in Nat

VARIABLES
  sub,       \* the row, or None
  mirror,
  cover,     \* the cover row: the topic the artwork is of, or None
  check,     \* the entry of directChecks, or None
  caller,
  patching,  \* the user whose PATCH handler waits for coverCache.remove, or None
  deleting,  \* a DELETE handler waits for coverCache.remove
  event,     \* history: the last change reported
  owed,      \* history: a new or edited topic waits for its first check
  left,      \* history: a crash left the artwork of another topic
  edits, crashes

handlers == <<patching, deleting>>
vars == <<sub, mirror, cover, check, caller, handlers, event, owed, left,
          edits, crashes>>

NoEvent == [n |-> 0, from |-> None, to |-> None, user |-> None]

TypeOK ==
  /\ sub \in Subscriptions \cup {None}
  /\ mirror \in Mirrors
  /\ cover \in Urls \cup {None}
  /\ check \in Checks \cup {None}
  /\ caller \in [Callers -> Places]
  /\ \A w \in Callers : caller[w].at \in {"joined", "leading"} => check # None
  /\ patching \in Users \cup {None} /\ deleting \in BOOLEAN
  /\ event \in Events
  /\ owed \in BOOLEAN /\ left \in BOOLEAN
  /\ edits \in 0..MaxEdits /\ crashes \in 0..MaxCrashes

Idle == [at |-> "out", user |-> None]

Init ==
  /\ sub \in Subscriptions \cup {None}
  /\ sub # None =>
       /\ sub.on /\ ~sub.error
       /\ sub.stored # None /\ sub.stored.seen /\ sub.stored.old
       /\ sub.stored.from = sub.url
  /\ mirror \in Mirrors
  /\ cover = None
  /\ check = None
  /\ caller = [w \in Callers |-> Idle]
  /\ patching = None /\ deleting = FALSE
  /\ event = NoEvent
  /\ owed = FALSE /\ left = FALSE
  /\ edits = 0 /\ crashes = 0
-----------------------------------------------------------------------------
(* Handlers and administration. *)

\* One edit more, each counted against the bound.
Edit == edits < MaxEdits /\ edits' = edits + 1

\* queueSubscriptionCheck: a timer of its own for every call.
Queue(u) ==
  \E w \in Callers :
    /\ caller[w].at = "out"
    /\ caller' = [caller EXCEPT ![w] = [at |-> "queued", user |-> u]]

\* POST /api/subscriptions.
Create(u, url) ==
  /\ sub = None
  /\ Edit
  /\ sub' = [owner |-> u, url |-> url, on |-> TRUE, stored |-> None, error |-> FALSE]
  /\ Queue(u)
  /\ owed' = TRUE
  /\ UNCHANGED <<mirror, cover, check, handlers, event, left, crashes>>

\* PATCH with another URL: the baseline goes with it in one transaction, and
\* the cover row before the handler first waits.
PatchUrl(url) ==
  /\ sub # None /\ patching = None /\ url # sub.url
  /\ Edit
  /\ sub' = [sub EXCEPT !.url = url, !.stored = None, !.error = FALSE]
  /\ cover' = None
  /\ left' = FALSE
  /\ patching' = sub.owner
  /\ owed' = sub.on
  /\ UNCHANGED <<mirror, check, caller, deleting, event, crashes>>

\* The cover file is gone; PATCH queues the check of the new topic.
PatchQueues ==
  /\ patching # None
  /\ patching' = None
  /\ Queue(patching)
  /\ UNCHANGED <<sub, mirror, cover, check, deleting, event, owed, left, edits, crashes>>

\* DELETE of the subscription or of its collection removes the cover first.
DeleteBegins ==
  /\ sub # None /\ ~deleting
  /\ Edit
  /\ cover' = None
  /\ left' = FALSE
  /\ deleting' = TRUE
  /\ UNCHANGED <<sub, mirror, check, caller, patching, event, owed, crashes>>

\* The row goes after an await, and a cover row stored meanwhile with it.
DeleteEnds ==
  /\ deleting
  /\ deleting' = FALSE
  /\ sub' = None
  /\ cover' = None
  /\ owed' = FALSE /\ left' = FALSE
  /\ UNCHANGED <<mirror, check, caller, patching, event, edits, crashes>>

\* The subscription, its owner or its tracker's mirror is disabled or enabled
\* again.
Toggle ==
  /\ sub # None
  /\ Edit
  /\ sub' = [sub EXCEPT !.on = ~@]
  /\ owed' = (owed /\ sub'.on)
  /\ UNCHANGED <<mirror, cover, check, caller, handlers, event, left, crashes>>

\* The global or personal mirror is changed; nothing is queued.
SetMirror(m) ==
  /\ m # mirror
  /\ Edit
  /\ mirror' = m
  /\ owed' = FALSE
  /\ UNCHANGED <<sub, cover, check, caller, handlers, event, left, crashes>>
-----------------------------------------------------------------------------
(* Callers of a check. *)

\* POST /check.
Request(w) ==
  /\ sub # None
  /\ caller[w].at = "out"
  /\ caller' = [caller EXCEPT ![w] = [at |-> "ready", user |-> sub.owner]]
  /\ UNCHANGED <<sub, mirror, cover, check, handlers, event, owed, left,
                 edits, crashes>>

\* The timer of a queued check.
Timer(w) ==
  /\ caller[w].at = "queued"
  /\ caller' = [caller EXCEPT ![w].at = "ready"]
  /\ UNCHANGED <<sub, mirror, cover, check, handlers, event, owed, left,
                 edits, crashes>>

\* directRow(id, user).
HasRow(u) == sub # None /\ sub.owner = u /\ sub.on

CurrentRow == [owner |-> sub.owner, url |-> sub.url, mirror |-> mirror, stored |-> sub.stored]

Settled(s) == s # None /\ s.seen /\ ~s.old

\* checkDirect with no entry: the row is read again, and a check that the
\* feed shows to be needless ends without a request.  (When it does, see
\* unchangedInFeed, beyond the guards here, is left open.)
Register(feed) ==
  \E stage \in {"fetch", "skip"} :
    /\ stage = "skip" => feed /\ Settled(sub.stored) /\ ~sub.error
    /\ check' = [stage |-> stage, row |-> CurrentRow, snap |-> None, fetched |-> FALSE]

\* A full poll, which may have selected its row long ago; it joins a check
\* that is active without looking at its outcome.
Poll(u, feed) ==
  /\ check = None
  /\ HasRow(u)
  /\ Register(feed)
  /\ UNCHANGED <<sub, mirror, cover, caller, handlers, event, owed, left,
                 edits, crashes>>

CheckSubscription(w) ==
  /\ caller[w].at = "ready"
  /\ IF ~HasRow(caller[w].user)
     THEN caller' = [caller EXCEPT ![w] = Idle] /\ UNCHANGED check
     ELSE IF check # None
     THEN caller' = [caller EXCEPT ![w].at = "joined"] /\ UNCHANGED check
     ELSE caller' = [caller EXCEPT ![w].at = "leading"] /\ Register(FALSE)
  /\ UNCHANGED <<sub, mirror, cover, handlers, event, owed, left, edits, crashes>>

\* Mutant: whoever joined a check is content with its outcome.
Rerun_Never(outcome) == FALSE

Rerun(outcome) == outcome \in {"superseded", "feed-unchanged"}

\* A caller after the check it leads or joined: it returns, or checks again.
Resumed(w, outcome) ==
  IF caller[w].at = "joined" /\ Rerun(outcome) THEN [caller[w] EXCEPT !.at = "ready"]
  ELSE IF caller[w].at \in {"joined", "leading"} THEN Idle
  ELSE caller[w]

\* Mutant: the entry of a superseded check stays.
Finish_Leaks(outcome) ==
  /\ check' = IF outcome = "superseded" THEN check ELSE None
  /\ caller' = [w \in Callers |-> Resumed(w, outcome)]

\* Mutant: whoever joined the check is not told that it ended.
Finish_ForgetsJoined(outcome) ==
  /\ check' = None
  /\ caller' = [w \in Callers |->
       IF caller[w].at = "leading" THEN Idle ELSE caller[w]]

\* The check ends and its entry goes.
Finish(outcome) ==
  /\ check' = None
  /\ caller' = [w \in Callers |-> Resumed(w, outcome)]
-----------------------------------------------------------------------------
(* checkDirectOnce, from one await to the next. *)

\* Mutant: only the URL is compared.
StillCurrent_UrlOnly(row) == HasRow(row.owner) /\ sub.url = row.url

\* Mutant: the row only has to be there.
StillCurrent_Exists(row) == HasRow(row.owner)

Fingerprint(s) == IF s = None THEN None ELSE s.fp

\* directRowStillCurrent.
StillCurrent(row) ==
  /\ HasRow(row.owner)
  /\ sub.url = row.url
  /\ mirror = row.mirror
  /\ Fingerprint(sub.stored) = Fingerprint(row.stored)

Skip ==
  /\ check # None /\ check.stage = "skip"
  /\ Finish("feed-unchanged")
  /\ UNCHANGED <<sub, mirror, cover, handlers, event, owed, left, edits, crashes>>

Store(snap) == sub' = [sub EXCEPT !.stored = snap, !.error = FALSE]

\* The decision over a snapshot: baseline and its kin are silent, a page that
\* is not there is not stored, a change is stored with its event and its
\* notification in one transaction.
Conclude(row, snap) ==
  /\ Finish("concluded")
  /\ owed' = FALSE
  /\ IF row.stored # None /\ ~snap.seen
     THEN sub' = [sub EXCEPT !.error = FALSE] /\ UNCHANGED event
     ELSE /\ Store(snap)
          /\ IF Settled(row.stored) /\ snap.fp # row.stored.fp
             THEN event' = [n |-> 1 - event.n, from |-> row.stored, to |-> snap,
                            user |-> row.owner]
             ELSE UNCHANGED event

\* Whether the cover is requested: a baseline, a change, or none cached.
WantsCover(row, snap) ==
  /\ snap.seen
  /\ \/ row.stored = None
     \/ snap.fp # row.stored.fp
     \/ cover = None

\* What fetchSnapshot may make of a page.
PagesOf(url) == [fp : Versions, seen : BOOLEAN, old : {FALSE}, from : {url}]

\* The page is there: fetchSnapshot returns whatever the tracker shows by now.
Fetched ==
  /\ check # None /\ check.stage = "fetch"
  /\ IF ~StillCurrent(check.row)
     THEN Finish("superseded") /\ UNCHANGED <<sub, event, owed>>
     ELSE \E snap \in PagesOf(check.row.url) :
       IF WantsCover(check.row, snap)
       THEN /\ check' = [check EXCEPT !.stage = "retrieve", !.snap = snap]
            /\ UNCHANGED <<sub, caller, event, owed>>
       ELSE Conclude(check.row, snap)
  /\ UNCHANGED <<mirror, cover, handlers, left, edits, crashes>>

FetchFails ==
  /\ check # None /\ check.stage = "fetch"
  /\ IF ~StillCurrent(check.row)
     THEN Finish("superseded") /\ UNCHANGED <<sub, owed>>
     ELSE /\ Finish("error")
          /\ sub' = [sub EXCEPT !.error = TRUE]
          /\ owed' = FALSE
  /\ UNCHANGED <<mirror, cover, handlers, event, left, edits, crashes>>

\* coverCache.refresh up to its INSERT: whoever has the identifier now gets
\* the artwork.
CoverStored ==
  /\ check # None /\ check.stage = "retrieve"
  /\ sub # None
  /\ cover' = check.row.url
  /\ left' = FALSE
  /\ check' = [check EXCEPT !.stage = "tail", !.fetched = TRUE]
  /\ UNCHANGED <<sub, mirror, caller, handlers, event, owed, edits, crashes>>

\* No cover URL, no answer, no space, or no row to refer to: the cached
\* artwork, if any, is kept.
CoverFails ==
  /\ check # None /\ check.stage = "retrieve"
  /\ check' = [check EXCEPT !.stage = "tail"]
  /\ UNCHANGED <<sub, mirror, cover, caller, handlers, event, owed, left,
                 edits, crashes>>

\* Mutant: the artwork of a superseded check is kept.
Settle_KeepsCover ==
  /\ check # None /\ check.stage = "tail"
  /\ IF StillCurrent(check.row)
     THEN Conclude(check.row, check.snap)
     ELSE Finish("superseded") /\ UNCHANGED <<sub, event, owed>>
  /\ UNCHANGED <<mirror, cover, left, handlers, edits, crashes>>

\* refresh has returned.  Artwork it cached for a row that changed is removed.
Settle ==
  /\ check # None /\ check.stage = "tail"
  /\ IF StillCurrent(check.row)
     THEN Conclude(check.row, check.snap) /\ UNCHANGED <<cover, left>>
     ELSE IF check.fetched
     THEN /\ cover' = None
          /\ left' = FALSE
          /\ check' = [check EXCEPT !.stage = "drop"]
          /\ UNCHANGED <<sub, caller, event, owed>>
     ELSE Finish("superseded") /\ UNCHANGED <<sub, cover, event, owed, left>>
  /\ UNCHANGED <<mirror, handlers, edits, crashes>>

\* coverCache.remove has unlinked the file.
Dropped ==
  /\ check # None /\ check.stage = "drop"
  /\ Finish("superseded")
  /\ UNCHANGED <<sub, mirror, cover, handlers, event, owed, left, edits, crashes>>

\* The process dies and starts again: what is in the database stays, checks,
\* timers and handlers are gone.
Crash ==
  /\ crashes < MaxCrashes
  /\ crashes' = crashes + 1
  /\ check' = None
  /\ caller' = [w \in Callers |-> Idle]
  /\ patching' = None /\ deleting' = FALSE
  /\ owed' = FALSE
  /\ left' = (sub # None /\ cover # None /\ cover # sub.url)
  /\ UNCHANGED <<sub, mirror, cover, event, edits>>
-----------------------------------------------------------------------------
Handlers ==
  \/ \E u \in Users, url \in Urls : Create(u, url)
  \/ \E url \in Urls : PatchUrl(url)
  \/ PatchQueues \/ DeleteBegins \/ DeleteEnds \/ Toggle
  \/ \E m \in Mirrors : SetMirror(m)

Calls ==
  \/ \E w \in Callers : Request(w) \/ Timer(w) \/ CheckSubscription(w)
  \/ \E u \in Users, feed \in BOOLEAN : Poll(u, feed)

Check == Skip \/ Fetched \/ FetchFails \/ CoverStored \/ CoverFails \/ Settle \/ Dropped

Next == Handlers \/ Calls \/ Check \/ Crash

Spec == Init /\ [][Next]_vars

(***************************************************************************)
(* Fairness.  Timers fire, handlers and checks continue when what they     *)
(* wait for is there (every request has a timeout), and polls go on.  A    *)
(* caller woken by the end of a check continues in that turn of the event  *)
(* loop, and polls are minutes apart: it cannot find the check of another  *)
(* poll each time.  Pages are not unreachable forever.                     *)
(***************************************************************************)
Fairness ==
  /\ WF_vars(PatchQueues) /\ WF_vars(DeleteEnds)
  /\ \A w \in Callers : WF_vars(Timer(w)) /\ WF_vars(CheckSubscription(w))
  /\ \A w \in Callers : SF_vars(check = None /\ CheckSubscription(w))
  /\ WF_vars(\E u \in Users : Poll(u, FALSE))
  /\ WF_vars(Check) /\ SF_vars(Fetched)

FairSpec == Spec /\ Fairness
-----------------------------------------------------------------------------
(* Properties. *)

(***************************************************************************)
(* "Never compare a fresh snapshot against a stale baseline": what is      *)
(* stored was read from the page the subscription watches now, whatever    *)
(* was edited during the requests.                                         *)
(***************************************************************************)
BaselineOfTopic ==
  sub # None /\ sub.stored # None => sub.stored.from = sub.url

(***************************************************************************)
(* A reported change is one: the row held, when the change was recorded, a *)
(* complete observation of the topic in today's format, the page showed    *)
(* another one, and the owner of the row is told.  First checks, edited    *)
(* topics, format upgrades and reused identifiers are never reported.      *)
(***************************************************************************)
ReportsRealChanges ==
  [][event' # event =>
       /\ sub # None
       /\ Settled(sub.stored) /\ sub.stored.from = sub.url
       /\ event'.from = sub.stored
       /\ event'.to = sub'.stored /\ event'.to.seen
       /\ event'.to.fp # event'.from.fp
       /\ event'.user = sub.owner]_vars

(***************************************************************************)
(* "A queued check for an edited topic must not disappear behind the       *)
(* superseded request it joined": until a new or edited topic was checked, *)
(* some caller or an active check of the row as it is now goes after it.   *)
(***************************************************************************)
EditPursued ==
  owed =>
    \/ patching # None /\ patching = sub.owner
    \/ \E w \in Callers :
         caller[w].at \in {"queued", "ready", "joined"} /\ caller[w].user = sub.owner
    \/ check # None /\ check.stage # "drop" /\ StillCurrent(check.row)

(***************************************************************************)
(* Between two checks the cached artwork is the watched topic's; only a    *)
(* crash in the moments before a superseded check removes its artwork can  *)
(* leave it.                                                               *)
(***************************************************************************)
ArtworkOfTopic ==
  cover # None => \/ cover = sub.url
                  \/ check # None /\ check.stage = "tail" /\ check.fetched
                  \/ left

(***************************************************************************)
(* Every call of checkSubscription returns, however often the checks it    *)
(* joins are superseded (edits are bounded here).                          *)
(***************************************************************************)
CallersReturn ==
  \A w \in Callers : caller[w].at # "out" ~> caller[w].at = "out"

(***************************************************************************)
(* An enabled subscription gets its baseline in the end, over edits,       *)
(* crashes, failed requests and superseded checks.                         *)
(***************************************************************************)
EventuallyBaselined ==
  (sub # None /\ sub.on) ~> (sub = None \/ ~sub.on \/ sub.stored # None)

(***************************************************************************)
(* scheduler.ts:441: "edits during that request must not allow this old    *)
(* snapshot (or its newly cached artwork) back in": with no check active   *)
(* the artwork is the watched topic's.                                     *)
(***************************************************************************)
NoOldArtwork == check = None /\ cover # None => cover = sub.url
=============================================================================
