------------------------- MODULE DirectCheckProofs -------------------------
(***************************************************************************)
(* What DirectCheck promises, for any number of users, topics, mirrors,    *)
(* callers, edits and crashes.                                             *)
(***************************************************************************)
EXTENDS DirectCheck, TLAPS

(***************************************************************************)
(* The type invariant.                                                     *)
(***************************************************************************)

\* A row read from the table is a row, and so is a check of it.
LEMMA RowTyped ==
  ASSUME TypeOK, sub # None
  PROVE  /\ CurrentRow \in Rows
         /\ \A stage \in {"fetch", "skip"} :
              [stage |-> stage, row |-> CurrentRow, snap |-> None, fetched |-> FALSE] \in Checks
  <1>1. CurrentRow \in Rows
    BY DEF TypeOK, CurrentRow, Rows, Subscriptions
  <1> QED BY <1>1 DEF Checks

\* A check that begins is typed, and is there.
LEMMA RegisterTyped ==
  ASSUME TypeOK, sub # None, NEW feed, Register(feed)
  PROVE  check' \in Checks /\ check' # None
  BY RowTyped, ConstantsAssumption DEF Register

\* Whoever waits is at one of its places.
LEMMA PlaceTyped ==
  ASSUME NEW p \in Places,
         NEW at \in {"out", "queued", "ready", "joined", "leading"}
  PROVE  /\ [p EXCEPT !.at = at] \in Places
         /\ [p EXCEPT !.at = at].at = at
         /\ [p EXCEPT !.at = at].user = p.user
  BY DEF Places

\* A caller the handlers and timers bring in is not in a check.
LEMMA CallerTyped ==
  ASSUME TypeOK, NEW w \in Callers, NEW p \in Places, check' = check,
         p.at \notin {"joined", "leading"}, caller' = [caller EXCEPT ![w] = p]
  PROVE  /\ caller' \in [Callers -> Places]
         /\ \A v \in Callers : caller'[v].at \in {"joined", "leading"} => check' # None
  BY DEF TypeOK

\* A check that was queued has its caller.
LEMMA QueueTyped ==
  ASSUME TypeOK, NEW u \in Users, Queue(u), check' = check
  PROVE  /\ caller' \in [Callers -> Places]
         /\ \A v \in Callers : caller'[v].at \in {"joined", "leading"} => check' # None
  <1>1. PICK w \in Callers : caller' = [caller EXCEPT ![w] = [at |-> "queued", user |-> u]]
    BY DEF Queue
  <1>2. [at |-> "queued", user |-> u] \in Places
    BY DEF Places
  <1> QED BY <1>1, <1>2, CallerTyped

\* The end of a check leaves the callers typed, and nobody in it.
LEMMA FinishTyped ==
  ASSUME TypeOK, NEW outcome, Finish(outcome)
  PROVE  /\ check' = None
         /\ caller' \in [Callers -> Places]
         /\ \A w \in Callers : caller'[w].at \notin {"joined", "leading"}
  <1>1. caller \in [Callers -> Places]
    BY DEF TypeOK
  <1>2. \A w \in Callers : /\ Resumed(w, outcome) \in Places
                           /\ Resumed(w, outcome).at \notin {"joined", "leading"}
    <2> TAKE w \in Callers
    <2>1. CASE caller[w].at = "joined"
      BY <1>1, <2>1 DEF Resumed, Places, Idle
    <2>2. CASE caller[w].at # "joined"
      BY <1>1, <2>2 DEF Resumed, Places, Idle
    <2> QED BY <2>1, <2>2
  <1> QED BY <1>2 DEF Finish

\* A decision leaves the subscription and the event typed.
LEMMA ConcludeTyped ==
  ASSUME TypeOK, sub # None, NEW row \in Rows, NEW snap \in Snapshots, Conclude(row, snap)
  PROVE  /\ sub' \in Subscriptions
         /\ event' \in Events
         /\ owed' = FALSE
  <1>1. sub \in Subscriptions /\ event \in Events
    BY DEF TypeOK
  <1>2. sub' \in Subscriptions
    BY <1>1 DEF Conclude, Store, Subscriptions
  <1>3. CASE event' = event
    BY <1>1, <1>2, <1>3 DEF Conclude
  <1>4. CASE event' # event
    <2>1. /\ Settled(row.stored)
          /\ event' = [n |-> 1 - event.n, from |-> row.stored, to |-> snap, user |-> row.owner]
      BY <1>4 DEF Conclude
    <2>2. 1 - event.n \in 0..1
      BY <1>1 DEF Events
    <2>3. row.stored \in Snapshots \cup {None} /\ row.owner \in Users
      BY DEF Rows
    <2> QED BY <1>2, <2>1, <2>2, <2>3 DEF Events, Conclude
  <1> QED BY <1>3, <1>4

\* An edit is counted within its bound.
LEMMA EditTyped ==
  ASSUME TypeOK, Edit
  PROVE  edits' \in 0..MaxEdits
  BY ConstantsAssumption DEF TypeOK, Edit

\* Every step leaves the state typed.
LEMMA TypeStep == TypeOK /\ [Next]_vars => TypeOK'
  <1> SUFFICES ASSUME TypeOK, [Next]_vars PROVE TypeOK'
    OBVIOUS
  <1> USE ConstantsAssumption
  <1>1. ASSUME NEW u \in Users, NEW url \in Urls, Create(u, url) PROVE TypeOK'
    <2>1. sub' \in Subscriptions
      BY <1>1 DEF Create, Subscriptions
    <2> QED BY <1>1, <2>1, QueueTyped, EditTyped DEF TypeOK, handlers, Create
  <1>2. ASSUME NEW url \in Urls, PatchUrl(url) PROVE TypeOK'
    <2>1. sub' \in Subscriptions
      BY <1>2 DEF PatchUrl, TypeOK, Subscriptions
    <2>2. sub.on \in BOOLEAN /\ sub.owner \in Users
      BY <1>2 DEF TypeOK, PatchUrl, Subscriptions
    <2> QED BY <1>2, <2>1, <2>2, EditTyped DEF TypeOK, PatchUrl
  <1>3. CASE PatchQueues
    BY <1>3, QueueTyped DEF TypeOK, PatchQueues
  <1>4. CASE DeleteBegins
    BY <1>4, EditTyped DEF TypeOK, handlers, DeleteBegins
  <1>5. CASE DeleteEnds
    BY <1>5 DEF TypeOK, DeleteEnds
  <1>7. CASE Toggle
    <2>1. sub' \in Subscriptions
      BY <1>7 DEF Toggle, TypeOK, Subscriptions
    <2> QED BY <1>7, <2>1, EditTyped DEF TypeOK, handlers, Toggle
  <1>8. ASSUME NEW m \in Mirrors, SetMirror(m) PROVE TypeOK'
    BY <1>8, EditTyped DEF TypeOK, handlers, SetMirror
  <1>9. ASSUME NEW w \in Callers, Request(w) PROVE TypeOK'
    <2>1. [at |-> "ready", user |-> sub.owner] \in Places
      BY <1>9 DEF Request, TypeOK, Subscriptions, Places
    <2> QED BY <1>9, <2>1, CallerTyped DEF TypeOK, handlers, Request
  <1>10. ASSUME NEW w \in Callers, Timer(w) PROVE TypeOK'
    <2>1. caller[w] \in Places
      BY DEF TypeOK
    <2>2. caller' = [caller EXCEPT ![w] = [caller[w] EXCEPT !.at = "ready"]]
      BY <1>10, <2>1 DEF Timer, TypeOK
    <2>3. /\ [caller[w] EXCEPT !.at = "ready"] \in Places
          /\ [caller[w] EXCEPT !.at = "ready"].at = "ready"
      BY <2>1, PlaceTyped
    <2>4. /\ caller' \in [Callers -> Places]
          /\ \A v \in Callers : caller'[v].at \in {"joined", "leading"} => check' # None
      BY <1>10, <2>2, <2>3, CallerTyped DEF Timer
    <2> QED BY <1>10, <2>4 DEF TypeOK, handlers, Timer
  <1>11. ASSUME NEW u \in Users, NEW feed \in BOOLEAN, Poll(u, feed) PROVE TypeOK'
    <2>1. check' \in Checks /\ check' # None
      BY <1>11, RegisterTyped DEF Poll, HasRow
    <2> QED BY <1>11, <2>1 DEF TypeOK, handlers, Poll
  <1>12. ASSUME NEW w \in Callers, CheckSubscription(w) PROVE TypeOK'
    <2>1. caller[w] \in Places /\ caller \in [Callers -> Places]
      BY DEF TypeOK
    <2>2. CASE ~HasRow(caller[w].user)
      <3>1. Idle \in Places /\ Idle.at \notin {"joined", "leading"}
        BY DEF Idle, Places
      <3> QED BY <1>12, <2>2, <3>1, CallerTyped DEF TypeOK, handlers, CheckSubscription
    <2>3. CASE HasRow(caller[w].user) /\ check # None
      <3>1. caller' \in [Callers -> Places]
        BY <1>12, <2>1, <2>3, PlaceTyped DEF CheckSubscription
      <3> QED BY <1>12, <2>3, <3>1 DEF TypeOK, handlers, CheckSubscription
    <2>4. CASE HasRow(caller[w].user) /\ check = None
      <3>1. caller' \in [Callers -> Places]
        BY <1>12, <2>1, <2>4, PlaceTyped DEF CheckSubscription
      <3>2. check' \in Checks /\ check' # None
        BY <1>12, <2>4, RegisterTyped DEF CheckSubscription, HasRow
      <3> QED BY <1>12, <3>1, <3>2 DEF TypeOK, handlers, CheckSubscription
    <2> QED BY <2>2, <2>3, <2>4
  <1>13. CASE Skip
    BY <1>13, FinishTyped DEF TypeOK, handlers, Skip
  <1>14. CASE Fetched
    <2>1. CASE ~StillCurrent(check.row)
      BY <1>14, <2>1, FinishTyped DEF TypeOK, handlers, Fetched
    <2>2. CASE StillCurrent(check.row)
      <3>1. PICK snap \in PagesOf(check.row.url) :
              IF WantsCover(check.row, snap)
              THEN /\ check' = [check EXCEPT !.stage = "retrieve", !.snap = snap]
                   /\ UNCHANGED <<sub, caller, event, owed>>
              ELSE Conclude(check.row, snap)
        BY <1>14, <2>2 DEF Fetched
      <3>2. check \in Checks /\ check.row \in Rows /\ check.stage = "fetch" /\ sub # None
        BY <1>14, <2>2 DEF TypeOK, Fetched, Checks, StillCurrent, HasRow
      <3>3. snap \in Snapshots
        BY <3>1, <3>2 DEF PagesOf, Snapshots, Rows
      <3>4. CASE WantsCover(check.row, snap)
        <4>1. check' \in Checks
          BY <3>1, <3>2, <3>3, <3>4 DEF Checks
        <4> QED BY <1>14, <3>1, <3>4, <4>1 DEF TypeOK, handlers, Fetched
      <3>5. CASE ~WantsCover(check.row, snap)
        <4>1. Conclude(check.row, snap)
          BY <3>1, <3>5
        <4>2. Finish("concluded")
          BY <4>1 DEF Conclude
        <4> QED BY <1>14, <3>2, <3>3, <4>1, <4>2, ConcludeTyped, FinishTyped DEF TypeOK, handlers, Fetched
      <3> QED BY <3>4, <3>5
    <2> QED BY <2>1, <2>2
  <1>15. CASE FetchFails
    <2>1. CASE StillCurrent(check.row)
      <3>1. sub' \in Subscriptions
        BY <1>15, <2>1 DEF FetchFails, TypeOK, StillCurrent, HasRow, Subscriptions
      <3> QED BY <1>15, <2>1, <3>1, FinishTyped DEF TypeOK, handlers, FetchFails
    <2>2. CASE ~StillCurrent(check.row)
      BY <1>15, <2>2, FinishTyped DEF TypeOK, handlers, FetchFails
    <2> QED BY <2>1, <2>2
  <1>16. CASE CoverStored
    <2>1. check' \in Checks /\ check.row.url \in Urls
      BY <1>16 DEF TypeOK, CoverStored, Checks, Rows
    <2> QED BY <1>16, <2>1 DEF TypeOK, handlers, CoverStored
  <1>17. CASE CoverFails
    <2>1. check' \in Checks
      BY <1>17 DEF TypeOK, CoverFails, Checks
    <2> QED BY <1>17, <2>1 DEF TypeOK, handlers, CoverFails
  <1>18. CASE Settle
    <2>1. check \in Checks /\ check.row \in Rows
      BY <1>18 DEF TypeOK, Settle, Checks
    <2>2. CASE StillCurrent(check.row)
      <3>1. sub # None /\ Conclude(check.row, check.snap)
        BY <1>18, <2>2 DEF Settle, StillCurrent, HasRow
      <3>2. Finish("concluded") /\ check.snap \in Snapshots
        <4>1. Finish("concluded")
          BY <3>1 DEF Conclude
        <4>2. check.stage = "tail"
          BY <1>18 DEF Settle
        <4>3. check.snap \in Snapshots \cup {None}
          BY <2>1 DEF Checks
        <4>4. check.snap # None
          BY <2>1, <4>2 DEF Checks
        <4> QED BY <4>1, <4>3, <4>4
      <3>3. sub' \in Subscriptions /\ event' \in Events /\ owed' = FALSE
        BY <2>1, <3>1, <3>2, ConcludeTyped
      <3> QED BY <1>18, <2>2, <3>2, <3>3, FinishTyped DEF TypeOK, handlers, Settle
    <2>3. CASE ~StillCurrent(check.row) /\ check.fetched
      <3>1. check' \in Checks
        BY <1>18, <2>1, <2>3 DEF Settle, Checks
      <3> QED BY <1>18, <2>3, <3>1 DEF TypeOK, handlers, Settle
    <2>4. CASE ~StillCurrent(check.row) /\ ~check.fetched
      BY <1>18, <2>4, FinishTyped DEF TypeOK, handlers, Settle
    <2> QED BY <2>2, <2>3, <2>4
  <1>19. CASE Dropped
    BY <1>19, FinishTyped DEF TypeOK, handlers, Dropped
  <1>20. CASE Crash
    <2>1. Idle \in Places /\ Idle.at \notin {"joined", "leading"}
      BY DEF Idle, Places
    <2>2. crashes' \in 0..MaxCrashes /\ left' \in BOOLEAN
      BY <1>20 DEF TypeOK, Crash
    <2>3. caller' \in [Callers -> Places] /\ \A w \in Callers : caller'[w] = Idle
      BY <1>20, <2>1 DEF Crash
    <2> QED BY <1>20, <2>1, <2>2, <2>3 DEF TypeOK, Crash
  <1>21. CASE UNCHANGED vars
    BY <1>21 DEF TypeOK, handlers, vars
  <1> QED
    BY <1>1, <1>2, <1>3, <1>4, <1>5, <1>7, <1>8, <1>9, <1>10, <1>11, <1>12,
       <1>13, <1>14, <1>15, <1>16, <1>17, <1>18, <1>19, <1>20, <1>21
    DEF Next, Handlers, Calls, Check

\* The table before the first edit is typed.
LEMMA TypeInit == Init => TypeOK
  <1> SUFFICES ASSUME Init PROVE TypeOK
    OBVIOUS
  <1>1. sub \in Subscriptions \cup {None}
    BY DEF Init
  <1>2. Idle \in Places /\ Idle.at \notin {"joined", "leading"}
    BY DEF Idle, Places
  <1>3. caller \in [Callers -> Places] /\ \A w \in Callers : caller[w] = Idle
    BY <1>2 DEF Init
  <1>4. event \in Events
    BY DEF Init, NoEvent, Events
  <1>5. 0 \in 0..MaxEdits /\ 0 \in 0..MaxCrashes
    BY ConstantsAssumption
  <1> QED BY <1>1, <1>2, <1>3, <1>4, <1>5 DEF Init, TypeOK

\* Every reachable state of the check and its surroundings is type correct.
THEOREM TypeCorrect == Spec => []TypeOK
  BY TypeInit, TypeStep, PTL DEF Spec
-----------------------------------------------------------------------------
(***************************************************************************)
(* The baseline is the watched topic's, and what is reported is a change.  *)
(***************************************************************************)

\* What a check has read belongs to the row it holds.
SnapshotOfRow ==
  check # None /\ check.stage \in {"retrieve", "tail"} => check.snap.from = check.row.url

\* While a check is active nobody else stores a snapshot: what is stored, if
\* anything, is what its row held.  (The guard compares fingerprints only.)
StoredKept ==
  check # None /\ sub # None /\ sub.stored # None => sub.stored = check.row.stored

BaselineInv == TypeOK /\ BaselineOfTopic /\ SnapshotOfRow /\ StoredKept

\* A step that stores no snapshot, and leaves the check alone or ends it.
LEMMA BaselineFrame ==
  ASSUME BaselineInv, check' = check \/ check' = None,
         sub' # None /\ sub'.stored # None =>
           sub # None /\ sub'.stored = sub.stored /\ sub'.url = sub.url
  PROVE  BaselineOfTopic' /\ SnapshotOfRow' /\ StoredKept'
  BY DEF BaselineInv, BaselineOfTopic, SnapshotOfRow, StoredKept

\* A check that begins holds the row as it is.
LEMMA BaselineRegister ==
  ASSUME BaselineInv, sub # None, NEW feed, Register(feed), sub' = sub
  PROVE  BaselineOfTopic' /\ SnapshotOfRow' /\ StoredKept'
  <1>1. PICK stage \in {"fetch", "skip"} :
          check' = [stage |-> stage, row |-> CurrentRow, snap |-> None, fetched |-> FALSE]
    BY DEF Register
  <1>2. check'.stage = stage /\ check'.row.stored = sub.stored
    BY <1>1 DEF CurrentRow
  <1> QED BY <1>2 DEF BaselineInv, BaselineOfTopic, SnapshotOfRow, StoredKept

\* A decision leaves the topic and its user alone.  If it stores, it stores the
\* snapshot; if it reports, it stores a change of what its row held.
LEMMA ConcludeStores ==
  ASSUME TypeOK, sub # None, NEW row \in Rows, NEW snap \in Snapshots, Conclude(row, snap)
  PROVE  /\ check' = None /\ sub' # None
         /\ sub'.url = sub.url
         /\ sub'.stored \in {sub.stored, snap}
         /\ event' # event =>
              /\ Settled(row.stored) /\ snap.seen /\ snap.fp # row.stored.fp
              /\ sub'.stored = snap
              /\ event' = [n |-> 1 - event.n, from |-> row.stored, to |-> snap,
                           user |-> row.owner]
  <1>1. sub \in Subscriptions
    BY DEF TypeOK
  <1>2. /\ check' = None
        /\ sub' \in {[sub EXCEPT !.error = FALSE], [sub EXCEPT !.stored = snap, !.error = FALSE]}
    BY DEF Conclude, Store, Finish
  <1>3. /\ sub'.url = sub.url
        /\ sub'.stored \in {sub.stored, snap}
    BY <1>1, <1>2 DEF Subscriptions
  <1>4. ASSUME event' # event
        PROVE  /\ Settled(row.stored) /\ snap.seen /\ snap.fp # row.stored.fp
               /\ sub' = [sub EXCEPT !.stored = snap, !.error = FALSE]
               /\ event' = [n |-> 1 - event.n, from |-> row.stored, to |-> snap,
                            user |-> row.owner]
    BY <1>4 DEF Conclude, Store, Settled
  <1>5. event' # event => sub'.stored = snap
    BY <1>1, <1>4 DEF Subscriptions
  <1>6. sub' # None
    BY ConcludeTyped, ConstantsAssumption
  <1> QED BY <1>2, <1>3, <1>4, <1>5, <1>6

\* A decision over a snapshot of the watched topic.
LEMMA BaselineConclude ==
  ASSUME BaselineInv, sub # None, NEW row \in Rows, NEW snap \in Snapshots,
         sub.url = row.url, snap.from = row.url, Conclude(row, snap)
  PROVE  BaselineOfTopic' /\ SnapshotOfRow' /\ StoredKept'
  BY ConcludeStores DEF BaselineInv, BaselineOfTopic, SnapshotOfRow, StoredKept

\* A page that is read belongs to the URL it is read from.
LEMMA PageTyped ==
  ASSUME TypeOK, check # None, NEW snap \in PagesOf(check.row.url)
  PROVE  /\ check \in Checks /\ check.row \in Rows
         /\ snap \in Snapshots /\ snap.from = check.row.url
  <1>1. check \in Checks /\ check.row \in Rows
    BY DEF TypeOK, Checks
  <1> QED BY <1>1 DEF PagesOf, Snapshots, Rows

\* What refresh returns to: the snapshot is there and is the row's.
LEMMA SnapThere ==
  ASSUME TypeOK, SnapshotOfRow, check # None, check.stage = "tail"
  PROVE  /\ check.row \in Rows
         /\ check.snap \in Snapshots /\ check.snap.from = check.row.url
  <1>1. check \in Checks
    BY DEF TypeOK
  <1>2. check.snap \in Snapshots \cup {None} /\ check.row \in Rows
    BY <1>1 DEF Checks
  <1>3. check.snap # None
    BY <1>1 DEF Checks
  <1> QED BY <1>2, <1>3 DEF SnapshotOfRow

LEMMA BaselineStep ==
  BaselineInv /\ [Next]_vars => BaselineOfTopic' /\ SnapshotOfRow' /\ StoredKept'
  <1> SUFFICES ASSUME BaselineInv, [Next]_vars
               PROVE  BaselineOfTopic' /\ SnapshotOfRow' /\ StoredKept'
    OBVIOUS
  <1>a. TypeOK
    BY DEF BaselineInv
  <1>1. ASSUME NEW u \in Users, NEW url \in Urls, Create(u, url)
        PROVE  BaselineOfTopic' /\ SnapshotOfRow' /\ StoredKept'
    BY <1>1, BaselineFrame DEF Create
  <1>2. ASSUME NEW url \in Urls, PatchUrl(url)
        PROVE  BaselineOfTopic' /\ SnapshotOfRow' /\ StoredKept'
    <2>1. sub'.stored = None
      BY <1>2, <1>a DEF PatchUrl, TypeOK, Subscriptions
    <2> QED BY <1>2, <2>1, BaselineFrame DEF PatchUrl
  <1>3. CASE Toggle
    <2>1. sub'.stored = sub.stored /\ sub'.url = sub.url
      BY <1>3, <1>a DEF Toggle, TypeOK, Subscriptions
    <2> QED BY <1>3, <2>1, BaselineFrame DEF Toggle
  <1>4. CASE DeleteEnds
    BY <1>4, BaselineFrame DEF DeleteEnds
  <1>5. CASE PatchQueues \/ DeleteBegins \/ \E m \in Mirrors : SetMirror(m)
    BY <1>5, BaselineFrame DEF PatchQueues, DeleteBegins, SetMirror
  <1>6. CASE \E w \in Callers : Request(w) \/ Timer(w)
    BY <1>6, BaselineFrame DEF Request, Timer
  <1>7. ASSUME NEW w \in Callers, CheckSubscription(w)
        PROVE  BaselineOfTopic' /\ SnapshotOfRow' /\ StoredKept'
    <2>1. CASE check' = check
      BY <1>7, <2>1, BaselineFrame DEF CheckSubscription
    <2>2. CASE check' # check
      <3>1. sub # None /\ Register(FALSE) /\ sub' = sub
        BY <1>7, <2>2 DEF CheckSubscription, HasRow
      <3> QED BY <3>1, BaselineRegister
    <2> QED BY <2>1, <2>2
  <1>8. ASSUME NEW u \in Users, NEW feed \in BOOLEAN, Poll(u, feed)
        PROVE  BaselineOfTopic' /\ SnapshotOfRow' /\ StoredKept'
    BY <1>8, BaselineRegister DEF Poll, HasRow
  <1>9. CASE Skip \/ Dropped \/ Crash
    BY <1>9, BaselineFrame DEF Skip, Dropped, Crash, Finish
  <1>10. CASE Fetched
    <2>1. CASE ~StillCurrent(check.row)
      BY <1>10, <2>1, BaselineFrame DEF Fetched, Finish
    <2>2. CASE StillCurrent(check.row)
      <3>1. PICK snap \in PagesOf(check.row.url) :
              IF WantsCover(check.row, snap)
              THEN /\ check' = [check EXCEPT !.stage = "retrieve", !.snap = snap]
                   /\ UNCHANGED <<sub, caller, event, owed>>
              ELSE Conclude(check.row, snap)
        BY <1>10, <2>2 DEF Fetched
      <3>2. /\ check # None /\ check \in Checks /\ check.row \in Rows
            /\ snap \in Snapshots /\ snap.from = check.row.url
        BY <1>10, <1>a, PageTyped DEF Fetched
      <3>3. sub # None /\ sub.url = check.row.url
        BY <2>2 DEF StillCurrent, HasRow
      <3>4. CASE WantsCover(check.row, snap)
        <4>1. /\ check'.snap = snap /\ check'.row = check.row
          BY <3>1, <3>2, <3>4 DEF Checks
        <4>2. sub' = sub
          BY <3>1, <3>4
        <4> QED BY <3>2, <4>1, <4>2
                DEF BaselineInv, BaselineOfTopic, SnapshotOfRow, StoredKept
      <3>5. CASE ~WantsCover(check.row, snap)
        BY <3>1, <3>2, <3>3, <3>5, BaselineConclude
      <3> QED BY <3>4, <3>5
    <2> QED BY <2>1, <2>2
  <1>11. CASE FetchFails
    <2>1. CASE StillCurrent(check.row)
      <3>1. sub # None /\ sub'.stored = sub.stored /\ sub'.url = sub.url
        BY <1>11, <2>1, <1>a DEF FetchFails, StillCurrent, HasRow, TypeOK, Subscriptions
      <3> QED BY <1>11, <2>1, <3>1, BaselineFrame DEF FetchFails, Finish
    <2>2. CASE ~StillCurrent(check.row)
      BY <1>11, <2>2, BaselineFrame DEF FetchFails, Finish
    <2> QED BY <2>1, <2>2
  <1>12. CASE CoverStored \/ CoverFails
    <2>1. check # None /\ check \in Checks /\ check.stage = "retrieve" /\ sub' = sub
      BY <1>12, <1>a DEF CoverStored, CoverFails, TypeOK
    <2>2. check'.snap = check.snap /\ check'.row = check.row
      BY <1>12, <2>1 DEF CoverStored, CoverFails, Checks
    <2> QED BY <2>1, <2>2 DEF BaselineInv, BaselineOfTopic, SnapshotOfRow, StoredKept
  <1>13. CASE Settle
    <2>1. CASE StillCurrent(check.row)
      <3>1. /\ Conclude(check.row, check.snap)
            /\ check # None /\ check.stage = "tail"
            /\ sub # None /\ sub.url = check.row.url
        BY <1>13, <2>1 DEF Settle, StillCurrent, HasRow
      <3> QED BY <1>a, <3>1, SnapThere, BaselineConclude DEF BaselineInv
    <2>2. CASE ~StillCurrent(check.row) /\ check.fetched
      <3>1. /\ check # None /\ check \in Checks /\ sub' = sub
            /\ check' = [check EXCEPT !.stage = "drop"]
        BY <1>13, <1>a, <2>2 DEF Settle, TypeOK
      <3>2. check'.stage = "drop" /\ check'.row = check.row
        BY <3>1 DEF Checks
      <3> QED BY <3>1, <3>2 DEF BaselineInv, BaselineOfTopic, SnapshotOfRow, StoredKept
    <2>3. CASE ~StillCurrent(check.row) /\ ~check.fetched
      BY <1>13, <2>3, BaselineFrame DEF Settle, Finish
    <2> QED BY <2>1, <2>2, <2>3
  <1>14. CASE UNCHANGED vars
    BY <1>14, BaselineFrame DEF vars
  <1> QED
    BY <1>1, <1>2, <1>3, <1>4, <1>5, <1>6, <1>7, <1>8, <1>9, <1>10, <1>11, <1>12, <1>13, <1>14
    DEF Next, Handlers, Calls, Check

LEMMA BaselineInductive == Spec => []BaselineInv
  <1>1. Init => BaselineInv
    BY TypeInit DEF Init, BaselineInv, BaselineOfTopic, SnapshotOfRow, StoredKept
  <1>2. BaselineInv /\ [Next]_vars => BaselineInv'
    BY TypeStep, BaselineStep DEF BaselineInv
  <1> QED BY <1>1, <1>2, PTL DEF Spec

\* What is stored of a page is always of the page watched now.
THEOREM BaselineHolds == Spec => []BaselineOfTopic
  <1>1. BaselineInv => BaselineOfTopic
    BY DEF BaselineInv
  <1> QED BY <1>1, BaselineInductive, PTL

\* A decision that reports, reports a change of the watched topic to its owner.
LEMMA ConcludeReports ==
  ASSUME BaselineInv, check # None, check.row \in Rows, NEW snap \in Snapshots,
         StillCurrent(check.row), Conclude(check.row, snap), event' # event
  PROVE  /\ sub # None
         /\ Settled(sub.stored) /\ sub.stored.from = sub.url
         /\ event'.from = sub.stored
         /\ event'.to = sub'.stored /\ event'.to.seen
         /\ event'.to.fp # event'.from.fp
         /\ event'.user = sub.owner
  <1>1. sub # None /\ check.row.owner = sub.owner
    BY DEF StillCurrent, HasRow
  <1>2. /\ Settled(check.row.stored) /\ snap.seen /\ snap.fp # check.row.stored.fp
        /\ sub'.stored = snap
        /\ event' = [n |-> 1 - event.n, from |-> check.row.stored, to |-> snap,
                     user |-> check.row.owner]
    BY <1>1, ConcludeStores DEF BaselineInv
  <1>3. check.row.stored \in Snapshots
    BY <1>2 DEF Rows, Settled
  <1>4. sub.stored # None
    BY <1>2, <1>3, ConstantsAssumption DEF StillCurrent, Fingerprint, Settled, Snapshots
  <1>5. sub.stored = check.row.stored
    BY <1>1, <1>4 DEF BaselineInv, StoredKept
  <1> QED BY <1>1, <1>2, <1>4, <1>5 DEF BaselineInv, BaselineOfTopic

\* Every reported change is a change of the watched topic since the complete
\* observation that was stored of it, and its owner is told.
THEOREM ReportsHold == Spec => ReportsRealChanges
  <1>1. ASSUME BaselineInv, [Next]_vars, event' # event
        PROVE  /\ sub # None
               /\ Settled(sub.stored) /\ sub.stored.from = sub.url
               /\ event'.from = sub.stored
               /\ event'.to = sub'.stored /\ event'.to.seen
               /\ event'.to.fp # event'.from.fp
               /\ event'.user = sub.owner
    <2>1. Fetched \/ Settle
      BY <1>1 DEF Next, Handlers, Calls, Check, vars, Create, PatchUrl, PatchQueues,
         DeleteBegins, DeleteEnds, Toggle, SetMirror, Request, Timer,
         CheckSubscription, Poll, Skip, FetchFails, CoverStored, CoverFails, Dropped, Crash
    <2>2. CASE Fetched
      <3>1. check # None /\ StillCurrent(check.row)
        BY <1>1, <2>2 DEF Fetched
      <3>2. PICK snap \in PagesOf(check.row.url) : Conclude(check.row, snap)
        BY <1>1, <2>2, <3>1 DEF Fetched
      <3> QED BY <1>1, <3>1, <3>2, PageTyped, ConcludeReports DEF BaselineInv
    <2>3. CASE Settle
      <3>1. /\ check # None /\ check.stage = "tail" /\ StillCurrent(check.row)
            /\ Conclude(check.row, check.snap)
        BY <1>1, <2>3 DEF Settle
      <3> QED BY <1>1, <3>1, SnapThere, ConcludeReports DEF BaselineInv
    <2> QED BY <2>1, <2>2, <2>3
  <1>2. BaselineInv /\ [Next]_vars =>
          [event' # event =>
             /\ sub # None
             /\ Settled(sub.stored) /\ sub.stored.from = sub.url
             /\ event'.from = sub.stored
             /\ event'.to = sub'.stored /\ event'.to.seen
             /\ event'.to.fp # event'.from.fp
             /\ event'.user = sub.owner]_vars
    BY <1>1
  <1> QED BY <1>2, BaselineInductive, PTL DEF Spec, ReportsRealChanges
-----------------------------------------------------------------------------
(***************************************************************************)
(* The artwork is the watched topic's, but for a crash.                    *)
(***************************************************************************)

\* No artwork without its subscription, and what an active check cached is of
\* the row it holds.
CoverInv ==
  /\ sub = None => cover = None
  /\ check # None /\ check.stage = "tail" /\ check.fetched /\ cover # None =>
       cover = check.row.url

ArtworkInv == TypeOK /\ CoverInv /\ ArtworkOfTopic

\* A check after refresh has cached something.
Cached == check # None /\ check.stage = "tail" /\ check.fetched

\* A step that leaves topic and artwork alone.
LEMMA ArtworkFrame ==
  ASSUME ArtworkInv, cover' \in {cover, None}, left' = left,
         sub' = None => cover' = None,
         cover' # None => sub # None /\ sub'.url = sub.url,
         Cached => Cached' /\ check'.row = check.row,
         Cached' => Cached
  PROVE  CoverInv' /\ ArtworkOfTopic'
  BY DEF ArtworkInv, CoverInv, ArtworkOfTopic, Cached

\* A step that leaves no artwork.
LEMMA ArtworkGone ==
  ASSUME cover' = None
  PROVE  CoverInv' /\ ArtworkOfTopic'
  BY DEF CoverInv, ArtworkOfTopic

\* The end of a check that had cached nothing, or artwork of the topic.
LEMMA ArtworkEnd ==
  ASSUME ArtworkInv, cover' = cover, left' = left, check' = None,
         sub' = None => sub = None, sub # None => sub'.url = sub.url,
         Cached => StillCurrent(check.row)
  PROVE  CoverInv' /\ ArtworkOfTopic'
  BY DEF ArtworkInv, CoverInv, ArtworkOfTopic, Cached, StillCurrent, HasRow

LEMMA ArtworkStep == ArtworkInv /\ [Next]_vars => CoverInv' /\ ArtworkOfTopic'
  <1> SUFFICES ASSUME ArtworkInv, [Next]_vars PROVE CoverInv' /\ ArtworkOfTopic'
    OBVIOUS
  <1>a. TypeOK
    BY DEF ArtworkInv
  <1>1. ASSUME NEW u \in Users, NEW url \in Urls, Create(u, url)
        PROVE  CoverInv' /\ ArtworkOfTopic'
    BY <1>1, ArtworkGone DEF Create, ArtworkInv, CoverInv
  <1>2. CASE \/ \E url \in Urls : PatchUrl(url)
             \/ DeleteBegins \/ DeleteEnds
    BY <1>2, ArtworkGone DEF PatchUrl, DeleteBegins, DeleteEnds
  <1>3. CASE Toggle
    <2>1. sub # None /\ sub' # None /\ sub'.url = sub.url
      BY <1>3, <1>a, ConstantsAssumption DEF Toggle, TypeOK, Subscriptions
    <2> QED BY <1>3, <2>1, ArtworkFrame DEF Toggle, Cached
  <1>4. CASE \/ PatchQueues
             \/ \E m \in Mirrors : SetMirror(m)
             \/ \E w \in Callers : Request(w) \/ Timer(w)
    BY <1>4, ArtworkFrame
    DEF PatchQueues, SetMirror, Request, Timer, Cached, ArtworkInv, CoverInv
  <1>5. ASSUME NEW feed, Register(feed), check = None, UNCHANGED <<sub, cover, left>>
        PROVE  CoverInv' /\ ArtworkOfTopic'
    <2>1. PICK stage \in {"fetch", "skip"} :
            check' = [stage |-> stage, row |-> CurrentRow, snap |-> None, fetched |-> FALSE]
      BY <1>5 DEF Register
    <2>2. check'.stage # "tail"
      BY <2>1
    <2> QED BY <1>5, <2>2, ArtworkFrame DEF Cached, ArtworkInv, CoverInv
  <1>6. ASSUME NEW w \in Callers, CheckSubscription(w)
        PROVE  CoverInv' /\ ArtworkOfTopic'
    <2>1. CASE check' = check
      BY <1>6, <2>1, ArtworkFrame DEF CheckSubscription, Cached, ArtworkInv, CoverInv
    <2>2. CASE check' # check
      BY <1>5, <1>6, <2>2 DEF CheckSubscription
    <2> QED BY <2>1, <2>2
  <1>7. ASSUME NEW u \in Users, NEW feed \in BOOLEAN, Poll(u, feed)
        PROVE  CoverInv' /\ ArtworkOfTopic'
    BY <1>5, <1>7 DEF Poll
  <1>8. CASE Skip \/ Dropped
    BY <1>8, ArtworkEnd DEF Skip, Dropped, Finish, Cached
  <1>9. ASSUME sub # None, NEW snap \in Snapshots, check \in Checks,
               Conclude(check.row, snap), UNCHANGED <<cover, left>>,
               Cached => StillCurrent(check.row)
        PROVE  CoverInv' /\ ArtworkOfTopic'
    <2>1. check.row \in Rows
      BY <1>9 DEF Checks
    <2>2. check' = None /\ sub' # None /\ sub'.url = sub.url
      BY <1>9, <1>a, <2>1, ConcludeStores
    <2> QED BY <1>9, <2>2, ArtworkEnd
  <1>10. CASE Fetched
    <2>1. CASE ~StillCurrent(check.row)
      BY <1>10, <2>1, ArtworkEnd DEF Fetched, Finish, Cached
    <2>2. CASE StillCurrent(check.row)
      <3>1. PICK snap \in PagesOf(check.row.url) :
              IF WantsCover(check.row, snap)
              THEN /\ check' = [check EXCEPT !.stage = "retrieve", !.snap = snap]
                   /\ UNCHANGED <<sub, caller, event, owed>>
              ELSE Conclude(check.row, snap)
        BY <1>10, <2>2 DEF Fetched
      <3>2. check # None /\ check \in Checks /\ snap \in Snapshots /\ sub # None
        BY <1>10, <1>a, <2>2, PageTyped DEF Fetched, StillCurrent, HasRow
      <3>3. CASE WantsCover(check.row, snap)
        <4>1. check'.stage = "retrieve"
          BY <3>1, <3>2, <3>3 DEF Checks
        <4> QED BY <1>10, <3>1, <3>2, <3>3, <4>1, ArtworkFrame DEF Fetched, Cached
      <3>4. CASE ~WantsCover(check.row, snap)
        BY <1>9, <1>10, <2>2, <3>1, <3>2, <3>4 DEF Fetched
      <3> QED BY <3>3, <3>4
    <2> QED BY <2>1, <2>2
  <1>11. CASE FetchFails
    <2>1. CASE StillCurrent(check.row)
      <3>1. sub # None /\ sub' \in Subscriptions /\ sub'.url = sub.url
        BY <1>11, <2>1, <1>a
        DEF FetchFails, StillCurrent, HasRow, TypeOK, Subscriptions
      <3>2. sub' # None
        BY <3>1, ConstantsAssumption
      <3> QED BY <1>11, <2>1, <3>1, <3>2, ArtworkEnd DEF FetchFails, Finish
    <2>2. CASE ~StillCurrent(check.row)
      BY <1>11, <2>2, ArtworkEnd DEF FetchFails, Finish, Cached
    <2> QED BY <2>1, <2>2
  <1>12. CASE CoverStored
    <2>1. check # None /\ check \in Checks
      BY <1>12, <1>a DEF CoverStored, TypeOK
    <2>2. /\ check'.stage = "tail" /\ check'.fetched /\ check'.row = check.row
          /\ check' # None
      BY <1>12, <1>a, <2>1, TypeStep, ConstantsAssumption DEF CoverStored, Checks
    <2> QED BY <1>12, <2>2 DEF CoverStored, CoverInv, ArtworkOfTopic
  <1>13. CASE CoverFails
    <2>1. check # None /\ check \in Checks
      BY <1>13, <1>a DEF CoverFails, TypeOK
    <2>2. ~check'.fetched
      BY <1>13, <2>1 DEF CoverFails, Checks
    <2> QED BY <1>13, <2>2 DEF CoverFails, ArtworkInv, CoverInv, ArtworkOfTopic
  <1>14. CASE Settle
    <2>1. check # None /\ check.stage = "tail" /\ check \in Checks
      BY <1>14, <1>a DEF Settle, TypeOK
    <2>2. CASE StillCurrent(check.row)
      <3>1. sub # None /\ Conclude(check.row, check.snap) /\ UNCHANGED <<cover, left>>
        BY <1>14, <2>2 DEF Settle, StillCurrent, HasRow
      <3>2. check.snap \in Snapshots \cup {None}
        BY <2>1 DEF Checks
      <3>3. check.snap # None
        BY <2>1 DEF Checks
      <3> QED BY <1>9, <2>1, <2>2, <3>1, <3>2, <3>3
    <2>3. CASE ~StillCurrent(check.row) /\ check.fetched
      BY <1>14, <2>3, ArtworkGone DEF Settle
    <2>4. CASE ~StillCurrent(check.row) /\ ~check.fetched
      BY <1>14, <2>4, ArtworkEnd DEF Settle, Finish, Cached
    <2> QED BY <2>2, <2>3, <2>4
  <1>15. CASE Crash
    BY <1>15 DEF Crash, ArtworkInv, CoverInv, ArtworkOfTopic
  <1>16. CASE UNCHANGED vars
    BY <1>16 DEF vars, ArtworkInv, CoverInv, ArtworkOfTopic
  <1> QED
    BY <1>1, <1>2, <1>3, <1>4, <1>6, <1>7, <1>8, <1>10, <1>11, <1>12, <1>13, <1>14,
       <1>15, <1>16
    DEF Next, Handlers, Calls, Check

\* Between two checks the cached artwork is the watched topic's, unless a crash
\* left it.
THEOREM ArtworkHolds == Spec => []ArtworkOfTopic
  <1>1. Init => ArtworkInv
    BY TypeInit DEF Init, ArtworkInv, CoverInv, ArtworkOfTopic
  <1>2. ArtworkInv /\ [Next]_vars => ArtworkInv'
    BY TypeStep, ArtworkStep DEF ArtworkInv
  <1>3. ArtworkInv => ArtworkOfTopic
    BY DEF ArtworkInv
  <1> QED BY <1>1, <1>2, <1>3, PTL DEF Spec
-----------------------------------------------------------------------------
(***************************************************************************)
(* The check of a new or edited topic does not disappear.                  *)
(***************************************************************************)

\* A caller goes after the topic for the owner of the row.
Pursuing(w) ==
  caller[w].at \in {"queued", "ready", "joined"} /\ caller[w].user = sub.owner

\* What waits for its first check is enabled and has no baseline, and a check
\* that the feed answers has one.
OwedInv ==
  /\ owed => sub # None /\ sub.on /\ sub.stored = None
  /\ check # None /\ check.stage = "skip" => check.row.stored # None

PursuitInv == TypeOK /\ OwedInv /\ EditPursued

\* A step after which nothing waits.
LEMMA NothingOwed ==
  ASSUME owed' = FALSE, check' = None
  PROVE  OwedInv' /\ EditPursued'
  BY DEF OwedInv, EditPursued

\* A step after which nothing waits, and the check is as it was.
LEMMA NothingOwedMeanwhile ==
  ASSUME PursuitInv, owed' = FALSE, check' = check
  PROVE  OwedInv' /\ EditPursued'
  BY DEF PursuitInv, OwedInv, EditPursued

\* A step that leaves the row alone, and every caller that goes after it.
LEMMA PursuitFrame ==
  ASSUME PursuitInv, UNCHANGED <<sub, mirror, check, owed>>,
         UNCHANGED handlers, \A w \in Callers : Pursuing(w) => Pursuing(w)'
  PROVE  OwedInv' /\ EditPursued'
  <1>1. OwedInv'
    BY DEF PursuitInv, OwedInv
  <1>2. \A row : StillCurrent(row)' <=> StillCurrent(row)
    BY DEF StillCurrent, HasRow, Fingerprint
  <1>3. EditPursued'
    BY <1>2 DEF PursuitInv, EditPursued, Pursuing, handlers
  <1> QED BY <1>1, <1>3

\* A check that goes on with its row.
LEMMA PursuitContinues ==
  ASSUME PursuitInv, UNCHANGED <<sub, mirror, caller, owed, handlers>>,
         check # None, check' # None, check'.row = check.row,
         check'.stage \in {"retrieve", "tail", "drop"},
         check'.stage = "drop" => ~StillCurrent(check.row)
  PROVE  OwedInv' /\ EditPursued'
  <1>1. OwedInv'
    BY DEF PursuitInv, OwedInv
  <1>2. \A row : StillCurrent(row)' <=> StillCurrent(row)
    BY DEF StillCurrent, HasRow, Fingerprint
  <1>3. EditPursued'
    BY <1>2 DEF PursuitInv, EditPursued, handlers
  <1> QED BY <1>1, <1>3

\* Who joined a check of a row that is not there any more checks again.
LEMMA PursuitResumes ==
  ASSUME PursuitInv, NEW outcome \in {"superseded", "feed-unchanged"}, Finish(outcome),
         UNCHANGED <<sub, mirror, owed, handlers>>,
         owed => check.stage = "drop" \/ ~StillCurrent(check.row)
  PROVE  OwedInv' /\ EditPursued'
  <1>1. OwedInv'
    BY DEF PursuitInv, OwedInv, Finish
  <1>2. ASSUME NEW w \in Callers, Pursuing(w) PROVE Pursuing(w)'
    <2>1. caller[w] \in Places /\ caller'[w] = Resumed(w, outcome)
      BY DEF PursuitInv, TypeOK, Finish
    <2>2. CASE caller[w].at = "joined"
      <3>1. caller'[w] = [caller[w] EXCEPT !.at = "ready"]
        BY <2>1, <2>2 DEF Resumed, Rerun
      <3> QED BY <1>2, <2>1, <3>1, PlaceTyped DEF Pursuing
    <2>3. CASE caller[w].at \in {"queued", "ready"}
      <3>1. caller'[w] = caller[w]
        BY <2>1, <2>3 DEF Resumed
      <3> QED BY <1>2, <3>1 DEF Pursuing
    <2> QED BY <1>2, <2>2, <2>3 DEF Pursuing
  <1>3. ASSUME owed PROVE (patching # None /\ patching = sub.owner) \/ \E w \in Callers : Pursuing(w)
    BY <1>3 DEF PursuitInv, EditPursued, Pursuing
  <1>4. EditPursued'
    BY <1>2, <1>3 DEF EditPursued, Pursuing, handlers
  <1> QED BY <1>1, <1>4

\* A check that begins while a topic waits is a check of it.
LEMMA PursuitRegister ==
  ASSUME PursuitInv, sub # None, NEW feed, Register(feed),
         UNCHANGED <<sub, mirror, owed>>
  PROVE  /\ OwedInv'
         /\ owed' => check' # None /\ check'.stage # "drop" /\ StillCurrent(check.row)'
  <1>1. PICK stage \in {"fetch", "skip"} :
          /\ stage = "skip" => Settled(sub.stored)
          /\ check' = [stage |-> stage, row |-> CurrentRow, snap |-> None, fetched |-> FALSE]
    BY DEF Register
  <1>2. check' # None
    BY RegisterTyped DEF PursuitInv
  <1>3. /\ check'.stage = stage /\ check'.row.stored = sub.stored
        /\ check'.row.owner = sub.owner /\ check'.row.url = sub.url
        /\ check'.row.mirror = mirror
    BY <1>1 DEF CurrentRow
  <1>4. OwedInv'
    BY <1>1, <1>3 DEF PursuitInv, OwedInv, Settled
  <1>5. ASSUME owed PROVE StillCurrent(check.row)'
    BY <1>3, <1>5 DEF PursuitInv, OwedInv, StillCurrent, HasRow, Fingerprint
  <1> QED BY <1>1, <1>2, <1>3, <1>4, <1>5

LEMMA PursuitStep == PursuitInv /\ [Next]_vars => OwedInv' /\ EditPursued'
  <1> SUFFICES ASSUME PursuitInv, [Next]_vars PROVE OwedInv' /\ EditPursued'
    OBVIOUS
  <1>a. TypeOK
    BY DEF PursuitInv
  <1>1. ASSUME NEW u \in Users, NEW url \in Urls, Create(u, url)
        PROVE  OwedInv' /\ EditPursued'
    <2>1. /\ sub' # None /\ sub'.on /\ sub'.stored = None /\ sub'.owner = u
          /\ check' = check
      <3>1. sub' \in Subscriptions /\ sub'.on /\ sub'.stored = None /\ sub'.owner = u
        BY <1>1 DEF Create, Subscriptions
      <3> QED BY <1>1, <3>1, ConstantsAssumption DEF Create
    <2>2. PICK w \in Callers : caller' = [caller EXCEPT ![w] = [at |-> "queued", user |-> u]]
      BY <1>1 DEF Create, Queue
    <2>3. Pursuing(w)'
      BY <1>a, <2>1, <2>2 DEF TypeOK, Pursuing
    <2> QED BY <2>1, <2>3 DEF PursuitInv, OwedInv, EditPursued, Pursuing
  <1>2. ASSUME NEW url \in Urls, PatchUrl(url) PROVE OwedInv' /\ EditPursued'
    <2>1. /\ sub' \in Subscriptions /\ sub'.stored = None /\ sub'.on = sub.on
          /\ sub.on \in BOOLEAN
      BY <1>2, <1>a DEF PatchUrl, TypeOK, Subscriptions
    <2>2. sub' # None /\ check' = check /\ owed' = sub.on
      BY <1>2, <2>1, ConstantsAssumption DEF PatchUrl
    <2>3. patching' # None /\ patching' = sub'.owner
      <3>1. sub.owner \in Users /\ sub'.owner = sub.owner
        BY <1>2, <1>a DEF PatchUrl, TypeOK, Subscriptions
      <3> QED BY <1>2, <3>1, ConstantsAssumption DEF PatchUrl
    <2> QED BY <2>1, <2>2, <2>3 DEF PursuitInv, OwedInv, EditPursued
  <1>3. CASE PatchQueues
    <2>1. OwedInv'
      BY <1>3 DEF PatchQueues, PursuitInv, OwedInv
    <2>2. PICK w \in Callers :
            /\ caller[w].at = "out"
            /\ caller' = [caller EXCEPT ![w] = [at |-> "queued", user |-> patching]]
      BY <1>3 DEF PatchQueues, Queue
    <2>3. UNCHANGED <<sub, mirror, check, owed>>
      BY <1>3 DEF PatchQueues
    <2>4. CASE patching = sub.owner
      <3>1. Pursuing(w)'
        BY <1>a, <2>2, <2>3, <2>4 DEF TypeOK, Pursuing
      <3> QED BY <2>1, <3>1 DEF EditPursued, Pursuing
    <2>5. CASE patching # sub.owner
      <3>1. \A v \in Callers : Pursuing(v) => Pursuing(v)'
        BY <1>a, <2>2, <2>3 DEF TypeOK, Pursuing
      <3>2. \A row : StillCurrent(row)' <=> StillCurrent(row)
        BY <2>3 DEF StillCurrent, HasRow, Fingerprint
      <3> QED BY <2>1, <2>3, <2>5, <3>1, <3>2 DEF PursuitInv, EditPursued, Pursuing
    <2> QED BY <2>4, <2>5
  <1>4. CASE DeleteEnds \/ \E m \in Mirrors : SetMirror(m)
    BY <1>4, NothingOwedMeanwhile DEF DeleteEnds, SetMirror
  <1>5. CASE DeleteBegins
    <2>1. UNCHANGED <<sub, mirror, check, caller, patching, owed>>
      BY <1>5 DEF DeleteBegins
    <2>2. \A row : StillCurrent(row)' <=> StillCurrent(row)
      BY <2>1 DEF StillCurrent, HasRow, Fingerprint
    <2> QED BY <2>1, <2>2 DEF PursuitInv, OwedInv, EditPursued
  <1>6. CASE Toggle
    <2>1. owed' = FALSE
      <3>1. sub'.on = ~sub.on
        BY <1>6, <1>a DEF Toggle, TypeOK, Subscriptions
      <3>2. owed' = (owed /\ sub'.on)
        BY <1>6 DEF Toggle
      <3>3. owed => sub.on
        BY DEF PursuitInv, OwedInv
      <3> QED BY <3>1, <3>2, <3>3
    <2> QED BY <1>6, <2>1, NothingOwedMeanwhile DEF Toggle
  <1>7. ASSUME NEW w \in Callers, Request(w) PROVE OwedInv' /\ EditPursued'
    <2>1. \A v \in Callers : Pursuing(v) => Pursuing(v)'
      BY <1>7, <1>a DEF Request, Pursuing, TypeOK
    <2> QED BY <1>7, <2>1, PursuitFrame DEF Request
  <1>8. ASSUME NEW w \in Callers, Timer(w) PROVE OwedInv' /\ EditPursued'
    <2>1. caller \in [Callers -> Places] /\ caller[w] \in Places
      BY <1>a DEF TypeOK
    <2>2. caller' = [caller EXCEPT ![w] = [caller[w] EXCEPT !.at = "ready"]]
      BY <1>8, <2>1 DEF Timer
    <2>3. /\ caller'[w].at = "ready" /\ caller'[w].user = caller[w].user
          /\ \A v \in Callers \ {w} : caller'[v] = caller[v]
      BY <2>1, <2>2, PlaceTyped
    <2>4. \A v \in Callers : Pursuing(v) => Pursuing(v)'
      BY <1>8, <2>3 DEF Timer, Pursuing
    <2> QED BY <1>8, <2>4, PursuitFrame DEF Timer
  <1>9. ASSUME NEW u \in Users, NEW feed \in BOOLEAN, Poll(u, feed)
        PROVE  OwedInv' /\ EditPursued'
    <2>1. /\ OwedInv'
          /\ owed' => check' # None /\ check'.stage # "drop" /\ StillCurrent(check.row)'
      BY <1>9, PursuitRegister DEF Poll, HasRow
    <2> QED BY <2>1 DEF EditPursued
  <1>10. ASSUME NEW w \in Callers, CheckSubscription(w) PROVE OwedInv' /\ EditPursued'
    <2>1. caller \in [Callers -> Places] /\ caller[w] \in Places
      BY <1>a DEF TypeOK
    <2>2. CASE ~HasRow(caller[w].user)
      <3>1. owed => ~Pursuing(w)
        BY <2>2 DEF PursuitInv, OwedInv, HasRow, Pursuing
      <3>2. caller' = [caller EXCEPT ![w] = Idle] /\ check' = check
        BY <1>10, <2>2 DEF CheckSubscription
      <3>3. CASE ~owed
        BY <1>10, <3>2, <3>3, NothingOwedMeanwhile DEF CheckSubscription, TypeOK, PursuitInv
      <3>4. CASE owed
        <4>1. \A v \in Callers : Pursuing(v) => Pursuing(v)'
          BY <1>10, <2>1, <3>1, <3>2, <3>4 DEF CheckSubscription, Pursuing
        <4> QED BY <1>10, <3>2, <4>1, PursuitFrame DEF CheckSubscription
      <3> QED BY <3>3, <3>4
    <2>3. CASE HasRow(caller[w].user) /\ check # None
      <3>1. /\ caller' = [caller EXCEPT ![w] = [caller[w] EXCEPT !.at = "joined"]]
            /\ check' = check
        BY <1>10, <2>1, <2>3 DEF CheckSubscription
      <3>2. /\ caller'[w].at = "joined" /\ caller'[w].user = caller[w].user
            /\ \A v \in Callers \ {w} : caller'[v] = caller[v]
        BY <2>1, <3>1, PlaceTyped
      <3>3. \A v \in Callers : Pursuing(v) => Pursuing(v)'
        BY <1>10, <3>2 DEF CheckSubscription, Pursuing
      <3> QED BY <1>10, <3>1, <3>3, PursuitFrame DEF CheckSubscription
    <2>4. CASE HasRow(caller[w].user) /\ check = None
      <3>1. sub # None /\ Register(FALSE) /\ UNCHANGED <<sub, mirror, owed>>
        BY <1>10, <2>4 DEF CheckSubscription, HasRow
      <3>2. /\ OwedInv'
            /\ owed' => check' # None /\ check'.stage # "drop" /\ StillCurrent(check.row)'
        BY <3>1, PursuitRegister
      <3> QED BY <3>2 DEF EditPursued
    <2> QED BY <2>2, <2>3, <2>4
  <1>11. CASE Skip
    <2>1. check # None /\ check.row.stored # None /\ check \in Checks
      BY <1>11, <1>a DEF Skip, PursuitInv, OwedInv, TypeOK
    <2>2. owed => ~StillCurrent(check.row)
      <3>1. check.row.stored \in Snapshots
        BY <2>1 DEF Checks, Rows
      <3>2. Fingerprint(check.row.stored) # None
        BY <3>1, ConstantsAssumption DEF Fingerprint, Snapshots
      <3>3. owed => Fingerprint(sub.stored) = None
        BY DEF PursuitInv, OwedInv, Fingerprint
      <3> QED BY <3>2, <3>3 DEF StillCurrent
    <2> QED BY <1>11, <2>2, PursuitResumes DEF Skip
  <1>12. CASE Fetched
    <2>1. CASE ~StillCurrent(check.row)
      BY <1>12, <2>1, PursuitResumes DEF Fetched
    <2>2. CASE StillCurrent(check.row)
      <3>1. PICK snap \in PagesOf(check.row.url) :
              IF WantsCover(check.row, snap)
              THEN /\ check' = [check EXCEPT !.stage = "retrieve", !.snap = snap]
                   /\ UNCHANGED <<sub, caller, event, owed>>
              ELSE Conclude(check.row, snap)
        BY <1>12, <2>2 DEF Fetched
      <3>2. CASE WantsCover(check.row, snap)
        <4>1. check # None /\ check \in Checks
          BY <1>12, <1>a DEF Fetched, TypeOK
        <4>2. check'.stage = "retrieve" /\ check'.row = check.row
          BY <3>1, <3>2, <4>1 DEF Checks
        <4>3. check' # None
          <5>1. snap \in Snapshots /\ check.stage = "fetch"
            BY <1>12, <1>a, <4>1, PageTyped DEF Fetched
          <5>2. check' = [check EXCEPT !.stage = "retrieve", !.snap = snap]
            BY <3>1, <3>2
          <5>3. snap # None
            BY <5>1, ConstantsAssumption
          <5>4. check' \in Checks
            BY <4>1, <5>1, <5>2, <5>3 DEF Checks
          <5> QED BY <5>4, ConstantsAssumption
        <4> QED BY <1>12, <3>1, <3>2, <4>1, <4>2, <4>3, PursuitContinues DEF Fetched
      <3>3. CASE ~WantsCover(check.row, snap)
        BY <3>1, <3>3, NothingOwed DEF Conclude, Finish
      <3> QED BY <3>2, <3>3
    <2> QED BY <2>1, <2>2
  <1>13. CASE FetchFails
    <2>1. CASE ~StillCurrent(check.row)
      BY <1>13, <2>1, PursuitResumes DEF FetchFails
    <2>2. CASE StillCurrent(check.row)
      BY <1>13, <2>2, NothingOwed DEF FetchFails, Finish
    <2> QED BY <2>1, <2>2
  <1>14. CASE CoverStored \/ CoverFails
    <2>1. check # None /\ check \in Checks
      BY <1>14, <1>a DEF CoverStored, CoverFails, TypeOK
    <2>2. check'.stage = "tail" /\ check'.row = check.row /\ check' \in Checks
      BY <1>14, <2>1 DEF CoverStored, CoverFails, Checks
    <2>3. check' # None
      BY <2>2, ConstantsAssumption
    <2> QED BY <1>14, <2>1, <2>2, <2>3, PursuitContinues DEF CoverStored, CoverFails
  <1>15. CASE Settle
    <2>1. CASE StillCurrent(check.row)
      BY <1>15, <2>1, NothingOwed DEF Settle, Conclude, Finish
    <2>2. CASE ~StillCurrent(check.row) /\ check.fetched
      <3>1. check # None /\ check \in Checks
        BY <1>15, <1>a DEF Settle, TypeOK
      <3>2. check'.stage = "drop" /\ check'.row = check.row /\ check' \in Checks
        BY <1>15, <2>2, <3>1 DEF Settle, Checks
      <3>3. check' # None
        BY <3>2, ConstantsAssumption
      <3> QED BY <1>15, <2>2, <3>1, <3>2, <3>3, PursuitContinues DEF Settle
    <2>3. CASE ~StillCurrent(check.row) /\ ~check.fetched
      BY <1>15, <2>3, PursuitResumes DEF Settle
    <2> QED BY <2>1, <2>2, <2>3
  <1>16. CASE Dropped
    BY <1>16, PursuitResumes DEF Dropped
  <1>17. CASE Crash
    BY <1>17, NothingOwed DEF Crash
  <1>18. CASE UNCHANGED vars
    BY <1>18, PursuitFrame DEF vars, Pursuing
  <1> QED
    BY <1>1, <1>2, <1>3, <1>4, <1>5, <1>6, <1>7, <1>8, <1>9, <1>10, <1>11, <1>12,
       <1>13, <1>14, <1>15, <1>16, <1>17, <1>18
    DEF Next, Handlers, Calls, Check

\* Until a new or edited topic was checked, somebody goes after its check.
THEOREM PursuitHolds == Spec => []EditPursued
  <1>1. Init => PursuitInv
    BY TypeInit DEF Init, PursuitInv, OwedInv, EditPursued
  <1>2. PursuitInv /\ [Next]_vars => PursuitInv'
    BY TypeStep, PursuitStep DEF PursuitInv
  <1>3. PursuitInv => EditPursued
    BY DEF PursuitInv
  <1> QED BY <1>1, <1>2, <1>3, PTL DEF Spec
=============================================================================
