----------------------------- MODULE CoverCache -----------------------------
(***************************************************************************)
(* The artwork kept of a subscription: CoverCache (server/cover-cache.ts), *)
(* a row of subscription_cover_cache and a file beside the database, and   *)
(* the retrieval of a cover (server/cover-fetch.ts, cover-http2.ts).       *)
(*                                                                         *)
(* A check of the subscription refreshes the cover, one check at a time    *)
(* (DirectCheck), the handlers that edit and delete the subscription       *)
(* remove it, and a message about a release reads it.  Row and file change *)
(* together only as far as the awaits between them allow: every file       *)
(* operation runs in the thread pool, and anything may happen before it    *)
(* has run and before its caller continues.                                *)
(***************************************************************************)
EXTENDS Naturals

CONSTANTS
  Topics,
  Covers,        \* images a tracker may show for a topic
  Handlers,      \* bound: requests that edit or delete, in flight at a time
  Readers,       \* bound: messages being composed at a time
  None,
  MaxRedirects,  \* MAX_COVER_REDIRECTS, MAX_REDIRECTS
  MaxEdits,      \* bound: requests that edit, delete or create
  MaxFaults      \* bound: crashes

\* The hash of the content; the hash of the subscription is the same for all.
Names == Covers
Rows == [file : Names, of : Covers]
Files == [of : Covers, whole : BOOLEAN]
Subscriptions == [topic : Topics, initialized : BOOLEAN]

ASSUME CoverAssumption ==
  /\ None \notin Topics \cup Covers \cup Rows \cup Files \cup Subscriptions
  /\ MaxRedirects \in Nat /\ MaxEdits \in Nat /\ MaxFaults \in Nat

VARIABLES
  sub,      \* the subscription, or None
  row,      \* its row; of: the image whose source, type and length it holds
  files,    \* the file of each name; whole: as long as its image
  check,    \* the check of the subscription and its refresh
  handler,  \* for each request that waits for its unlink: the file, and what then
  reader,
  edits, faults

actors == <<check, handler, reader>>
vars == <<sub, row, files, actors, edits, faults>>

\* method: standard fetch, HTTP/2, HTTP/2 without referer.
Checks == [at : {"idle", "retrieve", "write", "insert", "unlink", "tail", "drop"},
           held : Subscriptions \cup {None}, method : 1..3, hops : 0..MaxRedirects,
           got : Covers \cup {None}, file : Names \cup {None}, cached : BOOLEAN]

NoCheck == [at |-> "idle", held |-> None, method |-> 1, hops |-> 0,
            got |-> None, file |-> None, cached |-> FALSE]
NoRequest == [file |-> None, deletes |-> FALSE]
NoRead == [at |-> "idle", held |-> None, bytes |-> None]

Init ==
  /\ sub \in [topic : Topics, initialized : {FALSE}]
  /\ row = None
  /\ files = [n \in Names |-> None]
  /\ check = NoCheck
  /\ handler = [h \in Handlers |-> NoRequest]
  /\ reader = [x \in Readers |-> NoRead]
  /\ edits = 0 /\ faults = 0

-----------------------------------------------------------------------------
(* The cache. *)

\* The name depends on the content, so a file never changes its meaning.
cacheFileName_Plain(c) == CHOOSE n \in Names : TRUE
cacheFileName(c) == c

has_Row == row # None
has == row # None /\ files[row.file] # None /\ files[row.file].whole

\* The file a refresh leaves behind, if it is not the one it wrote.
Obsolete_Always(previous, name) == previous # None
Obsolete(previous, name) == previous # None /\ previous.file # name

Without(n) == [files EXCEPT ![n] = None]
FileOfRow == IF row = None THEN None ELSE row.file

\* directRowStillCurrent, as far as edits of the topic reach.
StillCurrent == sub = check.held

-----------------------------------------------------------------------------
(* The check: checkDirectOnce from the page on, refresh and retrieve.      *)

\* A page is there and artwork is due: for a baseline, because the cache has
\* none, or because the page changed.  (Otherwise nothing happens here.)
BeginRefresh ==
  /\ check.at = "idle" /\ sub # None
  /\ check' = [NoCheck EXCEPT !.at = "retrieve", !.held = sub]
  /\ UNCHANGED <<sub, row, files, handler, reader, edits, faults>>

Backfill == sub # None /\ (~sub.initialized \/ ~has) /\ BeginRefresh
PageChanged == sub # None /\ sub.initialized /\ has /\ BeginRefresh

\* A redirect is followed: another request of the same method.
Redirected ==
  /\ check.at = "retrieve" /\ check.hops < MaxRedirects
  /\ check' = [check EXCEPT !.hops = @ + 1]
  /\ UNCHANGED <<sub, row, files, handler, reader, edits, faults>>

\* No image, an error, a timeout, too large, one redirect too many: the next
\* method is tried, and after the last the refresh fails.
NotRetrieved ==
  /\ check.at = "retrieve"
  /\ check' = IF check.method < 3
              THEN [check EXCEPT !.method = @ + 1, !.hops = 0]
              ELSE [NoCheck EXCEPT !.at = "tail", !.held = check.held]
  /\ UNCHANGED <<sub, row, files, handler, reader, edits, faults>>

\* The previous row is read before the first file operation.
Retrieved ==
  /\ check.at = "retrieve"
  /\ \E c \in Covers :
       check' = [NoCheck EXCEPT
                  !.at = "write", !.held = check.held, !.got = c,
                  !.file = IF Obsolete(row, cacheFileName(c)) THEN row.file ELSE None]
  /\ UNCHANGED <<sub, row, files, handler, reader, edits, faults>>

\* writeFile to a temporary name, then rename.
Renamed ==
  /\ check.at = "write"
  /\ files' = [files EXCEPT ![cacheFileName(check.got)] = [of |-> check.got, whole |-> TRUE]]
  /\ check' = [check EXCEPT !.at = "insert"]
  /\ UNCHANGED <<sub, row, handler, reader, edits, faults>>

NotWritten ==
  /\ check.at = "write"
  /\ check' = [check EXCEPT !.at = "tail"]
  /\ UNCHANGED <<sub, row, files, handler, reader, edits, faults>>

\* Without the subscription the foreign key refuses the row; the file stays.
Inserted ==
  /\ check.at = "insert"
  /\ IF sub # None
     THEN /\ row' = [file |-> cacheFileName(check.got), of |-> check.got]
          /\ check' = [check EXCEPT !.at = IF check.file # None THEN "unlink" ELSE "tail",
                                    !.cached = TRUE]
     ELSE row' = row /\ check' = [check EXCEPT !.at = "tail"]
  /\ UNCHANGED <<sub, files, handler, reader, edits, faults>>

Unlinked ==
  /\ check.at = "unlink"
  /\ files' = Without(check.file)
  /\ check' = [check EXCEPT !.at = "tail"]
  /\ UNCHANGED <<sub, row, handler, reader, edits, faults>>

\* The subscription is as it was: the snapshot is stored.  Otherwise what was
\* cached is removed.
Settle ==
  /\ check.at = "tail"
  /\ \/ /\ StillCurrent
        /\ sub' = [sub EXCEPT !.initialized = TRUE]
        /\ check' = NoCheck
        /\ UNCHANGED row
     \/ /\ ~StillCurrent /\ check.cached
        /\ row' = None
        /\ check' = IF row = None THEN NoCheck
                    ELSE [NoCheck EXCEPT !.at = "drop", !.file = row.file]
        /\ UNCHANGED sub
     \/ /\ ~StillCurrent /\ ~check.cached
        /\ check' = NoCheck
        /\ UNCHANGED <<sub, row>>
  /\ UNCHANGED <<files, handler, reader, edits, faults>>

Dropped ==
  /\ check.at = "drop"
  /\ files' = Without(check.file)
  /\ check' = NoCheck
  /\ UNCHANGED <<sub, row, handler, reader, edits, faults>>

-----------------------------------------------------------------------------
(* Requests. *)

Edit == edits < MaxEdits /\ edits' = edits + 1

\* PATCH with another URL: the baseline is reset, the cover removed.
Patch(h) ==
  /\ Edit
  /\ sub # None /\ handler[h] = NoRequest
  /\ \E t \in Topics \ {sub.topic} : sub' = [topic |-> t, initialized |-> FALSE]
  /\ row' = None
  /\ handler' = [handler EXCEPT ![h].file = FileOfRow]
  /\ UNCHANGED <<files, check, reader, faults>>

\* DELETE of the subscription or of its collection: the cover first.
Delete(h) ==
  /\ Edit
  /\ sub # None /\ handler[h] = NoRequest
  /\ row' = None
  /\ handler' = [handler EXCEPT ![h] = [file |-> FileOfRow, deletes |-> TRUE]]
  /\ UNCHANGED <<sub, files, check, reader, faults>>

\* The unlink ran and the handler goes on; the row goes with its subscription.
Removed(h) ==
  /\ handler[h] # NoRequest
  /\ files' = IF handler[h].file = None THEN files ELSE Without(handler[h].file)
  /\ IF handler[h].deletes THEN sub' = None /\ row' = None ELSE UNCHANGED <<sub, row>>
  /\ handler' = [handler EXCEPT ![h] = NoRequest]
  /\ UNCHANGED <<check, reader, edits, faults>>

\* POST: the identifier is given out again.
Create ==
  /\ Edit
  /\ sub = None
  /\ sub' \in [topic : Topics, initialized : {FALSE}]
  /\ UNCHANGED <<row, files, actors, faults>>

-----------------------------------------------------------------------------
(* read. *)

Read(x) ==
  /\ row # None /\ reader[x] = NoRead
  /\ reader' = [reader EXCEPT ![x] = [NoRead EXCEPT !.at = "reading", !.held = row]]
  /\ UNCHANGED <<sub, row, files, check, handler, edits, faults>>

\* readFile: what was there when it ran; the reader hears of it later.
Loaded(x) ==
  /\ reader[x].at = "reading"
  /\ LET file == files[reader[x].held.file]
     IN reader' = [reader EXCEPT
                    ![x].at = IF file = None THEN "missing"
                              ELSE IF file.whole THEN "read" ELSE "short",
                    ![x].bytes = IF file = None THEN None ELSE file.of]
  /\ UNCHANGED <<sub, row, files, check, handler, edits, faults>>

\* A missing file takes whatever row there is now with it, a short one is
\* removed with it.
ReadEnds(x) ==
  /\ reader[x].at \in {"read", "missing", "short"}
  /\ row' = IF reader[x].at = "read" THEN row ELSE None
  /\ reader' = [reader EXCEPT
                 ![x] = IF @.at = "short" /\ row # None
                        THEN [NoRead EXCEPT !.at = "drop", !.held = row]
                        ELSE NoRead]
  /\ UNCHANGED <<sub, files, check, handler, edits, faults>>

ReadDropped(x) ==
  /\ reader[x].at = "drop"
  /\ files' = Without(reader[x].held.file)
  /\ reader' = [reader EXCEPT ![x] = NoRead]
  /\ UNCHANGED <<sub, row, check, handler, edits, faults>>

-----------------------------------------------------------------------------
(***************************************************************************)
(* The process dies and starts again: what was in flight is gone, files    *)
(* that had not reached the disk are short, and those no row names are     *)
(* pruned (pruneOrphans in the constructor).                               *)
(***************************************************************************)
Crash ==
  /\ faults < MaxFaults /\ faults' = faults + 1
  /\ \E short \in SUBSET Names :
       files' = [n \in Names |->
                  IF row = None \/ FileOfRow # n \/ files[n] = None THEN None
                  ELSE [files[n] EXCEPT !.whole = @ /\ n \notin short]]
  /\ check' = NoCheck
  /\ handler' = [h \in Handlers |-> NoRequest]
  /\ reader' = [x \in Readers |-> NoRead]
  /\ UNCHANGED <<sub, row, edits>>

Retrieving == Redirected \/ NotRetrieved \/ Retrieved
Writing == Renamed \/ NotWritten \/ Inserted \/ Unlinked
Reading(x) == Loaded(x) \/ ReadEnds(x) \/ ReadDropped(x)

Next ==
  \/ Backfill \/ PageChanged \/ Retrieving \/ Writing \/ Settle \/ Dropped
  \/ \E h \in Handlers : Patch(h) \/ Delete(h) \/ Removed(h)
  \/ Create
  \/ \E x \in Readers : Read(x) \/ Reading(x)
  \/ Crash

Spec == Init /\ [][Next]_vars

(***************************************************************************)
(* Fairness.  Polls go on, requests have timeouts and file operations end; *)
(* of the images asked for over and over one is retrieved at last, and the *)
(* disk is not full forever.                                               *)
(***************************************************************************)
Fairness ==
  /\ WF_vars(Backfill)
  /\ WF_vars(Retrieving) /\ SF_vars(Retrieved)
  /\ WF_vars(Writing) /\ SF_vars(Renamed)
  /\ WF_vars(Settle) /\ WF_vars(Dropped)
  /\ \A h \in Handlers : WF_vars(Removed(h))
  /\ \A x \in Readers : WF_vars(Reading(x))

FairSpec == Spec /\ Fairness

-----------------------------------------------------------------------------
(* Properties. *)

TypeOK ==
  /\ sub \in Subscriptions \cup {None}
  /\ row \in Rows \cup {None}
  /\ files \in [Names -> Files \cup {None}]
  /\ check \in Checks
  /\ handler \in [Handlers -> [file : Names \cup {None}, deletes : BOOLEAN]]
  /\ reader \in [Readers -> [at : {"idle", "reading", "read", "missing", "short", "drop"},
                             held : Rows \cup {None}, bytes : Covers \cup {None}]]
  /\ edits \in 0..MaxEdits /\ faults \in 0..MaxFaults

(***************************************************************************)
(* read answers with the image its row describes (the source, the type and *)
(* the time that go with it), however the file was replaced meanwhile.     *)
(***************************************************************************)
ReadMatches ==
  \A x \in Readers : reader[x].at = "read" => reader[x].bytes = reader[x].held.of

Intact == row # None /\ files[row.file] = [of |-> row.of, whole |-> TRUE]

(***************************************************************************)
(* A cover that is there stays until it is removed on purpose: its file    *)
(* handed to an unlink with its row, its subscription deleted, a crash, or *)
(* one of two overlaps: a read that found an earlier file missing deletes  *)
(* the new row, an unlink issued earlier takes the same content again      *)
(* (before or after the refresh has inserted its row).  A refresh alone,   *)
(* successful or not, never costs the cover.                               *)
(***************************************************************************)
OnPurpose ==
  \/ check'.at = "drop" /\ check.at # "drop"
  \/ \E h \in Handlers : handler[h] = NoRequest /\ handler'[h].file = FileOfRow
  \/ sub # None /\ sub' = None
  \/ \E x \in Readers : reader[x].at = "short" /\ reader'[x] # reader[x]

Overlapped ==
  \/ \E x \in Readers : reader[x].at = "missing" /\ reader'[x] = NoRead
  \/ \E x \in Readers : reader[x].at = "drop" /\ reader'[x] = NoRead
  \/ \E h \in Handlers : handler[h].file = FileOfRow /\ handler'[h] = NoRequest
  \/ check.at = "drop" /\ check'.at = "idle"
  \/ check.at = "insert" /\ files[cacheFileName(check.got)] = None

CoverKept == [][Intact /\ ~Intact' => OnPurpose \/ Overlapped \/ faults' # faults]_vars

(***************************************************************************)
(* However row and file came apart (a short file after a crash, a row      *)
(* whose file an unlink took, a row a read deleted), the checks that       *)
(* follow cache a cover again.                                             *)
(***************************************************************************)
CoverReturns == (sub # None /\ ~Intact) ~> (Intact \/ sub = None)
=============================================================================
