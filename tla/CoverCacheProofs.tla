-------------------------- MODULE CoverCacheProofs --------------------------
(***************************************************************************)
(* The safety of CoverCache, for any number of topics, images, requests,   *)
(* readers, edits and crashes.                                             *)
(***************************************************************************)
EXTENDS CoverCache, TLAPS

\* A name stands for one image, in a file, in the row and in a row that is read.
FileInv ==
  /\ \A n \in Names : files[n] # None => files[n].of = n
  /\ row # None => row.file = row.of /\ sub # None
  /\ \A x \in Readers : reader[x].at # "idle" => reader[x].held \in Rows /\ reader[x].held.file = reader[x].held.of

\* What a refresh is about to unlink is not what it writes, and what it has
\* written is whole or gone.
CheckInv ==
  /\ check.at \notin {"idle", "drop"} => check.held \in Subscriptions
  /\ check.at \in {"write", "insert", "unlink"} => check.got \in Covers /\ check.file # check.got
  /\ check.at = "insert" => files[check.got] = None \/ files[check.got].whole
  /\ check.at = "unlink" => check.file \in Names /\ (row = None \/ row.file # check.file)
  /\ check.at = "drop" => check.file \in Names

IInv == TypeOK /\ FileInv /\ CheckInv /\ ReadMatches

(***************************************************************************)
(* Steps that leave the row and the files as they are.                     *)
(***************************************************************************)

LEMMA RowFile ==
  ASSUME TypeOK
  PROVE  FileOfRow \in Names \cup {None}
  BY DEF TypeOK, FileOfRow, Rows

LEMMA NoCheckTyped == NoCheck \in Checks
  <1>1. MaxRedirects \in Nat
    BY Zenon, CoverAssumption
  <1> QED BY <1>1 DEF NoCheck, Checks

Stages == {"idle", "retrieve", "write", "insert", "unlink", "tail", "drop"}

LEMMA CheckTyped ==
  ASSUME NEW c \in Checks
  PROVE  /\ \A at \in Stages : [c EXCEPT !.at = at] \in Checks /\ [c EXCEPT !.at = at, !.cached = TRUE] \in Checks
         /\ \A at \in Stages, held \in Subscriptions \cup {None} : [c EXCEPT !.at = at, !.held = held] \in Checks
         /\ \A at \in Stages, file \in Names \cup {None} : [c EXCEPT !.at = at, !.file = file] \in Checks
         /\ \A at \in Stages, held \in Subscriptions \cup {None}, got \in Covers \cup {None}, file \in Names \cup {None} :
              [c EXCEPT !.at = at, !.held = held, !.got = got, !.file = file] \in Checks
         /\ \A m \in 1..3, h \in 0..MaxRedirects : [c EXCEPT !.method = m, !.hops = h] \in Checks
  BY DEF Checks, Stages

LEMMA RefreshKeeps ==
  ASSUME IInv, Backfill \/ PageChanged \/ Redirected \/ NotRetrieved \/ Retrieved \/ NotWritten
  PROVE  IInv' /\ UNCHANGED <<row, files>>
  <1>1. UNCHANGED <<sub, row, files, handler, reader, edits, faults>>
    BY DEF Backfill, PageChanged, BeginRefresh, Redirected, NotRetrieved, Retrieved, NotWritten
  <1>2. check' \in Checks
    <2>1. CASE Backfill \/ PageChanged
      <3>1. check' = [NoCheck EXCEPT !.at = "retrieve", !.held = sub]
        BY <2>1 DEF Backfill, PageChanged, BeginRefresh
      <3>2. sub \in Subscriptions \cup {None} /\ "retrieve" \in Stages
        BY DEF IInv, TypeOK, Stages
      <3> QED BY <3>1, <3>2, CheckTyped, NoCheckTyped, Zenon
    <2>2. CASE Redirected
      BY <2>2, CoverAssumption DEF Redirected, Checks, IInv, TypeOK
    <2>3. CASE NotRetrieved
      <3>1. check \in Checks /\ check.held \in Subscriptions \cup {None}
        BY DEF IInv, TypeOK, Checks
      <3>2. check.method < 3 => [check EXCEPT !.method = @ + 1, !.hops = 0] \in Checks
        <4>1. MaxRedirects \in Nat
          BY Zenon, CoverAssumption
        <4>2. check.method \in 1..3 /\ 0 \in 0..MaxRedirects
          BY <3>1, <4>1 DEF Checks
        <4>3. check.method < 3 => check.method + 1 \in 1..3
          BY <4>2
        <4> QED BY <3>1, <4>2, <4>3, CheckTyped, Zenon
      <3>3. "tail" \in Stages
        BY DEF Stages
      <3>4. check' = IF check.method < 3 THEN [check EXCEPT !.method = @ + 1, !.hops = 0]
                     ELSE [NoCheck EXCEPT !.at = "tail", !.held = check.held]
        BY <2>3 DEF NotRetrieved
      <3> QED BY <3>1, <3>2, <3>3, <3>4, CheckTyped, NoCheckTyped, Zenon
    <2>4. CASE Retrieved
      <3>1. check.held \in Subscriptions \cup {None} /\ (row # None => row.file \in Names)
        BY DEF IInv, TypeOK, Checks, Rows
      <3>2. \A c \in Covers : (IF Obsolete(row, cacheFileName(c)) THEN row.file ELSE None) \in Names \cup {None}
        BY <3>1 DEF Obsolete
      <3>3. "write" \in Stages
        BY DEF Stages
      <3>4. PICK c \in Covers :
              check' = [NoCheck EXCEPT !.at = "write", !.held = check.held, !.got = c,
                        !.file = IF Obsolete(row, cacheFileName(c)) THEN row.file ELSE None]
        BY <2>4 DEF Retrieved
      <3>5. c \in Covers \cup {None}
        OBVIOUS
      <3>6. PICK file \in Names \cup {None} :
              check' = [NoCheck EXCEPT !.at = "write", !.held = check.held, !.got = c, !.file = file]
        BY <3>2, <3>4
      <3> QED BY <3>1, <3>3, <3>5, <3>6, CheckTyped, NoCheckTyped, Zenon
    <2>5. CASE NotWritten
      BY <2>5 DEF NotWritten, Checks, IInv, TypeOK
    <2> QED BY <2>1, <2>2, <2>3, <2>4, <2>5
  <1>3. CheckInv'
    <2>1. CASE Backfill \/ PageChanged
      BY <1>1, <2>1 DEF Backfill, PageChanged, BeginRefresh, NoCheck, CheckInv, IInv, TypeOK
    <2>2. CASE Redirected
      BY <1>1, <2>2 DEF Redirected, CheckInv, Checks, IInv, TypeOK
    <2>3. CASE NotRetrieved
      BY <1>1, <2>3 DEF NotRetrieved, NoCheck, CheckInv, Checks, IInv, TypeOK
    <2>4. CASE Retrieved
      <3>1. PICK c \in Covers :
              check' = [NoCheck EXCEPT !.at = "write", !.held = check.held, !.got = c,
                        !.file = IF Obsolete(row, cacheFileName(c)) THEN row.file ELSE None]
        BY <2>4 DEF Retrieved
      <3>2. check'.at = "write" /\ check'.held = check.held /\ check'.got = c
        BY <3>1 DEF NoCheck
      <3>3. check'.file # c
        BY <3>1, CoverAssumption DEF NoCheck, Obsolete, cacheFileName
      <3> QED BY <2>4, <3>2, <3>3 DEF Retrieved, CheckInv, IInv
    <2>5. CASE NotWritten
      BY <1>1, <2>5 DEF NotWritten, CheckInv, Checks, IInv, TypeOK
    <2> QED BY <2>1, <2>2, <2>3, <2>4, <2>5
  <1> QED BY <1>1, <1>2, <1>3 DEF IInv, TypeOK, FileInv, ReadMatches

(***************************************************************************)
(* Steps of the check that change the row or a file.                       *)
(***************************************************************************)

LEMMA FilesTyped ==
  ASSUME TypeOK, NEW n \in Names
  PROVE  /\ Without(n) \in [Names -> Files \cup {None}]
         /\ Without(n)[n] = None
         /\ \A m \in Names \ {n} : Without(n)[m] = files[m]
  BY DEF TypeOK, Without

LEMMA RenamedKeeps == ASSUME IInv, Renamed PROVE IInv' /\ (Intact => Intact')
  <1>1. check.at = "write" /\ check.got \in Covers /\ check.file # check.got /\ check \in Checks
    BY DEF Renamed, IInv, CheckInv, TypeOK
  <1>2. UNCHANGED <<sub, row, handler, reader, edits, faults>>
    BY DEF Renamed
  <1>3. files' = [files EXCEPT ![check.got] = [of |-> check.got, whole |-> TRUE]]
    BY DEF Renamed, cacheFileName
  <1>4. check' = [check EXCEPT !.at = "insert"] /\ check' \in Checks
    BY <1>1, CheckTyped DEF Renamed, Stages
  <1>5. files' \in [Names -> Files \cup {None}]
    BY <1>1, <1>3 DEF Files, Names, IInv, TypeOK
  <1>6. TypeOK'
    BY <1>2, <1>4, <1>5 DEF IInv, TypeOK
  <1>7. /\ files'[check.got] = [of |-> check.got, whole |-> TRUE]
        /\ \A n \in Names \ {check.got} : files'[n] = files[n]
    BY <1>1, <1>3 DEF Names, IInv, TypeOK
  <1>8. FileInv'
    BY <1>2, <1>7 DEF IInv, FileInv
  <1>9. CheckInv'
    BY <1>1, <1>4, <1>7 DEF Checks, IInv, CheckInv
  <1>10. Intact => Intact'
    BY <1>2, <1>7 DEF Intact, IInv, TypeOK, FileInv, Rows
  <1> QED BY <1>2, <1>6, <1>8, <1>9, <1>10 DEF IInv, ReadMatches

LEMMA InsertedKeeps ==
  ASSUME IInv, Inserted
  PROVE  IInv' /\ (Intact => Intact' \/ files[cacheFileName(check.got)] = None)
  <1>1. check.at = "insert" /\ check.got \in Covers /\ check.file # check.got /\ check \in Checks
    BY DEF Inserted, IInv, CheckInv, TypeOK
  <1>2. UNCHANGED <<sub, files, handler, reader, edits, faults>>
    BY DEF Inserted
  <1>3. CASE sub = None
    <2>1. row' = row /\ check' = [check EXCEPT !.at = "tail"]
      BY <1>3 DEF Inserted
    <2>2. check' \in Checks
      BY <1>1, <2>1, CheckTyped DEF Stages
    <2>3. CheckInv'
      BY <1>1, <2>1 DEF Checks, IInv, CheckInv
    <2> QED BY <1>2, <2>1, <2>2, <2>3 DEF IInv, TypeOK, FileInv, ReadMatches, Intact
  <1>4. CASE sub # None
    <2>1. row' = [file |-> check.got, of |-> check.got]
      BY <1>4 DEF Inserted, cacheFileName
    <2>2. PICK at \in {"unlink", "tail"} :
            /\ check' = [check EXCEPT !.at = at, !.cached = TRUE]
            /\ at = "unlink" => check.file # None
      BY <1>4 DEF Inserted
    <2>3. check' \in Checks
      BY <1>1, <2>2, CheckTyped DEF Stages
    <2>4. TypeOK'
      BY <1>1, <1>2, <2>1, <2>3 DEF IInv, TypeOK, Rows, Names
    <2>5. FileInv'
      BY <1>2, <1>4, <2>1 DEF IInv, FileInv
    <2>6. CheckInv'
      BY <1>1, <1>2, <2>1, <2>2 DEF Checks, IInv, CheckInv
    <2>7. files[check.got] # None => files[check.got] = [of |-> check.got, whole |-> TRUE]
      <3>1. files[check.got] \in Files \cup {None}
        BY <1>1 DEF IInv, TypeOK, Names
      <3>2. files[check.got] # None => files[check.got].of = check.got /\ files[check.got].whole = TRUE
        BY <1>1, <3>1 DEF IInv, FileInv, CheckInv, Names, Files
      <3> QED BY <3>1, <3>2 DEF Files
    <2>8. row'.file = check.got /\ row'.of = check.got /\ row' # None
      BY <1>1, <2>1, <2>4, CoverAssumption DEF Rows, Names
    <2>9. Intact' \/ files[cacheFileName(check.got)] = None
      BY <1>2, <2>7, <2>8 DEF Intact, cacheFileName
    <2> QED BY <1>2, <2>4, <2>5, <2>6, <2>9 DEF IInv, ReadMatches
  <1> QED BY <1>3, <1>4

LEMMA UnlinkedKeeps == ASSUME IInv, Unlinked PROVE IInv' /\ (Intact => Intact')
  <1>1. /\ check.at = "unlink" /\ check.file \in Names /\ check \in Checks
        /\ row = None \/ row.file # check.file
    BY DEF Unlinked, IInv, CheckInv, TypeOK
  <1>2. UNCHANGED <<sub, row, handler, reader, edits, faults>> /\ files' = Without(check.file)
    BY DEF Unlinked
  <1>3. check' = [check EXCEPT !.at = "tail"] /\ check' \in Checks
    BY <1>1, CheckTyped DEF Unlinked, Stages
  <1>4. TypeOK'
    BY <1>1, <1>2, <1>3, FilesTyped DEF IInv, TypeOK
  <1>5. FileInv'
    BY <1>1, <1>2, FilesTyped DEF IInv, FileInv
  <1>6. CheckInv'
    BY <1>1, <1>3 DEF Checks, IInv, CheckInv
  <1>7. Intact => Intact'
    BY <1>1, <1>2, FilesTyped DEF Intact, IInv, TypeOK, Rows
  <1> QED BY <1>2, <1>4, <1>5, <1>6, <1>7 DEF IInv, ReadMatches

LEMMA SettleKeeps ==
  ASSUME IInv, Settle
  PROVE  IInv' /\ (Intact => Intact' \/ check'.at = "drop")
  <1>1. check.at = "tail" /\ check \in Checks /\ check.held \in Subscriptions
    BY DEF Settle, IInv, CheckInv, TypeOK
  <1>2. UNCHANGED <<files, handler, reader, edits, faults>>
    BY DEF Settle
  <1>3. NoCheck.at = "idle"
    BY DEF NoCheck
  <1>4. CASE StillCurrent /\ sub' = [sub EXCEPT !.initialized = TRUE] /\ check' = NoCheck /\ row' = row
    <2>1. sub \in Subscriptions
      BY <1>1, <1>4 DEF StillCurrent
    <2>2. sub' \in Subscriptions /\ sub' # None
      <3>1. sub' \in Subscriptions
        BY <1>4, <2>1 DEF Subscriptions
      <3> QED BY <3>1, CoverAssumption, Zenon
    <2>3. TypeOK'
      BY <1>2, <1>4, <2>2, NoCheckTyped DEF IInv, TypeOK
    <2>4. FileInv' /\ CheckInv'
      BY <1>2, <1>3, <1>4, <2>2 DEF IInv, FileInv, CheckInv
    <2> QED BY <1>2, <1>4, <2>3, <2>4 DEF IInv, ReadMatches, Intact
  <1>5. CASE /\ row' = None /\ sub' = sub
             /\ check' = IF row = None THEN NoCheck ELSE [NoCheck EXCEPT !.at = "drop", !.file = row.file]
    <2>1. CASE row = None
      BY <1>2, <1>3, <1>5, <2>1, NoCheckTyped DEF IInv, TypeOK, FileInv, CheckInv, ReadMatches, Intact
    <2>2. CASE row # None
      <3>1. row.file \in Names
        BY <2>2 DEF IInv, TypeOK, Rows
      <3>2. check' = [NoCheck EXCEPT !.at = "drop", !.file = row.file]
        BY <1>5, <2>2
      <3>3. row.file \in Names \cup {None} /\ "drop" \in Stages
        BY <3>1 DEF Stages
      <3>4. check' \in Checks
        BY <3>2, <3>3, CheckTyped, NoCheckTyped, Zenon
      <3>5. check'.at = "drop" /\ check'.file = row.file
        BY <3>2 DEF NoCheck
      <3>6. check'.held = None
        BY <3>2 DEF NoCheck
      <3>7. CheckInv'
        BY <3>1, <3>5, <3>6 DEF CheckInv
      <3> QED BY <1>2, <1>5, <3>4, <3>5, <3>7 DEF IInv, TypeOK, FileInv, ReadMatches
    <2> QED BY <2>1, <2>2
  <1>6. CASE check' = NoCheck /\ UNCHANGED <<sub, row>>
    BY <1>2, <1>3, <1>6, NoCheckTyped DEF IInv, TypeOK, FileInv, CheckInv, ReadMatches, Intact
  <1> QED BY <1>4, <1>5, <1>6 DEF Settle

(***************************************************************************)
(* Everybody else only takes away: a file, the row, the row with the       *)
(* subscription.                                                           *)
(***************************************************************************)

LEMMA Fewer ==
  ASSUME IInv, check' \in {check, NoCheck}, row' \in {row, None}, row' # None => sub' # None,
         \A n \in Names : files'[n] \in {files[n], None}
  PROVE  /\ CheckInv'
         /\ \A n \in Names : files'[n] # None => files'[n].of = n
         /\ row' # None => row'.file = row'.of /\ sub' # None
  <1>1. CASE check' = check
    <2>1. check.at = "insert" => check.got \in Names
      BY DEF IInv, CheckInv, Names
    <2> QED BY <1>1, <2>1 DEF IInv, FileInv, CheckInv
  <1>2. CASE check' = NoCheck
    BY <1>2 DEF IInv, FileInv, CheckInv, NoCheck
  <1> QED BY <1>1, <1>2

LEMMA DroppedKeeps ==
  ASSUME IInv, Dropped
  PROVE  IInv' /\ (Intact /\ ~Intact' => OnPurpose \/ Overlapped)
  <1>1. check.at = "drop" /\ check.file \in Names /\ check' = NoCheck
    BY DEF Dropped, IInv, CheckInv
  <1>2. UNCHANGED <<sub, row, handler, reader, edits, faults>> /\ files' = Without(check.file)
    BY DEF Dropped
  <1>3. /\ files' \in [Names -> Files \cup {None}]
        /\ \A n \in Names : files'[n] \in {files[n], None}
    BY <1>1, <1>2, FilesTyped DEF IInv
  <1>4. TypeOK'
    BY <1>1, <1>2, <1>3, NoCheckTyped DEF IInv, TypeOK
  <1>5. FileInv' /\ CheckInv'
    BY <1>1, <1>2, <1>3, Fewer DEF IInv, FileInv
  <1>6. Overlapped
    BY <1>1 DEF Overlapped, NoCheck
  <1> QED BY <1>2, <1>4, <1>5, <1>6 DEF IInv, ReadMatches

LEMMA HandedOver ==
  ASSUME TypeOK, NEW h \in Handlers, handler[h] = NoRequest, NEW deletes \in BOOLEAN,
         handler' = [handler EXCEPT ![h] = [file |-> FileOfRow, deletes |-> deletes]]
  PROVE  /\ handler' \in [Handlers -> [file : Names \cup {None}, deletes : BOOLEAN]]
         /\ OnPurpose
  <1>1. FileOfRow \in Names \cup {None}
    BY RowFile
  <1>2. handler \in [Handlers -> [file : Names \cup {None}, deletes : BOOLEAN]]
    BY DEF TypeOK
  <1>3. handler'[h].file = FileOfRow
    BY <1>2
  <1> QED BY <1>1, <1>2, <1>3 DEF OnPurpose

LEMMA PatchKeeps ==
  ASSUME IInv, NEW h \in Handlers, Patch(h)
  PROVE  IInv' /\ (Intact /\ ~Intact' => OnPurpose \/ Overlapped)
  <1>1. UNCHANGED <<files, check, reader, faults>> /\ row' = None /\ handler[h] = NoRequest
    BY DEF Patch
  <1>2. sub' \in Subscriptions
    BY DEF Patch, Subscriptions
  <1>3. edits' \in 0..MaxEdits
    <2>1. MaxEdits \in Nat
      BY Zenon, CoverAssumption
    <2> QED BY <2>1 DEF Patch, Edit, IInv, TypeOK
  <1>4. /\ handler' = [handler EXCEPT ![h].file = FileOfRow]
        /\ handler \in [Handlers -> [file : Names \cup {None}, deletes : BOOLEAN]]
        /\ FileOfRow \in Names \cup {None}
    BY RowFile DEF Patch, IInv, TypeOK
  <1>5. OnPurpose /\ handler' \in [Handlers -> [file : Names \cup {None}, deletes : BOOLEAN]]
    <2>1. handler'[h].file = FileOfRow
      BY <1>4
    <2> QED BY <1>1, <1>4, <2>1 DEF OnPurpose
  <1>6. TypeOK'
    BY <1>1, <1>2, <1>3, <1>5 DEF IInv, TypeOK
  <1>7. FileInv' /\ CheckInv'
    BY <1>1, Fewer DEF IInv, FileInv
  <1> QED BY <1>1, <1>5, <1>6, <1>7 DEF IInv, ReadMatches

LEMMA DeleteKeeps ==
  ASSUME IInv, NEW h \in Handlers, Delete(h)
  PROVE  IInv' /\ (Intact /\ ~Intact' => OnPurpose \/ Overlapped)
  <1>1. UNCHANGED <<sub, files, check, reader, faults>> /\ row' = None /\ handler[h] = NoRequest
    BY DEF Delete
  <1>2. edits' \in 0..MaxEdits
    <2>1. MaxEdits \in Nat
      BY Zenon, CoverAssumption
    <2> QED BY <2>1 DEF Delete, Edit, IInv, TypeOK
  <1>3. handler' = [handler EXCEPT ![h] = [file |-> FileOfRow, deletes |-> TRUE]]
    BY DEF Delete
  <1>4. OnPurpose /\ handler' \in [Handlers -> [file : Names \cup {None}, deletes : BOOLEAN]]
    BY <1>1, <1>3, HandedOver DEF IInv
  <1>5. TypeOK'
    BY <1>1, <1>2, <1>4 DEF IInv, TypeOK
  <1>6. FileInv' /\ CheckInv'
    BY <1>1, Fewer DEF IInv, FileInv
  <1> QED BY <1>1, <1>4, <1>5, <1>6 DEF IInv, ReadMatches

LEMMA RemovedKeeps ==
  ASSUME IInv, NEW h \in Handlers, Removed(h)
  PROVE  IInv' /\ (Intact /\ ~Intact' => OnPurpose \/ Overlapped)
  <1>1. UNCHANGED <<check, reader, edits, faults>> /\ handler' = [handler EXCEPT ![h] = NoRequest]
    BY DEF Removed
  <1>2. handler \in [Handlers -> [file : Names \cup {None}, deletes : BOOLEAN]]
    BY DEF IInv, TypeOK
  <1>3. handler[h].file \in Names \cup {None} /\ handler'[h] = NoRequest
    BY <1>1, <1>2
  <1>4. handler' \in [Handlers -> [file : Names \cup {None}, deletes : BOOLEAN]]
    BY <1>1, <1>2 DEF NoRequest
  <1>5. /\ files' \in [Names -> Files \cup {None}]
        /\ \A n \in Names : files'[n] \in {files[n], None}
        /\ \A n \in Names : n # handler[h].file => files'[n] = files[n]
    <2>1. CASE handler[h].file = None
      BY <2>1 DEF Removed, IInv, TypeOK
    <2>2. CASE handler[h].file # None
      <3>1. files' = Without(handler[h].file) /\ handler[h].file \in Names
        BY <1>3, <2>2 DEF Removed
      <3> QED BY <3>1, FilesTyped DEF IInv
    <2> QED BY <2>1, <2>2
  <1>6. (sub' = None /\ row' = None) \/ UNCHANGED <<sub, row>>
    BY DEF Removed
  <1>7. TypeOK'
    BY <1>1, <1>4, <1>5, <1>6 DEF IInv, TypeOK
  <1>8. FileInv' /\ CheckInv'
    <2>1. row' \in {row, None} /\ (row' # None => sub' # None)
      BY <1>6 DEF IInv, FileInv
    <2> QED BY <1>1, <1>5, <2>1, Fewer DEF IInv, FileInv
  <1>9. ASSUME Intact, ~Intact' PROVE OnPurpose \/ Overlapped
    <2>1. row # None /\ sub # None /\ row.file \in Names
      BY <1>9 DEF Intact, IInv, FileInv, TypeOK, Rows
    <2>2. CASE UNCHANGED <<sub, row>>
      <3>1. handler[h].file = row.file
        BY <1>5, <1>9, <2>1, <2>2 DEF Intact
      <3> QED BY <1>3, <2>1, <3>1 DEF Overlapped, FileOfRow
    <2> QED BY <1>6, <2>1, <2>2 DEF OnPurpose
  <1> QED BY <1>1, <1>7, <1>8, <1>9 DEF IInv, ReadMatches

LEMMA CreateKeeps == ASSUME IInv, Create PROVE IInv' /\ (Intact => Intact')
  <1>1. UNCHANGED <<row, files, check, handler, reader, faults>>
    BY DEF Create, actors
  <1>2. sub' \in Subscriptions
    BY DEF Create, Subscriptions
  <1>3. sub' # None
    BY <1>2, CoverAssumption, Zenon
  <1>4. edits' \in 0..MaxEdits
    <2>1. MaxEdits \in Nat
      BY Zenon, CoverAssumption
    <2> QED BY <2>1 DEF Create, Edit, IInv, TypeOK
  <1> QED BY <1>1, <1>2, <1>3, <1>4 DEF IInv, TypeOK, FileInv, CheckInv, ReadMatches, Intact

(***************************************************************************)
(* Readers.                                                                *)
(***************************************************************************)

ReaderStages == {"idle", "reading", "read", "missing", "short", "drop"}
ReaderStates == [at : ReaderStages, held : Rows \cup {None}, bytes : Covers \cup {None}]

\* What a step of one reader has to bring: a state of its type whose row is
\* well named, with the image of that row if it was read.
WellRead(r) ==
  /\ r \in ReaderStates
  /\ r.at # "idle" => r.held \in Rows /\ r.held.file = r.held.of
  /\ r.at = "read" => r.bytes = r.held.of

LEMMA ReaderKeeps ==
  ASSUME IInv, NEW x \in Readers, NEW r, WellRead(r), reader' = [reader EXCEPT ![x] = r]
  PROVE  /\ reader' \in [Readers -> ReaderStates]
         /\ \A y \in Readers : reader'[y].at # "idle" => reader'[y].held \in Rows /\ reader'[y].held.file = reader'[y].held.of
         /\ ReadMatches'
  <1>1. reader \in [Readers -> ReaderStates]
    BY DEF IInv, TypeOK, ReaderStates, ReaderStages
  <1>2. \A y \in Readers : reader'[y] = IF y = x THEN r ELSE reader[y]
    BY <1>1
  <1>3. reader' \in [Readers -> ReaderStates]
    BY <1>1 DEF WellRead
  <1> QED BY <1>2, <1>3 DEF WellRead, IInv, FileInv, ReadMatches

LEMMA NoReadFine == WellRead(NoRead)
  BY DEF WellRead, NoRead, ReaderStates, ReaderStages

LEMMA ReadKeeps ==
  ASSUME IInv, NEW x \in Readers, Read(x)
  PROVE  IInv' /\ (Intact => Intact')
  <1>1. UNCHANGED <<sub, row, files, check, handler, edits, faults>>
    BY DEF Read
  <1>2. row \in Rows /\ row.file = row.of
    BY DEF Read, IInv, TypeOK, FileInv
  <1>3. PICK r : r = [NoRead EXCEPT !.at = "reading", !.held = row]
    OBVIOUS
  <1>4. WellRead(r)
    BY <1>2, <1>3 DEF WellRead, NoRead, ReaderStates, ReaderStages
  <1>5. reader' = [reader EXCEPT ![x] = r]
    <2>1. reader[x] = NoRead
      BY DEF Read
    <2> QED BY <1>3, <2>1 DEF Read
  <1>6. /\ reader' \in [Readers -> ReaderStates]
        /\ \A y \in Readers : reader'[y].at # "idle" => reader'[y].held \in Rows /\ reader'[y].held.file = reader'[y].held.of
        /\ ReadMatches'
    BY <1>4, <1>5, ReaderKeeps
  <1> QED BY <1>1, <1>6 DEF IInv, TypeOK, FileInv, CheckInv, Intact, ReaderStates, ReaderStages

LEMMA LoadedKeeps ==
  ASSUME IInv, NEW x \in Readers, Loaded(x)
  PROVE  IInv' /\ (Intact => Intact')
  <1>1. UNCHANGED <<sub, row, files, check, handler, edits, faults>>
    BY DEF Loaded
  <1>2. /\ reader[x] \in ReaderStates
        /\ reader[x].held \in Rows /\ reader[x].held.file = reader[x].held.of
    BY DEF Loaded, IInv, TypeOK, FileInv, ReaderStates, ReaderStages
  <1>3. PICK file : file = files[reader[x].held.file]
    OBVIOUS
  <1>4. reader[x].held.file \in Names
    BY <1>2 DEF Rows
  <1>5. file \in Files \cup {None} /\ (file # None => file.of = reader[x].held.of)
    BY <1>2, <1>3, <1>4 DEF IInv, TypeOK, FileInv
  <1>6. PICK at : at = IF file = None THEN "missing" ELSE IF file.whole THEN "read" ELSE "short"
    OBVIOUS
  <1>7. PICK bytes : bytes = IF file = None THEN None ELSE file.of
    OBVIOUS
  <1>8. bytes \in Covers \cup {None} /\ at \in ReaderStages
    BY <1>5, <1>6, <1>7 DEF Files, ReaderStages
  <1>9. at = "read" => bytes = reader[x].held.of
    BY <1>5, <1>6, <1>7
  <1>10. WellRead([reader[x] EXCEPT !.at = at, !.bytes = bytes])
    BY <1>2, <1>8, <1>9 DEF WellRead, ReaderStates
  <1>11. reader' = [reader EXCEPT ![x] = [reader[x] EXCEPT !.at = at, !.bytes = bytes]]
    <2>1. reader' = [reader EXCEPT ![x].at = at, ![x].bytes = bytes]
      BY <1>3, <1>6, <1>7, Zenon DEF Loaded
    <2>2. reader \in [Readers -> ReaderStates]
      BY DEF IInv, TypeOK, ReaderStates, ReaderStages
    <2>3. reader' = [[reader EXCEPT ![x].at = at] EXCEPT ![x].bytes = bytes]
      BY <2>1
    <2> QED BY <2>2, <2>3
  <1>12. /\ reader' \in [Readers -> ReaderStates]
         /\ \A y \in Readers : reader'[y].at # "idle" => reader'[y].held \in Rows /\ reader'[y].held.file = reader'[y].held.of
         /\ ReadMatches'
    BY <1>10, <1>11, ReaderKeeps
  <1> QED BY <1>1, <1>12 DEF IInv, TypeOK, FileInv, CheckInv, Intact, ReaderStates, ReaderStages

LEMMA ReadEndsKeeps ==
  ASSUME IInv, NEW x \in Readers, ReadEnds(x)
  PROVE  IInv' /\ (Intact /\ ~Intact' => OnPurpose \/ Overlapped)
  <1>1. UNCHANGED <<sub, files, check, handler, edits, faults>>
    BY DEF ReadEnds
  <1>2. row' \in {row, None} /\ (reader[x].at = "read" => row' = row)
    BY DEF ReadEnds
  <1>3. PICK r : r = IF reader[x].at = "short" /\ row # None
                     THEN [NoRead EXCEPT !.at = "drop", !.held = row] ELSE NoRead
    OBVIOUS
  <1>4. WellRead(r)
    <2>1. CASE r = NoRead
      BY <2>1, NoReadFine
    <2>2. CASE row # None /\ r = [NoRead EXCEPT !.at = "drop", !.held = row]
      <3>1. row \in Rows /\ row.file = row.of
        BY <2>2 DEF IInv, TypeOK, FileInv
      <3> QED BY <2>2, <3>1 DEF WellRead, NoRead, ReaderStates, ReaderStages
    <2> QED BY <1>3, <2>1, <2>2
  <1>5. reader' = [reader EXCEPT ![x] = r]
    BY <1>3 DEF ReadEnds
  <1>6. /\ reader' \in [Readers -> ReaderStates]
        /\ \A y \in Readers : reader'[y].at # "idle" => reader'[y].held \in Rows /\ reader'[y].held.file = reader'[y].held.of
        /\ ReadMatches'
    BY <1>4, <1>5, ReaderKeeps
  <1>7. TypeOK'
    BY <1>1, <1>2, <1>6 DEF IInv, TypeOK, ReaderStates, ReaderStages
  <1>8. FileInv' /\ CheckInv'
    <2>1. row' # None => sub' # None
      BY <1>1, <1>2 DEF IInv, FileInv
    <2> QED BY <1>1, <1>2, <1>6, <2>1, Fewer DEF FileInv
  <1>9. ASSUME Intact, ~Intact' PROVE OnPurpose \/ Overlapped
    <2>1. reader[x].at \in {"missing", "short"}
      BY <1>1, <1>2, <1>9 DEF Intact, ReadEnds
    <2>2. reader'[x] = r
      BY <1>5 DEF IInv, TypeOK
    <2>3. CASE reader[x].at = "missing"
      <3>1. r = NoRead
        BY <1>3, <2>3
      <3> QED BY <2>2, <2>3, <3>1 DEF Overlapped
    <2>4. CASE reader[x].at = "short"
      <3>1. r.at # "short"
        BY <1>3 DEF NoRead
      <3>2. reader'[x] # reader[x]
        BY <2>2, <2>4, <3>1
      <3> QED BY <2>4, <3>2 DEF OnPurpose
    <2> QED BY <2>1, <2>3, <2>4
  <1> QED BY <1>6, <1>7, <1>8, <1>9 DEF IInv

LEMMA ReadDroppedKeeps ==
  ASSUME IInv, NEW x \in Readers, ReadDropped(x)
  PROVE  IInv' /\ (Intact /\ ~Intact' => OnPurpose \/ Overlapped)
  <1>1. UNCHANGED <<sub, row, check, handler, edits, faults>> /\ reader[x].at = "drop"
    BY DEF ReadDropped
  <1>2. reader[x].held.file \in Names
    BY <1>1 DEF IInv, FileInv, Rows
  <1>3. /\ files' \in [Names -> Files \cup {None}]
        /\ \A n \in Names : files'[n] \in {files[n], None}
    BY <1>2, FilesTyped DEF ReadDropped, IInv
  <1>4. reader' = [reader EXCEPT ![x] = NoRead]
    BY DEF ReadDropped
  <1>5. /\ reader' \in [Readers -> ReaderStates]
        /\ \A y \in Readers : reader'[y].at # "idle" => reader'[y].held \in Rows /\ reader'[y].held.file = reader'[y].held.of
        /\ ReadMatches'
    BY <1>4, NoReadFine, ReaderKeeps
  <1>6. TypeOK'
    BY <1>1, <1>3, <1>5 DEF IInv, TypeOK, ReaderStates, ReaderStages
  <1>7. FileInv' /\ CheckInv'
    <2>1. row' # None => sub' # None
      BY <1>1 DEF IInv, FileInv
    <2> QED BY <1>1, <1>3, <1>5, <2>1, Fewer DEF FileInv
  <1>8. Overlapped
    <2>1. reader'[x] = NoRead
      BY <1>4 DEF IInv, TypeOK
    <2> QED BY <1>1, <2>1 DEF Overlapped
  <1> QED BY <1>5, <1>6, <1>7, <1>8 DEF IInv

(***************************************************************************)
(* Crashes, and the induction.                                             *)
(***************************************************************************)

LEMMA CrashKeeps == ASSUME IInv, Crash PROVE IInv' /\ faults' # faults
  <1>1. check' = NoCheck /\ UNCHANGED <<sub, row, edits>>
    BY DEF Crash
  <1>2. faults' \in 0..MaxFaults /\ faults' # faults
    <2>1. MaxFaults \in Nat
      BY Zenon, CoverAssumption
    <2> QED BY <2>1 DEF Crash, IInv, TypeOK
  <1>3. handler' \in [Handlers -> [file : Names \cup {None}, deletes : BOOLEAN]]
    <2>1. NoRequest \in [file : Names \cup {None}, deletes : BOOLEAN]
      BY DEF NoRequest
    <2> QED BY <2>1 DEF Crash
  <1>4. /\ reader' \in [Readers -> ReaderStates]
        /\ \A x \in Readers : reader'[x].at = "idle"
    <2>1. NoRead \in ReaderStates /\ NoRead.at = "idle"
      BY DEF NoRead, ReaderStates, ReaderStages
    <2> QED BY <2>1 DEF Crash
  <1>5. PICK short \in SUBSET Names :
          files' = [n \in Names |->
                     IF row = None \/ FileOfRow # n \/ files[n] = None THEN None
                     ELSE [files[n] EXCEPT !.whole = @ /\ n \notin short]]
    BY DEF Crash
  <1>6. ASSUME NEW n \in Names
        PROVE  files'[n] \in Files \cup {None} /\ (files'[n] # None => files'[n].of = n)
    <2>1. CASE row = None \/ FileOfRow # n \/ files[n] = None
      BY <1>5, <2>1
    <2>2. CASE row # None /\ FileOfRow = n /\ files[n] # None
      <3>1. files[n] \in Files /\ files[n].of = n
        BY <2>2 DEF IInv, TypeOK, FileInv
      <3>2. PICK whole \in BOOLEAN : whole = (files[n].whole /\ n \notin short)
        OBVIOUS
      <3>3. files'[n] = [files[n] EXCEPT !.whole = whole]
        BY <1>5, <2>2, <3>2, Zenon
      <3> QED BY <3>1, <3>3 DEF Files
    <2> QED BY <2>1, <2>2
  <1>7. files' \in [Names -> Files \cup {None}]
    BY <1>5, <1>6
  <1>8. TypeOK'
    BY <1>1, <1>2, <1>3, <1>4, <1>7, NoCheckTyped DEF IInv, TypeOK, ReaderStates, ReaderStages
  <1>9. FileInv' /\ CheckInv' /\ ReadMatches'
    BY <1>1, <1>4, <1>6 DEF IInv, FileInv, CheckInv, ReadMatches, NoCheck
  <1> QED BY <1>2, <1>8, <1>9 DEF IInv

LEMMA InitHolds == Init => IInv
  <1> SUFFICES ASSUME Init PROVE IInv
    OBVIOUS
  <1>1. MaxEdits \in Nat /\ MaxFaults \in Nat
    BY Zenon, CoverAssumption
  <1>2. sub \in Subscriptions /\ row = None /\ files \in [Names -> Files \cup {None}]
    BY DEF Init, Subscriptions
  <1>3. NoRequest \in [file : Names \cup {None}, deletes : BOOLEAN]
    BY DEF NoRequest
  <1>4. NoRead \in ReaderStates /\ NoRead.at = "idle"
    BY DEF NoRead, ReaderStates, ReaderStages
  <1>5. TypeOK
    BY <1>1, <1>2, <1>3, <1>4, NoCheckTyped DEF Init, TypeOK, ReaderStates, ReaderStages
  <1>6. FileInv /\ CheckInv /\ ReadMatches
    BY <1>2, <1>4 DEF Init, FileInv, CheckInv, ReadMatches, NoCheck
  <1> QED BY <1>5, <1>6 DEF IInv

\* Every step keeps the invariant, and the cover or says what cost it.
Lost == Intact /\ ~Intact' => OnPurpose \/ Overlapped \/ faults' # faults

LEMMA NextKeeps == IInv /\ [Next]_vars => IInv' /\ Lost
  <1> SUFFICES ASSUME IInv, [Next]_vars PROVE IInv' /\ Lost
    OBVIOUS
  <1>1. CASE Backfill \/ PageChanged \/ Redirected \/ NotRetrieved \/ Retrieved \/ NotWritten
    BY <1>1, RefreshKeeps DEF Lost, Intact
  <1>2. CASE Renamed \/ Unlinked
    BY <1>2, RenamedKeeps, UnlinkedKeeps DEF Lost
  <1>3. CASE Inserted
    <2>1. check.at = "insert"
      BY <1>3 DEF Inserted
    <2> QED BY <1>3, <2>1, InsertedKeeps DEF Lost, Overlapped
  <1>4. CASE Settle
    <2>1. check.at # "drop"
      BY <1>4 DEF Settle
    <2> QED BY <1>4, <2>1, SettleKeeps DEF Lost, OnPurpose
  <1>5. CASE Dropped
    BY <1>5, DroppedKeeps DEF Lost
  <1>6. CASE \E h \in Handlers : Patch(h) \/ Delete(h) \/ Removed(h)
    BY <1>6, PatchKeeps, DeleteKeeps, RemovedKeeps DEF Lost
  <1>7. CASE Create
    BY <1>7, CreateKeeps DEF Lost
  <1>8. CASE \E x \in Readers : Read(x) \/ Reading(x)
    <2>1. PICK x \in Readers : Read(x) \/ Loaded(x) \/ ReadEnds(x) \/ ReadDropped(x)
      BY <1>8 DEF Reading
    <2> QED BY <2>1, ReadKeeps, LoadedKeeps, ReadEndsKeeps, ReadDroppedKeeps DEF Lost
  <1>9. CASE Crash
    BY <1>9, CrashKeeps DEF Lost
  <1>10. CASE UNCHANGED vars
    BY <1>10 DEF vars, actors, IInv, TypeOK, FileInv, CheckInv, ReadMatches, Lost, Intact
  <1> QED BY <1>1, <1>2, <1>3, <1>4, <1>5, <1>6, <1>7, <1>8, <1>9, <1>10 DEF Next, Retrieving, Writing

THEOREM Invariant == Spec => []IInv
  BY InitHolds, NextKeeps, PTL DEF Spec

(***************************************************************************)
(* Every variable of the cover cache has its type in every reachable       *)
(* state.                                                                  *)
(***************************************************************************)
THEOREM TypeCorrect == Spec => []TypeOK
  <1>1. IInv => TypeOK
    BY DEF IInv
  <1> QED BY <1>1, Invariant, PTL

(***************************************************************************)
(* A read answers with the image its row describes, although refreshes,    *)
(* edits, removals, other reads and crashes replace and unlink files       *)
(* between the row it has looked up and the file it gets (CoverCache.read, *)
(* server/cover-cache.ts): the name of a file depends on its content.      *)
(***************************************************************************)
THEOREM ReadsMatch == Spec => []ReadMatches
  <1>1. IInv => ReadMatches
    BY DEF IInv
  <1> QED BY <1>1, Invariant, PTL

(***************************************************************************)
(* A whole cover is lost only to a removal on purpose, to one of the       *)
(* overlaps of an earlier unlink or read, or to a crash; a refresh never   *)
(* costs it, because what it unlinks is not what it has written            *)
(* (CoverCache.refresh).                                                   *)
(***************************************************************************)
THEOREM CoverStays == Spec => CoverKept
  <1>1. IInv /\ [Next]_vars => [Intact /\ ~Intact' => OnPurpose \/ Overlapped \/ faults' # faults]_vars
    BY NextKeeps DEF Lost
  <1> QED BY <1>1, Invariant, PTL DEF Spec, CoverKept
=============================================================================
