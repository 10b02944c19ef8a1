------------------------------- MODULE StartUp -------------------------------
(***************************************************************************)
(* The start of the program and what it finds on its volumes               *)
(* (createApplication in server/app.ts, createDatabase in server/db.ts,    *)
(* server/secrets.ts and server/initial-admin.ts).                         *)
(*                                                                         *)
(* Two volumes are kept between starts: the database, and the directory of *)
(* the encryption key and of the first administrator's password.  A start  *)
(* is a sequence of statements and file operations; the process may die    *)
(* between any two of them, and while it is down the operator may put      *)
(* another copy of either volume in place.                                 *)
(***************************************************************************)
EXTENDS AccountBase, Naturals

CONSTANTS
  Keys,        \* encryption keys
  Steps,       \* the number of migrations
  Short        \* a key file that the process died writing

VARIABLES
  stage,       \* where the start is; "serving"; or "down"
  db,          \* the database
  copies,      \* copies of it that the operator may have
  keyFile,     \* the encryption key's file: a key, None or Short
  saved,       \* the file of the first password, or None
  vault,       \* the key in memory
  configured,  \* INITIAL_ADMIN_PASSWORD of this start, or None
  step,        \* the migration that is next
  cut          \* history: the process died between the first user and its Inbox

startVars == <<stage, db, copies, keyFile, saved, vault, configured, step, cut>>

\* done: migrations; admin: the first account (must_change_password is initial,
\* reset or 0: "no"), its password; inbox: the collection it begins with, which
\* its owner may have deleted (history); check: the key of vault_key_check;
\* secrets: the keys under which credentials and tokens are stored.
Databases == [done : SUBSET (1..Steps),
              admin : [password : Passwords, must : {"initial", "reset", "no"}] \cup {None},
              inbox : {"missing", "there", "deleted"}, check : Keys \cup {None}, secrets : SUBSET Keys]

Stages == {"down", "migrate", "seed", "inbox", "key", "check", "admin", "save", "remove",
           "forget", "serving"}

StartTypeOK ==
  /\ stage \in Stages
  /\ db \in Databases /\ copies \subseteq Databases
  /\ keyFile \in Keys \cup {None, Short} /\ saved \in Passwords \cup {None}
  /\ vault \in Keys \cup {None} /\ configured \in Passwords \cup {None}
  /\ step \in 1..(Steps + 1) /\ cut \in BOOLEAN

NewDatabase == [done |-> {}, admin |-> None, inbox |-> "missing", check |-> None, secrets |-> {}]

StartInit ==
  /\ stage = "down"
  /\ db = NewDatabase /\ copies = {}
  /\ keyFile = None /\ saved = None
  /\ vault = None /\ configured = None /\ step = 1
  /\ cut = FALSE
-----------------------------------------------------------------------------
(* createDatabase. *)

\* The tables are there from here on, with INITIAL_ADMIN_PASSWORD or without.
Start(password) ==
  /\ stage = "down"
  /\ stage' = "migrate" /\ step' = 1
  /\ configured' = password /\ vault' = None
  /\ UNCHANGED <<db, copies, keyFile, saved, cut>>

\* A migration, unless its column is there.
Migrate ==
  /\ stage = "migrate" /\ step <= Steps
  /\ db' = [db EXCEPT !.done = @ \cup {step}]
  /\ step' = step + 1
  /\ UNCHANGED <<stage, copies, keyFile, saved, vault, configured, cut>>

Migrated ==
  /\ stage = "migrate" /\ step > Steps
  /\ stage' = "seed"
  /\ UNCHANGED <<db, copies, keyFile, saved, vault, configured, step, cut>>

\* The first account, with a password nobody knows.
SeedUser(unknown) ==
  /\ stage = "seed"
  /\ IF db.admin = None
     THEN /\ db' = [db EXCEPT !.admin = [password |-> unknown, must |-> "initial"]]
          /\ stage' = "inbox"
     ELSE stage' = "key" /\ UNCHANGED db
  /\ UNCHANGED <<copies, keyFile, saved, vault, configured, step, cut>>

\* Its collection: a statement of its own.
SeedInbox ==
  /\ stage = "inbox"
  /\ db' = [db EXCEPT !.inbox = "there"]
  /\ stage' = "key"
  /\ UNCHANGED <<copies, keyFile, saved, vault, configured, step, cut>>
-----------------------------------------------------------------------------
(* createSecretVault and ensureVaultKey.  A start that throws ends. *)

Fail == stage' = "down" /\ UNCHANGED <<db, vault>>

\* The key is read, or generated and written.
OpenVault(new) ==
  /\ stage = "key"
  /\ IF keyFile = Short
     THEN Fail /\ UNCHANGED keyFile
     ELSE /\ keyFile' = IF keyFile = None THEN new ELSE keyFile
          /\ vault' = keyFile'
          /\ stage' = "check"
          /\ UNCHANGED db
  /\ UNCHANGED <<copies, saved, configured, step, cut>>

\* The process dies between the creation of the file and its bytes.
KeyCutShort ==
  /\ stage = "key" /\ keyFile = None
  /\ keyFile' = Short
  /\ stage' = "down"
  /\ UNCHANGED <<db, copies, saved, vault, configured, step, cut>>

\* The key is that of the database; a database without one takes it.
EnsureKey ==
  /\ stage = "check"
  /\ IF db.check \in {None, vault}
     THEN /\ db' = [db EXCEPT !.check = vault]
          /\ stage' = "admin"
          /\ UNCHANGED vault
     ELSE Fail
  /\ UNCHANGED <<copies, keyFile, saved, configured, step, cut>>
-----------------------------------------------------------------------------
(* prepareInitialAdmin. *)

\* The account is still to be signed in to for the first time.
Waiting == db.admin # None /\ db.admin.must = "initial"

SetPassword(password) == db' = [db EXCEPT !.admin.password = password]

\* Nobody waits: the file goes.  Else the account gets the configured password,
\* or, unless it has the saved one, a new one, which is saved next.
PrepareAdmin(new) ==
  /\ stage = "admin"
  /\ \/ ~Waiting /\ stage' = "remove" /\ UNCHANGED db
     \/ Waiting /\ configured # None /\ SetPassword(configured) /\ stage' = "remove"
     \/ /\ Waiting /\ configured = None
        /\ IF saved = db.admin.password
           THEN stage' = "serving" /\ UNCHANGED db
           ELSE SetPassword(new) /\ stage' = "save"
  /\ UNCHANGED <<copies, keyFile, saved, vault, configured, step, cut>>

SavePassword ==
  /\ stage = "save"
  /\ saved' = db.admin.password
  /\ stage' = "serving"
  /\ UNCHANGED <<db, copies, keyFile, vault, configured, step, cut>>

RemoveSaved ==
  /\ stage = "remove"
  /\ saved' = None
  /\ stage' = "serving"
  /\ UNCHANGED <<db, copies, keyFile, vault, configured, step, cut>>
-----------------------------------------------------------------------------
(* While the program serves. *)

\* Credentials or a token are stored, encrypted.
StoreSecret ==
  /\ stage = "serving"
  /\ db' = [db EXCEPT !.secrets = @ \cup {vault}]
  /\ UNCHANGED <<stage, copies, keyFile, saved, vault, configured, step, cut>>

DeleteSecret(key) ==
  /\ stage = "serving"
  /\ db' = [db EXCEPT !.secrets = @ \ {key}]
  /\ UNCHANGED <<stage, copies, keyFile, saved, vault, configured, step, cut>>

\* The account's user changes its password; the saved one is forgotten next.
ChangePassword(password) ==
  /\ stage = "serving" /\ db.admin # None
  /\ db' = [db EXCEPT !.admin = [password |-> password, must |-> "no"]]
  /\ stage' = "forget"
  /\ UNCHANGED <<copies, keyFile, saved, vault, configured, step, cut>>

Forget ==
  /\ stage = "forget"
  /\ saved' = IF Waiting THEN saved ELSE None
  /\ stage' = "serving"
  /\ UNCHANGED <<db, copies, keyFile, vault, configured, step, cut>>

\* Another administrator sets it.
ResetPassword(password) ==
  /\ stage = "serving" /\ db.admin # None
  /\ db' = [db EXCEPT !.admin = [password |-> password, must |-> "reset"]]
  /\ UNCHANGED <<stage, copies, keyFile, saved, vault, configured, step, cut>>

\* DELETE /api/collections/:id by the owner, whom the program asked for no other
\* password when the request came.
DeleteInbox ==
  /\ stage = "serving" /\ db.inbox = "there"
  /\ db.admin # None /\ db.admin.must # "initial"
  /\ db' = [db EXCEPT !.inbox = "deleted"]
  /\ UNCHANGED <<stage, copies, keyFile, saved, vault, configured, step, cut>>

\* The process ends, wherever it is.
Die ==
  /\ stage # "down"
  /\ stage' = "down"
  /\ cut' = (cut \/ stage = "inbox")
  /\ UNCHANGED <<db, copies, keyFile, saved, vault, configured, step>>
-----------------------------------------------------------------------------
(* The operator. *)

CopyDatabase ==
  /\ copies' = copies \cup {db}
  /\ UNCHANGED <<stage, db, keyFile, saved, vault, configured, step, cut>>

RestoreDatabase(copy) ==
  /\ stage = "down"
  /\ db' = copy
  /\ UNCHANGED <<stage, copies, keyFile, saved, vault, configured, step, cut>>

\* The other volume is replaced by any, or lost.
RestoreFiles(key, password) ==
  /\ stage = "down"
  /\ keyFile' = key /\ saved' = password
  /\ UNCHANGED <<stage, db, copies, vault, configured, step, cut>>

Starts ==
  \/ \E password \in Passwords \cup {None} : Start(password)
  \/ Migrate \/ Migrated
  \/ \E password \in Passwords : SeedUser(password) \/ PrepareAdmin(password)
  \/ SeedInbox
  \/ \E key \in Keys : OpenVault(key)
  \/ KeyCutShort \/ EnsureKey \/ SavePassword \/ RemoveSaved

Serves ==
  \/ StoreSecret \/ Forget \/ DeleteInbox
  \/ \E key \in Keys : DeleteSecret(key)
  \/ \E password \in Passwords : ChangePassword(password) \/ ResetPassword(password)

Operator ==
  \/ CopyDatabase
  \/ \E copy \in copies : RestoreDatabase(copy)
  \/ \E key \in Keys \cup {None}, password \in Passwords \cup {None} : RestoreFiles(key, password)

StartNext == Starts \/ Serves \/ Die \/ Operator

StartSpec == StartInit /\ [][StartNext]_startVars
-----------------------------------------------------------------------------
(* Properties. *)

(***************************************************************************)
(* "Restore the application and database volumes as a pair": while the     *)
(* program serves, everything encrypted in the database is under the key   *)
(* in its memory, which is the key in the file, whatever copies of the     *)
(* volumes were put together before and wherever a start was cut short.    *)
(***************************************************************************)
SecretsReadable ==
  stage = "serving" => db.secrets \subseteq {vault} /\ vault = keyFile

(***************************************************************************)
(* While the program serves, an account that waits for its first password  *)
(* change has the configured password or the one in the file: a start that *)
(* died after it replaced the password and before it saved the new one is  *)
(* made good by the next.                                                  *)
(***************************************************************************)
FirstPasswordKnown ==
  stage = "serving" /\ Waiting => db.admin.password \in {configured, saved}

(***************************************************************************)
(* While the program serves, every migration is done, although any start   *)
(* may have been cut short between two of them and older copies restored.  *)
(***************************************************************************)
MigrationsDone == stage = "serving" => db.done = 1..Steps

(***************************************************************************)
(* The first account has its Inbox, or its owner has deleted it, unless a  *)
(* start died between the account's statement and the Inbox's, or a copy   *)
(* taken between the two was restored: later starts find an account and do *)
(* not look for it.                                                        *)
(***************************************************************************)
InboxSeeded ==
  stage = "serving" /\ ~cut /\ (\A copy \in copies : copy.admin # None => copy.inbox # "missing")
  => db.inbox # "missing"
=============================================================================
