---------------------------- MODULE SignInProofs ----------------------------
(***************************************************************************)
(* What is promised about accounts, in three parts that share nothing but  *)
(* their constants:                                                        *)
(*   StartUp, for any number of keys, passwords, migrations and starts,    *)
(*   whatever copies are restored and wherever a start is cut short;       *)
(*   Accounts, for any number of users, sessions, requests in flight,      *)
(*   changes and crashes;                                                  *)
(*   AttemptLimiter, for any number of accounts, addresses and attempts at *)
(*   a time, and any limits and times.                                     *)
(***************************************************************************)
EXTENDS StartUp, Accounts, AttemptLimiter, FiniteSetTheorems, TLAPS
-----------------------------------------------------------------------------
(* 1. The start of the program.                                            *)

Accounts == [password : Passwords, must : {"initial", "reset", "no"}]

\* The constants are told apart.
StartConstants ==
  /\ None \notin Keys \cup Passwords \cup Accounts \cup {Short}
  /\ Short \notin Keys
  /\ Steps \in Nat

(***************************************************************************)
(* The type invariant.                                                     *)
(***************************************************************************)

\* A database with one field replaced by a value of its kind is a database.
LEMMA DatabaseTyped ==
  ASSUME NEW d \in Databases
  PROVE  /\ \A done \in SUBSET (1..Steps) : [d EXCEPT !.done = done] \in Databases
         /\ \A admin \in Accounts : [d EXCEPT !.admin = admin] \in Databases
         /\ \A inbox \in {"missing", "there", "deleted"} : [d EXCEPT !.inbox = inbox] \in Databases
         /\ \A key \in Keys : [d EXCEPT !.check = key] \in Databases
         /\ \A secrets \in SUBSET Keys : [d EXCEPT !.secrets = secrets] \in Databases
  BY DEF Databases, Accounts

\* A new password leaves the rest of the database as it is.
LEMMA PasswordSet ==
  ASSUME NEW password \in Passwords, StartTypeOK, StartConstants, Waiting, SetPassword(password)
  PROVE  /\ db' \in Databases
         /\ db'.admin # None /\ db'.admin.must = "initial"
         /\ db'.admin.password = password
         /\ db'.done = db.done /\ db'.inbox = db.inbox
         /\ db'.check = db.check /\ db'.secrets = db.secrets
  <1>1. db.admin \in Accounts
    BY DEF StartTypeOK, Databases, Waiting, Accounts
  <1>2. [db.admin EXCEPT !.password = password] \in Accounts
    BY <1>1 DEF Accounts
  <1>3. db' = [db EXCEPT !.admin = [db.admin EXCEPT !.password = password]]
    BY DEF SetPassword, StartTypeOK, Databases
  <1>4. db' \in Databases
    BY <1>2, <1>3, DatabaseTyped DEF StartTypeOK
  <1>5. db'.admin = [db.admin EXCEPT !.password = password]
    BY <1>3 DEF StartTypeOK, Databases
  <1>6. db'.admin # None
    BY <1>2, <1>5 DEF StartConstants
  <1> QED BY <1>1, <1>3, <1>4, <1>5, <1>6 DEF Accounts, StartTypeOK, Databases, Waiting

(***************************************************************************)
(* The inductive invariant: what a start has established by each stage.    *)
(***************************************************************************)

\* The stages from each of the checks on.
Keyed == {"check", "admin", "save", "remove", "forget", "serving"}
Checked == Keyed \ {"check"}
Seeded == Keyed \cup {"key"}

\* Every database, and every copy, holds nothing that its check does not cover.
KeyInv ==
  /\ \A d \in copies \cup {db} : d.secrets \subseteq {d.check}
  /\ stage \in Keyed => vault \in Keys /\ vault = keyFile
  /\ stage \in Checked => db.check = vault

StepInv ==
  /\ stage = "migrate" => 1..(step - 1) \subseteq db.done
  /\ stage \in Seeded \cup {"seed", "inbox"} => db.done = 1..Steps

PasswordInv ==
  /\ stage = "save" => Waiting
  /\ stage = "forget" => ~Waiting
  /\ stage = "remove" /\ Waiting => db.admin.password = configured
  /\ stage = "serving" /\ Waiting => db.admin.password \in {configured, saved}

\* An account without its Inbox, as a start leaves it only for a moment.
Bare(d) == d.admin # None /\ d.inbox = "missing"

InboxInv ==
  /\ stage \in Seeded \cup {"inbox"} => db.admin # None
  /\ Bare(db) => stage = "inbox" \/ cut \/ \E copy \in copies : Bare(copy)

StartIInv == StartTypeOK /\ KeyInv /\ StepInv /\ PasswordInv /\ InboxInv

LEMMA StartInitHolds ==
  ASSUME StartConstants, StartInit
  PROVE  StartIInv
  <1>1. NewDatabase \in Databases
    BY DEF NewDatabase, Databases
  <1>2. StartTypeOK
    <2>1. 1 \in 1..(Steps + 1)
      BY DEF StartConstants
    <2> QED BY <1>1, <2>1 DEF StartInit, StartTypeOK, Stages
  <1>3. KeyInv /\ StepInv /\ PasswordInv /\ InboxInv
    BY DEF StartInit, KeyInv, StepInv, PasswordInv, InboxInv, NewDatabase, Keyed, Checked, Seeded, Bare
  <1> QED BY <1>2, <1>3 DEF StartIInv

LEMMA TypeStart ==
  ASSUME StartIInv, StartConstants, Starts
  PROVE  StartTypeOK'
  <1> USE DEF StartIInv
  <1>1. CASE \E password \in Passwords \cup {None} : Start(password)
    BY <1>1 DEF Start, StartTypeOK, Stages, StartConstants
  <1>2. CASE Migrate
    <2>1. db' \in Databases
      <3>1. db.done \cup {step} \in SUBSET (1..Steps)
        BY <1>2 DEF Migrate, StartTypeOK, Databases, StartConstants
      <3>2. db' = [db EXCEPT !.done = db.done \cup {step}] /\ db \in Databases
        BY <1>2 DEF Migrate, StartTypeOK
      <3> QED BY <3>1, <3>2, DatabaseTyped
    <2> QED BY <1>2, <2>1 DEF Migrate, StartTypeOK, StartConstants
  <1>3. CASE Migrated
    BY <1>3 DEF Migrated, StartTypeOK, Stages
  <1>4. ASSUME NEW password \in Passwords, SeedUser(password) PROVE StartTypeOK'
    <2>1. [password |-> password, must |-> "initial"] \in Accounts
      BY DEF Accounts
    <2>2. db' \in Databases
      BY <1>4, <2>1, DatabaseTyped DEF SeedUser, StartTypeOK
    <2> QED BY <1>4, <2>2 DEF SeedUser, StartTypeOK, Stages
  <1>5. ASSUME NEW password \in Passwords, PrepareAdmin(password) PROVE StartTypeOK'
    <2>1. db' \in Databases
      BY <1>5, PasswordSet DEF PrepareAdmin, StartTypeOK
    <2> QED BY <1>5, <2>1 DEF PrepareAdmin, StartTypeOK, Stages
  <1>6. CASE SeedInbox
    BY <1>6, DatabaseTyped DEF SeedInbox, StartTypeOK, Stages
  <1>7. CASE \E key \in Keys : OpenVault(key)
    BY <1>7 DEF OpenVault, Fail, StartTypeOK, Stages, StartConstants
  <1>8. CASE KeyCutShort
    BY <1>8 DEF KeyCutShort, StartTypeOK, Stages
  <1>9. CASE EnsureKey
    <2>1. db' \in Databases /\ vault' \in Keys \cup {None}
      <3>1. CASE vault \in Keys
        BY <1>9, <3>1, DatabaseTyped DEF EnsureKey, Fail, StartTypeOK
      <3>2. CASE vault = None
        <4>1. [db EXCEPT !.check = None] \in Databases
          BY DEF StartTypeOK, Databases
        <4> QED BY <1>9, <3>2, <4>1 DEF EnsureKey, Fail, StartTypeOK
      <3> QED BY <3>1, <3>2 DEF StartTypeOK
    <2> QED BY <1>9, <2>1 DEF EnsureKey, Fail, StartTypeOK, Stages
  <1>10. CASE SavePassword \/ RemoveSaved
    <2>1. saved' \in Passwords \cup {None}
      <3>1. CASE SavePassword
        BY <3>1 DEF SavePassword, PasswordInv, Waiting, StartTypeOK, Databases
      <3>2. CASE RemoveSaved
        BY <3>2 DEF RemoveSaved
      <3> QED BY <1>10, <3>1, <3>2
    <2> QED BY <1>10, <2>1 DEF SavePassword, RemoveSaved, StartTypeOK, Stages
  <1> QED BY <1>1, <1>2, <1>3, <1>4, <1>5, <1>6, <1>7, <1>8, <1>9, <1>10 DEF Starts

LEMMA TypeServe ==
  ASSUME StartIInv, StartConstants, Serves
  PROVE  StartTypeOK'
  <1> USE DEF StartIInv
  <1>1. CASE StoreSecret
    <2>1. db.secrets \cup {vault} \in SUBSET Keys
      BY <1>1 DEF StoreSecret, StartTypeOK, Databases, KeyInv, Keyed
    <2> QED BY <1>1, <2>1, DatabaseTyped DEF StoreSecret, StartTypeOK
  <1>2. ASSUME NEW key \in Keys, DeleteSecret(key) PROVE StartTypeOK'
    <2>1. db.secrets \ {key} \in SUBSET Keys
      BY DEF StartTypeOK, Databases
    <2> QED BY <1>2, <2>1, DatabaseTyped DEF DeleteSecret, StartTypeOK
  <1>3. ASSUME NEW password \in Passwords, ChangePassword(password) \/ ResetPassword(password)
        PROVE  StartTypeOK'
    <2>1. \A must \in {"reset", "no"} : [password |-> password, must |-> must] \in Accounts
      BY DEF Accounts
    <2>2. db' \in Databases
      BY <1>3, <2>1, DatabaseTyped DEF ChangePassword, ResetPassword, StartTypeOK
    <2> QED BY <1>3, <2>2 DEF ChangePassword, ResetPassword, StartTypeOK, Stages
  <1>4. CASE Forget
    BY <1>4 DEF Forget, StartTypeOK, Stages
  <1>5. CASE DeleteInbox
    BY <1>5, DatabaseTyped DEF DeleteInbox, StartTypeOK
  <1> QED BY <1>1, <1>2, <1>3, <1>4, <1>5 DEF Serves

LEMMA TypeNext ==
  ASSUME StartIInv, StartConstants, [StartNext]_startVars
  PROVE  StartTypeOK'
  <1>1. CASE Die
    BY <1>1 DEF Die, StartIInv, StartTypeOK, Stages
  <1>2. CASE Operator
    <2>1. CASE CopyDatabase
      BY <2>1 DEF CopyDatabase, StartIInv, StartTypeOK
    <2>2. CASE \E copy \in copies : RestoreDatabase(copy)
      BY <2>2 DEF RestoreDatabase, StartIInv, StartTypeOK
    <2>3. CASE \E key \in Keys \cup {None}, password \in Passwords \cup {None} : RestoreFiles(key, password)
      BY <2>3 DEF RestoreFiles, StartIInv, StartTypeOK
    <2> QED BY <1>2, <2>1, <2>2, <2>3 DEF Operator
  <1>3. CASE UNCHANGED startVars
    BY <1>3 DEF startVars, StartIInv, StartTypeOK
  <1> QED BY <1>1, <1>2, <1>3, TypeStart, TypeServe DEF StartNext

(***************************************************************************)
(* The key.                                                                *)
(***************************************************************************)

LEMMA KeyNext ==
  ASSUME StartIInv, StartTypeOK', StartConstants, [StartNext]_startVars
  PROVE  KeyInv'
  <1> USE DEF StartIInv, StartTypeOK, KeyInv, Databases, Keyed, Checked
  <1>1. CASE (\E password \in Passwords \cup {None} : Start(password)) \/ Migrated \/ KeyCutShort
             \/ Die \/ CopyDatabase \/ UNCHANGED startVars
    BY <1>1 DEF Start, Migrated, KeyCutShort, Die, CopyDatabase, startVars
  <1>2. CASE Migrate \/ SeedInbox \/ SavePassword \/ RemoveSaved \/ Forget
    BY <1>2 DEF Migrate, SeedInbox, SavePassword, RemoveSaved, Forget
  <1>3. ASSUME NEW password \in Passwords,
               SeedUser(password) \/ ChangePassword(password) \/ ResetPassword(password)
        PROVE  KeyInv'
    BY <1>3 DEF SeedUser, ChangePassword, ResetPassword
  <1>4. ASSUME NEW password \in Passwords, PrepareAdmin(password) PROVE KeyInv'
    <2>1. db'.check = db.check /\ db'.secrets = db.secrets
      BY <1>4, PasswordSet DEF PrepareAdmin
    <2> QED BY <1>4, <2>1 DEF PrepareAdmin
  <1>5. CASE \E key \in Keys : OpenVault(key)
    BY <1>5 DEF OpenVault, Fail, StartConstants
  <1>6. CASE EnsureKey
    \* A database without a check holds no secret: None is no key.
    <2>1. db.check \in {None, vault} => db.secrets \subseteq {vault}
      BY <1>6 DEF EnsureKey, StartConstants
    <2> QED BY <1>6, <2>1 DEF EnsureKey, Fail
  <1>7. CASE StoreSecret \/ DeleteInbox \/ \E key \in Keys : DeleteSecret(key)
    BY <1>7 DEF StoreSecret, DeleteInbox, DeleteSecret
  <1>8. CASE \E copy \in copies : RestoreDatabase(copy)
    BY <1>8 DEF RestoreDatabase
  <1>9. CASE \E key \in Keys \cup {None}, password \in Passwords \cup {None} : RestoreFiles(key, password)
    BY <1>9 DEF RestoreFiles
  <1> QED
    BY <1>1, <1>2, <1>3, <1>4, <1>5, <1>6, <1>7, <1>8, <1>9 DEF StartNext, Starts, Serves, Operator

(***************************************************************************)
(* Migrations, the first password and the Inbox.                           *)
(***************************************************************************)

LEMMA StepNext ==
  ASSUME StartIInv, StartTypeOK', StartConstants, [StartNext]_startVars
  PROVE  StepInv'
  <1> USE DEF StartIInv, StartTypeOK, StepInv, Databases, Keyed, Seeded
  <1>1. CASE \E password \in Passwords \cup {None} : Start(password)
    BY <1>1 DEF Start
  <1>2. CASE Migrate
    <2>1. db'.done = db.done \cup {step} /\ step' = step + 1 /\ stage' = "migrate"
      BY <1>2 DEF Migrate
    <2>2. step \in Nat /\ 1..step \subseteq 1..(step - 1) \cup {step}
      BY StartConstants
    <2>3. 1..(step' - 1) \subseteq db'.done
      BY <1>2, <2>1, <2>2 DEF Migrate
    <2> QED BY <2>1, <2>3
  <1>3. CASE Migrated
    <2>1. 1..Steps \subseteq 1..(step - 1)
      BY <1>3 DEF Migrated, StartConstants
    <2> QED BY <1>3, <2>1 DEF Migrated
  <1>4. ASSUME NEW password \in Passwords,
               SeedUser(password) \/ ChangePassword(password) \/ ResetPassword(password)
        PROVE  StepInv'
    BY <1>4 DEF SeedUser, ChangePassword, ResetPassword
  <1>5. ASSUME NEW password \in Passwords, PrepareAdmin(password) PROVE StepInv'
    <2>1. db'.done = db.done
      BY <1>5, PasswordSet DEF PrepareAdmin
    <2> QED BY <1>5, <2>1 DEF PrepareAdmin
  <1>6. CASE SeedInbox \/ SavePassword \/ RemoveSaved \/ Forget \/ StoreSecret \/ DeleteInbox
             \/ \E key \in Keys : DeleteSecret(key)
    BY <1>6 DEF SeedInbox, SavePassword, RemoveSaved, Forget, StoreSecret, DeleteInbox, DeleteSecret
  <1>7. CASE (\E key \in Keys : OpenVault(key)) \/ KeyCutShort \/ EnsureKey \/ Die
    BY <1>7 DEF OpenVault, KeyCutShort, EnsureKey, Die, Fail
  <1>8. CASE Operator \/ UNCHANGED startVars
    BY <1>8 DEF Operator, CopyDatabase, RestoreDatabase, RestoreFiles, startVars
  <1> QED BY <1>1, <1>2, <1>3, <1>4, <1>5, <1>6, <1>7, <1>8 DEF StartNext, Starts, Serves

LEMMA PasswordNext ==
  ASSUME StartIInv, StartTypeOK', StartConstants, [StartNext]_startVars
  PROVE  PasswordInv'
  <1> USE DEF StartIInv, StartTypeOK, PasswordInv, Databases, Waiting
  <1>1. CASE (\E password \in Passwords \cup {None} : Start(password)) \/ Migrate \/ Migrated
             \/ SeedInbox \/ KeyCutShort \/ Die
    BY <1>1 DEF Start, Migrate, Migrated, SeedInbox, KeyCutShort, Die
  <1>2. CASE (\E key \in Keys : OpenVault(key)) \/ EnsureKey
    BY <1>2 DEF OpenVault, EnsureKey, Fail
  <1>3. ASSUME NEW password \in Passwords,
               SeedUser(password) \/ ChangePassword(password) \/ ResetPassword(password)
        PROVE  PasswordInv'
    BY <1>3 DEF SeedUser, ChangePassword, ResetPassword
  <1>4. ASSUME NEW password \in Passwords, PrepareAdmin(password) PROVE PasswordInv'
    <2>1. CASE SetPassword(configured) /\ Waiting /\ configured # None /\ stage' = "remove"
      <3>1. configured \in Passwords
        BY <2>1
      <3> QED BY <1>4, <2>1, <3>1, PasswordSet DEF PrepareAdmin
    <2>2. CASE SetPassword(password) /\ Waiting /\ stage' = "save"
      BY <1>4, <2>2, PasswordSet DEF PrepareAdmin
    <2>3. CASE UNCHANGED db /\ ((stage' = "remove" /\ ~Waiting) \/ (stage' = "serving" /\ saved = db.admin.password))
      BY <1>4, <2>3 DEF PrepareAdmin
    <2> QED BY <1>4, <2>1, <2>2, <2>3 DEF PrepareAdmin
  <1>5. CASE SavePassword \/ RemoveSaved \/ Forget
    BY <1>5 DEF SavePassword, RemoveSaved, Forget
  <1>6. CASE StoreSecret \/ DeleteInbox \/ \E key \in Keys : DeleteSecret(key)
    BY <1>6 DEF StoreSecret, DeleteInbox, DeleteSecret
  <1>7. CASE Operator \/ UNCHANGED startVars
    BY <1>7 DEF Operator, CopyDatabase, RestoreDatabase, RestoreFiles, startVars
  <1> QED BY <1>1, <1>2, <1>3, <1>4, <1>5, <1>6, <1>7 DEF StartNext, Starts, Serves

LEMMA InboxNext ==
  ASSUME StartIInv, StartTypeOK', StartConstants, [StartNext]_startVars
  PROVE  InboxInv'
  <1> USE DEF StartIInv, StartTypeOK, InboxInv, Databases, Keyed, Seeded, Bare
  <1>1. CASE (\E password \in Passwords \cup {None} : Start(password)) \/ Migrated
    BY <1>1 DEF Start, Migrated
  <1>9. CASE KeyCutShort
    BY <1>9 DEF KeyCutShort
  <1>10. CASE Die
    BY <1>10 DEF Die
  <1>7. CASE Migrate
    BY <1>7 DEF Migrate
  <1>8. CASE SeedInbox
    BY <1>8 DEF SeedInbox
  <1>2. CASE (\E key \in Keys : OpenVault(key)) \/ EnsureKey
    BY <1>2 DEF OpenVault, EnsureKey, Fail
  <1>3. ASSUME NEW password \in Passwords,
               SeedUser(password) \/ ChangePassword(password) \/ ResetPassword(password)
        PROVE  InboxInv'
    <2>1. \A must \in {"initial", "reset", "no"} : [password |-> password, must |-> must] # None
      BY DEF StartConstants, Accounts
    <2> QED BY <1>3, <2>1 DEF SeedUser, ChangePassword, ResetPassword
  <1>4. ASSUME NEW password \in Passwords, PrepareAdmin(password) PROVE InboxInv'
    <2>1. db'.inbox = db.inbox /\ (db'.admin = None <=> db.admin = None)
      BY <1>4, PasswordSet DEF PrepareAdmin, Waiting
    <2> QED BY <1>4, <2>1 DEF PrepareAdmin
  <1>5. CASE SavePassword \/ RemoveSaved \/ Forget \/ StoreSecret \/ DeleteInbox
             \/ \E key \in Keys : DeleteSecret(key)
    BY <1>5 DEF SavePassword, RemoveSaved, Forget, StoreSecret, DeleteInbox, DeleteSecret
  <1>6. CASE Operator \/ UNCHANGED startVars
    BY <1>6 DEF Operator, CopyDatabase, RestoreDatabase, RestoreFiles, startVars
  <1> QED BY <1>1, <1>2, <1>3, <1>4, <1>5, <1>6, <1>7, <1>8, <1>9, <1>10
    DEF StartNext, Starts, Serves

(***************************************************************************)
(* The theorems.                                                           *)
(***************************************************************************)

\* The invariant of createApplication's stages holds in every behaviour.
THEOREM StartInvariant == ASSUME StartConstants PROVE StartSpec => []StartIInv
  <1>1. StartInit => StartIInv
    BY StartInitHolds
  <1>2. StartIInv /\ [StartNext]_startVars => StartIInv'
    <2> SUFFICES ASSUME StartIInv, [StartNext]_startVars PROVE StartIInv'
      OBVIOUS
    <2>1. StartTypeOK'
      BY TypeNext
    <2> QED BY <2>1, KeyNext, StepNext, PasswordNext, InboxNext DEF StartIInv
  <1> QED BY <1>1, <1>2, PTL DEF StartSpec

\* The state has its types (StartUp's variables) in every behaviour.
THEOREM StartTypeCorrect == ASSUME StartConstants PROVE StartSpec => []StartTypeOK
  <1>1. StartIInv => StartTypeOK
    BY DEF StartIInv
  <1> QED BY <1>1, StartInvariant, PTL

\* Everything stored can be read with the key of the file (ensureVaultKey),
\* whatever volumes the operator put together.
THEOREM SecretsAreReadable == ASSUME StartConstants PROVE StartSpec => []SecretsReadable
  <1>1. StartIInv => SecretsReadable
    BY DEF StartIInv, KeyInv, SecretsReadable, Keyed, Checked
  <1> QED BY <1>1, StartInvariant, PTL

\* The operator is told the first password (prepareInitialAdmin), wherever the
\* starts before were cut short.
THEOREM FirstPasswordIsKnown == ASSUME StartConstants PROVE StartSpec => []FirstPasswordKnown
  <1>1. StartIInv => FirstPasswordKnown
    BY DEF StartIInv, PasswordInv, FirstPasswordKnown
  <1> QED BY <1>1, StartInvariant, PTL

\* A program that serves has all its columns (migrate).
THEOREM MigrationsAreDone == ASSUME StartConstants PROVE StartSpec => []MigrationsDone
  <1>1. StartIInv => MigrationsDone
    BY DEF StartIInv, StepInv, MigrationsDone, Seeded, Keyed
  <1> QED BY <1>1, StartInvariant, PTL

\* The first account has its Inbox, or has deleted it, unless a start was cut
\* short between two statements of seed or a copy from then was restored.
THEOREM InboxIsSeeded == ASSUME StartConstants PROVE StartSpec => []InboxSeeded
  <1>1. StartIInv => InboxSeeded
    BY DEF StartIInv, InboxInv, InboxSeeded, Seeded, Keyed, Bare
  <1> QED BY <1>1, StartInvariant, PTL

-----------------------------------------------------------------------------
(* 2. Accounts and their sessions.                                         *)

\* No row, reason or request, and no value that is sent, is None.
AccountConstants == None \notin Rows \cup Sessions \cup Reasons \cup Requests \cup BOOLEAN

\* What a request still refers to: accounts are never deleted, and a session
\* stays its user's.
Fits(r) ==
  /\ r.kind \in {"login", "change"} => account[r.user] # None
  /\ r.kind = "change" =>
       r.token \in drawn /\ (session[r.token] # None => session[r.token].user = r.user)

ReferenceInv ==
  /\ \A t \in Tokens : session[t] # None \/ ended[t] # None => t \in drawn
  /\ \A t \in Tokens : session[t] # None => account[session[t].user] # None
  /\ \A s \in Slots : request[s] # None => Fits(request[s])

AccountIInv == AccountTypeOK /\ ReferenceInv /\ AdminRemains /\ ChangesEndSessions /\ EndedForGood

(***************************************************************************)
(* What the operators do.                                                  *)
(***************************************************************************)

LEMMA RowFacts ==
  ASSUME NEW row \in Rows
  PROVE  /\ \A password \in Passwords, must \in {"reset", "no"} :
              LET new == Renew(row, password, must)
              IN  /\ new \in Rows /\ new.epoch = row.epoch + 1
                  /\ new.admin = row.admin /\ new.on = row.on
         /\ \A disabled, admin \in BOOLEAN \cup {None} :
              LET new == Patched(row, disabled, admin)
              IN  /\ None \notin BOOLEAN => new \in Rows
                  /\ new.epoch = IF disabled = TRUE THEN row.epoch + 1 ELSE row.epoch
                  /\ disabled # TRUE /\ row.on => new.on
                  /\ admin # FALSE /\ row.admin => new.admin
  <1>1. row.epoch + 1 \in Nat /\ row.on \in BOOLEAN /\ row.admin \in BOOLEAN
    BY DEF Rows
  <1>2. ASSUME NEW password \in Passwords, NEW must \in {"reset", "no"}
        PROVE  LET new == Renew(row, password, must)
               IN  /\ new \in Rows /\ new.epoch = row.epoch + 1
                   /\ new.admin = row.admin /\ new.on = row.on
    <2>1. must \in {"initial", "created", "reset", "no"}
      OBVIOUS
    <2>2. Renew(row, password, must) \in Rows
      BY <1>1, <2>1 DEF Renew, Rows
    <2>3. Renew(row, password, must).epoch = row.epoch + 1
      BY DEF Renew, Rows
    <2>4. /\ Renew(row, password, must).admin = row.admin
          /\ Renew(row, password, must).on = row.on
      BY DEF Renew, Rows
    <2> QED BY <2>2, <2>3, <2>4
  <1>3. ASSUME NEW disabled \in BOOLEAN \cup {None}, NEW admin \in BOOLEAN \cup {None}
        PROVE  LET new == Patched(row, disabled, admin)
               IN  /\ None \notin BOOLEAN => new \in Rows
                   /\ new.epoch = IF disabled = TRUE THEN row.epoch + 1 ELSE row.epoch
                   /\ disabled # TRUE /\ row.on => new.on
                   /\ admin # FALSE /\ row.admin => new.admin
    <2> DEFINE on == IF disabled = None THEN row.on ELSE ~disabled
               adm == IF admin = None THEN row.admin ELSE admin
               epoch == IF disabled = TRUE THEN row.epoch + 1 ELSE row.epoch
    <2>1. on \in BOOLEAN /\ (None \notin BOOLEAN => adm \in BOOLEAN) /\ epoch \in Nat
      BY <1>1 DEF Rows
    <2>2. Patched(row, disabled, admin) = [row EXCEPT !.on = on, !.admin = adm, !.epoch = epoch]
      BY DEF Patched
    <2>3. None \notin BOOLEAN => [row EXCEPT !.on = on, !.admin = adm, !.epoch = epoch] \in Rows
      <3> HIDE DEF on, adm, epoch
      <3> QED BY <2>1 DEF Rows
    <2>4. /\ Patched(row, disabled, admin).epoch = epoch
          /\ Patched(row, disabled, admin).on = on
          /\ Patched(row, disabled, admin).admin = adm
      <3> HIDE DEF on, adm, epoch
      <3> QED BY <2>2 DEF Rows
    <2> QED BY <2>2, <2>3, <2>4
  <1> QED BY <1>2, <1>3

\* A change of the password leaves who administers and who exists as it is.
LEMMA RenewedFacts ==
  ASSUME AccountTypeOK, AccountConstants, NEW u \in Users, account[u] # None, NEW password \in Passwords,
         NEW must \in {"reset", "no"}, Renewed(u, password, must)
  PROVE  /\ account' \in [Users -> Rows \cup {None}]
         /\ account'[u] \in Rows /\ account'[u].epoch = account[u].epoch + 1
         /\ account'[u].admin = account[u].admin /\ account'[u].on = account[u].on
         /\ \A v \in Users \ {u} : account'[v] = account[v]
  <1>1. account[u] \in Rows
    BY DEF AccountTypeOK
  <1>2. Renew(account[u], password, must) \in Rows
    BY <1>1, RowFacts
  <1>3. account' \in [Users -> Rows \cup {None}] /\ account'[u] = Renew(account[u], password, must)
    BY <1>2 DEF Renewed, AccountTypeOK
  <1>4. \A v \in Users \ {u} : account'[v] = account[v]
    BY DEF Renewed, AccountTypeOK
  <1>5. /\ account'[u].epoch = account[u].epoch + 1
        /\ account'[u].admin = account[u].admin /\ account'[u].on = account[u].on
    <2>1. LET new == Renew(account[u], password, must)
          IN  /\ new \in Rows /\ new.epoch = account[u].epoch + 1
              /\ new.admin = account[u].admin /\ new.on = account[u].on
      BY <1>1, RowFacts, Zenon
    <2> QED BY <1>3, <2>1
  <1> QED BY <1>2, <1>3, <1>4, <1>5

\* revokeSessions leaves the user no session but those that are kept.
LEMMA RevokeFacts ==
  ASSUME AccountTypeOK, AccountConstants, EndedForGood, NEW u \in Users, NEW reason \in Reasons,
         NEW keep \in SUBSET Tokens, account'[u] \in Rows, Revoke(u, reason, keep), UNCHANGED spared
  PROVE  /\ session' \in [Tokens -> Sessions \cup {None}]
         /\ ended' \in [Tokens -> Reasons \cup {None}]
         /\ EndedForGood'
         /\ \A t \in Tokens :
              /\ session'[t] # None =>
                   /\ session[t] # None /\ session'[t].user = session[t].user
                   /\ IF t \in keep THEN session'[t].epoch = account'[u].epoch
                      ELSE session'[t] = session[t] /\ session[t].user # u
              /\ ended'[t] # None => ended[t] # None \/ session[t] # None
  <1>1. ASSUME NEW t \in Tokens, session[t] # None
        PROVE  LET kept == [session[t] EXCEPT !.epoch = account'[u].epoch, !.late = FALSE]
               IN  kept \in Sessions /\ kept.user = session[t].user /\ kept.epoch = account'[u].epoch
    BY <1>1 DEF AccountTypeOK, Sessions, Rows
  <1>2. session' \in [Tokens -> Sessions \cup {None}]
    BY <1>1 DEF Revoke, AccountTypeOK
  <1>3. ended' \in [Tokens -> Reasons \cup {None}]
    BY DEF Revoke, Listed, AccountTypeOK
  <1>4. EndedForGood'
    BY DEF Revoke, Listed, Revoked, EndedForGood
  <1>5. ASSUME NEW t \in Tokens, session'[t] # None
        PROVE  /\ session[t] # None /\ session'[t].user = session[t].user
               /\ IF t \in keep THEN session'[t].epoch = account'[u].epoch
                  ELSE session'[t] = session[t] /\ session[t].user # u
    BY <1>1, <1>5 DEF Revoke, Revoked
  <1>6. ASSUME NEW t \in Tokens, ended'[t] # None
        PROVE  ended[t] # None \/ session[t] # None
    BY <1>6 DEF Revoke, Listed, Revoked
  <1> QED BY <1>2, <1>3, <1>4, <1>5, <1>6

\* The requests of a sitting are those before but for one.
LEMMA RequestFacts ==
  ASSUME AccountTypeOK, NEW s \in Slots, NEW r \in Requests \cup {None},
         request' = [request EXCEPT ![s] = r]
  PROVE  /\ request' \in [Slots -> Requests \cup {None}]
         /\ \A v \in Slots : request'[v] = IF v = s THEN r ELSE request[v]
  BY DEF AccountTypeOK

(***************************************************************************)
(* The steps, by what they change.                                         *)
(***************************************************************************)

\* Only the requests change, and every new one refers to what is there.
LEMMA RequestStep ==
  ASSUME AccountIInv, AccountConstants, NEW s \in Slots, NEW r \in Requests \cup {None},
         r # None => Fits(r), request' = [request EXCEPT ![s] = r],
         UNCHANGED <<account, session, ended, drawn, spared>>
  PROVE  AccountIInv'
  <1>1. AccountTypeOK'
    BY RequestFacts DEF AccountIInv, AccountTypeOK
  <1>2. ReferenceInv'
    BY RequestFacts DEF AccountIInv, ReferenceInv, Fits
  <1>3. AdminRemains' /\ ChangesEndSessions' /\ EndedForGood'
    BY DEF AccountIInv, AdminRemains, ChangesEndSessions, EndedForGood
  <1> QED BY <1>1, <1>2, <1>3 DEF AccountIInv

\* An account gets another row; its sessions end, or are known not to; the
\* requests are among those before.
LEMMA AccountStep ==
  ASSUME AccountIInv, AccountConstants, NEW u \in Users, NEW reason \in Reasons, NEW keep \in SUBSET Tokens,
         \A t \in keep : session[t] # None => session[t].user = u,
         account' \in [Users -> Rows \cup {None}], account'[u] \in Rows, AdminRemains',
         \A v \in Users \ {u} : account'[v] = account[v],
         \/ Revoke(u, reason, keep) /\ UNCHANGED spared
         \/ /\ ended' \in {ended, Listed(u, reason, {})} /\ UNCHANGED session
            /\ spared' = spared \cup Revoked(u, {})
         \/ (account[u] = None \/ account'[u].epoch = account[u].epoch) /\ UNCHANGED <<session, ended, spared>>,
         drawn' = drawn,
         request' \in [Slots -> Requests \cup {None}],
         \A s \in Slots : request'[s] \in {request[s], None}
  PROVE  AccountIInv'
  <1> USE DEF AccountIInv, AccountConstants
  <1>1. CASE Revoke(u, reason, keep) /\ UNCHANGED spared
    <2>1. /\ session' \in [Tokens -> Sessions \cup {None}]
          /\ ended' \in [Tokens -> Reasons \cup {None}] /\ EndedForGood'
          /\ \A t \in Tokens :
               /\ session'[t] # None =>
                    /\ session[t] # None /\ session'[t].user = session[t].user
                    /\ IF t \in keep THEN session'[t].epoch = account'[u].epoch
                       ELSE session'[t] = session[t] /\ session[t].user # u
               /\ ended'[t] # None => ended[t] # None \/ session[t] # None
      BY <1>1, RevokeFacts
    <2>2. AccountTypeOK'
      BY <1>1, <2>1 DEF AccountTypeOK
    <2>3. \A v \in Users : account[v] # None => account'[v] # None
      OBVIOUS
    <2>4. ASSUME NEW s \in Slots, request'[s] # None PROVE Fits(request[s])'
      <3>1. request'[s] = request[s] /\ Fits(request[s]) /\ request[s] \in Requests
        BY <2>4 DEF ReferenceInv, AccountTypeOK
      <3>2. request[s].user \in Users /\ (request[s].kind = "change" => request[s].token \in Tokens)
        BY <3>1 DEF Requests
      <3> QED BY <2>1, <2>3, <3>1, <3>2 DEF Fits
    <2>5. \A t \in Tokens : session[t] # None => session[t].user \in Users
      BY DEF AccountTypeOK, Sessions
    <2>6. ReferenceInv'
      BY <2>1, <2>3, <2>4, <2>5 DEF ReferenceInv
    <2>7. ChangesEndSessions'
      BY <1>1, <2>1, <2>5 DEF ChangesEndSessions
    <2> QED BY <2>1, <2>2, <2>6, <2>7
  <1>2. CASE /\ UNCHANGED session
             /\ \/ /\ ended' \in {ended, Listed(u, reason, {})}
                   /\ spared' = spared \cup Revoked(u, {})
                \/ /\ account[u] = None \/ account'[u].epoch = account[u].epoch
                   /\ UNCHANGED <<ended, spared>>
    <2>1. /\ ended' \in [Tokens -> Reasons \cup {None}]
          /\ spared \subseteq spared' /\ spared' \subseteq Tokens
          /\ \A t \in Tokens : ended'[t] # None => ended[t] # None \/ (session[t] # None /\ t \in spared')
      BY <1>2 DEF Listed, Revoked, AccountTypeOK
    <2>2. AccountTypeOK'
      BY <1>2, <2>1 DEF AccountTypeOK
    <2>3. \A v \in Users : account[v] # None => account'[v] # None
      OBVIOUS
    <2>4. \A t \in Tokens : session[t] # None => session[t].user \in Users
      BY DEF AccountTypeOK, Sessions
    <2>5. ASSUME NEW s \in Slots, request'[s] # None PROVE Fits(request[s])'
      <3>1. request'[s] = request[s] /\ Fits(request[s]) /\ request[s].user \in Users
        BY <2>5 DEF ReferenceInv, AccountTypeOK, Requests
      <3> QED BY <1>2, <2>3, <3>1 DEF Fits
    <2>6. ReferenceInv'
      BY <1>2, <2>1, <2>3, <2>4, <2>5 DEF ReferenceInv
    <2>7. EndedForGood'
      BY <1>2, <2>1 DEF EndedForGood
    <2>8. ChangesEndSessions'
      <3>1. ASSUME NEW t \in Tokens, session[t] # None
            PROVE  \/ session[t].epoch = account'[session[t].user].epoch
                   \/ session[t].late \/ t \in spared'
        <4>1. session[t].user \in Users /\ account[session[t].user] # None
          BY <2>4, <3>1 DEF ReferenceInv
        <4>2. CASE session[t].user = u /\ spared' = spared \cup Revoked(u, {})
          BY <3>1, <4>2 DEF Revoked
        <4>3. CASE account'[session[t].user].epoch = account[session[t].user].epoch
          BY <2>1, <3>1, <4>3 DEF ChangesEndSessions
        <4> QED BY <1>2, <4>1, <4>2, <4>3
      <3> QED BY <1>2, <3>1 DEF ChangesEndSessions
    <2> QED BY <2>2, <2>6, <2>7, <2>8
  <1> QED BY <1>1, <1>2

(***************************************************************************)
(* The actions.                                                            *)
(***************************************************************************)

LEMMA AccountInitHolds ==
  ASSUME AccountConstants, AccountInit
  PROVE  AccountIInv
  <1>1. PICK first \in Users, password \in Passwords :
          account = [u \in Users |->
            IF u = first
            THEN [password |-> password, admin |-> TRUE, on |-> TRUE, must |-> "initial", epoch |-> 0]
            ELSE None]
    BY DEF AccountInit
  <1>2. [password |-> password, admin |-> TRUE, on |-> TRUE, must |-> "initial", epoch |-> 0] \in Rows
    BY DEF Rows
  <1>3. account \in [Users -> Rows \cup {None}] /\ AdminRemains
    BY <1>1, <1>2 DEF AdminRemains, AccountConstants
  <1> QED
    BY <1>3 DEF AccountInit, AccountIInv, AccountTypeOK, ReferenceInv, ChangesEndSessions, EndedForGood

LEMMA LoginStep ==
  ASSUME AccountIInv, AccountConstants, NEW s \in Slots, NEW u \in Users, NEW password \in Passwords,
         Login(s, u, password)
  PROVE  AccountIInv'
  <1> DEFINE r == [kind |-> "login", user |-> u, epoch |-> account[u].epoch,
                   ok |-> account[u].on /\ account[u].password = password]
  <1>1. account[u] \in Rows /\ account[u] # None
    BY DEF Login, AccountIInv, AccountTypeOK
  <1>2. account[u].epoch \in Nat /\ (account[u].on /\ account[u].password = password) \in BOOLEAN
    BY <1>1 DEF Rows
  <1>3. r \in Requests
    BY <1>2, Zenon DEF Requests
  <1>4. Fits(r)
    BY <1>1 DEF Fits
  <1> QED BY <1>3, <1>4, RequestStep DEF Login, Wait

LEMMA ChangeStep ==
  ASSUME AccountIInv, AccountConstants, NEW s \in Slots, NEW t \in Tokens, NEW password \in Passwords,
         NEW new \in Passwords, Change(s, t, password, new)
  PROVE  AccountIInv'
  <1> DEFINE r == [kind |-> "change", user |-> session[t].user, new |-> new, token |-> t,
                   ok |-> account[session[t].user].password = password]
  <1>1. session[t] # None /\ session[t].user \in Users /\ account[session[t].user] # None /\ t \in drawn
    BY DEF Change, Known, AccountIInv, AccountTypeOK, Sessions, ReferenceInv
  <1>2. (account[session[t].user].password = password) \in BOOLEAN
    OBVIOUS
  <1>3. r \in Requests
    BY <1>1, <1>2, Zenon DEF Requests
  <1>4. Fits(r)
    BY <1>1 DEF Fits
  <1> QED BY <1>3, <1>4, RequestStep DEF Change, Wait

LEMMA CreateStep ==
  ASSUME AccountIInv, AccountConstants, NEW s \in Slots, NEW t \in Tokens, NEW u \in Users,
         NEW password \in Passwords, NEW admin \in BOOLEAN, Create(s, t, u, password, admin)
  PROVE  AccountIInv'
  <1> DEFINE r == [kind |-> "create", user |-> u, new |-> password, admin |-> admin]
  <1>1. r \in Requests /\ Fits(r)
    BY DEF Requests, Fits
  <1> QED BY <1>1, RequestStep DEF Create, Wait

LEMMA ResetStep ==
  ASSUME AccountIInv, AccountConstants, NEW s \in Slots, NEW t \in Tokens, NEW u \in Users,
         NEW password \in Passwords, Reset(s, t, u, password)
  PROVE  AccountIInv'
  <1> DEFINE r == [kind |-> "reset", user |-> u, new |-> password]
  <1>1. r \in Requests /\ Fits(r)
    BY DEF Requests, Fits
  <1> QED BY <1>1, RequestStep DEF Reset, Wait

LEMMA SignsIn ==
  ASSUME AccountIInv, AccountConstants, NEW s \in Slots, NEW t \in Tokens, LoggedIn(s, t)
  PROVE  AccountIInv'
  <1> USE DEF AccountIInv
  <1> DEFINE u == request[s].user
             new == [user |-> u, epoch |-> request[s].epoch, late |-> request[s].epoch # account[u].epoch]
  <1>1. u \in Users /\ request[s].epoch \in Nat /\ account[u] # None
    BY DEF LoggedIn, AccountTypeOK, Requests, ReferenceInv, Fits
  <1>2. new \in Sessions /\ new # None
    <2>1. (request[s].epoch # account[u].epoch) \in BOOLEAN
      OBVIOUS
    <2>2. new \in Sessions
      BY <1>1, <2>1, Zenon DEF Sessions
    <2> QED BY <2>2 DEF AccountConstants
  <1>3. session' = [session EXCEPT ![t] = new] /\ drawn' = drawn \cup {t}
    BY DEF LoggedIn
  <1>4. session' \in [Tokens -> Sessions \cup {None}] /\ session'[t] = new
        /\ \A v \in Tokens \ {t} : session'[v] = session[v]
    BY <1>2, <1>3 DEF AccountTypeOK
  <1>5. session[t] = None /\ ended[t] = None
    BY DEF LoggedIn, ReferenceInv
  <1>6. /\ request' \in [Slots -> Requests \cup {None}]
        /\ \A v \in Slots : request'[v] # None => request'[v] = request[v]
    BY RequestFacts DEF LoggedIn, Answered
  <1>7. AccountTypeOK'
    BY <1>3, <1>4, <1>6 DEF AccountTypeOK, LoggedIn
  <1>8. ReferenceInv'
    <2>1. ASSUME NEW v \in Slots, request'[v] # None PROVE Fits(request[v])'
      <3>1. request'[v] = request[v] /\ Fits(request[v])
            /\ (request[v].kind = "change" => request[v].token \in Tokens)
        BY <1>6, <2>1 DEF ReferenceInv, AccountTypeOK, Requests
      \* A token that is drawn now is no other request's.
      <3>2. request[v].kind = "change" => request[v].token # t
        BY <3>1 DEF Fits, LoggedIn
      <3> QED BY <1>3, <1>4, <3>1, <3>2 DEF Fits, LoggedIn
    <2> QED BY <1>1, <1>2, <1>3, <1>4, <2>1 DEF ReferenceInv, LoggedIn
  <1>9. AdminRemains' /\ EndedForGood'
    BY <1>4, <1>5 DEF AdminRemains, EndedForGood, LoggedIn
  <1>10. ChangesEndSessions'
    BY <1>4 DEF ChangesEndSessions, LoggedIn
  <1> QED BY <1>7, <1>8, <1>9, <1>10

LEMMA SignsOut ==
  ASSUME AccountIInv, AccountConstants, NEW t \in Tokens, Logout(t) \/ Expire(t)
  PROVE  AccountIInv'
  <1> USE DEF AccountIInv, Logout, Expire
  <1>1. /\ session' = [session EXCEPT ![t] = None]
        /\ ended' \in [Tokens -> Reasons \cup {None}]
        /\ \A v \in Tokens : ended'[v] # None => ended'[v] = ended[v]
        /\ UNCHANGED <<account, request, drawn, spared>>
    BY DEF AccountTypeOK
  <1>2. \A v \in Tokens : session'[v] # None => session'[v] = session[v]
    BY <1>1 DEF AccountTypeOK
  <1>3. AccountTypeOK'
    BY <1>1 DEF AccountTypeOK
  <1>4. ReferenceInv'
    <2>1. ASSUME NEW s \in Slots, request[s] # None PROVE Fits(request[s])'
      BY <1>1, <1>2, <2>1 DEF ReferenceInv, Fits, AccountTypeOK, Requests
    <2> QED BY <1>1, <1>2, <2>1 DEF ReferenceInv
  <1>5. AdminRemains' /\ ChangesEndSessions' /\ EndedForGood'
    BY <1>1, <1>2 DEF AdminRemains, ChangesEndSessions, EndedForGood
  <1> QED BY <1>3, <1>4, <1>5

\* A new password for an account leaves an administrator.
LEMMA RenewedAdmin ==
  ASSUME AccountIInv, AccountConstants, NEW u \in Users, account[u] # None, NEW password \in Passwords,
         NEW must \in {"reset", "no"}, Renewed(u, password, must)
  PROVE  AdminRemains'
  <1>1. PICK v \in Users : account[v] # None /\ account[v].admin /\ account[v].on
    BY DEF AccountIInv, AdminRemains
  <1>2. account'[v] # None /\ account'[v].admin /\ account'[v].on
    BY <1>1, RenewedFacts DEF AccountIInv, AccountConstants
  <1> QED BY <1>2 DEF AdminRemains

LEMMA Renews ==
  ASSUME AccountIInv, AccountConstants, NEW s \in Slots, Changed(s) \/ ResetDone(s)
  PROVE  AccountIInv'
  <1> DEFINE u == request[s].user
  <1>1. u \in Users /\ request[s].new \in Passwords
    BY DEF Changed, ResetDone, AccountIInv, AccountTypeOK, Requests
  <1>2. CASE Changed(s)
    <2> DEFINE keep == {request[s].token}
    <2>1. account[u] # None /\ keep \in SUBSET Tokens /\ \A t \in keep : session[t] # None => session[t].user = u
      BY <1>2 DEF Changed, AccountIInv, AccountTypeOK, Requests, ReferenceInv, Fits
    <2>2. Renewed(u, request[s].new, "no") /\ Revoke(u, "password-changed", keep)
      BY <1>2 DEF Changed
    <2>3. /\ request' \in [Slots -> Requests \cup {None}]
          /\ \A v \in Slots : request'[v] \in {request[v], None}
      BY <1>2, RequestFacts DEF Changed, Answered, AccountIInv
    <2>4. drawn' = drawn /\ spared' = spared /\ "password-changed" \in Reasons
      BY <1>2 DEF Changed, Reasons
    <2>5. /\ account' \in [Users -> Rows \cup {None}] /\ account'[u] \in Rows
          /\ \A v \in Users \ {u} : account'[v] = account[v]
      BY <1>1, <2>1, <2>2, RenewedFacts DEF AccountIInv
    <2>6. AdminRemains'
      BY <1>1, <2>1, <2>2, RenewedAdmin
    <2> HIDE DEF u, keep
    <2> QED BY <1>1, <2>1, <2>2, <2>3, <2>4, <2>5, <2>6, AccountStep
  <1>3. CASE ResetDone(s)
    <2>1. CASE account[u] = None /\ Answered(s) /\ UNCHANGED <<account, session, ended, spared>>
      BY <1>3, <2>1, RequestStep DEF ResetDone, Answered
    <2>2. CASE account[u] # None /\ Renewed(u, request[s].new, "reset")
               /\ Revoke(u, "password-reset", {}) /\ Answered(s) /\ UNCHANGED spared
      <3>1. /\ request' \in [Slots -> Requests \cup {None}]
            /\ \A v \in Slots : request'[v] \in {request[v], None}
        BY <2>2, RequestFacts DEF Answered, AccountIInv
      <3>2. drawn' = drawn /\ {} \in SUBSET Tokens /\ "password-reset" \in Reasons
        BY <1>3 DEF ResetDone, Reasons
      <3>3. /\ account' \in [Users -> Rows \cup {None}] /\ account'[u] \in Rows
            /\ \A v \in Users \ {u} : account'[v] = account[v]
        BY <1>1, <2>2, RenewedFacts DEF AccountIInv
      <3>4. AdminRemains'
        BY <1>1, <2>2, RenewedAdmin
      <3>5. Revoke(u, "password-reset", {}) /\ UNCHANGED spared
        BY <2>2
      <3> HIDE DEF u
      <3> QED BY <1>1, <3>1, <3>2, <3>3, <3>4, <3>5, AccountStep
    <2>3. CASE account[u] # None /\ Renewed(u, request[s].new, "reset")
               /\ RevokeCut(u, "password-reset")
      <3>1. /\ request' \in [Slots -> Requests \cup {None}]
            /\ \A v \in Slots : request'[v] \in {request[v], None}
        BY <2>3 DEF RevokeCut
      <3>2. /\ drawn' = drawn /\ UNCHANGED session
            /\ ended' \in {ended, Listed(u, "password-reset", {})} /\ spared' = spared \cup Revoked(u, {})
        BY <1>3, <2>3 DEF ResetDone, RevokeCut
      <3>3. "password-reset" \in Reasons /\ {} \in SUBSET Tokens
        BY DEF Reasons
      <3>4. /\ account' \in [Users -> Rows \cup {None}] /\ account'[u] \in Rows
            /\ \A v \in Users \ {u} : account'[v] = account[v]
        BY <1>1, <2>3, RenewedFacts DEF AccountIInv
      <3>5. AdminRemains'
        BY <1>1, <2>3, RenewedAdmin
      <3> HIDE DEF u
      <3> QED BY <1>1, <3>1, <3>2, <3>3, <3>4, <3>5, AccountStep
    <2> QED BY <1>3, <2>1, <2>2, <2>3 DEF ResetDone
  <1> QED BY <1>2, <1>3

LEMMA Creates ==
  ASSUME AccountIInv, AccountConstants, NEW s \in Slots, Created(s)
  PROVE  AccountIInv'
  <1> DEFINE u == request[s].user
             row == [password |-> request[s].new, admin |-> request[s].admin,
                     on |-> TRUE, must |-> "created", epoch |-> 0]
  <1>1. u \in Users /\ row \in Rows
    BY DEF Created, AccountIInv, AccountTypeOK, Requests, Rows
  <1>2. CASE account[u] # None
    BY <1>2, RequestStep DEF Created, Answered
  <1>3. CASE account[u] = None
    <2>1. account' = [account EXCEPT ![u] = row]
      BY <1>3 DEF Created
    <2>2. /\ account' \in [Users -> Rows \cup {None}] /\ account'[u] \in Rows
          /\ \A v \in Users \ {u} : account'[v] = account[v]
      BY <1>1, <2>1 DEF AccountIInv, AccountTypeOK
    <2>3. AdminRemains'
      BY <1>3, <2>2 DEF AccountIInv, AdminRemains
    <2>4. /\ request' \in [Slots -> Requests \cup {None}]
          /\ \A v \in Slots : request'[v] \in {request[v], None}
      BY RequestFacts DEF Created, Answered, AccountIInv
    <2>5. drawn' = drawn /\ UNCHANGED <<session, ended, spared>>
          /\ "account-disabled" \in Reasons /\ {} \in SUBSET Tokens
      BY DEF Created, Reasons
    <2> HIDE DEF u
    <2> QED BY <1>1, <1>3, <2>2, <2>3, <2>4, <2>5, AccountStep
  <1> QED BY <1>2, <1>3

LEMMA Patches ==
  ASSUME AccountIInv, AccountConstants, NEW t \in Tokens, NEW u \in Users,
         NEW disabled \in BOOLEAN \cup {None}, NEW admin \in BOOLEAN \cup {None},
         Patch(t, u, disabled, admin)
  PROVE  AccountIInv'
  <1> DEFINE new == Patched(account[u], disabled, admin)
  <1>1. account[u] \in Rows /\ account[u] # None
    BY DEF Patch, AccountIInv, AccountTypeOK
  <1>2. /\ new \in Rows
        /\ new.epoch = IF disabled = TRUE THEN account[u].epoch + 1 ELSE account[u].epoch
        /\ disabled # TRUE /\ account[u].on => new.on
        /\ admin # FALSE /\ account[u].admin => new.admin
    BY <1>1, RowFacts, Zenon DEF AccountConstants
  <1>3. account' = [account EXCEPT ![u] = new]
    BY DEF Patch
  <1>4. /\ account' \in [Users -> Rows \cup {None}] /\ account'[u] = new
        /\ \A v \in Users \ {u} : account'[v] = account[v]
    BY <1>2, <1>3 DEF AccountIInv, AccountTypeOK
  \* The administrator who asks stays one.
  <1>5. AdminRemains'
    <2> DEFINE v == session[t].user
    <2>1. v \in Users /\ account[v] # None /\ account[v].admin /\ account[v].on
          /\ (v = u => disabled # TRUE /\ admin # FALSE)
      BY DEF Patch, Administrator, Known, AccountIInv, AccountTypeOK, Sessions, ReferenceInv
    <2>2. account'[v] # None /\ account'[v].admin /\ account'[v].on
      <3>1. CASE v = u
        BY <1>2, <1>4, <2>1, <3>1 DEF AccountConstants
      <3>2. CASE v # u
        BY <1>4, <2>1, <3>2
      <3> QED BY <3>1, <3>2
    <2> QED BY <2>1, <2>2 DEF AdminRemains
  <1>6. drawn' = drawn /\ {} \in SUBSET Tokens /\ "account-disabled" \in Reasons
    BY DEF Patch, Reasons
  <1>7. /\ request' \in [Slots -> Requests \cup {None}]
        /\ \A s \in Slots : request'[s] \in {request[s], None}
    BY DEF Patch, RevokeCut, AccountIInv, AccountTypeOK
  <1>8. \/ Revoke(u, "account-disabled", {}) /\ UNCHANGED spared
        \/ /\ ended' \in {ended, Listed(u, "account-disabled", {})} /\ UNCHANGED session
           /\ spared' = spared \cup Revoked(u, {})
        \/ account'[u].epoch = account[u].epoch /\ UNCHANGED <<session, ended, spared>>
    BY <1>2, <1>4 DEF Patch, RevokeCut
  <1> HIDE DEF new
  <1> QED BY <1>2, <1>4, <1>5, <1>6, <1>7, <1>8, AccountStep

LEMMA Dies ==
  ASSUME AccountIInv, ProcessEnds \/ UNCHANGED accountVars
  PROVE  AccountIInv'
  BY DEF ProcessEnds, accountVars, AccountIInv, AccountTypeOK, ReferenceInv, Fits, AdminRemains, ChangesEndSessions, EndedForGood

(***************************************************************************)
(* The theorems.                                                           *)
(***************************************************************************)

\* The invariant of the account and session tables holds in every behaviour.
THEOREM AccountInvariant == ASSUME AccountConstants PROVE AccountSpec => []AccountIInv
  <1>1. AccountInit => AccountIInv
    BY AccountInitHolds
  <1>2. AccountIInv /\ [AccountNext]_accountVars => AccountIInv'
    <2> SUFFICES ASSUME AccountIInv, [AccountNext]_accountVars PROVE AccountIInv'
      OBVIOUS
    <2>1. CASE \E s \in Slots : Refused(s)
      BY <2>1, RequestStep DEF Refused, Answered
    <2>2. CASE \E s \in Slots : Changed(s) \/ Created(s) \/ ResetDone(s)
      BY <2>2, Renews, Creates
    <2>3. CASE \E s \in Slots, t \in Tokens : LoggedIn(s, t)
      BY <2>3, SignsIn
    <2>4. CASE \E t \in Tokens : Logout(t) \/ Expire(t)
      BY <2>4, SignsOut
    <2>5. CASE \E t \in Tokens, u \in Users, disabled, admin \in BOOLEAN \cup {None} :
                 Patch(t, u, disabled, admin)
      BY <2>5, Patches
    <2>6. CASE ProcessEnds \/ UNCHANGED accountVars
      BY <2>6, Dies
    <2>7. CASE \E s \in Slots, u \in Users, password \in Passwords : Login(s, u, password)
      BY <2>7, LoginStep
    <2>8. CASE \E s \in Slots, t \in Tokens, password, new \in Passwords : Change(s, t, password, new)
      BY <2>8, ChangeStep
    <2>9. CASE \E s \in Slots, t \in Tokens, u \in Users, password \in Passwords :
                 \/ \E admin \in BOOLEAN : Create(s, t, u, password, admin)
                 \/ Reset(s, t, u, password)
      BY <2>9, CreateStep, ResetStep
    <2> QED BY <2>1, <2>2, <2>3, <2>4, <2>5, <2>6, <2>7, <2>8, <2>9 DEF AccountNext
  <1> QED BY <1>1, <1>2, PTL DEF AccountSpec

\* The tables and the requests in flight have their types in every behaviour.
THEOREM AccountTypeCorrect == ASSUME AccountConstants PROVE AccountSpec => []AccountTypeOK
  <1>1. AccountIInv => AccountTypeOK
    BY DEF AccountIInv
  <1> QED BY <1>1, AccountInvariant, PTL

\* However administrators act on each other (PATCH /api/admin/users/:id), one
\* that can sign in is left.
THEOREM AdminAlwaysRemains == ASSUME AccountConstants PROVE AccountSpec => []AdminRemains
  <1>1. AccountIInv => AdminRemains
    BY DEF AccountIInv
  <1> QED BY <1>1, AccountInvariant, PTL

\* A change or reset of a password, and the disabling of an account, end the
\* account's sessions (revokeSessions); those that stay were there when the
\* process died in between, or signed in with the account as it was before.
THEOREM ChangesEndAllSessions == ASSUME AccountConstants PROVE AccountSpec => []ChangesEndSessions
  <1>1. AccountIInv => ChangesEndSessions
    BY DEF AccountIInv
  <1> QED BY <1>1, AccountInvariant, PTL

\* A session that is listed in revoked_sessions is gone, unless it was there
\* when the process died between the two statements of revokeSessions.
THEOREM EndedSessionsStayEnded == ASSUME AccountConstants PROVE AccountSpec => []EndedForGood
  <1>1. AccountIInv => EndedForGood
    BY DEF AccountIInv
  <1> QED BY <1>1, AccountInvariant, PTL

-----------------------------------------------------------------------------
(* 3. Failed sign-ins.                                                     *)

\* The limits allow an attempt, the spacings are between the initial and the
\* maximum one, and None is no account and no attempt.
LimiterConstants ==
  /\ IsFiniteSet(Slots)
  /\ Window \in Nat /\ MaximumWait \in Nat /\ FreeFailures \in Nat
  /\ AddressLimit \in Nat \ {0} /\ PairLimit \in Nat \ {0} /\ ChangeLimit \in Nat \ {0}
  /\ InitialSpacing \in Nat \ {0} /\ MaximumSpacing \in Nat
  /\ Spacing \in [Nat -> {n \in Nat : InitialSpacing <= n /\ n <= MaximumSpacing}]
  /\ None \notin Users \cup Attempts

\* A failure counts against what was checked, and for the account besides.
CountedInv ==
  \A s \in Slots : attempt[s] # None =>
    \A k \in LimitedKeys : k \in attempt[s].counted => k \in attempt[s].rules

\* The line ends after every turn that was given out, and those who wait in it
\* hold such turns.
LineInv ==
  \A u \in Users \ forgotten :
    /\ \A x \in granted[u] : x + InitialSpacing <= Turn(u)
    /\ \A s \in Slots : attempt[s] # None /\ attempt[s].line = u => attempt[s].turn \in granted[u]

LimiterIInv == LimiterTypeOK /\ CountedInv /\ LineInv /\ FailuresLimited /\ TurnsApart /\ WaitsBounded

(***************************************************************************)
(* What the operators return.                                              *)
(***************************************************************************)

LEMMA KeyFacts ==
  ASSUME NEW u \in Users
  PROVE  /\ AccountKey(u) \in AttemptKeys /\ AccountKey(u) \notin LimitedKeys
         /\ ChangeKey(u) \in LimitedKeys
         /\ \A a \in Addresses : LoginRules(u, a) \subseteq LimitedKeys /\ PairKey(u, a) \in LimitedKeys
         /\ LimitedKeys \subseteq AttemptKeys
  <1>1. AccountKey(u) \notin LimitedKeys
    BY DEF LimitedKeys, AccountKey, AddressKey, PairKey, ChangeKey
  <1>2. /\ ChangeKey(u) \in LimitedKeys
        /\ \A a \in Addresses : AddressKey(a) \in LimitedKeys /\ PairKey(u, a) \in LimitedKeys
    BY DEF LimitedKeys
  <1> QED BY <1>1, <1>2 DEF AttemptKeys, LoginRules

LEMMA LimitFacts == ASSUME LimiterConstants, NEW k \in LimitedKeys PROVE Limit[k] \in Nat \ {0}
  BY DEF LimiterConstants, Limit

LEMMA FailureFacts == ASSUME LimiterTypeOK, NEW k \in AttemptKeys PROVE Failures(k) \in Nat
  BY DEF LimiterTypeOK, Failures, Buckets

LEMMA TurnFacts == ASSUME LimiterTypeOK, NEW u \in Users PROVE Turn(u) \in Nat /\ Turn(u) >= now /\ Turn(u) >= nextTurn[u]
  BY DEF LimiterTypeOK, Turn

LEMMA CountedFacts ==
  ASSUME LimiterTypeOK, LimiterConstants, NEW k \in AttemptKeys
  PROVE  Counted(buckets[k]) \in Buckets /\ Counted(buckets[k]).failures <= Failures(k) + 1
  <1>1. buckets[k] \in Buckets /\ now + Window \in Nat
    BY DEF LimiterTypeOK, LimiterConstants
  <1>2. Counted(buckets[k]) \in Buckets
    BY <1>1 DEF Counted, Buckets
  <1>3. Counted(buckets[k]).failures <= Failures(k) + 1
    BY <1>1 DEF Counted, Buckets, Failures
  <1> QED BY <1>2, <1>3

LEMMA InFlightFacts ==
  ASSUME LimiterConstants, NEW k
  PROVE  /\ IsFiniteSet(InFlight(k)) /\ Cardinality(InFlight(k)) \in Nat
         /\ Cardinality(Slots) \in Nat /\ Cardinality(InFlight(k)) <= Cardinality(Slots)
  <1>1. InFlight(k) \subseteq Slots /\ IsFiniteSet(Slots)
    BY DEF InFlight, LimiterConstants
  <1> QED BY <1>1, FS_Subset, FS_CardinalityType

(***************************************************************************)
(* The steps, by what they change.                                         *)
(***************************************************************************)

\* The counts are no higher and no attempt is new.
LEMMA FewerHolds ==
  ASSUME LimiterIInv, LimiterConstants,
         \A k \in LimitedKeys : Failures(k)' \in Nat /\ Failures(k)' <= Failures(k),
         \A s \in Slots : attempt'[s] \in {attempt[s], None}
  PROVE  FailuresLimited'
  <1> SUFFICES ASSUME NEW k \in LimitedKeys
               PROVE  Failures(k)' + Cardinality(InFlight(k))' < Limit[k] + Cardinality(Slots)
    BY DEF FailuresLimited
  <1>1. InFlight(k)' \subseteq InFlight(k)
    BY DEF InFlight
  <1>2. /\ Cardinality(InFlight(k)') \in Nat /\ Cardinality(InFlight(k)) \in Nat
        /\ Cardinality(InFlight(k)') <= Cardinality(InFlight(k))
    BY <1>1, InFlightFacts, FS_Subset, FS_CardinalityType
  <1>3. Failures(k) \in Nat /\ Limit[k] \in Nat /\ Cardinality(Slots) \in Nat
    BY FailureFacts, LimitFacts, InFlightFacts DEF LimiterIInv, AttemptKeys
  <1>4. Failures(k) + Cardinality(InFlight(k)) < Limit[k] + Cardinality(Slots)
    BY DEF LimiterIInv, FailuresLimited
  <1> QED BY <1>2, <1>3, <1>4

\* Nobody is admitted.
LEMMA LineStays ==
  ASSUME LimiterIInv, UNCHANGED <<now, nextTurn, granted, forgotten>>,
         \A s \in Slots : attempt'[s] \in {attempt[s], None}
  PROVE  CountedInv' /\ LineInv' /\ TurnsApart' /\ WaitsBounded'
  <1>1. CountedInv' /\ WaitsBounded' /\ TurnsApart'
    BY DEF LimiterIInv, CountedInv, WaitsBounded, TurnsApart
  <1>2. LineInv'
    BY DEF LimiterIInv, LineInv, Turn
  <1> QED BY <1>1, <1>2

\* An attempt is admitted, if its rules have room.
LEMMA Admitted ==
  ASSUME LimiterIInv, LimiterConstants, NEW s \in Slots, NEW rules \in SUBSET LimitedKeys,
         NEW counted \in SUBSET AttemptKeys, NEW cleared \in LimitedKeys, NEW turn \in Nat,
         NEW line \in Users \cup {None},
         \A k \in LimitedKeys : k \in counted => k \in rules,
         Admit(s, rules, counted, cleared, turn, line)
  PROVE  /\ attempt' \in [Slots -> Attempts \cup {None}] /\ attempt'[s].turn = turn
         /\ attempt'[s].line = line /\ attempt'[s] # None /\ attempt[s] = None
         /\ \A t \in Slots \ {s} : attempt'[t] = attempt[t]
         /\ CountedInv' /\ FailuresLimited' /\ UNCHANGED <<now, buckets, forgotten>>
  <1> DEFINE new == [rules |-> rules, counted |-> counted, cleared |-> cleared,
                     turn |-> turn, line |-> line]
  <1>1. new \in Attempts /\ new # None
    <2>1. new \in Attempts
      BY DEF Attempts
    <2> QED BY <2>1 DEF LimiterConstants
  <1>2. attempt' = [attempt EXCEPT ![s] = new] /\ attempt[s] = None /\ UNCHANGED <<now, buckets, forgotten>>
    BY DEF Admit
  <1>3. /\ attempt' \in [Slots -> Attempts \cup {None}] /\ attempt'[s] = new
        /\ \A t \in Slots \ {s} : attempt'[t] = attempt[t]
    BY <1>1, <1>2 DEF LimiterIInv, LimiterTypeOK
  <1>4. CountedInv'
    BY <1>3 DEF LimiterIInv, CountedInv
  <1>5. FailuresLimited'
    <2> SUFFICES ASSUME NEW k \in LimitedKeys
                 PROVE  Failures(k) + Cardinality(InFlight(k))' < Limit[k] + Cardinality(Slots)
      BY <1>2 DEF FailuresLimited, Failures
    <2>1. Failures(k) \in Nat /\ Limit[k] \in Nat /\ Cardinality(Slots) \in Nat
          /\ Cardinality(InFlight(k)) \in Nat
      BY FailureFacts, LimitFacts, InFlightFacts DEF LimiterIInv, AttemptKeys
    <2>2. CASE k \in rules
      <3>1. InFlight(k)' \subseteq Slots
        BY DEF InFlight
      <3>2. Cardinality(InFlight(k)') \in Nat /\ Cardinality(InFlight(k)') <= Cardinality(Slots)
        BY <3>1, FS_Subset, FS_CardinalityType DEF LimiterConstants
      <3>3. Failures(k) < Limit[k]
        BY <2>2 DEF Admit, Room
      <3> QED BY <2>1, <3>2, <3>3
    <2>3. CASE k \notin rules
      <3>1. InFlight(k)' = InFlight(k)
        BY <1>2, <1>3, <2>3 DEF InFlight
      <3> QED BY <3>1 DEF LimiterIInv, FailuresLimited
    <2> QED BY <2>2, <2>3
  <1> QED BY <1>1, <1>2, <1>3, <1>4, <1>5

\* Without a turn in a line.
LEMMA FreeHolds ==
  ASSUME LimiterIInv, LimiterConstants, NEW s \in Slots, NEW rules \in SUBSET LimitedKeys,
         NEW counted \in SUBSET AttemptKeys, NEW cleared \in LimitedKeys,
         \A k \in LimitedKeys : k \in counted => k \in rules,
         Admit(s, rules, counted, cleared, now, None), UNCHANGED <<nextTurn, granted>>
  PROVE  LimiterIInv'
  <1>1. now \in Nat /\ None \in Users \cup {None} /\ None \notin Users
    BY DEF LimiterIInv, LimiterTypeOK, LimiterConstants
  <1>2. /\ attempt' \in [Slots -> Attempts \cup {None}] /\ attempt'[s].turn = now
        /\ attempt'[s].line = None /\ attempt'[s] # None /\ attempt[s] = None
        /\ \A t \in Slots \ {s} : attempt'[t] = attempt[t]
        /\ CountedInv' /\ FailuresLimited' /\ UNCHANGED <<now, buckets, forgotten>>
    BY <1>1, Admitted
  <1>3. LimiterTypeOK'
    BY <1>2 DEF LimiterIInv, LimiterTypeOK
  <1>4. LineInv'
    BY <1>1, <1>2 DEF LimiterIInv, LineInv, Turn
  <1>5. TurnsApart'
    BY <1>1, <1>2 DEF LimiterIInv, TurnsApart
  <1>6. WaitsBounded'
    BY <1>1, <1>2 DEF LimiterIInv, WaitsBounded, LimiterConstants
  <1> QED BY <1>2, <1>3, <1>4, <1>5, <1>6 DEF LimiterIInv

\* A turn in the account's line, after all that were given out.
LEMMA InLineHolds ==
  ASSUME LimiterIInv, LimiterConstants, NEW s \in Slots, NEW u \in Users, NEW a \in Addresses, LoginInLine(s, u, a)
  PROVE  LimiterIInv'
  <1> DEFINE turn == Turn(u)
             gap == Spacing[Failures(AccountKey(u))]
  <1>1. turn \in Nat /\ turn >= now /\ turn >= nextTurn[u] /\ turn <= now + MaximumWait
    BY TurnFacts DEF LimiterIInv, LoginInLine
  <1>2. gap \in Nat /\ InitialSpacing <= gap /\ gap <= MaximumSpacing
    <2>1. Failures(AccountKey(u)) \in Nat
      BY KeyFacts, FailureFacts DEF LimiterIInv
    <2> QED BY <2>1 DEF LimiterConstants
  <1>3. now \in Nat /\ MaximumWait \in Nat /\ MaximumSpacing \in Nat /\ InitialSpacing \in Nat \ {0}
    BY DEF LimiterIInv, LimiterTypeOK, LimiterConstants
  <1>4. /\ attempt' \in [Slots -> Attempts \cup {None}] /\ attempt'[s].turn = turn
        /\ attempt'[s].line = u /\ attempt'[s] # None /\ attempt[s] = None
        /\ \A t \in Slots \ {s} : attempt'[t] = attempt[t]
        /\ CountedInv' /\ FailuresLimited' /\ UNCHANGED <<now, buckets, forgotten>>
    <2>1. /\ LoginRules(u, a) \in SUBSET LimitedKeys /\ PairKey(u, a) \in LimitedKeys
          /\ LoginRules(u, a) \cup {AccountKey(u)} \in SUBSET AttemptKeys
          /\ \A k \in LimitedKeys : k \in LoginRules(u, a) \cup {AccountKey(u)} => k \in LoginRules(u, a)
      BY KeyFacts
    <2>2. Admit(s, LoginRules(u, a), LoginRules(u, a) \cup {AccountKey(u)}, PairKey(u, a), turn, u)
      BY DEF LoginInLine
    <2> HIDE DEF turn
    <2> QED BY <1>1, <2>1, <2>2, Admitted
  <1>5. /\ nextTurn' = [nextTurn EXCEPT ![u] = turn + gap]
        /\ granted' = [granted EXCEPT ![u] = @ \cup {turn}]
    BY DEF LoginInLine
  <1>6. /\ nextTurn' \in [Users -> Nat] /\ nextTurn'[u] = turn + gap
        /\ \A v \in Users \ {u} : nextTurn'[v] = nextTurn[v] /\ granted'[v] = granted[v]
        /\ granted' \in [Users -> SUBSET Nat] /\ granted'[u] = granted[u] \cup {turn}
    BY <1>1, <1>2, <1>5 DEF LimiterIInv, LimiterTypeOK
  <1>7. LimiterTypeOK'
    BY <1>4, <1>6 DEF LimiterIInv, LimiterTypeOK
  <1>8. u \notin forgotten => \A x \in granted[u] : x \in Nat /\ x + InitialSpacing <= turn
    BY DEF LimiterIInv, LineInv, LimiterTypeOK
  <1>9. \A v \in Users : Turn(v)' = IF v = u THEN turn + gap ELSE Turn(v)
    <2> HIDE DEF turn, gap
    <2> QED BY <1>1, <1>2, <1>3, <1>4, <1>6 DEF Turn
  <1> HIDE DEF turn, gap
  <1>10. LineInv'
    <2> SUFFICES ASSUME NEW v \in Users \ forgotten
                 PROVE  /\ \A x \in granted'[v] : x + InitialSpacing <= Turn(v)'
                        /\ \A t \in Slots : attempt'[t] # None /\ attempt'[t].line = v
                                            => attempt'[t].turn \in granted'[v]
      BY <1>4 DEF LineInv
    <2>1. \A x \in granted'[v] : x + InitialSpacing <= Turn(v)'
      BY <1>1, <1>2, <1>3, <1>6, <1>8, <1>9 DEF LimiterIInv, LineInv
    <2>2. \A t \in Slots : attempt'[t] # None /\ attempt'[t].line = v => attempt'[t].turn \in granted'[v]
      BY <1>4, <1>6 DEF LimiterIInv, LineInv
    <2> QED BY <2>1, <2>2
  <1>11. TurnsApart'
    <2> SUFFICES ASSUME NEW v \in Users \ forgotten
                 PROVE  /\ \A x, y \in granted'[v] : x < y => x + InitialSpacing <= y
                        /\ \A t1, t2 \in Slots :
                             t1 # t2 /\ attempt'[t1] # None /\ attempt'[t2] # None
                             /\ attempt'[t1].line = v /\ attempt'[t2].line = v
                             => attempt'[t1].turn # attempt'[t2].turn
      BY <1>4 DEF TurnsApart
    <2>1. CASE v # u
      BY <1>4, <1>6, <2>1 DEF LimiterIInv, TurnsApart
    <2>2. CASE v = u
      <3>1. \A x, y \in granted[u] : x < y => x + InitialSpacing <= y
        BY <2>2 DEF LimiterIInv, TurnsApart
      <3>2. \A x, y \in granted'[u] : x < y => x + InitialSpacing <= y
        BY <1>1, <1>3, <1>6, <1>8, <2>2, <3>1
      <3>3. turn \notin granted[u]
        BY <1>1, <1>3, <1>8, <2>2
      <3>4. \A t \in Slots : attempt[t] # None /\ attempt[t].line = u => attempt[t].turn \in granted[u]
        BY <2>2 DEF LimiterIInv, LineInv
      <3>5. \A t1, t2 \in Slots : t1 # t2 /\ attempt[t1] # None /\ attempt[t2] # None
              /\ attempt[t1].line = u /\ attempt[t2].line = u => attempt[t1].turn # attempt[t2].turn
        BY <2>2 DEF LimiterIInv, TurnsApart
      <3>6. \A t \in Slots \ {s} : attempt'[t] # None /\ attempt'[t].line = u => attempt'[t].turn # turn
        BY <1>4, <3>3, <3>4
      <3> QED BY <1>4, <2>2, <3>2, <3>5, <3>6
    <2> QED BY <2>1, <2>2
  <1>12. WaitsBounded'
    BY <1>1, <1>2, <1>3, <1>4, <1>6 DEF LimiterIInv, WaitsBounded
  <1> QED BY <1>4, <1>7, <1>10, <1>11, <1>12 DEF LimiterIInv

\* The wait and the comparison are over.
LEMMA Ends ==
  ASSUME LimiterIInv, LimiterConstants, NEW s \in Slots, Fails(s) \/ Succeeds(s)
  PROVE  LimiterIInv'
  <1>1. /\ attempt[s] # None /\ attempt[s] \in Attempts
        /\ attempt' = [attempt EXCEPT ![s] = None] /\ UNCHANGED <<now, nextTurn, granted, forgotten>>
    BY DEF Fails, Succeeds, LimiterIInv, LimiterTypeOK
  <1>2. /\ attempt' \in [Slots -> Attempts \cup {None}] /\ attempt'[s] = None
        /\ \A t \in Slots \ {s} : attempt'[t] = attempt[t]
    BY <1>1 DEF LimiterIInv, LimiterTypeOK
  <1>3. CountedInv' /\ LineInv' /\ TurnsApart' /\ WaitsBounded'
    BY <1>1, <1>2, LineStays
  <1>4. CASE Succeeds(s)
    <2>1. attempt[s].cleared \in AttemptKeys
      BY <1>1 DEF Attempts, AttemptKeys
    <2>2. buckets' = [buckets EXCEPT ![attempt[s].cleared] = Empty]
      BY <1>4 DEF Succeeds
    <2>3. /\ buckets' \in [AttemptKeys -> Buckets]
          /\ \A k \in AttemptKeys : Failures(k)' \in Nat /\ Failures(k)' <= Failures(k)
      BY <1>1, <2>1, <2>2 DEF LimiterIInv, LimiterTypeOK, Failures, Empty, Buckets
    <2>4. LimiterTypeOK'
      BY <1>1, <1>2, <2>3 DEF LimiterIInv, LimiterTypeOK
    <2>5. FailuresLimited'
      BY <1>2, <2>3, FewerHolds DEF AttemptKeys
    <2> QED BY <1>3, <2>4, <2>5 DEF LimiterIInv
  <1>5. CASE Fails(s)
    <2>1. buckets' = [k \in AttemptKeys |-> IF k \in attempt[s].counted THEN Counted(buckets[k]) ELSE buckets[k]]
      BY <1>5 DEF Fails
    <2>2. buckets' \in [AttemptKeys -> Buckets]
      BY <2>1, CountedFacts DEF LimiterIInv, LimiterTypeOK
    <2>3. LimiterTypeOK'
      BY <1>1, <1>2, <2>2 DEF LimiterIInv, LimiterTypeOK
    <2>4. FailuresLimited'
      <3> SUFFICES ASSUME NEW k \in LimitedKeys
                   PROVE  Failures(k)' + Cardinality(InFlight(k))' < Limit[k] + Cardinality(Slots)
        BY DEF FailuresLimited
      <3>1. /\ k \in AttemptKeys /\ Failures(k) \in Nat /\ Failures(k)' \in Nat /\ Limit[k] \in Nat
            /\ Cardinality(Slots) \in Nat /\ Cardinality(InFlight(k)) \in Nat
            /\ IsFiniteSet(InFlight(k))
            /\ Failures(k) + Cardinality(InFlight(k)) < Limit[k] + Cardinality(Slots)
        <4>1. k \in AttemptKeys
          BY DEF AttemptKeys
        <4>2. Failures(k)' \in Nat
          BY <4>1, <2>2, <2>3 DEF Failures, LimiterTypeOK, Buckets
        <4> QED BY <4>1, <4>2, FailureFacts, LimitFacts, InFlightFacts DEF LimiterIInv, FailuresLimited
      <3>2. CASE k \in attempt[s].rules
        <4>1. s \in InFlight(k) /\ InFlight(k)' = InFlight(k) \ {s}
          BY <1>1, <1>2, <3>2 DEF InFlight
        <4>2. Cardinality(InFlight(k)') = Cardinality(InFlight(k)) - 1
          BY <3>1, <4>1, FS_RemoveElement
        <4>3. Failures(k)' <= Failures(k) + 1
          BY <1>1, <2>1, <3>1, CountedFacts DEF Failures, LimiterIInv, LimiterTypeOK, Buckets
        <4> QED BY <3>1, <4>2, <4>3
      <3>3. CASE k \notin attempt[s].rules
        <4>1. k \notin attempt[s].counted
          BY <1>1, <3>3 DEF LimiterIInv, CountedInv
        <4>2. Failures(k)' = Failures(k)
          BY <1>1, <2>1, <3>1, <4>1 DEF Failures
        <4>3. InFlight(k)' = InFlight(k)
          BY <1>1, <1>2, <3>3 DEF InFlight
        <4> QED BY <3>1, <4>2, <4>3
      <3> QED BY <3>2, <3>3
    <2> QED BY <1>3, <2>3, <2>4 DEF LimiterIInv
  <1> QED BY <1>4, <1>5

\* Room is made, time passes, the process starts anew.
LEMMA Others ==
  ASSUME LimiterIInv, LimiterConstants,
         \/ \E k \in AttemptKeys : DropBucket(k)
         \/ \E u \in Users : DropLine(u)
         \/ Tick \/ Restart \/ UNCHANGED limiterVars
  PROVE  LimiterIInv'
  <1> USE DEF LimiterIInv
  <1>1. ASSUME NEW k \in AttemptKeys, DropBucket(k) PROVE LimiterIInv'
    <2>1. /\ buckets' \in [AttemptKeys -> Buckets]
          /\ \A l \in AttemptKeys : Failures(l)' \in Nat /\ Failures(l)' <= Failures(l)
      BY <1>1 DEF DropBucket, LimiterTypeOK, Failures, Empty, Buckets
    <2>2. LimiterTypeOK'
      BY <1>1, <2>1 DEF DropBucket, LimiterTypeOK
    <2>3. FailuresLimited'
      BY <1>1, <2>1, FewerHolds DEF DropBucket, AttemptKeys
    <2>4. CountedInv' /\ LineInv' /\ TurnsApart' /\ WaitsBounded'
      BY <1>1, LineStays DEF DropBucket
    <2> QED BY <2>2, <2>3, <2>4
  <1>2. ASSUME NEW u \in Users, DropLine(u) PROVE LimiterIInv'
    <2>1. /\ nextTurn' \in [Users -> Nat] /\ nextTurn'[u] = 0
          /\ \A v \in Users \ {u} : nextTurn'[v] = nextTurn[v]
          /\ forgotten' = (IF nextTurn[u] > now THEN forgotten \cup {u} ELSE forgotten)
          /\ UNCHANGED <<now, buckets, attempt, granted>>
      BY <1>2 DEF DropLine, LimiterTypeOK
    <2>2. LimiterTypeOK'
      BY <2>1 DEF LimiterTypeOK
    <2>3. \A v \in Users \ forgotten' : v \notin forgotten /\ Turn(v)' = Turn(v)
      BY <2>1 DEF Turn, LimiterTypeOK
    <2>4. LineInv' /\ TurnsApart' /\ CountedInv'
      BY <2>1, <2>3 DEF LineInv, TurnsApart, CountedInv
    <2>5. WaitsBounded'
      BY <2>1 DEF WaitsBounded, LimiterTypeOK, LimiterConstants
    <2>6. FailuresLimited'
      BY <2>1 DEF FailuresLimited, Failures, InFlight
    <2> QED BY <2>2, <2>4, <2>5, <2>6
  <1>3. CASE Tick
    <2>1. now' = now + 1 /\ UNCHANGED <<buckets, nextTurn, attempt, granted, forgotten>>
      BY <1>3 DEF Tick
    <2>2. LimiterTypeOK'
      BY <2>1 DEF LimiterTypeOK
    <2>3. \A k \in LimitedKeys : Failures(k)' \in Nat /\ Failures(k)' <= Failures(k)
      BY <2>1 DEF Failures, LimiterTypeOK, Buckets, AttemptKeys
    <2>4. FailuresLimited'
      BY <2>1, <2>3, FewerHolds
    <2>5. \A u \in Users : Turn(u) \in Nat /\ Turn(u)' \in Nat /\ Turn(u) <= Turn(u)'
      BY <2>1 DEF Turn, LimiterTypeOK
    <2>6. LineInv'
      <3>1. \A u \in Users : \A x \in granted[u] : x \in Nat
        BY DEF LimiterTypeOK
      <3> QED BY <2>1, <2>5, <3>1 DEF LineInv, LimiterConstants
    <2>7. TurnsApart' /\ CountedInv'
      BY <2>1 DEF TurnsApart, CountedInv
    <2>8. WaitsBounded'
      <3>1. \A s \in Slots : attempt[s] # None => attempt[s].turn \in Nat
        BY DEF LimiterTypeOK, Attempts
      <3> QED BY <2>1, <3>1 DEF WaitsBounded, LimiterTypeOK, LimiterConstants
    <2> QED BY <2>2, <2>4, <2>6, <2>7, <2>8
  <1>4. CASE Restart
    <2>1. LimiterTypeOK'
      BY <1>4 DEF Restart, LimiterTypeOK, Empty, Buckets
    <2>2. CountedInv' /\ LineInv' /\ TurnsApart' /\ WaitsBounded'
      BY <1>4 DEF Restart, CountedInv, LineInv, TurnsApart, WaitsBounded, LimiterTypeOK, LimiterConstants
    <2>3. FailuresLimited'
      <3>1. \A k \in LimitedKeys : Failures(k)' \in Nat /\ Failures(k)' <= Failures(k)
        BY <1>4, FailureFacts DEF Restart, Failures, Empty, AttemptKeys, LimiterTypeOK
      <3> QED BY <1>4, <3>1, FewerHolds DEF Restart
    <2> QED BY <2>1, <2>2, <2>3
  <1>5. CASE UNCHANGED limiterVars
    BY <1>5 DEF limiterVars, LimiterTypeOK, CountedInv, LineInv, Turn, FailuresLimited, Failures, InFlight,
                TurnsApart, WaitsBounded
  <1> QED BY <1>1, <1>2, <1>3, <1>4, <1>5

LEMMA LimiterInitHolds ==
  ASSUME LimiterConstants, LimiterInit
  PROVE  LimiterIInv
  <1>1. LimiterTypeOK
    BY DEF LimiterInit, LimiterTypeOK, Empty, Buckets
  <1>2. CountedInv /\ LineInv /\ TurnsApart /\ WaitsBounded
    BY DEF LimiterInit, CountedInv, LineInv, TurnsApart, WaitsBounded, LimiterConstants
  <1>3. FailuresLimited
    <2> SUFFICES ASSUME NEW k \in LimitedKeys
                 PROVE  Failures(k) + Cardinality(InFlight(k)) < Limit[k] + Cardinality(Slots)
      BY DEF FailuresLimited
    <2>1. Failures(k) = 0 /\ InFlight(k) = {}
      BY DEF LimiterInit, Failures, Empty, InFlight, AttemptKeys
    <2>2. Cardinality(InFlight(k)) = 0
      BY <2>1, FS_EmptySet
    <2> QED BY <2>1, <2>2, LimitFacts, InFlightFacts
  <1> QED BY <1>1, <1>2, <1>3 DEF LimiterIInv

(***************************************************************************)
(* The theorems.                                                           *)
(***************************************************************************)

\* The invariant of the counts and the lines holds in every behaviour.
THEOREM LimiterInvariant == ASSUME LimiterConstants PROVE LimiterSpec => []LimiterIInv
  <1>1. LimiterInit => LimiterIInv
    BY LimiterInitHolds
  <1>2. LimiterIInv /\ [LimiterNext]_limiterVars => LimiterIInv'
    <2> SUFFICES ASSUME LimiterIInv, [LimiterNext]_limiterVars PROVE LimiterIInv'
      OBVIOUS
    <2>1. ASSUME NEW s \in Slots, NEW u \in Users, NEW a \in Addresses, LoginFree(s, u, a) PROVE LimiterIInv'
      <3>1. /\ LoginRules(u, a) \in SUBSET LimitedKeys /\ PairKey(u, a) \in LimitedKeys
            /\ LoginRules(u, a) \cup {AccountKey(u)} \in SUBSET AttemptKeys
            /\ \A k \in LimitedKeys : k \in LoginRules(u, a) \cup {AccountKey(u)} => k \in LoginRules(u, a)
        BY KeyFacts
      <3>2. /\ Admit(s, LoginRules(u, a), LoginRules(u, a) \cup {AccountKey(u)}, PairKey(u, a), now, None)
            /\ UNCHANGED <<nextTurn, granted>>
        BY <2>1 DEF LoginFree
      <3> QED BY <3>1, <3>2, FreeHolds
    <2>2. ASSUME NEW s \in Slots, NEW u \in Users, ChangeAttempt(s, u) PROVE LimiterIInv'
      <3>1. ChangeKey(u) \in LimitedKeys /\ {ChangeKey(u)} \in SUBSET LimitedKeys
            /\ {ChangeKey(u)} \in SUBSET AttemptKeys
        BY KeyFacts
      <3>2. Admit(s, {ChangeKey(u)}, {ChangeKey(u)}, ChangeKey(u), now, None) /\ UNCHANGED <<nextTurn, granted>>
        BY <2>2 DEF ChangeAttempt
      <3> QED BY <3>1, <3>2, FreeHolds
    <2>3. CASE \E s \in Slots, u \in Users, a \in Addresses : LoginInLine(s, u, a)
      BY <2>3, InLineHolds
    <2>4. CASE \E s \in Slots : Fails(s) \/ Succeeds(s)
      BY <2>4, Ends
    <2> QED BY <2>1, <2>2, <2>3, <2>4, Others DEF LimiterNext
  <1> QED BY <1>1, <1>2, PTL DEF LimiterSpec

\* The types of the counts, the lines and the attempts.
THEOREM LimiterTypeCorrect == ASSUME LimiterConstants PROVE LimiterSpec => []LimiterTypeOK
  <1>1. LimiterIInv => LimiterTypeOK
    BY DEF LimiterIInv
  <1> QED BY <1>1, LimiterInvariant, PTL

\* An address, an account at an address and a password change are held to
\* their limit and the attempts in flight (retryAfterMs, recordFailure).
THEOREM FailuresAreLimited == ASSUME LimiterConstants PROVE LimiterSpec => []FailuresLimited
  <1>1. LimiterIInv => FailuresLimited
    BY DEF LimiterIInv
  <1> QED BY <1>1, LimiterInvariant, PTL

\* The turns of an account's line are apart by the initial spacing at least,
\* from however many addresses the attempts come (AttemptSpacer.reserve).
THEOREM TurnsAreApart == ASSUME LimiterConstants PROVE LimiterSpec => []TurnsApart
  <1>1. LimiterIInv => TurnsApart
    BY DEF LimiterIInv
  <1> QED BY <1>1, LimiterInvariant, PTL

\* Waits are no longer than maximumWaitMs and the line no longer than that and
\* the longest spacing (AttemptSpacer.reserve).
THEOREM WaitsAreBounded == ASSUME LimiterConstants PROVE LimiterSpec => []WaitsBounded
  <1>1. LimiterIInv => WaitsBounded
    BY DEF LimiterIInv
  <1> QED BY <1>1, LimiterInvariant, PTL
=============================================================================
