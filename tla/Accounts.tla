------------------------------ MODULE Accounts ------------------------------
(***************************************************************************)
(* Accounts and their sessions (server/auth.ts, server/routes/auth.ts and  *)
(* the account routes of server/routes/admin.ts).                          *)
(*                                                                         *)
(* A handler that hashes or compares a password gives way while it does;   *)
(* what it read before, and who sent it, is not looked at again.  The      *)
(* other handlers run in one piece, each statement or transaction of which *)
(* a crash may leave as the last.                                          *)
(***************************************************************************)
EXTENDS AccountBase, Naturals

CONSTANTS Tokens   \* session cookies; no two sign-ins draw the same

VARIABLES
  account,   \* users: a row or None
  session,   \* sessions: a row or None for every token
  ended,     \* revoked_sessions: a reason or None
  request,   \* the requests that wait for a hash or a comparison, or None
  drawn,     \* history: tokens that were given out
  spared     \* history: tokens whose sessions a crash kept from being deleted

accountVars == <<account, session, ended, request, drawn, spared>>

\* epoch counts the changes that end the account's sessions (history).
Rows == [password : Passwords, admin : BOOLEAN, on : BOOLEAN,
         must : {"initial", "created", "reset", "no"}, epoch : Nat]

\* epoch: of the account when the sign-in was verified, or when the session
\* changed the password; late: the account had changed meanwhile (history).
Sessions == [user : Users, epoch : Nat, late : BOOLEAN]

Reasons == {"password-reset", "password-changed", "account-disabled"}

\* user: whose password is compared or set; ok: the comparison will succeed;
\* epoch: of the account when it was read; token: of the session that asks.
Requests ==
  [kind : {"login"}, user : Users, ok : BOOLEAN, epoch : Nat]
  \cup [kind : {"change"}, user : Users, ok : BOOLEAN, new : Passwords, token : Tokens]
  \cup [kind : {"create"}, user : Users, new : Passwords, admin : BOOLEAN]
  \cup [kind : {"reset"}, user : Users, new : Passwords]

AccountTypeOK ==
  /\ account \in [Users -> Rows \cup {None}]
  /\ session \in [Tokens -> Sessions \cup {None}]
  /\ ended \in [Tokens -> Reasons \cup {None}]
  /\ request \in [Slots -> Requests \cup {None}]
  /\ drawn \subseteq Tokens /\ spared \subseteq Tokens

\* The account that seed has made and prepareInitialAdmin has given a password.
AccountInit ==
  /\ \E first \in Users, password \in Passwords :
       account = [u \in Users |->
         IF u = first
         THEN [password |-> password, admin |-> TRUE, on |-> TRUE, must |-> "initial", epoch |-> 0]
         ELSE None]
  /\ session = [t \in Tokens |-> None] /\ ended = [t \in Tokens |-> None]
  /\ request = [s \in Slots |-> None]
  /\ drawn = {} /\ spared = {}
-----------------------------------------------------------------------------
(* Who sends a request (preHandler, requireUser, requireAdmin). *)

\* The account a cookie stands for.
Known(t) == session[t] # None /\ account[session[t].user].on

Administrator(t) ==
  /\ Known(t)
  /\ account[session[t].user].admin /\ account[session[t].user].must = "no"

\* revokeSessions: the user's sessions but one are listed with the reason, and
\* then deleted.
Revoked(u, keep) == {t \in Tokens \ keep : session[t] # None /\ session[t].user = u}

Listed(u, reason, keep) == [t \in Tokens |-> IF t \in Revoked(u, keep) THEN reason ELSE ended[t]]

Revoke(u, reason, keep) ==
  /\ ended' = Listed(u, reason, keep)
  /\ session' = [t \in Tokens |->
       IF t \in Revoked(u, keep) THEN None
       ELSE IF t \in keep /\ session[t] # None
       THEN [session[t] EXCEPT !.epoch = account'[u].epoch, !.late = FALSE]
       ELSE session[t]]

\* Outside a transaction the process may die before the first of the two
\* statements or between them: the sessions stay.
RevokeCut(u, reason) ==
  /\ ended' \in {ended, Listed(u, reason, {})}
  /\ spared' = spared \cup Revoked(u, {})
  /\ request' = [s \in Slots |-> None]
  /\ UNCHANGED session

Wait(s, r) == request[s] = None /\ request' = [request EXCEPT ![s] = r]

Answered(s) == request' = [request EXCEPT ![s] = None]
-----------------------------------------------------------------------------
(* Signing in and out. *)

\* POST /api/auth/login, up to the comparison with the row it has read.
Login(s, u, password) ==
  /\ account[u] # None
  /\ Wait(s, [kind |-> "login", user |-> u, epoch |-> account[u].epoch,
              ok |-> account[u].on /\ account[u].password = password])
  /\ UNCHANGED <<account, session, ended, drawn, spared>>

\* The password matches: createSession.
LoggedIn(s, t) ==
  /\ request[s] # None /\ request[s].kind = "login" /\ request[s].ok
  /\ t \notin drawn
  /\ LET u == request[s].user
     IN  session' = [session EXCEPT ![t] = [user |-> u, epoch |-> request[s].epoch,
                                            late |-> request[s].epoch # account[u].epoch]]
  /\ drawn' = drawn \cup {t}
  /\ Answered(s)
  /\ UNCHANGED <<account, ended, spared>>

\* The password of a sign-in or of a change does not match.
Refused(s) ==
  /\ request[s] # None /\ request[s].kind \in {"login", "change"} /\ ~request[s].ok
  /\ Answered(s)
  /\ UNCHANGED <<account, session, ended, drawn, spared>>

\* POST /api/auth/logout.
Logout(t) ==
  /\ Known(t)
  /\ session' = [session EXCEPT ![t] = None]
  /\ UNCHANGED <<account, ended, request, drawn, spared>>

\* expires_at: seed deletes the rows at the next start.
Expire(t) ==
  /\ session' = [session EXCEPT ![t] = None]
  /\ ended' = [ended EXCEPT ![t] = None]
  /\ UNCHANGED <<account, request, drawn, spared>>

\* POST /api/auth/change-password, up to the comparison and the new hash.
Change(s, t, password, new) ==
  /\ Known(t)
  /\ Wait(s, [kind |-> "change", user |-> session[t].user, new |-> new, token |-> t,
              ok |-> account[session[t].user].password = password])
  /\ UNCHANGED <<account, session, ended, drawn, spared>>

\* The account has a new password, which ends its sessions.
Renew(row, password, must) ==
  [row EXCEPT !.password = password, !.must = must, !.epoch = @ + 1]

Renewed(u, password, must) ==
  account' = [account EXCEPT ![u] = Renew(account[u], password, must)]

\* One transaction.
Changed(s) ==
  /\ request[s] # None /\ request[s].kind = "change" /\ request[s].ok
  /\ Renewed(request[s].user, request[s].new, "no")
  /\ Revoke(request[s].user, "password-changed", {request[s].token})
  /\ Answered(s)
  /\ UNCHANGED <<drawn, spared>>
-----------------------------------------------------------------------------
(* Administration. *)

\* POST /api/admin/users, and the INSERT after the hash, unless the name is
\* taken by then.
Create(s, t, u, password, admin) ==
  /\ Administrator(t)
  /\ Wait(s, [kind |-> "create", user |-> u, new |-> password, admin |-> admin])
  /\ UNCHANGED <<account, session, ended, drawn, spared>>

Created(s) ==
  /\ request[s] # None /\ request[s].kind = "create"
  /\ LET u == request[s].user
     IN  account' = IF account[u] # None THEN account
                    ELSE [account EXCEPT ![u] = [password |-> request[s].new, admin |-> request[s].admin,
                                                 on |-> TRUE, must |-> "created", epoch |-> 0]]
  /\ Answered(s)
  /\ UNCHANGED <<session, ended, drawn, spared>>

\* POST /api/admin/users/:id/reset-password, up to the hash.
Reset(s, t, u, password) ==
  /\ Administrator(t)
  /\ Wait(s, [kind |-> "reset", user |-> u, new |-> password])
  /\ UNCHANGED <<account, session, ended, drawn, spared>>

\* The UPDATE, then revokeSessions.
ResetDone(s) ==
  /\ request[s] # None /\ request[s].kind = "reset"
  /\ LET u == request[s].user
     IN  \/ account[u] = None /\ Answered(s) /\ UNCHANGED <<account, session, ended, spared>>
         \/ /\ account[u] # None
            /\ Renewed(u, request[s].new, "reset")
            /\ \/ Revoke(u, "password-reset", {}) /\ Answered(s) /\ UNCHANGED spared
               \/ RevokeCut(u, "password-reset")
  /\ UNCHANGED drawn

\* PATCH /api/admin/users/:id; disabled and admin are None when they are not
\* sent.  One does not disable or demote oneself.
Patched(row, disabled, admin) ==
  [row EXCEPT !.on = IF disabled = None THEN @ ELSE ~disabled,
              !.admin = IF admin = None THEN @ ELSE admin,
              !.epoch = IF disabled = TRUE THEN @ + 1 ELSE @]

Patch(t, u, disabled, admin) ==
  /\ Administrator(t) /\ account[u] # None
  /\ session[t].user = u => disabled # TRUE /\ admin # FALSE
  /\ account' = [account EXCEPT ![u] = Patched(account[u], disabled, admin)]
  /\ \/ disabled # TRUE /\ UNCHANGED <<session, ended, request, spared>>
     \/ disabled = TRUE /\ Revoke(u, "account-disabled", {}) /\ UNCHANGED <<request, spared>>
     \/ disabled = TRUE /\ RevokeCut(u, "account-disabled")
  /\ UNCHANGED drawn

\* The process ends or dies; the tables stay.
ProcessEnds ==
  /\ request' = [s \in Slots |-> None]
  /\ UNCHANGED <<account, session, ended, drawn, spared>>

AccountNext ==
  \/ \E s \in Slots, u \in Users, password \in Passwords : Login(s, u, password)
  \/ \E s \in Slots, t \in Tokens : LoggedIn(s, t)
  \/ \E t \in Tokens : Logout(t) \/ Expire(t)
  \/ \E s \in Slots, t \in Tokens, password, new \in Passwords : Change(s, t, password, new)
  \/ \E s \in Slots : Refused(s) \/ Changed(s) \/ Created(s) \/ ResetDone(s)
  \/ \E s \in Slots, t \in Tokens, u \in Users, password \in Passwords :
       \/ \E admin \in BOOLEAN : Create(s, t, u, password, admin)
       \/ Reset(s, t, u, password)
  \/ \E t \in Tokens, u \in Users, disabled, admin \in BOOLEAN \cup {None} : Patch(t, u, disabled, admin)
  \/ ProcessEnds

AccountSpec == AccountInit /\ [][AccountNext]_accountVars
-----------------------------------------------------------------------------
(* Properties. *)

(***************************************************************************)
(* "You cannot disable or demote your current account": there is always an *)
(* account that administers and is not disabled, whatever administrators   *)
(* do to each other at the same time.                                      *)
(***************************************************************************)
AdminRemains == \E u \in Users : account[u] # None /\ account[u].admin /\ account[u].on

(***************************************************************************)
(* "Other browsers and devices must sign in again with the new password":  *)
(* every session was signed in to, or kept, after the last change that     *)
(* ended its account's sessions; but for a sign-in that had read the       *)
(* account before the change and got its session after it, and for a       *)
(* session that was there when the process died between the change and the *)
(* deletion.                                                               *)
(***************************************************************************)
ChangesEndSessions ==
  \A t \in Tokens : session[t] # None =>
    LET u == session[t].user
    IN  session[t].epoch = account[u].epoch \/ session[t].late \/ t \in spared

(***************************************************************************)
(* A cookie whose session is listed as ended by someone else never stands  *)
(* for an account again, and its request can say why: but for a session    *)
(* that was there when the process died between the two statements of      *)
(* revokeSessions, which is listed and alive.                              *)
(***************************************************************************)
EndedForGood == \A t \in Tokens : ended[t] # None => session[t] = None \/ t \in spared
=============================================================================
