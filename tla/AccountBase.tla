----------------------------- MODULE AccountBase -----------------------------
(***************************************************************************)
(* What StartUp, Accounts and AttemptLimiter share: the people who sign    *)
(* in, what they sign in with, and how many requests are served at a time. *)
(***************************************************************************)
CONSTANTS
  Users,       \* accounts, or names that are no account's
  Passwords,
  Slots,       \* requests that are served at a time
  None         \* no row, no file, no value
=============================================================================
