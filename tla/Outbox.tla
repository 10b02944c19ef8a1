------------------------------- MODULE Outbox -------------------------------
(***************************************************************************)
(* What the notification outbox promises to the code that records a        *)
(* release: an entry that was handed over stays owed until Telegram has    *)
(* shown at least one copy of it to the user, or until the user gives it   *)
(* up by deleting the subscription or its collection.  Nothing is said of  *)
(* leases, retries, passes or processes: NotificationQueue implements this *)
(* specification (see OutboxPromise there).                                *)
(***************************************************************************)
EXTENDS Naturals

CONSTANTS Notes   \* the notifications that may ever be handed over

VARIABLES
  debt,    \* debt[n]: "none", "owed", "settled" or "cancelled"
  shown    \* shown[n]: whether Telegram has shown a copy of n to the user

vars == <<debt, shown>>

Init ==
  /\ debt = [n \in Notes |-> "none"]
  /\ shown = [n \in Notes |-> FALSE]

Owe(n) ==
  /\ debt[n] = "none"
  /\ debt' = [debt EXCEPT ![n] = "owed"]
  /\ UNCHANGED shown

\* A copy reaches the user.  A call that was on its way when the user gave
\* the notification up, or when another copy settled it, still arrives.
Show(n) ==
  /\ debt[n] # "none"
  /\ shown' = [shown EXCEPT ![n] = TRUE]
  /\ UNCHANGED debt

Settle(n) ==
  /\ debt[n] = "owed"
  /\ shown[n]
  /\ debt' = [debt EXCEPT ![n] = "settled"]
  /\ UNCHANGED shown

Cancel(S) ==
  /\ \A n \in S : debt[n] \in {"owed", "settled"}
  /\ debt' = [n \in Notes |-> IF n \in S THEN "cancelled" ELSE debt[n]]
  /\ UNCHANGED shown

Next ==
  \/ \E n \in Notes : Owe(n) \/ Show(n) \/ Settle(n)
  \/ \E S \in SUBSET Notes : Cancel(S)

Spec == Init /\ [][Next]_vars
=============================================================================
