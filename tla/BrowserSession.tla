--------------------------- MODULE BrowserSession ---------------------------
(***************************************************************************)
(* IntegratedBrowserClient (server/trackers/core/transport/browser.ts): a  *)
(* client runs its operations one after another in a Chrome that it starts *)
(* when one needs it, restarts when it is too old or was closed under an   *)
(* operation, and closes when no operation came for a while.               *)
(*                                                                         *)
(* Clients made for the same session id share a Chrome profile, and Chrome *)
(* refuses a profile that another one has open.  All clients modelled here *)
(* share one; what a page shows and who waits for it is left to the module *)
(* that uses the clients (KinozalSession).                                 *)
(***************************************************************************)
EXTENDS Naturals, Sequences

CONSTANTS Clients, Callers, None

\* form: submitForm, the rest of get; close: close, and the idle timer's.
Kinds == {"landing", "form", "page", "close"}
Operations == [who : Callers \cup {None}, kind : Kinds]

VARIABLE browser

\* queue: the operations pending, the running one first; chrome: the process
\* (the context is set while it is up or dead); old: it has outlived the
\* session's lifetime; again: the running operation was repeated.
Browsers == [queue : Seq(Operations), at : {"rest", "launch", "load", "close"},
             chrome : {"none", "up", "dead", "closing"},
             old : BOOLEAN, again : BOOLEAN, timer : BOOLEAN]

Unused == [queue |-> <<>>, at |-> "rest", chrome |-> "none",
           old |-> FALSE, again |-> FALSE, timer |-> FALSE]

Context(b) == b.chrome \in {"up", "dead"}
Running(c) == Head(browser[c].queue)
Step(c, b) == browser' = [browser EXCEPT ![c] = b]

\* serialized: an operation that comes cancels the idle timer, the last one
\* to end starts it, if a context is left.
Enqueued(b, op) == [b EXCEPT !.queue = Append(@, op), !.timer = FALSE]

Ended_NoTimer(b) == [b EXCEPT !.queue = Tail(@), !.at = "rest", !.again = FALSE]
Ended(b) == [b EXCEPT !.queue = Tail(@), !.at = "rest", !.again = FALSE,
                      !.timer = Len(b.queue) = 1 /\ Context(b)]

\* resetContext.
Reset(b) == [b EXCEPT !.chrome = IF Context(b) THEN "closing" ELSE @, !.old = FALSE]

\* ensureContext: a context that is not too old is used as it is.
Begin(c) ==
  LET b == browser[c]
  IN /\ b.at = "rest" /\ b.queue # <<>>
     /\ Step(c, IF Running(c).kind = "close" THEN [Reset(b) EXCEPT !.at = "close"]
                ELSE IF Context(b) /\ ~b.old THEN [b EXCEPT !.at = "load"]
                ELSE [Reset(b) EXCEPT !.at = "launch"])

\* context.close has ended: the profile is free.
ChromeEnds(c) ==
  /\ browser[c].chrome = "closing"
  /\ Step(c, [browser[c] EXCEPT !.chrome = "none"])

\* removeStaleProfileSingletons, and Chrome itself: one at a time on a profile.
ProfileFree == \A d \in Clients : browser[d].chrome \in {"none", "dead"}

CanLaunch(c) == browser[c].at = "launch" /\ browser[c].chrome = "none"

Launch(c) ==
  /\ CanLaunch(c) /\ ProfileFree
  /\ Step(c, [browser[c] EXCEPT !.chrome = "up", !.at = "load"])

\* withContextRetry: the browser was closed under the operation.
Repeat(c) ==
  /\ browser[c].at = "load" /\ browser[c].chrome = "dead" /\ ~browser[c].again
  /\ Step(c, [Reset(browser[c]) EXCEPT !.at = "launch", !.again = TRUE])

BrokenAgain(c) == browser[c].at = "load" /\ browser[c].chrome = "dead" /\ browser[c].again

IdleFires(c) ==
  /\ browser[c].timer
  /\ Step(c, Enqueued(browser[c], [who |-> None, kind |-> "close"]))

\* The end of a close nobody waits for.
IdleClosed(c) ==
  /\ browser[c].at = "close" /\ browser[c].chrome = "none" /\ Running(c).who = None
  /\ Step(c, Ended(browser[c]))

\* Environment: Chrome outlives the session's lifetime, or crashes.
Ages(c) ==
  /\ browser[c].chrome = "up" /\ ~browser[c].old
  /\ Step(c, [browser[c] EXCEPT !.old = TRUE])

Dies(c) ==
  /\ browser[c].chrome = "up"
  /\ Step(c, [browser[c] EXCEPT !.chrome = "dead"])

Proceeds(c) == Begin(c) \/ ChromeEnds(c) \/ Launch(c) \/ Repeat(c) \/ IdleClosed(c)
=============================================================================
