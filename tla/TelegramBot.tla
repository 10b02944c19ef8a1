---------------------------- MODULE TelegramBot ----------------------------
(***************************************************************************)
(* A user's Telegram bot (server/telegram.ts): the calls that configure,   *)
(* replace and remove it, and the worker that reads its messages and links *)
(* the user's account when one brings a valid code.                        *)
(*                                                                         *)
(* Calls and worker give way at awaits only: getMe, the end of a worker, a *)
(* getUpdates request, the answer to a message.  Callers that await the    *)
(* end of a worker resume in their order before anything else (Settled).   *)
(* Telegram numbers the messages of a bot, and forgets those before the    *)
(* offset it is asked for.  Every message here is a "/start" with a code.  *)
(***************************************************************************)
EXTENDS Integers, FiniteSets, Sequences

CONSTANTS
  Tokens,       \* bots
  None,
  MaxCalls,     \* bound: calls of configureBot and removeBot
  MaxCodes,     \* bound: link codes
  MaxMessages,  \* bound: messages to a bot
  MaxStarts     \* bound: starts of the process

Numbers == 1..MaxMessages
Offsets == 0..(MaxMessages + 1)
Bots == [token : Tokens, offset : Offsets]

ASSUME BotAssumption ==
  /\ None \notin Tokens \cup Int \cup Bots
  /\ MaxCalls \in Nat /\ MaxCodes \in Nat /\ MaxMessages \in Nat /\ MaxStarts \in Nat

VARIABLES
  bot,        \* the row of telegram_bots, or None
  account,    \* the row of telegram_accounts: the bot that linked it, or None
  code,       \* the valid row of telegram_link_codes, or None
  codes,      \* how many codes there were
  started,    \* TelegramService.started
  up,         \* the process runs
  worker,     \* the entry of workers, or None: the loop's number
  loops,      \* the poll loops that have not ended
  asking,     \* how many calls wait for a bot's name (getMe)
  calls,      \* those that wait for the worker to end, in their order
  due,        \* those whose worker has ended
  messages,   \* Telegram: the codes sent to a bot
  forgotten,  \* Telegram: up to which message it has forgotten
  handled,    \* history: how often a message was handled
  overlapped, \* history: two calls at a time
  late,       \* history: a worker stored its offset with another bot
  repeats,    \* history: handled messages whose offset a worker did not know
  made, starts

rows == <<bot, account, code, codes>>
process == <<started, up, worker, loops, asking, calls, due>>
telegram == <<messages, forgotten>>
history == <<handled, overlapped, late, repeats>>
vars == <<rows, process, telegram, history, made, starts>>

\* at: the await, or "next" at the top of the loop; todo: the rest of the
\* batch; offset: the next message to ask for.
Loops == [id : 0..1, token : Tokens, offset : Offsets, aborted : BOOLEAN,
          at : {"poll", "reply", "delay"}, todo : Seq(Numbers)]

\* offset: what the worker will be started with.
Calls == [kind : {"configure"}, token : Tokens, offset : Offsets]
           \cup [kind : {"remove", "stop"}]

Counts == [Tokens -> [Numbers -> 0..2]]

TypeOK ==
  /\ bot \in Bots \cup {None}
  /\ account \in Tokens \cup {None}
  /\ codes \in 0..MaxCodes /\ code \in 1..codes \cup {None}
  /\ bot = None => account = None /\ code = None
  /\ started \in BOOLEAN /\ up \in BOOLEAN
  /\ loops \subseteq Loops /\ worker \in {l.id : l \in loops} \cup {None}
  /\ asking \in [Tokens -> Nat] /\ calls \in Seq(Calls) /\ due \in Seq(Calls)
  /\ messages \in [Tokens -> Seq(1..MaxCodes)]
  /\ \A t \in Tokens : Len(messages[t]) <= MaxMessages
  /\ forgotten \in [Tokens -> 0..MaxMessages]
  /\ handled \in Counts
  /\ overlapped \in BOOLEAN /\ late \in BOOLEAN
  /\ repeats \in BOOLEAN
  /\ made \in 0..MaxCalls /\ starts \in 0..MaxStarts

Init ==
  /\ bot = None /\ account = None /\ code = None /\ codes = 0
  /\ started = FALSE /\ up = FALSE /\ worker = None /\ loops = {}
  /\ asking = [t \in Tokens |-> 0] /\ calls = <<>> /\ due = <<>>
  /\ messages = [t \in Tokens |-> <<>>] /\ forgotten = [t \in Tokens |-> 0]
  /\ handled = [t \in Tokens |-> [n \in Numbers |-> 0]]
  /\ overlapped = FALSE /\ late = FALSE /\ repeats = FALSE
  /\ made = 0 /\ starts = 0

Settled == due = <<>>
-----------------------------------------------------------------------------
(* Workers. *)

Loop(id) == CHOOSE l \in loops : l.id = id
Update(l, new) == loops' = (loops \ {l}) \cup {new}

Larger(a, b) == IF a > b THEN a ELSE b

\* A request for updates from an offset on.
Asked(token, offset) ==
  forgotten' = [forgotten EXCEPT ![token] = Larger(@, offset - 1)]

NewLoop(token, offset) ==
  LET id == CHOOSE n \in 0..1 : \A l \in loops : l.id # n
  IN  /\ loops' = loops \cup {[id |-> id, token |-> token, offset |-> offset,
                               aborted |-> FALSE, at |-> "poll", todo |-> <<>>]}
      /\ worker' = id
      /\ Asked(token, offset)
      /\ repeats' = (repeats \/ \E n \in Numbers :
                                  /\ n >= offset /\ n > forgotten[token]
                                  /\ handled[token][n] > 0)

\* startWorker.
StartWorker(token, offset) ==
  IF ~started \/ worker # None THEN UNCHANGED <<worker, loops, forgotten, repeats>>
  ELSE NewLoop(token, offset)

Abort == loops' = {IF l.id = worker THEN [l EXCEPT !.aborted = TRUE] ELSE l : l \in loops}

\* The loop is over: its entry is removed and those who wait for it resume.
LoopEnds(l) ==
  /\ loops' = loops \ {l}
  /\ worker' = IF worker = l.id THEN None ELSE worker
  /\ due' = due \o calls /\ calls' = <<>>
  /\ UNCHANGED forgotten

\* The top of the loop.
Continue(l) ==
  IF l.aborted THEN LoopEnds(l)
  ELSE /\ Update(l, [l EXCEPT !.at = "poll", !.todo = <<>>])
       /\ Asked(l.token, l.offset)
       /\ UNCHANGED <<worker, calls, due>>

\* handleUpdate up to its answer: a valid code links the account and is used up.
HandleUpdate(token, n) ==
  /\ IF code # None /\ messages[token][n] = code
     THEN account' = token /\ code' = None
     ELSE UNCHANGED <<account, code>>
  /\ handled' = [handled EXCEPT ![token][n] = IF @ = 2 THEN 2 ELSE @ + 1]

\* Mutant: the offset moves on after the answer.
Take_After(l, todo) ==
  /\ HandleUpdate(l.token, Head(todo))
  /\ Update(l, [l EXCEPT !.at = "reply", !.todo = Tail(todo),
                         !.offset = IF Tail(todo) = <<>> THEN Head(todo) ELSE @])

\* The next message of a batch; the offset moves on before it is handled.
Take(l, todo) ==
  /\ HandleUpdate(l.token, Head(todo))
  /\ Update(l, [l EXCEPT !.at = "reply", !.todo = Tail(todo),
                         !.offset = Larger(@, Head(todo) + 1)])

\* Mutant: the offset of a batch is stored when it arrives.
UpdatesArrive_Stored(l) ==
  /\ l.at = "poll" /\ ~l.aborted
  /\ LET batch == [i \in 1..(Len(messages[l.token]) - forgotten[l.token]) |->
                     forgotten[l.token] + i]
     IN  /\ batch # <<>>
         /\ bot' = IF bot = None THEN None
                   ELSE [bot EXCEPT !.offset = Len(messages[l.token]) + 1]
         /\ Take(l, batch)
  /\ UNCHANGED <<codes, started, up, worker, asking, calls, due, telegram, overlapped, late,
                 repeats, made, starts>>

\* An answer with messages; one without asks again.
UpdatesArrive(l) ==
  /\ l.at = "poll" /\ ~l.aborted
  /\ LET batch == [i \in 1..(Len(messages[l.token]) - forgotten[l.token]) |->
                     forgotten[l.token] + i]
     IN  batch # <<>> /\ Take(l, batch)
  /\ UNCHANGED <<bot, codes, started, up, worker, asking, calls, due, telegram, overlapped,
                 late, repeats, made, starts>>

\* Mutant: an error ends the loop.
PollFails_Ends(l) ==
  /\ l.at = "poll"
  /\ LoopEnds(l)
  /\ UNCHANGED <<rows, started, up, asking, messages, history, made, starts>>

\* The request fails, or was aborted.
PollFails(l) ==
  /\ l.at = "poll"
  /\ IF l.aborted THEN LoopEnds(l)
     ELSE Update(l, [l EXCEPT !.at = "delay"]) /\ UNCHANGED <<worker, calls, due, forgotten>>
  /\ UNCHANGED <<rows, started, up, asking, messages, history, made, starts>>

\* The answer is sent: the next message, or the end of the batch, whose offset
\* is stored with the bot there is.
Replied(l) ==
  /\ l.at = "reply"
  /\ IF l.todo # <<>>
     THEN Take(l, l.todo) /\ UNCHANGED <<bot, worker, calls, due, forgotten, late>>
     ELSE /\ bot' = IF bot = None THEN None ELSE [bot EXCEPT !.offset = l.offset]
          /\ late' = (late \/ (bot # None /\ bot.token # l.token))
          /\ Continue(l)
          /\ UNCHANGED <<account, code, handled>>
  /\ UNCHANGED <<codes, started, up, asking, messages, overlapped, repeats, made, starts>>

\* The answer cannot be sent: the rest of the batch is asked for again.
ReplyFails(l) ==
  /\ l.at = "reply"
  /\ IF l.aborted THEN LoopEnds(l)
     ELSE Update(l, [l EXCEPT !.at = "delay", !.todo = <<>>])
          /\ UNCHANGED <<worker, calls, due, forgotten>>
  /\ UNCHANGED <<rows, started, up, asking, messages, history, made, starts>>

DelayOver(l) ==
  /\ l.at = "delay"
  /\ Continue(l)
  /\ UNCHANGED <<rows, started, up, asking, messages, history, made, starts>>
-----------------------------------------------------------------------------
(* Calls. *)

Asking == \E t \in Tokens : asking[t] > 0

\* A request that makes a call.
Call ==
  /\ Settled /\ up /\ made < MaxCalls
  /\ made' = made + 1
  /\ overlapped' = (overlapped \/ Asking \/ calls # <<>>)

\* PUT /api/telegram/bot: configureBot asks Telegram for the bot's name.
Configure(token) ==
  /\ Call
  /\ asking' = [asking EXCEPT ![token] = @ + 1]
  /\ UNCHANGED <<rows, started, up, worker, loops, calls, due, telegram, handled, late,
                 repeats, starts>>

Answered(token) ==
  /\ Settled /\ up /\ asking[token] > 0
  /\ asking' = [asking EXCEPT ![token] = @ - 1]

GetMeFails(token) ==
  /\ Answered(token)
  /\ UNCHANGED <<rows, started, up, worker, loops, calls, due, telegram, history, made, starts>>

\* Mutant: the account stays linked when the bot is replaced.
StoreBot_Linked(token) ==
  /\ bot' = [token |-> token,
             offset |-> IF bot # None /\ bot.token = token THEN bot.offset ELSE 0]
  /\ UNCHANGED <<account, code, codes>>

\* The transaction of configureBot: another bot's account and code go.
StoreBot(token) ==
  LET changed == bot = None \/ bot.token # token
  IN  /\ bot' = [token |-> token, offset |-> IF changed THEN 0 ELSE bot.offset]
      /\ account' = IF changed THEN None ELSE account
      /\ code' = IF changed THEN None ELSE code
      /\ UNCHANGED codes

\* Mutant: the worker is told to stop and not waited for.
AwaitWorker_Not(c) ==
  /\ Abort
  /\ UNCHANGED <<worker, calls>>

\* stopWorker: the call waits for the worker's end.
AwaitWorker(c) ==
  /\ Abort
  /\ calls' = Append(calls, c)
  /\ UNCHANGED worker

GetMeAnswers(token) ==
  /\ Answered(token)
  /\ StoreBot(token)
  /\ IF ~started
     THEN UNCHANGED <<worker, loops, calls, forgotten, repeats>>
     ELSE IF worker = None
     THEN StartWorker(token, bot'.offset) /\ UNCHANGED calls
     ELSE /\ AwaitWorker([kind |-> "configure", token |-> token, offset |-> bot'.offset])
          /\ UNCHANGED <<forgotten, repeats>>
  /\ UNCHANGED <<started, up, due, messages, handled, overlapped, late, made, starts>>

DeleteBot == bot' = None /\ account' = None /\ code' = None /\ UNCHANGED codes

\* DELETE /api/telegram/bot.
Remove ==
  /\ Call
  /\ IF worker = None
     THEN DeleteBot /\ UNCHANGED <<worker, calls, loops>>
     ELSE AwaitWorker([kind |-> "remove"]) /\ UNCHANGED rows
  /\ UNCHANGED <<started, up, asking, due, telegram, handled, late, repeats, starts>>

\* The service has stopped; the database is closed.
Down == up' = FALSE /\ calls' = <<>> /\ asking' = [t \in Tokens |-> 0]

\* The worker has ended.
Resume ==
  /\ due # <<>>
  /\ due' = Tail(due)
  /\ LET c == Head(due)
     IN  CASE c.kind = "configure" ->
                StartWorker(c.token, c.offset) /\ UNCHANGED <<rows, up, asking, calls>>
           [] c.kind = "remove" ->
                DeleteBot /\ UNCHANGED <<worker, loops, forgotten, repeats, up, asking, calls>>
           [] c.kind = "stop" ->
                Down /\ UNCHANGED <<rows, worker, loops, forgotten, repeats>>
  /\ UNCHANGED <<started, messages, handled, overlapped, late, made, starts>>

\* createLink.
CreateLink ==
  /\ Settled /\ up /\ bot # None /\ codes < MaxCodes
  /\ codes' = codes + 1 /\ code' = codes'
  /\ UNCHANGED <<bot, account, process, telegram, history, made, starts>>

\* unlink, or the code expires.
Unlink ==
  /\ Settled /\ up
  /\ account' = None /\ code' = None
  /\ UNCHANGED <<bot, codes, process, telegram, history, made, starts>>

CodeExpires ==
  /\ Settled /\ code # None
  /\ code' = None
  /\ UNCHANGED <<bot, account, codes, process, telegram, history, made, starts>>

\* A Telegram user sends a code to a bot.
Send(token, n) ==
  /\ Settled
  /\ n \in 1..codes /\ Len(messages[token]) < MaxMessages
  /\ messages' = [messages EXCEPT ![token] = Append(@, n)]
  /\ UNCHANGED <<rows, process, forgotten, history, made, starts>>
-----------------------------------------------------------------------------
(* The process. *)

\* start(), in a new process.
Start ==
  /\ Settled /\ ~up /\ starts < MaxStarts
  /\ starts' = starts + 1
  /\ up' = TRUE /\ started' = TRUE
  /\ IF bot = None THEN UNCHANGED <<worker, loops, forgotten, repeats>>
     ELSE NewLoop(bot.token, bot.offset)
  /\ UNCHANGED <<rows, asking, calls, due, messages, handled, overlapped, late, made>>

\* stop(): the workers there are end.
Stop ==
  /\ Settled /\ up /\ started
  /\ started' = FALSE
  /\ IF worker = None THEN Down /\ UNCHANGED <<worker, loops>>
     ELSE AwaitWorker([kind |-> "stop"]) /\ UNCHANGED <<up, asking>>
  /\ UNCHANGED <<rows, due, telegram, history, made, starts>>

Crash ==
  /\ up
  /\ Down
  /\ started' = FALSE /\ worker' = None /\ loops' = {} /\ due' = <<>>
  /\ UNCHANGED <<rows, telegram, history, made, starts>>
-----------------------------------------------------------------------------
Arrivals == Settled /\ \E l \in loops : UpdatesArrive(l)
Replies == Settled /\ \E l \in loops : Replied(l) \/ ReplyFails(l)
Aborts == Settled /\ \E l \in loops : l.aborted /\ PollFails(l)
Failures == Settled /\ \E l \in loops : ~l.aborted /\ PollFails(l)
Delays == Settled /\ \E l \in loops : DelayOver(l)
Named == \E t \in Tokens : GetMeAnswers(t) \/ GetMeFails(t)

Next ==
  \/ Start \/ Stop \/ Crash
  \/ \E t \in Tokens : Configure(t)
  \/ Named \/ Remove \/ Resume
  \/ CreateLink \/ Unlink \/ CodeExpires
  \/ \E t \in Tokens, n \in 1..MaxCodes : Send(t, n)
  \/ Arrivals \/ Replies \/ Aborts \/ Failures \/ Delays

Spec == Init /\ [][Next]_vars

(***************************************************************************)
(* Requests are answered, fail or time out, and promises are resumed.  A   *)
(* worker that asks again and again is answered in the end.                *)
(***************************************************************************)
Fairness ==
  /\ WF_vars(Named) /\ WF_vars(Resume)
  /\ WF_vars(Replies) /\ WF_vars(Aborts) /\ WF_vars(Delays)
  /\ SF_vars(Arrivals)

FairSpec == Spec /\ Fairness
-----------------------------------------------------------------------------
(* Properties.  Two calls at a time for one user are told apart: the code  *)
(* does not order them, and the worker of one may be left running with the *)
(* row of the other.                                                       *)

(***************************************************************************)
(* One loop at a time reads a user's messages, also when calls overlap.    *)
(* After start(), and between calls, it reads the messages of the bot that *)
(* is configured, and there is one exactly when there is a bot.            *)
(***************************************************************************)
OnePoller ==
  /\ Cardinality(loops) <= 1
  /\ started /\ up /\ Settled /\ ~Asking /\ calls = <<>> /\ ~overlapped =>
       IF bot = None THEN worker = None
       ELSE worker # None /\ Loop(worker).token = bot.token /\ ~Loop(worker).aborted

(***************************************************************************)
(* The account was linked by the bot it is sent to, however the bot was    *)
(* replaced while messages of the old one were being handled.              *)
(***************************************************************************)
LinkedByBot == account # None /\ ~overlapped => bot # None /\ account = bot.token

(***************************************************************************)
(* No message is skipped: what Telegram has forgotten was handled, across  *)
(* failures, crashes and bots that come and go, unless the worker of a     *)
(* replaced bot stored its offset with the new one.                        *)
(***************************************************************************)
NothingSkipped ==
  \A t \in Tokens : \A n \in 1..Len(messages[t]) :
    n <= forgotten[t] => handled[t][n] > 0 \/ late

(***************************************************************************)
(* A message is handled again only if a worker was started with an offset  *)
(* before it: a crash came before the offset was stored, or the bot was    *)
(* configured again in between.                                            *)
(***************************************************************************)
RepeatsExplained ==
  (\E t \in Tokens, n \in Numbers : handled[t][n] > 1) => repeats

(***************************************************************************)
(* What is sent to the configured bot is read in the end.                  *)
(***************************************************************************)
Owed(t, n) ==
  /\ started /\ ~overlapped /\ ~late
  /\ bot # None /\ bot.token = t
  /\ n <= Len(messages[t]) /\ handled[t][n] = 0

MessagesRead == \A t \in Tokens, n \in Numbers : Owed(t, n) ~> ~Owed(t, n)
=============================================================================
