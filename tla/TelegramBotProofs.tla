------------------------- MODULE TelegramBotProofs -------------------------
(***************************************************************************)
(* Theorems about TelegramBot, for any number of bots, calls, codes and    *)
(* messages: one worker reads a user's messages, the account is linked by  *)
(* the bot it belongs to, and messages are neither skipped nor repeated    *)
(* without a reason.                                                       *)
(*                                                                         *)
(* The invariant says where the worker is with regard to the calls (Shape),*)
(* what a single call may rely on (Single, Matched), which codes a worker  *)
(* can still find in its batch (Linked), and what its offset says of the   *)
(* messages before it (InOrder, Kept, Once).                               *)
(***************************************************************************)
EXTENDS TelegramBot, FiniteSetTheorems, TLAPS

(***************************************************************************)
(* A loop that has not ended is the worker's; it was aborted exactly when  *)
(* a call waits for its end.  A process that is down has neither.          *)
(***************************************************************************)
Shape ==
  /\ \/ worker = None /\ loops = {}
     \/ \E l \in loops : loops = {l} /\ worker = l.id
  /\ started => up
  /\ ~up => loops = {} /\ calls = <<>> /\ ~Asking
  /\ \A l \in loops : (l.aborted <=> calls # <<>>) /\ (l.aborted \/ started)
  /\ loops = {} => calls = <<>>
  /\ \A i \in 1..Len(calls) : calls[i].kind = "stop" => ~started
  /\ \A i \in 1..Len(due) : due[i].kind = "stop" => ~started
  /\ due # <<>> /\ ~started => loops = {}

(***************************************************************************)
(* Calls that do not overlap are one call: it waits for a name, for the    *)
(* worker, or is about to resume.                                          *)
(***************************************************************************)
Single ==
  started /\ ~overlapped =>
    /\ \A t, u \in Tokens : asking[t] > 0 /\ asking[u] > 0 => t = u /\ asking[t] = 1
    /\ Asking => calls = <<>> /\ due = <<>>
    /\ Len(calls) + Len(due) <= 1

(***************************************************************************)
(* Without a call, the worker is the bot's; the call that replaces a bot   *)
(* will start the worker of the row there is.                              *)
(***************************************************************************)
Matched ==
  started /\ ~overlapped =>
    /\ calls = <<>> /\ due = <<>> =>
         /\ bot = None => loops = {}
         /\ bot # None => \E l \in loops : l.token = bot.token
    /\ \A i \in 1..Len(calls) :
         calls[i].kind = "configure" => bot # None /\ bot.token = calls[i].token
    /\ \A i \in 1..Len(due) :
         due[i].kind = "configure" => bot # None /\ bot.token = due[i].token
    /\ due # <<>> => loops = {}

(***************************************************************************)
(* The worker of a replaced bot may still have messages to handle; the     *)
(* code there is now is in none of them.                                   *)
(***************************************************************************)
Linked ==
  ~overlapped =>
    /\ account # None => account = bot.token
    /\ \A l \in loops :
         \/ code = None
         \/ bot.token = l.token
         \/ \A i \in 1..Len(l.todo) : messages[l.token][l.todo[i]] # code

CodesKnown ==
  \A t \in Tokens : \A i \in 1..Len(messages[t]) : messages[t][i] \in 1..codes

(***************************************************************************)
(* The rest of a batch is the messages from the worker's offset on, which  *)
(* Telegram has not forgotten; a worker that asks has told Telegram all    *)
(* that is before its offset.                                              *)
(***************************************************************************)
InOrder ==
  \A l \in loops :
    /\ l.at # "reply" => l.todo = <<>>
    /\ l.at = "reply" =>
         /\ forgotten[l.token] < l.offset
         /\ l.todo = <<>> \/ (l.offset + Len(l.todo) <= Len(messages[l.token]) + 1)
         /\ \A i \in 1..Len(l.todo) : l.todo[i] = l.offset + i - 1
    /\ l.at = "poll" => l.offset <= forgotten[l.token] + 1

\* All messages before an offset were handled.
Done(t, o) == \A n \in Numbers : n < o => handled[t][n] > 0

(***************************************************************************)
(* So it is for every offset there is: the row's, the worker's, the one a  *)
(* call will start a worker with, and Telegram's.                          *)
(***************************************************************************)
Kept ==
  ~late =>
    /\ bot # None => Done(bot.token, bot.offset)
    /\ \A l \in loops : Done(l.token, l.offset)
    /\ \A i \in 1..Len(calls) :
         calls[i].kind = "configure" => Done(calls[i].token, calls[i].offset)
    /\ \A i \in 1..Len(due) : due[i].kind = "configure" => Done(due[i].token, due[i].offset)
    /\ \A t \in Tokens : Done(t, forgotten[t] + 1)

(***************************************************************************)
(* Unless a worker was started before a handled message, the messages that *)
(* are left to the worker have not been handled.                           *)
(***************************************************************************)
Once ==
  ~repeats =>
    /\ \A t \in Tokens, n \in Numbers : handled[t][n] <= 1
    /\ \A l \in loops : \A n \in Numbers :
         handled[l.token][n] > 0 => n < l.offset \/ n <= forgotten[l.token]

IInv == TypeOK /\ Shape /\ Single /\ Matched /\ Linked /\ CodesKnown /\ InOrder /\ Kept /\ Once
-----------------------------------------------------------------------------
(* What the steps of a worker do. *)

\* A loop that has not ended is the only one, and the worker's.
LEMMA TheLoop ==
  ASSUME TypeOK, Shape, NEW l \in loops
  PROVE  loops = {l} /\ worker = l.id /\ l \in Loops
BY DEF TypeOK, Shape

\* Without a worker there is no loop.
LEMMA NoLoop ==
  ASSUME TypeOK, Shape, worker = None
  PROVE  loops = {}
<1>1. \A l \in loops : l.id \in 0..1
  BY DEF TypeOK, Loops
<1>2. \A l \in loops : l.id # None
  BY <1>1, BotAssumption
<1> QED BY <1>2 DEF Shape

\* startWorker leaves one loop, which has asked for the messages from its offset on.
LEMMA NewLoopIs ==
  ASSUME TypeOK, Shape, worker = None,
         NEW token \in Tokens, NEW offset \in Offsets, NewLoop(token, offset)
  PROVE  /\ \E l \in Loops :
               /\ loops' = {l} /\ worker' = l.id /\ l.token = token /\ l.offset = offset
               /\ ~l.aborted /\ l.at = "poll" /\ l.todo = <<>>
         /\ forgotten' = [forgotten EXCEPT ![token] = Larger(@, offset - 1)]
         /\ repeats \in BOOLEAN /\ repeats' \in BOOLEAN
         /\ ~repeats' => /\ ~repeats
                         /\ \A n \in Numbers : n >= offset /\ n > forgotten[token] =>
                              ~(handled[token][n] > 0)
<1>1. loops = {}
  BY NoLoop
<1> DEFINE id == CHOOSE n \in 0..1 : \A l \in loops : l.id # n
           new == [id |-> id, token |-> token, offset |-> offset,
                   aborted |-> FALSE, at |-> "poll", todo |-> <<>>]
<1>2. id \in 0..1
  <2>1. 0 \in 0..1 /\ \A l \in loops : l.id # 0
    BY <1>1
  <2> QED BY <2>1
<1>3. loops' = {new} /\ worker' = id
  BY <1>1 DEF NewLoop
<1> HIDE DEF id
<1>4. <<>> \in Seq(Numbers)
  OBVIOUS
<1>5. new \in Loops
  BY <1>2, <1>4 DEF Loops
<1>6. new.id = id /\ new.token = token /\ new.offset = offset /\ ~new.aborted
      /\ new.at = "poll" /\ new.todo = <<>>
  OBVIOUS
<1>7. repeats \in BOOLEAN
  BY DEF TypeOK
<1> HIDE DEF new
<1> QED BY <1>3, <1>5, <1>6, <1>7 DEF NewLoop, Asked

\* What Telegram has forgotten after a request.
LEMMA AskedIs ==
  ASSUME TypeOK, NEW token \in Tokens, NEW offset \in Offsets,
         forgotten' = [forgotten EXCEPT ![token] = Larger(@, offset - 1)]
  PROVE  /\ forgotten' \in [Tokens -> 0..MaxMessages]
         /\ \A t \in Tokens : forgotten[t] <= forgotten'[t]
         /\ offset <= forgotten'[token] + 1
         /\ \A t \in Tokens : \/ forgotten'[t] = forgotten[t]
                             \/ (t = token /\ forgotten'[t] + 1 = offset)
<1>1. forgotten \in [Tokens -> 0..MaxMessages] /\ forgotten[token] \in 0..MaxMessages
  BY DEF TypeOK
<1>2. MaxMessages \in Nat /\ offset \in 0..(MaxMessages + 1)
  BY Zenon, BotAssumption DEF Offsets
<1> DEFINE new == Larger(forgotten[token], offset - 1)
<1>3. /\ new \in 0..MaxMessages /\ forgotten[token] <= new /\ offset <= new + 1
      /\ new = forgotten[token] \/ new + 1 = offset
  BY <1>1, <1>2 DEF Larger
<1> HIDE DEF new
<1>4. forgotten' = [forgotten EXCEPT ![token] = new]
  BY DEF new
<1> QED BY <1>1, <1>2, <1>3, <1>4

\* stopWorker tells the loop there is to end.
LEMMA AbortIs ==
  ASSUME TypeOK, Shape, worker # None, Abort
  PROVE  \E l \in loops : /\ loops = {l} /\ worker = l.id /\ l \in Loops
                          /\ loops' = {[l EXCEPT !.aborted = TRUE]}
<1>1. PICK l \in loops : loops = {l} /\ worker = l.id
  BY DEF Shape
<1>2. l \in Loops
  BY TheLoop
<1>3. loops' = {[l EXCEPT !.aborted = TRUE]}
  BY <1>1 DEF Abort
<1> QED BY <1>1, <1>2, <1>3

\* The end of a loop leaves none, and those who wait for it resume.
LEMMA EndsIs ==
  ASSUME TypeOK, Shape, Settled, NEW l \in loops, LoopEnds(l)
  PROVE  /\ loops' = {} /\ worker' = None /\ due' = calls /\ calls' = <<>>
         /\ forgotten' = forgotten
<1>1. loops = {l} /\ worker = l.id
  BY TheLoop
<1>2. due = <<>> /\ calls \in Seq(Calls)
  BY DEF Settled, TypeOK
<1>3. <<>> \o calls = calls
  BY <1>2
<1> QED BY <1>1, <1>2, <1>3 DEF LoopEnds

LEMMA UpdateIs ==
  ASSUME TypeOK, Shape, NEW l \in loops, NEW new, Update(l, new)
  PROVE  loops' = {new}
BY TheLoop DEF Update

-----------------------------------------------------------------------------
(* What the steps of a worker keep. *)

\* The row of the bot is as it was, or has the offset of the worker; if it is
\* another bot's row, the worker was late.
RowKept(l) ==
  /\ bot' \in Bots \cup {None} /\ (bot' = None <=> bot = None)
  /\ bot # None => bot'.token = bot.token
  /\ late' \in BOOLEAN /\ (late => late')
  /\ bot # None => \/ late'
                   \/ bot'.offset = bot.offset
                   \/ (bot.token = l.token /\ bot'.offset = l.offset)

LEMMA RowStays ==
  ASSUME TypeOK, NEW l \in loops, UNCHANGED <<bot, late>>
  PROVE  RowKept(l)
BY DEF TypeOK, RowKept

LEMMA RowStored ==
  ASSUME TypeOK, NEW l \in loops,
         bot' = IF bot = None THEN None ELSE [bot EXCEPT !.offset = l.offset],
         late' = (late \/ (bot # None /\ bot.token # l.token))
  PROVE  RowKept(l)
<1>1. l \in Loops
  BY DEF TypeOK
<1>2. late \in BOOLEAN /\ late' \in BOOLEAN
  BY DEF TypeOK
<1>3. CASE bot = None
  BY <1>2, <1>3 DEF RowKept
<1>4. CASE bot # None
  <2>1. bot \in Bots
    BY <1>4 DEF TypeOK
  <2>2. bot' \in Bots /\ bot'.token = bot.token /\ bot'.offset = l.offset
    BY <1>1, <1>4, <2>1 DEF Bots, Loops
  <2>3. bot' # None
    BY <2>2, BotAssumption
  <2> QED BY <1>2, <1>4, <2>2, <2>3 DEF RowKept
<1> QED BY <1>3, <1>4

\* The end of a loop keeps the invariant.
LEMMA EndsKeep ==
  ASSUME IInv, Settled, NEW l \in loops, l.aborted, LoopEnds(l), RowKept(l),
         UNCHANGED <<account, code, codes, started, up, asking, messages, handled,
                     overlapped, repeats, made, starts>>
  PROVE  IInv'
<1>1. /\ loops' = {} /\ worker' = None /\ due' = calls /\ calls' = <<>>
      /\ forgotten' = forgotten
  BY EndsIs DEF IInv
<1>2. due = <<>>
  BY DEF Settled
<1>3. calls \in Seq(Calls)
  BY DEF IInv, TypeOK
<1>4. TypeOK'
  BY <1>1, <1>3 DEF IInv, TypeOK, RowKept
<1>5. Shape'
  BY <1>1, <1>2 DEF IInv, Shape, Asking
<1>6. Single'
  BY <1>1, <1>2, <1>3 DEF IInv, Single, Asking
<1>7. Matched'
  <2>1. calls # <<>>
    BY DEF IInv, Shape
  <2> QED BY <1>1, <1>2, <2>1 DEF IInv, Matched, RowKept
<1>8. Linked'
  BY <1>1 DEF IInv, Linked, RowKept, TypeOK
<1>9. CodesKnown' /\ InOrder' /\ Once'
  BY <1>1 DEF IInv, CodesKnown, InOrder, Once
<1>10. Kept'
  BY <1>1, <1>2 DEF IInv, Kept, Done, RowKept
<1> QED BY <1>4, <1>5, <1>6, <1>7, <1>8, <1>9, <1>10 DEF IInv

\* So does a loop that waits before it asks again.
LEMMA DelayKeeps ==
  ASSUME IInv, Settled, NEW l \in loops, ~l.aborted,
         Update(l, [l EXCEPT !.at = "delay", !.todo = <<>>]),
         UNCHANGED <<rows, started, up, worker, asking, calls, due, telegram, history,
                     made, starts>>
  PROVE  IInv'
<1> DEFINE new == [l EXCEPT !.at = "delay", !.todo = <<>>]
<1>1. loops = {l} /\ worker = l.id /\ l \in Loops
  BY TheLoop DEF IInv
<1>2. <<>> \in Seq(Numbers)
  OBVIOUS
<1>3. /\ new \in Loops /\ new.id = l.id /\ new.token = l.token /\ new.offset = l.offset
      /\ new.aborted = l.aborted /\ new.at = "delay" /\ new.todo = <<>>
  BY <1>1, <1>2 DEF Loops
<1>4. loops' = {new}
  BY UpdateIs DEF IInv
<1> HIDE DEF new
<1> USE DEF rows, telegram, history
<1>5. TypeOK'
  BY <1>1, <1>3, <1>4 DEF IInv, TypeOK
<1>6. Shape'
  BY <1>1, <1>3, <1>4 DEF IInv, Shape, Asking
<1>7. Single'
  BY DEF IInv, Single, Asking
<1>8. Matched'
  BY <1>1, <1>3, <1>4 DEF IInv, Matched
<1>9. Linked'
  BY <1>1, <1>3, <1>4 DEF IInv, Linked
<1>10. CodesKnown' /\ InOrder' /\ Once'
  BY <1>1, <1>3, <1>4 DEF IInv, CodesKnown, InOrder, Once
<1>11. Kept'
  BY <1>1, <1>3, <1>4 DEF IInv, Kept, Done
<1> QED BY <1>5, <1>6, <1>7, <1>8, <1>9, <1>10, <1>11 DEF IInv


\* So does a loop that asks.
LEMMA PollKeeps ==
  ASSUME IInv, Settled, NEW l \in loops, ~l.aborted,
         Update(l, [l EXCEPT !.at = "poll", !.todo = <<>>]), Asked(l.token, l.offset),
         RowKept(l),
         UNCHANGED <<account, code, codes, started, up, worker, asking, calls, due, messages,
                     handled, overlapped, repeats, made, starts>>
  PROVE  IInv'
<1> DEFINE new == [l EXCEPT !.at = "poll", !.todo = <<>>]
<1>1. loops = {l} /\ worker = l.id /\ l \in Loops
  BY TheLoop DEF IInv
<1>2. <<>> \in Seq(Numbers)
  OBVIOUS
<1>3. /\ new \in Loops /\ new.id = l.id /\ new.token = l.token /\ new.offset = l.offset
      /\ new.aborted = l.aborted /\ new.at = "poll" /\ new.todo = <<>>
  BY <1>1, <1>2 DEF Loops
<1>4. loops' = {new}
  BY UpdateIs DEF IInv
<1>5. l.token \in Tokens /\ l.offset \in Offsets
  BY <1>1 DEF Loops
<1> HIDE DEF new
<1>6. /\ forgotten' \in [Tokens -> 0..MaxMessages]
      /\ \A t \in Tokens : forgotten[t] <= forgotten'[t]
      /\ l.offset <= forgotten'[l.token] + 1
      /\ \A t \in Tokens : \/ forgotten'[t] = forgotten[t]
                           \/ (t = l.token /\ forgotten'[t] + 1 = l.offset)
  BY <1>5, AskedIs DEF IInv, Asked
<1>7. forgotten \in [Tokens -> 0..MaxMessages]
  BY DEF IInv, TypeOK
<1>8. TypeOK'
  BY <1>1, <1>3, <1>4, <1>6 DEF IInv, TypeOK, RowKept
<1>9. Shape'
  BY <1>1, <1>3, <1>4 DEF IInv, Shape, Asking
<1>10. Single'
  BY DEF IInv, Single, Asking
<1>11. Matched'
  BY <1>1, <1>3, <1>4 DEF IInv, Matched, RowKept
<1>12. Linked'
  BY <1>1, <1>3, <1>4 DEF IInv, Linked, RowKept, TypeOK
<1>13. CodesKnown'
  BY DEF IInv, CodesKnown
<1>14. InOrder'
  BY <1>1, <1>3, <1>4, <1>6 DEF IInv, InOrder
<1>15. Once'
  <2> SUFFICES ASSUME ~repeats
               PROVE  /\ \A t \in Tokens, n \in Numbers : handled[t][n] <= 1
                      /\ \A n \in Numbers : handled[l.token][n] > 0 =>
                           n < l.offset \/ n <= forgotten'[l.token]
    BY <1>3, <1>4 DEF Once
  <2>1. /\ \A t \in Tokens, n \in Numbers : handled[t][n] <= 1
        /\ \A n \in Numbers : handled[l.token][n] > 0 =>
             n < l.offset \/ n <= forgotten[l.token]
    BY DEF IInv, Once
  <2>2. \A n \in Numbers : n \in Nat
    BY BotAssumption DEF Numbers
  <2>3. forgotten[l.token] <= forgotten'[l.token] /\ forgotten[l.token] \in Int
        /\ forgotten'[l.token] \in Int
    BY <1>5, <1>6, <1>7
  <2> QED BY <2>1, <2>2, <2>3
<1>16. Kept'
  <2> SUFFICES ASSUME ~late'
               PROVE  Kept'
    BY DEF Kept
  <2>1. Done(l.token, l.offset) /\ \A t \in Tokens : Done(t, forgotten[t] + 1)
    BY DEF IInv, Kept, RowKept
  <2>2. \A t \in Tokens : Done(t, forgotten'[t] + 1)
    BY <1>6, <2>1
  <2>3. \A t, o : Done(t, o)' <=> (\A n \in Numbers : n < o => handled[t][n] > 0)
    BY DEF Done
  <2> QED BY <1>3, <1>4, <2>1, <2>2 DEF IInv, Kept, RowKept, Done
<1> QED BY <1>8, <1>9, <1>10, <1>11, <1>12, <1>13, <1>14, <1>15, <1>16 DEF IInv

\* So does the next message of a batch, when it is the first that was not handled.
LEMMA TakeKeeps ==
  ASSUME IInv, Settled, NEW l \in loops, NEW todo \in Seq(Numbers), todo # <<>>,
         Take(l, todo),
         \A i \in 1..Len(todo) : todo[i] = Head(todo) + i - 1,
         Head(todo) + Len(todo) <= Len(messages[l.token]) + 1,
         l.offset <= Head(todo), forgotten[l.token] < Head(todo),
         Head(todo) = l.offset \/ Head(todo) = forgotten[l.token] + 1,
         ~overlapped => \/ code = None
                        \/ bot.token = l.token
                        \/ \A i \in 1..Len(todo) : messages[l.token][todo[i]] # code,
         UNCHANGED <<bot, codes, started, up, worker, asking, calls, due, telegram, overlapped,
                     late, repeats, made, starts>>
  PROVE  IInv'
<1> DEFINE n == Head(todo)
           new == [l EXCEPT !.at = "reply", !.todo = Tail(todo), !.offset = Larger(@, n + 1)]
<1>1. loops = {l} /\ worker = l.id /\ l \in Loops
  BY TheLoop DEF IInv
<1>2. l.token \in Tokens /\ l.offset \in Offsets /\ MaxMessages \in Nat
  BY <1>1, Zenon, BotAssumption DEF Loops
<1>3. n \in Numbers /\ n \in Nat /\ n + 1 \in Offsets
  <2>1. n \in Numbers
    OBVIOUS
  <2> QED BY <2>1, <1>2 DEF Numbers, Offsets
<1>4. Larger(l.offset, n + 1) = n + 1
  BY <1>2, <1>3 DEF Larger, Offsets
<1>5. Tail(todo) \in Seq(Numbers) /\ Len(Tail(todo)) = Len(todo) - 1 /\ Len(todo) \in Nat
      /\ \A i \in 1..Len(Tail(todo)) : Tail(todo)[i] = todo[i + 1]
  OBVIOUS
<1>6. /\ new \in Loops /\ new.id = l.id /\ new.token = l.token /\ new.offset = n + 1
      /\ new.aborted = l.aborted /\ new.at = "reply" /\ new.todo = Tail(todo)
  BY <1>1, <1>3, <1>4, <1>5 DEF Loops
<1>7. loops' = {new}
  BY UpdateIs DEF IInv, Take
<1>8. /\ \/ account' = l.token /\ code' = None /\ code # None /\ messages[l.token][n] = code
         \/ account' = account /\ code' = code
      /\ handled' = [handled EXCEPT ![l.token][n] = IF @ = 2 THEN 2 ELSE @ + 1]
  BY DEF Take, HandleUpdate
<1> HIDE DEF new, n
<1>9. forgotten \in [Tokens -> 0..MaxMessages] /\ handled \in [Tokens -> [Numbers -> 0..2]]
  BY DEF IInv, TypeOK, Counts
<1>10. /\ handled' \in Counts
       /\ handled'[l.token][n] > 0
       /\ \A t \in Tokens, k \in Numbers : handled[t][k] > 0 => handled'[t][k] > 0
       /\ \A t \in Tokens, k \in Numbers :
            handled'[t][k] = handled[t][k] \/ (t = l.token /\ k = n)
       /\ handled[l.token][n] = 0 => handled'[l.token][n] = 1
  <2> DEFINE v == IF handled[l.token][n] = 2 THEN 2 ELSE handled[l.token][n] + 1
  <2>1. v \in 1..2 /\ (handled[l.token][n] = 0 => v = 1)
    BY <1>2, <1>3, <1>9
  <2>2. handled' = [handled EXCEPT ![l.token][n] = v]
    BY <1>8
  <2> HIDE DEF v
  <2>3. \A t \in Tokens, k \in Numbers :
          handled'[t][k] = IF t = l.token /\ k = n THEN v ELSE handled[t][k]
    BY <1>2, <1>3, <1>9, <2>2
  <2>4. handled' \in Counts
    <3>1. [handled[l.token] EXCEPT ![n] = v] \in [Numbers -> 0..2]
      BY <1>2, <1>3, <1>9, <2>1
    <3> QED BY <1>9, <2>2, <3>1 DEF Counts
  <2> QED BY <1>2, <1>3, <2>1, <2>3, <2>4
<1> USE DEF telegram
<1>11. TypeOK'
  <2>1. worker' \in {k.id : k \in loops'} \cup {None} /\ loops' \subseteq Loops
    BY <1>1, <1>6, <1>7
  <2>2. (account' \in Tokens \cup {None}) /\ (code' \in 1..codes \cup {None})
        /\ (bot = None => account' = None /\ code' = None)
    BY <1>2, <1>8 DEF IInv, TypeOK
  <2> QED BY <1>10, <2>1, <2>2 DEF IInv, TypeOK
<1>12. Shape'
  BY <1>1, <1>6, <1>7 DEF IInv, Shape, Asking
<1>13. Single'
  BY DEF IInv, Single, Asking
<1>14. Matched'
  BY <1>1, <1>6, <1>7 DEF IInv, Matched
<1>15. Linked'
  <2> SUFFICES ASSUME ~overlapped
               PROVE  /\ account' # None => account' = bot.token
                      /\ \/ code' = None
                         \/ bot.token = l.token
                         \/ \A i \in 1..Len(Tail(todo)) : messages[l.token][Tail(todo)[i]] # code'
    BY <1>6, <1>7 DEF Linked
  <2>1. todo[1] = n /\ 1 \in 1..Len(todo)
    BY <1>3, <1>5 DEF n
  <2>2. \A i \in 1..Len(Tail(todo)) : i + 1 \in 1..Len(todo)
    BY <1>5
  <2>3. account # None => account = bot.token
    BY DEF IInv, Linked
  <2> QED BY <1>5, <1>8, <2>1, <2>2, <2>3
<1>16. CodesKnown'
  BY DEF IInv, CodesKnown
<1>17. InOrder'
  <2>1. forgotten[l.token] < n + 1
    BY <1>2, <1>3, <1>9 DEF n
  <2>2. Tail(todo) = <<>> \/ n + 1 + Len(Tail(todo)) <= Len(messages[l.token]) + 1
    BY <1>3, <1>5 DEF n
  <2>3. \A i \in 1..Len(Tail(todo)) : Tail(todo)[i] = n + 1 + i - 1
    <3> TAKE i \in 1..Len(Tail(todo))
    <3>1. i + 1 \in 1..Len(todo) /\ i \in Nat
      BY <1>5
    <3>2. todo[i + 1] = n + (i + 1) - 1
      BY <3>1 DEF n
    <3> QED BY <1>3, <1>5, <3>1, <3>2
  <2> QED BY <1>6, <1>7, <2>1, <2>2, <2>3 DEF InOrder
<1>18. \A k \in Numbers : k < n + 1 => k < n \/ k = n
  BY <1>3 DEF Numbers
<1>19. Kept'
  <2> SUFFICES ASSUME ~late
               PROVE  Kept'
    BY DEF Kept
  <2>1. \A o : \A t \in Tokens : Done(t, o) => Done(t, o)'
    BY <1>10 DEF Done
  <2>2. Done(l.token, l.offset) /\ \A t \in Tokens : Done(t, forgotten[t] + 1)
    BY DEF IInv, Kept
  <2>3. Done(l.token, n)
    BY <1>2, <2>2 DEF n
  <2>4. Done(l.token, n + 1)'
    BY <1>2, <1>10, <1>18, <2>3 DEF Done
  <2>5. bot # None => Done(bot.token, bot.offset)'
    <3>1. bot # None => bot \in Bots /\ bot.token \in Tokens
      BY DEF IInv, TypeOK, Bots
    <3> QED BY <2>1, <3>1 DEF IInv, Kept
  <2>6. \A c \in Calls : c.kind = "configure" => c.token \in Tokens
    BY DEF Calls
  <2>7. calls \in Seq(Calls) /\ due \in Seq(Calls)
    BY DEF IInv, TypeOK
  <2>8. \A i \in 1..Len(calls) : calls[i].kind = "configure" =>
          Done(calls[i].token, calls[i].offset)'
    <3> TAKE i \in 1..Len(calls)
    <3>1. calls[i] \in Calls
      BY <2>7
    <3> QED BY <2>1, <2>6, <3>1 DEF IInv, Kept
  <2>9. due = <<>>
    BY DEF Settled
  <2>10. \A t \in Tokens : Done(t, forgotten[t] + 1)'
    BY <2>1, <2>2
  <2> QED BY <1>6, <1>7, <2>4, <2>5, <2>8, <2>9, <2>10 DEF Kept, Done
<1>20. Once'
  <2> SUFFICES ASSUME ~repeats
               PROVE  /\ \A t \in Tokens, k \in Numbers : handled'[t][k] <= 1
                      /\ \A k \in Numbers : handled'[l.token][k] > 0 =>
                           k < n + 1 \/ k <= forgotten[l.token]
    BY <1>6, <1>7 DEF Once
  <2>1. /\ \A t \in Tokens, k \in Numbers : handled[t][k] <= 1
        /\ \A k \in Numbers : handled[l.token][k] > 0 =>
             k < l.offset \/ k <= forgotten[l.token]
    BY DEF IInv, Once
  <2>2. \A k \in Numbers : handled[l.token][k] > 0 => k < n
    BY <1>2, <1>3, <1>9, <2>1 DEF n, Numbers, Offsets
  <2>3. handled[l.token][n] = 0
    <3>1. handled[l.token][n] \in 0..2
      BY <1>2, <1>3, <1>9
    <3> QED BY <1>3, <2>2, <3>1
  <2>4. handled'[l.token][n] = 1
    BY <1>10, <2>3
  <2>5. \A t \in Tokens, k \in Numbers : handled'[t][k] <= 1
    BY <1>10, <2>1, <2>4
  <2>6. ASSUME NEW k \in Numbers, handled'[l.token][k] > 0
        PROVE  k < n + 1
    <3>1. k \in Int /\ (k = n \/ handled'[l.token][k] = handled[l.token][k])
      BY <1>2, <1>10, <2>6 DEF Numbers
    <3>2. k = n \/ k < n
      BY <2>2, <2>6, <3>1
    <3> QED BY <1>3, <3>1, <3>2
  <2> QED BY <2>5, <2>6
<1> QED BY <1>11, <1>12, <1>13, <1>14, <1>15, <1>16, <1>17, <1>19, <1>20 DEF IInv

-----------------------------------------------------------------------------
(* The actions of a worker keep the invariant. *)

LEMMA ArrivalKeeps ==
  ASSUME IInv, Settled, NEW l \in loops, UpdatesArrive(l)
  PROVE  IInv'
<1> DEFINE f == forgotten[l.token]
           batch == [i \in 1..(Len(messages[l.token]) - f) |-> f + i]
<1>1. loops = {l} /\ worker = l.id /\ l \in Loops
  BY TheLoop DEF IInv
<1>2. l.token \in Tokens /\ MaxMessages \in Nat
  BY <1>1, Zenon, BotAssumption DEF Loops
<1>3. f \in 0..MaxMessages /\ Len(messages[l.token]) \in 0..MaxMessages
  <2>1. messages[l.token] \in Seq(1..MaxCodes)
    BY <1>2 DEF IInv, TypeOK
  <2> QED BY <1>2, <2>1 DEF IInv, TypeOK
<1>4. l.at = "poll" /\ ~l.aborted /\ batch # <<>> /\ Take(l, batch)
  BY DEF UpdatesArrive
<1> HIDE DEF f
<1>5. batch \in Seq(Numbers) /\ Len(batch) = Len(messages[l.token]) - f
      /\ Len(batch) \in Nat \ {0} /\ Head(batch) = f + 1
      /\ \A i \in 1..Len(batch) : batch[i] = f + i
  <2> DEFINE k == Len(messages[l.token]) - f
  <2>1. k \in Int
    BY <1>2, <1>3
  <2>2. k > 0
    <3> SUFFICES ASSUME ~(k > 0)
                 PROVE  FALSE
      OBVIOUS
    <3>1. 1..k = {}
      BY <2>1
    <3>2. batch = <<>>
      BY <3>1
    <3> QED BY <1>4, <3>2
  <2>3. \A i \in 1..k : f + i \in Numbers
    BY <1>2, <1>3, <2>1 DEF Numbers
  <2>4. k \in Nat /\ 1 \in 1..k
    BY <2>1, <2>2
  <2> HIDE DEF k
  <2>5. [i \in 1..k |-> f + i] \in Seq(Numbers) /\ Len([i \in 1..k |-> f + i]) = k
    BY <2>3, <2>4
  <2>6. Head([i \in 1..k |-> f + i]) = f + 1
    BY <2>4, <2>5
  <2> QED BY <2>2, <2>4, <2>5, <2>6 DEF k
<1>6. l.offset <= f + 1
  BY <1>4 DEF IInv, InOrder, f
<1> HIDE DEF batch
<1>7. \A i \in 1..Len(batch) : batch[i] = Head(batch) + i - 1
  BY <1>3, <1>5
<1>8. /\ Head(batch) + Len(batch) <= Len(messages[l.token]) + 1
      /\ l.offset <= Head(batch) /\ f < Head(batch)
  BY <1>3, <1>5, <1>6
<1>9. batch # <<>>
  BY <1>4
<1>10. ~overlapped => bot.token = l.token
  <2> SUFFICES ASSUME ~overlapped
               PROVE  bot.token = l.token
    OBVIOUS
  <2>1. started /\ calls = <<>> /\ due = <<>>
    BY <1>1, <1>4 DEF IInv, Shape, Settled
  <2> QED BY <1>1, <2>1 DEF IInv, Matched
<1>11. UNCHANGED <<bot, codes, started, up, worker, asking, calls, due, telegram, overlapped,
                   late, repeats, made, starts>>
  BY DEF UpdatesArrive
<1> QED BY <1>4, <1>5, <1>7, <1>8, <1>9, <1>10, <1>11, TakeKeeps DEF f

LEMMA FailureKeeps ==
  ASSUME IInv, Settled, NEW l \in loops, PollFails(l)
  PROVE  IInv'
<1>1. CASE l.aborted
  <2>1. RowKept(l)
    BY RowStays DEF IInv, PollFails, rows, history
  <2> QED BY <1>1, <2>1, EndsKeep DEF PollFails, rows, history
<1>2. CASE ~l.aborted
  <2>1. l \in Loops /\ l.todo = <<>> /\ l.at = "poll"
    BY TheLoop DEF IInv, InOrder, PollFails
  <2>2. [l EXCEPT !.at = "delay"] = [l EXCEPT !.at = "delay", !.todo = <<>>]
    BY <2>1 DEF Loops
  <2> QED BY <1>2, <2>2, DelayKeeps DEF PollFails, rows, history, telegram
<1> QED BY <1>1, <1>2

LEMMA ReplyFailureKeeps ==
  ASSUME IInv, Settled, NEW l \in loops, ReplyFails(l)
  PROVE  IInv'
<1>1. CASE l.aborted
  <2>1. RowKept(l)
    BY RowStays DEF IInv, ReplyFails, rows, history
  <2> QED BY <1>1, <2>1, EndsKeep DEF ReplyFails, rows, history
<1>2. CASE ~l.aborted
  BY <1>2, DelayKeeps DEF ReplyFails, rows, history, telegram
<1> QED BY <1>1, <1>2

LEMMA DelayOverKeeps ==
  ASSUME IInv, Settled, NEW l \in loops, DelayOver(l)
  PROVE  IInv'
<1>1. RowKept(l)
  BY RowStays DEF IInv, DelayOver, rows, history
<1>2. CASE l.aborted
  BY <1>1, <1>2, EndsKeep DEF DelayOver, Continue, rows, history
<1>3. CASE ~l.aborted
  BY <1>1, <1>3, PollKeeps DEF DelayOver, Continue, rows, history
<1> QED BY <1>2, <1>3

LEMMA ReplyKeeps ==
  ASSUME IInv, Settled, NEW l \in loops, Replied(l)
  PROVE  IInv'
<1>1. CASE l.todo = <<>>
  <2>1. RowKept(l)
    BY <1>1, RowStored DEF IInv, Replied
  <2>2. CASE l.aborted
    BY <1>1, <2>1, <2>2, EndsKeep DEF Replied, Continue
  <2>3. CASE ~l.aborted
    BY <1>1, <2>1, <2>3, PollKeeps DEF Replied, Continue
  <2> QED BY <2>2, <2>3
<1>2. CASE l.todo # <<>>
  <2>1. loops = {l} /\ l \in Loops /\ l.at = "reply"
    BY TheLoop DEF IInv, Replied
  <2>2. l.todo \in Seq(Numbers) /\ l.offset \in Int
    BY <2>1, BotAssumption DEF Loops, Offsets
  <2>3. /\ forgotten[l.token] < l.offset
        /\ l.offset + Len(l.todo) <= Len(messages[l.token]) + 1
        /\ \A i \in 1..Len(l.todo) : l.todo[i] = l.offset + i - 1
    BY <1>2, <2>1 DEF IInv, InOrder
  <2>4. Head(l.todo) = l.todo[1] /\ 1 \in 1..Len(l.todo)
    BY <1>2, <2>2
  <2>5. Head(l.todo) = l.offset
    BY <2>2, <2>3, <2>4
  <2>6. ~overlapped => \/ code = None
                       \/ bot.token = l.token
                       \/ \A i \in 1..Len(l.todo) : messages[l.token][l.todo[i]] # code
    BY DEF IInv, Linked
  <2>7. l.offset <= l.offset
    BY <2>2
  <2>8. Take(l, l.todo)
    BY <1>2 DEF Replied
  <2>9. UNCHANGED <<bot, codes, started, up, worker, asking, calls, due, telegram, overlapped,
                    late, repeats, made, starts>>
    BY <1>2 DEF Replied, telegram
  <2> QED BY <1>2, <2>2, <2>3, <2>5, <2>6, <2>7, <2>8, <2>9, TakeKeeps
<1> QED BY <1>1, <1>2

-----------------------------------------------------------------------------
(* What the steps of a call keep. *)

\* The rows a call leaves: the code stays only with the bot it was made for.
RowsFit ==
  /\ bot' \in Bots \cup {None} /\ account' \in Tokens \cup {None}
  /\ codes' = codes /\ code' \in 1..codes \cup {None}
  /\ bot' = None => account' = None /\ code' = None
  /\ bot' # None /\ ~late => Done(bot'.token, bot'.offset)
  /\ ~overlapped =>
       /\ account' # None => account' = bot'.token
       /\ code' = None \/ (code' = code /\ bot' # None /\ bot # None /\ bot'.token = bot.token)

\* The calls that will resume are some of those that would.
DueFits ==
  /\ due' \in Seq(Calls)
  /\ \A i \in 1..Len(due') : \E j \in 1..Len(due) : due'[i] = due[j]

LEMMA RowsStay ==
  ASSUME IInv, UNCHANGED rows
  PROVE  RowsFit
BY DEF IInv, TypeOK, Linked, Kept, rows, RowsFit

LEMMA BotStored ==
  ASSUME IInv, NEW token \in Tokens, StoreBot(token)
  PROVE  /\ RowsFit /\ bot' # None /\ bot'.token = token /\ bot'.offset \in Offsets
         /\ ~late => Done(token, bot'.offset)
<1>1. 0 \in Offsets /\ \A n \in Numbers : ~(n < 0)
  BY BotAssumption DEF Offsets, Numbers
<1>2. \A t \in Tokens : Done(t, 0)
  BY <1>1 DEF Done
<1>3. CASE bot # None /\ bot.token = token
  <2>1. bot \in Bots /\ bot' = [token |-> token, offset |-> bot.offset]
    BY <1>3 DEF StoreBot, IInv, TypeOK
  <2>2. bot' \in Bots /\ bot'.token = token /\ bot'.offset = bot.offset /\ bot.offset \in Offsets
    BY <2>1 DEF Bots
  <2>3. bot' # None
    BY <2>2, BotAssumption
  <2>4. account' = account /\ code' = code /\ codes' = codes
    BY <1>3 DEF StoreBot
  <2>5. ~late => Done(token, bot.offset)
    BY <1>3 DEF IInv, Kept
  <2>6. account \in Tokens \cup {None} /\ code \in 1..codes \cup {None}
        /\ (~overlapped /\ account # None => account = bot.token)
    BY DEF IInv, TypeOK, Linked
  <2> QED BY <1>3, <2>2, <2>3, <2>4, <2>5, <2>6 DEF RowsFit
<1>4. CASE ~(bot # None /\ bot.token = token)
  <2>1. bot' = [token |-> token, offset |-> 0] /\ account' = None /\ code' = None /\ codes' = codes
    BY <1>4 DEF StoreBot
  <2>2. bot' \in Bots /\ bot'.token = token /\ bot'.offset = 0
    BY <1>1, <2>1 DEF Bots
  <2>3. bot' # None
    BY <2>2, BotAssumption
  <2> QED BY <1>1, <1>2, <2>1, <2>2, <2>3 DEF RowsFit
<1> QED BY <1>3, <1>4

LEMMA BotDeleted ==
  ASSUME IInv, DeleteBot
  PROVE  RowsFit
BY DEF DeleteBot, RowsFit, IInv, TypeOK

LEMMA DueStays ==
  ASSUME IInv, UNCHANGED due
  PROVE  DueFits
BY DEF IInv, TypeOK, DueFits

LEMMA DueTail ==
  ASSUME IInv, due # <<>>, due' = Tail(due)
  PROVE  DueFits /\ Len(due') = Len(due) - 1 /\ Len(due) \in Nat
<1>1. due \in Seq(Calls)
  BY DEF IInv, TypeOK
<1>2. Tail(due) \in Seq(Calls) /\ Len(Tail(due)) = Len(due) - 1 /\ Len(due) \in Nat
      /\ \A i \in 1..Len(Tail(due)) : Tail(due)[i] = due[i + 1]
  BY <1>1
<1>3. \A i \in 1..Len(Tail(due)) : i + 1 \in 1..Len(due)
  BY <1>2
<1> QED BY <1>2, <1>3 DEF DueFits

\* The calls that will resume keep what is known of them.
LEMMA DueKept ==
  ASSUME IInv, DueFits
  PROVE  /\ \A i \in 1..Len(due') : due'[i].kind = "stop" => ~started
         /\ ~late => \A i \in 1..Len(due') :
                       due'[i].kind = "configure" => Done(due'[i].token, due'[i].offset)
         /\ started /\ ~overlapped =>
              \A i \in 1..Len(due') :
                due'[i].kind = "configure" => bot # None /\ bot.token = due'[i].token
         /\ due' # <<>> => due # <<>>
<1>1. \A i \in 1..Len(due) : due[i].kind = "stop" => ~started
  BY DEF IInv, Shape
<1>2. ~late => \A i \in 1..Len(due) :
                 due[i].kind = "configure" => Done(due[i].token, due[i].offset)
  BY DEF IInv, Kept
<1>3. started /\ ~overlapped =>
              \A i \in 1..Len(due) :
                due[i].kind = "configure" => bot # None /\ bot.token = due[i].token
  BY DEF IInv, Matched
<1>4. due' # <<>> => due # <<>>
  <2> SUFFICES ASSUME due' # <<>>
               PROVE  due # <<>>
    OBVIOUS
  <2>1. due' \in Seq(Calls)
    BY DEF DueFits
  <2>2. 1 \in 1..Len(due')
    BY <2>1
  <2>3. PICK j \in 1..Len(due) : due'[1] = due[j]
    BY <2>2 DEF DueFits
  <2> QED BY <2>3
<1> QED BY <1>1, <1>2, <1>3, <1>4 DEF DueFits

\* A step that leaves the worker and those who wait for it alone.
LEMMA QuietKeeps ==
  ASSUME IInv, RowsFit, DueFits, Single', Matched',
         UNCHANGED <<worker, loops, started, up, calls, telegram, handled, late, repeats>>,
         asking' \in [Tokens -> Nat], ~up => ~Asking',
         overlapped' \in BOOLEAN, overlapped => overlapped',
         made' \in 0..MaxCalls, starts' \in 0..MaxStarts
  PROVE  IInv'
<1> USE DEF telegram
<1>1. TypeOK'
  BY DEF IInv, TypeOK, RowsFit, DueFits
<1>2. Shape'
  BY DueKept DEF IInv, Shape
<1>3. Linked'
  BY DEF IInv, Linked, RowsFit
<1>4. CodesKnown' /\ InOrder' /\ Once'
  BY DEF IInv, CodesKnown, InOrder, Once, RowsFit
<1>5. Kept'
  BY DueKept DEF IInv, Kept, Done, RowsFit
<1> QED BY <1>1, <1>2, <1>3, <1>4, <1>5 DEF IInv

\* The process ends, or the service with it.
LEMMA DownKeeps ==
  ASSUME IInv, Down, RowsFit, DueFits, started' = FALSE, worker' = None, loops' = {},
         UNCHANGED <<telegram, handled, late, repeats, overlapped, made, starts>>
  PROVE  IInv'
<1> USE DEF telegram, Down
<1>0. <<>> \in Seq(Calls) /\ Len(<<>>) = 0
  OBVIOUS
<1>1. TypeOK'
  BY <1>0 DEF IInv, TypeOK, RowsFit, DueFits
<1>2. Shape'
  BY <1>0 DEF Shape, Asking
<1>3. Single' /\ Matched'
  BY DEF Single, Matched
<1>4. Linked'
  BY DEF Linked, RowsFit
<1>5. CodesKnown' /\ InOrder' /\ Once'
  BY DEF IInv, CodesKnown, InOrder, Once, RowsFit
<1>6. Kept'
  BY <1>0, DueKept DEF IInv, Kept, Done, RowsFit
<1> QED BY <1>1, <1>2, <1>3, <1>4, <1>5, <1>6 DEF IInv

\* A call waits for the worker.
LEMMA AwaitKeeps ==
  ASSUME IInv, Settled, worker # None, NEW c \in Calls, AwaitWorker(c), RowsFit,
         c.kind = "configure" => /\ bot' # None /\ bot'.token = c.token
                                 /\ ~late => Done(c.token, c.offset),
         c.kind = "stop" => ~started',
         started' \in BOOLEAN, started' => started,
         asking' \in [Tokens -> Nat],
         overlapped' \in BOOLEAN, overlapped => overlapped',
         started' /\ ~overlapped' => ~Asking' /\ calls = <<>>,
         UNCHANGED <<up, due, telegram, handled, late, repeats>>,
         made' \in 0..MaxCalls, starts' \in 0..MaxStarts
  PROVE  IInv'
<1> USE DEF telegram
<1>1. PICK l \in loops : /\ loops = {l} /\ worker = l.id /\ l \in Loops
                         /\ loops' = {[l EXCEPT !.aborted = TRUE]}
  BY AbortIs DEF IInv, AwaitWorker
<1> DEFINE new == [l EXCEPT !.aborted = TRUE]
<1>2. /\ new \in Loops /\ new.id = l.id /\ new.token = l.token /\ new.offset = l.offset
      /\ new.aborted /\ new.at = l.at /\ new.todo = l.todo
  BY <1>1 DEF Loops
<1>3. loops' = {new}
  BY <1>1
<1> HIDE DEF new
<1>4. calls \in Seq(Calls) /\ worker' = worker /\ due' = due /\ due = <<>>
  BY DEF IInv, TypeOK, Settled, AwaitWorker
<1>5. /\ calls' \in Seq(Calls) /\ calls' # <<>> /\ Len(calls') = Len(calls) + 1
      /\ Len(calls) \in Nat
      /\ \A i \in 1..Len(calls') : calls'[i] = c \/ (i \in 1..Len(calls) /\ calls'[i] = calls[i])
  <2>1. calls' = Append(calls, c)
    BY DEF AwaitWorker
  <2> QED BY <1>4, <2>1
<1>6. up
  BY <1>1 DEF IInv, Shape
<1>7. TypeOK'
  BY <1>1, <1>2, <1>3, <1>4, <1>5 DEF IInv, TypeOK, RowsFit
<1>8. Shape'
  BY <1>1, <1>2, <1>3, <1>4, <1>5, <1>6 DEF IInv, Shape
<1>9. Single'
  <2> SUFFICES ASSUME started', ~overlapped'
               PROVE  Single'
    BY DEF Single
  <2>1. ~Asking' /\ calls = <<>>
    OBVIOUS
  <2>2. \A t \in Tokens : ~(asking'[t] > 0)
    BY <2>1 DEF Asking
  <2>3. Len(calls') = 1 /\ Len(due') = 0
    BY <1>4, <1>5, <2>1
  <2> QED BY <2>1, <2>2, <2>3 DEF Single
<1>10. Matched'
  <2> SUFFICES ASSUME started', ~overlapped'
               PROVE  Matched'
    BY DEF Matched
  <2>1. \A i \in 1..Len(calls') : calls'[i] = c
    BY <1>5
  <2> QED BY <1>4, <1>5, <2>1 DEF Matched
<1>11. Linked'
  <2> SUFFICES ASSUME ~overlapped'
               PROVE  Linked'
    BY DEF Linked
  <2> QED BY <1>1, <1>2, <1>3 DEF IInv, Linked, RowsFit
<1>12. CodesKnown' /\ InOrder' /\ Once'
  BY <1>1, <1>2, <1>3 DEF IInv, CodesKnown, InOrder, Once, RowsFit
<1>13. Kept'
  BY <1>1, <1>2, <1>3, <1>4, <1>5 DEF IInv, Kept, Done, RowsFit
<1> QED BY <1>7, <1>8, <1>9, <1>10, <1>11, <1>12, <1>13 DEF IInv


\* A worker is started.
LEMMA StartKeeps ==
  ASSUME IInv, worker = None, NEW token \in Tokens, NEW offset \in Offsets,
         NewLoop(token, offset), started' = TRUE, up' = TRUE, RowsFit, DueFits, Single',
         ~late => Done(token, offset),
         ~overlapped => bot' # None /\ bot'.token = token /\ due' = <<>>,
         started \/ \A i \in 1..Len(due') : due'[i].kind # "stop",
         asking' \in [Tokens -> Nat],
         UNCHANGED <<calls, messages, handled, overlapped, late, made>>,
         starts' \in 0..MaxStarts
  PROVE  IInv'
<1>1. PICK new \in Loops :
         /\ loops' = {new} /\ worker' = new.id /\ new.token = token /\ new.offset = offset
         /\ ~new.aborted /\ new.at = "poll" /\ new.todo = <<>>
  BY NewLoopIs DEF IInv
<1>2. /\ forgotten' = [forgotten EXCEPT ![token] = Larger(@, offset - 1)]
      /\ repeats \in BOOLEAN /\ repeats' \in BOOLEAN
      /\ ~repeats' => /\ ~repeats
                      /\ \A n \in Numbers : n >= offset /\ n > forgotten[token] =>
                           ~(handled[token][n] > 0)
  BY NewLoopIs DEF IInv
<1>3. /\ forgotten' \in [Tokens -> 0..MaxMessages]
      /\ \A t \in Tokens : forgotten[t] <= forgotten'[t]
      /\ offset <= forgotten'[token] + 1
      /\ \A t \in Tokens : \/ forgotten'[t] = forgotten[t]
                           \/ (t = token /\ forgotten'[t] + 1 = offset)
  BY <1>2, AskedIs DEF IInv
<1>4. loops = {} /\ calls = <<>>
  BY NoLoop DEF IInv, Shape
<1>5. forgotten \in [Tokens -> 0..MaxMessages]
  BY DEF IInv, TypeOK
<1>6. TypeOK'
  BY <1>1, <1>2, <1>3 DEF IInv, TypeOK, RowsFit, DueFits
<1>7. Shape'
  <2>1. \A i \in 1..Len(due') : due'[i].kind = "stop" => ~started'
    BY DueKept
  <2> QED BY <1>1, <1>4, <2>1 DEF Shape
<1>8. Matched'
  BY <1>1, <1>4 DEF Matched
<1>9. Linked'
  BY <1>1 DEF Linked, RowsFit
<1>10. CodesKnown' /\ InOrder'
  BY <1>1, <1>3 DEF IInv, CodesKnown, InOrder, RowsFit
<1>11. Once'
  <2> SUFFICES ASSUME ~repeats'
               PROVE  /\ \A t \in Tokens, n \in Numbers : handled[t][n] <= 1
                      /\ \A n \in Numbers : handled[token][n] > 0 =>
                           n < offset \/ n <= forgotten'[token]
    BY <1>1 DEF Once
  <2>1. \A t \in Tokens, n \in Numbers : handled[t][n] <= 1
    BY <1>2 DEF IInv, Once
  <2>2. ASSUME NEW n \in Numbers, handled[token][n] > 0
        PROVE  n < offset \/ n <= forgotten'[token]
    <3>1. n \in Int /\ offset \in Int /\ forgotten[token] \in Int /\ forgotten'[token] \in Int
          /\ forgotten[token] <= forgotten'[token]
      BY <1>3, <1>5 DEF Numbers, Offsets
    <3>2. ~(n >= offset /\ n > forgotten[token])
      BY <1>2, <2>2
    <3> QED BY <3>1, <3>2
  <2> QED BY <2>1, <2>2
<1>12. Kept'
  <2> SUFFICES ASSUME ~late
               PROVE  Kept'
    BY DEF Kept
  <2>1. \A t \in Tokens : Done(t, forgotten[t] + 1)
    BY DEF IInv, Kept
  <2>2. \A t \in Tokens : Done(t, forgotten'[t] + 1)
    BY <1>3, <2>1
  <2>3. \A i \in 1..Len(due') : due'[i].kind = "configure" => Done(due'[i].token, due'[i].offset)
    BY DueKept
  <2>4. bot' # None => Done(bot'.token, bot'.offset)
    BY DEF RowsFit
  <2> QED BY <1>1, <1>4, <2>2, <2>3, <2>4 DEF Kept, Done
<1> QED BY <1>6, <1>7, <1>8, <1>9, <1>10, <1>11, <1>12 DEF IInv

-----------------------------------------------------------------------------
(* The actions of calls, of users and of the process keep the invariant. *)

LEMMA ConfigureKeeps ==
  ASSUME IInv, NEW token \in Tokens, Configure(token)
  PROVE  IInv'
<1> USE DEF Configure, Call, telegram
<1>1. RowsFit /\ DueFits
  BY RowsStay, DueStays
<1>2. asking \in [Tokens -> Nat] /\ asking' = [asking EXCEPT ![token] = @ + 1]
  BY DEF IInv, TypeOK
<1>3. asking' \in [Tokens -> Nat]
  BY <1>2
<1>4. Single'
  <2> SUFFICES ASSUME started, ~overlapped'
               PROVE  Single'
    BY DEF Single
  <2>0. ~Asking /\ calls = <<>> /\ due = <<>>
    BY Zenon DEF Settled
  <2>1. calls = <<>> /\ due = <<>> /\ \A t \in Tokens : asking[t] = 0
    BY <1>2, <2>0 DEF Asking
  <2>2. \A t \in Tokens : asking'[t] > 0 => t = token /\ asking'[t] = 1
    BY <1>2, <2>1
  <2>3. Len(calls') = 0 /\ Len(due') = 0
    BY <2>1
  <2> QED BY <2>1, <2>2, <2>3 DEF Single
<1>5. Matched'
  BY DEF IInv, Matched, rows
<1>6. /\ overlapped' \in BOOLEAN /\ (overlapped => overlapped')
      /\ made' \in 0..MaxCalls /\ starts' \in 0..MaxStarts
  <2>1. overlapped \in BOOLEAN /\ made \in 0..MaxCalls /\ starts \in 0..MaxStarts /\ MaxCalls \in Nat
    BY BotAssumption DEF IInv, TypeOK
  <2> QED BY <2>1 DEF Asking
<1> QED BY <1>1, <1>3, <1>4, <1>5, <1>6, QuietKeeps

LEMMA AnsweredIs ==
  ASSUME IInv, NEW token \in Tokens, Answered(token)
  PROVE  /\ asking' \in [Tokens -> Nat]
         /\ started /\ ~overlapped => ~Asking' /\ calls = <<>> /\ due = <<>>
<1>1. /\ asking \in [Tokens -> Nat] /\ asking[token] > 0
      /\ asking' = [asking EXCEPT ![token] = @ - 1]
  BY DEF IInv, TypeOK, Answered
<1>2. ASSUME started, ~overlapped
      PROVE  ~Asking' /\ calls = <<>> /\ due = <<>>
  <2>1. asking[token] = 1 /\ \A t \in Tokens : t # token => ~(asking[t] > 0)
    BY <1>1, <1>2 DEF IInv, Single
  <2>2. \A t \in Tokens : asking'[t] = 0
    BY <1>1, <2>1
  <2> QED BY <1>1, <1>2, <2>2 DEF IInv, Single, Asking
<1> QED BY <1>1, <1>2

LEMMA GetMeFailureKeeps ==
  ASSUME IInv, NEW token \in Tokens, GetMeFails(token)
  PROVE  IInv'
<1> USE DEF GetMeFails, telegram, history
<1>1. RowsFit /\ DueFits
  BY RowsStay, DueStays
<1>2. /\ asking' \in [Tokens -> Nat]
      /\ started /\ ~overlapped => ~Asking' /\ calls = <<>> /\ due = <<>>
  BY AnsweredIs
<1>3. Single'
  BY <1>2 DEF IInv, Single, Asking
<1>4. Matched'
  BY DEF IInv, Matched, rows
<1>5. up /\ overlapped' \in BOOLEAN /\ made' \in 0..MaxCalls /\ starts' \in 0..MaxStarts
  BY DEF IInv, TypeOK, Answered
<1> QED BY <1>1, <1>2, <1>3, <1>4, <1>5, QuietKeeps

LEMMA GetMeAnswerKeeps ==
  ASSUME IInv, NEW token \in Tokens, GetMeAnswers(token)
  PROVE  IInv'
<1>1. /\ asking' \in [Tokens -> Nat]
      /\ started /\ ~overlapped => ~Asking' /\ calls = <<>> /\ due = <<>>
  BY AnsweredIs DEF GetMeAnswers
<1>2. /\ RowsFit /\ bot' # None /\ bot'.token = token /\ bot'.offset \in Offsets
      /\ ~late => Done(token, bot'.offset)
  BY BotStored DEF GetMeAnswers
<1>3. DueFits /\ due = <<>> /\ due' = <<>> /\ up
  BY DueStays DEF GetMeAnswers, Answered, Settled
<1>4. /\ overlapped \in BOOLEAN /\ made' \in 0..MaxCalls /\ starts' \in 0..MaxStarts
      /\ UNCHANGED <<started, up, due, messages, handled, overlapped, late, made, starts>>
      /\ starts \in 0..MaxStarts
  BY DEF IInv, TypeOK, GetMeAnswers
<1>5. CASE ~started
  <2>1. UNCHANGED <<worker, loops, calls, forgotten, repeats>>
    BY <1>5 DEF GetMeAnswers
  <2>2. Single' /\ Matched'
    BY <1>4, <1>5 DEF Single, Matched
  <2> QED BY <1>1, <1>2, <1>3, <1>4, <2>1, <2>2, QuietKeeps DEF telegram
<1>6. CASE started /\ worker = None
  <2>1. StartWorker(token, bot'.offset) /\ UNCHANGED calls
    BY <1>6 DEF GetMeAnswers
  <2>2. NewLoop(token, bot'.offset)
    BY <1>6, <2>1 DEF StartWorker
  <2>3. Single'
    BY <1>1, <1>4, <1>6, <2>1 DEF IInv, Single, Asking
  <2>4. started' = TRUE /\ up' = TRUE
    <3>1. started \in BOOLEAN /\ up \in BOOLEAN
      BY DEF IInv, TypeOK
    <3> QED BY <1>3, <1>4, <1>6, <3>1
  <2> HIDE DEF IInv
  <2> QED BY <1>1, <1>2, <1>3, <1>4, <1>6, <2>1, <2>2, <2>3, <2>4, StartKeeps
<1>7. CASE started /\ worker # None
  <2> DEFINE c == [kind |-> "configure", token |-> token, offset |-> bot'.offset]
  <2>1. AwaitWorker(c) /\ UNCHANGED <<forgotten, repeats>>
    BY <1>7 DEF GetMeAnswers
  <2>2. c \in Calls /\ c.kind = "configure" /\ c.token = token /\ c.offset = bot'.offset
    BY <1>2 DEF Calls
  <2> HIDE DEF c
  <2>3. started' \in BOOLEAN
    BY <1>4 DEF IInv, TypeOK
  <2>4. Settled
    BY <1>3 DEF Settled
  <2> QED BY <1>1, <1>2, <1>3, <1>4, <1>7, <2>1, <2>2, <2>3, <2>4, AwaitKeeps DEF telegram
<1> QED BY <1>5, <1>6, <1>7

LEMMA RemoveKeeps ==
  ASSUME IInv, Remove
  PROVE  IInv'
<1>1. /\ Settled /\ up /\ made' = made + 1 /\ made < MaxCalls
      /\ overlapped' = (overlapped \/ Asking \/ calls # <<>>)
      /\ UNCHANGED <<started, up, asking, due, telegram, handled, late, repeats, starts>>
  BY DEF Remove, Call
<1>2. /\ overlapped \in BOOLEAN /\ overlapped' \in BOOLEAN
      /\ made' \in 0..MaxCalls /\ starts' \in 0..MaxStarts
      /\ asking' \in [Tokens -> Nat] /\ started' \in BOOLEAN
  <2>1. overlapped \in BOOLEAN /\ made \in 0..MaxCalls /\ starts \in 0..MaxStarts /\ MaxCalls \in Nat
    BY BotAssumption DEF IInv, TypeOK
  <2>2. asking \in [Tokens -> Nat] /\ started \in BOOLEAN
    BY DEF IInv, TypeOK
  <2> QED BY <1>1, <2>1, <2>2 DEF Asking
<1>3. DueFits /\ due = <<>> /\ due' = <<>>
  BY <1>1, DueStays DEF Settled
<1>4. CASE worker = None
  <2>1. DeleteBot /\ UNCHANGED <<worker, calls, loops>>
    BY <1>4 DEF Remove
  <2>2. RowsFit /\ bot' = None
    BY <2>1, BotDeleted DEF DeleteBot
  <2>3. loops = {} /\ calls = <<>>
    BY <1>4, NoLoop DEF IInv, Shape
  <2>4. Single'
    BY <1>1, <2>1 DEF IInv, Single, Asking
  <2>5. Matched'
    BY <1>3, <2>1, <2>2, <2>3 DEF Matched
  <2>6. ~up => ~Asking'
    BY <1>1
  <2> QED BY <1>1, <1>2, <1>3, <2>1, <2>2, <2>4, <2>5, <2>6, QuietKeeps
<1>5. CASE worker # None
  <2>1. AwaitWorker([kind |-> "remove"]) /\ UNCHANGED rows
    BY <1>5 DEF Remove
  <2>2. [kind |-> "remove"] \in Calls
    BY DEF Calls
  <2>3. RowsFit
    BY <2>1, RowsStay
  <2>4. started' /\ ~overlapped' => ~Asking' /\ calls = <<>>
    BY <1>1 DEF Asking
  <2>5. [kind |-> "remove"].kind = "remove"
    OBVIOUS
  <2> DEFINE c == [kind |-> "remove"]
  <2>6. c \in Calls /\ c.kind = "remove" /\ AwaitWorker(c)
    BY <2>1, <2>2
  <2> HIDE DEF c
  <2> QED BY <1>1, <1>2, <1>3, <1>5, <2>3, <2>4, <2>6, AwaitKeeps
<1> QED BY <1>4, <1>5

LEMMA StopKeeps ==
  ASSUME IInv, Stop
  PROVE  IInv'
<1>1. /\ Settled /\ up /\ started /\ started' = FALSE
      /\ UNCHANGED <<rows, due, telegram, history, made, starts>>
  BY DEF Stop
<1>2. RowsFit /\ DueFits
  BY <1>1, RowsStay, DueStays
<1>3. CASE worker = None
  <2>1. Down /\ worker' = None /\ loops' = loops
    BY <1>3 DEF Stop
  <2>2. loops = {}
    BY <1>3, NoLoop DEF IInv
  <2> QED BY <1>1, <1>2, <2>1, <2>2, DownKeeps DEF history
<1>4. CASE worker # None
  <2> DEFINE c == [kind |-> "stop"]
  <2>1. c \in Calls /\ c.kind = "stop"
    BY DEF Calls
  <2>2. AwaitWorker(c) /\ UNCHANGED <<up, asking>>
    BY <1>4 DEF Stop
  <2> HIDE DEF c
  <2>3. asking' \in [Tokens -> Nat] /\ overlapped' \in BOOLEAN /\ overlapped' = overlapped
        /\ made' \in 0..MaxCalls /\ starts' \in 0..MaxStarts
    BY <1>1, <2>2 DEF IInv, TypeOK, history
  <2>4. UNCHANGED <<up, due, telegram, handled, late, repeats>>
    BY <1>1, <2>2 DEF history
  <2>5. c.kind # "configure" /\ started' \in BOOLEAN /\ ~started'
    BY <1>1, <2>1
  <2> HIDE DEF IInv
  <2> QED BY <1>1, <1>2, <1>4, <2>1, <2>2, <2>3, <2>4, <2>5, AwaitKeeps
<1> QED BY <1>3, <1>4

LEMMA CrashKeeps ==
  ASSUME IInv, Crash
  PROVE  IInv'
<1>1. RowsFit
  BY RowsStay DEF Crash
<1>2. due' = <<>>
  BY DEF Crash
<1>3. <<>> \in Seq(Calls) /\ Len(<<>>) = 0
  OBVIOUS
<1>4. DueFits
  BY <1>2, <1>3 DEF DueFits
<1> QED BY <1>1, <1>4, DownKeeps DEF Crash, history

LEMMA BeginKeeps ==
  ASSUME IInv, Start
  PROVE  IInv'
<1>1. /\ Settled /\ ~up /\ starts < MaxStarts /\ starts' = starts + 1
      /\ up' = TRUE /\ started' = TRUE
      /\ UNCHANGED <<rows, asking, calls, due, messages, handled, overlapped, late, made>>
  BY DEF Start
<1>2. RowsFit /\ DueFits
  BY <1>1, RowsStay, DueStays
<1>3. loops = {} /\ worker = None /\ calls = <<>> /\ ~Asking /\ due = <<>> /\ ~started
  BY <1>1 DEF IInv, Shape, Settled
<1>4. starts' \in 0..MaxStarts /\ asking' \in [Tokens -> Nat]
  <2>1. starts \in 0..MaxStarts /\ MaxStarts \in Nat /\ asking \in [Tokens -> Nat]
    BY BotAssumption DEF IInv, TypeOK
  <2> QED BY <1>1, <2>1
<1>5. Single'
  <2>1. Len(calls') = 0 /\ Len(due') = 0
    BY <1>1, <1>3
  <2> QED BY <1>1, <1>3, <2>1 DEF Single, Asking
<1>6. CASE bot = None
  <2>1. UNCHANGED <<worker, loops, forgotten, repeats>>
    BY <1>6 DEF Start
  <2>2. bot' = None
    BY <1>1, <1>6 DEF rows
  <2>3. TypeOK'
    BY <1>1, <1>4, <2>1 DEF IInv, TypeOK, rows
  <2>4. Shape'
    BY <1>1, <1>3, <2>1 DEF Shape
  <2>5. Matched'
    BY <1>1, <1>3, <2>1, <2>2 DEF Matched
  <2>6. Linked' /\ CodesKnown' /\ InOrder' /\ Once'
    BY <1>1, <1>3, <2>1 DEF IInv, Linked, CodesKnown, InOrder, Once, rows
  <2>7. Kept'
    BY <1>1, <1>3, <2>1 DEF IInv, Kept, Done, rows
  <2> QED BY <1>5, <2>3, <2>4, <2>5, <2>6, <2>7 DEF IInv
<1>7. CASE bot # None
  <2>1. NewLoop(bot.token, bot.offset)
    BY <1>7 DEF Start
  <2>2. bot \in Bots /\ bot.token \in Tokens /\ bot.offset \in Offsets
    BY <1>7 DEF IInv, TypeOK, Bots
  <2>3. ~late => Done(bot.token, bot.offset)
    BY <1>7 DEF IInv, Kept
  <2>4. bot' = bot /\ due' = <<>> /\ \A i \in 1..Len(due') : due'[i].kind # "stop"
    <3>1. bot' = bot /\ due' = <<>>
      BY <1>1, <1>3 DEF rows
    <3>2. Len(due') = 0
      BY <3>1
    <3> QED BY <3>1, <3>2
  <2> QED BY <1>1, <1>2, <1>3, <1>4, <1>5, <1>7, <2>1, <2>2, <2>3, <2>4, StartKeeps
<1> QED BY <1>6, <1>7


LEMMA ResumeKeeps ==
  ASSUME IInv, Resume
  PROVE  IInv'
<1> DEFINE c == Head(due)
<1>1. due # <<>> /\ due' = Tail(due) /\ due \in Seq(Calls)
      /\ UNCHANGED <<started, messages, handled, overlapped, late, made, starts>>
  BY DEF Resume, IInv, TypeOK
<1>2. c \in Calls /\ c = due[1] /\ 1 \in 1..Len(due)
  BY <1>1
<1>3. c.kind \in {"configure", "remove", "stop"}
      /\ (c.kind = "configure" => c.token \in Tokens /\ c.offset \in Offsets)
  BY <1>2 DEF Calls
<1>4. DueFits /\ Len(due') = Len(due) - 1 /\ Len(due) \in Nat
  BY <1>1, DueTail
<1>5. /\ c.kind = "configure" =>
           StartWorker(c.token, c.offset) /\ UNCHANGED <<rows, up, asking, calls>>
      /\ c.kind = "remove" =>
           DeleteBot /\ UNCHANGED <<worker, loops, forgotten, repeats, up, asking, calls>>
      /\ c.kind = "stop" =>
           Down /\ UNCHANGED <<rows, worker, loops, forgotten, repeats>>
  BY DEF Resume
<1> HIDE DEF c
<1>6. /\ overlapped' \in BOOLEAN /\ overlapped' = overlapped /\ asking \in [Tokens -> Nat]
      /\ made' \in 0..MaxCalls /\ starts' \in 0..MaxStarts
      /\ started \in BOOLEAN /\ up \in BOOLEAN /\ calls \in Seq(Calls)
  BY <1>1 DEF IInv, TypeOK
<1>7. ASSUME started, ~overlapped
      PROVE  ~Asking /\ calls = <<>> /\ Len(due) = 1 /\ loops = {} /\ due' = <<>>
  <2>1. ~Asking /\ Len(calls) + Len(due) <= 1 /\ loops = {}
    BY <1>1, <1>7 DEF IInv, Single, Matched
  <2>2. Len(calls) = 0 /\ Len(due) = 1 /\ Len(due') = 0
    BY <1>2, <1>4, <1>6, <2>1
  <2>3. calls = <<>> /\ due' = <<>>
    BY <1>4, <1>6, <2>2 DEF DueFits
  <2> QED BY <2>1, <2>2, <2>3
<1>8. ASSUME UNCHANGED <<asking, calls>>
      PROVE  Single'
  <2> SUFFICES ASSUME started, ~overlapped
               PROVE  Single'
    BY <1>1, <1>6 DEF Single
  <2>1. ~Asking /\ calls = <<>> /\ due' = <<>>
    BY <1>7
  <2>2. Len(calls') = 0 /\ Len(due') = 0
    BY <1>8, <2>1
  <2> QED BY <1>8, <2>1, <2>2 DEF Single, Asking
<1>9. CASE c.kind = "configure" /\ (~started \/ worker # None)
  <2>1. UNCHANGED <<worker, loops, forgotten, repeats, rows, up, asking, calls>>
    BY <1>5, <1>9 DEF StartWorker
  <2>2. RowsFit
    BY <2>1, RowsStay
  <2>3. ~(started /\ ~overlapped)
    BY <1>7, <1>9 DEF IInv, Shape
  <2>4. Single' /\ Matched'
    BY <1>1, <2>3 DEF Single, Matched
  <2>5. ~up => ~Asking'
    BY <2>1 DEF IInv, Shape, Asking
  <2> QED BY <1>1, <1>4, <1>6, <2>1, <2>2, <2>4, <2>5, QuietKeeps DEF telegram
<1>10. CASE c.kind = "configure" /\ started /\ worker = None
  <2>1. NewLoop(c.token, c.offset) /\ UNCHANGED <<rows, up, asking, calls>>
    BY <1>5, <1>10 DEF StartWorker
  <2>2. RowsFit
    BY <2>1, RowsStay
  <2>3. Single'
    BY <1>8, <2>1
  <2>4. ~late => Done(c.token, c.offset)
    BY <1>2, <1>10 DEF IInv, Kept
  <2>5. ~overlapped => bot' # None /\ bot'.token = c.token /\ due' = <<>>
    <3>1. ~overlapped => bot # None /\ bot.token = c.token
      BY <1>2, <1>10 DEF IInv, Matched
    <3> QED BY <1>7, <1>10, <2>1, <3>1 DEF rows
  <2>6. started' = TRUE /\ up' = TRUE
    BY <1>1, <1>6, <1>10, <2>1 DEF IInv, Shape
  <2>7. asking' \in [Tokens -> Nat]
    BY <1>6, <2>1
  <2> QED BY <1>1, <1>3, <1>4, <1>6, <1>10, <2>1, <2>2, <2>3, <2>4, <2>5, <2>6, <2>7,
             StartKeeps
<1>11. CASE c.kind = "remove"
  <2>1. DeleteBot /\ UNCHANGED <<worker, loops, forgotten, repeats, up, asking, calls>>
    BY <1>5, <1>11
  <2>2. RowsFit /\ bot' = None
    BY <2>1, BotDeleted DEF DeleteBot
  <2>3. Single'
    BY <1>8, <2>1
  <2>4. Matched'
    <3> SUFFICES ASSUME started, ~overlapped
                 PROVE  Matched'
      BY <1>1, <1>6 DEF Matched
    <3> QED BY <1>7, <2>1, <2>2 DEF Matched
  <2>5. (~up => ~Asking') /\ asking' \in [Tokens -> Nat]
    BY <1>6, <2>1 DEF IInv, Shape, Asking
  <2> QED BY <1>1, <1>4, <1>6, <2>1, <2>2, <2>3, <2>4, <2>5, QuietKeeps DEF telegram
<1>12. CASE c.kind = "stop"
  <2>1. Down /\ UNCHANGED <<rows, worker, loops, forgotten, repeats>>
    BY <1>5, <1>12
  <2>2. ~started
    BY <1>2, <1>12 DEF IInv, Shape
  <2>3. loops = {} /\ worker = None
    BY <1>1, <2>2 DEF IInv, Shape
  <2>4. started' = FALSE
    BY <1>1, <1>6, <2>2
  <2>5. RowsFit
    BY <2>1, RowsStay
  <2> QED BY <1>1, <1>4, <2>1, <2>3, <2>4, <2>5, DownKeeps DEF telegram
<1> QED BY <1>3, <1>6, <1>9, <1>10, <1>11, <1>12

\* The rest of a batch was sent.
LEMMA TodoSent ==
  ASSUME IInv, NEW l \in loops, NEW i \in 1..Len(l.todo)
  PROVE  l.todo[i] \in 1..Len(messages[l.token]) /\ l.token \in Tokens
<1>1. l \in Loops
  BY TheLoop DEF IInv
<1>2. /\ l.token \in Tokens /\ l.offset \in Int /\ l.todo \in Seq(Numbers)
      /\ forgotten[l.token] \in 0..MaxMessages /\ messages[l.token] \in Seq(1..MaxCodes)
  BY <1>1, BotAssumption DEF IInv, TypeOK, Loops, Offsets
<1>3. l.todo # <<>>
  BY <1>2
<1>4. /\ forgotten[l.token] < l.offset
      /\ l.offset + Len(l.todo) <= Len(messages[l.token]) + 1
      /\ l.todo[i] = l.offset + i - 1
  BY <1>3 DEF IInv, InOrder
<1>5. Len(l.todo) \in Nat /\ Len(messages[l.token]) \in Nat /\ forgotten[l.token] >= 0
      /\ forgotten[l.token] \in Int
  BY <1>2
<1> QED BY <1>2, <1>4, <1>5

\* The rows change and nothing else: the code goes, or a new one comes.
LEMMA CodesKeep ==
  ASSUME IInv, UNCHANGED <<bot, process, telegram, history, made, starts>>,
         codes' \in 0..MaxCodes, codes <= codes',
         code' \in 1..codes' \cup {None}, bot = None => code' = None,
         code' = None \/ code' = codes + 1,
         account' = account \/ account' = None
  PROVE  IInv'
<1> USE DEF process, telegram, history
<1>1. TypeOK'
  BY DEF IInv, TypeOK
<1>2. Shape' /\ Single' /\ Matched'
  BY DEF IInv, Shape, Single, Matched, Asking
<1>3. codes \in Nat
  BY DEF IInv, TypeOK
<1>4. \A t \in Tokens : \A i \in 1..Len(messages[t]) : messages[t][i] \in 1..codes
  BY DEF IInv, CodesKnown
<1>5. CodesKnown'
  <2>1. codes' \in Int
    OBVIOUS
  <2>2. 1..codes \subseteq 1..codes'
    BY <1>3, <2>1
  <2> QED BY <1>4, <2>2 DEF CodesKnown
<1>6. Linked'
  <2> SUFFICES ASSUME ~overlapped
               PROVE  /\ account' # None => account' = bot.token
                      /\ \A l \in loops : \A i \in 1..Len(l.todo) :
                           code' = None \/ messages[l.token][l.todo[i]] # code'
    BY DEF Linked
  <2>1. account' # None => account' = bot.token
    BY DEF IInv, Linked
  <2>2. ASSUME NEW l \in loops, NEW i \in 1..Len(l.todo)
        PROVE  code' = None \/ messages[l.token][l.todo[i]] # code'
    <3>1. messages[l.token][l.todo[i]] \in 1..codes
      BY <1>4, TodoSent
    <3> QED BY <1>3, <3>1
  <2> QED BY <2>1, <2>2
<1>7. InOrder' /\ Once' /\ Kept'
  BY DEF IInv, InOrder, Once, Kept, Done
<1> QED BY <1>1, <1>2, <1>5, <1>6, <1>7 DEF IInv

LEMMA UserKeeps ==
  ASSUME IInv, CreateLink \/ Unlink \/ CodeExpires
  PROVE  IInv'
<1>1. codes \in 0..MaxCodes /\ MaxCodes \in Nat
  BY BotAssumption DEF IInv, TypeOK
<1>2. CASE CreateLink
  <2>1. codes' = codes + 1 /\ code' = codes + 1 /\ bot # None /\ codes < MaxCodes
        /\ account' = account
        /\ UNCHANGED <<bot, process, telegram, history, made, starts>>
    BY <1>2 DEF CreateLink
  <2>2. codes' \in 0..MaxCodes /\ codes <= codes' /\ code' \in 1..codes'
    BY <1>1, <2>1
  <2> QED BY <2>1, <2>2, CodesKeep
<1>3. CASE Unlink \/ CodeExpires
  <2>1. codes' = codes /\ code' = None /\ (account' = account \/ account' = None)
        /\ UNCHANGED <<bot, process, telegram, history, made, starts>>
    BY <1>3 DEF Unlink, CodeExpires
  <2>2. codes' \in 0..MaxCodes /\ codes <= codes'
    BY <1>1, <2>1
  <2> QED BY <2>1, <2>2, CodesKeep
<1> QED BY <1>2, <1>3

LEMMA SendKeeps ==
  ASSUME IInv, NEW token \in Tokens, NEW n \in 1..MaxCodes, Send(token, n)
  PROVE  IInv'
<1> USE DEF rows, process, history
<1>1. /\ n \in 1..codes /\ Len(messages[token]) < MaxMessages
      /\ messages' = [messages EXCEPT ![token] = Append(@, n)]
      /\ UNCHANGED <<rows, process, forgotten, history, made, starts>>
  BY DEF Send
<1>2. messages \in [Tokens -> Seq(1..MaxCodes)] /\ MaxMessages \in Nat
      /\ \A t \in Tokens : Len(messages[t]) <= MaxMessages
  BY BotAssumption DEF IInv, TypeOK
<1>3. /\ Append(messages[token], n) \in Seq(1..MaxCodes)
      /\ Len(messages[token]) \in Nat
      /\ Len(Append(messages[token], n)) = Len(messages[token]) + 1
      /\ \A i \in 1..Len(messages[token]) : Append(messages[token], n)[i] = messages[token][i]
      /\ Append(messages[token], n)[Len(messages[token]) + 1] = n
  BY <1>2
<1> DEFINE longer == Append(messages[token], n)
<1>4. longer \in Seq(1..MaxCodes) /\ Len(longer) = Len(messages[token]) + 1
  BY <1>3
<1>5. /\ \A t \in Tokens : t # token => messages'[t] = messages[t]
      /\ messages'[token] = longer
      /\ messages' \in [Tokens -> Seq(1..MaxCodes)]
  BY <1>1, <1>2, <1>4
<1>6. \A t \in Tokens : /\ Len(messages[t]) \in Nat /\ Len(messages'[t]) \in Nat
                        /\ Len(messages[t]) <= Len(messages'[t])
                        /\ Len(messages'[t]) <= MaxMessages
                        /\ \A i \in 1..Len(messages[t]) : messages'[t][i] = messages[t][i]
  <2> TAKE t \in Tokens
  <2>1. messages[t] \in Seq(1..MaxCodes)
    BY <1>2
  <2>2. CASE t = token
    BY <1>1, <1>2, <1>3, <1>5, <2>2
  <2>3. CASE t # token
    BY <1>2, <1>5, <2>1, <2>3
  <2> QED BY <2>2, <2>3
<1>7. TypeOK'
  BY <1>1, <1>5, <1>6 DEF IInv, TypeOK
<1>8. Shape' /\ Single' /\ Matched'
  BY <1>1 DEF IInv, Shape, Single, Matched, Asking
<1>9. CodesKnown'
  <2> SUFFICES ASSUME NEW t \in Tokens, NEW i \in 1..Len(messages'[t])
               PROVE  messages'[t][i] \in 1..codes
    BY <1>1 DEF CodesKnown
  <2>1. CASE i \in 1..Len(messages[t])
    BY <1>6, <2>1 DEF IInv, CodesKnown
  <2>2. CASE i \notin 1..Len(messages[t])
    <3>1. t = token
      BY <1>5, <2>2
    <3>2. i = Len(messages[token]) + 1
      BY <1>3, <1>4, <1>5, <2>2, <3>1
    <3> QED BY <1>1, <1>3, <1>5, <3>1, <3>2
  <2> QED BY <2>1, <2>2
<1>10. Linked'
  <2> SUFFICES ASSUME ~overlapped
               PROVE  Linked'
    BY <1>1 DEF Linked
  <2>1. \A l \in loops : \A i \in 1..Len(l.todo) :
          messages'[l.token][l.todo[i]] = messages[l.token][l.todo[i]]
    BY <1>6, TodoSent
  <2> QED BY <1>1, <2>1 DEF IInv, Linked
<1>11. InOrder'
  <2>1. \A l \in loops : l.token \in Tokens /\ l.offset \in Int /\ Len(l.todo) \in Nat
    BY TheLoop, BotAssumption DEF IInv, Loops, Offsets
  <2> SUFFICES ASSUME NEW l \in loops, l.at = "reply"
               PROVE  l.todo = <<>> \/ (l.offset + Len(l.todo) <= Len(messages'[l.token]) + 1)
    BY <1>1 DEF IInv, InOrder
  <2>2. l.todo = <<>> \/ (l.offset + Len(l.todo) <= Len(messages[l.token]) + 1)
    BY DEF IInv, InOrder
  <2>3. /\ Len(messages[l.token]) \in Nat /\ Len(messages'[l.token]) \in Nat
        /\ Len(messages[l.token]) <= Len(messages'[l.token])
    BY <1>6, <2>1
  <2> QED BY <2>1, <2>2, <2>3
<1>12. Once' /\ Kept'
  BY <1>1 DEF IInv, Once, Kept, Done
<1> QED BY <1>7, <1>8, <1>9, <1>10, <1>11, <1>12 DEF IInv

-----------------------------------------------------------------------------
(* The theorems. *)

(***************************************************************************)
(* No bot and no message: the invariant holds at the start.                *)
(***************************************************************************)
THEOREM InitHolds == Init => IInv
<1> SUFFICES ASSUME Init
             PROVE  IInv
  OBVIOUS
<1> USE DEF Init
<1>0. <<>> \in Seq(Calls) /\ Len(<<>>) = 0 /\ <<>> \in Seq(1..MaxCodes)
      /\ MaxCalls \in Nat /\ MaxCodes \in Nat /\ MaxMessages \in Nat /\ MaxStarts \in Nat
  BY BotAssumption
<1>1. TypeOK
  <2>1. messages \in [Tokens -> Seq(1..MaxCodes)]
    BY <1>0
  <2>2. \A t \in Tokens : Len(messages[t]) <= MaxMessages
    BY <1>0
  <2>3. handled \in Counts
    BY DEF Counts
  <2>4. forgotten \in [Tokens -> 0..MaxMessages] /\ asking \in [Tokens -> Nat]
    BY <1>0
  <2>5. codes \in 0..MaxCodes /\ made \in 0..MaxCalls /\ starts \in 0..MaxStarts
    BY <1>0
  <2>6. calls \in Seq(Calls) /\ due \in Seq(Calls)
    BY <1>0
  <2> QED BY <2>1, <2>2, <2>3, <2>4, <2>5, <2>6 DEF TypeOK
<1>2. Shape
  BY <1>0 DEF Shape, Asking
<1>3. Single /\ Matched /\ Linked /\ InOrder /\ Once
  BY DEF Single, Matched, Linked, InOrder, Once
<1>4. CodesKnown
  BY <1>0 DEF CodesKnown
<1>5. Kept
  <2>1. \A n \in Numbers : ~(n < 1)
    BY <1>0 DEF Numbers
  <2>2. \A t \in Tokens : Done(t, forgotten[t] + 1)
    BY <2>1 DEF Done
  <2> QED BY <1>0, <2>2 DEF Kept
<1> QED BY <1>1, <1>2, <1>3, <1>4, <1>5 DEF IInv

(***************************************************************************)
(* Every step of a call, a loop, Telegram or the process keeps it, also    *)
(* when calls overlap.                                                     *)
(***************************************************************************)
THEOREM NextKeeps == IInv /\ [Next]_vars => IInv'
<1> SUFFICES ASSUME IInv, [Next]_vars
             PROVE  IInv'
  OBVIOUS
<1>1. CASE Start \/ Stop \/ Crash
  BY <1>1, BeginKeeps, StopKeeps, CrashKeeps
<1>2. CASE \E t \in Tokens : Configure(t)
  BY <1>2, ConfigureKeeps
<1>3. CASE Named
  BY <1>3, GetMeAnswerKeeps, GetMeFailureKeeps DEF Named
<1>4. CASE Remove \/ Resume
  BY <1>4, RemoveKeeps, ResumeKeeps
<1>5. CASE CreateLink \/ Unlink \/ CodeExpires
  BY <1>5, UserKeeps
<1>6. CASE \E t \in Tokens, n \in 1..MaxCodes : Send(t, n)
  BY <1>6, SendKeeps
<1>7. CASE Arrivals
  BY <1>7, ArrivalKeeps DEF Arrivals
<1>8. CASE Replies
  BY <1>8, ReplyKeeps, ReplyFailureKeeps DEF Replies
<1>9. CASE Aborts \/ Failures
  BY <1>9, FailureKeeps DEF Aborts, Failures
<1>10. CASE Delays
  BY <1>10, DelayOverKeeps DEF Delays
<1>11. CASE UNCHANGED vars
  <2> USE <1>11 DEF vars, rows, process, telegram, history
  <2>1. TypeOK'
    BY DEF IInv, TypeOK
  <2>2. Shape' /\ Single' /\ Matched'
    BY DEF IInv, Shape, Single, Matched, Asking
  <2>3. Linked' /\ CodesKnown' /\ InOrder' /\ Once' /\ Kept'
    BY DEF IInv, Linked, CodesKnown, InOrder, Once, Kept, Done
  <2> QED BY <2>1, <2>2, <2>3 DEF IInv
<1> QED BY <1>1, <1>2, <1>3, <1>4, <1>5, <1>6, <1>7, <1>8, <1>9, <1>10, <1>11 DEF Next

(***************************************************************************)
(* The invariant holds in every behaviour of TelegramService.              *)
(***************************************************************************)
THEOREM Invariant == Spec => []IInv
BY InitHolds, NextKeeps, PTL DEF Spec

(***************************************************************************)
(* The variables of the service and of Telegram keep their types.          *)
(***************************************************************************)
THEOREM TypeCorrect == Spec => []TypeOK
BY Invariant, PTL DEF IInv

(***************************************************************************)
(* One loop at a time reads a user's messages, also when calls of          *)
(* configureBot and removeBot overlap; between calls it reads those of the *)
(* bot that is configured.                                                 *)
(***************************************************************************)
THEOREM ReadByOne == Spec => []OnePoller
<1>1. IInv => OnePoller
  <2> SUFFICES ASSUME IInv
               PROVE  OnePoller
    OBVIOUS
  <2>1. Cardinality(loops) <= 1
    <3>1. CASE loops = {}
      <4>1. Cardinality({}) = 0
        BY FS_EmptySet
      <4> QED BY <3>1, <4>1
    <3>2. CASE \E l \in loops : loops = {l}
      <4>1. PICK l \in loops : loops = {l}
        BY <3>2
      <4>2. Cardinality({l}) = 1
        BY FS_Singleton
      <4> QED BY <4>1, <4>2
    <3> QED BY <3>1, <3>2 DEF IInv, Shape
  <2>2. ASSUME started, up, Settled, ~Asking, calls = <<>>, ~overlapped
        PROVE  IF bot = None THEN worker = None
               ELSE worker # None /\ Loop(worker).token = bot.token /\ ~Loop(worker).aborted
    <3>1. CASE bot = None
      <4>1. loops = {}
        BY <2>2, <3>1 DEF IInv, Matched, Settled
      <4> QED BY <3>1, <4>1 DEF IInv, Shape
    <3>2. CASE bot # None
      <4>1. PICK l \in loops : l.token = bot.token
        BY <2>2, <3>2 DEF IInv, Matched, Settled
      <4>2. loops = {l} /\ worker = l.id /\ l \in Loops
        BY TheLoop DEF IInv
      <4>3. ~l.aborted
        BY <2>2 DEF IInv, Shape
      <4>4. l.id # None
        BY <4>2, BotAssumption DEF Loops
      <4>5. Loop(worker) = l
        BY <4>2 DEF Loop
      <4> QED BY <3>2, <4>1, <4>2, <4>3, <4>4, <4>5
    <3> QED BY <3>1, <3>2
  <2> QED BY <2>1, <2>2 DEF OnePoller
<1> QED BY <1>1, Invariant, PTL

(***************************************************************************)
(* The account is linked by the bot there is: a worker that still handles  *)
(* messages of a replaced bot finds no code of the new one in them.        *)
(***************************************************************************)
THEOREM LinkedByTheBot == Spec => []LinkedByBot
<1>1. IInv => LinkedByBot
  BY DEF IInv, TypeOK, Linked, LinkedByBot
<1> QED BY <1>1, Invariant, PTL

(***************************************************************************)
(* What Telegram has forgotten was handled, across failures, crashes and   *)
(* bots that come and go, unless a worker stored its offset with another   *)
(* bot's row.                                                              *)
(***************************************************************************)
THEOREM NoneSkipped == Spec => []NothingSkipped
<1>1. IInv => NothingSkipped
  <2> SUFFICES ASSUME IInv, ~late, NEW t \in Tokens, NEW n \in 1..Len(messages[t]),
                      n <= forgotten[t]
               PROVE  handled[t][n] > 0
    BY DEF NothingSkipped
  <2>1. /\ MaxMessages \in Nat /\ forgotten[t] \in 0..MaxMessages
        /\ messages[t] \in Seq(1..MaxCodes) /\ Len(messages[t]) <= MaxMessages
    BY BotAssumption DEF IInv, TypeOK
  <2>2. n \in Numbers /\ n < forgotten[t] + 1
    BY <2>1 DEF Numbers
  <2> QED BY <2>2 DEF IInv, Kept, Done
<1> QED BY <1>1, Invariant, PTL

(***************************************************************************)
(* A message is handled twice only if a worker was started with an offset  *)
(* before a message that was handled.                                      *)
(***************************************************************************)
THEOREM NoneRepeated == Spec => []RepeatsExplained
<1>1. IInv => RepeatsExplained
  <2> SUFFICES ASSUME IInv, ~repeats, NEW t \in Tokens, NEW n \in Numbers, handled[t][n] > 1
               PROVE  FALSE
    BY DEF RepeatsExplained
  <2>1. handled[t][n] \in 0..2
    BY DEF IInv, TypeOK, Counts
  <2>2. handled[t][n] <= 1
    BY DEF IInv, Once
  <2> QED BY <2>1, <2>2
<1> QED BY <1>1, Invariant, PTL
=============================================================================
