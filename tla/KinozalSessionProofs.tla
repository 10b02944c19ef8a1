------------------------ MODULE KinozalSessionProofs ------------------------
(***************************************************************************)
(* Theorems about KinozalSession, for any number of callers, clients,      *)
(* accounts and events: its variables keep their types, and the sign-ins   *)
(* of a session entry are limited by the callers that share it.            *)
(*                                                                         *)
(* The argument counts the callers.  While the entry is not paused, every  *)
(* sign-in that was counted is a form in the client's queue; once it is    *)
(* paused, only callers that had asked for the landing page before can     *)
(* still submit the form, and each of them does so once.                   *)
(***************************************************************************)
EXTENDS KinozalSession, FiniteSetTheorems, TLAPS

Ops(q) == {q[i] : i \in 1..Len(q)}

\* A caller has one operation in a queue.
Unique(q) ==
  \A i, j \in 1..Len(q) : q[i].who = q[j].who /\ q[i].who # None => i = j

Waiting(c, kind) == {p \in Callers : [who |-> p, kind |-> kind] \in Ops(browser[c].queue)}

(***************************************************************************)
(* A client that was used has the account it was made for.                 *)
(***************************************************************************)
Used ==
  /\ \A c \in Clients : \/ entry[c].account \in Accounts
                        \/ entry[c] = Fresh /\ browser[c] = Unused /\ attempts[c] = 0
  /\ current # None => entry[current].account \in Accounts
  /\ \A p \in Callers : \/ caller[p] = Idle
                        \/ /\ caller[p].at # "out" /\ caller[p].client \in Clients
                           /\ caller[p].account \in Accounts

(***************************************************************************)
(* A caller has one operation at a time, with the client it holds, and a   *)
(* client that does something does it for one of them.                     *)
(***************************************************************************)
Placed ==
  \A c \in Clients :
    /\ Unique(browser[c].queue)
    /\ browser[c].at = "rest" \/ browser[c].queue # <<>>
    /\ \A o \in Ops(browser[c].queue) : o.who # None =>
         /\ caller[o.who].client = c
         /\ caller[o.who].at = (IF o.kind = "close" THEN "replacing" ELSE "waiting")

(***************************************************************************)
(* The sign-ins counted are those that wait for the form, or, in a pause,  *)
(* of callers that do not wait for the landing page any more.              *)
(***************************************************************************)
Limited ==
  \A c \in Clients :
    /\ ~entry[c].paused => attempts[c] <= Cardinality(Waiting(c, "form"))
    /\ entry[c].paused => attempts[c] <= Cardinality(Callers \ Waiting(c, "landing"))

IInv == TypeOK /\ Used /\ Placed /\ Limited
-----------------------------------------------------------------------------
(* Queues. *)

LEMMA TailOps ==
  ASSUME NEW q \in Seq(Operations), q # <<>>, Unique(q)
  PROVE  /\ Tail(q) \in Seq(Operations) /\ Unique(Tail(q)) /\ Head(q) \in Ops(q)
         /\ \A o \in Operations : o.who # None =>
              (o \in Ops(Tail(q)) <=> o \in Ops(q) /\ o.who # Head(q).who)
<1>1. /\ Tail(q) \in Seq(Operations) /\ Len(Tail(q)) = Len(q) - 1 /\ Len(q) \in Nat \ {0}
      /\ \A i \in 1..Len(Tail(q)) : Tail(q)[i] = q[i + 1]
      /\ Head(q) = q[1]
  OBVIOUS
<1>2. \A i \in 1..Len(Tail(q)) : i + 1 \in 1..Len(q) /\ i \in Nat /\ i + 1 # 1
  BY <1>1
<1>3. 1 \in 1..Len(q)
  BY <1>1
<1>4. Head(q) \in Ops(q)
  BY <1>1, <1>3 DEF Ops
<1>5. Unique(Tail(q))
  <2> SUFFICES ASSUME NEW i \in 1..Len(Tail(q)), NEW j \in 1..Len(Tail(q)),
                      Tail(q)[i].who = Tail(q)[j].who, Tail(q)[i].who # None
               PROVE  i = j
    BY DEF Unique
  <2>1. i + 1 = j + 1
    BY <1>1, <1>2 DEF Unique
  <2> QED BY <1>2, <2>1
<1>6. ASSUME NEW o \in Operations, o.who # None
      PROVE  o \in Ops(Tail(q)) <=> o \in Ops(q) /\ o.who # Head(q).who
  <2>1. ASSUME o \in Ops(Tail(q))
        PROVE  o \in Ops(q) /\ o.who # Head(q).who
    <3>1. PICK i \in 1..Len(Tail(q)) : o = Tail(q)[i]
      BY <2>1 DEF Ops
    <3>2. i + 1 \in 1..Len(q) /\ o = q[i + 1] /\ i + 1 # 1
      BY <1>1, <1>2, <3>1
    <3> QED BY <1>1, <1>3, <1>6, <3>2 DEF Unique, Ops
  <2>2. ASSUME o \in Ops(q), o.who # Head(q).who
        PROVE  o \in Ops(Tail(q))
    <3>1. PICK i \in 1..Len(q) : o = q[i]
      BY <2>2 DEF Ops
    <3>2. i # 1
      BY <1>1, <2>2, <3>1
    <3>3. i - 1 \in 1..Len(Tail(q)) /\ (i - 1) + 1 = i
      BY <1>1, <3>2
    <3>4. Tail(q)[i - 1] = o
      BY <1>1, <3>1, <3>3
    <3> QED BY <3>3, <3>4 DEF Ops
  <2> QED BY <2>1, <2>2
<1> QED BY <1>1, <1>4, <1>5, <1>6

LEMMA AppendOps ==
  ASSUME NEW q \in Seq(Operations), NEW o \in Operations, Unique(q),
         o.who # None => \A x \in Ops(q) : x.who # o.who
  PROVE  /\ Append(q, o) \in Seq(Operations) /\ Unique(Append(q, o))
         /\ Ops(Append(q, o)) = Ops(q) \cup {o}
<1> DEFINE r == Append(q, o)
<1>1. /\ r \in Seq(Operations) /\ Len(r) = Len(q) + 1 /\ Len(q) \in Nat
      /\ \A i \in 1..Len(q) : r[i] = q[i]
      /\ r[Len(q) + 1] = o
  OBVIOUS
<1> HIDE DEF r
<1>2. \A i \in 1..Len(r) : i \in 1..Len(q) \/ i = Len(q) + 1
  BY <1>1
<1>3. \A i \in 1..Len(q) : i \in 1..Len(r) /\ q[i] \in Ops(q)
  BY <1>1 DEF Ops
<1>4. Len(q) + 1 \in 1..Len(r)
  BY <1>1
<1>5. Unique(r)
  <2> SUFFICES ASSUME NEW i \in 1..Len(r), NEW j \in 1..Len(r),
                      r[i].who = r[j].who, r[i].who # None
               PROVE  i = j
    BY DEF Unique
  <2>1. CASE i \in 1..Len(q) /\ j \in 1..Len(q)
    BY <1>1, <2>1 DEF Unique
  <2>2. CASE i = Len(q) + 1 /\ j = Len(q) + 1
    BY <2>2
  <2>3. CASE i = Len(q) + 1 /\ j \in 1..Len(q)
    BY <1>1, <1>3, <2>3
  <2>4. CASE j = Len(q) + 1 /\ i \in 1..Len(q)
    BY <1>1, <1>3, <2>4
  <2> QED BY <1>2, <2>1, <2>2, <2>3, <2>4
<1>6. Ops(r) = Ops(q) \cup {o}
  <2>1. \A x \in Ops(r) : x \in Ops(q) \cup {o}
    BY <1>1, <1>2 DEF Ops
  <2>2. \A x \in Ops(q) \cup {o} : x \in Ops(r)
    BY <1>1, <1>3, <1>4 DEF Ops
  <2> QED BY <2>1, <2>2
<1> QED BY <1>1, <1>5, <1>6 DEF r

LEMMA OpsTyped ==
  ASSUME NEW q \in Seq(Operations)
  PROVE  Ops(q) \subseteq Operations
BY DEF Ops
-----------------------------------------------------------------------------
(* Steps of the clients that do not wake a caller. *)

\* A client goes on: its callers wait as they did.
BrowserGoesOn(c) ==
  /\ entry[c].account \in Accounts
  /\ \E b \in Browsers :
       /\ browser' = [browser EXCEPT ![c] = b]
       /\ Unique(b.queue) /\ (b.at = "rest" \/ b.queue # <<>>)
       /\ \A o \in Operations : o.who # None => (o \in Ops(b.queue) <=> o \in Ops(browser[c].queue))

LEMMA GoesOnKeeps ==
  ASSUME IInv, NEW c \in Clients, BrowserGoesOn(c),
         UNCHANGED <<account, current, entry, caller, attempts>>,
         cookie' \in Accounts \cup {None}, events' \in 0..MaxEvents
  PROVE  IInv'
<1>1. PICK b \in Browsers :
         /\ browser' = [browser EXCEPT ![c] = b]
         /\ Unique(b.queue) /\ (b.at = "rest" \/ b.queue # <<>>)
         /\ \A o \in Operations : o.who # None => (o \in Ops(b.queue) <=> o \in Ops(browser[c].queue))
  BY DEF BrowserGoesOn
<1>2. browser \in [Clients -> Browsers]
  BY DEF IInv, TypeOK
<1>3. /\ browser' \in [Clients -> Browsers] /\ browser'[c] = b
      /\ \A d \in Clients : d # c => browser'[d] = browser[d]
  BY <1>1, <1>2
<1>4. TypeOK'
  BY <1>3 DEF IInv, TypeOK
<1>5. Used'
  BY <1>3, KinozalAssumption DEF IInv, Used, BrowserGoesOn
<1>6. Placed'
  <2>1. \A o \in Ops(b.queue) : o \in Operations
    BY OpsTyped DEF Browsers
  <2> QED BY <1>1, <1>3, <2>1 DEF IInv, Placed
<1>7. \A d \in Clients, kind \in Kinds : Waiting(d, kind)' = Waiting(d, kind)
  <2> SUFFICES ASSUME NEW d \in Clients, NEW kind \in Kinds, NEW p \in Callers
               PROVE  [who |-> p, kind |-> kind] \in Ops(browser'[d].queue) <=>
                        [who |-> p, kind |-> kind] \in Ops(browser[d].queue)
    BY DEF Waiting
  <2>1. [who |-> p, kind |-> kind] \in Operations /\ [who |-> p, kind |-> kind].who # None
    BY KinozalAssumption DEF Operations
  <2> QED BY <1>1, <1>3, <2>1
<1>8. Limited'
  <2>1. "form" \in Kinds /\ "landing" \in Kinds
    BY DEF Kinds
  <2> QED BY <1>7, <2>1 DEF IInv, Limited
<1> QED BY <1>4, <1>5, <1>6, <1>8 DEF IInv

\* The state of a client after a step that leaves its queue alone.
LEMMA QueueStays ==
  ASSUME IInv, NEW c \in Clients, NEW b \in Browsers, entry[c].account \in Accounts,
         Step(c, b), b.queue = browser[c].queue,
         b.at = browser[c].at \/ b.queue # <<>>
  PROVE  BrowserGoesOn(c)
BY DEF BrowserGoesOn, Step, IInv, Placed

LEMMA ResetTyped ==
  ASSUME NEW b \in Browsers
  PROVE  Reset(b) \in Browsers /\ Reset(b).queue = b.queue
BY DEF Reset, Browsers

LEMMA EndedTyped ==
  ASSUME NEW b \in Browsers, b.queue # <<>>
  PROVE  Ended(b) \in Browsers /\ Ended(b).queue = Tail(b.queue) /\ Ended(b).at = "rest"
<1>1. Tail(b.queue) \in Seq(Operations) /\ (Len(b.queue) = 1 /\ Context(b)) \in BOOLEAN
  BY DEF Browsers
<1> QED BY <1>1 DEF Ended, Browsers

LEMMA EnqueuedTyped ==
  ASSUME NEW b \in Browsers, NEW o \in Operations
  PROVE  Enqueued(b, o) \in Browsers /\ Enqueued(b, o).queue = Append(b.queue, o)
<1>1. Append(b.queue, o) \in Seq(Operations)
  BY DEF Browsers
<1> QED BY <1>1 DEF Enqueued, Browsers

\* A client that does something was used.
LEMMA Working ==
  ASSUME IInv, NEW c \in Clients,
         \/ browser[c].queue # <<>> \/ browser[c].chrome # "none"
         \/ browser[c].at # "rest" \/ browser[c].timer
  PROVE  entry[c].account \in Accounts
BY DEF IInv, Used, Unused

LEMMA ClientKeeps ==
  ASSUME IInv, NEW c \in Clients,
         \/ UNCHANGED unbrowsed /\ (Proceeds(c) \/ IdleFires(c))
         \/ ChromeFails(c)
  PROVE  IInv'
<1> DEFINE b == browser[c]
<1>1. b \in Browsers
  BY DEF IInv, TypeOK
<1>2. b.queue \in Seq(Operations) /\ Unique(b.queue)
  BY <1>1 DEF Browsers, IInv, Placed
<1>3. ASSUME BrowserGoesOn(c)
      PROVE  IInv'
  <2>1. UNCHANGED <<account, current, entry, caller, attempts, cookie>>
        /\ (events' = events \/ Event)
    BY DEF unbrowsed, ChromeFails
  <2>2. cookie' \in Accounts \cup {None} /\ events' \in 0..MaxEvents
    <3>1. events \in 0..MaxEvents /\ MaxEvents \in Nat /\ cookie \in Accounts \cup {None}
      BY KinozalAssumption DEF IInv, TypeOK
    <3> QED BY <2>1, <3>1 DEF Event
  <2> QED BY <1>3, <2>1, <2>2, GoesOnKeeps
<1>4. CASE Begin(c)
  <2>1. b.queue # <<>>
    BY <1>4 DEF Begin
  <2>2. entry[c].account \in Accounts
    BY <2>1, Working
  <2> DEFINE n == IF Running(c).kind = "close" THEN [Reset(b) EXCEPT !.at = "close"]
                  ELSE IF Context(b) /\ ~b.old THEN [b EXCEPT !.at = "load"]
                  ELSE [Reset(b) EXCEPT !.at = "launch"]
  <2>3. Step(c, n)
    BY <1>4 DEF Begin
  <2>4. Reset(b) \in Browsers /\ Reset(b).queue = b.queue
    BY <1>1, ResetTyped
  <2>5. n \in Browsers /\ n.queue = b.queue
    BY <1>1, <2>4 DEF Browsers
  <2> HIDE DEF n
  <2> QED BY <1>3, <2>1, <2>2, <2>3, <2>5, QueueStays
<1>5. CASE ChromeEnds(c) \/ Launch(c) \/ Repeat(c) \/ Dies(c) \/ Ages(c)
  <2>1. entry[c].account \in Accounts
    BY <1>5, Working DEF ChromeEnds, Launch, CanLaunch, Repeat, Dies, Ages
  <2>2. Reset(b) \in Browsers /\ Reset(b).queue = b.queue
    BY <1>1, ResetTyped
  <2> DEFINE Fits(n) == /\ n \in Browsers /\ n.queue = b.queue /\ Step(c, n)
                        /\ n.at = b.at \/ n.queue # <<>>
  <2>3. CASE ChromeEnds(c)
    <3> DEFINE n == [b EXCEPT !.chrome = "none"]
    <3>1. Fits(n)
      BY <1>1, <2>3 DEF ChromeEnds, Browsers
    <3> QED BY <1>3, <2>1, <3>1, QueueStays
  <2>4. CASE Launch(c)
    <3> DEFINE n == [b EXCEPT !.chrome = "up", !.at = "load"]
    <3>1. b.queue # <<>>
      BY <2>4 DEF Launch, CanLaunch, IInv, Placed
    <3>2. Fits(n)
      BY <1>1, <2>4, <3>1 DEF Launch, Browsers
    <3> QED BY <1>3, <2>1, <3>2, QueueStays
  <2>5. CASE Repeat(c)
    <3> DEFINE n == [Reset(b) EXCEPT !.at = "launch", !.again = TRUE]
    <3>1. b.queue # <<>>
      BY <2>5 DEF Repeat, IInv, Placed
    <3>2. n \in Browsers /\ n.queue = b.queue
      BY <2>2 DEF Browsers
    <3>3. Fits(n)
      BY <2>5, <3>1, <3>2 DEF Repeat
    <3> QED BY <1>3, <2>1, <3>3, QueueStays
  <2>6. CASE Dies(c)
    <3> DEFINE n == [b EXCEPT !.chrome = "dead"]
    <3>1. Fits(n)
      BY <1>1, <2>6 DEF Dies, Browsers
    <3> QED BY <1>3, <2>1, <3>1, QueueStays
  <2>7. CASE Ages(c)
    <3> DEFINE n == [b EXCEPT !.old = TRUE]
    <3>1. Fits(n)
      BY <1>1, <2>7 DEF Ages, Browsers
    <3> QED BY <1>3, <2>1, <3>1, QueueStays
  <2> QED BY <1>5, <2>3, <2>4, <2>5, <2>6, <2>7
<1>6. CASE IdleClosed(c)
  <2>1. entry[c].account \in Accounts
    BY <1>6, Working DEF IdleClosed
  <2>2. b.queue # <<>> /\ Head(b.queue).who = None /\ Step(c, Ended(b))
    BY <1>6 DEF IdleClosed, Running, IInv, Placed
  <2>3. Ended(b) \in Browsers /\ Ended(b).queue = Tail(b.queue) /\ Ended(b).at = "rest"
    BY <1>1, <2>2, EndedTyped
  <2>4. /\ Unique(Tail(b.queue))
        /\ \A o \in Operations : o.who # None => (o \in Ops(Tail(b.queue)) <=> o \in Ops(b.queue))
    BY <1>2, <2>2, TailOps
  <2>5. BrowserGoesOn(c)
    BY <2>1, <2>2, <2>3, <2>4 DEF BrowserGoesOn, Step
  <2> QED BY <1>3, <2>5
<1>7. CASE IdleFires(c)
  <2>1. entry[c].account \in Accounts
    BY <1>7, Working DEF IdleFires
  <2> DEFINE o == [who |-> None, kind |-> "close"]
  <2>2. o \in Operations /\ o.who = None /\ Step(c, Enqueued(b, o))
    BY <1>7 DEF IdleFires, Operations, Kinds
  <2> HIDE DEF o
  <2>3. Enqueued(b, o) \in Browsers /\ Enqueued(b, o).queue = Append(b.queue, o)
    BY <1>1, <2>2, EnqueuedTyped
  <2>4. Unique(Append(b.queue, o)) /\ Ops(Append(b.queue, o)) = Ops(b.queue) \cup {o}
    BY <1>2, <2>2, AppendOps
  <2>5. Append(b.queue, o) # <<>>
    BY <1>2
  <2>6. BrowserGoesOn(c)
    BY <2>1, <2>2, <2>3, <2>4, <2>5 DEF BrowserGoesOn, Step
  <2> QED BY <1>3, <2>6
<1> QED BY <1>4, <1>5, <1>6, <1>7 DEF Proceeds, ChromeFails

-----------------------------------------------------------------------------
(* The turn of a caller. *)

LEMMA Counts ==
  ASSUME NEW S \in SUBSET Callers
  PROVE  /\ Cardinality(S) \in Nat /\ Cardinality(S) <= Cardinality(Callers)
         /\ \A T \in SUBSET S : Cardinality(T) <= Cardinality(S)
         /\ \A p \in Callers : p \notin S => Cardinality(S \cup {p}) = Cardinality(S) + 1
<1>1. IsFiniteSet(Callers)
  BY KinozalAssumption
<1>2. IsFiniteSet(S) /\ Cardinality(S) <= Cardinality(Callers)
  BY <1>1, FS_Subset
<1>3. Cardinality(S) \in Nat
  BY <1>2, FS_CardinalityType
<1>4. \A T \in SUBSET S : Cardinality(T) <= Cardinality(S)
  BY <1>2, FS_Subset
<1>5. \A p \in Callers : p \notin S => Cardinality(S \cup {p}) = Cardinality(S) + 1
  BY <1>2, FS_AddElement
<1> QED BY <1>2, <1>3, <1>4, <1>5

LEMMA WaitingIs ==
  ASSUME IInv, NEW c \in Clients, NEW kind \in Kinds
  PROVE  Waiting(c, kind) \in SUBSET Callers
BY DEF Waiting

\* A caller waits for one thing.
LEMMA OneKind ==
  ASSUME IInv, NEW c \in Clients, NEW p \in Callers, p \in Waiting(c, "form")
  PROVE  p \notin Waiting(c, "landing")
<1> SUFFICES ASSUME p \in Waiting(c, "landing")
             PROVE  FALSE
  OBVIOUS
<1> DEFINE o(kind) == [who |-> p, kind |-> kind]
<1>1. PICK i \in 1..Len(browser[c].queue) : browser[c].queue[i] = o("form")
  BY DEF Waiting, Ops
<1>2. PICK j \in 1..Len(browser[c].queue) : browser[c].queue[j] = o("landing")
  BY DEF Waiting, Ops
<1>3. o("form").who = p /\ o("landing").who = p /\ o("form").kind # o("landing").kind
  OBVIOUS
<1>4. p # None
  BY KinozalAssumption
<1> HIDE DEF o
<1>5. i = j
  BY <1>1, <1>2, <1>3, <1>4 DEF IInv, Placed, Unique
<1> QED BY <1>1, <1>2, <1>3, <1>5

\* What a caller's operations with a client become in its turn.
OpsGo(p, c, q) ==
  /\ Unique(q)
  /\ \A o \in Operations :
       o.who # None => (o \in Ops(q) <=> o \in Ops(browser[c].queue) /\ o.who # p)

LEMMA GoOnKeeps ==
  ASSUME IInv, NEW p \in Callers, NEW c \in Clients, NEW b \in Browsers, NEW e \in Entries,
         NEW a \in Accounts, NEW kind \in {"landing", "form", "page", None}, NEW again \in BOOLEAN,
         OpsGo(p, c, b.queue), b.at = "rest" \/ b.queue # <<>>,
         caller[p].client \in {c, None},
         e.account \in Accounts,
         GoOn(p, c, b, e, a, kind, again),
         kind = "form" => e = entry[c] /\ p \in Waiting(c, "landing"),
         kind = "landing" => ~e.paused,
         p \in Waiting(c, "form") => e.paused \/ e.authenticated,
         current' \in {current, c},
         account' = account, cookie' \in Accounts \cup {None}, events' \in 0..MaxEvents
  PROVE  IInv'
<1> DEFINE op == [who |-> p, kind |-> kind]
           n == IF kind = None THEN b ELSE Enqueued(b, op)
           hers == IF kind = None THEN Idle
                   ELSE [at |-> "waiting", client |-> c, account |-> a, again |-> again]
           count == IF kind = "form" THEN attempts[c] + 1
                    ELSE IF ~e.paused /\ (entry[c].paused \/ e.authenticated)
                    THEN 0 ELSE attempts[c]
<1>1. p # None /\ None \notin Clients /\ None \notin Kinds /\ None \notin Accounts
  BY KinozalAssumption
<1>2. kind # None => kind \in Kinds /\ op \in Operations /\ op.who = p /\ op.kind = kind
                     /\ kind # "close"
  BY <1>1 DEF Kinds, Operations
<1>3. b.queue \in Seq(Operations)
  BY DEF Browsers
<1>4. \A x \in Ops(b.queue) : x \in Operations /\ x.who # p
  BY <1>1, <1>3, OpsTyped DEF OpsGo
<1>5. /\ n \in Browsers /\ Unique(n.queue) /\ (n.at = "rest" \/ n.queue # <<>>)
      /\ Ops(n.queue) = IF kind = None THEN Ops(b.queue) ELSE Ops(b.queue) \cup {op}
  <2>1. CASE kind = None
    BY <2>1 DEF OpsGo
  <2>2. CASE kind # None
    <3>1. n \in Browsers /\ n.queue = Append(b.queue, op)
      BY <1>2, <2>2, EnqueuedTyped
    <3>2. Unique(Append(b.queue, op)) /\ Ops(Append(b.queue, op)) = Ops(b.queue) \cup {op}
      BY <1>2, <1>3, <1>4, <2>2, AppendOps DEF OpsGo
    <3>3. Append(b.queue, op) # <<>>
      BY <1>3
    <3> QED BY <2>2, <3>1, <3>2, <3>3
  <2> QED BY <2>1, <2>2
<1>6. /\ browser' = [browser EXCEPT ![c] = n] /\ entry' = [entry EXCEPT ![c] = e]
      /\ caller' = [caller EXCEPT ![p] = hers] /\ attempts' = [attempts EXCEPT ![c] = count]
  BY DEF GoOn, Step
<1>7. /\ browser \in [Clients -> Browsers] /\ entry \in [Clients -> Entries]
      /\ attempts \in [Clients -> Nat]
      /\ caller \in [Callers -> [at : {"out", "replacing", "waiting"},
                                 client : Clients \cup {None},
                                 account : Accounts \cup {None}, again : BOOLEAN]]
  BY DEF IInv, TypeOK
<1>8. hers \in [at : {"out", "replacing", "waiting"}, client : Clients \cup {None},
                account : Accounts \cup {None}, again : BOOLEAN]
  BY DEF Idle
<1>9. /\ kind = None => hers = Idle
      /\ kind # None => hers.client = c /\ hers.at = "waiting" /\ hers.account = a
  OBVIOUS
<1>10. count \in Nat
  BY <1>7
<1>11. /\ kind = "form" => count = attempts[c] + 1
       /\ kind # "form" => count = 0 \/ (count = attempts[c]
                                          /\ ~(~e.paused /\ (entry[c].paused \/ e.authenticated)))
  OBVIOUS
<1> HIDE DEF n, hers, count, op
<1>12. /\ browser' \in [Clients -> Browsers] /\ browser'[c] = n
       /\ \A d \in Clients : d # c => browser'[d] = browser[d]
       /\ entry' \in [Clients -> Entries] /\ entry'[c] = e
       /\ \A d \in Clients : d # c => entry'[d] = entry[d]
       /\ attempts' \in [Clients -> Nat] /\ attempts'[c] = count
       /\ \A d \in Clients : d # c => attempts'[d] = attempts[d]
       /\ caller'[p] = hers /\ \A r \in Callers : r # p => caller'[r] = caller[r]
  BY <1>5, <1>6, <1>7, <1>10
<1>13. TypeOK'
  BY <1>6, <1>7, <1>8, <1>12 DEF IInv, TypeOK
<1>14. Used'
  <2>1. \A d \in Clients : \/ entry'[d].account \in Accounts
                           \/ entry'[d] = Fresh /\ browser'[d] = Unused /\ attempts'[d] = 0
    BY <1>12 DEF IInv, Used
  <2>2. current' # None => entry'[current'].account \in Accounts
    BY <1>12 DEF IInv, Used, TypeOK
  <2>3. \A r \in Callers : \/ caller'[r] = Idle
                           \/ /\ caller'[r].at # "out" /\ caller'[r].client \in Clients
                              /\ caller'[r].account \in Accounts
    BY <1>9, <1>12 DEF IInv, Used
  <2> QED BY <2>1, <2>2, <2>3 DEF Used
<1>15. \A d \in Clients : d # c => \A o \in Ops(browser[d].queue) : o.who # p
  BY <1>1 DEF IInv, Placed
<1>16. Placed'
  <2> SUFFICES ASSUME NEW d \in Clients
               PROVE  /\ Unique(browser'[d].queue)
                      /\ browser'[d].at = "rest" \/ browser'[d].queue # <<>>
                      /\ \A o \in Ops(browser'[d].queue) : o.who # None =>
                           /\ caller'[o.who].client = d
                           /\ caller'[o.who].at = (IF o.kind = "close" THEN "replacing"
                                                   ELSE "waiting")
    BY DEF Placed
  <2>1. \A q \in Operations : q.who # None => q.who \in Callers
    BY DEF Operations
  <2>2. CASE d # c
    <3>1. \A o \in Ops(browser[d].queue) : o \in Operations
      BY <1>7, OpsTyped DEF Browsers
    <3> QED BY <1>12, <1>15, <2>1, <2>2, <3>1 DEF IInv, Placed
  <2>3. CASE d = c
    <3>1. ASSUME NEW o \in Ops(b.queue), o.who # None
          PROVE  /\ caller'[o.who].client = c
                 /\ caller'[o.who].at = (IF o.kind = "close" THEN "replacing" ELSE "waiting")
      <4>1. o \in Operations /\ o.who # p /\ o.who \in Callers
        BY <1>4, <2>1, <3>1
      <4>2. o \in Ops(browser[c].queue)
        BY <3>1, <4>1 DEF OpsGo
      <4> QED BY <1>12, <3>1, <4>1, <4>2 DEF IInv, Placed
    <3> QED BY <1>2, <1>5, <1>9, <1>12, <2>3, <3>1
  <2> QED BY <2>2, <2>3
<1>17. "form" \in Kinds /\ "landing" \in Kinds
  BY DEF Kinds
<1>18. \A d \in Clients, k \in Kinds : d # c => Waiting(d, k)' = Waiting(d, k)
  BY <1>12 DEF Waiting
<1>19. \A k \in Kinds : Waiting(c, k)' = (Waiting(c, k) \ {p}) \cup (IF kind = k THEN {p} ELSE {})
  <2> SUFFICES ASSUME NEW k \in Kinds, NEW r \in Callers
               PROVE  [who |-> r, kind |-> k] \in Ops(n.queue) <=>
                        \/ r # p /\ [who |-> r, kind |-> k] \in Ops(browser[c].queue)
                        \/ r = p /\ kind = k
    BY <1>12 DEF Waiting
  <2> DEFINE o == [who |-> r, kind |-> k]
  <2>1. o \in Operations /\ o.who = r /\ o.kind = k /\ r # None
    BY KinozalAssumption DEF Operations
  <2>2. o \in Ops(b.queue) <=> r # p /\ o \in Ops(browser[c].queue)
    BY <2>1 DEF OpsGo
  <2>3. kind # None => (o = op <=> r = p /\ kind = k)
    BY <1>2, <2>1 DEF op
  <2>4. kind = None => kind # k
    BY <1>1
  <2> HIDE DEF o
  <2> QED BY <1>5, <2>2, <2>3, <2>4 DEF o
<1>20. Limited'
  <2> DEFINE F == Waiting(c, "form")
             L == Waiting(c, "landing")
             F2 == Waiting(c, "form")'
             L2 == Waiting(c, "landing")'
  <2>1. /\ F \in SUBSET Callers /\ L \in SUBSET Callers
        /\ F2 \in SUBSET Callers /\ L2 \in SUBSET Callers
    BY DEF Waiting
  <2>2. /\ F2 = (F \ {p}) \cup (IF kind = "form" THEN {p} ELSE {})
        /\ L2 = (L \ {p}) \cup (IF kind = "landing" THEN {p} ELSE {})
    BY <1>17, <1>19
  <2>3. p \in F => p \notin L
    BY OneKind
  <2>4. F \subseteq Callers \ L
    BY <2>1, OneKind
  <2>5. /\ ~entry[c].paused => attempts[c] <= Cardinality(F)
        /\ entry[c].paused => attempts[c] <= Cardinality(Callers \ L)
    BY DEF IInv, Limited
  <2>6. attempts[c] \in Nat /\ entry[c].paused \in BOOLEAN /\ e.paused \in BOOLEAN
    BY <1>7 DEF Entries
  <2>7. kind = "form" => e = entry[c] /\ p \in L
    OBVIOUS
  <2>8. kind = "landing" => ~e.paused
    OBVIOUS
  <2>9. p \in F => e.paused \/ e.authenticated
    OBVIOUS
  <2> HIDE DEF F, L, F2, L2
  <2>10. /\ Cardinality(F) \in Nat /\ Cardinality(F2) \in Nat
         /\ Cardinality(Callers \ L) \in Nat /\ Cardinality(Callers \ L2) \in Nat
    BY <2>1, Counts
  <2>11. ASSUME ~e.paused
         PROVE  count <= Cardinality(F2)
    <3>1. CASE kind = "form"
      <4>1. p \notin F /\ F2 = F \cup {p} /\ ~entry[c].paused
        BY <2>2, <2>3, <2>7, <2>11, <3>1
      <4>2. Cardinality(F2) = Cardinality(F) + 1
        BY <2>1, <4>1, Counts
      <4> QED BY <1>11, <2>5, <2>6, <2>10, <3>1, <4>1, <4>2
    <3>2. CASE kind # "form" /\ count # 0
      <4>1. count = attempts[c] /\ ~entry[c].paused /\ ~e.authenticated
        BY <1>11, <2>11, <3>2
      <4>2. p \notin F
        BY <2>9, <2>11, <4>1
      <4>3. F2 = F
        BY <2>2, <3>2, <4>2
      <4> QED BY <2>5, <4>1, <4>3
    <3>3. CASE count = 0
      BY <2>10, <3>3
    <3> QED BY <3>1, <3>2, <3>3
  <2>12. ASSUME e.paused
         PROVE  count <= Cardinality(Callers \ L2)
    <3>1. CASE kind = "form"
      <4>1. p \in L /\ L2 = L \ {p} /\ entry[c].paused
        BY <2>2, <2>7, <2>12, <3>1
      <4>2. p \notin Callers \ L /\ Callers \ L2 = (Callers \ L) \cup {p}
        BY <2>1, <4>1
      <4>3. Cardinality(Callers \ L2) = Cardinality(Callers \ L) + 1
        BY <4>2, Counts
      <4> QED BY <1>11, <2>5, <2>6, <2>10, <3>1, <4>1, <4>3
    <3>2. CASE kind # "form" /\ count # 0
      <4>1. count = attempts[c]
        BY <1>11, <3>2
      <4>2. L2 \subseteq L
        BY <2>2, <2>8, <2>12
      <4>3. Callers \ L \subseteq Callers \ L2 /\ F \subseteq Callers \ L2
        BY <2>4, <4>2
      <4>4. /\ Cardinality(Callers \ L) <= Cardinality(Callers \ L2)
            /\ Cardinality(F) <= Cardinality(Callers \ L2)
        BY <2>1, <4>3, Counts
      <4> QED BY <2>5, <2>6, <2>10, <4>1, <4>4
    <3>3. CASE count = 0
      BY <2>10, <3>3
    <3> QED BY <3>1, <3>2, <3>3
  <2>13. ASSUME NEW d \in Clients, d # c
         PROVE  /\ ~entry'[d].paused => attempts'[d] <= Cardinality(Waiting(d, "form")')
                /\ entry'[d].paused => attempts'[d] <= Cardinality(Callers \ Waiting(d, "landing")')
    BY <1>12, <1>17, <1>18, <2>13 DEF IInv, Limited
  <2> QED BY <1>12, <2>11, <2>12, <2>13 DEF Limited, F2, L2
<1> QED BY <1>13, <1>14, <1>16, <1>20 DEF IInv


\* A caller that is answered is the first in the queue of its client.
LEMMA Served ==
  ASSUME IInv, NEW p \in Callers, NEW k \in {"landing", "form", "page"}, Waits(p, k)
  PROVE  LET c == caller[p].client
         IN  /\ c \in Clients /\ entry[c].account \in Accounts /\ entry[c] \in Entries
             /\ caller[p].account \in Accounts /\ caller[p].again \in BOOLEAN
             /\ browser[c] \in Browsers /\ browser[c].queue # <<>>
             /\ OpsGo(p, c, Tail(browser[c].queue))
             /\ p \in Waiting(c, k)
             /\ p \in Waiting(c, "form") => k = "form"
<1> DEFINE c == caller[p].client
           q == browser[c].queue
           o(kind) == [who |-> p, kind |-> kind]
<1>1. caller[p].at = "waiting" /\ q # <<>> /\ Head(q) = o(k)
  BY DEF Waits, Running
<1>2. c \in Clients /\ caller[p].account \in Accounts
  BY <1>1 DEF IInv, Used, Idle
<1>3. browser[c] \in Browsers /\ entry[c] \in Entries /\ caller[p].again \in BOOLEAN
  BY <1>2 DEF IInv, TypeOK
<1>4. entry[c].account \in Accounts
  BY <1>1, <1>2, Working
<1>5. q \in Seq(Operations) /\ Unique(q)
  BY <1>2, <1>3 DEF IInv, Placed, Browsers
<1>6. o(k).who = p /\ p # None
  BY KinozalAssumption
<1>7. /\ Tail(q) \in Seq(Operations) /\ Unique(Tail(q)) /\ Head(q) \in Ops(q)
      /\ \A x \in Operations : x.who # None =>
           (x \in Ops(Tail(q)) <=> x \in Ops(q) /\ x.who # Head(q).who)
  BY <1>1, <1>5, TailOps
<1>8. OpsGo(p, c, Tail(q))
  BY <1>1, <1>6, <1>7 DEF OpsGo
<1>9. p \in Waiting(c, k)
  BY <1>1, <1>7 DEF Waiting
<1>10. ASSUME p \in Waiting(c, "form")
       PROVE  k = "form"
  <2>1. o("form") \in Ops(q)
    BY <1>10 DEF Waiting
  <2>2. PICK i \in 1..Len(q) : q[i] = o("form")
    BY <2>1 DEF Ops
  <2>3. Head(q) = q[1] /\ 1 \in 1..Len(q)
    BY <1>1, <1>5
  <2>4. o("form").who = p /\ o("form").kind = "form" /\ o(k).kind = k
    OBVIOUS
  <2> HIDE DEF o, q
  <2>5. i = 1
    BY <1>1, <1>5, <1>6, <2>2, <2>3, <2>4 DEF Unique
  <2> QED BY <1>1, <2>2, <2>3, <2>4, <2>5
<1> QED BY <1>1, <1>2, <1>3, <1>4, <1>8, <1>9, <1>10

\* A turn keeps the invariant when the form follows the landing page, the
\* landing page no pause, and what comes after the form is a pause or a session.
LEMMA TurnKeeps ==
  ASSUME IInv, NEW p \in Callers, NEW k \in {"landing", "form", "page"}, Waits(p, k),
         NEW e \in Entries, e.account = EntryOf(p).account,
         NEW kind \in {"landing", "form", "page", None}, NEW again \in BOOLEAN,
         Turn(p, e, kind, again),
         kind = "form" => e = EntryOf(p) /\ k = "landing",
         kind = "landing" => ~e.paused,
         k = "form" => e.paused \/ e.authenticated,
         UNCHANGED <<account, current>>, cookie' \in Accounts \cup {None},
         events' \in 0..MaxEvents
  PROVE  IInv'
<1> DEFINE c == caller[p].client
           b == Ended(browser[c])
           a == caller[p].account
<1>1. /\ c \in Clients /\ entry[c].account \in Accounts /\ entry[c] \in Entries
      /\ a \in Accounts
      /\ browser[c] \in Browsers /\ browser[c].queue # <<>>
      /\ OpsGo(p, c, Tail(browser[c].queue))
      /\ p \in Waiting(c, k)
      /\ p \in Waiting(c, "form") => k = "form"
  BY Served
<1>2. b \in Browsers /\ b.queue = Tail(browser[c].queue) /\ b.at = "rest"
  BY <1>1, EndedTyped
<1>3. GoOn(p, c, b, e, a, kind, again)
  BY DEF Turn
<1>4. EntryOf(p) = entry[c]
  BY DEF EntryOf
<1> HIDE DEF b
<1>5. OpsGo(p, c, b.queue)
  BY <1>1, <1>2
<1>6. e.account \in Accounts
  BY <1>1, <1>4
<1>7. kind = "form" => e = entry[c] /\ p \in Waiting(c, "landing")
  BY <1>1, <1>4
<1>8. p \in Waiting(c, "form") => e.paused \/ e.authenticated
  BY <1>1
<1>9. caller[p].client \in {c, None} /\ current' \in {current, c} /\ account' = account
  OBVIOUS
<1> HIDE DEF c, a
<1> QED BY <1>1, <1>2, <1>3, <1>5, <1>6, <1>7, <1>8, <1>9, GoOnKeeps
-----------------------------------------------------------------------------
(* The actions keep the invariant. *)

\* The entries a turn can leave.
LEMMA EntriesTyped ==
  ASSUME NEW e \in Entries
  PROVE  /\ Paused(e) \in Entries /\ Paused(e).account = e.account /\ Paused(e).paused
         /\ Cleared(e) \in Entries /\ Cleared(e).account = e.account /\ ~Cleared(e).paused
         /\ SignInFailed(e) \in Entries /\ SignInFailed(e).account = e.account
         /\ SignInFailed(e).paused
         /\ SignedIn(e) \in Entries /\ SignedIn(e).account = e.account
         /\ SignedIn(e).authenticated
         /\ Expired(e) \in Entries /\ Expired(e).account = e.account
         /\ Expired(e).paused = e.paused
BY DEF Paused, Cleared, SignInFailed, SignedIn, Expired, Entries

LEMMA EventTyped ==
  ASSUME IInv, Event \/ UNCHANGED events
  PROVE  events' \in 0..MaxEvents
<1>1. events \in 0..MaxEvents /\ MaxEvents \in Nat
  BY KinozalAssumption DEF IInv, TypeOK
<1> QED BY <1>1 DEF Event

LEMMA AnswerKeeps ==
  ASSUME IInv, NEW p \in Callers, Answered(p) \/ Fails(p)
  PROVE  IInv'
<1> DEFINE e == EntryOf(p)
<1>1. UNCHANGED <<account, current, events>> /\ events' \in 0..MaxEvents
      /\ cookie \in Accounts \cup {None}
  BY EventTyped DEF Answered, Landed, FormAccepted, PageServed, PageNeedsLogin, Fails, IInv, TypeOK
<1>2. None \notin Kinds
  BY KinozalAssumption
<1>3. CASE Landed(p)
  <2>1. Waits(p, "landing") /\ cookie' = cookie
    BY <1>3 DEF Landed, Shows
  <2>2. e \in Entries /\ caller[p].again \in BOOLEAN
    BY <2>1, Served DEF EntryOf
  <2>3. SignedIn(e) \in Entries /\ SignedIn(e).account = e.account
    BY <2>2, EntriesTyped
  <2>4. CASE cookie # None
    <3>1. Turn(p, SignedIn(e), "page", caller[p].again)
      BY <1>3, <2>4 DEF Landed
    <3> HIDE DEF e
    <3> QED BY <1>1, <2>1, <2>2, <2>3, <3>1, TurnKeeps DEF e
  <2>5. CASE cookie = None
    <3>1. Turn(p, e, "form", caller[p].again)
      BY <1>3, <2>5 DEF Landed
    <3> HIDE DEF e
    <3> QED BY <1>1, <2>1, <2>2, <3>1, TurnKeeps DEF e
  <2> QED BY <2>4, <2>5
<1>4. CASE FormAccepted(p)
  <2>1. Waits(p, "form") /\ cookie' = caller[p].account
        /\ Turn(p, SignedIn(e), "page", caller[p].again)
    BY <1>4 DEF FormAccepted, Shows
  <2>2. e \in Entries /\ caller[p].again \in BOOLEAN /\ caller[p].account \in Accounts
    BY <2>1, Served DEF EntryOf
  <2>3. SignedIn(e) \in Entries /\ SignedIn(e).account = e.account /\ SignedIn(e).authenticated
    BY <2>2, EntriesTyped
  <2> HIDE DEF e
  <2> QED BY <1>1, <2>1, <2>2, <2>3, TurnKeeps DEF e
<1>5. CASE PageServed(p)
  <2>1. Waits(p, "page") /\ cookie' = cookie /\ Turn(p, Cleared(e), None, FALSE)
    BY <1>5 DEF PageServed, Shows
  <2>2. e \in Entries
    BY <2>1, Served DEF EntryOf
  <2>3. Cleared(e) \in Entries /\ Cleared(e).account = e.account
    BY <2>2, EntriesTyped
  <2>4. None # "form" /\ None # "landing"
    BY <1>2 DEF Kinds
  <2> HIDE DEF e
  <2> QED BY <1>1, <2>1, <2>3, <2>4, TurnKeeps DEF e
<1>6. CASE PageNeedsLogin(p)
  <2>1. Waits(p, "page") /\ cookie' = cookie
    BY <1>6 DEF PageNeedsLogin, Shows
  <2>2. e \in Entries
    BY <2>1, Served DEF EntryOf
  <2> DEFINE f == Cleared(e)
             g == Expired(f)
  <2>3. f \in Entries /\ f.account = e.account /\ ~f.paused
    BY <2>2, EntriesTyped
  <2>4. g \in Entries /\ g.account = e.account /\ ~g.paused /\ Paused(f) \in Entries
        /\ Paused(f).account = e.account
    BY <2>3, EntriesTyped
  <2>5. None # "form" /\ None # "landing"
    BY <1>2 DEF Kinds
  <2>6. CASE caller[p].again
    <3>1. Turn(p, Paused(f), None, FALSE)
      BY <1>6, <2>6 DEF PageNeedsLogin
    <3> HIDE DEF e, f
    <3> QED BY <1>1, <2>1, <2>4, <2>5, <3>1, TurnKeeps DEF e
  <2>7. CASE ~caller[p].again
    <3>1. Turn(p, g, NextKind(g), TRUE)
      BY <1>6, <2>7 DEF PageNeedsLogin
    <3>2. NextKind(g) \in {"page", "landing"}
      BY <2>4 DEF NextKind
    <3> HIDE DEF e, f, g
    <3> QED BY <1>1, <2>1, <2>4, <3>1, <3>2, TurnKeeps DEF e
  <2> QED BY <2>6, <2>7
<1>7. CASE Fails(p)
  <2>1. cookie' = cookie
    BY <1>7 DEF Fails
  <2>2. PICK k \in {"landing", "form", "page"} :
          /\ Waits(p, k)
          /\ Turn(p, IF k = "page" THEN Paused(e) ELSE SignInFailed(e), None, FALSE)
    BY <1>7 DEF Fails
  <2>3. e \in Entries
    BY <2>2, Served DEF EntryOf
  <2> DEFINE f == IF k = "page" THEN Paused(e) ELSE SignInFailed(e)
  <2>4. f \in Entries /\ f.account = e.account /\ f.paused
    BY <2>3, EntriesTyped
  <2>5. None # "form" /\ None # "landing"
    BY <1>2 DEF Kinds
  <2>6. Turn(p, f, None, FALSE)
    BY <2>2
  <2> HIDE DEF e, f
  <2> QED BY <1>1, <2>1, <2>2, <2>4, <2>5, <2>6, TurnKeeps DEF e
<1> QED BY <1>3, <1>4, <1>5, <1>6, <1>7 DEF Answered


\* A caller that is out has no operation.
LEMMA OutIs ==
  ASSUME IInv, NEW p \in Callers, caller[p] = Idle, NEW c \in Clients
  PROVE  /\ \A o \in Ops(browser[c].queue) : o.who # p
         /\ OpsGo(p, c, browser[c].queue)
         /\ \A kind \in Kinds : p \notin Waiting(c, kind)
<1>1. p # None /\ caller[p].client # c
  BY KinozalAssumption DEF Idle
<1>2. \A o \in Ops(browser[c].queue) : o.who # p
  BY <1>1 DEF IInv, Placed
<1>3. \A kind \in Kinds : [who |-> p, kind |-> kind].who = p
  OBVIOUS
<1> QED BY <1>2, <1>3 DEF OpsGo, Waiting, IInv, Placed

LEMMA CallTyped ==
  ASSUME IInv, NEW p \in Callers, Call(p)
  PROVE  events' \in 0..MaxEvents
BY EventTyped DEF Call

LEMMA GetKeeps ==
  ASSUME IInv, NEW p \in Callers, Get(p)
  PROVE  IInv'
<1> DEFINE c == current
           e == entry[c]
           kind == NextKind(e)
<1>1. /\ caller[p] = Idle /\ current # None /\ ~e.paused
      /\ GoOn(p, c, browser[c], e, account, kind, FALSE)
      /\ UNCHANGED <<cookie, account, current>>
  BY DEF Get
<1>2. events' \in 0..MaxEvents
  BY CallTyped DEF Get
<1>3. /\ c \in Clients /\ browser[c] \in Browsers /\ e \in Entries
      /\ account \in Accounts /\ cookie \in Accounts \cup {None}
  BY <1>1 DEF IInv, TypeOK
<1>4. e.account \in Accounts
  BY <1>1 DEF IInv, Used
<1>5. kind \in {"page", "landing"}
  BY <1>1 DEF NextKind
<1>6. OpsGo(p, c, browser[c].queue) /\ p \notin Waiting(c, "form")
  BY <1>1, <1>3, OutIs DEF Kinds
<1>7. browser[c].at = "rest" \/ browser[c].queue # <<>>
  BY <1>3 DEF IInv, Placed
<1>8. caller[p].client = None
  BY <1>1 DEF Idle
<1> HIDE DEF c, e, kind
<1>9. caller[p].client \in {c, None} /\ current' \in {current, c} /\ account' = account
      /\ cookie' \in Accounts \cup {None} /\ FALSE \in BOOLEAN
      /\ kind \in {"landing", "form", "page", None}
      /\ (kind = "form" => e = entry[c] /\ p \in Waiting(c, "landing"))
      /\ (kind = "landing" => ~e.paused)
      /\ (p \in Waiting(c, "form") => e.paused \/ e.authenticated)
  BY <1>1, <1>3, <1>5, <1>6, <1>8 DEF e
<1> QED BY <1>1, <1>2, <1>3, <1>4, <1>6, <1>7, <1>9, GoOnKeeps

\* A client that was not used.
LEMMA NewClientIs ==
  ASSUME IInv, ClientLeft
  PROVE  /\ NewClient \in Clients /\ entry[NewClient] = Fresh
         /\ browser[NewClient] = Unused /\ attempts[NewClient] = 0
<1>1. NewClient \in Clients /\ entry[NewClient] = Fresh
  BY DEF ClientLeft, NewClient
<1>2. Fresh.account \notin Accounts
  BY KinozalAssumption DEF Fresh
<1> HIDE DEF NewClient
<1> QED BY <1>1, <1>2 DEF IInv, Used

LEMMA FirstGetKeeps ==
  ASSUME IInv, NEW p \in Callers, FirstGet(p)
  PROVE  IInv'
<1> DEFINE c == NewClient
           e == [Fresh EXCEPT !.account = account]
<1>1. /\ caller[p] = Idle /\ current' = c /\ ClientLeft
      /\ GoOn(p, c, browser[c], e, account, "landing", FALSE)
      /\ UNCHANGED <<cookie, account>>
  BY DEF FirstGet, Made
<1>2. events' \in 0..MaxEvents
  BY CallTyped DEF FirstGet
<1>3. c \in Clients
  BY <1>1, NewClientIs
<1>4. /\ browser[c] \in Browsers
      /\ account \in Accounts /\ cookie \in Accounts \cup {None}
  BY <1>3 DEF IInv, TypeOK
<1>5. e \in Entries /\ e.account = account /\ ~e.paused
  BY <1>4 DEF Fresh, Entries
<1>6. OpsGo(p, c, browser[c].queue) /\ p \notin Waiting(c, "form")
  BY <1>1, <1>3, OutIs DEF Kinds
<1>7. browser[c].at = "rest" \/ browser[c].queue # <<>>
  BY <1>3 DEF IInv, Placed
<1>8. caller[p].client = None
  BY <1>1 DEF Idle
<1> HIDE DEF c, e
<1>9. caller[p].client \in {c, None} /\ current' \in {current, c} /\ account' = account
      /\ cookie' \in Accounts \cup {None} /\ FALSE \in BOOLEAN
      /\ e.account \in Accounts
      /\ (p \in Waiting(c, "form") => e.paused \/ e.authenticated)
  BY <1>1, <1>4, <1>5, <1>6, <1>8
<1> QED BY <1>1, <1>2, <1>3, <1>4, <1>5, <1>6, <1>7, <1>9, GoOnKeeps

LEMMA ReplaceKeeps ==
  ASSUME IInv, NEW p \in Callers, Replace(p)
  PROVE  IInv'
<1> DEFINE c == current
           op == [who |-> p, kind |-> "close"]
           n == Enqueued(browser[c], op)
           hers == [at |-> "replacing", client |-> c, account |-> account, again |-> FALSE]
<1>1. /\ caller[p] = Idle /\ current # None
      /\ browser' = [browser EXCEPT ![c] = n]
      /\ caller' = [caller EXCEPT ![p] = hers]
      /\ UNCHANGED <<cookie, account, current, entry, attempts>>
  BY DEF Replace, Step
<1>2. events' \in 0..MaxEvents
  BY CallTyped DEF Replace
<1>3. /\ c \in Clients /\ account \in Accounts
      /\ browser \in [Clients -> Browsers] /\ browser[c] \in Browsers
      /\ caller \in [Callers -> [at : {"out", "replacing", "waiting"},
                                 client : Clients \cup {None},
                                 account : Accounts \cup {None}, again : BOOLEAN]]
  BY <1>1 DEF IInv, TypeOK
<1>4. op \in Operations /\ op.who = p /\ op.kind = "close" /\ p # None
  BY KinozalAssumption DEF Operations, Kinds
<1>5. browser[c].queue \in Seq(Operations) /\ Unique(browser[c].queue)
  BY <1>3 DEF Browsers, IInv, Placed
<1>6. \A o \in Ops(browser[c].queue) : o.who # p
  BY <1>1, <1>3, OutIs
<1>7. n \in Browsers /\ n.queue = Append(browser[c].queue, op)
  BY <1>3, <1>4, EnqueuedTyped
<1>8. /\ hers.at = "replacing" /\ hers.client = c /\ hers.account = account
      /\ hers \in [at : {"out", "replacing", "waiting"}, client : Clients \cup {None},
                   account : Accounts \cup {None}, again : BOOLEAN]
  BY <1>3
<1> HIDE DEF op, n, hers
<1>9. /\ Unique(n.queue) /\ Ops(n.queue) = Ops(browser[c].queue) \cup {op}
      /\ n.queue # <<>>
  BY <1>4, <1>5, <1>6, <1>7, AppendOps
<1> HIDE DEF c
<1>10. /\ browser' \in [Clients -> Browsers] /\ browser'[c] = n
       /\ \A d \in Clients : d # c => browser'[d] = browser[d]
       /\ caller'[p] = hers /\ \A r \in Callers : r # p => caller'[r] = caller[r]
       /\ caller' \in [Callers -> [at : {"out", "replacing", "waiting"},
                                   client : Clients \cup {None},
                                   account : Accounts \cup {None}, again : BOOLEAN]]
  BY <1>1, <1>3, <1>7, <1>8
<1>11. TypeOK'
  BY <1>1, <1>2, <1>10 DEF IInv, TypeOK
<1>12. Used'
  <2>1. entry[c].account \in Accounts
    BY <1>1 DEF IInv, Used, c
  <2> QED BY <1>1, <1>3, <1>8, <1>10, <2>1 DEF IInv, Used
<1>13. \A q \in Operations : q.who # None => q.who \in Callers
  BY DEF Operations
<1>14. Placed'
  <2> SUFFICES ASSUME NEW d \in Clients
               PROVE  /\ Unique(browser'[d].queue)
                      /\ browser'[d].at = "rest" \/ browser'[d].queue # <<>>
                      /\ \A o \in Ops(browser'[d].queue) : o.who # None =>
                           /\ caller'[o.who].client = d
                           /\ caller'[o.who].at = (IF o.kind = "close" THEN "replacing"
                                                   ELSE "waiting")
    BY DEF Placed
  <2>1. \A o \in Ops(browser[d].queue) : o \in Operations /\ o.who # p
    BY <1>1, <1>3, OpsTyped, OutIs DEF Browsers
  <2>2. CASE d # c
    BY <1>10, <1>13, <2>1, <2>2 DEF IInv, Placed
  <2>3. CASE d = c
    BY <1>4, <1>8, <1>9, <1>10, <1>13, <2>1, <2>3 DEF IInv, Placed
  <2> QED BY <2>2, <2>3
<1>15. \A d \in Clients, k \in {"form", "landing"} : Waiting(d, k)' = Waiting(d, k)
  <2> SUFFICES ASSUME NEW d \in Clients, NEW k \in {"form", "landing"}, NEW r \in Callers
               PROVE  [who |-> r, kind |-> k] \in Ops(browser'[d].queue) <=>
                        [who |-> r, kind |-> k] \in Ops(browser[d].queue)
    BY DEF Waiting
  <2>1. [who |-> r, kind |-> k].kind # op.kind
    BY <1>4
  <2> QED BY <1>9, <1>10, <2>1
<1>16. Limited'
  BY <1>1, <1>15 DEF IInv, Limited
<1> QED BY <1>11, <1>12, <1>14, <1>16 DEF IInv

LEMMA ReplacedKeeps ==
  ASSUME IInv, NEW p \in Callers, Replaced(p)
  PROVE  IInv'
<1> DEFINE old == caller[p].client
           c == NewClient
           op == [who |-> p, kind |-> "landing"]
           n == Enqueued(browser[c], op)
           m == Ended(browser[old])
           e == [Fresh EXCEPT !.account = caller[p].account]
           hers == [caller[p] EXCEPT !.at = "waiting", !.client = c]
<1>1. /\ caller[p].at = "replacing" /\ ClientLeft
      /\ browser[old].at = "close" /\ Head(browser[old].queue).who = p
      /\ current' = c
      /\ browser' = [browser EXCEPT ![old] = Ended(@), ![c] = Enqueued(@, op)]
      /\ entry' = [entry EXCEPT ![c] = e]
      /\ caller' = [caller EXCEPT ![p] = hers]
      /\ UNCHANGED <<cookie, account, attempts, events>>
  BY DEF Replaced, Running
<1>2. old \in Clients /\ caller[p].account \in Accounts
  BY <1>1 DEF IInv, Used, Idle
<1>3. c \in Clients /\ entry[c] = Fresh /\ browser[c] = Unused /\ attempts[c] = 0
  BY <1>1, NewClientIs
<1>4. /\ browser \in [Clients -> Browsers] /\ browser[c] \in Browsers /\ browser[old] \in Browsers
      /\ entry \in [Clients -> Entries]
      /\ caller \in [Callers -> [at : {"out", "replacing", "waiting"},
                                 client : Clients \cup {None},
                                 account : Accounts \cup {None}, again : BOOLEAN]]
  BY <1>2, <1>3 DEF IInv, TypeOK
<1>5. /\ browser[old].queue # <<>> /\ Unique(browser[old].queue)
      /\ browser[old].queue \in Seq(Operations)
  BY <1>1, <1>2, <1>4 DEF IInv, Placed, Browsers
<1>6. browser[c].queue = <<>> /\ old # c
  BY <1>3, <1>5 DEF Unused
<1>7. m \in Browsers /\ m.queue = Tail(browser[old].queue) /\ m.at = "rest"
  BY <1>4, <1>5, EndedTyped
<1>8. op \in Operations /\ op.who = p /\ op.kind = "landing" /\ p # None
  BY KinozalAssumption DEF Operations, Kinds
<1>9. n \in Browsers /\ n.queue = Append(<<>>, op)
  BY <1>4, <1>6, <1>8, EnqueuedTyped
<1>10. /\ n.queue # <<>> /\ Len(n.queue) = 1 /\ n.queue[1] = op
  <2>1. \A o \in Operations :
          Append(<<>>, o) # <<>> /\ Len(Append(<<>>, o)) = 1 /\ Append(<<>>, o)[1] = o
    OBVIOUS
  <2> HIDE DEF op, n
  <2> QED BY <1>8, <1>9, <2>1
<1>11. Unique(n.queue) /\ Ops(n.queue) = {op}
  BY <1>10 DEF Unique, Ops
<1>12. e \in Entries /\ e.account = caller[p].account /\ ~e.paused
  BY <1>2 DEF Fresh, Entries
<1>13. /\ hers.at = "waiting" /\ hers.client = c /\ hers.account = caller[p].account
       /\ hers \in [at : {"out", "replacing", "waiting"}, client : Clients \cup {None},
                    account : Accounts \cup {None}, again : BOOLEAN]
  BY <1>3, <1>4
<1> HIDE DEF op, n, m, e, hers, c, old
<1>14. /\ browser' \in [Clients -> Browsers] /\ browser'[c] = n /\ browser'[old] = m
       /\ \A d \in Clients : d # c /\ d # old => browser'[d] = browser[d]
       /\ entry' \in [Clients -> Entries] /\ entry'[c] = e
       /\ \A d \in Clients : d # c => entry'[d] = entry[d]
       /\ caller'[p] = hers /\ \A r \in Callers : r # p => caller'[r] = caller[r]
       /\ caller' \in [Callers -> [at : {"out", "replacing", "waiting"},
                                   client : Clients \cup {None},
                                   account : Accounts \cup {None}, again : BOOLEAN]]
  BY <1>1, <1>2, <1>3, <1>4, <1>6, <1>7, <1>9, <1>12, <1>13 DEF n, m
<1>15. TypeOK'
  BY <1>1, <1>3, <1>14 DEF IInv, TypeOK
<1>16. entry[old].account \in Accounts
  BY <1>2, <1>5, Working
<1>17. Used'
  <2>1. \A d \in Clients : \/ entry'[d].account \in Accounts
                           \/ entry'[d] = Fresh /\ browser'[d] = Unused /\ attempts'[d] = 0
    BY <1>1, <1>2, <1>12, <1>14, <1>16 DEF IInv, Used
  <2>2. current' # None => entry'[current'].account \in Accounts
    BY <1>1, <1>2, <1>12, <1>14
  <2>3. \A r \in Callers : \/ caller'[r] = Idle
                           \/ /\ caller'[r].at # "out" /\ caller'[r].client \in Clients
                              /\ caller'[r].account \in Accounts
    BY <1>2, <1>3, <1>13, <1>14 DEF IInv, Used
  <2> QED BY <2>1, <2>2, <2>3 DEF Used
<1>18. \A q \in Operations : q.who # None => q.who \in Callers
  BY DEF Operations
<1>19. /\ Unique(m.queue) /\ m.queue \in Seq(Operations)
       /\ \A o \in Operations : o.who # None =>
            (o \in Ops(m.queue) <=> o \in Ops(browser[old].queue) /\ o.who # p)
  BY <1>1, <1>5, <1>7, TailOps
<1>20. Placed'
  <2> SUFFICES ASSUME NEW d \in Clients
               PROVE  /\ Unique(browser'[d].queue)
                      /\ browser'[d].at = "rest" \/ browser'[d].queue # <<>>
                      /\ \A o \in Ops(browser'[d].queue) : o.who # None =>
                           /\ caller'[o.who].client = d
                           /\ caller'[o.who].at = (IF o.kind = "close" THEN "replacing"
                                                   ELSE "waiting")
    BY DEF Placed
  <2>1. CASE d = c
    BY <1>8, <1>10, <1>11, <1>13, <1>14, <2>1
  <2>2. CASE d = old
    <3>1. \A o \in Ops(m.queue) : o \in Operations
      BY <1>19, OpsTyped
    <3>2. ASSUME NEW o \in Ops(m.queue), o.who # None
          PROVE  /\ caller'[o.who].client = old
                 /\ caller'[o.who].at = (IF o.kind = "close" THEN "replacing" ELSE "waiting")
      <4>1. o \in Ops(browser[old].queue) /\ o.who # p /\ o.who \in Callers
        BY <1>18, <1>19, <3>1, <3>2
      <4> QED BY <1>2, <1>14, <3>2, <4>1 DEF IInv, Placed
    <3> QED BY <1>7, <1>14, <1>19, <2>2, <3>2
  <2>3. CASE d # c /\ d # old
    <3>1. \A o \in Ops(browser[d].queue) : o \in Operations
      BY <1>4, OpsTyped DEF Browsers
    <3>2. \A o \in Ops(browser[d].queue) : o.who # p
      BY <1>8, <2>3 DEF IInv, Placed, old
    <3> QED BY <1>14, <1>18, <2>3, <3>1, <3>2 DEF IInv, Placed
  <2> QED BY <2>1, <2>2, <2>3
<1>21. \A d \in Clients, k \in {"form", "landing"} : d # c => Waiting(d, k)' = Waiting(d, k)
  <2> SUFFICES ASSUME NEW k \in {"form", "landing"}, NEW r \in Callers
               PROVE  [who |-> r, kind |-> k] \in Ops(m.queue) <=>
                        [who |-> r, kind |-> k] \in Ops(browser[old].queue)
    BY <1>14 DEF Waiting
  <2> DEFINE o == [who |-> r, kind |-> k]
  <2>1. o \in Operations /\ o.who = r /\ o.kind # "close" /\ r # None
    BY KinozalAssumption DEF Operations, Kinds
  <2> HIDE DEF o
  <2>2. o \in Ops(browser[old].queue) => o.who # p
    BY <1>1, <1>2, <2>1 DEF IInv, Placed
  <2> QED BY <1>19, <2>1, <2>2 DEF o
<1>22. Limited'
  <2>1. \A d \in Clients : Waiting(d, "form")' \in SUBSET Callers
    BY DEF Waiting
  <2>2. \A d \in Clients : Cardinality(Waiting(d, "form")') \in Nat
    BY <2>1, Counts
  <2>3. attempts'[c] = 0
    BY <1>1, <1>3
  <2>4. ~entry'[c].paused
    BY <1>12, <1>14
  <2>5. \A d \in Clients : d # c =>
          /\ entry'[d] = entry[d] /\ attempts'[d] = attempts[d]
          /\ Waiting(d, "form")' = Waiting(d, "form")
          /\ Waiting(d, "landing")' = Waiting(d, "landing")
    BY <1>1, <1>14, <1>21
  <2> SUFFICES ASSUME NEW d \in Clients
               PROVE  /\ ~entry'[d].paused => attempts'[d] <= Cardinality(Waiting(d, "form")')
                      /\ entry'[d].paused =>
                           attempts'[d] <= Cardinality(Callers \ Waiting(d, "landing")')
    BY DEF Limited
  <2>6. CASE d = c
    <3>1. Cardinality(Waiting(d, "form")') \in Nat
      BY <2>2
    <3> QED BY <2>3, <2>4, <2>6, <3>1
  <2>7. CASE d # c
    <3>1. /\ ~entry[d].paused => attempts[d] <= Cardinality(Waiting(d, "form"))
          /\ entry[d].paused => attempts[d] <= Cardinality(Callers \ Waiting(d, "landing"))
      BY DEF IInv, Limited
    <3> QED BY <2>5, <2>7, <3>1
  <2> QED BY <2>6, <2>7
<1> QED BY <1>15, <1>17, <1>20, <1>22 DEF IInv

LEMMA PauseEndKeeps ==
  ASSUME IInv, NEW c \in Clients, PauseEnds(c)
  PROVE  IInv'
<1>1. /\ entry[c].paused
      /\ entry' = [entry EXCEPT ![c] = Cleared(@)]
      /\ attempts' = [attempts EXCEPT ![c] = 0]
      /\ UNCHANGED <<browser, cookie, account, current, caller, events>>
  BY DEF PauseEnds
<1>2. entry \in [Clients -> Entries] /\ attempts \in [Clients -> Nat]
  BY DEF IInv, TypeOK
<1>3. Cleared(entry[c]) \in Entries /\ Cleared(entry[c]).account = entry[c].account
      /\ ~Cleared(entry[c]).paused
  BY <1>2, EntriesTyped
<1>4. /\ entry' \in [Clients -> Entries] /\ entry'[c].account = entry[c].account
      /\ ~entry'[c].paused
      /\ \A d \in Clients : d # c => entry'[d] = entry[d]
      /\ attempts' \in [Clients -> Nat] /\ attempts'[c] = 0
      /\ \A d \in Clients : d # c => attempts'[d] = attempts[d]
  BY <1>1, <1>2, <1>3
<1>5. TypeOK'
  BY <1>1, <1>4 DEF IInv, TypeOK
<1>6. entry[c].account \in Accounts
  BY <1>1 DEF IInv, Used, Fresh
<1>7. Used'
  <2>1. current # None => current \in Clients
    BY DEF IInv, TypeOK
  <2> QED BY <1>1, <1>4, <1>6, <2>1 DEF IInv, Used
<1>8. Placed'
  BY <1>1 DEF IInv, Placed
<1>9. \A d \in Clients, k \in Kinds : Waiting(d, k)' = Waiting(d, k)
  BY <1>1 DEF Waiting
<1>10. Limited'
  <2>1. "form" \in Kinds /\ "landing" \in Kinds
    BY DEF Kinds
  <2>2. Cardinality(Waiting(c, "form")) \in Nat
    BY Counts DEF Waiting
  <2> QED BY <1>1, <1>4, <1>9, <2>1, <2>2 DEF IInv, Limited
<1> QED BY <1>5, <1>7, <1>8, <1>10 DEF IInv

LEMMA EnvironmentKeeps ==
  ASSUME IInv, ChangeAccount \/ SessionEnds \/ UNCHANGED vars
  PROVE  IInv'
<1>1. /\ UNCHANGED <<browser, current, entry, caller, attempts>>
      /\ account' \in Accounts /\ cookie' \in Accounts \cup {None}
  BY DEF ChangeAccount, SessionEnds, vars, IInv, TypeOK
<1>2. events' \in 0..MaxEvents
  BY EventTyped DEF ChangeAccount, SessionEnds, vars
<1>3. TypeOK' /\ Used' /\ Placed'
  BY <1>1, <1>2 DEF IInv, TypeOK, Used, Placed
<1>4. Limited'
  BY <1>1 DEF IInv, Limited, Waiting
<1> QED BY <1>3, <1>4 DEF IInv
-----------------------------------------------------------------------------
(* The theorems. *)

(***************************************************************************)
(* Nobody has signed in: the invariant holds at the start.                 *)
(***************************************************************************)
THEOREM InitHolds == Init => IInv
<1> SUFFICES ASSUME Init
             PROVE  IInv
  OBVIOUS
<1> USE DEF Init
<1>1. Unused \in Browsers /\ Unused.queue = <<>> /\ Unused.at = "rest" /\ Len(<<>>) = 0
  <2>1. <<>> \in Seq(Operations)
    OBVIOUS
  <2> QED BY <2>1 DEF Unused, Browsers
<1>2. TypeOK
  <2>1. browser \in [Clients -> Browsers]
    BY <1>1
  <2>2. account \in Accounts
    BY KinozalAssumption
  <2>3. entry \in [Clients -> Entries]
    BY DEF Fresh, Entries
  <2>4. events \in 0..MaxEvents
    BY KinozalAssumption
  <2>5. Idle \in [at : {"out", "replacing", "waiting"}, client : Clients \cup {None},
                  account : Accounts \cup {None}, again : BOOLEAN]
    BY DEF Idle
  <2>6. attempts \in [Clients -> Nat]
    OBVIOUS
  <2> QED BY <2>1, <2>2, <2>3, <2>4, <2>5, <2>6 DEF TypeOK
<1>3. Used
  BY DEF Used
<1>4. Placed
  <2>1. \A c \in Clients : browser[c].queue = <<>> /\ browser[c].at = "rest"
    BY <1>1
  <2>2. 1..Len(<<>>) = {} /\ Ops(<<>>) = {}
    BY DEF Ops
  <2> QED BY <2>1, <2>2 DEF Placed, Unique
<1>5. Limited
  <2> SUFFICES ASSUME NEW c \in Clients
               PROVE  ~entry[c].paused /\ attempts[c] <= Cardinality(Waiting(c, "form"))
    BY DEF Limited
  <2>1. Cardinality(Waiting(c, "form")) \in Nat
    BY Counts DEF Waiting
  <2>2. ~entry[c].paused /\ attempts[c] = 0
    BY DEF Fresh
  <2>3. \A k \in Nat : 0 <= k
    OBVIOUS
  <2> QED BY <2>1, <2>2, <2>3
<1> QED BY <1>2, <1>3, <1>4, <1>5 DEF IInv

(***************************************************************************)
(* Every turn of a caller, every operation of a client and every change of *)
(* the account or the session keeps it.                                    *)
(***************************************************************************)
THEOREM NextKeeps == IInv /\ [Next]_vars => IInv'
<1> SUFFICES ASSUME IInv, [Next]_vars
             PROVE  IInv'
  OBVIOUS
<1>1. ASSUME NEW p \in Callers, Asks(p) \/ Replaced(p) \/ Answered(p) \/ Fails(p)
      PROVE  IInv'
  BY <1>1, GetKeeps, FirstGetKeeps, ReplaceKeeps, ReplacedKeeps, AnswerKeeps DEF Asks
<1>2. ASSUME NEW c \in Clients,
             \/ PauseEnds(c) \/ ChromeFails(c)
             \/ UNCHANGED unbrowsed /\ (Proceeds(c) \/ IdleFires(c))
      PROVE  IInv'
  BY <1>2, PauseEndKeeps, ClientKeeps
<1> QED BY <1>1, <1>2, EnvironmentKeeps DEF Next

(***************************************************************************)
(* The invariant holds in every behaviour of KinozalSessionManager and the *)
(* clients it makes.                                                       *)
(***************************************************************************)
THEOREM Invariant == Spec => []IInv
BY InitHolds, NextKeeps, PTL DEF Spec

(***************************************************************************)
(* Queues, entries and callers keep their types.                           *)
(***************************************************************************)
THEOREM TypeCorrect == Spec => []TypeOK
BY Invariant, PTL DEF IInv

(***************************************************************************)
(* However many requests run side by side, between two lifts of its pause  *)
(* a session entry submits the login form at most once for each of them.   *)
(***************************************************************************)
THEOREM SignInsLimited == Spec => []AttemptsLimited
<1>1. IInv => AttemptsLimited
  <2> SUFFICES ASSUME IInv, NEW c \in Clients
               PROVE  attempts[c] <= Cardinality(Callers)
    BY DEF AttemptsLimited
  <2>1. Waiting(c, "form") \in SUBSET Callers /\ Callers \ Waiting(c, "landing") \in SUBSET Callers
    BY DEF Waiting
  <2>2. /\ Cardinality(Waiting(c, "form")) <= Cardinality(Callers)
        /\ Cardinality(Callers \ Waiting(c, "landing")) <= Cardinality(Callers)
        /\ Cardinality(Waiting(c, "form")) \in Nat
        /\ Cardinality(Callers \ Waiting(c, "landing")) \in Nat
        /\ Cardinality(Callers) \in Nat
    BY <2>1, Counts
  <2>3. attempts[c] \in Nat
    BY DEF IInv, TypeOK
  <2> QED BY <2>2, <2>3 DEF IInv, Limited
<1> QED BY <1>1, Invariant, PTL
=============================================================================
