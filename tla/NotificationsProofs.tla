------------------------ MODULE NotificationsProofs ------------------------
(***************************************************************************)
(* Theorems about the tables of webhooks and events, about the HTTP client *)
(* that delivers their notifications, and about the two together: an       *)
(* update finds the rows it looks up (Storable), a webhook is told every   *)
(* confirmation (Told) and none is left out (Consecutive), a timer ends    *)
(* its own request only (OwnTimeout), and the client is a queue            *)
(* (Delivers).                                                             *)
(***************************************************************************)
EXTENDS Notifications, FiniteSetTheorems, SequenceTheorems, TLAPS

----------------------------------------------------------------------------
(* The inductive invariant of the tables.                                  *)

HookType == {"tx_confirmation", "tx_spend", "new_account"}
HookRow == [id : HookId, type : HookType, pid : Pid, confirmations : Confirm,
            url : Url \cup {"zmq"}]
ChainBlock == [kind : BlockKind, pid : Pid, fork : 0..MaxForks]
OutRow == [height : 1..MaxHeight, fork : 0..MaxForks, pid : Pid]
EventRow == [out : OutRow, hook : HookId]
Told_tx == [height : 0..MaxHeight, fork : 0..MaxForks, pid : Pid]
NoteRow == [hook : HookId, url : Url \cup {"zmq"}, tx : Told_tx, count : 0..MaxHeight]

HookTypes ==
  /\ chain \in Seq(ChainBlock) /\ Len(chain) <= MaxHeight
  /\ forks \in 0..MaxForks
  /\ scan \in 0..Len(chain)
  /\ outputs \subseteq OutRow /\ lost \subseteq OutRow
  /\ hooks \subseteq HookRow /\ IsFiniteSet(hooks)
  /\ unused \subseteq HookId
  /\ events \subseteq EventRow
  /\ follows \subseteq EventRow
  /\ last \in [DOMAIN last -> 0..MaxHeight]
  /\ DOMAIN last \subseteq HookId \X OutRow

EmitTypes == emit \in Seq(NoteRow)

\* A webhook id names one row, also in future (webhook_add_ takes a new id).
OneRow ==
  /\ \A g, h \in hooks : g.id = h.id => g = h
  /\ \A h \in hooks : h.id \notin unused

\* The output is the one that the block of its height pays.
OfChain(o) ==
  /\ o.height \in 1..Len(chain)
  /\ o = OutAt(o.height)
  /\ Pays(chain[o.height])

\* An event has its webhook, and its output once the account is past it.
EventInv ==
  \A e \in events :
    /\ HasRow(e.hook)
    /\ OfChain(e.out)
    /\ e.out.height <= scan => e.out \in outputs \cup lost

\* What the webhook of an event was told.
SentInv ==
  \A e \in events :
    \/ e \in late
    \/ e.out.height > scan
    \/ LastSent(e.hook, e.out) >= scan - e.out.height + 1

\* An event that is followed is there or has had all its confirmations.
FollowInv ==
  \A f \in follows :
    /\ HasRow(f.hook)
    /\ OfChain(f.out)
    /\ f.out.height <= scan
    /\ f \in events \/ LastSent(f.hook, f.out) >= RowOf(f.hook).confirmations

TablesInv == HookTypes /\ OneRow /\ EventInv /\ SentInv /\ FollowInv /\ Told

----------------------------------------------------------------------------
(* The inductive invariant of the client.                                  *)

Timer == [iteration : Nat, request : Nat]

HttpTypes ==
  /\ alive \in BOOLEAN /\ two_loops \in BOOLEAN /\ cut \in BOOLEAN
  /\ outcome \in {"none", "ok", "error"}
  /\ outgoing \in Seq(Notice) /\ pushing \in Seq(Notice)
  /\ stage \in Stage
  /\ iteration \in Nat /\ requests \in Nat
  /\ timer \subseteq Timer /\ expired \subseteq Timer

\* A timer of the present iteration is the one of the present request.
TimerInv ==
  \A t \in timer \cup expired :
    /\ t.iteration <= iteration
    /\ t.iteration = iteration => stage \in Waits /\ t.request = requests

\* Nothing is left in a state that is gone.
GoneInv ==
  ~ alive => /\ outgoing = << >> /\ pushing = << >> /\ stage = "idle"
             /\ timer = {} /\ expired = {}

\* The loop waits for an operation of a message that is still queued.
LoopInv ==
  /\ ~ two_loops /\ stage = "idle" => outgoing = << >>
  /\ ~ two_loops /\ stage \in Stage \ {"idle", "shutdown"} => outgoing # << >>

ClientInv == HttpTypes /\ TimerInv /\ GoneInv /\ LoopInv

\* A notification that is not for zmq alone is a message of the client.
LEMMA NoteIsNotice ==
  ASSUME NEW n \in NoteRow, n.url # "zmq"
  PROVE  n \in Notice
BY DEF NoteRow, Notice, Told_tx

\* No client has a state before the first message.
LEMMA ClientInit == HttpInit => ClientInv
<1> SUFFICES ASSUME HttpInit PROVE ClientInv
  OBVIOUS
<1>0. << >> \in Seq(Notice)
  OBVIOUS
<1>1. HttpTypes
  BY <1>0 DEF HttpInit, HttpTypes, Stage
<1>2. TimerInv /\ GoneInv /\ LoopInv
  BY DEF HttpInit, TimerInv, GoneInv, LoopInv, Stage
<1> QED BY <1>1, <1>2 DEF ClientInv

\* queue_async of a message keeps the invariant: a new state starts with
\* iteration 0 and without timers of an older one.
LEMMA QueueStep ==
  ASSUME ClientInv, NEW m \in Notice, queue_async(m)
  PROVE  ClientInv'
<1>1. CASE alive
  <2>1. /\ pushing' = Append(pushing, m)
        /\ UNCHANGED <<alive, outgoing, stage, outcome, cut, iteration, timer, expired, two_loops, requests>>
    BY <1>1 DEF queue_async
  <2>2. HttpTypes'
    BY <2>1 DEF ClientInv, HttpTypes
  <2>3. TimerInv' /\ GoneInv' /\ LoopInv'
    BY <1>1, <2>1 DEF ClientInv, TimerInv, GoneInv, LoopInv
  <2> QED BY <2>2, <2>3 DEF ClientInv
<1>2. CASE ~ alive
  <2>1. /\ alive' = TRUE /\ outgoing' = <<m>> /\ stage' = "posted" /\ iteration' = 0
        /\ UNCHANGED <<pushing, outcome, cut, timer, expired, two_loops, requests>>
    BY <1>2 DEF queue_async
  <2>2. HttpTypes'
    BY <2>1 DEF ClientInv, HttpTypes, Stage
  <2>3. timer' = {} /\ expired' = {}
    BY <1>2, <2>1 DEF ClientInv, GoneInv
  <2>4. TimerInv' /\ GoneInv' /\ LoopInv'
    BY <2>1, <2>3 DEF TimerInv, GoneInv, LoopInv, Stage
  <2> QED BY <2>2, <2>4 DEF ClientInv
<1> QED BY <1>1, <1>2

\* The head of the loop with an iteration that no timer has yet.
LEMMA RoundStep ==
  ASSUME ClientInv, NEW i \in Nat, NEW kept \in BOOLEAN, Round(i, kept),
         \A t \in timer \cup expired : t.iteration < i,
         outgoing' \in Seq(Notice), cut' \in BOOLEAN, alive,
         UNCHANGED <<alive, pushing, expired, two_loops>>
  PROVE  ClientInv'
<1>1. CASE outgoing' = << >>
  <2>1. iteration' = i /\ outcome' = "none" /\ stage' = "idle" /\ UNCHANGED <<timer, requests>>
    BY <1>1 DEF Round
  <2>2. HttpTypes'
    BY <2>1 DEF ClientInv, HttpTypes, Stage
  <2>3. TimerInv'
    BY <2>1 DEF ClientInv, HttpTypes, TimerInv, Timer
  <2>4. GoneInv' /\ LoopInv'
    BY <1>1, <2>1 DEF GoneInv, LoopInv
  <2> QED BY <2>2, <2>3, <2>4 DEF ClientInv
<1>2. CASE outgoing' # << >>
  <2>1. /\ iteration' = i /\ outcome' = "none" /\ stage' \in {"write", "resolve"}
        /\ requests' = requests + 1
        /\ timer' = {[iteration |-> i, request |-> requests + 1]}
    BY <1>2 DEF Round, set_timeout
  <2>2. HttpTypes'
    BY <2>1 DEF ClientInv, HttpTypes, Stage, Timer
  <2>3. TimerInv'
    BY <2>1 DEF ClientInv, HttpTypes, TimerInv, Timer, Waits, Stage
  <2>4. GoneInv' /\ LoopInv'
    BY <1>2, <2>1 DEF GoneInv, LoopInv
  <2> QED BY <2>2, <2>3, <2>4 DEF ClientInv
<1> QED BY <1>1, <1>2

\* Every handler of the client keeps the invariant.
LEMMA ClientStep ==
  ASSUME ClientInv, HttpNext
  PROVE  ClientInv'
<1> USE DEF ClientInv
<1>0. ~ alive => stage = "idle" /\ pushing = << >> /\ expired = {} /\ timer = {}
  BY DEF GoneInv
<1>1. CASE pushed
  <2>1. Head(pushing) \in Notice /\ Tail(pushing) \in Seq(Notice)
    BY <1>1 DEF pushed, HttpTypes
  <2>2. HttpTypes'
    BY <1>1, <2>1 DEF pushed, HttpTypes, Stage
  <2>3. outgoing = << >> => stage \in {"idle", "shutdown"}
    BY <1>1 DEF pushed, HttpTypes, LoopInv, Stage
  <2>4. TimerInv'
    BY <1>1 DEF pushed, HttpTypes, TimerInv, Waits
  <2>5. GoneInv'
    BY <1>0, <1>1 DEF pushed, GoneInv
  <2>6. outgoing' # << >>
    BY <1>1, <2>1 DEF pushed, HttpTypes
  <2>7. LoopInv'
    BY <1>1, <2>3, <2>6 DEF pushed, LoopInv, Stage
  <2> QED BY <2>2, <2>4, <2>5, <2>7
<1>2. CASE start
  <2>1. \A t \in timer \cup expired : t.iteration < iteration
    BY <1>2 DEF start, TimerInv, HttpTypes, Timer, Waits
  <2>2. alive
    BY <1>0, <1>2 DEF start
  <2> QED BY <1>2, <2>1, <2>2, RoundStep DEF start, HttpTypes
<1>3. CASE advance
  <2>1. outgoing # << >>
    BY <1>3 DEF advance, LoopInv, Stage
  <2>2. stage' \in {"connect", "handshake", "write", "read"}
    BY <1>3 DEF advance, After
  <2>3. HttpTypes'
    BY <1>3, <2>2 DEF advance, HttpTypes, Stage
  <2>4. TimerInv'
    BY <1>3, <2>2 DEF advance, HttpTypes, TimerInv, Waits, Stage
  <2>5. GoneInv' /\ LoopInv'
    BY <1>0, <1>3, <2>1, <2>2 DEF advance, GoneInv, LoopInv, Stage
  <2> QED BY <2>3, <2>4, <2>5
<1>4. CASE ended
  <2>1. outgoing # << >> /\ alive
    BY <1>0, <1>4 DEF ended, LoopInv, Stage
  <2>2. outgoing' \in Seq(Notice)
    BY <1>4, <2>1 DEF ended, HttpTypes
  <2>3. \A t \in timer \cup expired : t.iteration < iteration + 1
    BY DEF TimerInv, HttpTypes, Timer
  <2>4. \/ Round(iteration + 1, TRUE) /\ cut' = cut
        \/ stage' = "shutdown" /\ outcome' = "none" /\ UNCHANGED <<cut, iteration, timer, requests>>
        \/ closed
    BY <1>4 DEF ended
  <2>5. UNCHANGED <<alive, pushing, expired, two_loops>>
    BY <1>4 DEF ended
  <2>a. cut \in BOOLEAN /\ iteration + 1 \in Nat
    BY DEF HttpTypes
  <2>6. CASE Round(iteration + 1, TRUE) /\ cut' = cut
    <3> HIDE DEF ClientInv
    <3> QED BY <2>1, <2>2, <2>3, <2>5, <2>6, <2>a, RoundStep, Zenon
  <2>7. CASE closed
    <3>1. Round(iteration + 1, FALSE) /\ cut' = FALSE
      BY <2>7 DEF closed
    <3> HIDE DEF ClientInv
    <3> QED BY <2>1, <2>2, <2>3, <2>5, <2>a, <3>1, RoundStep, Zenon
  <2>8. CASE stage' = "shutdown" /\ outcome' = "none" /\ UNCHANGED <<cut, iteration, timer, requests>>
    <3>1. HttpTypes'
      BY <2>2, <2>5, <2>8 DEF HttpTypes, Stage
    <3>2. stage \in Waits /\ stage' \in Waits
      BY <1>4, <2>8 DEF ended, Waits, Stage
    <3>3. TimerInv'
      BY <2>5, <2>8, <3>2 DEF TimerInv
    <3>4. GoneInv' /\ LoopInv'
      BY <2>1, <2>5, <2>8 DEF GoneInv, LoopInv
    <3> QED BY <3>1, <3>3, <3>4
  <2> QED BY <2>4, <2>6, <2>7, <2>8
<1>5. CASE shut
  <2>1. \A t \in timer \cup expired : t.iteration < iteration + 1
    BY DEF TimerInv, HttpTypes, Timer
  <2>2. alive
    BY <1>0, <1>5 DEF shut
  <2>3. Round(iteration + 1, FALSE) /\ cut' = FALSE /\ outgoing' = outgoing
    BY <1>5, Zenon DEF shut, closed
  <2>4. UNCHANGED <<alive, pushing, expired, two_loops>>
    BY <1>5 DEF shut
  <2>5. iteration + 1 \in Nat /\ outgoing' \in Seq(Notice)
    BY <2>3 DEF HttpTypes
  <2> HIDE DEF ClientInv
  <2> QED BY <2>1, <2>2, <2>3, <2>4, <2>5, RoundStep, Zenon
<1>6. CASE completes
  <2>1. HttpTypes'
    BY <1>6 DEF completes, HttpTypes
  <2>2. TimerInv' /\ GoneInv' /\ LoopInv'
    BY <1>6 DEF completes, TimerInv, GoneInv, LoopInv
  <2> QED BY <2>1, <2>2
<1>7. CASE expires
  <2>1. HttpTypes'
    BY <1>7 DEF expires, HttpTypes
  <2>2. TimerInv' /\ LoopInv'
    BY <1>7 DEF expires, TimerInv, LoopInv
  <2>3. GoneInv'
    BY <1>0, <1>7 DEF expires, GoneInv
  <2> QED BY <2>1, <2>2, <2>3
<1>8. CASE released
  <2>1. HttpTypes'
    BY <1>8 DEF released, HttpTypes
  <2>2. TimerInv' /\ GoneInv' /\ LoopInv'
    BY <1>8 DEF released, TimerInv, GoneInv, LoopInv
  <2> QED BY <2>1, <2>2
<1>9. ASSUME NEW t \in expired, on_timeout(t) PROVE ClientInv'
  <2>1. HttpTypes'
    BY <1>9 DEF on_timeout, HttpTypes
  <2>2. TimerInv' /\ GoneInv' /\ LoopInv'
    BY <1>0, <1>9 DEF on_timeout, TimerInv, GoneInv, LoopInv
  <2> QED BY <2>1, <2>2
<1> QED BY <1>1, <1>2, <1>3, <1>4, <1>5, <1>6, <1>7, <1>8, <1>9 DEF HttpNext

\* A step of the whole keeps the invariant of the client, given that the
\* scan thread hands on notifications.
LEMMA ClientKept ==
  ASSUME ClientInv, EmitTypes, [Next]_vars
  PROVE  ClientInv'
<1>1. CASE UNCHANGED http_vars
  <2>1. ClientInv'
    BY <1>1, ZenonT(60) DEF http_vars, ClientInv, HttpTypes, TimerInv, GoneInv, LoopInv
  <2> QED BY <2>1
<1>2. CASE http_async /\ ~ UNCHANGED http_vars
  <2>1. queue_async(Head(emit)) /\ Head(emit).url # "zmq" /\ emit # << >>
    BY <1>2 DEF http_async
  <2>2. Head(emit) \in Notice
    BY <2>1, NoteIsNotice DEF EmitTypes
  <2> QED BY <2>1, <2>2, QueueStep, Zenon
<1>3. CASE HttpNext
  BY <1>3, ClientStep, Zenon
<1> QED BY <1>1, <1>2, <1>3, Zenon DEF Next, vars

\* The handler that consumes a timer is on_timeout, and it touches the request
\* only if the timer is of the present iteration: of the present request.
LEMMA TimeoutStep ==
  ASSUME ClientInv, [Next]_vars
  PROVE  [\A t \in expired : t \notin expired' /\ (outcome' # outcome \/ cut' # cut)
                               => t.request = requests]_http_vars
<1> SUFFICES ASSUME NEW t \in expired, t \notin expired', outcome' # outcome \/ cut' # cut
             PROVE  t.request = requests
  OBVIOUS
<1>1. HttpNext
  <2>1. ~ UNCHANGED http_vars
    BY DEF http_vars
  <2>2. ~ http_async
    <3>1. ASSUME http_async PROVE UNCHANGED expired
      BY <3>1, <2>1 DEF http_async, queue_async
    <3> QED BY <3>1
  <2> QED BY <2>1, <2>2, Zenon DEF Next, vars
<1>2. PICK u \in expired : on_timeout(u)
  BY <1>1 DEF HttpNext, pushed, start, advance, ended, shut, completes, expires, released
<1>3. u = t
  BY <1>2 DEF on_timeout
<1>4. still_current(t) /\ stage \in Waits
  BY <1>2, <1>3 DEF on_timeout
<1> QED BY <1>4 DEF still_current, ClientInv, TimerInv, HttpTypes, Timer

----------------------------------------------------------------------------
(* The client is a queue.                                                  *)

\* What Delivery allows when a message is queued.
LEMMA QueuedLast ==
  ASSUME NEW S, NEW w \in Seq(S), NEW m \in S, NEW v, v = Append(w, m)
  PROVE  /\ Len(v) = Len(w) + 1 /\ v[Len(w) + 1] \in S
         /\ v = Append(w, v[Len(w) + 1])
BY AppendProperties

\* A message that is queued by a handler waits after all others.
LEMMA PushedLast ==
  ASSUME NEW S, NEW o \in Seq(S), NEW p \in Seq(S), NEW m \in S
  PROVE  o \o Append(p, m) = Append(o \o p, m)
OBVIOUS

\* The handler of queue_async moves the first message that waits to be pushed.
LEMMA PushedMoves ==
  ASSUME NEW S, NEW o \in Seq(S), NEW p \in Seq(S), p # << >>
  PROVE  Append(o, Head(p)) \o Tail(p) = o \o p
OBVIOUS

\* The message that is ended is the first of all that wait.
LEMMA EndedFirst ==
  ASSUME NEW S, NEW o \in Seq(S), NEW p \in Seq(S), o # << >>
  PROVE  o \o p # << >> /\ Tail(o) \o p = Tail(o \o p)
OBVIOUS

\* Every step queues a message at the end, ends the first one, or leaves what
\* waits as it is.
LEMMA QueueRefined ==
  ASSUME ClientInv, EmitTypes, [Next]_vars
  PROVE  [Queue!Next]_(outgoing \o pushing)
<1> DEFINE W == outgoing \o pushing
<1>0. outgoing \in Seq(Notice) /\ pushing \in Seq(Notice) /\ W \in Seq(Notice)
  BY DEF ClientInv, HttpTypes
<1>1. CASE UNCHANGED <<outgoing, pushing>>
  BY <1>1
<1>2. ASSUME NEW m \in Notice, W' = Append(W, m)
      PROVE  Queue!Next
  <2> HIDE DEF W
  <2>1. /\ Len(W') = Len(W) + 1 /\ W'[Len(W) + 1] \in Notice
        /\ W' = Append(W, W'[Len(W) + 1])
    BY <1>0, <1>2, QueuedLast
  <2> USE DEF W
  <2> QED BY <2>1 DEF Queue!Next, Queue!Queue
<1>3. CASE http_async /\ ~ UNCHANGED <<outgoing, pushing>>
  <2>1. queue_async(Head(emit)) /\ Head(emit).url # "zmq" /\ emit # << >>
    BY <1>3 DEF http_async, http_vars
  <2>2. Head(emit) \in Notice
    BY <2>1, NoteIsNotice DEF EmitTypes
  <2>3. CASE alive
    <3>1. outgoing' = outgoing /\ pushing' = Append(pushing, Head(emit))
      BY <2>1, <2>3 DEF queue_async
    <3>2. W' = Append(W, Head(emit))
      BY <1>0, <2>2, <3>1, PushedLast
    <3> QED BY <1>2, <2>2, <3>2
  <2>4. CASE ~ alive
    <3>1. outgoing' = <<Head(emit)>> /\ pushing' = pushing
      BY <2>1, <2>4 DEF queue_async
    <3>2. outgoing = << >> /\ pushing = << >>
      BY <2>4 DEF ClientInv, GoneInv
    <3>3. W' = Append(W, Head(emit))
      BY <3>1, <3>2, <2>2
    <3> QED BY <1>2, <2>2, <3>3
  <2> QED BY <2>3, <2>4
<1>4. CASE HttpNext
  <2>1. CASE pushed
    <3>1. W' = W
      BY <1>0, <2>1, PushedMoves DEF pushed
    <3> QED BY <3>1
  <2>2. CASE ended
    <3>1. outgoing # << >>
      BY <2>2 DEF ended, ClientInv, LoopInv, Stage
    <3>2. outgoing' = Tail(outgoing) /\ pushing' = pushing
      BY <2>2, Zenon DEF ended
    <3>3. W # << >> /\ W' = Tail(W)
      BY <1>0, <3>1, <3>2, EndedFirst
    <3> QED BY <3>3 DEF Queue!Next, Queue!End
  <2>3. CASE ~ pushed /\ ~ ended
    <3>1. UNCHANGED <<outgoing, pushing>>
      BY <1>4, <2>3 DEF HttpNext, start, advance, shut, completes, expires, released, on_timeout
    <3> QED BY <1>1, <3>1
  <2> QED BY <2>1, <2>2, <2>3
<1> QED BY <1>1, <1>3, <1>4 DEF Next, vars, http_vars

----------------------------------------------------------------------------
(* The notifications of an update are handed on in the order of the table. *)

\* The key of the events table and the count tell notifications apart.
Keyed(N) ==
  \A x, y \in N : x.tx.height = y.tx.height /\ x.hook = y.hook /\ x.count = y.count => x = y

\* The notifications that are handed on before x.
Earlier(N, x) == {y \in N : Before(y, x)}

\* Before is a strict total order on the notifications of an update.
LEMMA BeforeOrder ==
  ASSUME NEW N, N \subseteq NoteRow, Keyed(N)
  PROVE  /\ \A x \in N : ~ Before(x, x)
         /\ \A x, y, z \in N : Before(x, y) /\ Before(y, z) => Before(x, z)
         /\ \A x, y \in N : x # y => Before(x, y) \/ Before(y, x)
<1>1. ASSUME NEW x \in N
      PROVE  x.tx.height \in Int /\ x.hook \in Int /\ x.count \in Int
  <2>1. x.hook \in HookId /\ x.tx \in Told_tx /\ x.count \in 0..MaxHeight
    BY DEF NoteRow
  <2>2. x.tx.height \in 0..MaxHeight
    BY <2>1 DEF Told_tx
  <2>3. 0..MaxHeight \subseteq Int /\ HookId \subseteq Int
    BY WebhooksAssumption
  <2> QED BY <2>1, <2>2, <2>3, Zenon
<1> QED BY <1>1 DEF Before, Keyed

\* Notifications of finitely many webhooks are finitely many.
LEMMA NotesFinite ==
  ASSUME NEW N, N \subseteq NoteRow, Keyed(N), NEW I, IsFiniteSet(I),
         \A x \in N : x.hook \in I
  PROVE  IsFiniteSet(N)
<1> DEFINE T == ((0..MaxHeight) \X I) \X (0..MaxHeight)
           f == [x \in N |-> <<<<x.tx.height, x.hook>>, x.count>>]
<1>1. IsFiniteSet(0..MaxHeight)
  BY FS_Interval, WebhooksAssumption
<1>2. IsFiniteSet((0..MaxHeight) \X I)
  BY <1>1, FS_Product
<1>3. IsFiniteSet(T)
  <2> DEFINE U == (0..MaxHeight) \X I
             C == 0..MaxHeight
  <2>1. IsFiniteSet(U) /\ IsFiniteSet(C)
    BY <1>1, <1>2
  <2> HIDE DEF U, C
  <2>2. IsFiniteSet(U \X C)
    BY <2>1, FS_Product
  <2> QED BY <2>2 DEF U, C
<1>4. f \in [N -> T]
  <2>1. ASSUME NEW x \in N PROVE <<<<x.tx.height, x.hook>>, x.count>> \in T
    BY DEF NoteRow, Told_tx
  <2> QED BY <2>1, Zenon
<1>5. \A x, y \in N : f[x] = f[y] => x = y
  BY DEF Keyed
<1>6. f \in Injection(N, T)
  <2> HIDE DEF f, T
  <2> QED BY <1>4, <1>5 DEF Injection, IsInjective
<1> HIDE DEF f, T
<1> QED BY <1>3, <1>6, FS_Injection

\* Every notification has a place of its own in InOrder, and every place has
\* one: the number of earlier notifications is a bijection.
LEMMA InOrderLists ==
  ASSUME NEW N, N \subseteq NoteRow, Keyed(N), IsFiniteSet(N)
  PROVE  /\ InOrder(N) \in Seq(N)
         /\ \A x \in N : \E k \in 1..Len(InOrder(N)) : InOrder(N)[k] = x
<1> DEFINE n == Cardinality(N)
           rank == [x \in N |-> Cardinality(Earlier(N, x))]
<1>0. n \in Nat
  BY FS_CardinalityType
<1>1. \A x \in N : IsFiniteSet(Earlier(N, x)) /\ Cardinality(Earlier(N, x)) \in 0..n - 1
  <2> TAKE x \in N
  <2>1. Earlier(N, x) \in SUBSET N /\ Earlier(N, x) # N
    BY BeforeOrder DEF Earlier
  <2>2. /\ IsFiniteSet(Earlier(N, x)) /\ Cardinality(Earlier(N, x)) <= n
        /\ Cardinality(Earlier(N, x)) # n
    BY <2>1, FS_Subset
  <2>3. Cardinality(Earlier(N, x)) \in Nat
    BY <2>2, FS_CardinalityType
  <2> QED BY <1>0, <2>2, <2>3
<1>2. ASSUME NEW x \in N, NEW y \in N, Before(x, y)
      PROVE  Cardinality(Earlier(N, x)) # Cardinality(Earlier(N, y))
  <2>1. Earlier(N, x) \in SUBSET Earlier(N, y) /\ x \in Earlier(N, y) /\ x \notin Earlier(N, x)
    BY <1>2, BeforeOrder DEF Earlier
  <2> QED BY <1>1, <2>1, FS_Subset, SMTT(30)
<1>3. \A x, y \in N : rank[x] = rank[y] => x = y
  BY <1>2, BeforeOrder
<1>4. rank \in Injection(N, 0..n - 1)
  <2>1. rank \in [N -> 0..n - 1]
    BY <1>1
  <2> HIDE DEF rank
  <2> QED BY <1>3, <2>1 DEF Injection, IsInjective
<1>5. IsFiniteSet(0..n - 1) /\ Cardinality(0..n - 1) = n
  BY <1>0, FS_Interval
<1>6. rank \in Surjection(N, 0..n - 1)
  <2> HIDE DEF rank, n
  <2> QED BY <1>4, <1>5, FS_Injection DEF n
<1>7. \A k \in 1..n : \E x \in N : rank[x] = k - 1
  <2> HIDE DEF rank
  <2>1. \A i \in 0..n - 1 : \E x \in N : rank[x] = i
    BY <1>6 DEF Surjection
  <2> QED BY <1>0, <2>1
<1>8. \A k \in 1..n : InOrder(N)[k] \in N /\ rank[InOrder(N)[k]] = k - 1
  <2> TAKE k \in 1..n
  <2>1. InOrder(N)[k] = CHOOSE x \in N : Cardinality(Earlier(N, x)) = k - 1
    BY DEF InOrder, Earlier
  <2>2. \E x \in N : Cardinality(Earlier(N, x)) = k - 1
    BY <1>7
  <2>3. InOrder(N)[k] \in N /\ Cardinality(Earlier(N, InOrder(N)[k])) = k - 1
    BY <2>1, <2>2
  <2> QED BY <2>3
<1>9. InOrder(N) \in [1..n -> N]
  BY <1>8 DEF InOrder
<1>10. InOrder(N) \in Seq(N) /\ Len(InOrder(N)) = n
  <2>1. InOrder(N) \in Seq(N)
    BY <1>0, <1>9
  <2>2. DOMAIN InOrder(N) = 1..n
    BY <1>9
  <2> QED BY <1>0, <2>1, <2>2, LenProperties
<1>11. ASSUME NEW x \in N PROVE \E k \in 1..n : InOrder(N)[k] = x
  <2>1. rank[x] \in 0..n - 1
    BY <1>1
  <2>2. rank[x] + 1 \in 1..n /\ (rank[x] + 1) - 1 = rank[x]
    BY <1>0, <2>1
  <2>3. InOrder(N)[rank[x] + 1] \in N /\ rank[InOrder(N)[rank[x] + 1]] = rank[x]
    <3> HIDE DEF rank
    <3> QED BY <1>8, <2>2
  <2>4. InOrder(N)[rank[x] + 1] = x
    <3> HIDE DEF rank
    <3> QED BY <1>3, <2>3
  <2> QED BY <2>2, <2>4
<1> QED BY <1>10, <1>11

----------------------------------------------------------------------------
(* What an update makes of the tables.                                     *)

Made(from, to) == check_hooks(Scanned(from, to))
Evs(from, to) == events \cup Made(from, to)
Paid(from, to) == ongoing_notes(Evs(from, to), scan + 1, to)
Spent(from, to) == spend_notes(ScannedSpends(from, to))

\* The first and the last count that an update to a height gives an event.
First(e) == IF scan < e.out.height THEN 1 ELSE scan - e.out.height + 2
Stop(e, to) ==
  LET wanted == RowOf(e.hook).confirmations
      reached == to - e.out.height + 1
  IN  IF wanted < First(e) THEN First(e) ELSE IF wanted < reached THEN wanted ELSE reached

\* The row that a webhook id names.
LEMMA RowFound ==
  ASSUME HookTypes, NEW i, HasRow(i)
  PROVE  /\ RowOf(i) \in hooks /\ RowOf(i).id = i /\ i \in HookId
         /\ RowOf(i).confirmations \in Nat
         /\ RowOf(i).url \in Url \cup {"zmq"}
<1>1. RowOf(i) \in hooks /\ RowOf(i).id = i
  BY DEF HasRow, RowOf
<1>2. RowOf(i) \in HookRow
  BY <1>1 DEF HookTypes
<1>3. RowOf(i).id \in HookId /\ RowOf(i).confirmations \in Confirm /\ RowOf(i).url \in Url \cup {"zmq"}
  BY <1>2 DEF HookRow
<1>4. Confirm \subseteq Nat
  BY WebhooksAssumption
<1> QED BY <1>1, <1>3, <1>4

\* A block pays an output of the account.
LEMMA OutOfChain ==
  ASSUME HookTypes, NEW h \in 1..Len(chain)
  PROVE  /\ OutAt(h) \in OutRow /\ OutAt(h).height = h
         /\ chain[h] \in ChainBlock
<1>1. chain[h] \in ChainBlock /\ h \in 1..MaxHeight
  BY WebhooksAssumption DEF HookTypes
<1>2. chain[h].fork \in 0..MaxForks /\ chain[h].pid \in Pid
  BY <1>1 DEF ChainBlock
<1> QED BY <1>1, <1>2 DEF OutAt, OutRow

\* The events that an update inserts are of a webhook and of a scanned block.
LEMMA MadeFacts ==
  ASSUME HookTypes, NEW from \in Nat, NEW to \in Nat, to <= Len(chain),
         NEW e \in Made(from, to)
  PROVE  /\ e \in EventRow /\ HasRow(e.hook) /\ OfChain(e.out)
         /\ e.out \in Scanned(from, to)
         /\ e.out.height \in from + 1..to
<1>1. PICK o \in Scanned(from, to), h \in hooks : e = Event(o, h.id)
  BY DEF Made, check_hooks
<1>2. PICK g \in from + 1..to : Pays(chain[g]) /\ o = OutAt(g)
  BY <1>1 DEF Scanned
<1>3. g \in 1..Len(chain)
  BY <1>2 DEF HookTypes
<1>4. OutAt(g) \in OutRow /\ OutAt(g).height = g
  BY <1>3, OutOfChain
<1>5. h \in HookRow
  BY <1>1 DEF HookTypes
<1>6. h.id \in HookId
  BY <1>5 DEF HookRow
<1>7. e.out = o /\ e.hook = h.id
  BY <1>1 DEF Event
<1>8. e \in EventRow
  BY <1>1, <1>2, <1>4, <1>6 DEF Event, EventRow
<1>9. HasRow(e.hook)
  BY <1>1, <1>7 DEF HasRow
<1>10. OfChain(e.out)
  BY <1>2, <1>3, <1>4, <1>7 DEF OfChain
<1> QED BY <1>1, <1>2, <1>4, <1>7, <1>8, <1>9, <1>10

\* Every scanned output with a matching webhook is an event, and every block
\* that pays is scanned.
LEMMA ScannedFacts ==
  ASSUME HookTypes, NEW from \in Nat, NEW to \in Nat, to <= Len(chain),
         NEW o, OfChain(o), o.height \in from + 1..to
  PROVE  o \in Scanned(from, to)
BY DEF Scanned, OfChain

\* The events that an update goes through have a webhook and a block.
LEMMA EvsFacts ==
  ASSUME HookTypes, EventInv, NEW from \in Nat, NEW to \in Nat, to <= Len(chain),
         NEW e \in Evs(from, to)
  PROVE  e \in EventRow /\ HasRow(e.hook) /\ OfChain(e.out)
BY MadeFacts DEF Evs, HookTypes, EventInv

\* An event is its output and its webhook.
LEMMA EventEta ==
  ASSUME NEW e \in EventRow
  PROVE  /\ e = Event(e.out, e.hook) /\ e.out \in OutRow /\ e.hook \in HookId
         /\ e.out.height \in 1..MaxHeight
<1>1. e = Event(e.out, e.hook) /\ e.out \in OutRow /\ e.hook \in HookId
  BY DEF Event, EventRow
<1> QED BY <1>1 DEF OutRow

\* add_ongoing_hooks counts from the first confirmation that is new to the
\* last one that is wanted or reached.
LEMMA CountsFacts ==
  ASSUME HookTypes, NEW e \in EventRow, HasRow(e.hook),
         NEW to \in Nat, scan < to
  PROVE  /\ e.out.height > to => Counts(e, scan + 1, to) = {}
         /\ e.out.height <= to =>
              /\ Counts(e, scan + 1, to) = First(e)..Stop(e, to)
              /\ First(e) \in Nat /\ Stop(e, to) \in Nat
              /\ 1 <= First(e) /\ First(e) <= Stop(e, to)
              /\ Stop(e, to) <= to - e.out.height + 1
              /\ \/ Stop(e, to) = to - e.out.height + 1
                 \/ RowOf(e.hook).confirmations <= Stop(e, to)
<1>1. e.out.height \in Nat /\ e.out.height >= 1
  BY EventEta, WebhooksAssumption
<1>2. RowOf(e.hook).confirmations \in Nat
  BY RowFound
<1>3. scan \in Nat
  BY DEF HookTypes
<1>4. CASE e.out.height > to
  BY <1>1, <1>3, <1>4 DEF Counts
<1>5. CASE e.out.height <= to /\ scan < e.out.height
  <2>1. First(e) = 1 /\ (IF scan + 1 < e.out.height THEN e.out.height ELSE scan + 1) = e.out.height
    BY <1>1, <1>3, <1>5 DEF First
  <2>2. Counts(e, scan + 1, to) = 1..Stop(e, to)
    BY <1>1, <1>2, <1>5, <2>1 DEF Counts, Stop
  <2> QED BY <1>1, <1>2, <1>5, <2>1, <2>2 DEF Stop
<1>6. CASE e.out.height <= to /\ ~ scan < e.out.height
  <2>1. /\ First(e) = scan - e.out.height + 2
        /\ (IF scan + 1 < e.out.height THEN e.out.height ELSE scan + 1) - e.out.height + 1 = First(e)
        /\ (IF scan + 1 < e.out.height THEN e.out.height ELSE scan + 1) <= to
    BY <1>1, <1>3, <1>6 DEF First
  <2>2. Counts(e, scan + 1, to) = First(e)..Stop(e, to)
    BY <2>1 DEF Counts, Stop
  <2> DEFINE f == First(e)
             w == RowOf(e.hook).confirmations
             r == to - e.out.height + 1
  <2>3. f \in Nat /\ 1 <= f /\ f <= r /\ w \in Nat /\ r \in Nat
    BY <1>1, <1>2, <1>3, <1>6, <2>1
  <2>4. Stop(e, to) = IF w < f THEN f ELSE IF w < r THEN w ELSE r
    BY DEF Stop
  <2> HIDE DEF f, w, r
  <2>5. f <= Stop(e, to) /\ Stop(e, to) <= r /\ Stop(e, to) \in Nat /\ (Stop(e, to) = r \/ w <= Stop(e, to))
    BY <2>3, <2>4
  <2> QED BY <1>1, <1>6, <2>2, <2>3, <2>5 DEF f, w, r
<1> QED BY <1>1, <1>4, <1>5, <1>6

\* The ids of the webhooks are finitely many.
LEMMA IdsFinite ==
  ASSUME HookTypes
  PROVE  IsFiniteSet({h.id : h \in hooks})
<1> DEFINE T == {h.id : h \in hooks}
           f == [h \in hooks |-> h.id]
<1>1. f \in [hooks -> T] /\ \A t \in T : \E h \in hooks : f[h] = t
  OBVIOUS
<1>2. f \in Surjection(hooks, T)
  <2> HIDE DEF f, T
  <2> QED BY <1>1 DEF Surjection
<1>3. IsFiniteSet(hooks)
  BY DEF HookTypes
<1> HIDE DEF f, T
<1>4. IsFiniteSet(T)
  BY <1>2, <1>3, FS_Surjection
<1> QED BY <1>4 DEF T

\* The notifications of the events, one for each count.
LEMMA PaidFacts ==
  ASSUME HookTypes, EventInv, NEW from \in Nat, NEW to \in Nat, to <= Len(chain), scan < to,
         NEW n \in Paid(from, to)
  PROVE  \E e \in Evs(from, to) :
           /\ n.count \in Counts(e, scan + 1, to)
           /\ n = Note(RowOf(e.hook), e.out, n.count)
           /\ n.hook = e.hook /\ n.tx = e.out
           /\ n \in NoteRow /\ e.out.height <= to
<1>0. PICK e \in Evs(from, to) :
        \E c \in Counts(e, scan + 1, to) : n = Note(RowOf(e.hook), e.out, c)
  BY DEF Paid, ongoing_notes
<1>1. PICK c \in Counts(e, scan + 1, to) : n = Note(RowOf(e.hook), e.out, c)
  BY <1>0
<1>2. e \in EventRow /\ HasRow(e.hook)
  BY EvsFacts
<1>3. RowOf(e.hook).id = e.hook /\ RowOf(e.hook).url \in Url \cup {"zmq"} /\ e.hook \in HookId
  BY <1>2, RowFound
<1>4. n.count = c /\ n.hook = e.hook /\ n.tx = e.out
  BY <1>1, <1>3 DEF Note
<1>5. e.out \in OutRow /\ e.out.height \in 1..MaxHeight
  BY <1>2, EventEta
<1>6. e.out.height <= to
  BY <1>1, <1>2, <1>5, CountsFacts, WebhooksAssumption
<1>7. c \in 0..MaxHeight
  <2>1. to <= MaxHeight /\ MaxHeight \in Nat
    BY WebhooksAssumption DEF HookTypes
  <2>2. c \in First(e)..Stop(e, to) /\ 1 <= First(e) /\ Stop(e, to) <= to - e.out.height + 1
        /\ First(e) \in Nat /\ Stop(e, to) \in Nat
    BY <1>1, <1>2, <1>6, CountsFacts, SMTT(30)
  <2> QED BY <1>5, <2>1, <2>2, SMTT(30)
<1>8. e.out \in Told_tx
  <2>1. 1..MaxHeight \subseteq 0..MaxHeight
    BY WebhooksAssumption
  <2> QED BY <1>5, <2>1 DEF OutRow, Told_tx
<1>9. n \in NoteRow
  BY <1>1, <1>3, <1>7, <1>8 DEF Note, NoteRow
<1> QED BY <1>1, <1>4, <1>6, <1>9

\* An output of the chain is named by its height.
LEMMA HeightNames ==
  ASSUME NEW o, NEW p, OfChain(o), OfChain(p), o.height = p.height
  PROVE  o = p
BY DEF OfChain

\* The events of one update differ in height or webhook: their notifications
\* are told apart by the key of the table and the count.
LEMMA PaidKeyed ==
  ASSUME HookTypes, EventInv, NEW from \in Nat, NEW to \in Nat, to <= Len(chain), scan < to
  PROVE  Paid(from, to) \subseteq NoteRow /\ Keyed(Paid(from, to)) /\ IsFiniteSet(Paid(from, to))
<1>1. Paid(from, to) \subseteq NoteRow
  BY PaidFacts
<1>2. Keyed(Paid(from, to))
  <2> SUFFICES ASSUME NEW x \in Paid(from, to), NEW y \in Paid(from, to),
                      x.tx.height = y.tx.height, x.hook = y.hook, x.count = y.count
               PROVE  x = y
    BY DEF Keyed
  <2>1. PICK d \in Evs(from, to) :
          x = Note(RowOf(d.hook), d.out, x.count) /\ x.hook = d.hook /\ x.tx = d.out
    BY PaidFacts, Zenon
  <2>2. PICK e \in Evs(from, to) :
          y = Note(RowOf(e.hook), e.out, y.count) /\ y.hook = e.hook /\ y.tx = e.out
    BY PaidFacts, Zenon
  <2>3. d.out = e.out
    BY <2>1, <2>2, EvsFacts, HeightNames
  <2> QED BY <2>1, <2>2, <2>3, ZenonT(60)
<1>3. \A x \in Paid(from, to) : x.hook \in {h.id : h \in hooks}
  <2> TAKE x \in Paid(from, to)
  <2>1. PICK d \in Evs(from, to) : x.hook = d.hook
    BY PaidFacts, Zenon
  <2>2. HasRow(d.hook)
    BY <2>1, EvsFacts
  <2> QED BY <2>1, <2>2 DEF HasRow
<1> QED BY <1>1, <1>2, <1>3, IdsFinite, NotesFinite

\* One notification for each spend and each webhook for spends.
LEMMA SpentKeyed ==
  ASSUME HookTypes, OneRow, NEW from \in Nat, NEW to \in Nat, to <= Len(chain)
  PROVE  Spent(from, to) \subseteq NoteRow /\ Keyed(Spent(from, to)) /\ IsFiniteSet(Spent(from, to))
<1> DEFINE tx(s) == [height |-> s, fork |-> chain[s].fork, pid |-> 0]
<1>1. ASSUME NEW x \in Spent(from, to)
      PROVE  \E h \in hooks, s \in from + 1..to :
               /\ x = Note(h, tx(s), 1) /\ x.hook = h.id /\ x.tx.height = s
               /\ s \in 1..Len(chain) /\ x.count = 1 /\ x.tx = tx(s)
  <2>1. PICK h \in spend_hooks, s \in ScannedSpends(from, to) : x = Note(h, tx(s), 1)
    BY <1>1 DEF Spent, spend_notes
  <2>2. h \in hooks /\ s \in from + 1..to
    BY <2>1 DEF spend_hooks, ScannedSpends
  <2>3. s \in 1..Len(chain)
    BY <2>2 DEF HookTypes
  <2>4. x.hook = h.id /\ x.tx.height = s /\ x.count = 1 /\ x.tx = tx(s)
    BY <2>1 DEF Note
  <2> QED BY <2>1, <2>2, <2>3, <2>4
<1>2. ASSUME NEW x \in Spent(from, to) PROVE x \in NoteRow /\ x.hook \in {h.id : h \in hooks}
  <2>1. PICK h \in hooks, s \in from + 1..to :
          x = Note(h, tx(s), 1) /\ x.hook = h.id /\ s \in 1..Len(chain)
    BY <1>1
  <2>2. h \in HookRow
    BY <2>1 DEF HookTypes
  <2>3. h.id \in HookId /\ h.url \in Url \cup {"zmq"}
    BY <2>2 DEF HookRow
  <2>4. chain[s] \in ChainBlock
    BY <2>1, OutOfChain
  <2>5. s \in 0..MaxHeight /\ 1 \in 0..MaxHeight /\ 0 \in Pid
    BY <2>1, WebhooksAssumption DEF HookTypes
  <2>6. tx(s) \in Told_tx
    BY <2>4, <2>5 DEF ChainBlock, Told_tx
  <2>7. x \in NoteRow
    <3> HIDE DEF tx
    <3> QED BY <2>1, <2>3, <2>5, <2>6 DEF Note, NoteRow
  <2> QED BY <2>1, <2>7
<1>3. Keyed(Spent(from, to))
  <2> SUFFICES ASSUME NEW x \in Spent(from, to), NEW y \in Spent(from, to),
                      x.tx.height = y.tx.height, x.hook = y.hook
               PROVE  x = y
    BY DEF Keyed
  <2>1. PICK g \in hooks, s \in from + 1..to :
          x = Note(g, tx(s), 1) /\ x.hook = g.id /\ x.tx.height = s
    BY <1>1, Zenon
  <2>2. PICK h \in hooks, t \in from + 1..to :
          y = Note(h, tx(t), 1) /\ y.hook = h.id /\ y.tx.height = t
    BY <1>1, Zenon
  <2>3. s = t /\ g = h
    BY <2>1, <2>2 DEF OneRow
  <2> QED BY <2>1, <2>2, <2>3
<1>4. Spent(from, to) \subseteq NoteRow
  BY <1>2
<1> QED BY <1>2, <1>3, <1>4, IdsFinite, NotesFinite

\* The assignments of user_data::store.
LEMMA StoreFacts ==
  ASSUME HookTypes, NEW from \in 0..MaxHeight, NEW to \in 0..MaxHeight, store(from, to)
  PROVE  /\ from \in Nat /\ to \in Nat /\ from <= scan /\ scan < to /\ to <= Len(chain)
         /\ outputs' = outputs \cup Scanned(from, to)
         /\ events' = {e \in Evs(from, to) : ~ finished(e, scan + 1, to)}
         /\ emit' = InOrder(Paid(from, to)) \o InOrder(Spent(from, to))
         /\ follows' = follows \cup {e \in Made(from, to) : e.out.height > scan}
         /\ late' = late \cup {e \in Made(from, to) : e.out.height <= scan /\ e \notin events}
         /\ lost' = lost \ Scanned(from, to)
         /\ scan' = to
         /\ UNCHANGED <<chain, forks, hooks, unused>>
<1>1. from \in Nat /\ to \in Nat
  BY WebhooksAssumption
<1>2. from <= scan /\ scan < to /\ to <= Len(chain)
  BY DEF store, Batch
<1> QED BY <1>1, <1>2, Zenon DEF store, Made, Evs, Paid, Spent

\* The notifications of an update are all handed on.
LEMMA EmitFacts ==
  ASSUME HookTypes, OneRow, EventInv,
         NEW from \in 0..MaxHeight, NEW to \in 0..MaxHeight, store(from, to)
  PROVE  /\ emit' \in Seq(NoteRow)
         /\ \A n \in Paid(from, to) : \E k \in DOMAIN emit' : emit'[k] = n
<1> DEFINE A == InOrder(Paid(from, to))
           B == InOrder(Spent(from, to))
<1>1. from \in Nat /\ to \in Nat /\ scan < to /\ to <= Len(chain) /\ emit' = A \o B
  BY StoreFacts
<1>2. A \in Seq(Paid(from, to)) /\ \A x \in Paid(from, to) : \E k \in 1..Len(A) : A[k] = x
  BY <1>1, PaidKeyed, InOrderLists
<1>3. B \in Seq(Spent(from, to))
  BY <1>1, SpentKeyed, InOrderLists
<1>4. A \in Seq(NoteRow) /\ B \in Seq(NoteRow)
  BY <1>1, <1>2, <1>3, PaidKeyed, SpentKeyed, SeqMonotonic
<1> HIDE DEF A, B
<1>5. /\ A \o B \in Seq(NoteRow) /\ Len(A \o B) = Len(A) + Len(B)
      /\ \A i \in 1..Len(A) : (A \o B)[i] = A[i]
      /\ Len(A) \in Nat /\ Len(B) \in Nat
  BY <1>4, ConcatProperties, LenProperties
<1>6. DOMAIN emit' = 1..Len(A) + Len(B)
  BY <1>1, <1>5, LenProperties
<1>7. ASSUME NEW n \in Paid(from, to) PROVE \E k \in DOMAIN emit' : emit'[k] = n
  <2>1. PICK k \in 1..Len(A) : A[k] = n
    BY <1>2
  <2>2. k \in DOMAIN emit'
    BY <1>5, <1>6, <2>1
  <2> QED BY <1>1, <1>5, <2>1, <2>2
<1> QED BY <1>1, <1>5, <1>7

\* The notifications of one event are its counts.
LEMMA PaidOfEvent ==
  ASSUME HookTypes, EventInv, NEW from \in Nat, NEW to \in Nat, to <= Len(chain), scan < to,
         NEW e \in Evs(from, to), e.out.height <= to
  PROVE  /\ \A n \in Paid(from, to) : <<n.hook, n.tx>> = <<e.hook, e.out>>
                                       => n.count \in First(e)..Stop(e, to)
         /\ \A c \in First(e)..Stop(e, to) : \E n \in Paid(from, to) :
              n.hook = e.hook /\ n.tx = e.out /\ n.count = c
<1>1. e \in EventRow /\ HasRow(e.hook) /\ Counts(e, scan + 1, to) = First(e)..Stop(e, to)
  BY EvsFacts, CountsFacts
<1>2. ASSUME NEW n \in Paid(from, to), <<n.hook, n.tx>> = <<e.hook, e.out>>
      PROVE  n.count \in First(e)..Stop(e, to)
  <2>1. PICK d \in Evs(from, to) :
          n.count \in Counts(d, scan + 1, to) /\ n.hook = d.hook /\ n.tx = d.out
    BY PaidFacts, Zenon
  <2>2. d = Event(d.out, d.hook) /\ e = Event(e.out, e.hook)
    BY <1>1, <2>1, EvsFacts, EventEta
  <2>3. d.hook = e.hook /\ d.out = e.out
    BY <1>2, <2>1
  <2>4. d = e
    BY <2>2, <2>3, Zenon
  <2> QED BY <1>1, <2>1, <2>4
<1>3. ASSUME NEW c \in First(e)..Stop(e, to)
      PROVE  \E n \in Paid(from, to) : n.hook = e.hook /\ n.tx = e.out /\ n.count = c
  <2> DEFINE n == Note(RowOf(e.hook), e.out, c)
  <2>0. n \in {Note(RowOf(e.hook), e.out, i) : i \in Counts(e, scan + 1, to)}
    BY <1>1, <1>3
  <2>1. n \in Paid(from, to)
    <3> HIDE DEF n
    <3> QED BY <2>0 DEF Paid, ongoing_notes
  <2>2. n.hook = e.hook /\ n.tx = e.out /\ n.count = c
    BY <1>1, RowFound DEF Note
  <2> QED BY <2>1, <2>2
<1> QED BY <1>2, <1>3

\* The last count that a webhook is told of an output, after an update.
LEMMA LastFacts ==
  ASSUME HookTypes, EventInv,
         NEW from \in 0..MaxHeight, NEW to \in 0..MaxHeight, store(from, to)
  PROVE  /\ \A e \in Evs(from, to) : e.out.height <= to =>
              <<e.hook, e.out>> \in DOMAIN last' /\ last'[<<e.hook, e.out>>] = Stop(e, to)
         /\ \A p \in DOMAIN last' :
              \/ \E e \in Evs(from, to) : e.out.height <= to /\ p = <<e.hook, e.out>>
              \/ p \in DOMAIN last /\ last'[p] = last[p]
         /\ DOMAIN last \subseteq DOMAIN last'
         /\ last' \in [DOMAIN last' -> 0..MaxHeight]
         /\ DOMAIN last' \subseteq HookId \X OutRow
<1> DEFINE P == Paid(from, to)
           Of(p) == {m \in P : <<m.hook, m.tx>> = p}
           Top(p) == CHOOSE c \in {n.count : n \in Of(p)} :
                       \A n \in P : <<n.hook, n.tx>> = p => n.count <= c
           D == DOMAIN last \cup {<<n.hook, n.tx>> : n \in P}
<1>1. from \in Nat /\ to \in Nat /\ scan < to /\ to <= Len(chain)
  BY StoreFacts
<1>2. last' = [p \in D |-> IF \E n \in P : <<n.hook, n.tx>> = p THEN Top(p) ELSE last[p]]
  BY Zenon DEF store, Paid, Evs, Made
<1>3. DOMAIN last' = D /\ \A p \in D :
        last'[p] = IF \E n \in P : <<n.hook, n.tx>> = p THEN Top(p) ELSE last[p]
  <2> HIDE DEF D, P, Top
  <2> QED BY <1>2
<1>4. ASSUME NEW e \in Evs(from, to), e.out.height <= to
      PROVE  <<e.hook, e.out>> \in DOMAIN last' /\ last'[<<e.hook, e.out>>] = Stop(e, to)
  <2> DEFINE q == <<e.hook, e.out>>
  <2>1. First(e) \in Nat /\ Stop(e, to) \in Nat /\ First(e) <= Stop(e, to)
    BY <1>1, <1>4, EvsFacts, CountsFacts
  <2>2. \A n \in P : <<n.hook, n.tx>> = q => n.count \in First(e)..Stop(e, to)
    BY <1>1, <1>4, PaidOfEvent
  <2>a. Stop(e, to) \in First(e)..Stop(e, to)
    BY <2>1
  <2>b. \A c \in First(e)..Stop(e, to) : \E n \in Paid(from, to) :
          n.hook = e.hook /\ n.tx = e.out /\ n.count = c
    BY <1>1, <1>4, PaidOfEvent
  <2>3. PICK n \in P : n.hook = e.hook /\ n.tx = e.out /\ n.count = Stop(e, to)
    BY <2>a, <2>b, Zenon
  <2>4. <<n.hook, n.tx>> = q
    BY <2>3
  <2>5. q \in D /\ \E m \in P : <<m.hook, m.tx>> = q
    BY <2>3, <2>4
  <2>6. Top(q) = Stop(e, to)
    <3> DEFINE C == {m.count : m \in Of(q)}
               Is(c) == c \in C /\ \A m \in P : <<m.hook, m.tx>> = q => m.count <= c
    <3>1. Is(Stop(e, to))
      BY <2>1, <2>2, <2>3, <2>4
    <3>2. Is(Top(q))
      BY <3>1
    <3>3. \A c \in C : c \in First(e)..Stop(e, to)
      BY <2>2
    <3>4. Stop(e, to) <= Top(q) /\ Top(q) \in First(e)..Stop(e, to)
      <4> HIDE DEF Top, C
      <4> QED BY <2>3, <2>4, <3>2, <3>3
    <3> HIDE DEF Top
    <3> QED BY <2>1, <3>4
  <2> HIDE DEF Top, D, P, q
  <2>7. q \in DOMAIN last' /\ last'[q] = Stop(e, to)
    BY <1>3, <2>5, <2>6
  <2> QED BY <2>7 DEF q
<1>5. ASSUME NEW p \in DOMAIN last'
      PROVE  \/ \E e \in Evs(from, to) : e.out.height <= to /\ p = <<e.hook, e.out>>
             \/ p \in DOMAIN last /\ last'[p] = last[p]
  <2>1. CASE \E n \in P : <<n.hook, n.tx>> = p
    <3>1. PICK n \in P : <<n.hook, n.tx>> = p
      BY <2>1
    <3>2. PICK e \in Evs(from, to) : n.hook = e.hook /\ n.tx = e.out /\ e.out.height <= to
      BY <1>1, PaidFacts, Zenon
    <3> QED BY <3>1, <3>2
  <2>2. CASE ~ \E n \in P : <<n.hook, n.tx>> = p
    <3>1. p \in DOMAIN last
      BY <1>3, <1>5, <2>2
    <3> HIDE DEF Top, P
    <3> QED BY <1>3, <1>5, <2>2, <3>1
  <2> QED BY <2>1, <2>2
<1>6. DOMAIN last \subseteq DOMAIN last'
  BY <1>3
<1>7. ASSUME NEW p \in DOMAIN last' PROVE last'[p] \in 0..MaxHeight /\ p \in HookId \X OutRow
  <2>1. CASE \E e \in Evs(from, to) : e.out.height <= to /\ p = <<e.hook, e.out>>
    <3>1. PICK e \in Evs(from, to) : e.out.height <= to /\ p = <<e.hook, e.out>>
      BY <2>1
    <3>2. e \in EventRow /\ HasRow(e.hook)
      BY <1>1, EvsFacts
    <3>3. e.hook \in HookId /\ e.out \in OutRow /\ e.out.height \in 1..MaxHeight
      BY <3>2, EventEta
    <3>4. Stop(e, to) \in Nat /\ Stop(e, to) <= to - e.out.height + 1
      BY <1>1, <3>1, <3>2, CountsFacts
    <3>5. Stop(e, to) \in 0..MaxHeight
      BY <1>1, <3>3, <3>4, WebhooksAssumption, SMTT(30) DEF HookTypes
    <3> QED BY <1>4, <3>1, <3>3, <3>5
  <2>2. CASE p \in DOMAIN last /\ last'[p] = last[p]
    BY <2>2 DEF HookTypes
  <2> QED BY <1>5, <2>1, <2>2
<1>8. last' \in [DOMAIN last' -> 0..MaxHeight]
  BY <1>2, <1>7
<1> HIDE DEF P, D, Top
<1> QED BY <1>4, <1>5, <1>6, <1>7, <1>8

----------------------------------------------------------------------------
(* The invariant of the tables is inductive.                               *)

\* The tables of a new account are empty.
LEMMA TablesInit == HooksInit => TablesInv /\ EmitTypes
<1> SUFFICES ASSUME HooksInit PROVE TablesInv /\ EmitTypes
  OBVIOUS
<1>1. chain \in Seq(ChainBlock) /\ Len(chain) = 0
  BY DEF HooksInit
<1>2. 0 \in 0..MaxForks /\ 0 <= MaxHeight /\ 0 \in 0..0
  BY WebhooksAssumption
<1>3. last \in [DOMAIN last -> 0..MaxHeight] /\ DOMAIN last = {}
  BY DEF HooksInit
<1>4. IsFiniteSet(hooks)
  BY FS_EmptySet DEF HooksInit
<1>5. scan \in 0..Len(chain) /\ forks \in 0..MaxForks /\ Len(chain) <= MaxHeight
  BY <1>1, <1>2 DEF HooksInit
<1>6. HookTypes
  BY <1>1, <1>3, <1>4, <1>5 DEF HooksInit, HookTypes
<1>7. OneRow /\ EventInv /\ SentInv /\ FollowInv /\ Told
  BY DEF HooksInit, OneRow, EventInv, SentInv, FollowInv, Told
<1>8. EmitTypes
  BY EmptySeq DEF HooksInit, EmitTypes
<1> QED BY <1>6, <1>7, <1>8 DEF TablesInv

\* A webhook id names the same row after others were added or deleted.
LEMMA RowSame ==
  ASSUME NEW i, HasRow(i), HasRow(i)', OneRow, OneRow',
         hooks \subseteq hooks' \/ hooks' \subseteq hooks
  PROVE  RowOf(i)' = RowOf(i)
<1>1. RowOf(i) \in hooks /\ RowOf(i).id = i
  BY DEF HasRow, RowOf
<1>2. RowOf(i)' \in hooks' /\ RowOf(i)'.id = i
  BY DEF HasRow, RowOf
<1>3. \A g, h \in hooks : g.id = h.id => g = h
  BY DEF OneRow
<1>4. \A g, h \in hooks' : g.id = h.id => g = h
  BY DEF OneRow
<1> QED BY <1>1, <1>2, <1>3, <1>4, Zenon

\* An output stays the one of its block while the block stays.
LEMMA OfChainSame ==
  ASSUME NEW o, OfChain(o), o.height \in 1..Len(chain'), chain'[o.height] = chain[o.height]
  PROVE  OfChain(o)'
BY DEF OfChain, OutAt, Pays

\* A step that tells nobody anything and does not move the account forward
\* keeps what is known of the events that it leaves.
LEMMA QuietStep ==
  ASSUME TablesInv, HookTypes', OneRow', last' = last, late' = late, scan' <= scan,
         hooks \subseteq hooks' \/ hooks' \subseteq hooks,
         \A e \in events' : e \in events /\ HasRow(e.hook)' /\ OfChain(e.out)'
                            /\ (e.out.height <= scan' => e.out \in outputs' \cup lost'),
         \A f \in follows' : f \in follows /\ HasRow(f.hook)' /\ OfChain(f.out)'
                             /\ f.out.height <= scan' /\ (f \in events => f \in events')
  PROVE  TablesInv'
<1> USE DEF TablesInv
<1>0. scan \in Nat /\ scan' \in Nat
  BY DEF HookTypes
<1>1. EventInv'
  BY DEF EventInv
<1>2. ASSUME NEW i, NEW o PROVE LastSent(i, o)' = LastSent(i, o)
  BY DEF LastSent
<1>3. ASSUME NEW i \in HookId, NEW o \in OutRow PROVE LastSent(i, o) \in Nat
  BY WebhooksAssumption DEF LastSent, HookTypes
<1>4. ASSUME NEW e, e \in events \/ e \in follows
      PROVE  e.out.height \in Nat /\ LastSent(e.hook, e.out) \in Nat
  <2>1. e \in EventRow
    BY <1>4 DEF HookTypes
  <2>2. e.out \in OutRow /\ e.hook \in HookId /\ e.out.height \in 1..MaxHeight
    BY <2>1, EventEta
  <2> QED BY <1>3, <2>2, WebhooksAssumption
<1>5. SentInv'
  <2> SUFFICES ASSUME NEW e \in events', e \notin late, ~ e.out.height > scan'
               PROVE  LastSent(e.hook, e.out)' >= scan' - e.out.height + 1
    BY DEF SentInv
  <2>1. e.out.height \in Nat /\ LastSent(e.hook, e.out) \in Nat
    BY <1>4
  <2>2. e.out.height > scan \/ LastSent(e.hook, e.out) >= scan - e.out.height + 1
    BY DEF SentInv
  <2>3. LastSent(e.hook, e.out)' = LastSent(e.hook, e.out)
    BY <1>2
  <2> QED BY <1>0, <2>1, <2>2, <2>3
<1>6. ASSUME NEW f \in follows' PROVE RowOf(f.hook)' = RowOf(f.hook) /\ HasRow(f.hook)
  <2>1. HasRow(f.hook) /\ HasRow(f.hook)'
    BY DEF FollowInv
  <2> QED BY <2>1, RowSame
<1>7. FollowInv'
  <2> SUFFICES ASSUME NEW f \in follows'
               PROVE  \/ f \in events'
                      \/ LastSent(f.hook, f.out)' >= RowOf(f.hook)'.confirmations
    BY DEF FollowInv
  <2>1. f \in events \/ LastSent(f.hook, f.out) >= RowOf(f.hook).confirmations
    BY DEF FollowInv
  <2> QED BY <1>2, <1>6, <2>1
<1>8. Told'
  <2> SUFFICES ASSUME NEW f \in follows'
               PROVE  LET w == RowOf(f.hook)'.confirmations
                          r == scan' - f.out.height + 1
                      IN  LastSent(f.hook, f.out)' >= IF 0 < w /\ w < r THEN w
                                                       ELSE IF w = 0 THEN 1 ELSE r
    BY DEF Told
  <2>1. LastSent(f.hook, f.out)' = LastSent(f.hook, f.out) /\ RowOf(f.hook)' = RowOf(f.hook)
    BY <1>2, <1>6
  <2> DEFINE v == RowOf(f.hook).confirmations
             q == scan - f.out.height + 1
             r == scan' - f.out.height + 1
             s == LastSent(f.hook, f.out)
  <2>2. v \in Nat /\ s \in Nat /\ r \in Int /\ q \in Int /\ r <= q
    BY <1>0, <1>4, <1>6, RowFound
  <2>3. s >= IF 0 < v /\ v < q THEN v ELSE IF v = 0 THEN 1 ELSE q
    BY DEF Told
  <2>4. s >= IF 0 < v /\ v < r THEN v ELSE IF v = 0 THEN 1 ELSE r
    <3> HIDE DEF v, q, r, s
    <3> QED BY <2>2, <2>3
  <2> QED BY <2>1, <2>4
<1> QED BY <1>1, <1>5, <1>7, <1>8

\* The lemmas of the administration, the chain and a failed update: the parts
\* of the tables that a step leaves keep their rows.
LEMMA SameTables ==
  ASSUME TablesInv,
         UNCHANGED <<chain, forks, scan, outputs, hooks, unused, events, last, follows, late, lost>>
  PROVE  TablesInv'
<1>1. HookTypes' /\ OneRow'
  BY ZenonT(60) DEF TablesInv, HookTypes, OneRow
<1>2. scan' <= scan
  BY DEF TablesInv, HookTypes
<1>3. \A e \in events' : e \in events /\ HasRow(e.hook)' /\ OfChain(e.out)'
                         /\ (e.out.height <= scan' => e.out \in outputs' \cup lost')
  BY ZenonT(60) DEF TablesInv, EventInv, HasRow, OfChain, OutAt
<1>4. \A f \in follows' : f \in follows /\ HasRow(f.hook)' /\ OfChain(f.out)'
                          /\ f.out.height <= scan' /\ (f \in events => f \in events')
  BY ZenonT(60) DEF TablesInv, FollowInv, HasRow, OfChain, OutAt
<1> QED BY <1>1, <1>2, <1>3, <1>4, QuietStep

\* A new block is above every output.
LEMMA MineStep ==
  ASSUME TablesInv, Mine
  PROVE  TablesInv'
<1> USE DEF TablesInv
<1>1. PICK k \in BlockKind, p \in Pid : chain' = Append(chain, Block(k, p, forks))
  BY DEF Mine
<1>2. Block(k, p, forks) \in ChainBlock
  BY DEF Block, ChainBlock, HookTypes
<1>3. /\ chain' \in Seq(ChainBlock) /\ Len(chain') = Len(chain) + 1
      /\ \A h \in 1..Len(chain) : chain'[h] = chain[h]
  <2> DEFINE b == Block(k, p, forks)
  <2>1. chain \in Seq(ChainBlock) /\ b \in ChainBlock /\ chain' = Append(chain, b)
    BY <1>1, <1>2 DEF HookTypes
  <2> HIDE DEF b
  <2> QED BY <2>1
<1>4. Len(chain) \in Nat /\ Len(chain') <= MaxHeight /\ scan \in 0..Len(chain')
  BY <1>3, WebhooksAssumption DEF Mine, HookTypes
<1>5. UNCHANGED <<forks, scan, outputs, hooks, unused, events, last, follows, late, lost>>
  BY DEF Mine, ghosts
<1>6. HookTypes'
  BY <1>3, <1>4, <1>5 DEF HookTypes
<1>7. OneRow'
  BY <1>5 DEF OneRow
<1>8. ASSUME NEW o, OfChain(o) PROVE OfChain(o)'
  <2>1. o.height \in 1..Len(chain)
    BY <1>8 DEF OfChain
  <2> QED BY <1>3, <1>4, <1>8, <2>1, OfChainSame
<1>9. \A i : HasRow(i) => HasRow(i)'
  BY <1>5 DEF HasRow
<1>10. \A e \in events' : e \in events /\ HasRow(e.hook)' /\ OfChain(e.out)'
                         /\ (e.out.height <= scan' => e.out \in outputs' \cup lost')
  BY <1>5, <1>8, <1>9 DEF EventInv
<1>11. \A f \in follows' : f \in follows /\ HasRow(f.hook)' /\ OfChain(f.out)'
                          /\ f.out.height <= scan' /\ (f \in events => f \in events')
  BY <1>5, <1>8, <1>9 DEF FollowInv
<1>12. last' = last /\ late' = late /\ scan' <= scan /\ hooks \subseteq hooks'
  BY <1>5 DEF HookTypes
<1> HIDE DEF TablesInv
<1> QED BY <1>6, <1>7, <1>10, <1>11, <1>12, QuietStep

\* Only a detached block can be replaced: its outputs and events go with it.
LEMMA ReorgStep ==
  ASSUME TablesInv, Reorg
  PROVE  TablesInv'
<1> USE DEF TablesInv
<1>1. PICK h \in DOMAIN chain :
        /\ chain' = SubSeq(chain, 1, h - 1)
        /\ outputs' = {o \in outputs : o.height < h}
        /\ events' = rollback_events(h)
        /\ scan' = IF scan < h THEN scan ELSE h - 1
        /\ follows' = {f \in follows : f.out.height < h}
        /\ lost' = {o \in lost : o.height < h}
  BY DEF Reorg
<1>2. forks' = forks + 1 /\ forks < MaxForks /\ UNCHANGED <<hooks, unused, last, late>>
  BY DEF Reorg
<1>3. h \in 1..Len(chain) /\ Len(chain) \in Nat /\ scan \in 0..Len(chain)
  BY <1>1 DEF HookTypes
<1>4. /\ chain' \in Seq(ChainBlock) /\ Len(chain') = h - 1
      /\ \A g \in 1..h - 1 : chain'[g] = chain[g]
  <2>1. chain \in Seq(ChainBlock)
    BY DEF HookTypes
  <2>2. \A g \in 1..h - 1 : chain[g] \in ChainBlock
    BY <1>3, <2>1
  <2>3. h - 1 \in Int /\ 1 \in Int /\ (h - 1) - 1 + 1 = h - 1 /\ (1 <= h - 1 \/ h - 1 = 0)
        /\ \A g \in 1..h - 1 : 1 + g - 1 = g
    BY <1>3
  <2>4. /\ SubSeq(chain, 1, h - 1) \in Seq(ChainBlock)
        /\ Len(SubSeq(chain, 1, h - 1)) = IF 1 <= h - 1 THEN (h - 1) - 1 + 1 ELSE 0
        /\ \A g \in 1..(h - 1) - 1 + 1 : SubSeq(chain, 1, h - 1)[g] = chain[1 + g - 1]
    BY <2>2, <2>3, SubSeqProperties
  <2> QED BY <1>1, <2>3, <2>4
<1>5. scan' \in 0..h - 1 /\ scan' <= scan /\ h - 1 <= MaxHeight /\ forks' \in 0..MaxForks
  BY <1>1, <1>2, <1>3, WebhooksAssumption DEF HookTypes
<1>6. events' = {e \in events : e.out.height < h}
  BY <1>1 DEF rollback_events
<1>7. HookTypes'
  BY <1>1, <1>2, <1>4, <1>5, <1>6 DEF HookTypes
<1>8. OneRow'
  BY <1>2 DEF OneRow
<1>9. ASSUME NEW o, OfChain(o), o.height < h PROVE OfChain(o)'
  <2>1. o.height \in 1..h - 1
    BY <1>3, <1>9 DEF OfChain
  <2> QED BY <1>4, <1>9, <2>1, OfChainSame
<1>10. \A i : HasRow(i) => HasRow(i)'
  BY <1>2 DEF HasRow
<1>11. ASSUME NEW o, OfChain(o), o.height <= scan' PROVE o.height <= scan
  BY <1>3, <1>5, <1>11 DEF OfChain
<1>12. \A e \in events' : e \in events /\ HasRow(e.hook)' /\ OfChain(e.out)'
                         /\ (e.out.height <= scan' => e.out \in outputs' \cup lost')
  BY <1>1, <1>6, <1>9, <1>10, <1>11 DEF EventInv
<1>13. ASSUME NEW f \in follows
       PROVE  f.out.height < h => f.out.height <= scan'
  <2>1. f.out.height <= scan /\ f.out.height \in Nat
    BY <1>3 DEF FollowInv, OfChain
  <2> QED BY <1>1, <1>3, <2>1
<1>14. \A f \in follows' : f \in follows /\ HasRow(f.hook)' /\ OfChain(f.out)'
                          /\ f.out.height <= scan' /\ (f \in events => f \in events')
  BY <1>1, <1>6, <1>9, <1>10, <1>13 DEF FollowInv
<1> HIDE DEF TablesInv
<1> QED BY <1>2, <1>5, <1>7, <1>8, <1>12, <1>14, QuietStep

\* A new webhook has an id that no row and no event has.
LEMMA AddStep ==
  ASSUME TablesInv, NEW i \in unused, NEW t \in HookType, NEW p \in Pid, NEW n \in Confirm,
         NEW u \in Url \cup {"zmq"}, add_webhook(i, t, p, n, u)
  PROVE  TablesInv'
<1> USE DEF TablesInv
<1> DEFINE r == Hook(i, t, p, n, u)
<1>1. /\ hooks' = hooks \cup {r} /\ unused' = unused \ {i}
      /\ UNCHANGED <<chain, forks, scan, outputs, events, last, follows, late, lost>>
  BY DEF add_webhook, ghosts
<1>2. r \in HookRow /\ r.id = i
  <2>1. i \in HookId
    BY DEF HookTypes
  <2> QED BY <2>1 DEF HookRow, Hook
<1> HIDE DEF r
<1>3. IsFiniteSet(hooks')
  BY <1>1, FS_AddElement DEF HookTypes
<1>4. HookTypes'
  BY <1>1, <1>2, <1>3, ZenonT(60) DEF HookTypes
<1>5. OneRow'
  BY <1>1, <1>2, ZenonT(60) DEF OneRow
<1>6. \A j : HasRow(j) => HasRow(j)'
  BY <1>1 DEF HasRow
<1>7. \A o : OfChain(o) => OfChain(o)'
  BY <1>1, Zenon DEF OfChain, OutAt
<1>8. \A e \in events' : e \in events /\ HasRow(e.hook)' /\ OfChain(e.out)'
                         /\ (e.out.height <= scan' => e.out \in outputs' \cup lost')
  BY <1>1, <1>6, <1>7, Zenon DEF EventInv
<1>9. \A f \in follows' : f \in follows /\ HasRow(f.hook)' /\ OfChain(f.out)'
                          /\ f.out.height <= scan' /\ (f \in events => f \in events')
  BY <1>1, <1>6, <1>7, Zenon DEF FollowInv
<1>10. last' = last /\ late' = late /\ scan' <= scan /\ hooks \subseteq hooks'
  BY <1>1 DEF HookTypes
<1> HIDE DEF TablesInv
<1> QED BY <1>4, <1>5, <1>8, <1>9, <1>10, QuietStep

\* Deleted webhooks take their events along.
LEMMA ClearStep ==
  ASSUME TablesInv, hooks' \subseteq hooks, events' \subseteq events, follows' \subseteq follows,
         \A e \in events' \cup follows' : HasRow(e.hook)',
         \A f \in follows' : f \in events => f \in events',
         UNCHANGED <<chain, forks, scan, outputs, unused, last, late, lost>>
  PROVE  TablesInv'
<1> USE DEF TablesInv
<1>1. IsFiniteSet(hooks')
  BY FS_Subset DEF HookTypes
<1>2. HookTypes'
  BY <1>1, ZenonT(60) DEF HookTypes
<1>3. OneRow'
  BY Zenon DEF OneRow
<1>4. \A o : OfChain(o) => OfChain(o)'
  BY Zenon DEF OfChain, OutAt
<1>5. \A e \in events' : e \in events /\ HasRow(e.hook)' /\ OfChain(e.out)'
                         /\ (e.out.height <= scan' => e.out \in outputs' \cup lost')
  BY <1>4, Zenon DEF EventInv
<1>6. \A f \in follows' : f \in follows /\ HasRow(f.hook)' /\ OfChain(f.out)'
                          /\ f.out.height <= scan' /\ (f \in events => f \in events')
  BY <1>4, Zenon DEF FollowInv
<1>7. last' = last /\ late' = late /\ scan' <= scan
  BY DEF HookTypes
<1> HIDE DEF TablesInv
<1> QED BY <1>2, <1>3, <1>5, <1>6, <1>7, QuietStep

\* clear_webhooks of an id.
LEMMA ClearHookStep ==
  ASSUME TablesInv, NEW i, clear_hook(i)
  PROVE  TablesInv'
<1>1. /\ hooks' = {h \in hooks : h.id # i} /\ events' = {e \in events : e.hook # i}
      /\ follows' = {e \in follows : e.hook # i}
      /\ UNCHANGED <<chain, forks, scan, outputs, unused, last, late, lost>>
  BY DEF clear_hook
<1>2. ASSUME NEW e \in events' \cup follows' PROVE HasRow(e.hook)'
  <2>1. HasRow(e.hook) /\ e.hook # i
    BY <1>1, <1>2 DEF TablesInv, EventInv, FollowInv
  <2> QED BY <1>1, <2>1 DEF HasRow
<1> QED BY <1>1, <1>2, ClearStep

\* clear_webhooks of addresses.
LEMMA ClearAddressStep ==
  ASSUME TablesInv, clear_address
  PROVE  TablesInv'
<1>1. /\ hooks' \subseteq hooks /\ events' = {} /\ follows' = {}
      /\ UNCHANGED <<chain, forks, scan, outputs, unused, last, late, lost>>
  BY DEF clear_address
<1> QED BY <1>1, ClearStep

\* A rescan keeps the events: those below its height have their output, the
\* ones at its height are the lost ones, those above are scanned again.
LEMMA RescanStep ==
  ASSUME TablesInv, NEW h \in 1..scan, rescan(h)
  PROVE  TablesInv'
<1> USE DEF TablesInv
<1>1. /\ outputs' = {o \in outputs : o.height < h}
      /\ lost' = lost \cup {o \in outputs : o.height = h}
      /\ follows' = {e \in follows : e.out.height < h}
      /\ scan' = h
      /\ UNCHANGED <<chain, forks, hooks, unused, events, last, late>>
  BY DEF rescan
<1>2. scan \in 0..Len(chain) /\ Len(chain) \in Nat /\ h \in 1..scan
  BY DEF HookTypes
<1>3. HookTypes'
  <2>1. scan' \in 0..Len(chain')
    BY <1>1, <1>2
  <2> QED BY <1>1, <2>1, ZenonT(60) DEF HookTypes
<1>4. OneRow'
  BY <1>1, Zenon DEF OneRow
<1>5. \A o : OfChain(o) => OfChain(o)'
  BY <1>1, Zenon DEF OfChain, OutAt
<1>6. \A i : HasRow(i) => HasRow(i)'
  BY <1>1, Zenon DEF HasRow
<1>7. ASSUME NEW e \in events, e.out.height <= h PROVE e.out \in outputs' \cup lost'
  <2>1. e.out.height \in Nat
    BY <1>2 DEF EventInv, OfChain
  <2>2. e.out.height <= scan
    BY <1>2, <1>7, <2>1
  <2>3. e.out \in outputs \cup lost
    BY <2>2 DEF EventInv
  <2> QED BY <1>1, <1>2, <1>7, <2>1, <2>3
<1>8. \A e \in events' : e \in events /\ HasRow(e.hook)' /\ OfChain(e.out)'
                         /\ (e.out.height <= scan' => e.out \in outputs' \cup lost')
  BY <1>1, <1>5, <1>6, <1>7, Zenon DEF EventInv
<1>9. ASSUME NEW f \in follows, f.out.height < h PROVE f.out.height <= h
  BY <1>2, <1>9 DEF FollowInv, OfChain
<1>10. \A f \in follows' : f \in follows /\ HasRow(f.hook)' /\ OfChain(f.out)'
                          /\ f.out.height <= scan' /\ (f \in events => f \in events')
  BY <1>1, <1>5, <1>6, <1>9, Zenon DEF FollowInv
<1>11. last' = last /\ late' = late /\ scan' <= scan /\ hooks \subseteq hooks'
  BY <1>1, <1>2
<1> HIDE DEF TablesInv
<1> QED BY <1>3, <1>4, <1>8, <1>10, <1>11, QuietStep

\* The notifications for the pool are of the webhooks of one payment id.
LEMMA PoolStep ==
  ASSUME TablesInv, NEW p \in Pid
  PROVE  send_webhook(p) \in Seq(NoteRow)
<1> DEFINE tx == [height |-> 0, fork |-> 0, pid |-> p]
           N == {Note(h, tx, 0) : h \in find_webhook(p)}
<1>1. ASSUME NEW x \in N
      PROVE  x \in NoteRow /\ \E h \in hooks : x = Note(h, tx, 0) /\ x.hook = h.id
  <2>1. PICK h \in find_webhook(p) : x = Note(h, tx, 0)
    OBVIOUS
  <2>2. h \in hooks
    BY DEF find_webhook
  <2>3. h \in HookRow
    BY <2>2 DEF TablesInv, HookTypes
  <2>4. h.id \in HookId /\ h.url \in Url \cup {"zmq"}
    BY <2>3 DEF HookRow
  <2>5. 0 \in 0..MaxHeight /\ 0 \in 0..MaxForks
    BY WebhooksAssumption
  <2>6. tx \in Told_tx
    BY <2>5 DEF Told_tx
  <2>7. x \in NoteRow /\ x.hook = h.id
    <3> HIDE DEF tx, N
    <3> QED BY <2>1, <2>4, <2>5, <2>6 DEF Note, NoteRow
  <2> QED BY <2>1, <2>2, <2>7
<1> HIDE DEF N, tx
<1>2. Keyed(N)
  BY <1>1 DEF Keyed, TablesInv, OneRow
<1>3. \A x \in N : x.hook \in {h.id : h \in hooks}
  BY <1>1
<1>4. N \subseteq NoteRow /\ IsFiniteSet(N)
  BY <1>1, <1>2, <1>3, IdsFinite, NotesFinite DEF TablesInv
<1>5. InOrder(N) \in Seq(N)
  BY <1>2, <1>4, InOrderLists
<1>6. InOrder(N) \in Seq(NoteRow)
  BY <1>4, <1>5, SeqMonotonic
<1>7. send_webhook(p) = InOrder(N)
  BY DEF send_webhook, N, tx
<1> QED BY <1>6, <1>7

\* What a webhook was told of an output does not change without an event.
LEMMA LastSame ==
  ASSUME HookTypes, EventInv,
         NEW from \in 0..MaxHeight, NEW to \in 0..MaxHeight, store(from, to),
         NEW f \in EventRow, f \notin Evs(from, to)
  PROVE  LastSent(f.hook, f.out)' = LastSent(f.hook, f.out)
<1> DEFINE q == <<f.hook, f.out>>
<1>1. ~ \E e \in Evs(from, to) : q = <<e.hook, e.out>>
  <2> SUFFICES ASSUME NEW e \in Evs(from, to), q = <<e.hook, e.out>> PROVE FALSE
    OBVIOUS
  <2>1. e \in EventRow
    BY EvsFacts, StoreFacts
  <2>2. e = Event(e.out, e.hook) /\ f = Event(f.out, f.hook)
    BY <2>1, EventEta
  <2>3. e.out = f.out /\ e.hook = f.hook
    OBVIOUS
  <2>4. e = f
    BY <2>2, <2>3, Zenon
  <2> QED BY <2>4
<1>2. CASE q \in DOMAIN last'
  <2>1. q \in DOMAIN last /\ last'[q] = last[q]
    BY <1>1, <1>2, LastFacts, ZenonT(60)
  <2> QED BY <1>2, <2>1 DEF LastSent
<1>3. CASE q \notin DOMAIN last'
  <2>1. q \notin DOMAIN last
    BY <1>3, LastFacts
  <2> QED BY <1>3, <2>1 DEF LastSent
<1> QED BY <1>2, <1>3

\* An update keeps the invariant: it stores the outputs that its events need,
\* and deletes an event with the last count that is wanted.
LEMMA StoreStep ==
  ASSUME TablesInv, NEW from \in 0..MaxHeight, NEW to \in 0..MaxHeight, store(from, to)
  PROVE  TablesInv'
<1>0. HookTypes /\ OneRow /\ EventInv /\ SentInv /\ FollowInv /\ Told
  BY DEF TablesInv
<1>1. /\ from \in Nat /\ to \in Nat /\ from <= scan /\ scan < to /\ to <= Len(chain)
      /\ outputs' = outputs \cup Scanned(from, to)
      /\ events' = {e \in Evs(from, to) : ~ finished(e, scan + 1, to)}
      /\ follows' = follows \cup {e \in Made(from, to) : e.out.height > scan}
      /\ late' = late \cup {e \in Made(from, to) : e.out.height <= scan /\ e \notin events}
      /\ lost' = lost \ Scanned(from, to)
      /\ scan' = to
      /\ UNCHANGED <<chain, forks, hooks, unused>>
  BY <1>0, StoreFacts
<1>2. Evs(from, to) = events \cup Made(from, to)
  BY DEF Evs
<1>3. \A e \in Evs(from, to) : e \in EventRow /\ HasRow(e.hook) /\ OfChain(e.out)
  BY <1>0, <1>1, EvsFacts
<1>4. \A e \in Made(from, to) : e.out \in Scanned(from, to) /\ e.out.height \in from + 1..to
  BY <1>0, <1>1, MadeFacts
<1>5. scan \in Nat
  BY <1>0 DEF HookTypes
<1>6. HookTypes'
  <2>1. scan' \in 0..Len(chain')
    BY <1>0, <1>1 DEF HookTypes
  <2>2. Scanned(from, to) \subseteq OutRow
    <3>1. ASSUME NEW g \in from + 1..to PROVE OutAt(g) \in OutRow
      <4>1. g \in 1..Len(chain)
        BY <1>0, <1>1 DEF HookTypes
      <4> QED BY <1>0, <4>1, OutOfChain
    <3> QED BY <3>1 DEF Scanned
  <2>3. events' \subseteq EventRow /\ follows' \subseteq EventRow
    <3>1. follows \subseteq EventRow
      BY <1>0 DEF HookTypes
    <3> QED BY <1>1, <1>2, <1>3, <3>1
  <2>4. last' \in [DOMAIN last' -> 0..MaxHeight] /\ DOMAIN last' \subseteq HookId \X OutRow
    BY <1>0, LastFacts
  <2> QED BY <1>0, <1>1, <2>1, <2>2, <2>3, <2>4, ZenonT(60) DEF HookTypes
<1>7. OneRow'
  BY <1>0, <1>1, Zenon DEF OneRow
<1>8. \A o : OfChain(o) => OfChain(o)'
  BY <1>1, Zenon DEF OfChain, OutAt
<1>9. \A i : HasRow(i) => HasRow(i)'
  BY <1>1, Zenon DEF HasRow
<1>10. \A i : RowOf(i)' = RowOf(i)
  BY <1>1 DEF RowOf
<1>11. EventInv'
  <2> SUFFICES ASSUME NEW e \in events'
               PROVE  /\ HasRow(e.hook)' /\ OfChain(e.out)'
                      /\ e.out.height <= to => e.out \in outputs' \cup lost'
    BY <1>1 DEF EventInv
  <2>1. e \in Evs(from, to)
    BY <1>1
  <2>2. e.out.height \in Nat
    BY <1>3, <2>1 DEF OfChain
  <2>3. ASSUME e.out.height <= to PROVE e.out \in outputs' \cup lost'
    <3>1. CASE e.out.height > from
      <4>1. e.out.height \in from + 1..to
        BY <1>1, <2>2, <2>3, <3>1
      <4>2. e.out \in Scanned(from, to)
        BY <1>0, <1>1, <1>3, <2>1, <4>1, ScannedFacts
      <4> QED BY <1>1, <4>2
    <3>2. CASE ~ e.out.height > from
      <4>1. e \notin Made(from, to) /\ e.out.height <= scan
        BY <1>1, <1>4, <1>5, <2>2, <3>2
      <4>2. e.out \in outputs \cup lost
        BY <1>0, <1>2, <2>1, <4>1 DEF EventInv
      <4> QED BY <1>1, <4>2
    <3> QED BY <3>1, <3>2
  <2> QED BY <1>3, <1>8, <1>9, <2>1, <2>3
<1>12. ASSUME NEW e \in Evs(from, to), e.out.height <= to
       PROVE  /\ LastSent(e.hook, e.out)' = Stop(e, to) /\ Stop(e, to) \in Nat /\ 1 <= Stop(e, to)
              /\ Stop(e, to) <= to - e.out.height + 1
              /\ e \in events' => Stop(e, to) = to - e.out.height + 1
              /\ e \in events' \/ RowOf(e.hook).confirmations <= Stop(e, to)
              /\ \/ Stop(e, to) = to - e.out.height + 1
                 \/ RowOf(e.hook).confirmations <= Stop(e, to)
  <2>1. LastSent(e.hook, e.out)' = Stop(e, to)
    BY <1>0, <1>12, LastFacts DEF LastSent
  <2>2. /\ Counts(e, scan + 1, to) = First(e)..Stop(e, to)
        /\ First(e) \in Nat /\ Stop(e, to) \in Nat /\ 1 <= First(e) /\ First(e) <= Stop(e, to)
        /\ Stop(e, to) <= to - e.out.height + 1
        /\ Stop(e, to) = to - e.out.height + 1 \/ RowOf(e.hook).confirmations <= Stop(e, to)
    BY <1>0, <1>1, <1>3, <1>12, CountsFacts
  <2>3. RowOf(e.hook).confirmations \in Nat
    BY <1>0, <1>3, RowFound
  <2>4. finished(e, scan + 1, to) <=> RowOf(e.hook).confirmations <= Stop(e, to)
    <3>1. \A c \in First(e)..Stop(e, to) : c <= Stop(e, to) /\ c \in Nat
      BY <2>2
    <3>2. Stop(e, to) \in First(e)..Stop(e, to)
      BY <2>2
    <3> QED BY <2>2, <2>3, <3>1, <3>2 DEF finished
  <2>5. e \in events' <=> ~ finished(e, scan + 1, to)
    BY <1>1
  <2> QED BY <2>1, <2>2, <2>4, <2>5
<1>13. SentInv'
  <2> SUFFICES ASSUME NEW e \in events', ~ e.out.height > to
               PROVE  LastSent(e.hook, e.out)' >= to - e.out.height + 1
    BY <1>1 DEF SentInv
  <2>1. e \in Evs(from, to) /\ e.out.height \in Nat
    BY <1>1, <1>3 DEF OfChain
  <2> QED BY <1>1, <1>12, <2>1
<1>14. ASSUME NEW f \in follows'
       PROVE  /\ HasRow(f.hook) /\ OfChain(f.out) /\ f.out.height <= to /\ f \in EventRow
              /\ f.out.height \in Nat
              /\ f \notin Evs(from, to) => f \in follows /\ f \notin events
  <2>1. CASE f \in follows
    <3>1. HasRow(f.hook) /\ OfChain(f.out) /\ f.out.height <= scan
      BY <1>0, <2>1 DEF FollowInv
    <3>2. f.out.height \in Nat
      BY <3>1 DEF OfChain
    <3>3. f \in EventRow
      BY <1>0, <2>1 DEF HookTypes
    <3> QED BY <1>1, <1>2, <1>5, <2>1, <3>1, <3>2, <3>3
  <2>2. CASE f \in Made(from, to)
    <3>1. f \in Evs(from, to) /\ f.out.height \in from + 1..to
      BY <1>2, <1>4, <2>2
    <3> QED BY <1>1, <1>3, <3>1
  <2> QED BY <1>1, <2>1, <2>2
<1>15. FollowInv'
  <2> SUFFICES ASSUME NEW f \in follows'
               PROVE  /\ HasRow(f.hook)' /\ OfChain(f.out)' /\ f.out.height <= to
                      /\ f \in events' \/ LastSent(f.hook, f.out)' >= RowOf(f.hook).confirmations
    BY <1>1, <1>10 DEF FollowInv
  <2>1. CASE f \in Evs(from, to)
    <3>1. RowOf(f.hook).confirmations \in Nat
      BY <1>0, <1>3, <2>1, RowFound
    <3> QED BY <1>8, <1>9, <1>12, <1>14, <2>1, <3>1
  <2>2. CASE f \notin Evs(from, to)
    <3>1. LastSent(f.hook, f.out)' = LastSent(f.hook, f.out)
      BY <1>0, <1>14, <2>2, LastSame
    <3>2. LastSent(f.hook, f.out) >= RowOf(f.hook).confirmations
      BY <1>0, <1>14, <2>2 DEF FollowInv
    <3> QED BY <1>8, <1>9, <1>14, <3>1, <3>2
  <2> QED BY <2>1, <2>2
<1>16. Told'
  <2> SUFFICES ASSUME NEW f \in follows'
               PROVE  LET w == RowOf(f.hook).confirmations
                          r == to - f.out.height + 1
                      IN  LastSent(f.hook, f.out)' >= IF 0 < w /\ w < r THEN w
                                                       ELSE IF w = 0 THEN 1 ELSE r
    BY <1>1, <1>10 DEF Told
  <2> DEFINE w == RowOf(f.hook).confirmations
             r == to - f.out.height + 1
             s == LastSent(f.hook, f.out)'
  <2>1. w \in Nat /\ r \in Int
    BY <1>0, <1>1, <1>14, RowFound
  <2>2. s \in Nat /\ (s = r \/ w <= s) /\ 1 <= s
    <3>1. CASE f \in Evs(from, to)
      BY <1>12, <1>14, <3>1
    <3>2. CASE f \notin Evs(from, to)
      <4>1. s = LastSent(f.hook, f.out)
        BY <1>0, <1>14, <3>2, LastSame
      <4>2. LastSent(f.hook, f.out) >= w
        BY <1>0, <1>14, <3>2 DEF FollowInv
      <4>3. w = 0 => LastSent(f.hook, f.out) >= 1
        BY <1>0, <1>14, <3>2 DEF Told
      <4>4. LastSent(f.hook, f.out) \in Nat
        <5>1. f.hook \in HookId /\ f.out \in OutRow
          BY <1>14, EventEta
        <5> QED BY <1>0, <5>1, WebhooksAssumption DEF LastSent, HookTypes
      <4> HIDE DEF s, w
      <4> QED BY <2>1, <4>1, <4>2, <4>3, <4>4
    <3> QED BY <3>1, <3>2
  <2>3. s >= IF 0 < w /\ w < r THEN w ELSE IF w = 0 THEN 1 ELSE r
    <3> HIDE DEF s, w, r
    <3> QED BY <2>1, <2>2
  <2> QED BY <2>3
<1> QED BY <1>6, <1>7, <1>11, <1>13, <1>15, <1>16 DEF TablesInv

\* Every step of the scan thread, the daemon and the administrator.
LEMMA HooksStep ==
  ASSUME TablesInv, EmitTypes, HooksNext
  PROVE  TablesInv' /\ EmitTypes'
<1> DEFINE Quiet == UNCHANGED emit
<1>0. Quiet => EmitTypes'
  BY DEF EmitTypes
<1>1. CASE Mine
  <2>1. Quiet
    BY <1>1 DEF Mine
  <2> QED BY <1>0, <1>1, <2>1, MineStep
<1>2. CASE Reorg
  <2>1. Quiet
    BY <1>2 DEF Reorg
  <2> QED BY <1>0, <1>2, <2>1, ReorgStep
<1>3. CASE Add
  <2>1. PICK i \in unused, t \in HookType, p \in Pid, n \in Confirm, u \in Url \cup {"zmq"} :
          add_webhook(i, t, p, n, u)
    BY <1>3 DEF Add, HookType
  <2>2. Quiet
    BY <2>1 DEF add_webhook
  <2> QED BY <1>0, <2>1, <2>2, AddStep
<1>4. ASSUME NEW from \in 0..MaxHeight, NEW to \in 0..MaxHeight, store(from, to)
      PROVE  TablesInv' /\ EmitTypes'
  <2>1. TablesInv'
    BY <1>4, StoreStep
  <2>2. EmitTypes'
    BY <1>4, EmitFacts DEF TablesInv, EmitTypes
  <2> QED BY <2>1, <2>2
<1>5. ASSUME NEW from \in 0..MaxHeight, NEW to \in 0..MaxHeight, store_failed(from, to)
      PROVE  TablesInv' /\ EmitTypes'
  <2>1. /\ UNCHANGED <<chain, forks, scan, outputs, hooks, unused, events, last, follows, late, lost>>
        /\ Quiet
    BY <1>5 DEF store_failed, ghosts
  <2> QED BY <1>0, <2>1, SameTables
<1>6. ASSUME NEW p \in Pid, txpool(p) PROVE TablesInv' /\ EmitTypes'
  <2>1. /\ UNCHANGED <<chain, forks, scan, outputs, hooks, unused, events, last, follows, late, lost>>
        /\ emit' = send_webhook(p)
    BY <1>6 DEF txpool, db_vars, ghosts
  <2> QED BY <2>1, PoolStep, SameTables DEF EmitTypes
<1>7. ASSUME NEW i \in HookId, clear_hook(i) PROVE TablesInv' /\ EmitTypes'
  <2>1. Quiet
    BY <1>7 DEF clear_hook
  <2> QED BY <1>0, <1>7, <2>1, ClearHookStep
<1>8. CASE clear_address
  <2>1. Quiet
    BY <1>8 DEF clear_address
  <2> QED BY <1>0, <1>8, <2>1, ClearAddressStep
<1>9. ASSUME NEW h \in 1..scan, rescan(h) PROVE TablesInv' /\ EmitTypes'
  <2>1. Quiet
    BY <1>9 DEF rescan
  <2> QED BY <1>0, <1>9, <2>1, RescanStep
<1> HIDE DEF Quiet
<1> QED BY <1>1, <1>2, <1>3, <1>4, <1>5, <1>6, <1>7, <1>8, <1>9, Zenon DEF HooksNext

\* The whole: the tables and the client.
IInv == TablesInv /\ EmitTypes /\ ClientInv

\* Every step of the scan thread, the administrator or the client.
LEMMA WholeStep ==
  ASSUME IInv, [Next]_vars
  PROVE  IInv'
<1> USE DEF IInv
<1>1. ClientInv'
  BY ClientKept
<1>2. CASE HooksNext
  BY <1>1, <1>2, HooksStep
<1>3. CASE http_async
  <2>1. /\ UNCHANGED <<chain, forks, scan, outputs, hooks, unused, events, last, follows, late, lost>>
        /\ emit # << >> /\ emit' = Tail(emit)
    BY <1>3 DEF http_async, db_vars, ghosts
  <2>2. EmitTypes'
    BY <2>1 DEF EmitTypes
  <2> QED BY <1>1, <2>1, <2>2, SameTables
<1>4. CASE UNCHANGED hook_vars
  <2>1. UNCHANGED <<chain, forks, scan, outputs, hooks, unused, events, last, follows, late, lost, emit>>
    BY <1>4 DEF hook_vars, db_vars, ghosts
  <2>2. EmitTypes'
    BY <2>1 DEF EmitTypes
  <2> QED BY <1>1, <2>1, <2>2, SameTables
<1> QED BY <1>2, <1>3, <1>4, Zenon DEF Next, vars

\* The inductive invariant of tables and client.
LEMMA WholeInvariant == Spec => []IInv
<1>1. Init => IInv
  BY TablesInit, ClientInit DEF Init, IInv
<1>2. IInv /\ [Next]_vars => IInv'
  BY WholeStep
<1> QED BY <1>1, <1>2, PTL DEF Spec

----------------------------------------------------------------------------
(* The theorems.                                                           *)

\* What the tables hold lets any update go through, but for the two exceptions.
LEMMA Fits ==
  ASSUME TablesInv
  PROVE  Storable
<1>0. HookTypes /\ EventInv
  BY DEF TablesInv
<1> SUFFICES ASSUME NEW from \in 0..MaxHeight, NEW to \in 0..MaxHeight, Batch(from, to),
                    ~ \E h \in DOMAIN chain : chain[h].kind = "sweep", lost = {}
             PROVE  UpdateFits(from, to)
  BY DEF Storable
<1> DEFINE outs == outputs \cup Scanned(from, to)
<1>1. /\ from \in Nat /\ to \in Nat /\ from <= scan /\ scan < to /\ to <= Len(chain)
      /\ scan \in Nat
  BY <1>0, WebhooksAssumption DEF Batch, HookTypes
<1>2. ASSUME NEW e \in Evs(from, to) PROVE LooksUp(e, scan + 1, to, outs)
  <2>1. HasRow(e.hook) /\ OfChain(e.out)
    BY <1>0, <1>1, EvsFacts
  <2>2. e.out.height \in Nat
    BY <2>1 DEF OfChain
  <2>3. ASSUME e.out.height <= to PROVE e.out \in outs
    <3>1. CASE e.out.height > from
      <4>1. e.out.height \in from + 1..to
        BY <1>1, <2>2, <2>3, <3>1
      <4> QED BY <1>0, <1>1, <2>1, <4>1, ScannedFacts
    <3>2. CASE ~ e.out.height > from
      <4>1. e \notin Made(from, to)
        <5>1. e \in Made(from, to) => e.out.height \in from + 1..to
          BY <1>0, <1>1, MadeFacts
        <5> QED BY <1>1, <2>2, <3>2, <5>1
      <4>2. e \in events /\ e.out.height <= scan
        BY <1>1, <2>2, <3>2, <4>1 DEF Evs
      <4> QED BY <1>0, <4>2 DEF EventInv
    <3> QED BY <3>1, <3>2
  <2> QED BY <2>1, <2>3 DEF LooksUp
<1>3. ASSUME NEW s \in ScannedSpends(from, to) PROVE \E o \in outs : o.height >= s
  <2>1. s \in 1..Len(chain) /\ s \in from + 1..to /\ Spends(chain[s])
    BY <1>0, <1>1 DEF ScannedSpends, HookTypes
  <2>2. s \in DOMAIN chain
    BY <1>0, <2>1, LenProperties DEF HookTypes
  <2>3. Pays(chain[s])
    BY <2>1, <2>2 DEF Spends, Pays
  <2>4. OutAt(s) \in Scanned(from, to) /\ OutAt(s).height = s
    BY <1>0, <2>1, <2>3, OutOfChain DEF Scanned
  <2> QED BY <2>1, <2>4
<1>4. SpendsFound(ScannedSpends(from, to), outs)
  BY <1>3 DEF SpendsFound
<1> QED BY <1>2, <1>4 DEF UpdateFits, Evs, Made

\* The counts of an update start where the webhook was left, or the event is
\* one of the late ones.
LEMMA CountsGoOn ==
  ASSUME TablesInv, NEW from \in 0..MaxHeight, NEW to \in 0..MaxHeight, store(from, to),
         NEW e \in Evs(from, to), e.out.height <= to, e \notin late'
  PROVE  \A n \in 1..Stop(e, to) : n <= LastSent(e.hook, e.out) \/ n \in First(e)..Stop(e, to)
<1>0. HookTypes /\ EventInv /\ SentInv
  BY DEF TablesInv
<1>1. /\ from \in Nat /\ to \in Nat /\ scan < to /\ to <= Len(chain) /\ scan \in Nat
      /\ late' = late \cup {d \in Made(from, to) : d.out.height <= scan /\ d \notin events}
  BY <1>0, StoreFacts DEF HookTypes
<1>2. e \in EventRow /\ OfChain(e.out) /\ HasRow(e.hook)
  BY <1>0, <1>1, EvsFacts
<1>3. e.out.height \in Nat /\ e.hook \in HookId /\ e.out \in OutRow
  BY <1>2, EventEta DEF OfChain
<1>4. e.out.height > scan \/ LastSent(e.hook, e.out) >= scan - e.out.height + 1
  <2>1. CASE e \in events
    BY <1>0, <1>1, <2>1 DEF SentInv
  <2>2. CASE e \notin events
    <3>1. e \in Made(from, to)
      BY <2>2 DEF Evs
    <3> QED BY <1>1, <1>3, <2>2, <3>1
  <2> QED BY <2>1, <2>2
<1>5. LastSent(e.hook, e.out) \in Nat
  BY <1>0, <1>3, WebhooksAssumption DEF LastSent, HookTypes
<1>6. Stop(e, to) \in Nat
  BY <1>0, <1>1, <1>2, CountsFacts
<1>7. CASE scan < e.out.height
  BY <1>6, <1>7 DEF First
<1>8. CASE ~ scan < e.out.height
  <2>1. First(e) = scan - e.out.height + 2 /\ LastSent(e.hook, e.out) >= scan - e.out.height + 1
    BY <1>1, <1>3, <1>4, <1>8 DEF First
  <2> HIDE DEF First
  <2> QED BY <1>1, <1>3, <1>5, <1>6, <2>1, SMTT(30)
<1> QED BY <1>7, <1>8

\* Only an update tells counts, and it goes on where the webhook was left.
LEMMA ConsecutiveStep ==
  ASSUME TablesInv, [Next]_vars
  PROVE  [\A p \in DOMAIN last' :
            \/ last'[p] = LastSent(p[1], p[2])
            \/ Event(p[2], p[1]) \in late'
            \/ \A n \in 1..last'[p] :
                 n <= LastSent(p[1], p[2]) \/ \E k \in DOMAIN emit' :
                   emit'[k].hook = p[1] /\ emit'[k].tx = p[2] /\ emit'[k].count = n]_hook_vars
<1>0. HookTypes /\ OneRow /\ EventInv
  BY DEF TablesInv
<1>1. CASE last' = last
  <2>1. ASSUME NEW p \in DOMAIN last PROVE last[p] = LastSent(p[1], p[2])
    <3>1. p = <<p[1], p[2]>>
      BY <1>0 DEF HookTypes
    <3> QED BY <2>1, <3>1, Zenon DEF LastSent
  <2> QED BY <1>1, <2>1
<1>2. ASSUME NEW from \in 0..MaxHeight, NEW to \in 0..MaxHeight, store(from, to),
             NEW p \in DOMAIN last'
      PROVE  \/ last'[p] = LastSent(p[1], p[2])
             \/ Event(p[2], p[1]) \in late'
             \/ \A n \in 1..last'[p] :
                  n <= LastSent(p[1], p[2]) \/ \E k \in DOMAIN emit' :
                    emit'[k].hook = p[1] /\ emit'[k].tx = p[2] /\ emit'[k].count = n
  <2>0. from \in Nat /\ to \in Nat /\ scan < to /\ to <= Len(chain)
    BY <1>0, <1>2, StoreFacts
  <2>1. CASE p \in DOMAIN last /\ last'[p] = last[p]
    <3>1. p = <<p[1], p[2]>>
      BY <1>0, <2>1 DEF HookTypes
    <3> QED BY <2>1, <3>1, Zenon DEF LastSent
  <2>2. CASE \E e \in Evs(from, to) : e.out.height <= to /\ p = <<e.hook, e.out>>
    <3>1. PICK e \in Evs(from, to) : e.out.height <= to /\ p = <<e.hook, e.out>>
      BY <2>2
    <3>2. p[1] = e.hook /\ p[2] = e.out /\ last'[p] = Stop(e, to)
      BY <1>0, <1>2, <3>1, LastFacts
    <3>3. e = Event(e.out, e.hook)
      BY <1>0, <2>0, EvsFacts, EventEta
    <3>4. CASE e \in late'
      BY <3>2, <3>3, <3>4
    <3>5. CASE e \notin late'
      <4>1. ASSUME NEW c \in First(e)..Stop(e, to)
            PROVE  \E k \in DOMAIN emit' :
                     emit'[k].hook = e.hook /\ emit'[k].tx = e.out /\ emit'[k].count = c
        <5>1. PICK n \in Paid(from, to) : n.hook = e.hook /\ n.tx = e.out /\ n.count = c
          BY <1>0, <2>0, <3>1, <4>1, PaidOfEvent
        <5>2. PICK k \in DOMAIN emit' : emit'[k] = n
          BY <1>0, <1>2, EmitFacts
        <5> QED BY <5>1, <5>2
      <4>2. \A n \in 1..Stop(e, to) : n <= LastSent(e.hook, e.out) \/ n \in First(e)..Stop(e, to)
        BY <1>2, <3>1, <3>5, CountsGoOn
      <4> QED BY <3>2, <4>1, <4>2
    <3> QED BY <3>4, <3>5
  <2> QED BY <1>0, <1>2, <2>1, <2>2, LastFacts, Zenon
<1>3. last' = last \/ \E from, to \in 0..MaxHeight : store(from, to)
  BY DEF Next, vars, hook_vars, ghosts, db_vars, http_async, HooksNext, Mine, Reorg, Add,
         add_webhook, store_failed, txpool, clear_hook, clear_address, rescan
<1> QED BY <1>1, <1>2, <1>3, Zenon

\* storage::update finds the rows that it looks up for any batch, after any
\* chain of reorganisations, rescans and deletions (storage.cpp:3214-3283),
\* with the two exceptions that Storable names.
THEOREM UpdatesFit == Spec => []Storable
<1>1. IInv => Storable
  BY Fits DEF IInv
<1> QED BY <1>1, WholeInvariant, PTL

\* A webhook that was registered when an output was stored has been told every
\* confirmation that the account has scanned (add_ongoing_hooks).
THEOREM ConfirmationsTold == Spec => []Told
<1>1. IInv => Told
  BY DEF IInv, TablesInv
<1> QED BY <1>1, WholeInvariant, PTL

\* No confirmation is left out between two that a webhook is told of.
THEOREM CountsConsecutive == Spec => Consecutive
<1>1. IInv /\ [Next]_vars =>
        [\A p \in DOMAIN last' :
            \/ last'[p] = LastSent(p[1], p[2])
            \/ Event(p[2], p[1]) \in late'
            \/ \A n \in 1..last'[p] :
                 n <= LastSent(p[1], p[2]) \/ \E k \in DOMAIN emit' :
                   emit'[k].hook = p[1] /\ emit'[k].tx = p[2] /\ emit'[k].count = n]_hook_vars
  BY ConsecutiveStep DEF IInv
<1> QED BY <1>1, WholeInvariant, PTL DEF Spec, Consecutive

\* on_timeout ends the request that its timer was set for, and no other.
THEOREM TimersOwn == Spec => OwnTimeout
<1>1. IInv /\ [Next]_vars =>
        [\A t \in expired : t \notin expired' /\ (outcome' # outcome \/ cut' # cut)
                             => t.request = requests]_http_vars
  BY TimeoutStep DEF IInv
<1> QED BY <1>1, WholeInvariant, PTL DEF Spec, OwnTimeout

\* The client implements Delivery: what scan threads hand to queue_async is
\* ended in their order, each message once (net/http/client.cpp:410-440).
THEOREM ClientDelivers == Spec => Delivers
<1>1. Init => Queue!Init
  BY DEF Init, HttpInit, Queue!Init
<1>2. IInv /\ [Next]_vars => [Queue!Next]_(outgoing \o pushing)
  BY QueueRefined DEF IInv
<1> QED BY <1>1, <1>2, WholeInvariant, PTL DEF Spec, Delivers, Queue!Spec

============================================================================
