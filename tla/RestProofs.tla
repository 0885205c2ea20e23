----------------------------- MODULE RestProofs -----------------------------
(***************************************************************************)
(* Proofs about Rest, for any number of connections, endpoints, requests   *)
(* and attempts.                                                           *)
(***************************************************************************)
EXTENDS Rest, SequenceTheorems, TLAPS

FrameRecord ==
  [pc : {"none", "start", "write", "read"}, op : {"none", "pending", "ok", "error"},
   timer : {"off", "armed", "fired"}, waiters : Seq(Nat), busy : BOOLEAN,
   stage : {"none", "histogram", "distribution", "keys", "call"}, tries : Nat, sent : Nat,
   said : {"none", "good", "bad"}]
Request == [kind : Kinds, answers : Seq(Answers)]

RestTypes ==
  /\ frame \in [Kinds -> FrameRecord]
  /\ pool \in Seq(BOOLEAN)
  /\ req \in Seq(Request)

\* A frame without an exchange under way has no reply outstanding and no
\* time-out; the reply that was read is the one that was outstanding.
SocketInv(f) ==
  /\ f.pc \in {"none", "start"} => f.busy = FALSE /\ f.timer = "off" /\ f.said = "none"
  /\ f.pc = "read" /\ f.op = "ok" => f.busy = FALSE
  /\ f.op # "none" => f.pc \in {"write", "read"}

\* The resumers of a frame: each once, of requests for its endpoint, and the
\* first of them is the one the exchange is for.
QueueInv(k) ==
  LET w == frame[k].waiters IN
  /\ frame[k].pc = "none" => w = <<>>
  /\ frame[k].pc \in {"write", "read"} => w # <<>> /\ frame[k].sent = w[1]
  /\ \A n \in 1..Len(w) : w[n] \in Ids /\ req[w[n]].kind = k
  /\ \A m, n \in 1..Len(w) : w[m] = w[n] => m = n

\* What the daemon has of the transactions that wait: nothing, but for the
\* first one once it has answered.
SubmitInv ==
  LET f == frame["submit"] IN
  /\ \A n \in 1..Len(f.waiters) :
       /\ f.waiters[n] \notin late
       /\ f.waiters[n] \in relayed => n = 1 /\ f.said = "good"
  /\ f.said = "good" => f.sent \in relayed

\* A transaction that was refused is at no daemon any more.
DaemonInv ==
  /\ relayed \in SUBSET Ids /\ late \in SUBSET Ids /\ recorded \in SUBSET relayed
  /\ "submit" \in Kinds => SubmitInv
  /\ \A i \in Ids : req[i].kind = "submit" =>
       \A n \in 1..Len(req[i].answers) :
         /\ req[i].answers[n] = "ok" => i \in relayed
         /\ req[i].answers[n] = "refused" => i \notin relayed /\ i \notin late

RestIInv ==
  /\ RestTypes
  /\ \A k \in Kinds : SocketInv(frame[k]) /\ QueueInv(k)
  /\ PoolIdle
  /\ WaitsOrAnswered
  /\ DaemonInv

\* Nothing of a frame but the one for k changes.
Only(k) == \A j \in Kinds : j # k => frame'[j] = frame[j]

-----------------------------------------------------------------------------
(* Lemmas: what a step does to the invariant, by what it changes.          *)

\* The requests taken so far, one by one.
LEMMA RequestTypes ==
  ASSUME RestTypes
  PROVE  /\ Len(req) \in Nat
         /\ \A i \in Ids : /\ req[i] \in Request /\ req[i].kind \in Kinds
                           /\ req[i].answers \in Seq(Answers)
<1>1. Len(req) \in Nat /\ \A i \in Ids : req[i] \in Request
  BY ElementOfSeq, LenProperties DEF RestTypes, Ids
<1>2. \A i \in Ids : req[i].kind \in Kinds /\ req[i].answers \in Seq(Answers)
  BY <1>1 DEF Request
<1>3. QED
  BY <1>1, <1>2

\* Steps of connections and caches, and steps that change nothing.
LEMMA OutsideStep ==
  ASSUME RestIInv, UNCHANGED <<frame, pool, req, relayed, late, recorded>>
  PROVE  RestIInv'
BY DEF RestIInv, RestTypes, SocketInv, QueueInv, PoolIdle, WaitsOrAnswered, Waiting, Ids,
       DaemonInv, SubmitInv

\* A frame goes on with the resumers it has.
LEMMA FrameStep ==
  ASSUME RestIInv, NEW k \in Kinds,
         frame' \in [Kinds -> FrameRecord], Only(k),
         frame'[k].waiters = frame[k].waiters,
         SocketInv(frame'[k]),
         frame'[k].pc # "none",
         frame'[k].pc \in {"write", "read"} =>
           frame[k].waiters # <<>> /\ frame'[k].sent = frame[k].waiters[1],
         k = "submit" =>
           /\ frame'[k].said = frame[k].said
           /\ frame[k].said = "good" => frame'[k].sent = frame[k].sent,
         UNCHANGED <<pool, req, relayed, late, recorded>>
  PROVE  RestIInv'
<1>1. RestTypes' /\ PoolIdle'
  BY DEF RestIInv, RestTypes, PoolIdle
<1>2. ASSUME NEW j \in Kinds PROVE SocketInv(frame'[j]) /\ QueueInv(j)'
  <2>1. CASE j # k
    BY <2>1 DEF RestIInv, Only, QueueInv, Ids
  <2>2. CASE j = k
    BY <2>2 DEF RestIInv, QueueInv, Ids
  <2>3. QED
    BY <2>1, <2>2
<1>3. \A j \in Kinds : frame'[j].waiters = frame[j].waiters
  BY DEF Only
<1>4. WaitsOrAnswered'
  <2>1. \A i \in Ids : req[i].kind \in Kinds
    BY RequestTypes DEF RestIInv
  <2>2. \A i \in Ids : Waiting(req[i].kind)' = Waiting(req[i].kind)
    BY <1>3, <2>1 DEF Waiting, ToSet
  <2>3. QED
    BY <2>2 DEF RestIInv, WaitsOrAnswered, Ids
<1>5. DaemonInv'
  <2>1. ("submit" \in Kinds => SubmitInv)'
    BY DEF RestIInv, DaemonInv, SubmitInv, Only
  <2>2. QED
    BY <2>1 DEF RestIInv, DaemonInv, Ids
<1>6. QED
  BY <1>1, <1>2, <1>4, <1>5 DEF RestIInv

-----------------------------------------------------------------------------
(* Lemmas about sequences.                                                 *)

\* v is w with one more element x at the end.
IsAppended(w, x, v) ==
  /\ v # <<>> /\ v[Len(w) + 1] = x
  /\ \A n \in 1..Len(w) : v[n] = w[n]
  /\ 1..Len(v) = (1..Len(w)) \cup {Len(w) + 1}
  /\ w # <<>> => 1 \in 1..Len(w)
  /\ ToSet(v) = ToSet(w) \cup {x}

\* A queue with one more element.
LEMMA Appended ==
  ASSUME NEW S, NEW w \in Seq(S), NEW x \in S, NEW v, v = Append(w, x)
  PROVE  IsAppended(w, x, v)
<1>1. /\ v \in Seq(S) /\ v # <<>> /\ Len(v) = Len(w) + 1 /\ v[Len(w) + 1] = x
      /\ \A n \in 1..Len(w) : v[n] = w[n]
  BY AppendProperties
<1>2. DOMAIN v = 1..Len(v) /\ DOMAIN w = 1..Len(w) /\ Len(w) \in Nat
  BY <1>1, LenProperties
<1>3. 1..Len(v) = (1..Len(w)) \cup {Len(w) + 1} /\ Len(w) + 1 \notin 1..Len(w)
  BY <1>1, <1>2
<1>4. w # <<>> => 1 \in 1..Len(w)
  BY <1>2
<1>5. ToSet(v) = ToSet(w) \cup {x}
  BY <1>1, <1>2, <1>3 DEF ToSet
<1>6. QED
  BY <1>1, <1>2, <1>3, <1>4, <1>5 DEF IsAppended

\* The empty sequence, and the one with one element.
LEMMA ShortSequences ==
  /\ Len(<<>>) <= 1 /\ 1..Len(<<>>) = {} /\ ToSet(<<>>) = {}
  /\ \A x : /\ Len(Append(<<>>, x)) <= 1 /\ Append(<<>>, x) # <<>>
            /\ \A n \in 1..Len(Append(<<>>, x)) : Append(<<>>, x)[n] = x
<1>1. Len(<<>>) <= 1 /\ 1..Len(<<>>) = {} /\ ToSet(<<>>) = {}
  BY DEF ToSet
<1>2. ASSUME NEW x
      PROVE  /\ Len(Append(<<>>, x)) <= 1 /\ Append(<<>>, x) # <<>>
             /\ \A n \in 1..Len(Append(<<>>, x)) : Append(<<>>, x)[n] = x
  OBVIOUS
<1>3. QED
  BY <1>1, <1>2

\* t is w without its first element.
IsTail(w, t) ==
  /\ 1 \in 1..Len(w) /\ Head(w) = w[1]
  /\ \A n \in 1..Len(t) : t[n] = w[n + 1] /\ n + 1 \in 1..Len(w) /\ n + 1 # 1
  /\ \A m, n \in 1..Len(t) : m + 1 = n + 1 => m = n
  /\ ToSet(w) = ToSet(t) \cup {w[1]}

\* A queue without its first element.
LEMMA Shortened ==
  ASSUME NEW S, NEW w \in Seq(S), w # <<>>, NEW t, t = Tail(w)
  PROVE  t \in Seq(S) /\ w[1] \in S /\ IsTail(w, t)
<1>1. /\ t \in Seq(S) /\ Len(t) = Len(w) - 1 /\ \A n \in 1..Len(t) : t[n] = w[n + 1]
  BY HeadTailProperties
<1>2. DOMAIN t = 1..Len(t) /\ DOMAIN w = 1..Len(w) /\ Len(w) \in Nat /\ Len(w) # 0 /\ Len(t) \in Nat
  BY <1>1, LenProperties, EmptySeq
<1>3. Head(w) = w[1] /\ w[1] \in S
  BY <1>2
<1>4. \A n \in 1..Len(t) : n + 1 \in 1..Len(w) /\ n + 1 # 1
  BY <1>1, <1>2
<1>5. \A n \in 1..Len(w) : n = 1 \/ (n - 1 \in 1..Len(t) /\ (n - 1) + 1 = n)
  BY <1>1, <1>2
<1>6. 1 \in 1..Len(w)
  BY <1>2
<1>7. ToSet(w) = ToSet(t) \cup {w[1]}
  <2>1. ASSUME NEW x \in ToSet(w) PROVE x \in ToSet(t) \cup {w[1]}
    <3>1. PICK n \in 1..Len(w) : x = w[n]
      BY <1>2 DEF ToSet
    <3>2. n = 1 \/ (n - 1 \in 1..Len(t) /\ t[n - 1] = w[n])
      BY <1>1, <1>5
    <3>3. QED
      BY <1>2, <3>1, <3>2 DEF ToSet
  <2>2. ASSUME NEW x \in ToSet(t) PROVE x \in ToSet(w)
    BY <1>1, <1>2, <1>4 DEF ToSet
  <2>3. w[1] \in ToSet(w)
    BY <1>2, <1>6 DEF ToSet
  <2>4. QED
    BY <2>1, <2>2, <2>3
<1>8. \A m, n \in 1..Len(t) : m + 1 = n + 1 => m = n
  OBVIOUS
<1>9. QED
  BY <1>1, <1>2, <1>3, <1>4, <1>6, <1>7, <1>8 DEF IsTail

-----------------------------------------------------------------------------
\* The empty frame, and what the words for a reply are.
LEMMA NoFrameType == NoFrame \in FrameRecord
BY EmptySeq DEF NoFrame, FrameRecord

\* The fields of a frame.
LEMMA FrameFields ==
  ASSUME NEW f \in FrameRecord
  PROVE  /\ f.pc \in {"none", "start", "write", "read"}
         /\ f.op \in {"none", "pending", "ok", "error"}
         /\ f.timer \in {"off", "armed", "fired"}
         /\ f.waiters \in Seq(Nat) /\ f.busy \in BOOLEAN
         /\ f.tries \in Nat /\ f.sent \in Nat
         /\ f.stage \in {"none", "histogram", "distribution", "keys", "call"}
         /\ f.said \in {"none", "good", "bad"}
BY DEF FrameRecord

\* An exchange begins: the first request is sent.
LEMMA WriteFields ==
  ASSUME RestIInv, NEW k \in Kinds, NEW s \in {"histogram", "distribution", "keys", "call"},
         frame[k].waiters # <<>>, Write(k, s)
  PROVE  /\ frame' \in [Kinds -> FrameRecord] /\ Only(k)
         /\ frame'[k].pc = "write" /\ frame'[k].op = "pending" /\ frame'[k].said = "none"
         /\ frame'[k].waiters = frame[k].waiters /\ frame'[k].sent = frame[k].waiters[1]
<1>1. frame \in [Kinds -> FrameRecord] /\ frame[k] \in FrameRecord
  BY DEF RestIInv, RestTypes
<1>2. Head(frame[k].waiters) = frame[k].waiters[1] /\ Head(frame[k].waiters) \in Nat
  <2>1. frame[k].waiters \in Seq(Nat)
    BY <1>1, FrameFields
  <2>2. QED
    BY <2>1
<1> DEFINE n == IF s = frame[k].stage THEN frame[k].tries + 1 ELSE 1
           h == Head(frame[k].waiters)
<1>3. n \in Nat
  BY <1>1, FrameFields
<1>4. frame' = [frame EXCEPT ![k].pc = "write", ![k].op = "pending", ![k].timer = "armed",
                             ![k].stage = s, ![k].tries = n, ![k].sent = h, ![k].said = "none"]
  BY DEF Write
<1>5. h \in Nat /\ h = frame[k].waiters[1]
  BY <1>2
<1> HIDE DEF n, h
<1>6. frame' \in [Kinds -> FrameRecord]
  BY <1>1, <1>3, <1>4, <1>5, ZenonT(120) DEF FrameRecord
<1>7. Only(k)
  BY <1>1, <1>4 DEF Only
<1>8. /\ frame'[k].pc = "write" /\ frame'[k].op = "pending" /\ frame'[k].said = "none"
      /\ frame'[k].waiters = frame[k].waiters /\ frame'[k].sent = h
  BY <1>1, <1>4 DEF FrameRecord
<1>9. QED
  BY <1>5, <1>6, <1>7, <1>8 DEF IsTail

\* Steps of one exchange that answer nobody.
LEMMA ExchangeStep ==
  ASSUME RestIInv, NEW k \in Kinds,
         begin(k) \/ socket(k) \/ expire(k) \/ on_timeout(k)
  PROVE  RestIInv'
<1>0. frame \in [Kinds -> FrameRecord] /\ frame[k] \in FrameRecord
  BY DEF RestIInv, RestTypes
<1>1. SocketInv(frame[k]) /\ QueueInv(k)
  BY DEF RestIInv
<1>2. CASE begin(k)
  <2>1. PICK s \in Stages(k) : Write(k, s)
    BY <1>2 DEF begin
  <2>2. s \in {"histogram", "distribution", "keys", "call"}
    BY DEF Stages
  <2>3. /\ frame[k].pc = "start" /\ frame[k].waiters # <<>>
        /\ UNCHANGED <<pool, req, relayed, late, recorded>>
    BY <1>2 DEF begin
  <2>4. frame[k].said = "none"
    BY <1>1, <2>3 DEF SocketInv
  <2>5. /\ frame' \in [Kinds -> FrameRecord] /\ Only(k)
        /\ frame'[k].pc = "write" /\ frame'[k].op = "pending" /\ frame'[k].said = "none"
        /\ frame'[k].waiters = frame[k].waiters /\ frame'[k].sent = frame[k].waiters[1]
    BY <2>1, <2>2, <2>3, WriteFields
  <2>6. SocketInv(frame'[k])
    BY <2>5 DEF SocketInv
  <2>7. QED
    BY <2>3, <2>4, <2>5, <2>6, FrameStep
<1>3. CASE socket(k)
  <2>1. frame[k].op = "pending" /\ UNCHANGED <<pool, req, relayed, late, recorded>>
    BY <1>3 DEF socket
  <2>2. \/ frame[k].pc = "write" /\ frame' = [frame EXCEPT ![k].op = "ok", ![k].busy = TRUE]
        \/ frame[k].pc = "read" /\ frame' = [frame EXCEPT ![k].op = "ok", ![k].busy = FALSE]
        \/ frame' = [frame EXCEPT ![k].op = "error"]
    BY <1>3 DEF socket
  <2>3. frame' \in [Kinds -> FrameRecord] /\ Only(k)
    <3>1. ASSUME NEW b \in BOOLEAN, frame' = [frame EXCEPT ![k].op = "ok", ![k].busy = b]
          PROVE  frame' \in [Kinds -> FrameRecord]
      BY <1>0, <3>1 DEF FrameRecord
    <3>2. ASSUME frame' = [frame EXCEPT ![k].op = "error"]
          PROVE  frame' \in [Kinds -> FrameRecord]
      BY <1>0, <3>2 DEF FrameRecord
    <3>3. Only(k)
      BY <1>0, <2>2 DEF Only
    <3>4. QED
      BY <2>2, <3>1, <3>2, <3>3
  <2>4. /\ frame'[k].pc = frame[k].pc /\ frame'[k].timer = frame[k].timer
        /\ frame'[k].said = frame[k].said /\ frame'[k].sent = frame[k].sent
        /\ frame'[k].waiters = frame[k].waiters
    BY <1>0, <2>2 DEF FrameRecord
  <2>5. frame[k].pc \in {"write", "read"}
    BY <1>1, <2>1 DEF SocketInv
  <2>6. SocketInv(frame'[k])
    <3>1. CASE frame[k].pc = "write"
      BY <2>4, <3>1 DEF SocketInv
    <3>2. CASE frame[k].pc = "read" /\ frame' = [frame EXCEPT ![k].op = "ok", ![k].busy = FALSE]
      <4>1. frame'[k].busy = FALSE
        BY <1>0, <3>2 DEF FrameRecord
      <4>2. QED
        BY <2>4, <3>2, <4>1 DEF SocketInv
    <3>3. CASE frame[k].pc = "read" /\ frame' = [frame EXCEPT ![k].op = "error"]
      <4>1. frame'[k].op = "error"
        BY <1>0, <3>3 DEF FrameRecord
      <4>2. QED
        BY <2>4, <3>3, <4>1 DEF SocketInv
    <3>4. QED
      BY <2>2, <2>5, <3>1, <3>2, <3>3
  <2>7. QED
    BY <1>1, <2>1, <2>3, <2>4, <2>5, <2>6, FrameStep DEF QueueInv
<1>4. CASE expire(k) \/ on_timeout(k)
  <2>1. UNCHANGED <<pool, req, relayed, late, recorded>>
    BY <1>4 DEF expire, on_timeout
  <2>2. frame[k].pc \in {"write", "read"}
    <3>1. frame[k].timer # "off"
      BY <1>4 DEF expire, on_timeout
    <3>2. QED
      BY <1>0, <1>1, <3>1 DEF SocketInv, FrameRecord
  <2>3. frame' \in [Kinds -> FrameRecord] /\ Only(k)
    <3>1. CASE expire(k)
      BY <1>0, <3>1 DEF FrameRecord, Only, expire
    <3>2. CASE on_timeout(k)
      <4> DEFINE v == IF frame[k].op = "pending" THEN "error" ELSE frame[k].op
      <4>1. frame' = [frame EXCEPT ![k].timer = "off", ![k].op = v]
        BY <3>2 DEF on_timeout
      <4>2. v \in {"none", "pending", "ok", "error"}
        BY <1>0, FrameFields
      <4> HIDE DEF v
      <4>3. QED
        BY <1>0, <4>1, <4>2 DEF FrameRecord, Only
    <3>3. QED
      BY <1>4, <3>1, <3>2
  <2>4. /\ frame'[k].pc = frame[k].pc /\ frame'[k].busy = frame[k].busy
        /\ frame'[k].said = frame[k].said /\ frame'[k].sent = frame[k].sent
        /\ frame'[k].waiters = frame[k].waiters
    BY <1>0, <1>4 DEF FrameRecord, expire, on_timeout
  <2>7. frame'[k].op = "ok" => frame[k].op = "ok"
    <3>1. CASE expire(k)
      BY <1>0, <3>1 DEF FrameRecord, expire
    <3>2. CASE on_timeout(k)
      <4> DEFINE v == IF frame[k].op = "pending" THEN "error" ELSE frame[k].op
      <4>1. frame' = [frame EXCEPT ![k].timer = "off", ![k].op = v]
        BY <3>2 DEF on_timeout
      <4>2. v = "ok" => frame[k].op = "ok"
        OBVIOUS
      <4> HIDE DEF v
      <4>3. frame'[k].op = v
        BY <1>0, <4>1 DEF FrameRecord
      <4>4. QED
        BY <4>2, <4>3
    <3>3. QED
      BY <1>4, <3>1, <3>2
  <2>5. SocketInv(frame'[k])
    BY <1>1, <2>2, <2>4, <2>7 DEF SocketInv
  <2>6. QED
    BY <1>1, <2>1, <2>2, <2>3, <2>4, <2>5, FrameStep DEF QueueInv
<1>5. QED
  BY <1>2, <1>3, <1>4

\* An idle socket goes to the pool.
LEMMA PoolStored ==
  ASSUME pool \in Seq(BOOLEAN), PoolIdle, pool' = Append(pool, FALSE)
  PROVE  pool' \in Seq(BOOLEAN) /\ PoolIdle' /\ Len(pool') = Len(pool) + 1
<1>1. /\ pool' \in Seq(BOOLEAN) /\ Len(pool') = Len(pool) + 1
      /\ \A i \in 1..Len(pool) : pool'[i] = pool[i]
      /\ pool'[Len(pool) + 1] = FALSE
  BY AppendProperties
<1>2. DOMAIN pool = 1..Len(pool) /\ DOMAIN pool' = 1..Len(pool') /\ Len(pool) \in Nat
  BY <1>1, LenProperties
<1>3. ASSUME NEW i \in DOMAIN pool' PROVE ~pool'[i]
  <2>1. i = Len(pool) + 1 \/ i \in 1..Len(pool)
    BY <1>1, <1>2
  <2>2. CASE i = Len(pool) + 1
    BY <1>1, <2>2
  <2>3. CASE i \in 1..Len(pool)
    BY <1>1, <1>2, <2>3 DEF PoolIdle
  <2>4. QED
    BY <2>1, <2>2, <2>3
<1>4. QED
  BY <1>1, <1>3 DEF PoolIdle

\* The socket that was stored last leaves the pool.
LEMMA PoolTaken ==
  ASSUME pool \in Seq(BOOLEAN), PoolIdle, pool' = IF pool = <<>> THEN pool ELSE Front(pool)
  PROVE  pool' \in Seq(BOOLEAN) /\ PoolIdle' /\ ~(Len(pool') > Len(pool))
<1>1. CASE pool = <<>>
  BY <1>1 DEF PoolIdle
<1>2. CASE pool # <<>>
  <2>1. Len(pool) \in Nat /\ Len(pool) # 0 /\ DOMAIN pool = 1..Len(pool)
    BY <1>2, LenProperties, EmptySeq
  <2> DEFINE n == Len(pool) - 1
  <2>2. n \in Nat /\ 1..n \subseteq 1..Len(pool) /\ n < Len(pool)
    BY <2>1
  <2>3. \A i \in 1..n : pool[i] \in BOOLEAN /\ ~pool[i]
    BY <2>1, <2>2, ElementOfSeq DEF PoolIdle
  <2>4. pool' = SubSeq(pool, 1, n)
    BY <1>2 DEF Front
  <2> HIDE DEF n
  <2>5. /\ SubSeq(pool, 1, n) \in Seq(BOOLEAN) /\ Len(SubSeq(pool, 1, n)) = n
        /\ \A i \in 1..n : SubSeq(pool, 1, n)[i] = pool[i]
    BY <2>1, <2>2, <2>3
  <2>6. DOMAIN pool' = 1..n
    BY <2>2, <2>4, <2>5, LenProperties
  <2>7. \A i \in 1..n : ~pool'[i]
    BY <2>3, <2>4, <2>5
  <2>8. QED
    BY <2>1, <2>2, <2>4, <2>5, <2>6, <2>7 DEF PoolIdle
<1>3. QED
  BY <1>1, <1>2

\* What the resumers of the requests in ids leave.
LEMMA Resumed ==
  ASSUME RestTypes, NEW ids, NEW value \in Answers, Resume(ids, value)
  PROVE  /\ req' \in Seq(Request) /\ Len(req') = Len(req)
         /\ \A i \in Ids :
              /\ req'[i].kind = req[i].kind
              /\ req'[i].answers = IF i \in ids THEN Append(req[i].answers, value)
                                                ELSE req[i].answers
<1>1. /\ Len(req) \in Nat
      /\ \A i \in Ids : /\ req[i] \in Request /\ req[i].kind \in Kinds
                        /\ req[i].answers \in Seq(Answers)
  BY RequestTypes
<1> DEFINE e(i) == IF i \in ids THEN [req[i] EXCEPT !.answers = Append(@, value)] ELSE req[i]
<1>2. ASSUME NEW i \in Ids
      PROVE  /\ e(i) \in Request /\ e(i).kind = req[i].kind
             /\ e(i).answers = IF i \in ids THEN Append(req[i].answers, value)
                                            ELSE req[i].answers
  <2>1. CASE i \in ids
    <3> DEFINE a == Append(req[i].answers, value)
    <3>1. a \in Seq(Answers)
      BY <1>1
    <3>2. e(i) = [req[i] EXCEPT !.answers = a]
      BY <2>1
    <3> HIDE DEF a, e
    <3>3. e(i) \in Request /\ e(i).kind = req[i].kind /\ e(i).answers = a
      BY <1>1, <3>1, <3>2 DEF Request
    <3>4. QED
      BY <2>1, <3>3 DEF a
  <2>2. CASE i \notin ids
    BY <1>1, <2>2
  <2>3. QED
    BY <2>1, <2>2
<1>3. req' = [i \in 1..Len(req) |-> e(i)]
  BY DEF Resume, Ids
<1> HIDE DEF e
<1>4. req' \in Seq(Request) /\ Len(req') = Len(req) /\ \A i \in Ids : req'[i] = e(i)
  BY <1>1, <1>2, <1>3 DEF Ids
<1>5. QED
  BY <1>2, <1>4

\* A queue whose frame no step touches stays what it was while the requests
\* keep their endpoints.
LEMMA QueueKept ==
  ASSUME NEW j \in Kinds, QueueInv(j), frame'[j] = frame[j],
         \A i \in Ids : i \in Ids' /\ req'[i].kind = req[i].kind
  PROVE  QueueInv(j)'
<1> DEFINE w == frame[j].waiters
<1>1. \A n \in 1..Len(w) : w[n] \in Ids /\ req[w[n]].kind = j
  BY DEF QueueInv
<1>2. \A n \in 1..Len(w) : w[n] \in Ids' /\ req'[w[n]].kind = j
  <2> HIDE DEF w
  <2> QED BY <1>1, Zenon
<1>3. /\ frame[j].pc = "none" => w = <<>>
      /\ frame[j].pc \in {"write", "read"} => w # <<>> /\ frame[j].sent = w[1]
      /\ \A m, n \in 1..Len(w) : w[m] = w[n] => m = n
  BY DEF QueueInv
<1>4. QED
  BY <1>2, <1>3 DEF QueueInv

\* Everybody who waits is answered and the frame is gone: send_response.
LEMMA AllAnswered ==
  ASSUME RestIInv, NEW k \in Kinds, NEW value \in Answers, Resume(Waiting(k), value),
         frame' = [frame EXCEPT ![k] = NoFrame],
         pool' = pool \/ (pool' = Append(pool, FALSE)),
         k = "submit" => value = "timeout",
         late' \in SUBSET (late \cup Waiting("submit")),
         late' # late => k = "submit" /\ frame["submit"].said = "none",
         UNCHANGED <<relayed, recorded>>
  PROVE  RestIInv'
<1>0. RestTypes
  BY DEF RestIInv
<1>1. /\ req' \in Seq(Request) /\ Len(req') = Len(req)
      /\ \A i \in Ids :
           /\ req'[i].kind = req[i].kind
           /\ req'[i].answers = IF i \in Waiting(k) THEN Append(req[i].answers, value)
                                                    ELSE req[i].answers
  BY <1>0, Resumed
<1>2. \A i \in Ids : req[i].kind \in Kinds /\ req[i].answers \in Seq(Answers)
  BY <1>0, RequestTypes
<1>3. Ids' = Ids
  BY <1>1 DEF Ids
<1>4. frame' \in [Kinds -> FrameRecord] /\ frame'[k] = NoFrame /\ Only(k)
  BY <1>0, NoFrameType DEF RestTypes, Only
<1>5. RestTypes' /\ PoolIdle'
  <2>1. pool' \in Seq(BOOLEAN) /\ PoolIdle'
    BY <1>0, PoolStored DEF RestIInv, RestTypes, PoolIdle
  <2>2. QED
    BY <1>1, <1>4, <2>1 DEF RestTypes
<1>6. frame'[k].waiters = <<>> /\ frame'[k].pc = "none" /\ frame'[k].said = "none"
  BY <1>4 DEF NoFrame
<1>7. ASSUME NEW j \in Kinds PROVE SocketInv(frame'[j]) /\ QueueInv(j)'
  <2>0. SocketInv(frame[j]) /\ QueueInv(j)
    BY DEF RestIInv
  <2>1. CASE j # k
    <3>1. frame'[j] = frame[j]
      BY <1>4, <2>1 DEF Only
    <3>2. QueueInv(j)'
      BY <1>1, <1>3, <2>0, <3>1, QueueKept
    <3>3. QED
      BY <2>0, <3>1, <3>2
  <2>2. CASE j = k
    BY <1>4, <2>2 DEF NoFrame, SocketInv, QueueInv
  <2>3. QED
    BY <2>1, <2>2
<1>8. \A i \in Ids : i \in Waiting(k) => req[i].kind = k
  <2> DEFINE w == frame[k].waiters
  <2>1. \A n \in 1..Len(w) : req[w[n]].kind = k
    BY DEF RestIInv, QueueInv
  <2>2. w \in Seq(Nat)
    BY <1>0, FrameFields DEF RestTypes
  <2>3. DOMAIN w = 1..Len(w)
    <3> HIDE DEF w
    <3> QED BY <2>2, LenProperties
  <2>4. \A i \in Waiting(k) : \E n \in 1..Len(w) : w[n] = i
    BY <2>3 DEF Waiting, ToSet
  <2> HIDE DEF w
  <2>5. QED
    BY <2>1, <2>4, ZenonT(60)
<1>9. \A j \in Kinds : ToSet(frame'[j].waiters) = IF j = k THEN {} ELSE Waiting(j)
  BY <1>4, <1>6 DEF Only, Waiting, ToSet
<1>10. WaitsOrAnswered'
  <2> SUFFICES ASSUME NEW i \in Ids
               PROVE  /\ Len(req'[i].answers) <= 1
                      /\ (req'[i].answers = <<>>) <=> (i \in ToSet(frame'[req[i].kind].waiters))
    BY <1>1, <1>3 DEF WaitsOrAnswered, Waiting
  <2>1. /\ Len(req[i].answers) <= 1
        /\ (req[i].answers = <<>>) <=> (i \in Waiting(req[i].kind))
    BY DEF RestIInv, WaitsOrAnswered
  <2>2. CASE i \in Waiting(k)
    <3>1. req[i].kind = k /\ req[i].answers = <<>>
      BY <1>8, <2>1, <2>2
    <3>2. req'[i].answers = Append(<<>>, value)
      BY <1>1, <2>2, <3>1
    <3>3. Len(req'[i].answers) <= 1 /\ req'[i].answers # <<>>
      BY <3>2
    <3>4. QED
      BY <1>2, <1>9, <3>1, <3>3
  <2>3. CASE i \notin Waiting(k)
    BY <1>1, <1>2, <1>8, <1>9, <2>1, <2>3
  <2>4. QED
    BY <2>2, <2>3
<1>11. DaemonInv'
  <2>1. Waiting(k) \subseteq Ids
    BY DEF RestIInv, QueueInv, Waiting, ToSet
  <2>2. late' = late \/ (k = "submit" /\ late' \subseteq late \cup Waiting(k))
    OBVIOUS
  <2>3. relayed' \in SUBSET Ids /\ late' \in SUBSET Ids /\ recorded' \in SUBSET relayed'
    BY <2>1, <2>2 DEF RestIInv, DaemonInv
  <2>4. ("submit" \in Kinds => SubmitInv)'
    <3>1. CASE k = "submit"
      BY <1>6, <3>1 DEF SubmitInv
    <3>2. CASE k # "submit"
      BY <1>4, <2>2, <3>2 DEF RestIInv, DaemonInv, SubmitInv, Only
    <3>3. QED
      BY <3>1, <3>2
  <2>5. ASSUME NEW i \in Ids, req[i].kind = "submit", NEW n \in 1..Len(req'[i].answers)
        PROVE  /\ req'[i].answers[n] = "ok" => i \in relayed
               /\ req'[i].answers[n] = "refused" => i \notin relayed /\ i \notin late'
    <3>1. CASE i \in Waiting(k)
      <4>1. req[i].answers = <<>> /\ k = "submit"
        BY <1>8, <2>5, <3>1 DEF RestIInv, WaitsOrAnswered
      <4>2. req'[i].answers = Append(<<>>, "timeout")
        BY <1>1, <3>1, <4>1
      <4>3. req'[i].answers[n] = "timeout"
        BY <4>2
      <4>4. QED
        BY <4>3
    <3>2. CASE i \notin Waiting(k)
      <4>1. req'[i].answers = req[i].answers
        BY <1>1, <3>2
      <4>2. i \in late' => i \in late
        BY <2>2, <3>2
      <4>3. QED
        BY <2>5, <4>1, <4>2 DEF RestIInv, DaemonInv
    <3>3. QED
      BY <3>1, <3>2
  <2>6. QED
    BY <1>1, <1>3, <2>3, <2>4, <2>5 DEF DaemonInv
<1>12. QED
  BY <1>5, <1>7, <1>10, <1>11 DEF RestIInv

\* An error ends the frame: the socket is dropped, everybody is told.
LEMMA Failed ==
  ASSUME RestIInv, NEW k \in Kinds, NEW value \in {"timeout", "invalid"}, Fail(k, value),
         k = "submit" => value = "timeout"
  PROVE  RestIInv'
<1> DEFINE v == IF k = "status" THEN "default" ELSE value
<1>1. /\ v \in Answers /\ Resume(Waiting(k), v) /\ frame' = [frame EXCEPT ![k] = NoFrame]
      /\ UNCHANGED <<pool, relayed, recorded>> /\ (k = "submit" => v = "timeout")
  BY DEF Fail, Answers
<1>2. late' = late \/ (k = "submit" /\ frame[k].busy /\ frame[k].said = "none" /\ late' = late \cup {frame[k].sent})
  BY DEF Fail
<1>3. frame[k].busy => frame[k].sent \in Waiting(k)
  <2>1. frame[k] \in FrameRecord /\ SocketInv(frame[k]) /\ QueueInv(k)
    BY DEF RestIInv, RestTypes
  <2>2. SUFFICES ASSUME frame[k].busy PROVE frame[k].sent \in Waiting(k)
    OBVIOUS
  <2>3. frame[k].pc \in {"write", "read"}
    BY <2>1, <2>2, FrameFields DEF SocketInv
  <2>4. frame[k].waiters \in Seq(Nat) /\ frame[k].waiters # <<>> /\ frame[k].sent = frame[k].waiters[1]
    BY <2>1, <2>3, FrameFields DEF QueueInv
  <2>5. 1 \in DOMAIN frame[k].waiters
    BY <2>4
  <2>6. QED
    BY <2>4, <2>5 DEF Waiting, ToSet
<1>4. late' \in SUBSET (late \cup Waiting("submit"))
  BY <1>2, <1>3
<1>5. late' # late => k = "submit" /\ frame["submit"].said = "none"
  BY <1>2
<1> HIDE DEF v
<1>6. QED
  BY <1>1, <1>4, <1>5, AllAnswered

\* A reply for everybody: the socket goes back to the pool.
LEMMA AnsweredAll ==
  ASSUME RestIInv, NEW k \in Kinds \ {"submit"}, Replied(k), AnswerAll(k)
  PROVE  RestIInv'
<1> DEFINE v == IF frame[k].said = "good" THEN "ok" ELSE "invalid"
<1>1. /\ v \in Answers /\ Resume(Waiting(k), v) /\ frame' = [frame EXCEPT ![k] = NoFrame]
      /\ UNCHANGED <<late, relayed, recorded>>
  BY DEF AnswerAll, Answers
<1>2. pool' = Append(pool, FALSE)
  BY DEF RestIInv, SocketInv, Replied, AnswerAll, store_async_client
<1>3. late' \in SUBSET (late \cup Waiting("submit"))
  BY <1>1
<1> HIDE DEF v
<1>4. QED
  BY <1>1, <1>2, <1>3, AllAnswered

\* A request joins a frame, or starts one: a new id at the end of the queue.
LEMMA Joins ==
  ASSUME RestIInv, NEW k \in Kinds,
         req' = Append(req, [kind |-> k, answers |-> <<>>]),
         frame' \in [Kinds -> FrameRecord], Only(k),
         frame'[k].waiters = Append(frame[k].waiters, Len(req) + 1),
         SocketInv(frame'[k]), frame'[k].pc # "none",
         frame'[k].pc \in {"write", "read"} =>
           frame[k].waiters # <<>> /\ frame'[k].sent = frame[k].waiters[1],
         frame'[k].said = frame[k].said,
         frame[k].said = "good" => frame'[k].sent = frame[k].sent,
         pool' \in Seq(BOOLEAN), PoolIdle',
         UNCHANGED <<relayed, late, recorded>>
  PROVE  RestIInv'
<1> DEFINE id == Len(req) + 1
           w == frame[k].waiters
           v == frame'[k].waiters
<1>0. RestTypes /\ Len(req) \in Nat /\ frame[k] \in FrameRecord
  BY RequestTypes DEF RestIInv, RestTypes
<1>1. /\ req' \in Seq(Request) /\ Len(req') = id /\ \A i \in Ids : req'[i] = req[i]
      /\ req'[id].kind = k /\ req'[id].answers = <<>>
  <2> DEFINE r == [kind |-> k, answers |-> <<>>]
  <2>1. r \in Request /\ r.kind = k /\ r.answers = <<>>
    BY EmptySeq DEF Request
  <2> HIDE DEF r
  <2>2. req' = Append(req, r) /\ req \in Seq(Request)
    BY <1>0 DEF RestTypes, r
  <2>3. QED
    BY <2>1, <2>2, AppendProperties DEF Ids
<1>2. Ids' = Ids \cup {id} /\ id \notin Ids
  BY <1>0, <1>1 DEF Ids
<1>3. /\ w \in Seq(Nat) /\ Len(w) \in Nat /\ DOMAIN w = 1..Len(w)
      /\ id \in Nat
  BY <1>0, FrameFields, LenProperties
<1>4. /\ v # <<>> /\ v[Len(w) + 1] = id
      /\ \A n \in 1..Len(w) : v[n] = w[n]
      /\ 1..Len(v) = (1..Len(w)) \cup {Len(w) + 1}
      /\ w # <<>> => 1 \in 1..Len(w)
      /\ ToSet(v) = ToSet(w) \cup {id}
  <2>1. v = Append(w, id) /\ id \in Nat /\ w \in Seq(Nat)
    BY <1>3
  <2> HIDE DEF v, w, id
  <2>2. IsAppended(w, id, v)
    BY <2>1, Appended, Zenon
  <2>3. QED
    BY <2>2, Zenon DEF IsAppended
<1>a. w = frame[k].waiters /\ v = frame'[k].waiters
  OBVIOUS
<1>b. \A i \in Ids : i \in Ids' /\ req'[i].kind = req[i].kind
  BY <1>1, <1>2
<1> HIDE DEF id, w, v
<1>5. RestTypes'
  BY <1>1 DEF RestTypes
<1>6. ASSUME NEW j \in Kinds PROVE SocketInv(frame'[j]) /\ QueueInv(j)'
  <2>0. SocketInv(frame[j]) /\ QueueInv(j)
    BY DEF RestIInv
  <2>1. CASE j # k
    <3>1. frame'[j] = frame[j]
      BY <2>1 DEF Only
    <3>2. SocketInv(frame'[j])
      BY <2>0, <3>1
    <3>3. QueueInv(j)'
      BY <1>b, <2>0, <3>1, QueueKept
    <3>4. QED
      BY <3>2, <3>3
  <2>2. CASE j = k
    <3>1. /\ \A n \in 1..Len(w) : w[n] \in Ids /\ req[w[n]].kind = k
          /\ \A m, n \in 1..Len(w) : w[m] = w[n] => m = n
      BY <1>a, <2>0, <2>2 DEF QueueInv
    <3>2. frame'[k].pc \in {"write", "read"} => v # <<>> /\ frame'[k].sent = v[1]
      BY <1>a, <1>4
    <3>3. ASSUME NEW n \in 1..Len(v) PROVE v[n] \in Ids' /\ req'[v[n]].kind = k
      <4>1. n \in 1..Len(w) \/ n = Len(w) + 1
        BY <1>4
      <4>2. CASE n \in 1..Len(w)
        <5>1. v[n] = w[n] /\ w[n] \in Ids /\ req[w[n]].kind = k
          BY <1>4, <3>1, <4>2
        <5>2. QED
          BY <1>b, <5>1
      <4>3. CASE n = Len(w) + 1
        BY <1>1, <1>2, <1>4, <4>3
      <4>4. QED
        BY <4>1, <4>2, <4>3
    <3>4. ASSUME NEW m \in 1..Len(v), NEW n \in 1..Len(v), v[m] = v[n] PROVE m = n
      <4>1. \A l \in 1..Len(v) : l \in 1..Len(w) \/ l = Len(w) + 1
        BY <1>4
      <4>2. CASE m \in 1..Len(w) /\ n \in 1..Len(w)
        BY <1>4, <3>1, <3>4, <4>2
      <4>3. CASE m = Len(w) + 1 /\ n \in 1..Len(w)
        BY <1>2, <1>4, <3>1, <3>4, <4>3
      <4>4. CASE m \in 1..Len(w) /\ n = Len(w) + 1
        BY <1>2, <1>4, <3>1, <3>4, <4>4, SMTT(30)
      <4>5. QED
        BY <4>1, <4>2, <4>3, <4>4
    <3>5. QED
      BY <1>a, <2>2, <3>2, <3>3, <3>4, ZenonT(60) DEF QueueInv
  <2>3. QED
    BY <2>1, <2>2
<1>7. ToSet(frame'[k].waiters) = Waiting(k) \cup {id}
  BY <1>4, <1>a DEF Waiting
<1>8. WaitsOrAnswered'
  <2> SUFFICES ASSUME NEW i \in Ids'
               PROVE  /\ Len(req'[i].answers) <= 1
                      /\ (req'[i].answers = <<>>) <=> (i \in ToSet(frame'[req'[i].kind].waiters))
    BY DEF WaitsOrAnswered, Waiting
  <2>1. CASE i = id
    <3>1. Len(req'[i].answers) <= 1
      BY <1>1, <2>1, ShortSequences
    <3>2. req'[i].answers = <<>> /\ i \in ToSet(frame'[req'[i].kind].waiters)
      BY <1>1, <1>7, <2>1
    <3>3. QED
      BY <3>1, <3>2
  <2>2. CASE i \in Ids
    <3>1. /\ Len(req[i].answers) <= 1
          /\ (req[i].answers = <<>>) <=> (i \in Waiting(req[i].kind))
      BY <2>2 DEF RestIInv, WaitsOrAnswered
    <3>2. req'[i] = req[i] /\ req[i].kind \in Kinds /\ i # id
      BY <1>0, <1>1, <1>2, <2>2, RequestTypes
    <3>3. i \in ToSet(frame'[req[i].kind].waiters) <=> i \in Waiting(req[i].kind)
      BY <1>7, <3>2 DEF Only, Waiting
    <3>4. QED
      BY <3>1, <3>2, <3>3
  <2>3. QED
    BY <1>2, <2>1, <2>2
<1>9. DaemonInv'
  <2>1. relayed' \in SUBSET Ids' /\ late' \in SUBSET Ids' /\ recorded' \in SUBSET relayed'
    BY <1>2 DEF RestIInv, DaemonInv
  <2>2. ("submit" \in Kinds => SubmitInv)'
    <3>1. CASE k = "submit"
      <4>1. id \notin relayed /\ id \notin late
        BY <1>2 DEF RestIInv, DaemonInv
      <4>2. SubmitInv
        BY <3>1 DEF RestIInv, DaemonInv
      <4>3. ASSUME NEW n \in 1..Len(v)
            PROVE  /\ v[n] \notin late
                   /\ v[n] \in relayed => n = 1 /\ frame'[k].said = "good"
        <5>1. n \in 1..Len(w) \/ n = Len(w) + 1
          BY <1>4
        <5>2. \A m \in 1..Len(w) :
                w[m] \notin late /\ (w[m] \in relayed => m = 1 /\ frame[k].said = "good")
          BY <1>a, <3>1, <4>2 DEF SubmitInv
        <5>3. QED
          BY <1>4, <4>1, <5>1, <5>2
      <4>4. frame'[k].said = "good" => frame'[k].sent \in relayed
        BY <3>1, <4>2 DEF SubmitInv
      <4>5. QED
        BY <1>a, <3>1, <4>3, <4>4 DEF SubmitInv
    <3>2. CASE k # "submit"
      BY <3>2 DEF RestIInv, DaemonInv, SubmitInv, Only
    <3>3. QED
      BY <3>1, <3>2
  <2>3. ASSUME NEW i \in Ids', req'[i].kind = "submit", NEW n \in 1..Len(req'[i].answers)
        PROVE  /\ req'[i].answers[n] = "ok" => i \in relayed
               /\ req'[i].answers[n] = "refused" => i \notin relayed /\ i \notin late
    <3>1. CASE i = id
      <4>1. 1..Len(req'[i].answers) = {}
        BY <1>1, <3>1, ShortSequences
      <4>2. QED
        BY <2>3, <4>1
    <3>2. CASE i \in Ids
      <4>1. req'[i] = req[i]
        BY <1>1, <3>2
      <4>2. QED
        BY <2>3, <3>2, <4>1 DEF RestIInv, DaemonInv
    <3>3. QED
      BY <1>2, <3>1, <3>2
  <2>4. QED
    BY <2>1, <2>2, <2>3 DEF DaemonInv
<1>10. QED
  BY <1>5, <1>6, <1>8, <1>9 DEF RestIInv

\* The first request is answered; the others go on waiting.
LEMMA ServedStep ==
  ASSUME RestIInv, NEW k \in Kinds, NEW value \in Answers, Served(k, value),
         Replied(k) \/ (frame[k].pc = "start" /\ frame[k].waiters # <<>>),
         k = "submit" => Replied(k),
         k = "submit" => value = IF frame[k].said = "good" THEN "ok" ELSE "refused",
         recorded' \in SUBSET relayed,
         UNCHANGED <<pool, relayed, late>>
  PROVE  RestIInv'
<1> DEFINE w == frame[k].waiters
           t == frame'[k].waiters
<1>0. /\ RestTypes /\ frame \in [Kinds -> FrameRecord] /\ frame[k] \in FrameRecord
      /\ SocketInv(frame[k]) /\ QueueInv(k)
  BY DEF RestIInv, RestTypes
<1>1. /\ w \in Seq(Nat) /\ w # <<>> /\ frame[k].busy = FALSE
      /\ k = "submit" => frame[k].sent = w[1]
  BY <1>0, FrameFields DEF QueueInv, SocketInv, Replied
<1>2. /\ frame' \in [Kinds -> FrameRecord] /\ Only(k) /\ t = Tail(w)
      /\ frame'[k].pc = "start" /\ frame'[k].op = "none" /\ frame'[k].timer = "off"
      /\ frame'[k].said = "none" /\ frame'[k].busy = frame[k].busy
  <2> DEFINE tail == Tail(frame[k].waiters)
  <2>1. tail \in Seq(Nat)
    BY <1>1
  <2>2. frame' = [frame EXCEPT ![k].waiters = tail, ![k].pc = "start", ![k].op = "none",
                               ![k].timer = "off", ![k].stage = "none", ![k].said = "none"]
    BY DEF Served
  <2> HIDE DEF tail
  <2>3. frame' \in [Kinds -> FrameRecord]
    BY <1>0, <2>1, <2>2, ZenonT(120) DEF FrameRecord
  <2>4. Only(k)
    BY <1>0, <2>2 DEF Only
  <2>5. /\ frame'[k].pc = "start" /\ frame'[k].op = "none" /\ frame'[k].timer = "off"
        /\ frame'[k].said = "none" /\ frame'[k].busy = frame[k].busy
        /\ frame'[k].waiters = tail
    BY <1>0, <2>2 DEF FrameRecord
  <2>6. QED
    BY <2>3, <2>4, <2>5 DEF tail
<1>3. IsTail(w, t)
  <2>1. \A u : u = Tail(w) => IsTail(w, u)
    BY <1>1, Shortened, Zenon
  <2>2. QED
    BY <1>2, <2>1
<1>4. SocketInv(frame'[k])
  BY <1>1, <1>2 DEF SocketInv
<1>5. Resume({w[1]}, value)
  BY <1>3 DEF Served, IsTail
<1>6. /\ req' \in Seq(Request) /\ Len(req') = Len(req)
      /\ \A i \in Ids :
           /\ req'[i].kind = req[i].kind
           /\ req'[i].answers = IF i \in {w[1]} THEN Append(req[i].answers, value)
                                                ELSE req[i].answers
  BY <1>0, <1>5, Resumed
<1>7. Ids' = Ids
  BY <1>6 DEF Ids
<1>8. RestTypes' /\ PoolIdle'
  BY <1>0, <1>2, <1>6 DEF RestIInv, RestTypes, PoolIdle
<1>9. /\ \A n \in 1..Len(w) : w[n] \in Ids /\ req[w[n]].kind = k
      /\ \A m, n \in 1..Len(w) : w[m] = w[n] => m = n
  BY <1>0 DEF QueueInv
<1>a. w = frame[k].waiters /\ t = frame'[k].waiters
  OBVIOUS
<1> HIDE DEF w, t
<1>10. w[1] \in Ids /\ req[w[1]].kind = k /\ w[1] \in Waiting(k) /\ w[1] \notin ToSet(t)
  <2>1. w[1] \in Ids /\ req[w[1]].kind = k
    BY <1>3, <1>9 DEF IsTail
  <2>2. w[1] \in ToSet(w)
    BY <1>3 DEF IsTail
  <2>3. w[1] \notin ToSet(t)
    <3>1. SUFFICES ASSUME w[1] \in ToSet(t) PROVE FALSE
      OBVIOUS
    <3>2. t \in Seq(Nat)
      BY <1>2, <1>a, FrameFields
    <3>3. DOMAIN t = 1..Len(t)
      BY <3>2, LenProperties
    <3>4. PICK n \in 1..Len(t) : w[1] = t[n]
      BY <3>1, <3>3 DEF ToSet
    <3>5. QED
      BY <1>3, <1>9, <3>4 DEF IsTail
  <2>4. QED
    BY <1>a, <2>1, <2>2, <2>3 DEF Waiting
<1>11. ASSUME NEW j \in Kinds PROVE SocketInv(frame'[j]) /\ QueueInv(j)'
  <2>0. SocketInv(frame[j]) /\ QueueInv(j)
    BY DEF RestIInv
  <2>1. CASE j # k
    <3>1. frame'[j] = frame[j]
      BY <1>2, <2>1 DEF Only
    <3>2. SocketInv(frame'[j])
      BY <2>0, <3>1
    <3>3. \A i \in Ids : i \in Ids' /\ req'[i].kind = req[i].kind
      BY <1>6, <1>7
    <3>4. QueueInv(j)'
      BY <2>0, <3>1, <3>3, QueueKept
    <3>5. QED
      BY <3>2, <3>4
  <2>2. CASE j = k
    <3>1. \A n \in 1..Len(t) : t[n] \in Ids' /\ req'[t[n]].kind = k
      BY <1>3, <1>6, <1>7, <1>9, SMTT(30) DEF IsTail
    <3>2. \A m, n \in 1..Len(t) : t[m] = t[n] => m = n
      BY <1>3, <1>9 DEF IsTail
    <3>3. frame'[k].pc # "none" /\ ~(frame'[k].pc \in {"write", "read"})
      BY <1>2
    <3>4. QED
      BY <1>4, <1>a, <2>2, <3>1, <3>2, <3>3 DEF QueueInv
  <2>3. QED
    BY <2>1, <2>2
<1>12. WaitsOrAnswered'
  <2> SUFFICES ASSUME NEW i \in Ids
               PROVE  /\ Len(req'[i].answers) <= 1
                      /\ (req'[i].answers = <<>>) <=> (i \in ToSet(frame'[req[i].kind].waiters))
    BY <1>6, <1>7 DEF WaitsOrAnswered, Waiting
  <2>1. /\ Len(req[i].answers) <= 1
        /\ (req[i].answers = <<>>) <=> (i \in Waiting(req[i].kind))
    BY DEF RestIInv, WaitsOrAnswered
  <2>2. CASE i = w[1]
    <3>1. req[i].kind = k /\ req[i].answers = <<>>
      BY <1>10, <2>1, <2>2
    <3>2. req'[i].answers = Append(<<>>, value)
      BY <1>6, <2>2, <3>1
    <3>3. Len(req'[i].answers) <= 1 /\ req'[i].answers # <<>>
      BY <3>2, ShortSequences
    <3>4. i \notin ToSet(frame'[req[i].kind].waiters)
      BY <1>10, <1>a, <2>2, <3>1
    <3>5. QED
      BY <3>3, <3>4
  <2>3. CASE i # w[1]
    <3>1. req'[i].answers = req[i].answers
      BY <1>6, <2>3
    <3>2. i \in ToSet(frame'[req[i].kind].waiters) <=> i \in Waiting(req[i].kind)
      <4>1. CASE req[i].kind = k
        BY <1>3, <1>a, <2>3, <4>1 DEF Waiting, IsTail
      <4>2. CASE req[i].kind # k
        BY <1>0, <1>2, <4>2, RequestTypes DEF Waiting, Only
      <4>3. QED
        BY <4>1, <4>2
    <3>3. QED
      BY <2>1, <3>1, <3>2
  <2>4. QED
    BY <2>2, <2>3
<1>13. DaemonInv'
  <2>1. relayed' \in SUBSET Ids /\ late' \in SUBSET Ids /\ recorded' \in SUBSET relayed'
    BY DEF RestIInv, DaemonInv
  <2>2. ("submit" \in Kinds => SubmitInv)'
    <3>1. CASE k = "submit"
      <4>1. SubmitInv
        BY <3>1 DEF RestIInv, DaemonInv
      <4>2. \A n \in 1..Len(w) : w[n] \notin late /\ (w[n] \in relayed => n = 1)
        BY <1>a, <3>1, <4>1 DEF SubmitInv
      <4>3. \A n \in 1..Len(t) : t[n] \notin late /\ t[n] \notin relayed
        BY <1>3, <4>2 DEF IsTail
      <4>4. QED
        BY <1>2, <1>a, <3>1, <4>3 DEF SubmitInv
    <3>2. CASE k # "submit"
      BY <1>2, <3>2 DEF RestIInv, DaemonInv, SubmitInv, Only
    <3>3. QED
      BY <3>1, <3>2
  <2>3. ASSUME NEW i \in Ids, req[i].kind = "submit", NEW n \in 1..Len(req'[i].answers)
        PROVE  /\ req'[i].answers[n] = "ok" => i \in relayed
               /\ req'[i].answers[n] = "refused" => i \notin relayed /\ i \notin late
    <3>1. CASE i = w[1]
      <4>1. k = "submit" /\ req[i].answers = <<>>
        BY <1>10, <2>3, <3>1 DEF RestIInv, WaitsOrAnswered
      <4>2. req'[i].answers = Append(<<>>, value)
        BY <1>6, <3>1, <4>1
      <4>3. req'[i].answers[n] = value
        BY <2>3, <4>2, ShortSequences
      <4>4. SubmitInv
        BY <4>1 DEF RestIInv, DaemonInv
      <4>5. i \notin late /\ (frame[k].said = "good" <=> i \in relayed)
        BY <1>1, <1>3, <1>a, <3>1, <4>1, <4>4 DEF SubmitInv, IsTail
      <4>6. QED
        BY <4>1, <4>3, <4>5
    <3>2. CASE i # w[1]
      <4>1. req'[i].answers = req[i].answers
        BY <1>6, <3>2
      <4>2. QED
        BY <2>3, <4>1 DEF RestIInv, DaemonInv
    <3>3. QED
      BY <3>1, <3>2
  <2>4. QED
    BY <1>6, <1>7, <2>1, <2>2, <2>3 DEF DaemonInv
<1>14. QED
  BY <1>8, <1>11, <1>12, <1>13 DEF RestIInv

\* The daemon answers the transaction that is first in the queue, or another
\* request.
LEMMA DaemonAnswers ==
  ASSUME RestIInv, NEW k \in Kinds, daemon_answers(k)
  PROVE  RestIInv'
<1> DEFINE w == frame[k].waiters
<1>0. /\ RestTypes /\ frame \in [Kinds -> FrameRecord] /\ frame[k] \in FrameRecord
      /\ SocketInv(frame[k]) /\ QueueInv(k)
  BY DEF RestIInv, RestTypes
<1>1. frame[k].busy /\ frame[k].said = "none" /\ UNCHANGED <<pool, req, late, recorded>>
  BY DEF daemon_answers
<1>2. PICK a \in {"good", "bad"} :
        /\ frame' = [frame EXCEPT ![k].said = a]
        /\ relayed' = IF k = "submit" /\ a = "good" THEN relayed \cup {frame[k].sent} ELSE relayed
  BY DEF daemon_answers
<1>3. frame' \in [Kinds -> FrameRecord] /\ Only(k)
  <2>1. a \in {"none", "good", "bad"}
    OBVIOUS
  <2>2. QED
    BY <1>0, <1>2, <2>1, Zenon DEF FrameRecord, Only
<1>4. /\ frame'[k].pc = frame[k].pc /\ frame'[k].op = frame[k].op
      /\ frame'[k].busy = frame[k].busy /\ frame'[k].said = a
      /\ frame'[k].sent = frame[k].sent /\ frame'[k].waiters = frame[k].waiters
  BY <1>0, <1>2, Zenon DEF FrameRecord
<1>5. frame[k].pc \in {"write", "read"}
  BY <1>0, <1>1, FrameFields DEF SocketInv
<1>6. SocketInv(frame'[k])
  BY <1>0, <1>4, <1>5 DEF SocketInv
<1>7. /\ w \in Seq(Nat) /\ w # <<>> /\ frame[k].sent = w[1]
      /\ \A n \in 1..Len(w) : w[n] \in Ids /\ req[w[n]].kind = k
      /\ \A m, n \in 1..Len(w) : w[m] = w[n] => m = n
  BY <1>0, <1>5, FrameFields DEF QueueInv
<1>8. 1 \in 1..Len(w) /\ w[1] \in Waiting(k)
  <2>1. \A u : u = Tail(w) => IsTail(w, u)
    BY <1>7, Shortened, Zenon
  <2>2. QED
    BY <2>1 DEF IsTail, Waiting
<1>9. RestTypes' /\ PoolIdle'
  BY <1>0, <1>1, <1>3 DEF RestIInv, RestTypes, PoolIdle
<1>10. ASSUME NEW j \in Kinds PROVE SocketInv(frame'[j]) /\ QueueInv(j)'
  <2>0. SocketInv(frame[j]) /\ QueueInv(j)
    BY DEF RestIInv
  <2>1. CASE j # k
    <3>1. frame'[j] = frame[j]
      BY <1>3, <2>1 DEF Only
    <3>2. QED
      BY <1>1, <2>0, <3>1 DEF QueueInv, Ids
  <2>2. CASE j = k
    BY <1>1, <1>4, <1>6, <2>0, <2>2 DEF QueueInv, Ids
  <2>3. QED
    BY <2>1, <2>2
<1>11. WaitsOrAnswered'
  <2>1. \A j \in Kinds : frame'[j].waiters = frame[j].waiters
    BY <1>3, <1>4 DEF Only
  <2>2. \A i \in Ids : req[i].kind \in Kinds
    BY <1>0, RequestTypes
  <2>3. \A i \in Ids : Waiting(req[i].kind)' = Waiting(req[i].kind)
    BY <1>1, <2>1, <2>2 DEF Waiting, ToSet
  <2>4. QED
    BY <1>1, <2>3 DEF RestIInv, WaitsOrAnswered, Ids
<1>12. DaemonInv'
  <2>0. DaemonInv /\ WaitsOrAnswered
    BY DEF RestIInv
  <2>1. CASE k # "submit"
    <3>1. frame'["submit"] = frame["submit"] \/ "submit" \notin Kinds
      BY <1>3, <2>1 DEF Only
    <3>2. relayed' = relayed
      BY <1>2, <2>1
    <3>3. QED
      BY <1>1, <2>0, <3>1, <3>2, SMTT(30) DEF DaemonInv, SubmitInv, Ids
  <2>2. CASE k = "submit"
    <3>1. /\ \A n \in 1..Len(w) : w[n] \notin late /\ w[n] \notin relayed
      BY <1>1, <2>0, <2>2 DEF DaemonInv, SubmitInv
    <3>2. relayed' = (IF a = "good" THEN relayed \cup {w[1]} ELSE relayed) /\ w[1] \in Ids
      BY <1>2, <1>7, <1>8, <2>2
    <3>3. relayed' \in SUBSET Ids' /\ late' \in SUBSET Ids' /\ recorded' \in SUBSET relayed'
      BY <1>1, <2>0, <3>2 DEF DaemonInv, Ids
    <3>4. SubmitInv'
      <4>1. ASSUME NEW n \in 1..Len(w)
            PROVE  w[n] \notin late /\ (w[n] \in relayed' => n = 1 /\ a = "good")
        BY <1>7, <1>8, <3>1, <3>2
      <4>2. a = "good" => w[1] \in relayed'
        BY <3>2
      <4>3. QED
        BY <1>1, <1>4, <1>7, <2>2, <4>1, <4>2 DEF SubmitInv
    <3>5. req[w[1]].answers = <<>>
      BY <1>7, <1>8, <2>0 DEF WaitsOrAnswered
    <3>6. ASSUME NEW i \in Ids, req[i].kind = "submit", NEW n \in 1..Len(req[i].answers)
          PROVE  /\ req[i].answers[n] = "ok" => i \in relayed'
                 /\ req[i].answers[n] = "refused" => i \notin relayed' /\ i \notin late
      <4>1. i # w[1]
        BY <3>5, <3>6, ShortSequences
      <4>2. QED
        BY <2>0, <3>2, <3>6, <4>1 DEF DaemonInv
    <3>7. QED
      BY <1>1, <3>3, <3>4, <3>6 DEF DaemonInv, Ids
  <2>3. QED
    BY <2>1, <2>2
<1>13. QED
  BY <1>9, <1>10, <1>11, <1>12 DEF RestIInv

\* A transaction nobody waits for is relayed late, or not.
LEMMA DaemonLate ==
  ASSUME RestIInv, NEW i \in Ids, daemon_late(i)
  PROVE  RestIInv'
<1>1. /\ i \in late /\ late' = late \ {i} /\ (relayed' = relayed \/ relayed' = relayed \cup {i})
      /\ UNCHANGED <<frame, pool, req, recorded>>
  BY DEF daemon_late
<1>2. /\ RestTypes' /\ PoolIdle' /\ WaitsOrAnswered'
      /\ \A k \in Kinds : SocketInv(frame'[k]) /\ QueueInv(k)'
  BY <1>1 DEF RestIInv, RestTypes, PoolIdle, WaitsOrAnswered, Waiting, QueueInv, Ids
<1>3. DaemonInv'
  BY <1>1 DEF RestIInv, DaemonInv, SubmitInv, Ids
<1>4. QED
  BY <1>2, <1>3 DEF RestIInv

\* A frame that nobody waits for ends and its socket goes to the pool.
LEMMA Finished ==
  ASSUME RestIInv, NEW k \in Kinds, finish(k)
  PROVE  RestIInv' /\ pool' = Append(pool, FALSE)
<1>1. /\ frame[k].pc = "start" /\ frame[k].waiters = <<>> /\ frame' = [frame EXCEPT ![k] = NoFrame]
      /\ pool' = Append(pool, frame[k].busy) /\ UNCHANGED <<req, relayed, late, recorded>>
  BY DEF finish, store_async_client
<1>2. pool' = Append(pool, FALSE)
  BY <1>1 DEF RestIInv, SocketInv
<1>3. Waiting(k) = {}
  BY <1>1, ShortSequences DEF Waiting
<1>4. Resume(Waiting(k), "timeout")
  <2>1. req \in Seq(Request)
    BY DEF RestIInv, RestTypes
  <2>2. req = [i \in 1..Len(req) |-> req[i]]
    BY <2>1, LenProperties
  <2>3. QED
    BY <1>1, <1>3, <2>2 DEF Resume, Ids
<1>5. "timeout" \in Answers /\ late' \in SUBSET (late \cup Waiting("submit")) /\ late' = late
  BY <1>1 DEF Answers
<1>6. RestIInv'
  BY <1>1, <1>2, <1>4, <1>5, AllAnswered
<1>7. QED
  BY <1>2, <1>6

\* The message is out: the reply is awaited, or the time-out was first.
LEMMA Wrote ==
  ASSUME RestIInv, NEW k \in Kinds, wrote(k)
  PROVE  RestIInv'
<1>1. CASE frame[k].timer = "armed"
  <2>0. /\ frame \in [Kinds -> FrameRecord] /\ frame[k] \in FrameRecord
        /\ SocketInv(frame[k]) /\ QueueInv(k)
    BY DEF RestIInv, RestTypes
  <2>1. /\ frame[k].pc = "write" /\ frame' = [frame EXCEPT ![k].pc = "read", ![k].op = "pending"]
        /\ UNCHANGED <<pool, req, relayed, late, recorded>>
    BY <1>1 DEF wrote
  <2>2. frame' \in [Kinds -> FrameRecord] /\ Only(k)
    BY <2>0, <2>1, Zenon DEF FrameRecord, Only
  <2>3. /\ frame'[k].pc = "read" /\ frame'[k].op = "pending"
        /\ frame'[k].said = frame[k].said /\ frame'[k].sent = frame[k].sent
        /\ frame'[k].waiters = frame[k].waiters
    BY <2>0, <2>1, Zenon DEF FrameRecord
  <2>4. SocketInv(frame'[k])
    BY <2>3 DEF SocketInv
  <2>5. frame[k].waiters # <<>> /\ frame'[k].sent = frame[k].waiters[1]
    BY <2>0, <2>1, <2>3 DEF QueueInv
  <2>6. QED
    BY <2>1, <2>2, <2>3, <2>4, <2>5, FrameStep
<1>2. CASE frame[k].timer # "armed"
  <2>1. Fail(k, "timeout")
    BY <1>2 DEF wrote
  <2>2. QED
    BY <2>1, Failed
<1>3. QED
  BY <1>1, <1>2

\* The next exchange for the rings of a request.
LEMMA RingsNext ==
  ASSUME RestIInv, rings_next
  PROVE  RestIInv'
<1> DEFINE k == "rings"
<1>1. k \in Kinds /\ Replied(k) /\ UNCHANGED <<pool, req, relayed, late, recorded>>
  BY DEF rings_next
<1>2. PICK s \in Follows(frame[k]) : Write(k, s)
  BY DEF rings_next
<1>3. s \in {"histogram", "distribution", "keys", "call"}
  BY DEF Follows
<1>4. frame[k].waiters # <<>>
  BY <1>1 DEF RestIInv, QueueInv, Replied
<1>5. /\ frame' \in [Kinds -> FrameRecord] /\ Only(k)
      /\ frame'[k].pc = "write" /\ frame'[k].op = "pending" /\ frame'[k].said = "none"
      /\ frame'[k].waiters = frame[k].waiters /\ frame'[k].sent = frame[k].waiters[1]
  BY <1>1, <1>2, <1>3, <1>4, WriteFields
<1>6. SocketInv(frame'[k])
  BY <1>5 DEF SocketInv
<1>7. k # "submit"
  OBVIOUS
<1> HIDE DEF k
<1>8. QED
  BY <1>1, <1>4, <1>5, <1>6, <1>7, FrameStep

\* A connection hands its request to an endpoint: a frame under way takes it,
\* or a new one with the socket stored last.
LEMMA TakenStep ==
  ASSUME RestIInv, NEW c \in Conn, NEW k \in Kinds, join(c, k) \/ start(c, k)
  PROVE  RestIInv' /\ ~(Len(pool') > Len(pool))
<1>0. /\ frame \in [Kinds -> FrameRecord] /\ frame[k] \in FrameRecord /\ pool \in Seq(BOOLEAN)
      /\ Len(req) \in Nat /\ SocketInv(frame[k]) /\ QueueInv(k) /\ PoolIdle
  BY RequestTypes DEF RestIInv, RestTypes
<1>1. req' = Append(req, [kind |-> k, answers |-> <<>>]) /\ UNCHANGED <<relayed, late, recorded>>
  BY DEF join, start, Taken
<1>2. CASE join(c, k)
  <2> DEFINE v == Append(frame[k].waiters, Len(req) + 1)
  <2>1. /\ frame[k].pc # "none" /\ pool' = pool
        /\ frame' = [frame EXCEPT ![k].waiters = v]
    BY <1>2 DEF join
  <2>2. v \in Seq(Nat)
    BY <1>0, FrameFields
  <2> HIDE DEF v
  <2>3. frame' \in [Kinds -> FrameRecord] /\ Only(k)
    BY <1>0, <2>1, <2>2, Zenon DEF FrameRecord, Only
  <2>4. /\ frame'[k].pc = frame[k].pc /\ frame'[k].op = frame[k].op
        /\ frame'[k].timer = frame[k].timer /\ frame'[k].busy = frame[k].busy
        /\ frame'[k].said = frame[k].said /\ frame'[k].sent = frame[k].sent
        /\ frame'[k].waiters = v
    BY <1>0, <2>1, Zenon DEF FrameRecord
  <2>5. SocketInv(frame'[k])
    BY <1>0, <2>4 DEF SocketInv
  <2>6. frame'[k].pc \in {"write", "read"} =>
          frame[k].waiters # <<>> /\ frame'[k].sent = frame[k].waiters[1]
    BY <1>0, <2>4 DEF QueueInv
  <2>7. pool' \in Seq(BOOLEAN) /\ PoolIdle'
    BY <1>0, <2>1 DEF PoolIdle
  <2>8. frame'[k].waiters = Append(frame[k].waiters, Len(req) + 1) /\ frame'[k].pc # "none"
    BY <2>1, <2>4 DEF v
  <2>9. RestIInv'
    BY <1>1, <2>3, <2>4, <2>5, <2>6, <2>7, <2>8, Joins
  <2>10. QED
    BY <1>0, <2>1, <2>9
<1>3. CASE start(c, k)
  <2> DEFINE b == IF pool = <<>> THEN FALSE ELSE Last(pool)
             w == <<Len(req) + 1>>
             g == [NoFrame EXCEPT !.pc = "start", !.waiters = w, !.busy = b]
  <2>1. /\ frame[k].pc = "none" /\ pool' = (IF pool = <<>> THEN pool ELSE Front(pool))
        /\ frame' = [frame EXCEPT ![k] = g]
    BY <1>3 DEF start
  <2>2. b = FALSE
    BY <1>0 DEF PoolIdle, Last
  <2>3. w \in Seq(Nat)
    BY <1>0
  <2>4. frame[k].waiters = <<>> /\ frame[k].said = "none"
    BY <1>0, <2>1 DEF QueueInv, SocketInv
  <2>5. w = Append(frame[k].waiters, Len(req) + 1)
    BY <2>4
  <2> HIDE DEF b, w
  <2>6. NoFrame.op = "none" /\ NoFrame.timer = "off" /\ NoFrame.said = "none"
    BY DEF NoFrame
  <2>7. g \in FrameRecord
    BY <2>2, <2>3, NoFrameType, Zenon DEF FrameRecord
  <2>8. /\ g.pc = "start" /\ g.op = "none" /\ g.timer = "off" /\ g.waiters = w /\ g.busy = FALSE
        /\ g.said = "none"
    BY <2>2, <2>6, NoFrameType, Zenon DEF FrameRecord
  <2> HIDE DEF g
  <2>9. frame' \in [Kinds -> FrameRecord] /\ Only(k) /\ frame'[k] = g
    BY <1>0, <2>1, <2>7 DEF Only
  <2>10. SocketInv(frame'[k])
    BY <2>8, <2>9 DEF SocketInv
  <2>11. pool' \in Seq(BOOLEAN) /\ PoolIdle' /\ ~(Len(pool') > Len(pool))
    BY <1>0, <2>1, PoolTaken DEF PoolIdle
  <2>12. /\ frame'[k].waiters = Append(frame[k].waiters, Len(req) + 1)
         /\ frame'[k].pc = "start" /\ frame'[k].said = "none"
    BY <2>5, <2>8, <2>9
  <2>13. RestIInv'
    BY <1>1, <2>4, <2>9, <2>10, <2>11, <2>12, Joins
  <2>14. QED
    BY <2>11, <2>13
<1>4. QED
  BY <1>2, <1>3

-----------------------------------------------------------------------------
(* The server.                                                             *)

\* The server starts without frames, sockets and requests.
LEMMA RestStarts == RestInit => RestIInv
<1> SUFFICES ASSUME RestInit PROVE RestIInv
  OBVIOUS
<1>1. \A k \in Kinds : frame[k] = NoFrame
  BY DEF RestInit
<1>2. RestTypes
  BY NoFrameType, EmptySeq DEF RestInit, RestTypes
<1>3. 1..Len(<<>>) = {} /\ DOMAIN <<>> = {}
  BY EmptySeq
<1>4. Ids = {} /\ DOMAIN pool = {}
  BY <1>3 DEF RestInit, Ids
<1>5. ASSUME NEW k \in Kinds PROVE SocketInv(frame[k]) /\ QueueInv(k)
  <2>1. frame[k] = NoFrame
    BY <1>1
  <2>2. NoFrame.waiters = <<>> /\ NoFrame.pc = "none" /\ SocketInv(NoFrame)
    BY DEF NoFrame, SocketInv
  <2>3. QED
    BY <1>3, <2>1, <2>2 DEF QueueInv
<1>6. PoolIdle /\ WaitsOrAnswered
  BY <1>4 DEF PoolIdle, WaitsOrAnswered
<1>7. DaemonInv
  <2>1. "submit" \in Kinds => SubmitInv
    BY <1>1, <1>3 DEF SubmitInv, NoFrame
  <2>2. QED
    BY <1>4, <2>1 DEF RestInit, DaemonInv
<1>8. QED
  BY <1>2, <1>5, <1>6, <1>7 DEF RestIInv

\* Every handler keeps the invariant, and only a frame without a time-out that
\* is queued stores its socket.
LEMMA RestSteps ==
  ASSUME RestIInv, [RestNext]_restVars
  PROVE  /\ RestIInv'
         /\ \A k \in Kinds : Len(pool') > Len(pool) /\ frame[k] # frame'[k]
                               => frame[k].timer # "fired"
<1> DEFINE Stored == \A k \in Kinds : Len(pool') > Len(pool) /\ frame[k] # frame'[k]
                                         => frame[k].timer # "fired"
<1>0. pool \in Seq(BOOLEAN) /\ ~(Len(pool) > Len(pool))
  BY DEF RestIInv, RestTypes
<1>1. pool' = pool => Stored
  BY <1>0
<1>2. ASSUME NEW k \in Kinds, HandlerNext(k) PROVE RestIInv' /\ Stored
  <2>1. CASE begin(k) \/ expire(k) \/ on_timeout(k)
    <3>1. pool' = pool
      BY <2>1 DEF begin, expire, on_timeout
    <3>2. QED
      BY <1>1, <2>1, <3>1, ExchangeStep
  <2>2. CASE finish(k)
    <3>1. /\ frame[k].timer # "fired" /\ \A j \in Kinds : j # k => frame'[j] = frame[j]
      BY <2>2 DEF finish, RestIInv, SocketInv, RestTypes
    <3>2. QED
      BY <2>2, <3>1, Finished
  <2>3. CASE io_error(k)
    <3>1. Fail(k, "timeout") /\ pool' = pool
      BY <2>3 DEF io_error, Fail
    <3>2. QED
      BY <1>1, <3>1, Failed
  <2>4. CASE wrote(k)
    <3>1. pool' = pool
      BY <2>4 DEF wrote, Fail
    <3>2. QED
      BY <1>1, <2>4, <3>1, Wrote
  <2>5. CASE replied_late(k)
    <3>1. Fail(k, "timeout") /\ pool' = pool
      BY <2>5 DEF replied_late, Fail
    <3>2. QED
      BY <1>1, <3>1, Failed
  <2>6. QED
    BY <1>2, <2>1, <2>2, <2>3, <2>4, <2>5 DEF HandlerNext
<1>3. ASSUME NEW k \in Kinds, socket(k) \/ daemon_answers(k) \/ age(k) PROVE RestIInv' /\ Stored
  <2>1. pool' = pool
    BY <1>3 DEF socket, daemon_answers, age
  <2>2. CASE socket(k)
    BY <1>1, <2>1, <2>2, ExchangeStep
  <2>3. CASE daemon_answers(k)
    BY <1>1, <2>1, <2>3, DaemonAnswers
  <2>4. CASE age(k)
    BY <1>1, <2>1, <2>4, OutsideStep DEF age
  <2>5. QED
    BY <1>3, <2>2, <2>3, <2>4
<1>4. ASSUME ReplyNext PROVE RestIInv' /\ Stored
  <2>1. ASSUME NEW k \in {"status", "fees"}, k \in Kinds, Replied(k), AnswerAll(k)
        PROVE  RestIInv' /\ Stored
    <3>1. /\ frame[k].timer = "armed" /\ \A j \in Kinds : j # k => frame'[j] = frame[j]
      BY <2>1 DEF Replied, AnswerAll, RestIInv, RestTypes
    <3>2. RestIInv'
      BY <2>1, AnsweredAll
    <3>3. QED
      BY <3>1, <3>2
  <2>2. CASE status_reply \/ fees_reply
    BY <2>1, <2>2 DEF status_reply, fees_reply
  <2>3. CASE submit_reply
    <3> DEFINE k == "submit"
               value == IF frame[k].said = "good" THEN "ok" ELSE "refused"
    <3>1. /\ k \in Kinds /\ Replied(k) /\ Served(k, value) /\ UNCHANGED <<pool, relayed, late>>
          /\ value \in Answers
      BY <2>3 DEF submit_reply, Answers
    <3>2. recorded' \in SUBSET relayed
      <4>1. recorded \in SUBSET relayed /\ SubmitInv /\ QueueInv(k)
        BY <3>1 DEF RestIInv, DaemonInv
      <4>2. /\ frame[k] \in FrameRecord /\ frame[k].waiters # <<>> /\ frame[k].sent = frame[k].waiters[1]
        BY <3>1, <4>1 DEF QueueInv, Replied, RestIInv, RestTypes
      <4>3. Head(frame[k].waiters) = frame[k].sent
        BY <4>2, FrameFields
      <4>4. frame[k].said = "good" => Head(frame[k].waiters) \in relayed
        BY <4>1, <4>3 DEF SubmitInv
      <4>5. QED
        BY <2>3, <4>1, <4>4 DEF submit_reply
    <3>3. k = "submit" => value = IF frame[k].said = "good" THEN "ok" ELSE "refused"
      OBVIOUS
    <3> HIDE DEF k, value
    <3>4. RestIInv'
      BY <3>1, <3>2, <3>3, ServedStep
    <3>5. QED
      BY <1>1, <3>1, <3>4
  <2>4. CASE rings_next
    <3>1. pool' = pool
      BY <2>4 DEF rings_next
    <3>2. QED
      BY <1>1, <2>4, <3>1, RingsNext
  <2>5. CASE rings_reply
    <3> DEFINE k == "rings"
    <3>1. /\ k \in Kinds /\ Served(k, "ok") /\ k # "submit" /\ "ok" \in Answers
          /\ Replied(k) \/ (frame[k].pc = "start" /\ frame[k].waiters # <<>>)
          /\ UNCHANGED <<pool, relayed, late, recorded>>
      BY <2>5 DEF rings_reply, Answers
    <3>2. recorded' \in SUBSET relayed
      BY <3>1 DEF RestIInv, DaemonInv
    <3> HIDE DEF k
    <3>3. QED
      BY <1>1, <3>1, <3>2, ServedStep
  <2>6. CASE rings_invalid
    <3> DEFINE k == "rings"
    <3>1. k \in Kinds /\ Fail(k, "invalid") /\ k # "submit" /\ pool' = pool
      BY <2>6 DEF rings_invalid, Fail
    <3> HIDE DEF k
    <3>2. QED
      BY <1>1, <3>1, Failed
  <2>7. QED
    BY <1>4, <2>2, <2>3, <2>4, <2>5, <2>6 DEF ReplyNext
<1>5. ASSUME NEW i \in Ids, daemon_late(i) PROVE RestIInv' /\ Stored
  <2>1. pool' = pool
    BY <1>5 DEF daemon_late
  <2>2. QED
    BY <1>1, <1>5, <2>1, DaemonLate
<1>6. ASSUME NEW c \in Conn, ConnNext(c) \/ accept(c) \/ peer(c) \/ immediate(c)
      PROVE  RestIInv' /\ Stored
  <2>1. UNCHANGED <<frame, pool, req, relayed, late, recorded>>
    BY <1>6 DEF ConnNext, conn_expire, conn_on_timeout, conn_error, next_request, requested_late,
                respond, accept, peer, immediate
  <2>2. QED
    BY <1>1, <2>1, OutsideStep
<1>7. ASSUME NEW c \in Conn,
             daemon_status(c) \/ get_unspent_outs(c) \/ get_random_outs(c) \/ submit_raw_tx(c)
      PROVE  RestIInv' /\ Stored
  <2>1. PICK k \in Kinds : join(c, k) \/ start(c, k)
    BY <1>7 DEF daemon_status, get_unspent_outs, get_random_outs, submit_raw_tx
  <2>2. QED
    BY <2>1, TakenStep
<1>8. CASE UNCHANGED restVars
  BY <1>1, <1>8, OutsideStep DEF restVars
<1>9. QED
  BY <1>2, <1>3, <1>4, <1>5, <1>6, <1>7, <1>8 DEF RestNext

\* The invariant of the server.
LEMMA RestInductive == RestSpec => []RestIInv
<1>1. RestIInv /\ [RestNext]_restVars => RestIInv'
  BY RestSteps
<1>2. QED
  BY <1>1, RestStarts, PTL DEF RestSpec

\* A client that asks the daemon through the server waits in exactly one queue
\* until it gets its one answer, whoever joins and whatever times out
\* (rest_server.cpp, the resumers of async_handler).
THEOREM AnsweredOnce == RestSpec => []WaitsOrAnswered
<1>1. RestIInv => WaitsOrAnswered
  BY DEF RestIInv
<1>2. QED
  BY <1>1, RestInductive, PTL

\* No socket with a reply outstanding reaches the pool (store_async_client).
THEOREM SocketsIdle == RestSpec => []PoolIdle
<1>1. RestIInv => PoolIdle
  BY DEF RestIInv
<1>2. QED
  BY <1>1, RestInductive, PTL

\* The answer of /submit_raw_tx is about the transaction of the request, and
\* the pending spends are of transactions the daemon relayed.
THEOREM TransactionsOwn == RestSpec => []OwnTransaction
<1>1. RestIInv => OwnTransaction
  <2> SUFFICES ASSUME RestIInv PROVE OwnTransaction
    OBVIOUS
  <2>1. \A i \in Ids : DOMAIN req[i].answers = 1..Len(req[i].answers)
    BY RequestTypes, LenProperties DEF RestIInv
  <2>2. QED
    BY <2>1 DEF RestIInv, DaemonInv, OwnTransaction
<1>2. QED
  BY <1>1, RestInductive, PTL

\* A frame gives its socket away only while no handler of its timer is queued.
THEOREM StoresInTime == RestSpec => StoreUnlessFired
<1>1. RestIInv /\ [RestNext]_restVars =>
        [\A k \in Kinds : Len(pool') > Len(pool) /\ frame[k] # frame'[k]
                            => frame[k].timer # "fired"]_restVars
  BY RestSteps
<1>2. QED
  BY <1>1, RestInductive, PTL DEF RestSpec, StoreUnlessFired
=============================================================================
