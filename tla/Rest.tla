-------------------------------- MODULE Rest --------------------------------
(***************************************************************************)
(* The REST server (src/src/rest_server.cpp): connections, the endpoints   *)
(* that ask the daemon over ZeroMQ, and the requests that share one such   *)
(* exchange.                                                               *)
(*                                                                         *)
(* A handler of Boost.Asio is one action.  An operation that was started   *)
(* is pending until its completion ("ok" or "error") is queued in a        *)
(* strand; an armed timer is fired once its handler is queued.  Completion *)
(* and time-out of one object may be queued together, in either order, and *)
(* the number returned by expires_after and cancel tells which: it is not  *)
(* zero exactly when the timer was still armed.                            *)
(*                                                                         *)
(* A frame whose coroutine has ended may have a time-out queued, which     *)
(* touches only the socket the frame kept; it is forgotten.  Lengths of    *)
(* time are left out: an armed timer may fire and a cache may age at any   *)
(* moment.  What the endpoints compute is in other modules.                *)
(***************************************************************************)
EXTENDS Integers, Sequences, FiniteSets, SequencesExt

CONSTANTS
  Conn,          \* connections open at a time
  Kinds,         \* endpoints in use, of Coalesced \cup Queued
  MaxTries,      \* attempts of pick_random_outputs, 64 in the code
  MaxRequests    \* bound: requests for these endpoints

Coalesced == {"status", "fees"}    \* /daemon_status, /get_unspent_outs
Queued == {"rings", "submit"}      \* /get_random_outs, /submit_raw_tx

ASSUME RestAssumption ==
  /\ Kinds \subseteq Coalesced \cup Queued
  /\ MaxRequests \in Nat /\ MaxTries \in Nat \ {0}

VARIABLES
  conn,       \* rest_server::connection and its handler_loop
  frame,      \* per endpoint: the frame in cache.status and its async_handler
  fresh,      \* per coalesced endpoint: cache.result holds and is young enough
  pool,       \* rest_server_data::clients; TRUE: a reply is outstanding
  req,        \* requests taken by an asynchronous endpoint, in order
  relayed,    \* external: transactions the daemon relayed
  late,       \* external: transactions at the daemon with nobody waiting
  recorded    \* requests whose pending spends are in the table

restVars == <<conn, frame, fresh, pool, req, relayed, late, recorded>>

Ids == 1..Len(req)
NoConn == [pc |-> "free", op |-> "none", timer |-> "off", keep |-> TRUE, id |-> 0]
NoFrame == [pc |-> "none", op |-> "none", timer |-> "off", waiters |-> <<>>,
            busy |-> FALSE, stage |-> "none", tries |-> 0, sent |-> 0, said |-> "none"]

\* What a client may be told.  "default" is the empty status of /daemon_status.
Answers == {"ok", "default", "refused", "invalid", "timeout"}

\* The exchanges a request for rings needs, in this order.  The distribution
\* is skipped while the coroutine has a young one, the histogram when every
\* amount is zero; keys are asked for again when an output was locked or
\* picked twice.
Stages(k) == IF k = "rings" THEN {"histogram", "distribution", "keys"} ELSE {"call"}
Follows(f) == CASE f.stage = "histogram" -> {"distribution", "keys"}
                [] f.stage = "distribution" -> {"keys"}
                [] OTHER -> IF f.tries < MaxTries THEN {"keys"} ELSE {}

-----------------------------------------------------------------------------
(* Answers.                                                                *)

\* Mutant: the error answers only the request in flight.
ResumeFirst(ids, value) ==
  req' = [i \in Ids |-> IF i \in ids /\ \A j \in ids : i <= j
                        THEN [req[i] EXCEPT !.answers = Append(@, value)] ELSE req[i]]

\* Every resumer is called with value, in the order of the requests.
Resume(ids, value) ==
  req' = [i \in Ids |-> IF i \in ids THEN [req[i] EXCEPT !.answers = Append(@, value)]
                        ELSE req[i]]

Waiting(k) == ToSet(frame[k].waiters)

\* Mutant: a socket goes back to the pool also after an error.
FailStored(k, value) ==
  /\ Resume(Waiting(k), IF k = "status" THEN "default" ELSE value)
  /\ frame' = [frame EXCEPT ![k] = NoFrame]
  /\ fresh' = [fresh EXCEPT ![k] = (k = "status")]
  /\ late' = IF k = "submit" /\ frame[k].busy /\ frame[k].said = "none"
             THEN late \cup {frame[k].sent} ELSE late
  /\ pool' = Append(pool, frame[k].busy)
  /\ UNCHANGED <<relayed, recorded>>

\* send_response with an error.  /daemon_status answers, and caches, a
\* default response.  The socket goes with the frame; a transaction that was
\* sent may still be relayed.
Fail(k, value) ==
  /\ Resume(Waiting(k), IF k = "status" THEN "default" ELSE value)
  /\ frame' = [frame EXCEPT ![k] = NoFrame]
  /\ fresh' = [fresh EXCEPT ![k] = (k = "status")]
  /\ late' = IF k = "submit" /\ frame[k].busy /\ frame[k].said = "none"
             THEN late \cup {frame[k].sent} ELSE late
  /\ UNCHANGED <<pool, relayed, recorded>>

store_async_client(k) == pool' = Append(pool, frame[k].busy)

-----------------------------------------------------------------------------
(* One exchange with the daemon.                                           *)

\* The coroutine starts, or has another request: write under a time-out.
Write(k, s) ==
  frame' = [frame EXCEPT ![k].pc = "write", ![k].op = "pending", ![k].timer = "armed",
                         ![k].stage = s,
                         ![k].tries = IF s = frame[k].stage THEN @ + 1 ELSE 1, ![k].sent = Head(frame[k].waiters),
                         ![k].said = "none"]

begin(k) ==
  /\ frame[k].pc = "start"
  /\ frame[k].waiters # <<>>
  /\ \E s \in Stages(k) : Write(k, s)
  /\ UNCHANGED <<conn, fresh, pool, req, relayed, late, recorded>>

\* Queued endpoints end when nobody waits; the mutex is held, so that a
\* request comes either before and is served, or after and finds no frame.
finish(k) ==
  /\ frame[k].pc = "start"
  /\ frame[k].waiters = <<>>
  /\ store_async_client(k)
  /\ frame' = [frame EXCEPT ![k] = NoFrame]
  /\ UNCHANGED <<conn, fresh, req, relayed, late, recorded>>

\* External: ZeroMQ takes the message, delivers the reply, or reports an
\* error.  A REQ socket with a reply outstanding takes no message (EFSM).
socket(k) ==
  /\ frame[k].op = "pending"
  /\ \/ /\ frame[k].pc = "write" /\ ~frame[k].busy
        /\ frame' = [frame EXCEPT ![k].op = "ok", ![k].busy = TRUE]
     \/ /\ frame[k].pc = "read" /\ frame[k].said # "none"
        /\ frame' = [frame EXCEPT ![k].op = "ok", ![k].busy = FALSE]
     \/ frame' = [frame EXCEPT ![k].op = "error"]
  /\ UNCHANGED <<conn, fresh, pool, req, relayed, late, recorded>>

\* External: the daemon answers; for a transaction, it relays it or not.
daemon_answers(k) ==
  /\ frame[k].busy /\ frame[k].said = "none"
  /\ \E a \in {"good", "bad"} :
       /\ frame' = [frame EXCEPT ![k].said = a]
       /\ relayed' = IF k = "submit" /\ a = "good" THEN relayed \cup {frame[k].sent}
                     ELSE relayed
  /\ UNCHANGED <<conn, fresh, pool, req, late, recorded>>

\* External: the daemon gets to a message whose sender has given up.
daemon_late(i) ==
  /\ i \in late
  /\ late' = late \ {i}
  /\ relayed' \in {relayed, relayed \cup {i}}
  /\ UNCHANGED <<conn, frame, fresh, pool, req, recorded>>

expire(k) ==
  /\ frame[k].timer = "armed"
  /\ frame' = [frame EXCEPT ![k].timer = "fired"]
  /\ UNCHANGED <<conn, fresh, pool, req, relayed, late, recorded>>

\* Mutant: the operation is not cancelled.
on_timeout_kept(k) ==
  /\ frame[k].timer = "fired"
  /\ frame' = [frame EXCEPT ![k].timer = "off"]
  /\ UNCHANGED <<conn, fresh, pool, req, relayed, late, recorded>>

\* close is set and the descriptor cancelled: a pending operation is aborted,
\* a completion that is queued already is not.
on_timeout(k) ==
  /\ frame[k].timer = "fired"
  /\ frame' = [frame EXCEPT ![k].timer = "off",
                            ![k].op = IF @ = "pending" THEN "error" ELSE @]
  /\ UNCHANGED <<conn, fresh, pool, req, relayed, late, recorded>>

io_error(k) ==
  /\ frame[k].op = "error"
  /\ Fail(k, "timeout")
  /\ UNCHANGED conn

\* The message is out.  set_timeout fails when the timer is not armed any more.
wrote(k) ==
  /\ frame[k].pc = "write" /\ frame[k].op = "ok"
  /\ IF frame[k].timer = "armed"
     THEN /\ frame' = [frame EXCEPT ![k].pc = "read", ![k].op = "pending"]
          /\ UNCHANGED <<fresh, pool, req, relayed, late, recorded>>
     ELSE Fail(k, "timeout")
  /\ UNCHANGED conn

\* Mutant: the result of timer.cancel() is ignored.
RepliedAnyhow(k) == frame[k].pc = "read" /\ frame[k].op = "ok"

\* The reply is in, and the timer was cancelled in time.
Replied(k) == frame[k].pc = "read" /\ frame[k].op = "ok" /\ frame[k].timer = "armed"

replied_late(k) ==
  /\ frame[k].pc = "read" /\ frame[k].op = "ok" /\ frame[k].timer # "armed"
  /\ Fail(k, "timeout")
  /\ UNCHANGED conn

\* send_response without an error, where one exchange answers everybody who
\* waits: the socket is stored, and only a reply that could be parsed is cached.
AnswerAll(k) ==
  /\ store_async_client(k)
  /\ Resume(Waiting(k), IF frame[k].said = "good" THEN "ok" ELSE "invalid")
  /\ frame' = [frame EXCEPT ![k] = NoFrame]
  /\ fresh' = [fresh EXCEPT ![k] = (frame[k].said = "good")]
  /\ UNCHANGED <<conn, relayed, late, recorded>>

\* The state of the daemon goes to every client.
status_reply == "status" \in Kinds /\ Replied("status") /\ AnswerAll("status")

\* The fee estimate goes into the response of every client.
fees_reply == "fees" \in Kinds /\ Replied("fees") /\ AnswerAll("fees")

\* Mutant: the youngest request is taken for the one that was sent.
ServedLast(k, value) ==
  /\ Resume({Last(frame[k].waiters)}, value)
  /\ frame' = [frame EXCEPT ![k].waiters = Front(@), ![k].pc = "start", ![k].op = "none",
                            ![k].timer = "off", ![k].stage = "none", ![k].said = "none"]

\* The first request is answered and removed; the loop goes on.
Served(k, value) ==
  /\ Resume({Head(frame[k].waiters)}, value)
  /\ frame' = [frame EXCEPT ![k].waiters = Tail(@), ![k].pc = "start", ![k].op = "none",
                            ![k].timer = "off", ![k].stage = "none", ![k].said = "none"]

\* /submit_raw_tx: pending spends are recorded once the daemon has relayed,
\* which may fail and is only logged.
submit_reply ==
  LET k == "submit" IN
  /\ k \in Kinds
  /\ Replied(k)
  /\ Served(k, IF frame[k].said = "good" THEN "ok" ELSE "refused")
  /\ recorded' \in IF frame[k].said = "good"
                   THEN {recorded, recorded \cup {Head(frame[k].waiters)}} ELSE {recorded}
  /\ UNCHANGED <<conn, fresh, pool, relayed, late>>

\* /get_random_outs: the next exchange.
rings_next ==
  LET k == "rings" IN
  /\ k \in Kinds
  /\ Replied(k) /\ frame[k].said = "good"
  /\ \E s \in Follows(frame[k]) : Write(k, s)
  /\ UNCHANGED <<conn, fresh, pool, req, relayed, late, recorded>>

\* The rings: after the keys, or without them when no ring needs any, and
\* without any exchange when there is nothing to ask for.
rings_reply ==
  LET k == "rings" IN
  /\ k \in Kinds
  /\ \/ Replied(k) /\ frame[k].said = "good"
     \/ frame[k].pc = "start" /\ frame[k].waiters # <<>>
  /\ Served(k, "ok")
  /\ UNCHANGED <<conn, fresh, pool, relayed, late, recorded>>

\* A reply that is not as expected, or too few outputs after 64 attempts,
\* ends the coroutine like an I/O error.
rings_invalid ==
  LET k == "rings" IN
  /\ k \in Kinds
  /\ Replied(k)
  /\ frame[k].said = "bad" \/ (frame[k].stage = "keys" /\ frame[k].tries = MaxTries)
  /\ Fail(k, "invalid")
  /\ UNCHANGED conn

\* The cached result is five seconds old.
age(k) ==
  /\ fresh[k]
  /\ fresh' = [fresh EXCEPT ![k] = FALSE]
  /\ UNCHANGED <<conn, frame, pool, req, relayed, late, recorded>>

-----------------------------------------------------------------------------
(* Connections.                                                            *)

\* async_read of the next request under the request time-out.
Reading == [NoConn EXCEPT !.pc = "reading", !.op = "pending", !.timer = "armed"]

accept(c) ==
  /\ conn[c].pc = "free"
  /\ \E pc \in {"reading", "handshake"} : conn' = [conn EXCEPT ![c] = [Reading EXCEPT !.pc = pc]]
  /\ UNCHANGED <<frame, fresh, pool, req, relayed, late, recorded>>

\* External: the peer.
peer(c) ==
  /\ conn[c].op = "pending"
  /\ \E e \in {"ok", "error"} : conn' = [conn EXCEPT ![c].op = e]
  /\ UNCHANGED <<frame, fresh, pool, req, relayed, late, recorded>>

conn_expire(c) ==
  /\ conn[c].timer = "armed"
  /\ conn' = [conn EXCEPT ![c].timer = "fired"]
  /\ UNCHANGED <<frame, fresh, pool, req, relayed, late, recorded>>

conn_on_timeout(c) ==
  /\ conn[c].timer = "fired"
  /\ conn' = [conn EXCEPT ![c].timer = "off", ![c].op = IF @ = "pending" THEN "error" ELSE @]
  /\ UNCHANGED <<frame, fresh, pool, req, relayed, late, recorded>>

conn_error(c) ==
  /\ conn[c].op = "error"
  /\ conn' = [conn EXCEPT ![c] = NoConn]
  /\ UNCHANGED <<frame, fresh, pool, req, relayed, late, recorded>>

\* Handshake or response done: the next request, or the end.
next_request(c) ==
  /\ conn[c].pc \in {"handshake", "writing"} /\ conn[c].op = "ok"
  /\ conn' = [conn EXCEPT ![c] =
                IF @.timer = "armed" /\ (@.pc = "writing" => @.keep) THEN Reading ELSE NoConn]
  /\ UNCHANGED <<frame, fresh, pool, req, relayed, late, recorded>>

Requested(c) == conn[c].pc = "reading" /\ conn[c].op = "ok" /\ conn[c].timer = "armed"

requested_late(c) ==
  /\ conn[c].pc = "reading" /\ conn[c].op = "ok" /\ conn[c].timer # "armed"
  /\ conn' = [conn EXCEPT ![c] = NoConn]
  /\ UNCHANGED <<frame, fresh, pool, req, relayed, late, recorded>>

\* async_write of a response under its own time-out.
Writing(keep) == [NoConn EXCEPT !.pc = "writing", !.op = "pending", !.timer = "armed",
                                !.keep = keep]

\* Unknown target, missing handler, too large, wrong verb, bad JSON, an admin
\* without rights, an endpoint that needs no daemon, or a young cache: the
\* response is written at once.
immediate(c) ==
  /\ Requested(c)
  /\ \E keep \in BOOLEAN : conn' = [conn EXCEPT ![c] = Writing(keep)]
  /\ UNCHANGED <<frame, fresh, pool, req, relayed, late, recorded>>

Taken(c, k) ==
  /\ Requested(c) /\ Len(req) < MaxRequests
  /\ \E keep \in BOOLEAN :
       conn' = [conn EXCEPT ![c] = [NoConn EXCEPT !.pc = "waiting", !.keep = keep,
                                                  !.id = Len(req) + 1]]
  /\ req' = Append(req, [kind |-> k, answers |-> <<>>])

Cached(k) == k \in Coalesced /\ fresh[k]

\* cache.status.lock() succeeds.
join(c, k) ==
  /\ ~Cached(k) /\ frame[k].pc # "none"
  /\ Taken(c, k)
  /\ frame' = [frame EXCEPT ![k].waiters = Append(@, Len(req) + 1)]
  /\ UNCHANGED <<fresh, pool, relayed, late, recorded>>

\* A new frame with a socket of the pool, the last one stored, or a new one.
\* No socket can be had: the error is answered at once, see immediate.
start(c, k) ==
  /\ ~Cached(k) /\ frame[k].pc = "none"
  /\ Taken(c, k)
  /\ pool' = IF pool = <<>> THEN pool ELSE Front(pool)
  /\ frame' = [frame EXCEPT ![k] = [NoFrame EXCEPT !.pc = "start", !.waiters = <<Len(req) + 1>>,
                                      !.busy = IF pool = <<>> THEN FALSE ELSE Last(pool)]]
  /\ UNCHANGED <<fresh, relayed, late, recorded>>

\* The asynchronous endpoints: a young result is used (see immediate), a
\* request joins the exchange under way or starts one.  /get_random_outs and
\* /submit_raw_tx keep no result.
daemon_status(c) == "status" \in Kinds /\ (join(c, "status") \/ start(c, "status"))
get_unspent_outs(c) == "fees" \in Kinds /\ (join(c, "fees") \/ start(c, "fees"))
get_random_outs(c) == "rings" \in Kinds /\ (join(c, "rings") \/ start(c, "rings"))
submit_raw_tx(c) == "submit" \in Kinds /\ (join(c, "submit") \/ start(c, "submit"))

\* The resumer runs in the strand of the connection.
respond(c) ==
  /\ conn[c].pc = "waiting"
  /\ req[conn[c].id].answers # <<>>
  /\ conn' = [conn EXCEPT ![c] = Writing(@.keep)]
  /\ UNCHANGED <<frame, fresh, pool, req, relayed, late, recorded>>

-----------------------------------------------------------------------------
RestInit ==
  /\ conn = [c \in Conn |-> NoConn]
  /\ frame = [k \in Kinds |-> NoFrame]
  /\ fresh = [k \in Kinds |-> FALSE]
  /\ pool = <<>> /\ req = <<>>
  /\ relayed = {} /\ late = {} /\ recorded = {}

\* The handlers that are queued in a strand, and timers that run out.
HandlerNext(k) ==
  \/ begin(k) \/ finish(k) \/ io_error(k) \/ wrote(k) \/ replied_late(k)
  \/ expire(k) \/ on_timeout(k)

ReplyNext ==
  status_reply \/ fees_reply \/ submit_reply \/ rings_next \/ rings_reply \/ rings_invalid

ConnNext(c) ==
  \/ conn_expire(c) \/ conn_on_timeout(c) \/ conn_error(c) \/ next_request(c)
  \/ requested_late(c) \/ respond(c)

RestNext ==
  \/ \E k \in Kinds : HandlerNext(k) \/ socket(k) \/ daemon_answers(k) \/ age(k)
  \/ ReplyNext
  \/ \E i \in Ids : daemon_late(i)
  \/ \E c \in Conn : ConnNext(c) \/ accept(c) \/ peer(c) \/ immediate(c)
  \/ \E c \in Conn :
       daemon_status(c) \/ get_unspent_outs(c) \/ get_random_outs(c) \/ submit_raw_tx(c)

\* The I/O threads run what is queued, and timers run out.  Nothing is
\* assumed of the daemon, of ZeroMQ or of the peers.
RestFairness ==
  /\ \A k \in Kinds : WF_restVars(HandlerNext(k))
  /\ WF_restVars(status_reply) /\ WF_restVars(fees_reply) /\ WF_restVars(submit_reply)
  /\ WF_restVars(rings_next \/ rings_reply \/ rings_invalid)
  /\ \A c \in Conn : WF_restVars(ConnNext(c))

RestSpec == RestInit /\ [][RestNext]_restVars /\ RestFairness

-----------------------------------------------------------------------------
(* Properties.                                                             *)

\* A request waits in a frame exactly as long as it has no answer, and it is
\* answered once: no path of the coroutines forgets a resumer or calls it
\* twice, although requests join a frame from other threads.
WaitsOrAnswered ==
  \A i \in Ids :
    /\ Len(req[i].answers) <= 1
    /\ (req[i].answers = <<>>) <=> (i \in Waiting(req[i].kind))

\* A socket in the pool has no reply outstanding; a REQ socket that has would
\* fail the first request it is used for.
PoolIdle == \A i \in DOMAIN pool : ~pool[i]

\* A client is told of its own transaction: OK only if the daemon relayed it,
\* an error other than a time-out only if it did not; spends are pending only
\* for transactions that were relayed.
OwnTransaction ==
  /\ recorded \subseteq relayed
  /\ \A i \in {j \in Ids : req[j].kind = "submit"} : \A n \in DOMAIN req[i].answers :
       /\ req[i].answers[n] = "ok" => i \in relayed
       /\ req[i].answers[n] = "refused" => i \notin relayed

\* When a frame gives its socket to the pool no time-out of it is queued: the
\* handler would cancel through a pointer that has been moved away.
StoreUnlessFired ==
  [][\A k \in Kinds : Len(pool') > Len(pool) /\ frame[k] # frame'[k]
                        => frame[k].timer # "fired"]_restVars

\* Every connection that waits for an asynchronous endpoint is answered, even
\* if the daemon never says anything: it has no time-out of its own.
Answered == \A c \in Conn : conn[c].pc = "waiting" ~> conn[c].pc # "waiting"
=============================================================================
