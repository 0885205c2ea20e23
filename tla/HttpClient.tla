----------------------------- MODULE HttpClient -----------------------------
(***************************************************************************)
(* net::http::client (net/http/client.cpp), one client as the webhooks use *)
(* it: messages are posted, nobody waits for the answer.  The handlers of  *)
(* a client run in its strand, one at a time; queue_async runs in any      *)
(* thread.  A handler that waits for an operation is the stage of the      *)
(* loop; the operation completes first (outcome), its handler runs later.  *)
(*                                                                         *)
(* External: the peer and the network may answer, fail or never answer;    *)
(* timers expire; asio runs queued handlers.                               *)
(***************************************************************************)
EXTENDS Integers, Sequences

CONSTANT HttpsUrl   \* the targets with the schema https

VARIABLES
  alive,      \* client::state_ can be locked
  outgoing,   \* client_state::outgoing
  pushing,    \* handlers of queue_async in the strand, each with its message
  stage,      \* where the client_loop waits
  outcome,    \* of the operation it waits for: "none", "ok" or "error"
  cut,        \* the open socket was shut down by on_timeout
  iteration,  \* client_state::iteration
  timer,      \* the armed timer, as a set: the iteration and ghost request
  expired,    \* queued handlers of timers that had expired
  two_loops,  \* a second client_loop runs on the same state
  requests    \* ghost: requests begun so far

http_vars == <<alive, outgoing, pushing, stage, outcome, cut, iteration, timer, expired,
               two_loops, requests>>

Stage == {"idle", "posted", "resolve", "connect", "handshake", "write", "read", "shutdown"}
Waits == Stage \ {"idle", "posted"}

HttpInit ==
  /\ alive = FALSE /\ outgoing = << >> /\ pushing = << >>
  /\ stage = "idle" /\ outcome = "none" /\ cut = FALSE
  /\ iteration = 0 /\ timer = {} /\ expired = {}
  /\ two_loops = FALSE /\ requests = 0

\* client::queue_async: a new state with its loop, or a handler in the strand
\* of the state that exists.
queue_async(m) ==
  IF alive
  THEN /\ pushing' = Append(pushing, m)
       /\ UNCHANGED <<alive, outgoing, stage, outcome, cut, iteration, timer, expired, two_loops, requests>>
  ELSE /\ alive' = TRUE
       /\ outgoing' = <<m>>
       /\ stage' = "posted"
       /\ iteration' = 0
       /\ UNCHANGED <<pushing, outcome, cut, timer, expired, two_loops, requests>>

\* Mutant: the message is added before those that wait.
pushed_first ==
  /\ pushing # << >> /\ ~ two_loops
  /\ outgoing' = <<Head(pushing)>> \o outgoing
  /\ pushing' = Tail(pushing)
  /\ stage' = IF outgoing = << >> THEN "posted" ELSE stage
  /\ UNCHANGED <<alive, outcome, cut, iteration, timer, expired, two_loops, requests>>

\* Mutant: no loop is started for a message in an empty queue.
pushed_unseen ==
  /\ pushing # << >> /\ ~ two_loops
  /\ outgoing' = Append(outgoing, Head(pushing))
  /\ pushing' = Tail(pushing)
  /\ UNCHANGED <<alive, stage, outcome, cut, iteration, timer, expired, two_loops, requests>>

\* The handler of queue_async.  The queue is also empty while the loop waits
\* for the SSL shutdown of its last message: then a second loop starts.
pushed ==
  /\ pushing # << >> /\ ~ two_loops
  /\ outgoing' = Append(outgoing, Head(pushing))
  /\ pushing' = Tail(pushing)
  /\ stage' = IF outgoing = << >> /\ stage = "idle" THEN "posted" ELSE stage
  /\ two_loops' = (outgoing = << >> /\ stage # "idle")
  /\ UNCHANGED <<alive, outcome, cut, iteration, timer, expired, requests>>

----------------------------------------------------------------------------
(* client_loop::operator().                                                *)

IsHttps(m) == m.url \in HttpsUrl

\* set_timeout: a timer that has not expired yet is replaced.
set_timeout(i) == timer' = {[iteration |-> i, request |-> requests + 1]}

\* The head of the while loop with i as iteration: the next message is
\* resolved, or written at once when the connection is kept.
Round(i, kept) ==
  /\ iteration' = i
  /\ outcome' = "none"
  /\ IF outgoing' = << >>
     THEN stage' = "idle" /\ UNCHANGED <<timer, requests>>
     ELSE /\ set_timeout(i)
          /\ requests' = requests + 1
          /\ stage' = IF kept THEN "write" ELSE "resolve"

start ==
  /\ stage = "posted" /\ ~ two_loops
  /\ outgoing' = outgoing
  /\ Round(iteration, FALSE)
  /\ UNCHANGED <<alive, pushing, cut, expired, two_loops>>

\* The operation after the one that succeeded.
After(s, m) ==
  CASE s = "resolve" -> "connect"
    [] s = "connect" -> IF IsHttps(m) THEN "handshake" ELSE "write"
    [] s = "handshake" -> "write"
    [] s = "write" -> "read"

advance ==
  /\ stage \in {"resolve", "connect", "handshake", "write"} /\ outcome = "ok" /\ ~ two_loops
  /\ stage' = After(stage, Head(outgoing))
  /\ outcome' = "none"
  /\ UNCHANGED <<alive, outgoing, pushing, cut, iteration, timer, expired, two_loops, requests>>

\* The connection is closed and the loop goes on.
closed == cut' = FALSE /\ Round(iteration + 1, FALSE)

\* The message is ended, by an error or by an answer: it is popped, and the
\* connection is kept for a next message to the same host if the peer does.
ended ==
  /\ stage \in {"resolve", "connect", "handshake", "write", "read"} /\ ~ two_loops
  /\ outcome = "error" \/ (stage = "read" /\ outcome = "ok")
  /\ outgoing' = Tail(outgoing)
  /\ \E keep_alive \in BOOLEAN :
       LET reuse == /\ outcome = "ok" /\ keep_alive
                    /\ outgoing' # << >> /\ Head(outgoing).url = Head(outgoing').url
       IN  IF reuse
           THEN Round(iteration + 1, TRUE) /\ cut' = cut
           ELSE IF IsHttps(Head(outgoing))
           THEN /\ stage' = "shutdown" /\ outcome' = "none"
                /\ UNCHANGED <<cut, iteration, timer, requests>>
           ELSE closed
  /\ UNCHANGED <<alive, pushing, expired, two_loops>>

\* The SSL shutdown has completed, with or without an error.
shut ==
  /\ stage = "shutdown" /\ outcome # "none" /\ ~ two_loops
  /\ outgoing' = outgoing
  /\ closed
  /\ UNCHANGED <<alive, pushing, expired, two_loops>>

----------------------------------------------------------------------------
(* The network, the timer and the end of the state.                        *)

\* An operation completes; on a socket that was shut down only with an error.
completes ==
  /\ stage \in Waits /\ outcome = "none" /\ ~ two_loops
  /\ \E r \in {"ok", "error"} : (cut => r = "error") /\ outcome' = r
  /\ UNCHANGED <<alive, outgoing, pushing, stage, cut, iteration, timer, expired, two_loops, requests>>

expires ==
  /\ timer # {} /\ ~ two_loops
  /\ expired' = expired \cup timer
  /\ timer' = {}
  /\ UNCHANGED <<alive, outgoing, pushing, stage, outcome, cut, iteration, two_loops, requests>>

\* Mutant: the handler of any timer ends the request.
still_current_always(t) == TRUE

\* The test of on_timeout.
still_current(t) == t.iteration >= iteration

\* on_timeout: the pending operation is cancelled and the socket, if it is
\* open, is shut down.
on_timeout(t) ==
  /\ t \in expired /\ ~ two_loops
  /\ expired' = expired \ {t}
  /\ IF still_current(t) /\ stage \in Waits
     THEN /\ outcome' = IF outcome = "none" THEN "error" ELSE outcome
          /\ cut' = (cut \/ stage # "resolve")
     ELSE UNCHANGED <<outcome, cut>>
  /\ UNCHANGED <<alive, outgoing, pushing, stage, iteration, timer, two_loops, requests>>

\* The last handler that holds the state is gone.
released ==
  /\ alive /\ stage = "idle" /\ pushing = << >> /\ timer = {} /\ expired = {} /\ ~ two_loops
  /\ alive' = FALSE
  /\ UNCHANGED <<outgoing, pushing, stage, outcome, cut, iteration, timer, expired, two_loops, requests>>

HttpNext ==
  \/ pushed \/ start \/ advance \/ ended \/ shut \/ completes \/ expires \/ released
  \/ \E t \in expired : on_timeout(t)

----------------------------------------------------------------------------
(* Properties.                                                             *)

\* A timer ends the request it was set for and no later one, although its
\* handler may run after the loop has gone on (net/http/client.cpp:217).
OwnTimeout ==
  [][\A t \in expired : t \notin expired' /\ (outcome' # outcome \/ cut' # cut) => t.request = requests]_http_vars

\* The request that nothing ends: the resolver had answered when on_timeout
\* ran, so that the rest of the request has no timer.
Unguarded ==
  /\ stage \in {"connect", "handshake", "write", "read", "shutdown"} /\ ~ cut
  /\ timer = {} /\ \A t \in expired : ~ still_current(t)

\* Every message that is queued is ended, whatever the peers do: the time-out
\* covers the whole request, and a new loop starts for a message that finds
\* none.  The two ways out are the second loop and the request without timer.
Drained == (outgoing \o pushing # << >>) ~> (outgoing \o pushing = << >> \/ two_loops \/ Unguarded)

HttpFairness ==
  /\ WF_http_vars(pushed) /\ WF_http_vars(start) /\ WF_http_vars(advance)
  /\ WF_http_vars(ended) /\ WF_http_vars(shut) /\ WF_http_vars(expires)
  /\ WF_http_vars(\E t \in expired : on_timeout(t))
  /\ WF_http_vars(cut /\ completes)

============================================================================
