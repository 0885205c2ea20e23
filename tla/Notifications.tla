--------------------------- MODULE Notifications ---------------------------
(***************************************************************************)
(* The scan thread that stores a batch and hands its notifications to the  *)
(* HTTP client, composed with the strand of that client.                   *)
(***************************************************************************)
EXTENDS Webhooks, HttpClient

vars == <<hook_vars, http_vars>>

Init == HooksInit /\ HttpInit

\* http_async for one event: a webhook with the target zmq is only published.
http_async ==
  /\ emit # << >>
  /\ emit' = Tail(emit)
  /\ IF Head(emit).url = "zmq" THEN UNCHANGED http_vars ELSE queue_async(Head(emit))
  /\ UNCHANGED <<db_vars, pool, ghosts>>

Next ==
  \/ HooksNext /\ UNCHANGED http_vars
  \/ http_async
  \/ HttpNext /\ UNCHANGED hook_vars

Spec == Init /\ [][Next]_vars /\ HttpFairness

\* The notifications there can be: of a webhook, for a transaction of the
\* chain or the pool, with a number of confirmations.
Notice ==
  [hook : HookId, url : Url,
   tx : [height : 0..MaxHeight, fork : 0..MaxForks, pid : Pid], count : 0..MaxHeight]

\* What the queue holds, for the clients of net::http::client.
Queue == INSTANCE Delivery WITH Message <- Notice, waiting <- outgoing \o pushing

\* The client delivers what the scan threads hand to it in their order, each
\* notification once, through time-outs, kept connections and the release of
\* its state (net/http/client.cpp:410-440).
Delivers == Queue!Spec

============================================================================
