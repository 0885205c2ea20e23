-------------------------- MODULE MCNotifications --------------------------
(***************************************************************************)
(* An instance of Notifications for TLC, in two parts that a run explores  *)
(* side by side: everything that happens to the tables, with a client that *)
(* takes every notification at once, and the whole client, for the         *)
(* notifications of a growing chain.                                       *)
(***************************************************************************)
EXTENDS Notifications

VARIABLE focus

all_vars == <<vars, focus>>

MCInit == Init /\ focus \in {"tables", "client"}

TakenAtOnce ==
  /\ emit # << >>
  /\ emit' = << >>
  /\ UNCHANGED <<db_vars, pool, ghosts, http_vars>>

\* One webhook, and a payment in every block.
MinePayments ==
  IF unused # {} THEN \E u \in Url \cup {"zmq"}, n \in Confirm :
                        add_webhook(1, "tx_confirmation", 0, n, u)
  ELSE IF Len(chain) < MaxHeight - 1
  THEN Mine /\ chain'[Len(chain) + 1].kind = "pay"
  ELSE \E to \in 1..MaxHeight : store(scan, to)

\* The target of a webhook and the pool are of no concern to the tables.
TablesOnly == (\A h \in hooks' : h.url = "zmq") /\ UNCHANGED pool

MCNext ==
  /\ UNCHANGED focus
  /\ \/ focus = "tables" /\ TakenAtOnce
     \/ focus = "tables" /\ HooksNext /\ TablesOnly /\ UNCHANGED http_vars
     \/ focus = "client" /\ MinePayments /\ UNCHANGED http_vars
     \/ focus = "client" /\ txpool(0) /\ UNCHANGED http_vars
     \/ focus = "client" /\ http_async
     \/ focus = "client" /\ HttpNext /\ UNCHANGED hook_vars

MCSpec == MCInit /\ [][MCNext]_all_vars /\ HttpFairness

============================================================================
