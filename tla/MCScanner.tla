----------------------------- MODULE MCScanner -----------------------------
(***************************************************************************)
(* Instances of Scanner for TLC.  Each specification below asks one        *)
(* question and takes the groups of actions it is about; the focus says    *)
(* which group a behaviour belongs to.                                     *)
(***************************************************************************)
EXTENDS Scanner, TLC

VARIABLE focus

Symmetry == Permutations(Account)

InitOf(group) == Init /\ focus = group
Keeps(A) == A /\ UNCHANGED focus

\* Everything: the next-state relation of Scanner.
TablesSpec == InitOf("tables") /\ [][Keeps(Next)]_<<vars, focus>>

\* Threads, daemon and account server; no height is lowered by hand.
ReorgNext ==
  \/ ScanNext
  \/ check_users
  \/ do_replace_users
  \/ remote_change
  \/ \E a \in Account : admin_add(a) \/ admin_status(a)

\* Users go back to an older height while the threads scan.
RescanNext ==
  \/ ScanNext
  \/ check_users
  \/ rest_rescan \/ rest_import \/ rest_accept \/ rest_error
  \/ \E a \in Account :
       \/ admin_add(a) \/ admin_reject(a)
       \/ request_rescan(a) \/ import_older(a)

\* One chain, and one thread that is given accounts.
OnMain == \A i \in 1..tip : daemon[i] = MainTag
OneThread ==
  LET busy == CHOOSE t \in Thread : TRUE
  IN \A t \in Thread \ {busy} : DOMAIN thread[t].users = {} /\ queue[t] = EmptyQueue

\* Reorganisations with two threads, and rescans and imports with faults.
ScanInit == InitOf("reorg") \/ (InitOf("rescan") /\ OnMain)

ScanSpec ==
  /\ ScanInit
  /\ [][Keeps(\/ focus = "reorg" /\ ReorgNext /\ faults' = 0 /\ ops' <= 1
              \/ focus = "rescan" /\ RescanNext /\ reorgs' = 0 /\ OnMain' /\ OneThread')
       ]_<<vars, focus>>

\* The threads, the main loop and the account server keep running; the daemon
\* keeps mining.  Faults, reorganisations and administration are not fair.
ProgressSpec ==
  /\ InitOf("progress")
  /\ [][Keeps(ReorgNext)]_<<vars, focus>>
  /\ WF_vars(Mine)
  /\ WF_vars(sync_quick) /\ WF_vars(sync_refused) /\ WF_vars(sync_done)
  /\ WF_vars(load_none) /\ WF_vars(check_loop) /\ WF_vars(join)
  /\ WF_vars(check_users) /\ WF_vars(do_replace_users)
  /\ \A t \in Thread :
       /\ WF_vars(fetch_failed(t)) /\ WF_vars(fetch_idle(t)) /\ WF_vars(fetch(t))
       /\ WF_vars(store(t)) /\ WF_vars(store_reorg(t)) /\ WF_vars(store_failed(t))
       /\ WF_vars(wait_for_accounts(t)) /\ WF_vars(leave(t))

\* An administrator rescans accounts; the chain only grows.
AdminRescanSpec ==
  /\ InitOf("admin")
  /\ [][Keeps(ScanNext \/ \E a \in Account : admin_add(a) \/ admin_rescan(a))]_<<vars, focus>>

============================================================================
