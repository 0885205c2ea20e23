------------------------------ MODULE Webhooks ------------------------------
(***************************************************************************)
(* The webhooks of db/storage.cpp and of the scan thread: the rows of the  *)
(* tables webhooks and events, what storage::update makes of them for one  *)
(* account, and the notifications that user_data::store hands on.          *)
(*                                                                         *)
(* Data abstraction.  The account takes part in at most one transaction of *)
(* a block: it receives an output with a payment id, it spends an output   *)
(* with or without change, or there is none.  The number fork tells a      *)
(* block from the one that replaces it.  An event id is a number that is   *)
(* never used again (a random uuid).  Writes are whole transactions: an    *)
(* error of storage::update leaves every table as it was.                  *)
(***************************************************************************)
EXTENDS Integers, FiniteSets, Sequences

CONSTANTS
  HookId,      \* event ids, numbers
  Url,         \* targets of HTTP webhooks; "zmq" is the one that has none
  Pid,         \* payment ids, 0 is the absent one
  Confirm,     \* requested confirmations
  BlockKind,   \* which of "none", "pay", "change", "sweep" the daemon mines
  MaxHeight, MaxForks, MaxRescans, MaxPool

ASSUME WebhooksAssumption ==
  /\ HookId \subseteq Nat /\ Confirm \subseteq Nat
  /\ 0 \in Pid
  /\ BlockKind \subseteq {"none", "pay", "change", "sweep"}
  /\ {MaxHeight, MaxForks, MaxRescans, MaxPool} \subseteq Nat

VARIABLES
  chain,     \* blocks of the database, from height 1
  forks,     \* reorganisations so far
  scan,      \* account::scan_height
  outputs,   \* outputs table of the account
  hooks,     \* webhooks table
  unused,    \* event ids that were never given to a webhook
  events,    \* events table: outputs that have not all their confirmations
  emit,      \* notifications of the scan thread not yet handed to the clients
  failed,    \* the last storage::update returned an error
  rescans,   \* rescans so far
  pool       \* notifications for the transaction pool so far
  
(* Ghosts.                                                                 *)
VARIABLES
  last,      \* confirmations last notified, for a webhook and an output
  follows,   \* webhooks that were registered when the output was stored
  late,      \* events made by an update for blocks the account was past
  lost       \* outputs deleted at the height at which a rescan starts

db_vars == <<chain, forks, scan, outputs, hooks, unused, events, failed, rescans>>
ghosts == <<last, follows, late, lost>>
hook_vars == <<db_vars, emit, pool, ghosts>>

Hook(i, t, p, n, u) == [id |-> i, type |-> t, pid |-> p, confirmations |-> n, url |-> u]
Block(k, p, f) == [kind |-> k, pid |-> p, fork |-> f]

\* webhook_output: the output that the block at height h pays to the account.
OutAt(h) == [height |-> h, fork |-> chain[h].fork, pid |-> chain[h].pid]

Pays(b) == b.kind \in {"pay", "change"}
Spends(b) == b.kind \in {"change", "sweep"}

\* webhook_event: the link to the output and the link to the webhook.
Event(o, i) == [out |-> o, hook |-> i]

\* What a notification tells: the webhook, the transaction and the count.
Note(h, t, n) == [hook |-> h.id, url |-> h.url, tx |-> t, count |-> n]

LastSent(i, o) == IF <<i, o>> \in DOMAIN last THEN last[<<i, o>>] ELSE 0

HooksInit ==
  /\ chain = << >> /\ forks = 0 /\ scan = 0 /\ outputs = {}
  /\ hooks = {} /\ unused = HookId /\ events = {} /\ emit = << >>
  /\ failed = FALSE /\ rescans = 0 /\ pool = 0
  /\ last = << >> /\ follows = {} /\ late = {} /\ lost = {}

----------------------------------------------------------------------------
(* The daemon and the chain of the database.                               *)

\* A block; only an output that was received before can be spent, once.
Mine ==
  /\ Len(chain) < MaxHeight
  /\ \E k \in BlockKind, p \in Pid :
       /\ k # "pay" => p = 0
       /\ k \in {"change", "sweep"} =>
            /\ \E h \in DOMAIN chain : chain[h].kind = "pay"
            /\ \A h \in DOMAIN chain : ~ Spends(chain[h])
       /\ chain' = Append(chain, Block(k, p, forks))
  /\ UNCHANGED <<forks, scan, outputs, hooks, unused, events, failed, rescans, emit, pool, ghosts>>

\* Mutant: the events of the first detached block stay.
rollback_events_above(h) == {e \in events : e.out.height <= h}

\* The events that rollback_events leaves.
rollback_events(h) == {e \in events : e.out.height < h}

\* rollback_chain and rollback_accounts for a daemon with another block at h.
Reorg ==
  /\ forks < MaxForks
  /\ \E h \in DOMAIN chain :
       /\ chain' = SubSeq(chain, 1, h - 1)
       /\ outputs' = {o \in outputs : o.height < h}
       /\ events' = rollback_events(h)
       /\ scan' = IF scan < h THEN scan ELSE h - 1
       /\ follows' = {f \in follows : f.out.height < h}
       /\ lost' = {o \in lost : o.height < h}
  /\ forks' = forks + 1
  /\ UNCHANGED <<hooks, unused, failed, rescans, emit, pool, last, late>>

----------------------------------------------------------------------------
(* storage::update for the account, with blocks from+1..to scanned from a  *)
(* copy of the account at height from.                                     *)

\* check_hooks: an event for every scanned output and webhook that match.
check_hooks(outs) ==
  UNION {{Event(o, h.id) : h \in {g \in hooks : g.type = "tx_confirmation" /\ g.pid = o.pid}} :
           o \in outs}

RowOf(i) == CHOOSE h \in hooks : h.id = i
HasRow(i) == \E h \in hooks : h.id = i

\* Mutant: only the confirmation of the last block is counted.
CountsLast(e, begin, to) ==
  IF e.out.height <= to /\ begin <= to
  THEN {IF RowOf(e.hook).confirmations < to - e.out.height + 1
        THEN RowOf(e.hook).confirmations ELSE to - e.out.height + 1}
  ELSE {}

\* The confirmations that add_ongoing_hooks counts for an event: from
\* this_begin, and on until the requested number or the last block.
Counts(e, begin, to) ==
  LET this_begin == IF begin < e.out.height THEN e.out.height ELSE begin
      first == this_begin - e.out.height + 1
      reached == to - e.out.height + 1
      wanted == RowOf(e.hook).confirmations
      stop == IF wanted < first THEN first ELSE IF wanted < reached THEN wanted ELSE reached
  IN  IF this_begin <= to THEN first..stop ELSE {}

\* The rows the loop over the events must find: MDB_NOTFOUND is an error.
LooksUp(e, begin, to, outs) ==
  (begin <= to /\ e.out.height <= to) => HasRow(e.hook) /\ e.out \in outs

\* Mutant: an event is finished one confirmation early.
finished_early(e, begin, to) ==
  \E n \in Counts(e, begin, to) : RowOf(e.hook).confirmations <= n + 1

\* The event is deleted with its last confirmation.
finished(e, begin, to) ==
  \E n \in Counts(e, begin, to) : RowOf(e.hook).confirmations <= n

ongoing_notes(evs, begin, to) ==
  UNION {{Note(RowOf(e.hook), e.out, n) : n \in Counts(e, begin, to)} : e \in evs}

\* The order of the events table, then the counts of one event.
Before(x, y) ==
  \/ x.tx.height < y.tx.height
  \/ x.tx.height = y.tx.height /\ x.hook < y.hook
  \/ x.tx.height = y.tx.height /\ x.hook = y.hook /\ x.count < y.count

\* The notifications in that order.
InOrder(notes) ==
  [k \in 1..Cardinality(notes) |->
     CHOOSE x \in notes : Cardinality({y \in notes : Before(y, x)}) = k - 1]

spend_hooks == {h \in hooks : h.type = "tx_spend"}

\* check_spends looks for the source from the first output that is not
\* before the spend; without one MDB_GET_BOTH_RANGE fails.
SpendsFound(heights, outs) ==
  spend_hooks # {} => \A s \in heights : \E o \in outs : o.height >= s

spend_notes(heights) ==
  UNION {{Note(h, [height |-> s, fork |-> chain[s].fork, pid |-> 0], 1) : h \in spend_hooks} :
           s \in heights}

\* What an update of blocks from+1..to inserts.
Scanned(from, to) == {OutAt(h) : h \in {g \in from + 1..to : Pays(chain[g])}}
ScannedSpends(from, to) == {h \in from + 1..to : Spends(chain[h])}

UpdateFits(from, to) ==
  LET outs == outputs \cup Scanned(from, to)
      evs == events \cup check_hooks(Scanned(from, to))
  IN  /\ \A e \in evs : LooksUp(e, scan + 1, to, outs)
      /\ SpendsFound(ScannedSpends(from, to), outs)

\* A copy of the account at or below its height, and blocks beyond it.  The
\* thread stores once the notifications of its last update are handed on.
Batch(from, to) ==
  /\ emit = << >>
  /\ from <= scan /\ scan < to /\ to <= Len(chain)

\* user_data::store.
store(from, to) ==
  /\ Batch(from, to)
  /\ UpdateFits(from, to)
  /\ LET new == Scanned(from, to)
         made == check_hooks(new)
         evs == events \cup made
         paid == ongoing_notes(evs, scan + 1, to)
         spent == spend_notes(ScannedSpends(from, to))
     IN  /\ outputs' = outputs \cup new
         /\ events' = {e \in evs : ~ finished(e, scan + 1, to)}
         /\ emit' = InOrder(paid) \o InOrder(spent)
         /\ last' = [p \in DOMAIN last \cup {<<n.hook, n.tx>> : n \in paid} |->
                      IF \E n \in paid : <<n.hook, n.tx>> = p
                      THEN CHOOSE c \in {n.count : n \in {m \in paid : <<m.hook, m.tx>> = p}} :
                             \A n \in paid : <<n.hook, n.tx>> = p => n.count <= c
                      ELSE last[p]]
         /\ follows' = follows \cup {e \in made : e.out.height > scan}
         /\ late' = late \cup {e \in made : e.out.height <= scan /\ e \notin events}
         /\ lost' = lost \ new
  /\ scan' = to
  /\ failed' = FALSE
  /\ UNCHANGED <<chain, forks, hooks, unused, rescans, pool>>

\* user_data::store throws; the thread ends and the scanner starts again.
store_failed(from, to) ==
  /\ Batch(from, to)
  /\ ~ UpdateFits(from, to)
  /\ failed' = TRUE
  /\ UNCHANGED <<chain, forks, scan, outputs, hooks, unused, events, rescans, emit, pool, ghosts>>

\* storage_reader::find_webhook.
find_webhook(p) == {h \in hooks : h.type = "tx_confirmation" /\ h.pid = p}

\* The notifications of a transaction that is not in a block yet.
send_webhook(p) ==
  InOrder({Note(h, [height |-> 0, fork |-> 0, pid |-> p], 0) : h \in find_webhook(p)})

\* A transaction of the pool pays the account; nothing is kept.
txpool(p) ==
  /\ emit = << >>
  /\ pool < MaxPool
  /\ find_webhook(p) # {}
  /\ emit' = send_webhook(p)
  /\ pool' = pool + 1
  /\ UNCHANGED <<db_vars, ghosts>>

----------------------------------------------------------------------------
(* Administration.                                                         *)

\* webhook_add_ and add_webhook.  A webhook for new accounts has no address.
add_webhook(i, t, p, n, u) ==
  /\ i \in unused
  /\ hooks' = hooks \cup {Hook(i, t, p, n, u)}
  /\ unused' = unused \ {i}
  /\ UNCHANGED <<chain, forks, scan, outputs, events, failed, rescans, emit, pool, ghosts>>

\* clear_webhooks of ids: the rows of both tables.
clear_hook(i) ==
  /\ \E h \in hooks : h.id = i
  /\ hooks' = {h \in hooks : h.id # i}
  /\ events' = {e \in events : e.hook # i}
  /\ follows' = {e \in follows : e.hook # i}
  /\ UNCHANGED <<chain, forks, scan, outputs, unused, failed, rescans, emit, pool, last, late, lost>>

\* clear_webhooks of addresses: tx_confirmation alone, and every event.
clear_address ==
  /\ hooks' = {h \in hooks : h.type # "tx_confirmation"}
  /\ events' = {}
  /\ follows' = {}
  /\ UNCHANGED <<chain, forks, scan, outputs, unused, failed, rescans, emit, pool, last, late, lost>>

\* change_height of an administrator's rescan: outputs from the height on are
\* deleted, the next block to scan is the one after it; events stay.
rescan(h) ==
  /\ rescans < MaxRescans
  /\ outputs' = {o \in outputs : o.height < h}
  /\ lost' = lost \cup {o \in outputs : o.height = h}
  /\ follows' = {e \in follows : e.out.height < h}
  /\ scan' = h
  /\ rescans' = rescans + 1
  /\ UNCHANGED <<chain, forks, hooks, unused, events, failed, emit, pool, last, late>>

Add ==
  \E i \in unused, t \in {"tx_confirmation", "tx_spend", "new_account"}, p \in Pid,
     n \in Confirm, u \in Url \cup {"zmq"} :
       /\ \A j \in unused : i <= j
       /\ t # "tx_confirmation" => p = 0
       /\ add_webhook(i, t, p, n, u)

HooksNext ==
  \/ Mine \/ Reorg \/ Add
  \/ \E from, to \in 0..MaxHeight : store(from, to) \/ store_failed(from, to)
  \/ \E p \in Pid : txpool(p)
  \/ \E i \in HookId : clear_hook(i)
  \/ clear_address
  \/ \E h \in 1..scan : rescan(h)

----------------------------------------------------------------------------
(* Properties.                                                             *)

\* An update finds the rows it looks up (storage.cpp:3214, 3218, 3283), after
\* any reorganisation, deletion and rescan: the events of deleted webhooks and
\* detached blocks are gone and an output ahead of the account is stored
\* again.  Two exceptions: a spend after which the account received nothing,
\* and an output that a rescan to its very height deleted.
Storable ==
  \A from, to \in 0..MaxHeight :
    Batch(from, to) =>
      \/ UpdateFits(from, to)
      \/ \E h \in DOMAIN chain : chain[h].kind = "sweep"
      \/ lost # {}

\* Nobody waits for a confirmation that was forgotten: a webhook that was
\* registered when an output was stored has been told every confirmation the
\* account has scanned, up to the requested number (storage.cpp:3236-3245).
Told ==
  \A f \in follows :
    LET wanted == RowOf(f.hook).confirmations
        reached == scan - f.out.height + 1
    IN  LastSent(f.hook, f.out) >= IF 0 < wanted /\ wanted < reached THEN wanted
                                    ELSE IF wanted = 0 THEN 1 ELSE reached

\* A webhook that was told n confirmations is never told n + 2 next, whatever
\* reorganisations and rescans happen in between; an update for blocks the
\* account was already past is the exception.
Consecutive ==
  [][\A p \in DOMAIN last' :
       \/ last'[p] = LastSent(p[1], p[2])
       \/ Event(p[2], p[1]) \in late'
       \/ \A n \in 1..last'[p] :
            n <= LastSent(p[1], p[2]) \/ \E k \in DOMAIN emit' :
              emit'[k].hook = p[1] /\ emit'[k].tx = p[2] /\ emit'[k].count = n]_hook_vars

=============================================================================
