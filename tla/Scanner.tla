------------------------------ MODULE Scanner ------------------------------
(***************************************************************************)
(* scanner.cpp with the account server of rpc/scanner/server.cpp, on top   *)
(* of the tables of Storage: the main loop (sync, load, check_loop), the   *)
(* scan threads with their account queues, the daemon they read from, and  *)
(* the REST and admin operations that write the same tables concurrently.  *)
(*                                                                         *)
(* A thread has one request outstanding.  Reading the answer, merging the  *)
(* queue, scanning the blocks and sending the next request touch only the  *)
(* thread's own data and are one step; the write of the batch is another,  *)
(* so a batch may be arbitrarily old when it is stored.                    *)
(***************************************************************************)
EXTENDS Storage

CONSTANTS
  Thread,         \* local scan threads
  MaxHeight,      \* bound: daemon chain length
  MaxReorgs,      \* bound: daemon reorganisations
  MaxFaults,      \* bound: timeouts, crashes, remote scanner (dis)connects
  MaxOps,         \* bound: REST and admin operations that lower a height
  BatchSize,      \* most blocks in one get_blocks_fast answer
  ImportHeights,  \* from_height of /import_wallet_request and height of rescan
  RescanDepth,    \* --auto-rescan-depth
  ReplaceThreshold,  \* replace_threshold: most new accounts that are pushed
  AutoAccept      \* --auto-accept-import

ASSUME ScannerAssumption ==
  /\ Thread # {}
  /\ {MaxHeight, MaxReorgs, MaxFaults, MaxOps, BatchSize, RescanDepth, ReplaceThreshold} \subseteq Nat
  /\ Checkpoint <= MaxHeight
  /\ ImportHeights \subseteq Nat
  /\ AutoAccept \in BOOLEAN

VARIABLES
  daemon,    \* the daemon's chain: the hash of its top block
  tip,       \* the daemon's height
  phase,     \* main loop: "start" (first sync), "sync", "load", "scan", "halt"
  known,     \* sync_quick: height of the last hash received, or FirstRequest
  stop,      \* scanner_sync::stop_
  shutdown,  \* scanner_sync::shutdown_: a thread left with an exception
  thread,    \* per thread: pc, users, req, batch
  queue,     \* rpc::scanner::queue per thread: replace_ and push_
  active,    \* server::active_: ids the account server has handed out
  rest,      \* the REST handler between its read and its write transaction
  reorgs, faults, ops  \* how much of each bound is used

scan_vars == <<phase, known, stop, shutdown, thread, queue, active>>
env_vars == <<daemon, tip, reorgs>>
vars == <<storage_vars, scan_vars, env_vars, rest, faults, ops>>

NoUsers == [a \in {} |-> 0]
NoReplace == [is |-> FALSE, users |-> NoUsers]
Replace(u) == [is |-> TRUE, users |-> u]
EmptyQueue == [replace |-> NoReplace, push |-> NoUsers]
NoBatch == [start |-> 0, last |-> 0, top |-> [i \in 1..0 |-> MainTag]]
Loop(pc, users, req, batch) == [pc |-> pc, users |-> users, req |-> req, batch |-> batch]
Off == Loop("off", NoUsers, 0, NoBatch)
Idle == Loop("idle", NoUsers, 0, NoBatch)
FirstRequest == -1
NoHandler == [op |-> "none"]

----------------------------------------------------------------------------
(* In-memory accounts (lws::account): id -> scan_height().                 *)

\* get_full_account of the given ids.
Snapshot(S) == [a \in S |-> accounts[a].scan]

Merge(u, v) == [a \in DOMAIN u \cup DOMAIN v |-> IF a \in DOMAIN v THEN v[a] ELSE u[a]]

\* Mutant: the accounts are not sorted.
FrontUnsorted(u, f) == f \in DOMAIN u

\* The account std::sort(users, by_height{}) puts first.
Front(u, f) == f \in DOMAIN u /\ \A b \in DOMAIN u : u[f] <= u[b]

ActiveIds == {a \in Account : accounts[a].status = "active"}

----------------------------------------------------------------------------
(* The `blockchain` vector of a batch: the overlap block first.  At start  *)
(* height 1 no block is skipped, so block 1 is in the vector twice.        *)

BatchLength(b) == IF b.start = 1 THEN b.last + 1 ELSE b.last - b.start + 1

BatchChain(b) ==
  [i \in 0..(BatchLength(b) - 1) |->
     IF b.start # 1 THEN Prefix(b.top, b.start + i) ELSE Prefix(b.top, Most(1, i))]

\* Mutant: the first block after the overlap is skipped too.
BatchHeightsSkip(b) == IF b.start = 1 THEN 1..b.last ELSE (b.start + 2)..b.last

\* The heights whose transactions are scanned.
BatchHeights(b) == IF b.start = 1 THEN 1..b.last ELSE (b.start + 1)..b.last

\* scan_transaction: outputs found for an account scanned up to h.
Found(b, h) ==
  {[height |-> g, block |-> Prefix(b.top, g)] : g \in {x \in BatchHeights(b) : h < x}}

----------------------------------------------------------------------------
(* The daemon (external).                                                  *)

Mine ==
  /\ tip < MaxHeight
  /\ tip' = tip + 1
  /\ \E t \in Tag : /\ tip + 1 <= Checkpoint => t = MainTag
                    /\ daemon' = [i \in 1..(tip + 1) |-> IF i <= tip THEN daemon[i] ELSE t]
  /\ UNCHANGED <<storage_vars, scan_vars, rest, reorgs, faults, ops>>

\* The blocks above height k are replaced by a competing branch; the bound on
\* heights leaves it room to grow past the old one.
Reorg ==
  /\ tip < MaxHeight
  /\ reorgs < MaxReorgs
  /\ reorgs' = reorgs + 1
  /\ \E k \in Checkpoint..(tip - 1), n \in 1..(MaxHeight - 1) :
       /\ k < n
       /\ tip' = n
       /\ \E c \in Hash(n) : /\ Prefix(c, k) = Prefix(daemon, k)
                             /\ c[k + 1] # daemon[k + 1]
                             /\ daemon' = c
  /\ UNCHANGED <<storage_vars, scan_vars, rest, faults, ops>>

\* A row of the blocks table that the daemon's chain has too.
Common(s) == s \in DOMAIN blocks /\ s <= tip /\ blocks[s] = Prefix(daemon, s)

\* get_hashes_fast answers from the newest block of the known-hash list that
\* is on the daemon's chain.  The first list is taken from the table: newest
\* rows, ever sparser older ones, genesis.  Later lists hold the last hash
\* received (ten times) and genesis.
SyncStarts ==
  IF known = FirstRequest
  THEN {s \in DOMAIN blocks : /\ Common(s)
                              /\ Common(LastBlock) => s = LastBlock
                              /\ Checkpoint <= tip => Checkpoint <= s}
  ELSE {IF Common(known) THEN known ELSE 0}

DaemonHashes(s, n) == [i \in 0..(n - 1) |-> Prefix(daemon, s + i)]

----------------------------------------------------------------------------
(* scanner::run and sync_quick.                                            *)

\* The first sync comes before the REST server is started.
Syncing == phase \in {"start", "sync"}
Serving == phase \notin {"start", "halt"}

\* One answer of get_hashes_fast that is not the last one.
sync_quick ==
  /\ Syncing
  /\ \E s \in SyncStarts : \E n \in 2..(tip - s + 1) :
       /\ \/ sync_chain_append(s, n, DaemonHashes(s, n))
          \/ sync_chain_reorg(s, n, DaemonHashes(s, n))
       /\ known' = s + n - 1
  /\ UNCHANGED <<phase, stop, shutdown, thread, queue, active, env_vars, rest, faults, ops>>

\* sync_chain refused the hashes: scanner::run throws, the process ends.
sync_refused ==
  /\ Syncing
  /\ \E s \in SyncStarts : \E n \in 2..(tip - s + 1) :
       SyncRefused(s, n, DaemonHashes(s, n))
  /\ phase' = "halt"
  /\ UNCHANGED <<storage_vars, known, stop, shutdown, thread, queue, active, env_vars, rest, faults, ops>>

\* The answer has one hash: nothing newer is known.
sync_done ==
  /\ Syncing
  /\ tip \in SyncStarts
  /\ phase' = "load"
  /\ UNCHANGED <<storage_vars, known, stop, shutdown, thread, queue, active, env_vars, rest, faults, ops>>

Fault == faults < MaxFaults /\ faults' = faults + 1

\* A timeout ends the process at its start; later it is tolerated: scanning
\* goes on with the blocks there are.
sync_timeout ==
  /\ Fault
  /\ Syncing
  /\ phase' = IF phase = "start" THEN "halt" ELSE "load"
  /\ UNCHANGED <<storage_vars, known, stop, shutdown, thread, queue, active, env_vars, rest, ops>>

\* Retrieve the active accounts; none: poll and sync again.
load_none ==
  /\ phase = "load"
  /\ ActiveIds = {}
  /\ phase' = "sync"
  /\ known' = FirstRequest
  /\ UNCHANGED <<storage_vars, stop, shutdown, thread, queue, active, env_vars, rest, faults, ops>>

\* The beginning of scanner::loop: request from the oldest account f; a
\* thread without accounts waits for work.
StartLoop(u, f) ==
  IF DOMAIN u = {}
  THEN Idle
  ELSE Loop("read", u, Most(1, u[f]), NoBatch)

IsFirst(u, f) == DOMAIN u # {} => Front(u, f)

\* check_loop: every account goes to one thread, every thread is started.
check_loop ==
  /\ phase = "load"
  /\ ActiveIds # {}
  /\ \E who \in [ActiveIds -> Thread], first \in [Thread -> ActiveIds] :
       LET given(t) == Snapshot({a \in ActiveIds : who[a] = t}) IN
       /\ \A t \in Thread : IsFirst(given(t), first[t])
       /\ thread' = [t \in Thread |-> StartLoop(given(t), first[t])]
  /\ phase' = "scan"
  /\ stop' = FALSE
  /\ active' = ActiveIds
  /\ queue' = [t \in Thread |-> EmptyQueue]
  /\ UNCHANGED <<storage_vars, known, shutdown, env_vars, rest, faults, ops>>

\* The join of check_loop: all threads have left.
join ==
  /\ phase = "scan"
  /\ stop
  /\ \A t \in Thread : thread[t].pc = "off"
  /\ phase' = IF shutdown THEN "halt" ELSE "sync"
  /\ known' = FirstRequest
  /\ UNCHANGED <<storage_vars, stop, shutdown, thread, queue, active, env_vars, rest, faults, ops>>

\* The process dies and is started again; memory is lost, the tables stay.
crash ==
  /\ Fault
  /\ phase' = "start"
  /\ known' = FirstRequest
  /\ stop' = FALSE
  /\ shutdown' = FALSE
  /\ thread' = [t \in Thread |-> Off]
  /\ queue' = [t \in Thread |-> EmptyQueue]
  /\ active' = {}
  /\ rest' = NoHandler
  /\ UNCHANGED <<storage_vars, env_vars, ops>>

----------------------------------------------------------------------------
(* scanner::loop.                                                          *)

\* Mutant: a thread that leaves does not stop the others.
LeaveAlone(t) ==
  /\ thread' = [thread EXCEPT ![t] = Off]
  /\ UNCHANGED stop

Leave(t) ==
  /\ thread' = [thread EXCEPT ![t] = Off]
  /\ stop' = TRUE

\* The answer is an error: start height zero, or above the daemon's chain.
fetch_failed(t) ==
  /\ phase = "scan"
  /\ thread[t].pc = "read"
  /\ thread[t].req = 0 \/ tip < thread[t].req
  /\ Leave(t)
  /\ UNCHANGED <<storage_vars, phase, known, shutdown, queue, active, env_vars, rest, faults, ops>>

\* No answer within block_rpc_timeout.
fetch_timeout(t) ==
  /\ Fault
  /\ phase = "scan"
  /\ thread[t].pc = "read"
  /\ Leave(t)
  /\ UNCHANGED <<storage_vars, phase, known, shutdown, queue, active, env_vars, rest, ops>>

\* queue::get_accounts and the users it leaves the thread with.
HasWork(t) == queue[t].replace.is \/ DOMAIN queue[t].push # {}

NextUsers(t) ==
  Merge(IF queue[t].replace.is THEN queue[t].replace.users ELSE thread[t].users,
        queue[t].push)

\* The thread's users were replaced by nobody: wait for work.
fetch_idle(t) ==
  /\ phase = "scan"
  /\ thread[t].pc = "read"
  /\ ~ stop
  /\ 0 < thread[t].req /\ thread[t].req <= tip
  /\ DOMAIN NextUsers(t) = {}
  /\ queue' = [queue EXCEPT ![t] = EmptyQueue]
  /\ thread' = [thread EXCEPT ![t] = Idle]
  /\ UNCHANGED <<storage_vars, phase, known, stop, shutdown, active, env_vars, rest, faults, ops>>

\* A batch of blocks req..e arrives.  A thread that already waits for it may
\* still get it after another thread has stopped the scanner.
fetch(t) ==
  /\ phase = "scan"
  /\ thread[t].pc = "read"
  /\ 0 < thread[t].req
  /\ \E e \in thread[t].req..Least(tip, thread[t].req + BatchSize - 1) :
     \E f \in DOMAIN NextUsers(t) :
       LET u == NextUsers(t)
           s == thread[t].req
       IN /\ Front(u, f)
          /\ \/ \* an account of the queue is older than the answer: ask again
                /\ HasWork(t)
                /\ ~ stop
                /\ u[f] < s
                /\ thread' = [thread EXCEPT ![t] = Loop("read", u, u[f], NoBatch)]
             \/ \* at the top of the chain: wait for a block, ask again
                /\ HasWork(t) => s <= u[f]
                /\ ~ stop
                /\ e = s
                /\ thread' = [thread EXCEPT ![t] = Loop("read", u, s, NoBatch)]
             \/ \* blocks were scanned; the next request is already sent
                /\ HasWork(t) => s <= u[f]
                /\ s < e
                /\ thread' = [thread EXCEPT ![t] = Loop("store", u, e,
                     [start |-> s, last |-> e, top |-> Prefix(daemon, e)])]
  /\ queue' = [queue EXCEPT ![t] = EmptyQueue]
  /\ UNCHANGED <<storage_vars, phase, known, stop, shutdown, active, env_vars, rest, faults, ops>>

\* user_data::store with the height of users[0].
Storing(t, f) ==
  /\ phase = "scan"
  /\ thread[t].pc = "store"
  /\ Front(thread[t].users, f)

StoreHeight(t, f) == thread[t].users[f]
StoreLength(t) == BatchLength(thread[t].batch)
StoreChain(t) == BatchChain(thread[t].batch)

\* The transaction commits; when an account was skipped (it was rescanned or
\* rolled back below what the thread knows) the whole scanner resets.
store(t) ==
  /\ \E f \in DOMAIN thread[t].users :
       /\ Storing(t, f)
       /\ update(StoreHeight(t, f), StoreLength(t), StoreChain(t), thread[t].users,
                 [a \in DOMAIN thread[t].users |-> Found(thread[t].batch, thread[t].users[a])])
  /\ IF Updated(thread[t].users) = DOMAIN thread[t].users /\ ~ stop
     THEN /\ thread' = [thread EXCEPT ![t] =
               Loop("read", [a \in DOMAIN thread[t].users |->
                               Most(thread[t].users[a], thread[t].batch.last)],
                    thread[t].req, NoBatch)]
          /\ UNCHANGED stop
     ELSE Leave(t)
  /\ UNCHANGED <<phase, known, shutdown, queue, active, env_vars, rest, faults, ops>>

\* error::blockchain_reorg: reset everything and sync again.
store_reorg(t) ==
  /\ \E f \in DOMAIN thread[t].users :
       /\ Storing(t, f)
       /\ ~ UpdateBad(StoreHeight(t, f), StoreLength(t), StoreChain(t))
       /\ UpdateReorg(StoreHeight(t, f), StoreLength(t), StoreChain(t))
  /\ Leave(t)
  /\ UNCHANGED <<storage_vars, phase, known, shutdown, queue, active, env_vars, rest, faults, ops>>

\* Any other error is thrown: scanner_sync::shutdown().
store_failed(t) ==
  /\ \E f \in DOMAIN thread[t].users :
       /\ Storing(t, f)
       /\ UpdateFails(StoreHeight(t, f), StoreLength(t), StoreChain(t), thread[t].users)
  /\ Leave(t)
  /\ shutdown' = TRUE
  /\ UNCHANGED <<storage_vars, phase, known, queue, active, env_vars, rest, faults, ops>>

\* An idle thread receives work.
wait_for_accounts(t) ==
  /\ phase = "scan"
  /\ thread[t].pc = "idle"
  /\ ~ stop
  /\ HasWork(t)
  /\ \E f \in Account : /\ IsFirst(NextUsers(t), f)
                        /\ thread' = [thread EXCEPT ![t] = StartLoop(NextUsers(t), f)]
  /\ queue' = [queue EXCEPT ![t] = EmptyQueue]
  /\ UNCHANGED <<storage_vars, phase, known, stop, shutdown, active, env_vars, rest, faults, ops>>

\* A waiting thread is interrupted once another one has stopped the scanner.
leave(t) ==
  /\ phase = "scan"
  /\ stop
  /\ thread[t].pc \in {"read", "idle"}
  /\ Leave(t)
  /\ UNCHANGED <<storage_vars, phase, known, shutdown, queue, active, env_vars, rest, faults, ops>>

----------------------------------------------------------------------------
(* The account server: check_users and do_replace_users.                   *)

\* So many new active accounts that everything is dealt again.
ManyNew == ReplaceThreshold < Cardinality(ActiveIds \ active)

\* New active accounts are pushed, each to one thread.
check_users ==
  /\ phase = "scan"
  /\ ~ stop
  /\ active \subseteq ActiveIds
  /\ active # ActiveIds
  /\ ~ ManyNew
  /\ \E who \in [ActiveIds \ active -> Thread] :
       queue' = [t \in Thread |->
         [replace |-> queue[t].replace,
          push |-> Merge(queue[t].push, Snapshot({a \in ActiveIds \ active : who[a] = t}))]]
  /\ active' = ActiveIds
  /\ UNCHANGED <<storage_vars, phase, known, stop, shutdown, thread, env_vars, rest, faults, ops>>

\* Deal all active accounts again, as they are in the table now.
ReplaceAll ==
  /\ phase = "scan"
  /\ ~ stop
  /\ \E who \in [ActiveIds -> Thread] :
       queue' = [t \in Thread |->
         [replace |-> Replace(Snapshot({a \in ActiveIds : who[a] = t})), push |-> NoUsers]]
  /\ active' = ActiveIds
  /\ UNCHANGED <<storage_vars, phase, known, stop, shutdown, thread, env_vars, rest, ops>>

\* check_users finds that an account is no longer active, or many new ones.
do_replace_users ==
  /\ ~ (active \subseteq ActiveIds) \/ ManyNew
  /\ ReplaceAll
  /\ UNCHANGED faults

\* A remote scanner has connected or its connection was lost.
remote_change ==
  /\ Fault
  /\ ReplaceAll

----------------------------------------------------------------------------
(* Administration: one transaction each.                                   *)

UseOp == ops < MaxOps /\ ops' = ops + 1

admin_add(a) ==
  /\ \E s \in AddedStatus : add_account(a, s)
  /\ UNCHANGED <<scan_vars, env_vars, rest, faults, ops>>

admin_status(a) ==
  /\ UseOp
  /\ \E s \in Status : change_status(a, s)
  /\ UNCHANGED <<scan_vars, env_vars, rest, faults>>

login_request(a) ==
  /\ UseOp
  /\ Serving
  /\ creation_request(a)
  /\ UNCHANGED <<scan_vars, env_vars, rest, faults>>

admin_accept_create(a) ==
  /\ create_accounts(a)
  /\ UNCHANGED <<scan_vars, env_vars, rest, faults, ops>>

admin_accept_import(a) ==
  /\ import_accounts(a)
  /\ UNCHANGED <<scan_vars, env_vars, rest, faults, ops>>

admin_reject(a) ==
  /\ reject_requests(a)
  /\ UNCHANGED <<scan_vars, env_vars, rest, faults, ops>>

admin_rescan(a) ==
  /\ UseOp
  /\ \E h \in ImportHeights : rescan(a, h)
  /\ UNCHANGED <<scan_vars, env_vars, rest, faults>>

----------------------------------------------------------------------------
(* REST handlers: the account is read in one transaction, the decision is  *)
(* written in another.                                                     *)

Visible(a) == accounts[a].status \in {"active", "inactive"}

Handle(o, a, h) ==
  /\ UseOp
  /\ Serving
  /\ rest = NoHandler
  /\ Visible(a)
  /\ rest' = [op |-> o, id |-> a, height |-> h]
  /\ UNCHANGED <<storage_vars, scan_vars, env_vars, faults>>

\* request_rescan: back to the account's start height.
request_rescan(a) ==
  /\ accounts[a].start < accounts[a].scan
  /\ Handle("rescan", a, accounts[a].start)

\* select_auto_rescan_height: a fixed depth below the scan height.
AutoRescanHeight(a) ==
  IF RescanDepth = 0 \/ accounts[a].scan <= RescanDepth
  THEN accounts[a].start
  ELSE Most(accounts[a].start, accounts[a].scan - RescanDepth)

\* maybe_auto_rescan_after_key_images
auto_rescan(a) ==
  /\ AutoRescanHeight(a) < accounts[a].scan
  /\ Handle("rescan", a, AutoRescanHeight(a))

\* import_request for an older start height; a request that waits for
\* approval already is not repeated.
import_older(a) ==
  /\ imports[a] = NoRequest
  /\ \E h \in ImportHeights : h < accounts[a].start /\ Handle("import", a, h)

\* import_request that changes the subaddress lookahead: the requested
\* height is not compared with anything.
import_lookahead(a) ==
  /\ imports[a] = NoRequest
  /\ \E h \in ImportHeights : accounts[a].start <= h /\ Handle("import", a, h)

\* The write transactions of the handlers.
rest_rescan ==
  /\ rest # NoHandler
  /\ rest.op = "rescan"
  /\ rescan(rest.id, rest.height)
  /\ rest' = NoHandler
  /\ UNCHANGED <<scan_vars, env_vars, faults, ops>>

rest_import ==
  /\ rest # NoHandler
  /\ rest.op = "import"
  /\ import_request(rest.id, rest.height)
  /\ rest' = IF AutoAccept THEN [rest EXCEPT !.op = "accept"] ELSE NoHandler
  /\ UNCHANGED <<scan_vars, env_vars, faults, ops>>

rest_accept ==
  /\ rest # NoHandler
  /\ rest.op = "accept"
  /\ import_accounts(rest.id)
  /\ rest' = NoHandler
  /\ UNCHANGED <<scan_vars, env_vars, faults, ops>>

\* The transaction is refused and the handler returns the error.
rest_error ==
  /\ rest # NoHandler
  /\ \/ rest.op = "rescan" /\ (LastBlock < rest.height \/ ~ Indexed(rest.id))
     \/ rest.op = "import" /\ imports[rest.id] # NoRequest
     \/ rest.op = "accept" /\ (imports[rest.id] = NoRequest \/ ~ Indexed(rest.id))
  /\ rest' = NoHandler
  /\ UNCHANGED <<storage_vars, scan_vars, env_vars, faults, ops>>

----------------------------------------------------------------------------

Init ==
  /\ StorageInit
  /\ \E n \in 1..(Checkpoint + 1) :
       /\ n <= MaxHeight
       /\ tip = n
       /\ daemon \in {c \in Hash(n) : OnCheckpoint(c, n)}
  /\ phase = "start"
  /\ known = FirstRequest
  /\ stop = FALSE
  /\ shutdown = FALSE
  /\ thread = [t \in Thread |-> Off]
  /\ queue = [t \in Thread |-> EmptyQueue]
  /\ active = {}
  /\ rest = NoHandler
  /\ reorgs = 0 /\ faults = 0 /\ ops = 0

DaemonNext == Mine \/ Reorg

MainNext ==
  \/ sync_quick \/ sync_refused \/ sync_done \/ sync_timeout
  \/ load_none \/ check_loop \/ join \/ crash

ThreadNext(t) ==
  \/ fetch_failed(t) \/ fetch_timeout(t) \/ fetch_idle(t) \/ fetch(t)
  \/ store(t) \/ store_reorg(t) \/ store_failed(t)
  \/ wait_for_accounts(t) \/ leave(t)

ScanNext == DaemonNext \/ MainNext \/ \E t \in Thread : ThreadNext(t)

AccountNext ==
  \/ check_users
  \/ do_replace_users
  \/ remote_change
  \/ \E a \in Account :
       \/ admin_add(a) \/ admin_status(a)
       \/ login_request(a) \/ admin_accept_create(a) \/ admin_reject(a)

HeightNext ==
  \/ rest_rescan \/ rest_import \/ rest_accept \/ rest_error
  \/ \E a \in Account :
       \/ admin_accept_import(a) \/ admin_rescan(a)
       \/ request_rescan(a) \/ auto_rescan(a)
       \/ import_older(a) \/ import_lookahead(a)

Next == ScanNext \/ AccountNext \/ HeightNext

Spec == Init /\ [][Next]_vars

\* The system as long as nobody rescans or imports.
GrowSpec == Init /\ [][ScanNext \/ AccountNext]_vars

----------------------------------------------------------------------------

IsUsers(u) == u \in [DOMAIN u -> Nat] /\ DOMAIN u \subseteq Account

IsBatch(b) ==
  /\ b.start \in Nat /\ b.last \in Nat
  /\ b.top \in Hash(b.last)

ThreadOK(t) ==
  /\ thread[t] = [pc |-> thread[t].pc, users |-> thread[t].users,
                  req |-> thread[t].req, batch |-> thread[t].batch]
  /\ thread[t].pc \in {"off", "idle", "read", "store"}
  /\ IsUsers(thread[t].users)
  /\ thread[t].req \in Nat
  /\ IsBatch(thread[t].batch)
  /\ thread[t].pc \in {"read", "store"} <=> DOMAIN thread[t].users # {}

QueueOK(t) ==
  /\ queue[t] = [replace |-> queue[t].replace, push |-> queue[t].push]
  /\ queue[t].replace = [is |-> queue[t].replace.is, users |-> queue[t].replace.users]
  /\ queue[t].replace.is \in BOOLEAN
  /\ IsUsers(queue[t].replace.users)
  /\ IsUsers(queue[t].push)

\* Types of the scanner's state, over and above those of the tables.
TypeOK ==
  /\ TablesOK
  /\ tip \in Nat /\ daemon \in Hash(tip)
  /\ phase \in {"start", "sync", "load", "scan", "halt"}
  /\ known \in Nat \cup {FirstRequest}
  /\ stop \in BOOLEAN /\ shutdown \in BOOLEAN
  /\ thread = [t \in Thread |-> thread[t]]
  /\ \A t \in Thread : ThreadOK(t)
  /\ queue = [t \in Thread |-> queue[t]]
  /\ \A t \in Thread : QueueOK(t)
  /\ active \subseteq Account
  /\ \/ rest = NoHandler
     \/ rest \in [op : {"rescan", "import", "accept"}, id : Account, height : Nat]
  /\ {reorgs, faults, ops} \subseteq Nat

\* What a thread asks for, and the batch it is about to store, begins no
\* later than the scan height of any account it holds, although the queue may
\* hand it accounts between request and answer: no block is left out.
RequestCovers ==
  \A t \in Thread : \A a \in DOMAIN thread[t].users :
    /\ thread[t].req <= Most(1, thread[t].users[a]) \/ thread[t].pc # "read"
    /\ thread[t].batch.start <= Most(1, thread[t].users[a])

\* The accounts a thread or a queue holds are registered and were scanned
\* from their start height at least.
HeldOK(u) == \A a \in DOMAIN u : Exists(a) /\ accounts[a].start <= u[a]

UsersHeld ==
  \A t \in Thread : /\ HeldOK(thread[t].users)
                     /\ HeldOK(queue[t].push)
                     /\ HeldOK(queue[t].replace.users)

\* Everything the scanner reads from the daemon has the checkpoint in it, and
\* a batch has the overlap block and at least one more.
DaemonOK ==
  /\ OnCheckpoint(daemon, tip)
  /\ \A t \in Thread :
       LET b == thread[t].batch IN
       /\ OnCheckpoint(b.top, b.last)
       /\ thread[t].pc = "store" => 1 <= b.start /\ b.start < b.last /\ thread[t].req = b.last

\* The inductive invariant behind the safety theorems.
IInv ==
  /\ TypeOK /\ ChainLinked /\ IndexOneRow /\ NoPhantom
  /\ RequestCovers /\ UsersHeld /\ DaemonOK /\ NoOrphans

\* Whenever an account's scan height moves up, in whatever transaction, the
\* outputs of every block it moves over are in the table afterwards: a batch
\* is never credited to an account for blocks that were not in it.
AdvanceCovers ==
  [][\A a \in Account :
       Exists(a) /\ Exists(a)' =>
         \A h \in (accounts[a].scan + 1)..accounts'[a].scan :
           \E o \in outputs'[a] : o.height = h]_vars

\* The scanner has caught up: the tables follow the daemon's chain and every
\* active account is scanned to its top.  (Without an active account all
\* threads wait for work and the blocks table is not extended either.)
CaughtUp ==
  ActiveIds # {} =>
    /\ LastBlock = tip
    /\ blocks[tip] = daemon
    /\ \A a \in ActiveIds : accounts[a].scan = tip

\* Once the daemon stops reorganising and no more faults happen, the scanner
\* catches up for good, unless it has ended with an error.
Converges == <>[](phase = "halt" \/ CaughtUp)

\* The tables as Ledger has them: an account's span is from its start height to
\* its scan height.
TopHash == blocks[LastBlock]
Spans ==
  [a \in Account |->
     IF Exists(a) THEN [from |-> accounts[a].start, upto |-> accounts[a].scan]
     ELSE [from |-> -1, upto |-> -1]]

Held == INSTANCE Ledger WITH
  height <- LastBlock, chain <- TopHash, span <- Spans, credited <- outputs

\* Without rescans and imports, every transaction of the scanner, the login
\* handler and the administration either leaves the ledger alone or is one step
\* of it, however old the batch that it stores.
Ledgered == Held!Spec

============================================================================
