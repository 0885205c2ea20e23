# Verification of xfo-lws

TLA+ models of the light-wallet server in this repository: what its scanner,
its database and its services promise about the accounts they serve, checked by
TLC on small instances and, for most safety properties, proved by TLAPS for every instance.

## 1. The system

`xfo-lws` holds the view keys of many wallets, scans a Monero-like chain for
their outputs and serves the results over REST.

| part | state it keeps | operations | talks to |
|---|---|---|---|
| storage (`db/storage.cpp`) | LMDB tables: blocks, pows, accounts, accounts_by_height, outputs, spends, images, requests, webhooks, events, subaddresses, imported sources, pending spends | one write transaction per operation: `sync_chain`, `sync_pow`, `update`, `rescan`, `import_*`, `creation_request`, `accept_/reject_requests`, `add_account`, `change_status`, webhooks, subaddresses, key images | everything below |
| scanner (`scanner.cpp`) | threads with their accounts, outstanding request, scanned batch; `stop_`, `shutdown_` | `run`, `sync_quick`, `sync_full`, `check_loop`, `loop`, `user_data::store` | storage, daemon, queues, HTTP client |
| account server (`rpc/scanner/server.cpp`, `queue.cpp`) | `active_`, one queue per local thread, remote connections | `check_users`, `do_replace_users`, commands of remote scanners | storage, threads, remote scanners |
| remote scanner (`rpc/scanner/client.cpp`) | copies of accounts in its threads, write buffers | `push_accounts`, `replace_accounts`, `send_update`, reconnection | account server |
| webhook client (`net/http/client.cpp`) | queue, socket, timer | `queue_async`, the coroutine `client_loop`, `on_timeout` | scan threads |
| REST server (`rest_server.cpp`) | connections, shared exchanges with the daemon, pool of sockets, caches; multisig key-exchange and unstake registries | login, import, rescan, subaddresses, wallet information, key images, submission, multisig | storage, daemon |
| administration (`rpc/admin.cpp`, `admin_main.cpp`) | none | accept, reject, add, status, rescan, rollback, webhooks | storage, from another process |
| multisig store (`db/multisig_store.cpp`) | maps in memory, one JSON file | register, load, save | REST server |
| daemon client, rates, wire formats, LMDB wrappers | sockets, caches | I/O | - |

What makes it hard. Several scan threads, remote scanners, the account server,
the REST handlers and a separate administration process write the same tables. A
batch of blocks is fetched, scanned and only then stored, while accounts may be
rolled back, rescanned, imported, deactivated or dealt to another thread. The
daemon reorganises its chain, times out or answers late, connections are lost with
commands in them, timers race with answers, and the server may die between any two
transactions. REST handlers read in one transaction and write in another, and
requests of different connections share one exchange with the daemon.

What correctness means here:

* storage: the blocks table is one chain; the index by height agrees with the
  accounts; no output of a detached block stays; difficulties follow the blocks;
* scanner: an account whose `scan_height` is h has been scanned up to h - the
  only thing a wallet can rely on - and the scanner catches up in the end;
* account server and remote scanners: every active account is scanned by some
  thread, through lost connections and re-dealing;
* webhooks: no confirmation is skipped, notifications are delivered in order, a
  time-out ends its own request only;
* subaddresses: what a wallet is told it watches is watched, within the limit;
* REST: every request is answered, once, with its own result; the handlers agree
  about a wallet's money;
* multisig: what was acknowledged survives a restart; an exchange is complete
  when it is called so.

## 2. Modules

Scanning (the core, with proofs)

* `Storage.tla` - tables and transactions of `db/storage.cpp`. Variables
  `blocks`, `accounts`, `by_height`, `outputs`, `creates`, `imports` are the tables;
  each action is one `try_write`, so a failing one leaves everything unchanged.
* `Scanner.tla` - extends Storage with the process: `phase` and `known` are the
  main loop, `thread` the scan threads, `queue` their queues, `active` the
  account server, `rest` a REST handler between its two transactions, `daemon`
  and `tip` the daemon. `Next` is the union of `ScanNext` (daemon, main loop, threads),
  `AccountNext` (account server, accounts) and `HeightNext` (everything that lowers
  a height).
  `GrowSpec` leaves out `HeightNext`.
* `Ledger.tla` - the abstract specification of the tables: one chain, and for every account a
  span of it, of which it has exactly the outputs the chain pays it. `Scanner` implements it
  (`Ledgered`) with `span` from `start_height` to `scan_height` and `chain` the newest block.
* `ScannerProofs.tla` - one lemma per transaction of Storage, one per action of Scanner, and
  the theorems. `MCScanner.tla` - instances for TLC.
* `PowSync.tla` - blocks and difficulties with and without `--untrusted-daemon`:
  `sync_quick`, `sync_full`, threads that append in either mode, the rollback command,
  restarts in the other mode.

Dealing of accounts

* `Assignment.tla` - the algorithms as functions: equal counts, block depth, split
  sync, `do_replace_users` over local threads and scanners, the best thread for a new account.
* `Remote.tla` - the account server with remote scanners: `srv` and `cli` are the two ends
  of a connection, `wire` and `up` the commands under way, `listed` is `active_`.
  `Process` says which scanner's process a connection is of. A process whose `io_context`
  stops joins its threads and makes a new client. After `cleanup()` the old socket is
  closed (`disconnect`); after a soft error of a scan thread it is not (`soft_stop`): the client stays
  connected, an "orphan" that still takes commands into queues without threads. One that
  was left behind while it was connecting is "late". `given` records what was dealt to a connection.
  Soft errors of the daemon's own threads, which start its loop again, are in Scanner only.
  `RemoteProofs.tla` - theorems about both.

Webhooks

* `Webhooks.tla` - hooks and events of one account through `update`, rollback, rescan and
  administration; `emit` is what the scan thread has still to hand on.
* `HttpClient.tla` - one `net::http::client`: `stage` is where its coroutine waits,
  `pushing` and `expired` are handlers queued in the strand.
* `Delivery.tla` - the abstract specification of the client, a queue whose head is
  ended first. `Notifications.tla` composes Webhooks and HttpClient and states that the
  composition implements Delivery (`Delivers`, with `waiting <- outgoing \o pushing`).
  `NotificationsProofs.tla` - theorems about the composition.

REST server

* `Rest.tla` - connections, and the coroutines behind `/daemon_status`,
  `/get_unspent_outs`, `/get_random_outs` and `/submit_raw_tx`; a Boost.Asio handler
  is one action, completion and time-out may both be queued. `RestProofs.tla` - its theorems.
* `Wallet.tla` - outputs, spends, images, imported sources and pending spends of one
  account, and the three handlers that derive amounts from them. `WalletProofs.tla` - its
  theorems.
* `Subaddresses.tla` - the two subaddress tables under wallets, accepted requests and the
  scan thread. The merge loop of `do_upsert` is a function of its rounds (`MergeRound`);
  `MajorTop` is a bound of the model, above every major index that can be asked for.
* `MultisigStore.tla` - the store of multisig transactions and wallets: `data` and
  `wallets` are the memory, `file` the JSON file (which may be missing, empty, cut off or
  full). A save succeeds, fails before the file is opened, fails while it is written, or
  is interrupted by a crash.
* `KexRegistry.tla` - extends MultisigStore with the key-exchange registry: `kex` and
  `kexFile`, replaced by rename and so never torn; `fin[t]`, a finalisation of REST
  thread t between its two critical sections; `now`, the clock. All other handlers hold
  the mutex from beginning to end and are one action each. `acked` and `stored` are
  history: what clients were told is registered or stored. `MultisigProofs.tla` - theorems
  about the store alone and with the registry.
* `UnstakeTxsets.tla` - the registry of unstake transaction sets, in memory only.
  `ServicesProofs.tla` - theorems about it, about PowSync and about Subaddresses.

`FoldProofs.tla` has what several proofs need: induction over numbers and finite sets,
recursive functions, and sums over finite sets.

Instances: `MCScanner`, `MCRemote`, `MCNotifications`, `MCRest`, `MCWallet`,
`MCKexRegistry`, and `MCServices` for Subaddresses, PowSync and UnstakeTxsets, which do
not interact. A variable `focus`, constant in every behaviour, lets one run explore several
restrictions of a specification side by side; a property holds in all of them.

How the code maps to the state, in short:

| code | model |
|---|---|
| block hash with its `prev_id` | the sequence of tags of the blocks up to it (`Prefix`); in PowSync height and branch; in Webhooks height and `fork` |
| a transaction that pays an account | in Scanner every block pays every account: an output is (height, block) |
| rows between genesis and the checkpoint, which the table does not have | `DOMAIN blocks = {0} \cup Checkpoint..LastBlock`, walked by `RowAfter` |
| `accounts_by_height` | a set of rows, so that two rows of one account are possible |
| `lws::account` in a thread | the scan height the thread believes (`thread[t].users`) |
| `blockchain` vector handed to `store` | `BatchChain`, with block 1 twice when the batch starts at 1 |
| division of accounts among threads, choice of a queue | any, in Scanner; computed in Assignment and Remote |
| `throw` in a thread | `shutdown` |
| process end and restart | `crash`: memory is lost, tables stay |
| global index of an output | its position in the chain, which a reorganisation may change (Wallet) |
| difficulty | the block it was computed for (PowSync) |
| lengths of time-outs | left out: an armed timer may fire at any moment |
| write that runs on several tables and fails | nothing written, except `update_lookahead` and `do_lookahead`, which keep what `do_upsert` wrote |

## 3. Runs

`CHECK_DEADLOCK FALSE` everywhere, because the processes really end (`halt`) or wait, and
because all bounds may be used up.

| run | properties | result |
|---|---|---|
| `tables` | `TypeOK ChainLinked IndexOneRow NoPhantom` | hold |
| `scan` | `NoLost IndexExact RequestCovers` | hold |
| `progress` | `Converges Ledgered` | hold |
| `admin_rescan` | `NoLost` | violated |
| `store` | `TotalLocked MemoryCovers AckedKept ActiveListed` | hold |
| `kex` | `KexAcked ReadyMeansAll` | hold |
| `rest` | `WaitsOrAnswered PoolIdle OwnTransaction StoreUnlessFired Answered` | hold |
| `wallet` | `TablesExact Balanced Offered Answerable` | hold |
| `hooks` | `Storable Told Consecutive OwnTimeout Delivers Drained` | hold |
| `remote` | `Covered InTurn Dealt NoReset Scanned` | hold |
| `services` | `TablesAgree Windows Merged PowFollows RecentlyUsedKept` | hold |
| `subaddress_ranges` | `RowsWritable` | violated |

What they show, and why the bounds are enough:

* `tables` - all actions of Scanner, one account, one thread, a reorganisation, a fault
  and two changes of height. Heights up to 4 with the checkpoint at 2 give batches below,
  across and above the checkpoint.
* `scan` - two parts. `reorg`: two threads, two accounts, two reorganisations, the account
  server dealing accounts again, no faults; a stale batch needs two threads, a missed
  account two accounts on one thread. `rescan`: users go back to heights below, at and above
  the checkpoint (4 of 6) while one thread scans, with two time-outs or crashes. `NoLost`
  and `IndexExact` do not hold of every operation (see the disagreements);
  within the bounds they hold with every operation these parts keep. `tables` has all actions.
* `progress` - two threads catch up after a reorganisation, a time-out or crash and a
  deactivation. `Converges` excludes a process that has ended and a server without active
  accounts, whose blocks table stands still. `Ledgered` on the same behaviours: every transaction is one
  step of Ledger or none. An account may be registered at a height above the chain, when
  its request waited while a fork made the chain shorter; its span then begins there.
* `store` - two parts: two addresses, two hashes, a failed save, an interrupted save, two
  crashes, a reader that takes one wallet fewer than there are; and two REST threads with
  three wallets and room for one, two failed saves. `kex` - one REST thread (the
  default), two wallets at the capacity, two rounds, expiry, a failed save, a crash. A clock of two or
  three seconds is enough for a record to expire or be the oldest.
* `rest` - two connections and two requests, of one endpoint in a behaviour (endpoints share
  only the pool of sockets): one request may start the exchange and the other join it, follow
  it or arrive while it fails. Two of the 64 attempts at random outputs.
* `wallet` - three outputs, two of them with one public key, one locked; two spends with
  both outputs in their ring; one reorganisation, two imports with right, wrong or no exact
  source, one submission, a pool that lags behind.
* `hooks` - tables: one webhook, blocks that pay, spend with and without change, a
  reorganisation, a rescan, deletion, overlapping updates, two confirmations in three
  blocks. Client: peers that answer, fail or are silent, a kept connection, SSL shutdown.
* `remote` - one scanner with two threads and two accounts, two scanners and one account, one
  scanner whose process comes back on a second connection after a soft error, a lost
  connection or a restart (`again`), or
  three accounts that come one by one (`turns`: the turn goes round more than once); three
  write buffers instead of 100; in `two` and `again` no wrong password; a lost connection or account operation at every point. `Dealt`: up to 8 accounts, 5 threads, two scanners.
* `services` - subaddresses: two addresses, three payments, three wallet operations, a limit
  of five that is reached. `Merged`: all sequences of two stored and two requested ranges over
  seven indices, against the union of sets. PoW: checkpoint 3, fork at 5, three restarts or
  reorganisations. Registry: three ids, two owners, room for three.

Conditions inside properties. They name what the code does not guarantee; each is a
disagreement or an observation below. `AckedKept` - while no save failed (`spoiled`).
`Storable` - no spend without a later output, no rescan to an event's height.
`Consecutive` - not for blocks the account was already past. `Drained` - no second loop, no
request without timer. `Covered`, `Scanned` - accounts the dealing left out (`left`) or gave to a client that its
process has left behind (`Stranded`); `Covered` and `InTurn` while there
is a thread to deal to: without one `do_replace_users` returns early and `active_` keeps its list.
`TablesAgree` - ids with rows of another address (`Adopted`), majors cut off at
the limit. `Windows` - batches raced by an import (`raced`). `PowFollows` - never
trusted mode (`trusting`), no batch that ends just below the checkpoint (`abutting`).
`Offered` - no block was detached.

Fairness. `progress`: the main loop, the threads and the account server's timer keep
running (weak fairness of each of their actions; these are threads and an `io_context` that
block only on the conditions in the guards), and the daemon keeps mining up to the bound.
`rest`: a handler that is queued runs and an armed timer expires; the daemon need never
answer. `hooks`: the same for the strand of the client, and an operation on a socket that was
shut down completes; the peer need never answer. `remote`: the timer, the handlers of both
ends and the scan threads; connections need not stay. Nothing is assumed about
reorganisations, faults, clients or administration; they are bounded in number.

### Disagreements between code and documentation

1. `change_height` (`db/storage.cpp:2659`) deletes the outputs of block `height` itself, but
   scanning resumes at `height + 1`: a rescan from a height inside the scanned range loses
   that block (`admin_rescan`; also the automatic rescan after key images).
2. The merge of `do_upsert` (`db/storage.cpp:2447`) extends the first stored range a new one
   touches and does not go on to the next: stored [0,0],[2,2] and requested [1,3] leave
   [0,3],[2,2], which the server's own writer refuses (`db/data.cpp:105`, `121`)
   (`subaddress_ranges`).

### Further observations

The models also contain these behaviours; no run is kept for them.

Scanning

* An accepted import for another lookahead deletes outputs at and above the requested
  height even when `start_height` is older (`storage.cpp:2659`; `storage.h:294`).
* `change_height` puts the index row at the requested height even if the record is lower
  (`storage.cpp:2677`; `data.h:189`). After a reorganisation between read and write of
  `/request_rescan` the next rollback raises `scan_height` over unscanned blocks.
* `store` labels a batch with the height of the oldest account it holds, not with the height
  the batch was requested at (`scanner.cpp:1563`; `storage.h:323`). Below the
  checkpoint, where no hash is compared, accounts that replaced the old ones are
  credited with blocks they never saw.
* A gap in an update does not fail it; the account is skipped (`storage.cpp:3457`;
  `storage.h:319`).
* A batch from height 1 contains block 1 twice. Without checkpoints (regtest,
  `Checkpoint = 1`) the hashes are stored one height too high and `ChainLinked` fails; hence
  the assumption `2 <= Checkpoint` of the proofs.
* A creation request approved after the chain was shortened makes an honest batch
  `bad_blockchain` and ends the process.
* The known-hash list after the first answer is one hash and genesis; a reorganisation
  of that hash during the sync is taken for an attack and ends the process.
* `sync_pow` passes over blocks that are stored already without writing their difficulty:
  after trusted mode, or a batch that ends just below the checkpoint, `pows` has a hole, and
  `get_pow_window` fails or counts difficulties of other heights (`storage.cpp:2050-2075`, `1870-1884`).
* The database upgrade converts the requests table from the rows of the accounts table
  (`storage.cpp:909`).

Dealing and remote scanners

* A remote scanner whose thread ends with a soft error (no blocks in time, or wrong ones;
  `scanner.cpp:752-777`) does not recover: `client_main.cpp:326` makes a new client, and nobody
  closes the old one. Its pending read keeps it alive, the server sees a second live scanner with
  all its threads and deals it a share of the accounts, which no thread scans until that
  connection ends (`Stranded`). `scanner.h:125` calls such an error "soft, typically recoverable".
  Without `Stranded(a)` TLC finds `Covered` violated: a scanner connects, is given an account, loses
  its thread to a soft error and connects again, and the account is dealt to the first connection.
* `do_replace_users` rounds accounts per thread down before it multiplies by the threads of a
  scanner; the remainder is dealt to nobody until the next replacement (`server.cpp:456`).
* The round robin of `check_users` moves as many accounts as a scanner has threads and erases
  one (`server.cpp:375`). A connection that is not initialised yet has no threads; what
  the round robin gives it is dropped.
* Split sync with a ratio of 1.0 leaves no thread for accounts that are not synced
  (`scanner.cpp:1184`).

Webhooks

* A spend after which the account received nothing fails the whole update
  (`check_spends`, `storage.cpp:3283`; `docs/zmq.md:125`).
* A rescan to exactly the height of an event deletes the output and keeps the event; every
  later update fails (`storage.cpp:3222`).
* `webhook_delete` by address leaves tx-spend hooks (`docs/administration.md:376`);
  overlapping updates make completed events again (`docs/administration.md:308`).
* A time-out that races a finished resolve cancels nothing and is not set again
  (`client.cpp:277`); a message queued during SSL shutdown starts a second loop on the same state
  (`client.cpp:443`).

Subaddresses

* `do_lookahead` advances its cursor only for outputs of subaddresses: an output of the main
  address makes it loop for ever inside a write transaction (`storage.cpp:2559`, `hung`).
* Creating an account that exists leaves subaddress rows under the next id, which the
  next account adopts (`storage.cpp:2996`).
* A lookahead beyond the limit commits what `do_upsert` wrote although the range row was
  deleted (`storage.cpp:2404`). An import or rescan during a batch forgets that its
  lookahead failed (`storage.cpp:2655`).
* `update_lookahead` returns the number of major indices, not of new subaddresses
  (`storage.h:359`). `import_request` shrinks the lookahead only when both indices differ
  (`rest_server.cpp:3112`).

REST

* Exact sources are kept by global index. After a reorganisation that changes the index,
  `/get_unspent_outs` applies a source to another output than before (`rest_server.cpp:2744`; `2806`).
* The fee cache of `/get_unspent_outs` starts empty with the time 0 of the steady clock and, unlike
  the one of `/daemon_status` (`1506`), is not asked whether it holds a result: in the first five
  seconds of that clock the empty one is served (`rest_server.cpp:2897`).
* A crash between relaying a transaction and writing its pending spends offers the outputs
  again until the transaction confirms (`rest_server.cpp:4222`).

Multisig

* `save_locked` truncates the multisig file and writes it in place: a crash, or a full
  disk, loses transactions acknowledged before. A registration whose save failed stays in
  memory, and its repetition is answered with success although no file has it. Therefore
  `AckedKept` is about saves that all succeeded; `TxAcked` alone fails.
* Limits are checked only when a file is read: one address or transaction too many and
  the server does not start; one wallet too many and the reader falls back to the old
  format and drops all wallets; one participant too many and the key-exchange registry
  starts empty. `AckedKept` and `KexAcked` are checked within the limits.
* An undone finalisation writes back a copy made before its first unlock and overwrites
  a submission acknowledged meanwhile: `KexAcked` fails with two REST threads, so it is
  checked with one, the default. A crash between the two files leaves an active record
  without a wallet.
* At the capacity of the registry every request, also a status request, evicts the oldest
  record that is not final, possibly the one it is about; each further thread may exceed the
  capacity by one. The unstake registry evicts in the same way, and a second owner that
  registers the same set is told success but cannot sign.

## 4. Proofs

TLAPS proves the following of the specifications, for every value of the constants that
the named `ASSUME`s of the modules allow (constants are naturals, a tag, a table of
the right shape); nothing is assumed about the bounds or about how many accounts,
threads, connections, wallets or messages there are. Each theorem rests on an inductive
invariant, which TLC checked on the instance of the run before it was proved.

| module | theorem | property | further hypotheses |
|---|---|---|---|
| ScannerProofs | `Inductive`, `TypeCorrect`, `ChainSafe`, `IndexSafe`, `OutputsSafe`, `RequestsSafe` | `IInv`, `TypeOK`, `ChainLinked`, `IndexOneRow`, `NoPhantom`, `RequestCovers` | `2 <= Checkpoint` |
| | `NothingLost`, `IndexKept` | `NoLost`, `IndexExact` | `2 <= Checkpoint`; `GrowSpec` |
| | `AdvancesCover`, `HeldExactly` | `AdvanceCovers`, `Held!Exact` (in no run: they follow from `NoLost` and `NoPhantom`) | the same |
| | `LedgerKept` | `Ledgered` (refinement of Ledger) | the same |
| MultisigProofs | `StoreTypeCorrect`, `StoreCovers`, `WholeCovers` | `StoreTypeOK`, `MemoryCovers` | - |
| | `TotalsSumUp` | `TotalLocked` | - |
| | `AcksKept` | `AckedKept` | addresses and transactions within the reader's limits |
| | `ActiveAreListed` | `ActiveListed` | - |
| | `ReadyIsReady` | `ReadyMeansAll` | no request finalises to `"ready_to_make"` |
| | `SubmissionsKept` | `KexAcked` | one REST thread; records within the reader's limits |
| RestProofs | `AnsweredOnce`, `SocketsIdle`, `TransactionsOwn`, `StoresInTime` | `WaitsOrAnswered`, `PoolIdle`, `OwnTransaction`, `StoreUnlessFired` | - |
| NotificationsProofs | `UpdatesFit`, `ConfirmationsTold`, `CountsConsecutive`, `TimersOwn` | `Storable`, `Told`, `Consecutive`, `OwnTimeout` | - |
| | `ClientDelivers` | `Delivers` (refinement of Delivery) | - |
| WalletProofs | `TablesKept`, `UnspentAnswered`, `BalanceKept` | `TablesExact`, `Answerable`, `Balanced` | - |
| | `OfferedKept` | `Offered` | `HonestSources` |
| ServicesProofs | `TxsetsKept` | `RecentlyUsedKept` | - |
| | `DifficultiesFollow` | `PowFollows` | `2 <= LastCheckpoint` |
| | `TablesAlwaysAgree`, `WindowsAlways` | `TablesAgree`, `Windows` | - |
| | `MergesExactly` | `MergeExact(old, new)` for every `old`, `new` | both sequences are valid |
| | `MergedAlways` | `Merged` | - |
| RemoteProofs | `TypesHold`, `TurnsFound`, `ListedCovered`, `NeverReset` | `InTurn`, `Covered`, `NoReset` | - |
| | `CountAlwaysDealt`, `ReplaceAlwaysDealt`, `DepthAlwaysDealt`, `SplitAlwaysDealt`, `BestAlwaysFits` | the parts of `Dealt`, for every input | what the caller ensures: a thread to deal to, no more threads for synced accounts than threads |
| | `DealtThroughout` | `Dealt` | - |

Scanning. `2 <= Checkpoint` holds on every network with checkpoints; without it
`ChainLinked` fails (section 3). `IInv` is the type invariant, `ChainLinked`,
`IndexOneRow`, `NoPhantom` and `RequestCovers` with what they need:

* `DaemonOK` - everything read from the daemon contains the checkpoint, and a batch
  about to be stored has its overlap block and one more;
* `UsersHeld` - the accounts a thread or a queue holds exist and were loaded at or after
  their `start_height` (otherwise a found output could lie before it);
* `NoOrphans` - an unregistered address has no outputs.

The heart is `BatchAligned` (ScannerProofs): `update` is told a height that may be
wrong (observation on `scanner.cpp:1563`), yet compares only one hash. Hashes of different
heights differ and equal hashes have equal ancestors, so when the comparison succeeds the
batch is aligned with the table and everything appended or credited is on the one chain.
Below the checkpoint nothing is compared, but all chains agree there. Each transaction has a
lemma (`AppendStep`, `ReorgStep`, `UpdateStep`, `ChangeHeightStep`, `AddStep`, `StatusStep`,
`RequestsStep`): it preserves the tables' invariant and only lowers `start_height`.
One lemma per action follows for the threads and queues.

`NoLost`, `IndexExact`, `AdvanceCovers` and `Ledgered` are false of `Spec` (disagreement 1, and the
observations on `change_height` and `store`). They are proved of `GrowSpec`: every step of
the daemon, the main loop, the threads, the account server and the account operations, and
no rescan or import. Rescans and imports go together with all three gaps: they write the
index row at the requested height, drop outputs the record does not ask for again, and may
lower accounts below the checkpoint, where `update` compares no hash and a mislabelled batch
is credited. `GrowInv` says that accounts start at or above the checkpoint
(`HighStarts`), are complete up to their height, and have their row there; with `BatchAligned`
a batch then either carries exactly the next blocks of an account or is refused.
Restricted rescans are checked by the run `scan`.

`LedgerKept` follows: `Held!Exact` (`ExactHere`, from `NoPhantom` and `Complete`) holds before and
after a step, so that what a step does to the outputs follows from what it does to the chain
and to the spans. `LedgerGrows` and `LedgerDetached` are those two cases; the lemmas
`LedgerSync`, `LedgerStore`, `LedgerAdd` and `LedgerAccount` find the step of Ledger for each
transaction. A fork is `Detach` because the index is exact: `rollback_accounts` walks the index
and thereby finds every account above the fork.

Multisig. `StoreTypeCorrect` (the sum never exceeds the 64-bit maximum) is
inductive by itself, because `Registers` compares with what is left before adding.
`StoreCovers` needs only the type invariant: a save that succeeds makes file and memory
equal, one that fails leaves an older file or an unreadable one, and a registration only
replaces what was absent or 0. What it leaves open - that the file can be read at
all - is false (section 3). `WholeCovers` carries it over to the store with the registry
(`StoreInWhole`: a step of the registry is a step of the store or only counts a failed save).
`TotalsSumUp` uses the sums of FoldProofs: a registration adds one amount that was absent or
0, and everything else copies whole tables.
`AckInv`: without a failed save the file is the memory and readable. `ActiveInv`: an active
record is listed or a finalisation is about to list it, and a finalisation to be undone has
listed it already - which is why two threads cannot break it. `ReadyInv` covers the records
in memory, in the file and those kept for an undo. The status of a finalize request is
copied from the request, so that a client that asks for `"ready_to_make"` by name gets it;
`ReadyIsReady` excludes that. `KeptInv`: memory, file and the record kept for an
undo hold every message that is due; the registry never exceeds its capacity and a record
never names more than the parties of its wallet and one more, so the reader accepts the file
(`WithinReader`). With two threads it is false (section 3).

REST. `RestIInv` relates the queue of a frame, its socket and its timer (`QueueInv`,
`SocketInv`), and the transactions under way at the daemon (`DaemonInv`). The lemmas are
ordered by what a step changes: one request, one frame, the pool.

Webhooks. `TablesInv` says where the events of an account come from: each has its
webhook and an output of the chain, and what its webhook was told reaches up to the scan
height (`EventInv`, `SentInv`, `FollowInv`); `ClientInv` that a timer which is armed or
expired belongs to the request the loop waits for or to an earlier state (`TimerInv`).
`ClientDelivers` is a step simulation: with `waiting <- outgoing \o pushing` each step of the
composition appends, takes the head, or leaves the queue alone.

Wallet. Rows come from the block at their height (`Rows`), and a key image is used in one
block of a chain (`ImagesOnce`); so a detached block takes its rows with it, and what is left
belongs to blocks the daemon has. `BalanceKept` divides the outputs into those that are the
source of a spend, those that a transaction just sent holds, and those that are offered; the
sums over the three make up what was received (`SumUnion`), and the sums over transactions
are sums over the parts that they divide the outputs into (`SumParts`).

Ids of outputs are positions in the chain (`Indexed`, followed block by block by `Layout`);
`NumberInv` says that a row carries the position of its output, so that no two rows have
one id (`IdsDiffer`), and chains that begin alike number alike (`SameIds`).

`OfferedKept` needs two more invariants. `SourceInv`: as long as no block was detached, an
imported source has the id of its output. `RingInv`: ring members are older than the spend, and a
spend has a row for every output of its ring that the account has; so what a confirmed
image may spend is known as such. A source may still be an output that no input with its image
could spend: `/import_key_images` looks at no ring (`storage.cpp:3586`).
`HonestSources` excludes such requests;
without it TLC finds an output that a wrong source withholds. The instance of the run
satisfies it (`ASSUME HonestImports` in MCWallet).

Services. `FilledTo(k)`: without trusted mode and abutting batches both tables are
filled from genesis to k and the blocks table has the checkpoint besides. The last
checkpoint must be above block 1: a first answer that is genesis alone would abut.
`TxsetIInv`: one record per id, which carries the time of its last use, and
`RecentlyUsedKept` itself.

Subaddresses. `MergesExactly` is about the loop of `do_upsert` for ranges of any number and
size. Its invariant (`MergeKeeps`; `Parted` for ranges that touch one stored range each) says
after every round what of the two sequences is done, what is left and what was reported; that
the rounds end is counted. `TablesAgree` is not inductive: accounts are keyed by id, ids are
given in turn, and an id may have rows before it has an account (section 3). `SubIInv`
therefore says of every id, given or not, that its ranges and its rows are the same indices
except for what was cut off, that they are at most the limit if they are all of one address, and
that a stored range ends no earlier than it begins (`AccountTables`); and of the accounts that
their ids are the first ones, each given once (`IdsGiven`). `Windows` is about accounts without a recorded failure;
inductive is that the windows are complete *below* a recorded failure as well (`Repaired`), because
a rescan that clears the record deletes the outputs from there on, and that all this holds of the outputs
a batch under way has found, unless an import or rescan raced it (`WindowsAt`).

Remote scanners. The dealing functions of Assignment are recursive. `Reaches` and `LeastNumber`
(FoldProofs) are induction for one set of numbers, which needs no operator as a parameter; from
them follow `Rounds` (the function a recursion describes exists) and `SameRounds` (it is the only
one), and then what each loop does. `CountAlwaysDealt` bounds what is left after i threads from
both sides by the quotient, `ReplaceAlwaysDealt` the same over threads and scanners with the
remainder of each division; `DepthAlwaysDealt` follows the sum that a thread has been given
to the account at which the loop goes on; `SplitAlwaysDealt` applies the loop twice, to
disjoint groups of threads; `BestAlwaysFits` says of each round that the choice is best among the
threads seen so far. `EveryDeal` joins them for the inputs of the run.

* `TurnInv` - `next_thread_` is a turn of the connections there are. The connections are
  weighed by slot (`WeightsOf`), so that the sum does not depend on the order in which `lock()`
  finds them; `TurnsAgree` takes it over to every order. A connection that comes has no
  threads yet, and one that goes starts the turns over.
* `CopiesInv` - wherever a copy of an account is, with a thread or in a command, it is not
  above the database, or not above an update that its own scanner sent before and that will be
  read before anything that was found with it. So updates fit in the order they are read.
* `CoverInv` - an account that is listed is with a local thread, or named by a command behind
  which no `replace_accounts` comes, or with a thread of a scanner that has no
  `replace_accounts` to read; a replacement in the wire would take everything else away. What a
  connection has was `given` to it (`Kept`), so that it is accounted for as stranded when the
  process leaves the client behind, whatever of it was read by then.

Only model-checked: `Converges`, `Answered`, `Drained`, `Scanned` - liveness, which is out of
the prover's reach - and `NoLost`, `IndexExact` with the restricted rescans
of the run `scan`. Every other property of a passing run is a theorem.

## 5. Plan

All steps of the plan are done. The next one would be the rescans and imports whose heights
are harmless, as steps of Ledger that shorten one span.

Not modelled: cryptography and the arithmetic of difficulties (opaque); the daemon RPC client
(ZeroMQ calls; its answers, time-outs and failures are in the modules that use it); exchange
rates (one cached value); the random choice of decoys (floating point; its conversation with
the daemon is in Rest); wire formats (no state); the LMDB wrappers (taken as atomic, isolated
and durable); the upgrade of older databases (runs once, and needs their layouts); the parsing
of options; read-only listing commands.
