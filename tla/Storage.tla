------------------------------ MODULE Storage ------------------------------
(***************************************************************************)
(* The LMDB tables of db/storage.cpp that the scanner and the REST/admin   *)
(* servers share: the block hashes, the accounts with their secondary      *)
(* index by scan height, the received outputs and the two request queues.  *)
(* Every write is one LMDB write transaction (storage::try_write), so every *)
(* action below is one whole transaction; an error returned by the lambda  *)
(* aborts the transaction, which is why failures leave all tables alone.   *)
(*                                                                         *)
(* Data abstraction.  A block at height h is identified by the tags of     *)
(* the blocks 1..h below and including it, so that two equal hashes have   *)
(* equal ancestors (prev_id is part of a block).  Every block pays every   *)
(* account once: an output is the pair of its height and its block, and a  *)
(* block that was never scanned is an output that is missing.  Rows of the *)
(* spends and images tables follow the same rollback and insert rules as   *)
(* the outputs and are not kept separately.                                *)
(***************************************************************************)
EXTENDS Integers, FiniteSets

CONSTANTS
  Account,         \* addresses that may be registered
  Tag,             \* distinguishes competing blocks of one height
  MainTag,         \* the tag of the blocks every checkpointed chain shares
  Checkpoint,      \* get_checkpoints().get_max_height()
  CreateQueueMax   \* --create-queue-max

ASSUME StorageAssumption ==
  /\ MainTag \in Tag
  /\ Checkpoint \in Nat
  /\ CreateQueueMax \in Nat

VARIABLES
  blocks,     \* blocks table: height -> hash, heights {0} and Checkpoint..last
  accounts,   \* accounts table: status, start_height, scan_height
  by_height,  \* accounts_by_height index: rows of (height, account_lookup)
  outputs,    \* outputs table, per account
  creates,    \* requests table, request::create: requested start height
  imports     \* requests table, request::import_scan: requested height

storage_vars == <<blocks, accounts, by_height, outputs, creates, imports>>

NoRequest == -1
Status == {"active", "inactive", "hidden"}

----------------------------------------------------------------------------
(* Hashes and chains.                                                      *)

\* The hash of the ancestor at height h of (or of the block itself) c.
Prefix(c, h) == [i \in 1..h |-> c[i]]

\* A hash of a block at height h.
Hash(h) == [1..h -> Tag]

\* The checkpointed block: the one row besides genesis in a new database.
CheckpointHash == [i \in 1..Checkpoint |-> MainTag]

\* A chain an honest daemon can have: it contains the checkpoint.
OnCheckpoint(c, h) == \A i \in 1..h : i <= Checkpoint => c[i] = MainTag

Least(x, y) == IF x <= y THEN x ELSE y
Most(x, y) == IF x >= y THEN x ELSE y

\* MDB_LAST_DUP on the blocks table.
LastOf(b) == CHOOSE h \in DOMAIN b : \A g \in DOMAIN b : g <= h

LastBlock == LastOf(blocks)

\* do_get_block_hash of a height of the database's chain, also for heights
\* below the checkpoint that the table does not store.
ChainHash(h) == Prefix(blocks[LastBlock], h)

----------------------------------------------------------------------------
(* Accounts and the index.                                                 *)

Exists(a) == accounts[a].status # "none"

\* An accounts record.
Record(status, start, scan) == [status |-> status, start |-> start, scan |-> scan]

Row(h, a, s) == [height |-> h, id |-> a, status |-> s]

RowsOf(a) == {r \in by_height : r.id = a}

\* MDB_GET_BOTH on accounts_by_height with the account's own scan height.
Indexed(a) == \E r \in RowsOf(a) : r.height = accounts[a].scan

\* Mutant: the old index row is not deleted.
MovedRowKeepsOld(a, h, s) == by_height \cup {Row(h, a, s)}

\* The index after mdb_cursor_del of the row found at the scan height and
\* mdb_cursor_put of a new one.
MovedRow(a, h, s) ==
  {r \in by_height : ~ (r.id = a /\ r.height = accounts[a].scan)} \cup {Row(h, a, s)}

\* Mutant: the outputs of the first detached block stay.
RollbackOutputsAbove(outs, h) == {o \in outs : o.height <= h}

\* The rows that rollback_outputs(user, height) deletes.
RollbackOutputs(outs, h) == {o \in outs : o.height < h}

\* do_add_account, after its check that the address is new: an account with
\* account_flags::admin_account starts hidden, every other one active.
AddedStatus == {"active", "hidden"}

DoAddAccount(a, status, h) ==
  /\ accounts' = [accounts EXCEPT ![a] = Record(status, h, h)]
  /\ by_height' = by_height \cup {Row(h, a, status)}

----------------------------------------------------------------------------
(* rollback_chain: block rows, then every account whose INDEX row is at or *)
(* above the height, whatever its scan_height says.                        *)

\* Mutant: the accounts at the height itself are left alone.
RolledBackAbove(h) == {a \in Account : \E r \in RowsOf(a) : r.height > h}

RolledBack(h) == {a \in Account : \E r \in RowsOf(a) : r.height >= h}

RollbackAccounts(h) ==
  LET new_height == Most(h, 1) - 1 IN
  /\ accounts' = [a \in Account |->
       IF a \in RolledBack(h)
       THEN Record(accounts[a].status, Least(new_height, accounts[a].start), new_height)
       ELSE accounts[a]]
  /\ outputs' = [a \in Account |->
       IF a \in RolledBack(h) THEN RollbackOutputs(outputs[a], h) ELSE outputs[a]]
  /\ by_height' = {r \in by_height : r.height < h}
       \cup {Row(new_height, r.id, r.status) : r \in {q \in by_height : q.height >= h}}

----------------------------------------------------------------------------
(* storage::sync_chain(s, hashes): hashes is a 0-based vector of n hashes. *)

\* The k-th row MDB_NEXT_DUP visits after the row of height s: the table has
\* no rows strictly between genesis and the checkpoint.
RowAfter(s, k) == IF s < Checkpoint THEN Checkpoint + k - 1 ELSE s + k

\* Mutant: the first row of the walk is not compared.
MismatchSecond(s, n, hashes) ==
  {k \in 2..(n - 1) : /\ RowAfter(s, k) \in DOMAIN blocks
                      /\ blocks[RowAfter(s, k)] # hashes[k]}

Mismatch(s, n, hashes) ==
  {k \in 1..(n - 1) : /\ RowAfter(s, k) \in DOMAIN blocks
                      /\ blocks[RowAfter(s, k)] # hashes[k]}

FirstMatches(s, hashes) == s \in DOMAIN blocks /\ blocks[s] = hashes[0]

\* Every row the walk meets agrees: append what the table does not have.
sync_chain_append(s, n, hashes) ==
  /\ FirstMatches(s, hashes)
  /\ Mismatch(s, n, hashes) = {}
  /\ blocks' = [h \in DOMAIN blocks \cup ((s + 1)..(s + n - 1)) |->
                  IF h \in DOMAIN blocks THEN blocks[h] ELSE hashes[h - s]]
  /\ UNCHANGED <<accounts, by_height, outputs, creates, imports>>

\* The k-th row is the first that disagrees: roll back to it, then append.
sync_chain_reorg(s, n, hashes) ==
  /\ FirstMatches(s, hashes)
  /\ \E k \in Mismatch(s, n, hashes) :
       /\ \A j \in Mismatch(s, n, hashes) : k <= j
       /\ Checkpoint < s + k
       /\ blocks' = [h \in {g \in DOMAIN blocks : g < s + k} \cup ((s + k)..(s + n - 1)) |->
                       IF h < s + k THEN blocks[h] ELSE hashes[h - s]]
       /\ RollbackAccounts(s + k)
  /\ UNCHANGED <<creates, imports>>

\* error::bad_blockchain: no common first block, or a rollback that would
\* pass the last checkpoint.
SyncRefused(s, n, hashes) ==
  \/ ~ FirstMatches(s, hashes)
  \/ \E k \in Mismatch(s, n, hashes) :
       /\ \A j \in Mismatch(s, n, hashes) : k <= j
       /\ s + k <= Checkpoint

----------------------------------------------------------------------------
(* storage::update(m, chain, users): chain is a 0-based vector of n hashes *)
(* starting at height m, users maps account ids to the scan height the     *)
(* caller scanned from, found[a] are the outputs it collected.             *)

LastUpdate(m, n) == m + n - 1

UpdateBad(m, n, chain) ==
  IF Checkpoint <= LastUpdate(m, n)
  THEN LastBlock < m
  ELSE /\ LastUpdate(m, n) \in DOMAIN blocks
       /\ chain[n - 1] # blocks[LastUpdate(m, n)]

LastSame(m, n) == Least(LastBlock, LastUpdate(m, n))

\* Mutant: only the first hash of the batch is compared.
UpdateReorgFirst(m, n, chain) ==
  /\ Checkpoint <= LastUpdate(m, n)
  /\ m <= LastBlock
  /\ m \in DOMAIN blocks
  /\ blocks[m] # chain[0]

UpdateReorg(m, n, chain) ==
  /\ Checkpoint <= LastUpdate(m, n)
  /\ m <= LastBlock
  /\ blocks[LastSame(m, n)] # chain[LastSame(m, n) - m]

\* Accounts counted in updated::accounts_updated.
Updated(users) == {a \in DOMAIN users : Exists(a) /\ users[a] <= accounts[a].scan}

\* Accounts whose record is really rewritten.
Stored(m, n, users) == {a \in Updated(users) : accounts[a].scan < LastUpdate(m, n)}

\* MDB_NOTFOUND on the old index row aborts the transaction.
UpdateLost(m, n, users) == \E a \in Stored(m, n, users) : ~ Indexed(a)

UpdateFails(m, n, chain, users) ==
  UpdateBad(m, n, chain) \/ (~ UpdateReorg(m, n, chain) /\ UpdateLost(m, n, users))

AppendChain(m, n, chain) ==
  IF Checkpoint <= LastUpdate(m, n)
  THEN [h \in DOMAIN blocks \cup ((LastSame(m, n) + 1)..LastUpdate(m, n)) |->
          IF h \in DOMAIN blocks THEN blocks[h] ELSE chain[h - m]]
  ELSE blocks

update(m, n, chain, users, found) ==
  LET S == Stored(m, n, users) IN
  /\ ~ UpdateBad(m, n, chain)
  /\ ~ UpdateReorg(m, n, chain)
  /\ ~ UpdateLost(m, n, users)
  /\ blocks' = AppendChain(m, n, chain)
  /\ accounts' = [a \in Account |->
       IF a \in S THEN Record(accounts[a].status, accounts[a].start, LastUpdate(m, n))
       ELSE accounts[a]]
  /\ by_height' = {r \in by_height : ~ (r.id \in S /\ r.height = accounts[r.id].scan)}
       \cup {Row(LastUpdate(m, n), a, accounts[a].status) : a \in S}
  /\ outputs' = [a \in Account |-> IF a \in S THEN outputs[a] \cup found[a] ELSE outputs[a]]
  /\ UNCHANGED <<creates, imports>>

----------------------------------------------------------------------------
(* change_height: shared by storage::rescan and import_accounts.  The      *)
(* record keeps the lower of the two heights, the index row is always      *)
(* written at the requested height.                                        *)

\* Mutant: start_height is not lowered.
ChangeHeightKeepsStart(a, h) ==
  /\ Exists(a)
  /\ Indexed(a)
  /\ accounts' = [accounts EXCEPT ![a] = Record(accounts[a].status, accounts[a].start,
                                              Least(h, accounts[a].scan))]
  /\ outputs' = [outputs EXCEPT ![a] = RollbackOutputs(outputs[a], h)]
  /\ by_height' = MovedRow(a, h, accounts[a].status)

ChangeHeight(a, h) ==
  /\ Exists(a)
  /\ Indexed(a)
  /\ accounts' = [accounts EXCEPT ![a] = Record(accounts[a].status, Least(h, accounts[a].start),
                                              Least(h, accounts[a].scan))]
  /\ outputs' = [outputs EXCEPT ![a] = RollbackOutputs(outputs[a], h)]
  /\ by_height' = MovedRow(a, h, accounts[a].status)

rescan(a, h) ==
  /\ h <= LastBlock      \* else error::bad_height
  /\ ChangeHeight(a, h)
  /\ UNCHANGED <<blocks, creates, imports>>

\* accept_requests(request::import_scan)
import_accounts(a) ==
  /\ imports[a] # NoRequest
  /\ imports' = [imports EXCEPT ![a] = NoRequest]
  /\ ChangeHeight(a, imports[a])
  /\ UNCHANGED <<blocks, creates>>

import_request(a, h) ==
  /\ Exists(a)
  /\ imports[a] = NoRequest   \* else error::duplicate_request
  /\ imports' = [imports EXCEPT ![a] = h]
  /\ UNCHANGED <<blocks, accounts, by_height, outputs, creates>>

----------------------------------------------------------------------------
(* Account creation and status.                                            *)

add_account(a, s) ==
  /\ ~ Exists(a)              \* else error::account_exists
  /\ DoAddAccount(a, s, LastBlock)
  /\ UNCHANGED <<blocks, outputs, creates, imports>>

creation_request(a) ==
  /\ ~ Exists(a)
  /\ Cardinality({b \in Account : creates[b] # NoRequest}) < CreateQueueMax
  /\ creates[a] = NoRequest   \* else error::duplicate_request
  /\ creates' = [creates EXCEPT ![a] = LastBlock]
  /\ UNCHANGED <<blocks, accounts, by_height, outputs, imports>>

\* accept_requests(request::create): the request is consumed even when the
\* address was registered in the meantime.
create_accounts(a) ==
  /\ creates[a] # NoRequest
  /\ creates' = [creates EXCEPT ![a] = NoRequest]
  /\ IF Exists(a)
     THEN UNCHANGED <<accounts, by_height>>
     ELSE DoAddAccount(a, "active", creates[a])
  /\ UNCHANGED <<blocks, outputs, imports>>

reject_requests(a) ==
  /\ \/ creates[a] # NoRequest /\ creates' = [creates EXCEPT ![a] = NoRequest]
                               /\ UNCHANGED imports
     \/ imports[a] # NoRequest /\ imports' = [imports EXCEPT ![a] = NoRequest]
                               /\ UNCHANGED creates
  /\ UNCHANGED <<blocks, accounts, by_height, outputs>>

change_status(a, s) ==
  /\ Exists(a)
  /\ accounts[a].status # s
  /\ Indexed(a)               \* else the transaction aborts
  /\ accounts' = [accounts EXCEPT ![a] = Record(s, accounts[a].start, accounts[a].scan)]
  /\ by_height' = MovedRow(a, accounts[a].scan, s)
  /\ UNCHANGED <<blocks, outputs, creates, imports>>

----------------------------------------------------------------------------
(* check_blockchain on a new database: genesis and the last checkpoint.    *)

StorageInit ==
  /\ blocks = [h \in {0, Checkpoint} |-> Prefix(CheckpointHash, h)]
  /\ accounts = [a \in Account |-> Record("none", 0, 0)]
  /\ by_height = {}
  /\ outputs = [a \in Account |-> {}]
  /\ creates = [a \in Account |-> NoRequest]
  /\ imports = [a \in Account |-> NoRequest]

----------------------------------------------------------------------------

\* The blocks table has genesis and no holes above the checkpoint.
BlocksOK ==
  /\ LastBlock \in Nat /\ Checkpoint <= LastBlock
  /\ blocks = [h \in {0} \cup (Checkpoint..LastBlock) |-> blocks[h]]
  /\ \A h \in DOMAIN blocks : blocks[h] \in Hash(h)

AccountsOK ==
  /\ accounts \in [Account -> [status : Status \cup {"none"}, start : Nat, scan : Nat]]
  /\ \A a \in Account : accounts[a].start <= accounts[a].scan
  /\ by_height \subseteq [height : Nat, id : Account, status : Status]

OutputsOK ==
  /\ outputs = [a \in Account |-> outputs[a]]
  /\ \A a \in Account : \A o \in outputs[a] :
       o = [height |-> o.height, block |-> o.block] /\ o.height \in Nat

\* Types of the tables.
TablesOK ==
  /\ BlocksOK /\ AccountsOK /\ OutputsOK
  /\ creates \in [Account -> Nat \cup {NoRequest}]
  /\ imports \in [Account -> Nat \cup {NoRequest}]

\* All rows of the blocks table lie on one chain, the checkpoint included,
\* although update compares one hash and sync_chain stops at the first one
\* that differs.
ChainLinked ==
  /\ \A h \in DOMAIN blocks : blocks[h] = ChainHash(h)
  /\ OnCheckpoint(blocks[LastBlock], LastBlock)

\* Every account has exactly one row in accounts_by_height, with the status
\* of its record and never below its scan height: a rollback_accounts that
\* walks the index can neither miss an account nor meet it twice.
IndexOneRow ==
  \A a \in Account :
    IF Exists(a)
    THEN \E r \in by_height : /\ RowsOf(a) = {r}
                              /\ r.status = accounts[a].status
                              /\ accounts[a].scan <= r.height
    ELSE RowsOf(a) = {}

\* The row is at the scan height itself, where update, change_status and
\* change_height look for it.
IndexExact == \A a \in Account : Exists(a) => Indexed(a)

\* No output of a block that was reorganised away, that lies outside the
\* scanned range of the account, or that the chain of the database does not
\* contain, is in the table.
NoPhantom ==
  \A a \in Account : \A o \in outputs[a] :
    /\ accounts[a].start < o.height /\ o.height <= accounts[a].scan
    /\ o.height <= LastBlock
    /\ o.block = ChainHash(o.height)

\* An address that is not registered has no outputs.
NoOrphans == \A a \in Account : ~ Exists(a) => outputs[a] = {}

\* No output is missing: scan_height is the last block scanned, so the table
\* has what every block after start_height up to scan_height pays.
NoLost ==
  \A a \in Account : Exists(a) =>
    \A h \in (accounts[a].start + 1)..accounts[a].scan :
      [height |-> h, block |-> ChainHash(h)] \in outputs[a]

============================================================================
