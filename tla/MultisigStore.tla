--------------------------- MODULE MultisigStore ---------------------------
(***************************************************************************)
(* The store of registered multisig transactions and wallets               *)
(* (src/src/db/multisig_store.cpp) and the REST handlers that write to it. *)
(* The store lives in memory under one mutex; every change rewrites the    *)
(* whole JSON file in place, and only a start of the process reads it.     *)
(*                                                                         *)
(* Contexts, time stamps and thresholds decide nothing and are left out.   *)
(* transactions and wallets_ are searched before anything is appended, so  *)
(* they are a map from hash to amount and a set with one record per id.    *)
(* Requests that are refused before a table is touched are stuttering.     *)
(***************************************************************************)
EXTENDS Integers, FiniteSets, FiniteSetsExt

CONSTANTS
  Address, Hash, WalletId,
  Amount,           \* decoded amounts; the handler refuses 0
  Members,          \* numbers of participants in register_wallet requests
  AmountMax,        \* numeric_limits<uint64_t>::max()
  MaxAddresses, MaxTxs, MaxWallets, MaxMembers,   \* limits of the reader
  MaxFailures,      \* bound: saves that fail
  MaxTorn,          \* bound: crashes in the middle of a save
  MaxCrashes        \* bound: other ends of the process

ASSUME StoreAssumption ==
  /\ IsFiniteSet(Address) /\ IsFiniteSet(Hash)
  /\ AmountMax \in Nat /\ Amount \subseteq 1..AmountMax
  /\ Members \subseteq 0..MaxMembers
  /\ {MaxAddresses, MaxTxs, MaxWallets, MaxMembers} \subseteq Nat
  /\ {MaxFailures, MaxTorn, MaxCrashes} \subseteq Nat

VARIABLES
  data,       \* data_: per address the amounts by hash, and total_locked
  wallets,    \* wallets_
  file,       \* the JSON file
  phase,      \* "down", "up", or "failed": the constructor threw
  failures, torn, crashes,
  acked,      \* history: transactions a client was told are registered
  spoiled     \* history: a save has failed or was interrupted

storeVars == <<data, wallets, file, phase, failures, torn, crashes, acked, spoiled>>

Absent == -1

EmptyData == [a \in Address |-> [txs |-> [h \in Hash |-> Absent], total |-> 0]]

\* What save_locked leaves when it succeeds.
Full(d, w) == [kind |-> "full", data |-> d, wallets |-> w]

\* A file that does not exist, was truncated, or was cut off inside the JSON text.
Blank(k) == [kind |-> k, data |-> EmptyData, wallets |-> {}]
Torn == {Blank("empty"), Blank("partial")}

Known(d, a) == {h \in Hash : d[a].txs[h] # Absent}
Used(d) == {a \in Address : Known(d, a) # {}}

-----------------------------------------------------------------------------
(* Reading: the limits are checked here and nowhere when writing.          *)

ReadableV1(f) ==
  /\ f.kind = "full"
  /\ Cardinality(Used(f.data)) <= MaxAddresses
  /\ \A a \in Address : Cardinality(Known(f.data, a)) <= MaxTxs

ReadableV2(f) ==
  /\ ReadableV1(f)
  /\ Cardinality(f.wallets) <= MaxWallets
  /\ \A w \in f.wallets : w.members <= MaxMembers

\* Mutant: only the old format is read.
load_v1 ==
  /\ phase = "down"
  /\ file.kind \in {"none", "empty"} \/ ReadableV1(file)
  /\ data' = file.data /\ wallets' = {} /\ phase' = "up"
  /\ UNCHANGED <<file, failures, torn, crashes, acked, spoiled>>

\* The first attempt reads both lists.  The second skips the unknown field
\* "wallets" and leaves wallets_ empty.
load ==
  /\ phase = "down"
  /\ \/ /\ file.kind \in {"none", "empty"}
        /\ data' = EmptyData /\ wallets' = {} /\ phase' = "up"
     \/ /\ ReadableV1(file)
        /\ data' = file.data
        /\ wallets' = IF ReadableV2(file) THEN file.wallets ELSE {}
        /\ phase' = "up"
     \/ /\ file.kind \notin {"none", "empty"} /\ ~ReadableV1(file)
        /\ phase' = "failed"
        /\ UNCHANGED <<data, wallets>>
  /\ UNCHANGED <<file, failures, torn, crashes, acked, spoiled>>

-----------------------------------------------------------------------------
(* Writing.                                                                *)

SaveDone(d, w) ==
  /\ file' = Full(d, w)
  /\ UNCHANGED <<failures, spoiled>>

\* The file could not be opened, or could not be written to the end.
SaveFails ==
  /\ failures < MaxFailures
  /\ failures' = failures + 1
  /\ file' \in {file} \cup Torn
  /\ spoiled' = TRUE

\* Mutant: the hash is not searched for.
RegistersAgain(a, h, m) == AmountMax - data[a].total >= m

\* A transaction that is not known, or is known with amount 0.
Registers(a, h, m) ==
  /\ data[a].txs[h] \in {Absent, 0}
  /\ AmountMax - data[a].total >= m

Registered(a, h, m) ==
  [data EXCEPT ![a] = [txs |-> [@.txs EXCEPT ![h] = m], total |-> @.total + m]]

\* Mutant: the answer does not wait for the file.
register_tx_unsaved(a, h, m) ==
  /\ phase = "up"
  /\ Registers(a, h, m)
  /\ data' = Registered(a, h, m)
  /\ acked' = acked \cup {<<a, h>>}
  /\ UNCHANGED <<file, failures, spoiled, wallets, phase, torn, crashes>>

register_tx_ex(a, h, m) ==
  /\ phase = "up"
  /\ Registers(a, h, m)
  /\ data' = Registered(a, h, m)
  /\ \/ SaveDone(data', wallets) /\ acked' = acked \cup {<<a, h>>}
     \/ SaveFails /\ UNCHANGED acked
  /\ UNCHANGED <<wallets, phase, torn, crashes>>

\* "Transaction already registered", without a look at the file.
register_duplicate(a, h) ==
  /\ phase = "up"
  /\ data[a].txs[h] \notin {Absent, 0}
  /\ acked' = acked \cup {<<a, h>>}
  /\ UNCHANGED <<data, wallets, file, phase, failures, torn, crashes, spoiled>>

WithWallet(w) == {x \in wallets : x.id # w.id} \cup {w}

\* Mutant: a wallet that could not be saved is dropped from memory.
register_wallet_undone(w, ok) ==
  /\ phase = "up"
  /\ wallets' = IF ok THEN WithWallet(w) ELSE wallets
  /\ IF ok THEN SaveDone(data, wallets') ELSE SaveFails
  /\ UNCHANGED <<data, phase, torn, crashes, acked>>

\* register_wallet returns ok; memory has the wallet in either case.
register_wallet(w, ok) ==
  /\ phase = "up"
  /\ wallets' = WithWallet(w)
  /\ IF ok THEN SaveDone(data, wallets') ELSE SaveFails
  /\ UNCHANGED <<data, phase, torn, crashes, acked>>

\* The request's participants are limited to eight when it is read.
multisig_register_wallet ==
  \E id \in WalletId, a \in Address, n \in Members, ok \in BOOLEAN :
    register_wallet([id |-> id, address |-> a, members |-> n], ok)

\* The process ends: between two operations, or while the file is written.
Ends ==
  /\ phase = "up"
  /\ phase' = "down" /\ data' = EmptyData /\ wallets' = {}
  /\ UNCHANGED <<failures, acked>>

crash == Ends /\ crashes < MaxCrashes /\ crashes' = crashes + 1 /\ UNCHANGED <<file, torn, spoiled>>

crash_saving ==
  /\ Ends
  /\ torn < MaxTorn /\ torn' = torn + 1
  /\ file' \in Torn
  /\ spoiled' = TRUE
  /\ UNCHANGED crashes

-----------------------------------------------------------------------------
\* A file of an older version has no wallets and may have amounts of 0.
Unpriced(a, h) ==
  [EmptyData EXCEPT ![a] = [txs |-> [@.txs EXCEPT ![h] = 0], total |-> 0]]

Legacy == {Full(Unpriced(a, h), {}) : a \in Address, h \in Hash}

StoreInit ==
  /\ file \in {Blank("none")} \cup Legacy
  /\ data = EmptyData /\ wallets = {} /\ phase = "down"
  /\ failures = 0 /\ torn = 0 /\ crashes = 0
  /\ acked = {} /\ spoiled = FALSE

StoreNext ==
  \/ load
  \/ \E a \in Address, h \in Hash :
       (\E m \in Amount : register_tx_ex(a, h, m)) \/ register_duplicate(a, h)
  \/ multisig_register_wallet
  \/ crash \/ crash_saving

StoreSpec == StoreInit /\ [][StoreNext]_storeVars

-----------------------------------------------------------------------------
Slot == [txs : [Hash -> Amount \cup {Absent, 0}], total : 0..AmountMax]
StoredWallet == [id : WalletId, address : Address, members : Nat]
Content == [kind : {"none", "empty", "partial", "full"},
            data : [Address -> Slot], wallets : SUBSET StoredWallet]

\* Types of memory and file; total_locked never wraps.
StoreTypeOK ==
  /\ data \in [Address -> Slot]
  /\ wallets \in SUBSET StoredWallet
  /\ file \in Content
  /\ phase \in {"down", "up", "failed"}
  /\ failures \in 0..MaxFailures /\ torn \in 0..MaxTorn /\ crashes \in 0..MaxCrashes
  /\ acked \in SUBSET (Address \X Hash)
  /\ spoiled \in BOOLEAN

SumsUp(d) ==
  \A a \in Address : d[a].total = SumFunctionOnSet(d[a].txs, Known(d, a))

\* total_locked, which register_tx_ex updates in two places and load takes
\* from the file, is the sum of the amounts in memory and in the file.
TotalLocked == SumsUp(data) /\ SumsUp(file.data)

\* A running store has forgotten nothing that is in its file: the file is an
\* earlier state of the memory, whatever failed since.
MemoryCovers ==
  phase = "up" /\ ReadableV2(file) =>
    /\ \A a \in Address, h \in Hash :
         file.data[a].txs[h] \in {Absent, 0, data[a].txs[h]}
    /\ \A a \in Address : Known(file.data, a) \subseteq Known(data, a)
    /\ \A w \in file.wallets : \E x \in wallets : x.id = w.id

\* multisig_register answered "success": the transaction is in the store,
\* also after a restart.
TxAcked ==
  phase # "down" => \A x \in acked : data[x[1]].txs[x[2]] # Absent

\* TxAcked as long as no save has failed or was interrupted.
AckedKept == ~spoiled => TxAcked

============================================================================
