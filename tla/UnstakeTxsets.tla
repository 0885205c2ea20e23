--------------------------- MODULE UnstakeTxsets ---------------------------
(***************************************************************************)
(* The in-memory registry of unstake transaction sets of the REST server   *)
(* (multisig_txset_register, _signature, _submit).  It holds few records   *)
(* for an hour; every request first drops what has expired and, when the   *)
(* registry is full, the record that was touched longest ago.  The server  *)
(* never collects the second signature a submission would need.            *)
(*                                                                         *)
(* An id stands for wallet, multisig address and transaction data, from    *)
(* which stable_txset_id computes it.                                      *)
(***************************************************************************)
EXTENDS Integers, FiniteSets

CONSTANTS
  TxsetIds, Owners,
  MaxTxsets,      \* lws_unstake_txsets_max_entries
  TxsetTtl,       \* lws_unstake_txset_ttl_seconds
  ClockMax        \* bound on the time

ASSUME TxsetAssumption ==
  /\ IsFiniteSet(TxsetIds)
  /\ MaxTxsets \in Nat /\ MaxTxsets > 1
  /\ TxsetTtl \in Nat /\ ClockMax \in Nat

VARIABLES
  txsets,    \* lws_unstake_txsets: records
  clock,     \* txset_unix_now
  touched    \* history: time of the last request that succeeded, by id; 0 for none

txsetVars == <<txsets, clock, touched>>

IdsOf(S) == {r.id : r \in S}
RecordOf(S, id) == CHOOSE r \in S : r.id = id

LastSeen(r) == IF r.created_at < r.updated_at THEN r.updated_at ELSE r.created_at
txset_is_expired(r, now) == now > LastSeen(r) + TxsetTtl

\* Mutant: the record that was registered first.
OldestCreated(S) == {r \in S : \A s \in S : r.created_at <= s.created_at}

\* The candidates for eviction; the order of an unordered_map decides.
Oldest(S) == {r \in S : \A s \in S : r.updated_at <= s.updated_at}

\* Outcomes of prune_lws_unstake_txsets_locked.
prune(now) ==
  LET live == {r \in txsets : ~ txset_is_expired(r, now)}
  IN IF TxsetTtl < now /\ MaxTxsets <= Cardinality(live)
     THEN {live \ {r} : r \in Oldest(live)}
     ELSE {live}

\* The time is read before the lock is taken: a request may be late by one.
multisig_txset_register(id, owner, now) ==
  /\ now \in {clock - 1, clock}
  /\ \E S \in prune(now) :
       /\ id \in IdsOf(S) \/ Cardinality(S) < MaxTxsets
       /\ LET record == IF id \in IdsOf(S)
                        THEN [RecordOf(S, id) EXCEPT !.updated_at = now]
                        ELSE [id |-> id, owner |-> owner, collected |-> 0,
                              created_at |-> now, updated_at |-> now]
          IN txsets' = {r \in S : r.id # id} \cup {record}
  /\ touched' = [touched EXCEPT ![id] = now]
  /\ UNCHANGED clock

\* Only the miner that registered the set signs it.
multisig_txset_signature(id, owner) ==
  /\ \E S \in prune(clock) :
       IF id \in IdsOf(S) /\ RecordOf(S, id).owner = owner
       THEN /\ txsets' = {r \in S : r.id # id}
                           \cup {[RecordOf(S, id) EXCEPT !.collected = 1, !.updated_at = clock]}
            /\ touched' = [touched EXCEPT ![id] = clock]
       ELSE txsets' = S /\ UNCHANGED touched
  /\ UNCHANGED clock

\* One of two signatures: a submission changes nothing but what is pruned.
multisig_txset_submit ==
  /\ txsets' \in prune(clock)
  /\ UNCHANGED <<clock, touched>>

Passes == clock < ClockMax /\ clock' = clock + 1 /\ UNCHANGED <<txsets, touched>>

TxsetInit == txsets = {} /\ clock = TxsetTtl + 2 /\ touched = [id \in TxsetIds |-> 0]

TxsetNext ==
  \/ \E id \in TxsetIds, owner \in Owners :
       \/ \E now \in 0..ClockMax : multisig_txset_register(id, owner, now)
       \/ multisig_txset_signature(id, owner)
  \/ multisig_txset_submit
  \/ Passes

TxsetSpec == TxsetInit /\ [][TxsetNext]_txsetVars

\* A set that was registered or signed stays until it expires, or until the
\* registry is full of sets that were touched no earlier (but for the late reading
\* of the time): requests of other wallets never push out a set in use, whatever
\* was registered first.
RecentlyUsedKept ==
  \A id \in TxsetIds :
    \/ touched[id] = 0
    \/ id \in IdsOf(txsets)
    \/ clock > touched[id] + TxsetTtl
    \/ Cardinality({j \in TxsetIds \ {id} : touched[j] >= touched[id] - 1}) >= MaxTxsets - 1

============================================================================
