--------------------------- MODULE ServicesProofs ---------------------------
(***************************************************************************)
(* Proofs about UnstakeTxsets, PowSync and Subaddresses, for all values of *)
(* their constants; of the subaddresses: what the merge of do_upsert does  *)
(* to every pair of range sequences, that both tables hold the same        *)
(* indices, and that the lookahead windows stay complete.                  *)
(***************************************************************************)
EXTENDS MCServices, FoldProofs, SequenceTheorems

TxsetRecord ==
  [id : TxsetIds, owner : Owners, collected : 0..1, created_at : Nat, updated_at : Nat]

\* Types, and the clock: it starts late enough for every time to be positive.
TxsetTypes ==
  /\ txsets \in SUBSET TxsetRecord
  /\ clock \in Nat /\ TxsetTtl + 2 <= clock
  /\ touched \in [TxsetIds -> Nat]
  /\ \A id \in TxsetIds : touched[id] <= clock

\* A map with one record per id, which carries the time of its last request.
OneEach(S) ==
  /\ \A r, s \in S : r.id = s.id => r = s
  /\ \A r \in S : r.updated_at = touched[r.id]

\* The other sets that were touched no earlier than id, but for the late reading.
Rivals(id) == {j \in TxsetIds \ {id} : touched[j] >= touched[id] - 1}

TxsetIInv == TxsetTypes /\ OneEach(txsets) /\ RecentlyUsedKept

\* Distinct ids: a set of records is as large as the set of its ids.
LEMMA CountedByIds ==
  ASSUME NEW S \in SUBSET TxsetRecord, \A r, s \in S : r.id = s.id => r = s
  PROVE  /\ IsFiniteSet(S) /\ IsFiniteSet(IdsOf(S))
         /\ Cardinality(S) = Cardinality(IdsOf(S))
         /\ IdsOf(S) \subseteq TxsetIds
<1> DEFINE f == [r \in S |-> r.id]
<1>1. IdsOf(S) \subseteq TxsetIds
  BY DEF IdsOf, TxsetRecord
<1>2. IsFiniteSet(IdsOf(S))
  BY <1>1, TxsetAssumption, FS_Subset
<1>3. f \in Injection(S, IdsOf(S)) /\ f \in Surjection(S, IdsOf(S))
  BY DEF Injection, IsInjective, Surjection, IdsOf
<1>4. QED
  BY <1>1, <1>2, <1>3, FS_Injection

\* A pruned registry is a part of the old one; a record that is missing has
\* expired, or as many others as the registry keeps were touched no earlier.
LEMMA PruneKeeps ==
  ASSUME TxsetIInv, NEW now \in Nat, now <= clock, NEW S \in prune(now)
  PROVE  /\ S \subseteq txsets
         /\ OneEach(S)
         /\ \A r \in txsets \ S :
              \/ clock > touched[r.id] + TxsetTtl
              \/ Cardinality(Rivals(r.id)) >= MaxTxsets - 1
<1> DEFINE live == {r \in txsets : ~ txset_is_expired(r, now)}
<1>1. S \subseteq live
  BY DEF prune
<1>2. ASSUME NEW r \in txsets, r \notin live
      PROVE  clock > touched[r.id] + TxsetTtl
  <2>1. now > LastSeen(r) + TxsetTtl
    BY <1>2 DEF txset_is_expired
  <2>2. r.created_at \in Nat /\ r.updated_at \in Nat /\ r.updated_at = touched[r.id]
    BY DEF TxsetIInv, TxsetTypes, TxsetRecord, OneEach
  <2>3. LastSeen(r) \in Nat /\ touched[r.id] <= LastSeen(r)
    BY <2>2 DEF LastSeen
  <2>4. QED
    BY <2>1, <2>2, <2>3, TxsetAssumption DEF TxsetIInv, TxsetTypes
<1>3. ASSUME NEW r \in live, r \notin S
      PROVE  Cardinality(Rivals(r.id)) >= MaxTxsets - 1
  <2>1. MaxTxsets <= Cardinality(live) /\ S = live \ {r} /\ r \in Oldest(live)
    BY <1>3 DEF prune
  <2>2. \A s, t \in live : s.id = t.id => s = t
    BY DEF TxsetIInv, OneEach
  <2>3. live \in SUBSET TxsetRecord /\ S \in SUBSET TxsetRecord
    BY <2>1 DEF TxsetIInv, TxsetTypes
  <2>4. IsFiniteSet(live) /\ Cardinality(live) \in Nat
    BY <2>2, <2>3, CountedByIds, FS_CardinalityType
  <2>5. Cardinality(S) = Cardinality(live) - 1
    BY <2>1, <2>4, FS_RemoveElement
  <2>6. Cardinality(S) = Cardinality(IdsOf(S)) /\ IdsOf(S) \subseteq TxsetIds
    BY <2>1, <2>2, <2>3, CountedByIds
  <2>7. IdsOf(S) \subseteq Rivals(r.id)
    <3> SUFFICES ASSUME NEW s \in S PROVE s.id \in Rivals(r.id)
      BY DEF IdsOf
    <3>1. s \in live /\ s # r
      BY <2>1
    <3>2. s.id # r.id /\ s.id \in TxsetIds /\ r.id \in TxsetIds
      BY <2>2, <2>3, <3>1 DEF TxsetRecord
    <3>3. r.updated_at <= s.updated_at
      BY <2>1, <3>1 DEF Oldest
    <3>4. r.updated_at = touched[r.id] /\ s.updated_at = touched[s.id]
      BY <3>1 DEF TxsetIInv, OneEach
    <3>5. touched[r.id] \in Nat /\ touched[s.id] \in Nat
      BY <3>2 DEF TxsetIInv, TxsetTypes
    <3>6. QED
      BY <3>2, <3>3, <3>4, <3>5 DEF Rivals
  <2>8. IsFiniteSet(Rivals(r.id))
    BY TxsetAssumption, FS_Subset DEF Rivals
  <2>9. Cardinality(IdsOf(S)) <= Cardinality(Rivals(r.id)) /\ Cardinality(Rivals(r.id)) \in Nat
    BY <2>7, <2>8, FS_Subset, FS_CardinalityType
  <2>10. QED
    BY <2>1, <2>4, <2>5, <2>6, <2>9, TxsetAssumption
<1>4. QED
  BY <1>1, <1>2, <1>3 DEF TxsetIInv, OneEach

\* What a request that succeeds does to the history: it counts as a rival of
\* every other set, although its time may be one behind.
LEMMA TouchedLater ==
  ASSUME TxsetTypes, NEW id \in TxsetIds, NEW now \in Nat, clock - 1 <= now,
         touched' = [touched EXCEPT ![id] = now],
         NEW x \in TxsetIds, x # id, Cardinality(Rivals(x)) >= MaxTxsets - 1
  PROVE  Cardinality(Rivals(x)') >= MaxTxsets - 1
<1>1. touched[x] <= clock /\ touched[x] \in Nat /\ clock \in Nat
  BY DEF TxsetTypes
<1>2. \A j \in TxsetIds : touched'[j] = IF j = id THEN now ELSE touched[j]
  BY DEF TxsetTypes
<1>3. Rivals(x) \subseteq Rivals(x)'
  BY <1>1, <1>2 DEF Rivals
<1>4. IsFiniteSet(Rivals(x)') /\ IsFiniteSet(Rivals(x))
  BY TxsetAssumption, FS_Subset DEF Rivals
<1>5. Cardinality(Rivals(x)) <= Cardinality(Rivals(x)')
  BY <1>3, <1>4, FS_Subset
<1>6. Cardinality(Rivals(x)) \in Nat /\ Cardinality(Rivals(x)') \in Nat
  BY <1>4, FS_CardinalityType
<1>7. QED
  BY <1>5, <1>6, TxsetAssumption

\* RecentlyUsedKept in the words of the lemmas.
LEMMA KeptMeans ==
  RecentlyUsedKept <=>
    \A id \in TxsetIds :
      \/ touched[id] = 0
      \/ id \in IdsOf(txsets)
      \/ clock > touched[id] + TxsetTtl
      \/ Cardinality(Rivals(id)) >= MaxTxsets - 1
BY DEF RecentlyUsedKept, Rivals

\* The record after a signature at time t.
LEMMA SignedRecord ==
  ASSUME NEW x \in TxsetRecord, NEW t \in Nat
  PROVE  LET r == [x EXCEPT !.collected = 1, !.updated_at = t]
         IN  r \in TxsetRecord /\ r.id = x.id /\ r.updated_at = t
<1> DEFINE y == [x EXCEPT !.collected = 1]
<1>1. y \in TxsetRecord /\ y.id = x.id
  BY DEF TxsetRecord
<1>2. [x EXCEPT !.collected = 1, !.updated_at = t] = [y EXCEPT !.updated_at = t]
  OBVIOUS
<1> HIDE DEF y
<1>3. [y EXCEPT !.updated_at = t] \in TxsetRecord
  BY <1>1 DEF TxsetRecord
<1>4. [y EXCEPT !.updated_at = t].id = y.id /\ [y EXCEPT !.updated_at = t].updated_at = t
  BY <1>1 DEF TxsetRecord
<1>5. QED
  BY <1>1, <1>2, <1>3, <1>4

\* A set that is in use after pruning is found, and one that is not has a reason.
LEMMA PruneReasons ==
  ASSUME TxsetIInv, NEW now \in Nat, now <= clock, NEW S \in prune(now), NEW x \in TxsetIds
  PROVE  \/ touched[x] = 0
         \/ x \in IdsOf(S)
         \/ clock > touched[x] + TxsetTtl
         \/ Cardinality(Rivals(x)) >= MaxTxsets - 1
<1>1. CASE x \in IdsOf(txsets)
  <2>1. PICK r \in txsets : r.id = x
    BY <1>1 DEF IdsOf
  <2>2. CASE r \in S
    BY <2>1, <2>2 DEF IdsOf
  <2>3. CASE r \notin S
    BY <2>1, <2>3, PruneKeeps
  <2>4. QED
    BY <2>2, <2>3
<1>2. CASE x \notin IdsOf(txsets)
  BY <1>2, KeptMeans DEF TxsetIInv
<1>3. QED
  BY <1>1, <1>2

\* A request that stores record r for id, in the registry S that pruning left.
LEMMA StoredStep ==
  ASSUME TxsetIInv, NEW now \in Nat, clock - 1 <= now, now <= clock, NEW S \in prune(now),
         NEW r \in TxsetRecord, r.updated_at = now,
         txsets' = {s \in S : s.id # r.id} \cup {r},
         touched' = [touched EXCEPT ![r.id] = now],
         clock' = clock
  PROVE  TxsetIInv'
<1> DEFINE id == r.id
<1>0. id \in TxsetIds
  BY DEF TxsetRecord
<1>1. S \subseteq txsets /\ OneEach(S)
  BY PruneKeeps
<1>2. \A j \in TxsetIds : touched'[j] = IF j = id THEN now ELSE touched[j]
  BY DEF TxsetIInv, TxsetTypes
<1>3. TxsetTypes'
  BY <1>0, <1>1, <1>2 DEF TxsetIInv, TxsetTypes
<1>4. OneEach(txsets)'
  <2>1. \A s \in S : s.id \in TxsetIds
    BY <1>1 DEF TxsetIInv, TxsetTypes, TxsetRecord
  <2>2. QED
    BY <1>0, <1>1, <1>2, <2>1 DEF OneEach
<1>5. RecentlyUsedKept'
  <2> SUFFICES ASSUME NEW x \in TxsetIds
               PROVE  \/ touched'[x] = 0
                      \/ x \in IdsOf(txsets')
                      \/ clock' > touched'[x] + TxsetTtl
                      \/ Cardinality(Rivals(x)') >= MaxTxsets - 1
    BY DEF RecentlyUsedKept, Rivals
  <2>1. CASE x = id
    BY <2>1 DEF IdsOf
  <2>2. CASE x # id
    <3>1. touched'[x] = touched[x]
      BY <1>2, <2>2
    <3>2. x \in IdsOf(S) => x \in IdsOf(txsets')
      BY <2>2 DEF IdsOf
    <3>3. Cardinality(Rivals(x)) >= MaxTxsets - 1 => Cardinality(Rivals(x)') >= MaxTxsets - 1
      BY <1>0, <2>2, TouchedLater DEF TxsetIInv
    <3>4. QED
      BY <3>1, <3>2, <3>3, PruneReasons
  <2>3. QED
    BY <2>1, <2>2
<1>6. QED
  BY <1>3, <1>4, <1>5 DEF TxsetIInv

\* A request that stores nothing leaves the pruned registry.
LEMMA PrunedStep ==
  ASSUME TxsetIInv, NEW now \in Nat, now <= clock, NEW S \in prune(now),
         txsets' = S, touched' = touched, clock' = clock
  PROVE  TxsetIInv'
<1>1. S \subseteq txsets /\ OneEach(S)
  BY PruneKeeps
<1>2. TxsetTypes' /\ OneEach(txsets)'
  BY <1>1 DEF TxsetIInv, TxsetTypes, OneEach
<1>3. RecentlyUsedKept'
  <2> SUFFICES ASSUME NEW x \in TxsetIds
               PROVE  \/ touched'[x] = 0
                      \/ x \in IdsOf(txsets')
                      \/ clock' > touched'[x] + TxsetTtl
                      \/ Cardinality(Rivals(x)') >= MaxTxsets - 1
    BY DEF RecentlyUsedKept, Rivals
  <2>1. Rivals(x)' = Rivals(x)
    BY DEF Rivals
  <2>2. QED
    BY <2>1, PruneReasons
<1>4. QED
  BY <1>2, <1>3 DEF TxsetIInv

\* Requests of others never push a set out that was used more recently than
\* theirs, in a registry of any size and whatever the clock did
\* (prune_lws_unstake_txsets_locked, rest_server.cpp).
THEOREM TxsetsKept == TxsetSpec => []RecentlyUsedKept
<1>1. TxsetInit => TxsetIInv
  <2> SUFFICES ASSUME TxsetInit PROVE TxsetIInv
    OBVIOUS
  <2>1. \A id \in TxsetIds : touched[id] = 0
    BY DEF TxsetInit
  <2>2. TxsetTypes
    BY <2>1, TxsetAssumption DEF TxsetInit, TxsetTypes
  <2>3. OneEach(txsets) /\ RecentlyUsedKept
    BY <2>1 DEF TxsetInit, OneEach, RecentlyUsedKept
  <2>4. QED
    BY <2>2, <2>3 DEF TxsetIInv
<1>2. TxsetIInv /\ [TxsetNext]_txsetVars => TxsetIInv'
  <2> SUFFICES ASSUME TxsetIInv, [TxsetNext]_txsetVars PROVE TxsetIInv'
    OBVIOUS
  <2>0. clock \in Nat /\ clock - 1 \in Nat /\ clock - 1 <= clock /\ clock <= clock
    BY TxsetAssumption DEF TxsetIInv, TxsetTypes
  <2>1. ASSUME NEW id \in TxsetIds, NEW owner \in Owners, NEW now \in 0..ClockMax,
               multisig_txset_register(id, owner, now)
        PROVE  TxsetIInv'
    <3>1. now \in Nat /\ clock - 1 <= now /\ now <= clock
      BY <2>0, <2>1 DEF multisig_txset_register
    <3>2. PICK S \in prune(now) :
            txsets' = {r \in S : r.id # id} \cup
                      {IF id \in IdsOf(S)
                       THEN [RecordOf(S, id) EXCEPT !.updated_at = now]
                       ELSE [id |-> id, owner |-> owner, collected |-> 0,
                             created_at |-> now, updated_at |-> now]}
      BY <2>1 DEF multisig_txset_register
    <3> DEFINE r == IF id \in IdsOf(S)
                    THEN [RecordOf(S, id) EXCEPT !.updated_at = now]
                    ELSE [id |-> id, owner |-> owner, collected |-> 0,
                          created_at |-> now, updated_at |-> now]
    <3>3. r \in TxsetRecord /\ r.id = id /\ r.updated_at = now
      <4>1. CASE id \in IdsOf(S)
        <5>1. RecordOf(S, id) \in S /\ RecordOf(S, id).id = id
          BY <4>1 DEF IdsOf, RecordOf
        <5>2. RecordOf(S, id) \in TxsetRecord
          BY <3>1, <5>1, PruneKeeps DEF TxsetIInv, TxsetTypes
        <5>3. QED
          BY <3>1, <4>1, <5>1, <5>2 DEF TxsetRecord
      <4>2. CASE id \notin IdsOf(S)
        BY <3>1, <4>2 DEF TxsetRecord
      <4>3. QED
        BY <4>1, <4>2
    <3>4. txsets' = {s \in S : s.id # r.id} \cup {r}
      BY <3>2, <3>3
    <3>5. touched' = [touched EXCEPT ![r.id] = now] /\ clock' = clock
      BY <2>1, <3>3 DEF multisig_txset_register
    <3> HIDE DEF r
    <3>6. QED
      BY <3>1, <3>3, <3>4, <3>5, StoredStep
  <2>2. ASSUME NEW id \in TxsetIds, NEW owner \in Owners, multisig_txset_signature(id, owner)
        PROVE  TxsetIInv'
    <3>1. PICK S \in prune(clock) :
            IF id \in IdsOf(S) /\ RecordOf(S, id).owner = owner
            THEN /\ txsets' = {r \in S : r.id # id}
                      \cup {[RecordOf(S, id) EXCEPT !.collected = 1, !.updated_at = clock]}
                 /\ touched' = [touched EXCEPT ![id] = clock]
            ELSE txsets' = S /\ UNCHANGED touched
      BY <2>2 DEF multisig_txset_signature
    <3>2. clock' = clock
      BY <2>2 DEF multisig_txset_signature
    <3>3. CASE id \in IdsOf(S) /\ RecordOf(S, id).owner = owner
      <4> DEFINE r == [RecordOf(S, id) EXCEPT !.collected = 1, !.updated_at = clock]
      <4>1. RecordOf(S, id) \in S /\ RecordOf(S, id).id = id
        BY <3>3 DEF IdsOf, RecordOf
      <4>2. RecordOf(S, id) \in TxsetRecord
        BY <2>0, <4>1, PruneKeeps DEF TxsetIInv, TxsetTypes
      <4>3. r \in TxsetRecord /\ r.id = id /\ r.updated_at = clock
        BY <2>0, <4>1, <4>2, SignedRecord
      <4>4. txsets' = {s \in S : s.id # r.id} \cup {r}
        BY <3>1, <3>3, <4>3
      <4>5. touched' = [touched EXCEPT ![r.id] = clock]
        BY <3>1, <3>3, <4>3
      <4> HIDE DEF r
      <4>6. QED
        BY <2>0, <3>2, <4>3, <4>4, <4>5, StoredStep
    <3>4. CASE ~ (id \in IdsOf(S) /\ RecordOf(S, id).owner = owner)
      BY <2>0, <3>1, <3>2, <3>4, PrunedStep
    <3>5. QED
      BY <3>3, <3>4
  <2>3. CASE multisig_txset_submit
    BY <2>0, <2>3, PrunedStep DEF multisig_txset_submit
  <2>4. CASE Passes
    <3>0. txsets' = txsets /\ touched' = touched /\ clock' = clock + 1
      BY <2>4 DEF Passes
    <3>1. TxsetTypes' /\ OneEach(txsets)'
      <4>1. \A id \in TxsetIds : touched[id] \in Nat /\ touched[id] <= clock + 1
        BY <2>0 DEF TxsetIInv, TxsetTypes
      <4>2. TxsetTypes'
        BY <2>0, <3>0, <4>1, TxsetAssumption DEF TxsetIInv, TxsetTypes
      <4>3. OneEach(txsets)'
        BY <3>0 DEF TxsetIInv, OneEach
      <4>4. QED
        BY <4>2, <4>3
    <3>2. RecentlyUsedKept'
      BY <2>0, <2>4, TxsetAssumption DEF Passes, TxsetIInv, TxsetTypes, RecentlyUsedKept
    <3>3. QED
      BY <3>1, <3>2 DEF TxsetIInv
  <2>5. CASE UNCHANGED txsetVars
    BY <2>5 DEF txsetVars, TxsetIInv, TxsetTypes, OneEach, RecentlyUsedKept
  <2>6. QED
    BY <2>1, <2>2, <2>3, <2>4, <2>5 DEF TxsetNext
<1>3. TxsetIInv => RecentlyUsedKept
  BY DEF TxsetIInv
<1>4. QED
  BY <1>1, <1>2, <1>3, PTL DEF TxsetSpec

----------------------------------------------------------------------------
(* PowSync.                                                                *)

\* The tables of a database that only ever saw --untrusted-daemon: both are
\* filled up to k, and the blocks table has the checkpoint besides, which does
\* not abut on the others.
FilledTo(k) ==
  /\ Rows(pows) = 0..k
  /\ Rows(blocks) = 0..k \cup {LastCheckpoint}
  /\ \A h \in 0..k : pows[h] = blocks[h]
  /\ blocks[0] = <<0, 0>>
  /\ k # LastCheckpoint - 1
  /\ stage = "scan" => LastCheckpoint <= k

PowTypes ==
  /\ daemon = [branch |-> daemon.branch, height |-> daemon.height]
  /\ daemon.height \in PowHeights
  /\ mode = "trusted" => trusting
  /\ mode \in {"trusted", "untrusted"}

PowIInv ==
  /\ PowTypes
  /\ ~ trusting /\ ~ abutting => \E k \in PowHeights : FilledTo(k)

\* The constants are numbers, and every height is one.
LEMMA PowNumbers ==
  /\ LastCheckpoint \in Nat /\ ForkAt \in Nat /\ TipMax \in Nat /\ SyncBatch \in Nat
  /\ 0 < LastCheckpoint /\ LastCheckpoint < ForkAt /\ ForkAt <= TipMax
  /\ 0 \in PowHeights /\ LastCheckpoint \in PowHeights /\ PowHeights \subseteq Nat
BY PowAssumption DEF PowHeights

\* The daemon's block of a height is a row.
LEMMA DaemonRow ==
  ASSUME NEW h \in Nat
  PROVE  DaemonBlock(h) # NoBlock
BY DEF DaemonBlock, Block, NoBlock

\* The largest element of a set, when there is one.
LEMMA MaxIs ==
  ASSUME NEW S, NEW m \in S, S \subseteq Nat, \A x \in S : x <= m
  PROVE  Max(S) = m
<1>1. \E x \in S : \A y \in S : x >= y
  OBVIOUS
<1>2. Max(S) \in S /\ \A y \in S : Max(S) >= y
  BY <1>1 DEF Max
<1>3. Max(S) \in Nat /\ m \in Nat /\ Max(S) <= m /\ m <= Max(S)
  BY <1>2
<1> QED
  BY <1>3

\* The smallest element of a set, when there is one.
LEMMA MinIs ==
  ASSUME NEW S, NEW m \in S, S \subseteq Nat, \A x \in S : m <= x
  PROVE  Min(S) = m
<1>1. \E x \in S : \A y \in S : x <= y
  OBVIOUS
<1>2. Min(S) \in S /\ \A y \in S : Min(S) <= y
  BY <1>1 DEF Min
<1>3. Min(S) \in Nat /\ m \in Nat /\ Min(S) <= m /\ m <= Min(S)
  BY <1>2
<1> QED
  BY <1>3

\* The smaller of two numbers.
LEMMA MinOfTwo ==
  ASSUME NEW x \in Nat, NEW y \in Nat
  PROVE  Min({x, y}) = IF x <= y THEN x ELSE y
<1>1. CASE x <= y
  <2>1. \A z \in {x, y} : x <= z
    BY <1>1
  <2> HIDE DEF Min
  <2> QED
    BY <1>1, <2>1, MinIs
<1>2. CASE ~ x <= y
  <2>1. \A z \in {x, y} : y <= z
    BY <1>2
  <2> QED
    BY <1>2, <2>1, MinIs
<1> QED
  BY <1>1, <1>2

\* A number of a finite range that has a property: there is a largest one.
LEMMA GreatestBelow ==
  ASSUME NEW k \in Nat, NEW S, S \subseteq 0..k, S # {}
  PROVE  /\ Max(S) \in S /\ \A x \in S : x <= Max(S)
<1>1. IsFiniteSet(0..k)
  BY FS_Interval
<1>2. \E m \in S : \A x \in S : x <= m
  <2>1. PICK y \in S : TRUE
    OBVIOUS
  <2> DEFINE D == {k - x : x \in S}
  <2>2. D \subseteq Nat /\ k - y \in D
    OBVIOUS
  <2>3. PICK d \in D : \A e \in D : ~ (<<e, d>> \in OpToRel(<, Nat))
    BY <2>2, NatLessThanWellFounded, WFMin
  <2>4. PICK m \in S : d = k - m
    OBVIOUS
  <2>5. \A x \in S : x <= m
    <3> SUFFICES ASSUME NEW x \in S, m < x PROVE FALSE
      OBVIOUS
    <3>1. k - x \in D /\ k - x \in Nat /\ d \in Nat /\ k - x < d
      BY <2>2, <2>4
    <3>2. <<k - x, d>> \in OpToRel(<, Nat)
      BY <3>1 DEF OpToRel
    <3> QED
      BY <2>3, <3>1, <3>2
  <2> QED
    BY <2>5
<1>3. PICK m \in S : \A x \in S : x <= m
  BY <1>2
<1>4. Max(S) = m
  <2>1. S \subseteq Nat
    OBVIOUS
  <2> QED
    BY <1>3, <2>1, MaxIs
<1> QED
  BY <1>3, <1>4

\* The last difficulty, and the last block of a table past the checkpoint.
LEMMA LastRows ==
  ASSUME NEW k \in PowHeights, FilledTo(k)
  PROVE  /\ LastRow(pows) = k
         /\ LastCheckpoint <= k => LastRow(blocks) = k
<1>1. k \in Nat /\ LastCheckpoint \in Nat
  BY PowNumbers
<1>2. LastRow(pows) = k
  <2>1. Rows(pows) = 0..k
    BY DEF FilledTo
  <2>2. k \in 0..k /\ 0..k \subseteq Nat /\ \A x \in 0..k : x <= k
    BY <1>1
  <2> QED
    BY <2>1, <2>2, MaxIs DEF LastRow
<1>3. ASSUME LastCheckpoint <= k PROVE LastRow(blocks) = k
  <2>1. Rows(blocks) = 0..k
    BY <1>1, <1>3 DEF FilledTo
  <2>2. k \in 0..k /\ 0..k \subseteq Nat /\ \A x \in 0..k : x <= k
    BY <1>1
  <2> QED
    BY <2>1, <2>2, MaxIs DEF LastRow
<1> QED
  BY <1>2, <1>3

\* The daemon's answer starts at a row it knows, the last one that it does.
LEMMA CommonRow ==
  ASSUME PowTypes, NEW k \in PowHeights, FilledTo(k), NEW start, start = Common(k)
  PROVE  /\ start \in 0..k /\ start <= daemon.height
         /\ \A h \in (start + 1)..k : OnDaemon(h) => blocks[h] # DaemonBlock(h)
<1> DEFINE S == {h \in Named(k) : OnDaemon(h) /\ blocks[h] = DaemonBlock(h)}
<1>1. k \in Nat /\ daemon.height \in Nat /\ k <= TipMax /\ TipMax \in Nat
  BY PowNumbers DEF PowTypes, PowHeights
<1>2. Named(k) = 0..k
  BY <1>1, PowNumbers DEF Named, FilledTo
<1>3. 0 \in S
  BY <1>1, <1>2, PowNumbers DEF FilledTo, OnDaemon, DaemonBlock, Block
<1>4. start = Max(S)
  BY DEF Common
<1>5. S \subseteq 0..k /\ S # {}
  BY <1>2, <1>3
<1>6. start \in S /\ \A x \in S : x <= start
  <2> HIDE DEF S
  <2> QED
    BY <1>1, <1>4, <1>5, GreatestBelow
<1>7. ASSUME NEW h \in (start + 1)..k, OnDaemon(h), blocks[h] = DaemonBlock(h) PROVE FALSE
  <2>1. start \in Nat
    BY <1>5, <1>6
  <2>2. h \in 0..k /\ start < h
    BY <1>1, <2>1
  <2>3. h \in S
    BY <1>2, <1>7, <2>2
  <2>4. h <= start
    BY <1>6, <2>3
  <2> QED
    BY <2>1, <2>2, <2>4
<1> QED
  BY <1>2, <1>6, <1>7 DEF OnDaemon

\* The walk of sync_pow ends at the first row: either the row is of another
\* block, or there is none, or it is the checkpoint ahead of the difficulties.
LEMMA WalkEnds ==
  ASSUME PowTypes, NEW k \in PowHeights, FilledTo(k),
         NEW start, start = Common(k), start < daemon.height,
         NEW last, last = Answer(start)
  PROVE  /\ start \in 0..k /\ last \in PowHeights /\ start <= last
         /\ Stop(start, last, TRUE) = start + 1
         /\ Differs(start, start + 1, last, TRUE) <=> (start < k /\ start < last)
<1>1. /\ k \in Nat /\ daemon.height \in Nat /\ daemon.height <= TipMax /\ TipMax \in Nat
      /\ SyncBatch \in Nat /\ LastCheckpoint \in Nat /\ k <= TipMax
  BY PowNumbers DEF PowTypes, PowHeights
<1>2. start \in Nat /\ start <= k /\ start \in 0..k
  BY <1>1, CommonRow
<1>3. last = IF start + SyncBatch <= daemon.height THEN start + SyncBatch ELSE daemon.height
  BY <1>1, <1>2, MinOfTwo DEF Answer
<1>4. last \in Nat /\ start <= last /\ last <= daemon.height /\ last \in PowHeights
  BY <1>1, <1>2, <1>3 DEF PowHeights
<1>5. start < k => start + 1 \in NthAfter(start, 1)
  <2> SUFFICES ASSUME start < k PROVE start + 1 \in NthAfter(start, 1)
    OBVIOUS
  <2>1. Rows(blocks) = 0..k \cup {LastCheckpoint}
    BY DEF FilledTo
  <2>2. {g \in Rows(blocks) : start < g /\ g <= start + 1} = {start + 1}
    BY <1>1, <1>2, <2>1
  <2>3. Cardinality({start + 1}) = 1
    BY FS_Singleton
  <2> QED
    BY <1>1, <1>2, <2>1, <2>2, <2>3 DEF NthAfter
<1>6. ASSUME NEW r \in NthAfter(start, 1), r = start + 1
      PROVE  start < k
  <2>1. r \in 0..k \cup {LastCheckpoint} /\ k # LastCheckpoint - 1
    BY DEF NthAfter, FilledTo
  <2> QED
    BY <1>1, <1>2, <1>6, <2>1
<1>7. start < k => blocks[start + 1] # DaemonBlock(start + 1)
  <2> SUFFICES ASSUME start < k PROVE blocks[start + 1] # DaemonBlock(start + 1)
    OBVIOUS
  <2>1. start + 1 \in (start + 1)..k /\ OnDaemon(start + 1)
    BY <1>1, <1>2 DEF OnDaemon
  <2> QED
    BY <2>1, CommonRow
<1>8. (start + 1) - start = 1
  BY <1>2
<1>9. ~ Agrees(start, start + 1, TRUE)
  <2>1. ~ \E r \in NthAfter(start, (start + 1) - start) :
            r = start + 1 /\ blocks[r] = DaemonBlock(start + 1)
    BY <1>6, <1>7, <1>8
  <2> QED
    BY <2>1, Zenon DEF Agrees
<1>10. Stop(start, last, TRUE) = start + 1
  <2>1. PICK stops : stops = {h \in start + 1..last : ~ Agrees(start, h, TRUE)}
    OBVIOUS
  <2>2. Stop(start, last, TRUE) = IF stops = {} THEN last + 1 ELSE Min(stops)
    BY <2>1, Zenon DEF Stop
  <2>3. stops \subseteq start + 1..last
    BY <2>1, Zenon
  <2>4. start + 1 \in start + 1..last => start + 1 \in stops
    BY <1>9, <2>1, Zenon
  <2>5. CASE ~ start < last
    <3>1. stops = {}
      <4> SUFFICES ASSUME NEW x \in stops PROVE FALSE
        OBVIOUS
      <4>1. x \in start + 1..last
        BY <2>3
      <4> QED
        BY <1>2, <1>4, <2>5, <4>1
    <3>2. Stop(start, last, TRUE) = last + 1
      BY <2>2, <3>1, Zenon
    <3>3. last + 1 = start + 1
      BY <1>2, <1>4, <2>5
    <3> QED
      BY <3>2, <3>3, Zenon
  <2>6. CASE start < last
    <3>1. start + 1 \in stops
      BY <1>2, <1>4, <2>4, <2>6
    <3>2. stops \subseteq Nat /\ \A x \in stops : start + 1 <= x
      BY <1>2, <1>4, <2>3
    <3>3. Min(stops) = start + 1
      BY <3>1, <3>2, MinIs
    <3>4. stops # {}
      BY <3>1
    <3> QED
      BY <2>2, <3>3, <3>4, Zenon
  <2> QED
    BY <2>5, <2>6, Zenon
<1>11. Differs(start, start + 1, last, TRUE) <=> (start < k /\ start < last)
  <2>1. start + 1 <= last <=> start < last
    BY <1>2, <1>4
  <2>2. (\E r \in NthAfter(start, (start + 1) - start) :
           r = start + 1 /\ blocks[r] # DaemonBlock(start + 1)) <=> start < k
    BY <1>5, <1>6, <1>7, <1>8
  <2> QED
    BY <2>1, <2>2, Zenon DEF Differs
<1> QED
  BY <1>2, <1>4, <1>10, <1>11

\* Which rows there are.
LEMMA FilledRows ==
  ASSUME NEW k \in PowHeights, FilledTo(k), NEW h \in PowHeights
  PROVE  /\ h \in Nat
         /\ pows[h] # NoBlock <=> h <= k
         /\ blocks[h] # NoBlock <=> h <= k \/ h = LastCheckpoint
<1>1. h \in Nat /\ k \in Nat /\ LastCheckpoint \in Nat
  BY PowNumbers
<1>2. /\ h \in Rows(pows) <=> pows[h] # NoBlock
      /\ h \in Rows(blocks) <=> blocks[h] # NoBlock
  BY DEF Rows
<1>3. Rows(pows) = 0..k /\ Rows(blocks) = 0..k \cup {LastCheckpoint}
  BY DEF FilledTo
<1> QED
  BY <1>1, <1>2, <1>3

\* The rows of the next state.
LEMMA RowsNext ==
  ASSUME NEW S, S \subseteq PowHeights
  PROVE  /\ (\A h \in PowHeights : pows'[h] # NoBlock <=> h \in S) => Rows(pows)' = S
         /\ (\A h \in PowHeights : blocks'[h] # NoBlock <=> h \in S) => Rows(blocks)' = S
<1>1. /\ Rows(pows)' = {h \in PowHeights : pows'[h] # NoBlock}
      /\ Rows(blocks)' = {h \in PowHeights : blocks'[h] # NoBlock}
  BY DEF Rows, PowHeights, NoBlock
<1> QED
  BY <1>1, Zenon

\* The rows that decide FilledTo do not change.
LEMMA FilledSame ==
  ASSUME NEW k \in PowHeights, FilledTo(k),
         \A h \in PowHeights : blocks'[h] = blocks[h] /\ pows'[h] = pows[h],
         stage' = "scan" => LastCheckpoint <= k
  PROVE  FilledTo(k)'
<1>0. 0 \in PowHeights /\ k \in Nat /\ \A h \in 0..k : h \in PowHeights
  BY PowNumbers DEF PowHeights
<1>1. Rows(blocks)' = Rows(blocks) /\ Rows(pows)' = Rows(pows)
  BY DEF Rows
<1> QED
  BY <1>0, <1>1 DEF FilledTo

\* Both tables are continued from k to last with the daemon's blocks.
LEMMA FilledOn ==
  ASSUME NEW k \in PowHeights, FilledTo(k), NEW last \in PowHeights, k <= last,
         last # LastCheckpoint - 1,
         \A h \in PowHeights :
           /\ blocks'[h] = IF k < h /\ h <= last THEN DaemonBlock(h) ELSE blocks[h]
           /\ pows'[h] = IF k < h /\ h <= last THEN DaemonBlock(h) ELSE pows[h],
         stage' = "scan" => LastCheckpoint <= last
  PROVE  FilledTo(last)'
<1>0. /\ 0 \in PowHeights /\ k \in Nat /\ last \in Nat /\ PowHeights \subseteq Nat
      /\ LastCheckpoint \in PowHeights /\ LastCheckpoint \in Nat
      /\ \A h \in 0..last : h \in PowHeights
  BY PowNumbers DEF PowHeights
<1>1. \A h \in PowHeights : DaemonBlock(h) # NoBlock
  BY <1>0, DaemonRow
<1>2. /\ \A h \in PowHeights : pows[h] # NoBlock <=> h <= k
      /\ \A h \in PowHeights : blocks[h] # NoBlock <=> h <= k \/ h = LastCheckpoint
      /\ \A h \in 0..k : pows[h] = blocks[h]
      /\ blocks[0] = <<0, 0>>
  BY <1>0 DEF FilledTo, Rows
<1>3. \A h \in PowHeights : pows'[h] # NoBlock <=> h <= last
  BY <1>0, <1>1, <1>2
<1>4. \A h \in PowHeights : blocks'[h] # NoBlock <=> h <= last \/ h = LastCheckpoint
  BY <1>0, <1>1, <1>2
<1>5. Rows(pows)' = 0..last
  <2>1. 0..last \subseteq PowHeights /\ \A h \in PowHeights : pows'[h] # NoBlock <=> h \in 0..last
    BY <1>0, <1>3
  <2> QED
    BY <2>1, RowsNext
<1>6. Rows(blocks)' = 0..last \cup {LastCheckpoint}
  <2>1. /\ 0..last \cup {LastCheckpoint} \subseteq PowHeights
        /\ \A h \in PowHeights : blocks'[h] # NoBlock <=> h \in 0..last \cup {LastCheckpoint}
    BY <1>0, <1>4
  <2> QED
    BY <2>1, RowsNext
<1>7. \A h \in 0..last : pows'[h] = blocks'[h]
  BY <1>0, <1>2
<1>8. blocks'[0] = <<0, 0>>
  BY <1>0, <1>2
<1> QED
  BY <1>5, <1>6, <1>7, <1>8 DEF FilledTo

\* Both tables are cut above start, at or above the checkpoint, and continued
\* to last with the daemon's blocks.
LEMMA FilledAnew ==
  ASSUME NEW k \in PowHeights, FilledTo(k), NEW start \in Nat, NEW last \in PowHeights,
         LastCheckpoint <= start, start <= k, start <= last,
         \A h \in PowHeights :
           /\ blocks'[h] = IF h <= start THEN blocks[h] ELSE IF h <= last THEN DaemonBlock(h) ELSE NoBlock
           /\ pows'[h] = IF h <= start THEN pows[h] ELSE IF h <= last THEN DaemonBlock(h) ELSE NoBlock
  PROVE  FilledTo(last)'
<1>0. /\ 0 \in PowHeights /\ k \in Nat /\ last \in Nat /\ PowHeights \subseteq Nat
      /\ LastCheckpoint \in PowHeights /\ LastCheckpoint \in Nat
      /\ \A h \in 0..last : h \in PowHeights
  BY PowNumbers DEF PowHeights
<1>1. \A h \in PowHeights : DaemonBlock(h) # NoBlock
  BY <1>0, DaemonRow
<1>2. /\ \A h \in PowHeights : h <= k => pows[h] # NoBlock /\ blocks[h] # NoBlock
      /\ \A h \in 0..k : pows[h] = blocks[h]
      /\ blocks[0] = <<0, 0>>
  BY <1>0 DEF FilledTo, Rows
<1>3. \A h \in PowHeights : pows'[h] # NoBlock <=> h <= last
  BY <1>0, <1>1, <1>2
<1>4. \A h \in PowHeights : blocks'[h] # NoBlock <=> h <= last
  BY <1>0, <1>1, <1>2
<1>5. Rows(pows)' = 0..last
  <2>1. 0..last \subseteq PowHeights /\ \A h \in PowHeights : pows'[h] # NoBlock <=> h \in 0..last
    BY <1>0, <1>3
  <2> QED
    BY <2>1, RowsNext
<1>6. Rows(blocks)' = 0..last \cup {LastCheckpoint}
  <2>1. /\ 0..last \cup {LastCheckpoint} \subseteq PowHeights
        /\ \A h \in PowHeights : blocks'[h] # NoBlock <=> h \in 0..last \cup {LastCheckpoint}
    BY <1>0, <1>4
  <2> QED
    BY <2>1, RowsNext
<1>7. \A h \in 0..last : pows'[h] = blocks'[h]
  BY <1>0, <1>2
<1>8. blocks'[0] = <<0, 0>>
  BY <1>0, <1>2
<1>9. last # LastCheckpoint - 1 /\ LastCheckpoint <= last
  BY <1>0
<1> QED
  BY <1>5, <1>6, <1>7, <1>8, <1>9 DEF FilledTo

\* sync_pow leaves both tables filled, unless it ends just below the checkpoint.
LEMMA SyncPowStep ==
  ASSUME PowTypes, NEW k \in PowHeights, FilledTo(k), sync_pow, ~ abutting'
  PROVE  \E j \in PowHeights : FilledTo(j)'
<1>0. /\ k \in Nat /\ LastCheckpoint \in Nat /\ PowHeights \subseteq Nat
      /\ LastRow(pows) = k
  BY PowNumbers, LastRows
<1>1. PICK start : start = Common(k)
  OBVIOUS
<1>2. PICK last : last = Answer(start)
  OBVIOUS
<1> DEFINE kept == IF Differs(start, start + 1, last, TRUE) THEN rollback_chain(start + 1) ELSE Same
<1>3. start < daemon.height
  BY <1>0, <1>1 DEF sync_pow
<1>4. /\ start \in 0..k /\ last \in PowHeights /\ start <= last
      /\ Stop(start, last, TRUE) = start + 1
      /\ Differs(start, start + 1, last, TRUE) <=> (start < k /\ start < last)
  BY <1>1, <1>2, <1>3, WalkEnds
<1>5. /\ Differs(start, start + 1, last, TRUE) => ~ (start + 1 <= LastCheckpoint)
      /\ blocks' = append_block_hashes(kept.blocks, start + 1, last)
      /\ pows' = append_pow(kept.pows, start + 1, last)
      /\ last # LastCheckpoint - 1
      /\ stage' = "sync" /\ UNCHANGED daemon
  BY <1>0, <1>1, <1>2, <1>4 DEF sync_pow
<1>6. start \in Nat /\ last \in Nat
  BY <1>0, <1>4
<1>7. /\ Rows(pows) = 0..k /\ Rows(blocks) = 0..k \cup {LastCheckpoint}
      /\ \A h \in 0..k : pows[h] = blocks[h]
      /\ blocks[0] = <<0, 0>> /\ k # LastCheckpoint - 1
  BY DEF FilledTo
<1>8. CASE start < k /\ start < last
  <2>1. pows[start + 1] # NoBlock
    BY <1>0, <1>6, <1>7, <1>8 DEF Rows
  <2>2. /\ kept.blocks = Without(blocks, start + 1)
        /\ kept.pows = Without(pows, start + 1)
        /\ LastCheckpoint <= start
    <3>1. kept = rollback_chain(start + 1) /\ ~ (start + 1 <= LastCheckpoint)
      BY <1>4, <1>5, <1>8, Zenon
    <3>2. rollback_chain(start + 1)
            = [blocks |-> Without(blocks, start + 1), pows |-> Without(pows, start + 1)]
      BY <2>1 DEF rollback_chain
    <3> HIDE DEF kept
    <3> QED
      BY <1>0, <1>6, <3>1, <3>2
  <2> HIDE DEF kept
  <2>3. \A h \in PowHeights :
          /\ blocks'[h] = IF h <= start THEN blocks[h] ELSE IF h <= last THEN DaemonBlock(h) ELSE NoBlock
          /\ pows'[h] = IF h <= start THEN pows[h] ELSE IF h <= last THEN DaemonBlock(h) ELSE NoBlock
    <3>1. /\ blocks' = append_block_hashes(Without(blocks, start + 1), start + 1, last)
          /\ pows' = append_pow(Without(pows, start + 1), start + 1, last)
      BY <1>5, <2>2, Zenon
    <3> SUFFICES ASSUME NEW h \in PowHeights
                 PROVE  /\ blocks'[h] = IF h <= start THEN blocks[h]
                                         ELSE IF h <= last THEN DaemonBlock(h) ELSE NoBlock
                        /\ pows'[h] = IF h <= start THEN pows[h]
                                       ELSE IF h <= last THEN DaemonBlock(h) ELSE NoBlock
      OBVIOUS
    <3>2. /\ Without(blocks, start + 1)[h] = IF start + 1 <= h THEN NoBlock ELSE blocks[h]
          /\ Without(pows, start + 1)[h] = IF start + 1 <= h THEN NoBlock ELSE pows[h]
      BY DEF Without
    <3>3. /\ blocks'[h] = IF start + 1 <= h /\ h <= last THEN DaemonBlock(h)
                          ELSE Without(blocks, start + 1)[h]
          /\ pows'[h] = IF start + 1 <= h /\ h <= last /\ Without(pows, start + 1)[h] = NoBlock
                        THEN DaemonBlock(h) ELSE Without(pows, start + 1)[h]
      BY <3>1 DEF append_block_hashes, append_pow
    <3>4. start + 1 <= h <=> ~ h <= start
      BY <1>0, <1>6
    <3> QED
      BY <3>2, <3>3, <3>4
  <2>4. FilledTo(last)'
    BY <1>0, <1>4, <1>5, <1>6, <1>7, <1>8, <2>2, <2>3, FilledAnew
  <2> QED
    BY <1>4, <2>4
<1>9. CASE ~ (start < k /\ start < last)
  <2>1. kept = [blocks |-> blocks, pows |-> pows]
    BY <1>4, <1>9, Zenon DEF Same
  <2> HIDE DEF kept
  <2>2. kept.blocks = blocks /\ kept.pows = pows
    BY <2>1
  <2>3. CASE start = k
    <3>1. \A h \in PowHeights :
            /\ blocks'[h] = IF k < h /\ h <= last THEN DaemonBlock(h) ELSE blocks[h]
            /\ pows'[h] = IF k < h /\ h <= last THEN DaemonBlock(h) ELSE pows[h]
      <4> SUFFICES ASSUME NEW h \in PowHeights
                   PROVE  /\ blocks'[h] = IF k < h /\ h <= last THEN DaemonBlock(h) ELSE blocks[h]
                          /\ pows'[h] = IF k < h /\ h <= last THEN DaemonBlock(h) ELSE pows[h]
        OBVIOUS
      <4>1. h \in Nat /\ (k < h => pows[h] = NoBlock)
        BY <1>0, FilledRows
      <4> QED
        BY <1>0, <1>5, <1>6, <2>2, <2>3, <4>1 DEF append_block_hashes, append_pow
    <3>2. FilledTo(last)'
      BY <1>0, <1>4, <1>5, <1>6, <2>3, <3>1, FilledOn
    <3> QED
      BY <1>4, <3>2
  <2>4. CASE start # k
    <3>1. last = start
      BY <1>0, <1>4, <1>6, <1>9, <2>4
    <3>2. \A h \in PowHeights : blocks'[h] = blocks[h] /\ pows'[h] = pows[h]
      BY <1>0, <1>5, <1>6, <2>2, <3>1 DEF append_block_hashes, append_pow
    <3>3. FilledTo(k)'
      BY <1>0, <1>5, <3>2, FilledSame
    <3> QED
      BY <3>3
  <2> QED
    BY <2>3, <2>4
<1> QED
  BY <1>8, <1>9

\* A thread past the end adds to both tables.
LEMMA ThreadPowStep ==
  ASSUME PowTypes, NEW k \in PowHeights, FilledTo(k), mode = "untrusted",
         NEW height \in PowHeights, NEW last \in PowHeights, update(height, last)
  PROVE  \E j \in PowHeights : FilledTo(j)'
<1>0. /\ k \in Nat /\ last \in Nat /\ PowHeights \subseteq Nat /\ LastCheckpoint \in Nat
  BY PowNumbers
<1>1. LastCheckpoint <= k /\ LastRow(blocks) = k /\ stage' = "scan"
  BY LastRows DEF update, FilledTo
<1>2. PICK first : first = AppendedFrom(height, last)
  OBVIOUS
<1>3. first = (IF k <= last THEN k ELSE last) + 1
  BY <1>0, <1>1, <1>2, MinOfTwo DEF AppendedFrom
<1>4. /\ blocks' = append_block_hashes(blocks, first, last)
      /\ pows' = append_pow(pows, first, last)
  BY <1>2 DEF update
<1>5. CASE k <= last
  <2>1. ASSUME NEW h \in PowHeights
        PROVE  /\ blocks'[h] = IF k < h /\ h <= last THEN DaemonBlock(h) ELSE blocks[h]
               /\ pows'[h] = IF k < h /\ h <= last THEN DaemonBlock(h) ELSE pows[h]
    <3>1. h \in Nat /\ (pows[h] # NoBlock <=> h <= k)
      BY FilledRows
    <3>2. k < h => pows[h] = NoBlock
      BY <1>0, <3>1
    <3> QED
      BY <1>0, <1>3, <1>4, <1>5, <3>1, <3>2 DEF append_block_hashes, append_pow
  <2>2. LastCheckpoint <= last /\ last # LastCheckpoint - 1
    BY <1>0, <1>1, <1>5
  <2>3. FilledTo(last)'
    BY <1>5, <2>1, <2>2, FilledOn
  <2> QED
    BY <2>3
<1>6. CASE ~ k <= last
  <2>1. \A h \in PowHeights : blocks'[h] = blocks[h] /\ pows'[h] = pows[h]
    BY <1>0, <1>3, <1>4, <1>6 DEF append_block_hashes, append_pow
  <2>2. FilledTo(k)'
    BY <1>1, <2>1, FilledSame
  <2> QED
    BY <2>2
<1> QED
  BY <1>5, <1>6

\* The rollback command cuts both tables at the same height.
LEMMA RollbackPowStep ==
  ASSUME PowTypes, NEW k \in PowHeights, FilledTo(k), NEW height \in PowHeights, rollback(height)
  PROVE  \E j \in PowHeights : FilledTo(j)'
<1>0. /\ k \in Nat /\ height \in Nat /\ PowHeights \subseteq Nat /\ LastCheckpoint \in Nat
      /\ TipMax \in Nat
  BY PowNumbers
<1>1. /\ LastCheckpoint < height /\ blocks[height] # NoBlock
      /\ blocks' = rollback_chain(height).blocks /\ pows' = rollback_chain(height).pows
      /\ UNCHANGED stage
  BY DEF rollback
<1>2. height <= k /\ pows[height] # NoBlock
  BY <1>0, <1>1 DEF FilledTo, Rows
<1>3. blocks' = Without(blocks, height) /\ pows' = Without(pows, height)
  BY <1>1, <1>2 DEF rollback_chain
<1> DEFINE last == height - 1
<1>4. last \in Nat /\ last \in PowHeights /\ LastCheckpoint <= last /\ last <= k
  BY <1>0, <1>1, <1>2 DEF PowHeights
<1>5. ASSUME NEW h \in PowHeights
      PROVE  /\ blocks'[h] = IF h <= last THEN blocks[h] ELSE IF h <= last THEN DaemonBlock(h) ELSE NoBlock
             /\ pows'[h] = IF h <= last THEN pows[h] ELSE IF h <= last THEN DaemonBlock(h) ELSE NoBlock
  <2>1. h \in Nat /\ (height <= h <=> ~ h <= last)
    BY <1>0
  <2>2. /\ blocks'[h] = IF height <= h THEN NoBlock ELSE blocks[h]
        /\ pows'[h] = IF height <= h THEN NoBlock ELSE pows[h]
    BY <1>3 DEF Without
  <2> HIDE DEF last
  <2> QED
    BY <2>1, <2>2
<1> HIDE DEF last
<1>6. FilledTo(last)'
  BY <1>4, <1>5, FilledAnew
<1> QED
  BY <1>4, <1>6

\* The types hold in every step.
LEMMA PowTypesStep ==
  ASSUME PowTypes, PowNext
  PROVE  PowTypes'
<1>0. daemon.height \in Nat /\ daemon.height <= TipMax /\ TipMax \in Nat /\ ForkAt \in Nat
  BY PowNumbers DEF PowTypes, PowHeights
<1>1. CASE Grows
  <2>1. daemon' = [daemon EXCEPT !.height = daemon.height + 1] /\ UNCHANGED <<mode, trusting>>
    BY <1>1 DEF Grows
  <2>2. daemon' = [branch |-> daemon.branch, height |-> daemon.height + 1]
    BY <2>1, Zenon DEF PowTypes
  <2>3. daemon.height + 1 \in PowHeights
    BY <1>0, <1>1 DEF Grows, PowHeights
  <2>4. PowHeights' = PowHeights
    BY DEF PowHeights
  <2>5. /\ daemon'.height \in PowHeights
        /\ daemon' = [branch |-> daemon'.branch, height |-> daemon'.height]
    BY <2>2, <2>3
  <2> QED
    BY <2>1, <2>4, <2>5 DEF PowTypes
<1>2. CASE Reorganises
  <2>1. PICK h \in ForkAt..TipMax : daemon' = [branch |-> 1 - daemon.branch, height |-> h]
    BY <1>2 DEF Reorganises
  <2>2. /\ daemon'.height = h /\ h \in PowHeights
        /\ daemon' = [branch |-> daemon'.branch, height |-> daemon'.height]
    BY <1>0, <2>1 DEF PowHeights
  <2> QED
    BY <1>2, <2>2 DEF Reorganises, PowTypes, PowHeights
<1>3. CASE Restart
  BY <1>3 DEF Restart, PowTypes, PowHeights
<1>4. CASE UNCHANGED <<daemon, mode, trusting>>
  BY <1>4 DEF PowTypes, PowHeights
<1> QED
  BY <1>1, <1>2, <1>3, <1>4 DEF PowNext, sync_chain, sync_pow, sync_done, update, update_reorg, rollback

\* sync_done: the last difficulty is the daemon's top, past the checkpoint.
LEMMA SyncDoneStep ==
  ASSUME PowTypes, NEW k \in PowHeights, FilledTo(k), mode = "untrusted", sync_done
  PROVE  FilledTo(k)'
<1>0. k \in Nat /\ LastCheckpoint \in Nat /\ LastRow(pows) = k /\ daemon.height \in Nat
  BY PowNumbers, LastRows DEF PowTypes
<1>1. PICK start : start = Common(k)
  OBVIOUS
<1>2. start = daemon.height /\ LastCheckpoint <= daemon.height /\ UNCHANGED <<blocks, pows>>
  BY <1>0, <1>1 DEF sync_done
<1>3. start \in 0..k
  BY <1>1, CommonRow
<1>4. LastCheckpoint <= k
  BY <1>0, <1>2, <1>3
<1> QED
  BY <1>2, <1>4, FilledSame

\* Every step keeps the tables of a distrusting server filled.
LEMMA PowStep ==
  ASSUME PowIInv, PowNext
  PROVE  PowIInv'
<1>1. PowTypes /\ PowTypes'
  BY PowTypesStep DEF PowIInv
<1>2. ASSUME ~ trusting', ~ abutting'
      PROVE  \E j \in PowHeights : FilledTo(j)'
  <2>1. ~ trusting /\ ~ abutting
    <3>1. CASE sync_pow
      <4>1. PICK last : abutting' = (abutting \/ last = LastCheckpoint - 1)
        BY <3>1 DEF sync_pow
      <4>2. UNCHANGED trusting
        BY <3>1 DEF sync_pow
      <4> QED
        BY <1>2, <4>1, <4>2, Zenon
    <3>2. CASE Restart
      BY <1>2, <3>2, Zenon DEF Restart
    <3>3. CASE UNCHANGED <<trusting, abutting>>
      BY <1>2, <3>3, Zenon
    <3>4. sync_pow \/ Restart \/ UNCHANGED <<trusting, abutting>>
      BY DEF PowNext, sync_chain, sync_done, update, update_reorg, Grows, Reorganises, rollback
    <3> QED
      BY <3>1, <3>2, <3>3, <3>4, Zenon
  <2>2. mode = "untrusted"
    BY <1>1, <2>1 DEF PowTypes
  <2>3. PICK k \in PowHeights : FilledTo(k)
    BY <2>1 DEF PowIInv
  <2>4. CASE UNCHANGED <<blocks, pows, stage>>
    <3>1. stage' = "scan" => LastCheckpoint <= k
      BY <2>3, <2>4 DEF FilledTo
    <3> QED
      BY <2>3, <2>4, <3>1, FilledSame
  <2>5. CASE sync_pow
    BY <1>1, <1>2, <2>3, <2>5, SyncPowStep
  <2>6. CASE sync_done
    BY <1>1, <2>2, <2>3, <2>6, SyncDoneStep
  <2>7. CASE \E height, last \in PowHeights : update(height, last)
    BY <1>1, <2>2, <2>3, <2>7, ThreadPowStep
  <2>8. CASE \E height \in PowHeights : rollback(height)
    BY <1>1, <2>3, <2>8, RollbackPowStep
  <2>9. CASE (\E last \in PowHeights : update_reorg(last)) \/ Restart
    <3>1. UNCHANGED <<blocks, pows>> /\ stage' = "sync"
      BY <2>9 DEF update_reorg, Restart
    <3> QED
      BY <2>3, <3>1, FilledSame
  <2>10. CASE Grows \/ Reorganises
    BY <2>4, <2>10 DEF Grows, Reorganises
  <2>11. ~ sync_chain
    BY <2>2 DEF sync_chain
  <2> QED
    BY <2>5, <2>6, <2>7, <2>8, <2>9, <2>10, <2>11 DEF PowNext
<1>3. ~ trusting' /\ ~ abutting' => \E j \in PowHeights : FilledTo(j)'
  BY <1>2
<1>4. PowHeights' = PowHeights
  BY DEF PowHeights
<1> QED
  BY <1>1, <1>3, <1>4 DEF PowIInv

\* A new database: genesis, and the checkpoint above it.
LEMMA PowInitInv ==
  ASSUME 2 <= LastCheckpoint, PowInit
  PROVE  PowIInv
<1>0. /\ LastCheckpoint \in Nat /\ PowHeights \subseteq Nat /\ 0 \in PowHeights
      /\ LastCheckpoint \in PowHeights /\ ForkAt \in Nat /\ 0 < ForkAt
      /\ LastCheckpoint + 1 <= TipMax /\ TipMax \in Nat
  BY PowNumbers
<1>1. PowTypes
  <2>1. PICK h \in 1..LastCheckpoint + 1 :
          daemon.height = h /\ daemon = [branch |-> daemon.branch, height |-> daemon.height]
    BY DEF PowInit
  <2>2. h \in PowHeights
    BY <1>0 DEF PowHeights
  <2> QED
    BY <2>1, <2>2 DEF PowInit, PowTypes
<1>2. \A h \in PowHeights : /\ blocks[h] # NoBlock <=> h \in {0, LastCheckpoint}
                            /\ pows[h] # NoBlock <=> h = 0
  BY <1>0 DEF PowInit, NewBlocks, NewPows, Block, NoBlock
<1>3. Rows(pows) = 0..0 /\ Rows(blocks) = 0..0 \cup {LastCheckpoint}
  <2>1. 0..0 = {0}
    OBVIOUS
  <2>2. Rows(pows) = {0} /\ Rows(blocks) = {0, LastCheckpoint}
    BY <1>0, <1>2, Zenon DEF Rows
  <2> QED
    BY <2>1, <2>2
<1>4. pows[0] = <<0, 0>> /\ blocks[0] = <<0, 0>> /\ stage = "sync"
  BY <1>0 DEF PowInit, NewBlocks, NewPows, Block
<1>5. FilledTo(0)
  BY <1>0, <1>3, <1>4 DEF FilledTo
<1> QED
  BY <1>0, <1>1, <1>5 DEF PowIInv

\* The table of difficulties follows the blocks table without a gap, through
\* reorganisations, restarts and scan threads that write past its end: the
\* rows get_pow_window counts are those of the window.  The last checkpoint is
\* above block 1; a first request that the daemon answers with genesis alone
\* would otherwise abut on it.
THEOREM DifficultiesFollow ==
  ASSUME 2 <= LastCheckpoint
  PROVE  PowSpec => []PowFollows
<1>1. PowInit => PowIInv
  BY PowInitInv
<1>2. PowIInv /\ [PowNext]_powVars => PowIInv'
  <2>1. ASSUME PowIInv, UNCHANGED powVars PROVE PowIInv'
    <3>1. PowTypes' /\ PowHeights' = PowHeights
      BY <2>1 DEF powVars, PowIInv, PowTypes, PowHeights
    <3>2. UNCHANGED <<blocks, pows, stage, trusting, abutting>>
      BY <2>1 DEF powVars
    <3>3. ASSUME NEW k \in PowHeights, FilledTo(k) PROVE FilledTo(k)'
      BY <3>2, <3>3 DEF FilledTo, Rows, PowHeights, NoBlock
    <3> QED
      BY <2>1, <3>1, <3>2, <3>3 DEF PowIInv
  <2> QED
    BY <2>1, PowStep
<1>3. PowIInv => PowFollows
  <2> SUFFICES ASSUME NEW k \in PowHeights, FilledTo(k)
               PROVE  /\ Rows(pows) = 0..LastRow(pows)
                      /\ \A h \in Rows(pows) : pows[h] = blocks[h]
                      /\ Rows(blocks) = Rows(pows) \cup {LastCheckpoint}
    BY DEF PowIInv, PowFollows
  <2>1. LastRow(pows) = k
    BY LastRows
  <2> QED
    BY <2>1 DEF FilledTo
<1> QED
  BY <1>1, <1>2, <1>3, PTL DEF PowSpec

-----------------------------------------------------------------------------
(* Ranges and their merge.                                                 *)

Pairs == Nat \X Nat

\* Every range of a sequence is one.
Whole(rs) == \A i \in DOMAIN rs : rs[i][1] <= rs[i][2]

\* No two ranges of a sequence have a minor index in common.
Disjoint(rs) == \A i, j \in DOMAIN rs : i # j => rs[i][2] < rs[j][1] \/ rs[j][2] < rs[i][1]

LEMMA PairFacts ==
  ASSUME NEW rs \in Seq(Pairs)
  PROVE  /\ Len(rs) \in Nat /\ DOMAIN rs = 1..Len(rs)
         /\ \A i \in 1..Len(rs) : rs[i] \in Pairs /\ rs[i][1] \in Nat /\ rs[i][2] \in Nat
<1>1. Len(rs) \in Nat /\ DOMAIN rs = 1..Len(rs)
  BY LenProperties
<1>2. \A i \in 1..Len(rs) : rs[i] \in Pairs
  BY ElementOfSeq
<1> QED
  BY <1>1, <1>2 DEF Pairs

\* The members of a sequence of ranges are those of the ranges.
LEMMA MembersIn ==
  ASSUME NEW rs \in Seq(Pairs), NEW x
  PROVE  x \in Members(rs) <=> \E i \in 1..Len(rs) : x \in rs[i][1]..rs[i][2]
BY PairFacts DEF Members, ToSet

LEMMA MembersNat ==
  ASSUME NEW rs \in Seq(Pairs)
  PROVE  Members(rs) \subseteq Nat
<1>1. ASSUME NEW i \in 1..Len(rs), NEW x \in rs[i][1]..rs[i][2] PROVE x \in Nat
  <2>1. rs[i][1] \in Nat /\ rs[i][2] \in Nat
    BY PairFacts
  <2> QED
    BY <2>1
<1> QED
  BY <1>1, MembersIn

LEMMA MembersOfNone == Members(<< >>) = {}
BY DEF Members, ToSet

LEMMA OneRange ==
  ASSUME NEW r \in Pairs
  PROVE  /\ <<r>> \in Seq(Pairs) /\ Members(<<r>>) = r[1]..r[2]
         /\ Whole(<<r>>) <=> r[1] <= r[2]
<1>1. <<r>> \in Seq(Pairs) /\ DOMAIN <<r>> = {1} /\ <<r>>[1] = r
  OBVIOUS
<1> QED
  BY <1>1 DEF Members, ToSet, Whole

\* Sequences of ranges one after the other.
LEMMA MembersJoin ==
  ASSUME NEW s \in Seq(Pairs), NEW t \in Seq(Pairs)
  PROVE  /\ s \o t \in Seq(Pairs)
         /\ Members(s \o t) = Members(s) \cup Members(t)
         /\ Whole(s \o t) <=> Whole(s) /\ Whole(t)
<1> DEFINE st == s \o t
<1>1. st \in Seq(Pairs) /\ Len(st) = Len(s) + Len(t)
  BY ConcatProperties
<1>2. \A i \in 1..Len(s) + Len(t) : st[i] = IF i <= Len(s) THEN s[i] ELSE t[i - Len(s)]
  BY ConcatProperties
<1>3. /\ Len(s) \in Nat /\ Len(t) \in Nat /\ Len(st) \in Nat
      /\ DOMAIN s = 1..Len(s) /\ DOMAIN t = 1..Len(t) /\ DOMAIN st = 1..Len(st)
  BY <1>1, PairFacts
<1> HIDE DEF st
<1>4. \A i \in 1..Len(s) : i \in 1..Len(st) /\ st[i] = s[i]
  BY <1>1, <1>2, <1>3
<1>5. \A i \in 1..Len(t) : Len(s) + i \in 1..Len(st) /\ st[Len(s) + i] = t[i]
  <2> TAKE i \in 1..Len(t)
  <2>1. Len(s) + i \in 1..Len(st) /\ ~ Len(s) + i <= Len(s) /\ Len(s) + i - Len(s) = i
    BY <1>1, <1>3
  <2> QED
    BY <1>1, <1>2, <2>1
<1>6. \A i \in 1..Len(st) : (\E j \in 1..Len(s) : st[i] = s[j]) \/ (\E j \in 1..Len(t) : st[i] = t[j])
  <2> TAKE i \in 1..Len(st)
  <2>1. i <= Len(s) => i \in 1..Len(s)
    BY <1>3
  <2>2. ~ i <= Len(s) => i - Len(s) \in 1..Len(t)
    BY <1>1, <1>3
  <2> QED
    BY <1>1, <1>2, <2>1, <2>2
<1>7. ASSUME NEW x PROVE x \in Members(st) <=> x \in Members(s) \/ x \in Members(t)
  <2>1. x \in Members(st) <=> \E i \in 1..Len(st) : x \in st[i][1]..st[i][2]
    BY <1>1, MembersIn
  <2>2. x \in Members(s) <=> \E i \in 1..Len(s) : x \in s[i][1]..s[i][2]
    BY MembersIn
  <2>3. x \in Members(t) <=> \E i \in 1..Len(t) : x \in t[i][1]..t[i][2]
    BY MembersIn
  <2> QED
    BY <1>4, <1>5, <1>6, <2>1, <2>2, <2>3, Zenon
<1>8. Whole(st) <=> Whole(s) /\ Whole(t)
  <2>1. ASSUME Whole(st) PROVE Whole(s)
    BY <1>3, <1>4, <2>1 DEF Whole
  <2>2. ASSUME Whole(st) PROVE Whole(t)
    BY <1>3, <1>5, <2>2 DEF Whole
  <2>3. ASSUME Whole(s), Whole(t) PROVE Whole(st)
    BY <1>3, <1>6, <2>3, Zenon DEF Whole
  <2> QED
    BY <2>1, <2>2, <2>3
<1> QED
  BY <1>1, <1>7, <1>8 DEF st

\* The first range and the others.
LEMMA MembersSplit ==
  ASSUME NEW s \in Seq(Pairs), s # << >>
  PROVE  /\ Head(s) \in Pairs /\ Head(s) = s[1] /\ Tail(s) \in Seq(Pairs)
         /\ Head(s)[1] \in Nat /\ Head(s)[2] \in Nat
         /\ Members(s) = (Head(s)[1]..Head(s)[2]) \cup Members(Tail(s))
         /\ Whole(s) <=> Head(s)[1] <= Head(s)[2] /\ Whole(Tail(s))
<1>1. Head(s) \in Pairs /\ Tail(s) \in Seq(Pairs)
  BY HeadTailProperties
<1>2. s = <<Head(s)>> \o Tail(s)
  <2>1. <<Head(s)>> \in Seq(Pairs) /\ Len(<<Head(s)>>) = 1
    BY <1>1
  <2> DEFINE t == <<Head(s)>> \o Tail(s)
  <2>2. t \in Seq(Pairs) /\ Len(t) = 1 + Len(Tail(s))
    BY <1>1, <2>1, ConcatProperties
  <2>3. \A i \in 1..1 + Len(Tail(s)) : t[i] = IF i <= 1 THEN <<Head(s)>>[i] ELSE Tail(s)[i - 1]
    BY <1>1, <2>1, ConcatProperties
  <2>4. Len(Tail(s)) = Len(s) - 1 /\ \A i \in 1..Len(s) - 1 : Tail(s)[i] = s[i + 1]
    BY HeadTailProperties
  <2>5. Len(s) \in Nat /\ Head(s) = s[1]
    BY PairFacts
  <2> HIDE DEF t
  <2>6. ASSUME NEW i \in 1..Len(s) PROVE s[i] = t[i]
    <3>1. CASE i = 1
      <4>1. t[1] = <<Head(s)>>[1]
        BY <2>3, <2>4, <2>5, <3>1
      <4> QED
        BY <2>5, <3>1, <4>1
    <3>2. CASE i # 1
      <4>1. i - 1 \in 1..Len(s) - 1 /\ i - 1 + 1 = i /\ ~ i <= 1 /\ i \in 1..1 + Len(Tail(s))
        BY <2>4, <2>5, <3>2
      <4> QED
        BY <2>3, <2>4, <4>1
    <3> QED
      BY <3>1, <3>2
  <2>7. Len(s) = Len(t)
    BY <2>2, <2>4, <2>5
  <2>8. s = t
    BY <2>2, <2>6, <2>7, SeqEqual
  <2> QED
    BY <2>8 DEF t
<1> DEFINE h == <<Head(s)>>
           u == Tail(s)
<1>3. /\ h \in Seq(Pairs) /\ Members(h) = Head(s)[1]..Head(s)[2]
      /\ Whole(h) <=> Head(s)[1] <= Head(s)[2]
  BY <1>1, OneRange
<1>4. Head(s) = s[1]
  OBVIOUS
<1>5. u \in Seq(Pairs) /\ s = h \o u
  BY <1>1, <1>2
<1>6. Head(s)[1] \in Nat /\ Head(s)[2] \in Nat
  BY <1>1 DEF Pairs
<1> HIDE DEF h, u
<1>7. Members(s) = Members(h) \cup Members(u) /\ (Whole(s) <=> Whole(h) /\ Whole(u))
  BY <1>3, <1>5, MembersJoin
<1> QED
  BY <1>1, <1>3, <1>4, <1>6, <1>7 DEF u

MergeState == [old : Seq(Pairs), new : Seq(Pairs), rows : Seq(Pairs), out : Seq(Pairs)]

\* A round, or nothing once one of the two is used up.
MergeStep(p) == IF p.old = << >> \/ p.new = << >> THEN p ELSE MergeRound(p)

\* What a range n adds to a range o that it touches, and both together.
Before(o, n) == IF n[1] < o[1] THEN <<<<n[1], o[1] - 1>>>> ELSE << >>
After(o, n) == IF o[2] < n[2] THEN <<<<o[2] + 1, n[2]>>>> ELSE << >>
Wider(o, n) == <<IF n[1] < o[1] THEN n[1] ELSE o[1], IF o[2] < n[2] THEN n[2] ELSE o[2]>>

\* The three things a round may do with the first stored and the first new range.
NewFirst(p, q) ==
  /\ Head(p.new)[2] + 1 < Head(p.old)[1]
  /\ q = [old |-> p.old, new |-> Tail(p.new),
          rows |-> p.rows \o <<Head(p.new)>>, out |-> p.out \o <<Head(p.new)>>]
OldFirst(p, q) ==
  /\ Head(p.old)[2] + 1 < Head(p.new)[1]
  /\ q = [old |-> Tail(p.old), new |-> p.new, rows |-> p.rows \o <<Head(p.old)>>, out |-> p.out]
Touching(p, q) ==
  /\ ~ Head(p.new)[2] + 1 < Head(p.old)[1]
  /\ ~ Head(p.old)[2] + 1 < Head(p.new)[1]
  /\ q = [old |-> <<Wider(Head(p.old), Head(p.new))>> \o Tail(p.old), new |-> Tail(p.new),
          rows |-> p.rows,
          out |-> (p.out \o Before(Head(p.old), Head(p.new))) \o After(Head(p.old), Head(p.new))]

LEMMA MergeCases ==
  ASSUME NEW p \in MergeState, p.old # << >>, p.new # << >>
  PROVE  LET q == MergeRound(p) IN NewFirst(p, q) \/ OldFirst(p, q) \/ Touching(p, q)
<1> DEFINE o == Head(p.old)
           n == Head(p.new)
           q == MergeRound(p)
<1>1. /\ p.old \in Seq(Pairs) /\ p.new \in Seq(Pairs) /\ p.rows \in Seq(Pairs) /\ p.out \in Seq(Pairs)
      /\ o \in Pairs /\ n \in Pairs
  BY MembersSplit DEF MergeState
<1>2. p = [old |-> p.old, new |-> p.new, rows |-> p.rows, out |-> p.out]
  BY DEF MergeState
<1>3. Append(p.rows, n) = p.rows \o <<n>> /\ Append(p.rows, o) = p.rows \o <<o>> /\ Append(p.out, n) = p.out \o <<n>>
  BY <1>1, AppendIsConcat
<1>4. /\ o[1] \in Nat /\ o[2] \in Nat /\ n[1] \in Nat /\ n[2] \in Nat
  BY <1>1 DEF Pairs
<1>5. CASE n[2] + 1 < o[1] /\ ~ o[2] + 1 < n[1]
  <2>1. q = [p EXCEPT !.new = Tail(@), !.rows = Append(@, n), !.out = Append(@, n)]
    BY <1>5 DEF MergeRound
  <2>2. q = [old |-> p.old, new |-> Tail(p.new), rows |-> Append(p.rows, n), out |-> Append(p.out, n)]
    <3> HIDE DEF o, n, q
    <3> QED BY <1>2, <2>1
  <2>3. NewFirst(p, q)
    BY <1>3, <1>5, <2>2, Zenon DEF NewFirst, o, n
  <2> QED
    BY <2>3
<1>6. CASE o[2] + 1 < n[1] /\ ~ n[2] + 1 < o[1]
  <2>1. q = [p EXCEPT !.old = Tail(@), !.rows = Append(@, o)]
    BY <1>6 DEF MergeRound
  <2>2. q = [old |-> Tail(p.old), new |-> p.new, rows |-> Append(p.rows, o), out |-> p.out]
    <3> HIDE DEF o, n, q
    <3> QED BY <1>2, <2>1
  <2>3. OldFirst(p, q)
    BY <1>3, <1>6, <2>2, Zenon DEF OldFirst, o, n
  <2> QED
    BY <2>3
<1>7. CASE ~ o[2] + 1 < n[1] /\ ~ n[2] + 1 < o[1]
  <2>1. q = [p EXCEPT !.old = <<Wider(o, n)>> \o Tail(@), !.new = Tail(@),
                      !.out = (@ \o Before(o, n)) \o After(o, n)]
    BY <1>7, Zenon DEF MergeRound, Wider, Before, After
  <2>2. q = [old |-> <<Wider(o, n)>> \o Tail(p.old), new |-> Tail(p.new), rows |-> p.rows,
             out |-> (p.out \o Before(o, n)) \o After(o, n)]
    <3> HIDE DEF o, n, q
    <3> QED BY <1>2, <2>1
  <2>3. Touching(p, q)
    BY <1>7, <2>2, Zenon DEF Touching, o, n
  <2> QED
    BY <2>3
<1>8. CASE n[2] + 1 < o[1] /\ o[2] + 1 < n[1]
  <2>1. \/ q = [p EXCEPT !.new = Tail(@), !.rows = Append(@, n), !.out = Append(@, n)]
        \/ q = [p EXCEPT !.old = Tail(@), !.rows = Append(@, o)]
    BY <1>8 DEF MergeRound
  <2>2. \/ q = [old |-> p.old, new |-> Tail(p.new), rows |-> Append(p.rows, n), out |-> Append(p.out, n)]
        \/ q = [old |-> Tail(p.old), new |-> p.new, rows |-> Append(p.rows, o), out |-> p.out]
    <3> HIDE DEF o, n, q
    <3> QED BY <1>2, <2>1
  <2>3. NewFirst(p, q) \/ OldFirst(p, q)
    BY <1>3, <1>8, <2>2, Zenon DEF NewFirst, OldFirst, o, n
  <2> QED
    BY <2>3
<1> QED
  BY <1>5, <1>6, <1>7, <1>8

\* What a touching range is made of.
LEMMA TouchFacts ==
  ASSUME NEW o \in Pairs, NEW n \in Pairs
  PROVE  /\ Before(o, n) \in Seq(Pairs) /\ After(o, n) \in Seq(Pairs) /\ Wider(o, n) \in Pairs
         /\ Members(Before(o, n)) = n[1]..o[1] - 1
         /\ Members(After(o, n)) = o[2] + 1..n[2]
         /\ o[1] <= o[2] /\ n[1] <= n[2] /\ o[1] <= n[2] + 1 /\ n[1] <= o[2] + 1 =>
              /\ Whole(Before(o, n)) /\ Whole(After(o, n)) /\ Wider(o, n)[1] <= Wider(o, n)[2]
              /\ Wider(o, n)[1]..Wider(o, n)[2]
                   = (o[1]..o[2]) \cup Members(Before(o, n)) \cup Members(After(o, n))
              /\ Wider(o, n)[1]..Wider(o, n)[2] = (o[1]..o[2]) \cup (n[1]..n[2])
              /\ Members(Before(o, n)) \cup Members(After(o, n)) \subseteq n[1]..n[2]
<1>1. o[1] \in Nat /\ o[2] \in Nat /\ n[1] \in Nat /\ n[2] \in Nat
  BY DEF Pairs
<1>2. << >> \in Seq(Pairs) /\ Members(<< >>) = {} /\ Whole(<< >>)
  BY MembersOfNone DEF Whole
<1>3. Wider(o, n) \in Pairs
  BY <1>1 DEF Wider, Pairs
<1>4. /\ Before(o, n) \in Seq(Pairs) /\ Members(Before(o, n)) = n[1]..o[1] - 1 /\ Whole(Before(o, n))
  <2>1. CASE n[1] < o[1]
    <3>1. PICK r : r = <<n[1], o[1] - 1>>
      OBVIOUS
    <3>2. r \in Pairs /\ r[1] = n[1] /\ r[2] = o[1] - 1 /\ r[1] <= r[2]
      BY <1>1, <2>1, <3>1 DEF Pairs
    <3>3. Before(o, n) = <<r>>
      BY <2>1, <3>1 DEF Before
    <3> QED
      BY <3>2, <3>3, OneRange
  <2>2. CASE ~ n[1] < o[1]
    <3>1. Before(o, n) = << >>
      BY <2>2 DEF Before
    <3>2. n[1]..o[1] - 1 = {}
      BY <1>1, <2>2
    <3> QED
      BY <1>2, <3>1, <3>2
  <2> QED
    BY <2>1, <2>2
<1>5. /\ After(o, n) \in Seq(Pairs) /\ Members(After(o, n)) = o[2] + 1..n[2] /\ Whole(After(o, n))
  <2>1. CASE o[2] < n[2]
    <3>1. PICK r : r = <<o[2] + 1, n[2]>>
      OBVIOUS
    <3>2. r \in Pairs /\ r[1] = o[2] + 1 /\ r[2] = n[2] /\ r[1] <= r[2]
      BY <1>1, <2>1, <3>1 DEF Pairs
    <3>3. After(o, n) = <<r>>
      BY <2>1, <3>1 DEF After
    <3> QED
      BY <3>2, <3>3, OneRange
  <2>2. CASE ~ o[2] < n[2]
    <3>1. After(o, n) = << >>
      BY <2>2 DEF After
    <3>2. o[2] + 1..n[2] = {}
      BY <1>1, <2>2
    <3> QED
      BY <1>2, <3>1, <3>2
  <2> QED
    BY <2>1, <2>2
<1>6. ASSUME o[1] <= o[2], n[1] <= n[2], o[1] <= n[2] + 1, n[1] <= o[2] + 1
      PROVE  /\ Wider(o, n)[1] <= Wider(o, n)[2]
             /\ Wider(o, n)[1]..Wider(o, n)[2] = (o[1]..o[2]) \cup (n[1]..o[1] - 1) \cup (o[2] + 1..n[2])
             /\ Wider(o, n)[1]..Wider(o, n)[2] = (o[1]..o[2]) \cup (n[1]..n[2])
             /\ (n[1]..o[1] - 1) \cup (o[2] + 1..n[2]) \subseteq n[1]..n[2]
  <2> DEFINE lo == IF n[1] < o[1] THEN n[1] ELSE o[1]
             hi == IF o[2] < n[2] THEN n[2] ELSE o[2]
  <2>1. Wider(o, n)[1] = lo /\ Wider(o, n)[2] = hi
    BY DEF Wider
  <2>2. lo..hi = (o[1]..o[2]) \cup (n[1]..o[1] - 1) \cup (o[2] + 1..n[2]) /\ lo <= hi
    BY <1>1, <1>6
  <2>3. lo..hi = (o[1]..o[2]) \cup (n[1]..n[2])
    BY <1>1, <1>6
  <2>4. (n[1]..o[1] - 1) \cup (o[2] + 1..n[2]) \subseteq n[1]..n[2]
    BY <1>1, <1>6
  <2> HIDE DEF lo, hi
  <2> QED
    BY <2>1, <2>2, <2>3, <2>4
<1> QED
  BY <1>3, <1>4, <1>5, <1>6

LEMMA MergeStepType ==
  ASSUME NEW p \in MergeState
  PROVE  MergeStep(p) \in MergeState
<1>1. CASE p.old = << >> \/ p.new = << >>
  BY <1>1 DEF MergeStep
<1>2. CASE ~ (p.old = << >> \/ p.new = << >>)
  <2> DEFINE o == Head(p.old)
             n == Head(p.new)
             q == MergeStep(p)
  <2>1. /\ p.old \in Seq(Pairs) /\ p.new \in Seq(Pairs) /\ p.rows \in Seq(Pairs) /\ p.out \in Seq(Pairs)
    BY DEF MergeState
  <2>2. o \in Pairs /\ n \in Pairs /\ Tail(p.old) \in Seq(Pairs) /\ Tail(p.new) \in Seq(Pairs)
    BY <1>2, <2>1, MembersSplit
  <2>3. <<o>> \in Seq(Pairs) /\ <<n>> \in Seq(Pairs) /\ <<Wider(o, n)>> \in Seq(Pairs)
    BY <2>2, TouchFacts, OneRange
  <2>4. Before(o, n) \in Seq(Pairs) /\ After(o, n) \in Seq(Pairs)
    BY <2>2, TouchFacts
  <2>5. NewFirst(p, q) \/ OldFirst(p, q) \/ Touching(p, q)
    BY <1>2, MergeCases DEF MergeStep
  <2>6. \A s, t \in Seq(Pairs) : s \o t \in Seq(Pairs)
    BY MembersJoin
  <2> HIDE DEF o, n, q
  <2>7. CASE NewFirst(p, q)
    <3>1. q = [old |-> p.old, new |-> Tail(p.new), rows |-> p.rows \o <<n>>, out |-> p.out \o <<n>>]
      BY <2>7, Zenon DEF NewFirst, o, n
    <3>2. p.rows \o <<n>> \in Seq(Pairs) /\ p.out \o <<n>> \in Seq(Pairs)
      BY <2>1, <2>3, <2>6
    <3> QED
      BY <2>1, <2>2, <3>1, <3>2 DEF MergeState, q
  <2>8. CASE OldFirst(p, q)
    <3>1. q = [old |-> Tail(p.old), new |-> p.new, rows |-> p.rows \o <<o>>, out |-> p.out]
      BY <2>8, Zenon DEF OldFirst, o, n
    <3>2. p.rows \o <<o>> \in Seq(Pairs)
      BY <2>1, <2>3, <2>6
    <3> QED
      BY <2>1, <2>2, <3>1, <3>2 DEF MergeState, q
  <2>9. CASE Touching(p, q)
    <3>1. q = [old |-> <<Wider(o, n)>> \o Tail(p.old), new |-> Tail(p.new), rows |-> p.rows,
               out |-> (p.out \o Before(o, n)) \o After(o, n)]
      BY <2>9, Zenon DEF Touching, o, n
    <3>2. <<Wider(o, n)>> \o Tail(p.old) \in Seq(Pairs) /\ (p.out \o Before(o, n)) \o After(o, n) \in Seq(Pairs)
      BY <2>1, <2>2, <2>3, <2>4, <2>6
    <3> QED
      BY <2>1, <2>2, <3>1, <3>2 DEF MergeState, q
  <2> QED
    BY <2>5, <2>7, <2>8, <2>9 DEF q
<1> QED
  BY <1>1, <1>2

\* The states of the merge, from the first to the last.
MergeStates(old, new, f) ==
  /\ f[0] = [old |-> old, new |-> new, rows |-> << >>, out |-> << >>]
  /\ \A k \in 0..Len(old) + Len(new) : f[k] \in MergeState
  /\ \A k \in 1..Len(old) + Len(new) : f[k] = MergeStep(f[k - 1])
  /\ LET last == f[Len(old) + Len(new)]
     IN  Merge(old, new) = [rows |-> last.rows \o last.old \o last.new, out |-> last.out \o last.new]

LEMMA MergeRuns ==
  ASSUME NEW old \in Seq(Pairs), NEW new \in Seq(Pairs)
  PROVE  \E f : MergeStates(old, new, f)
<1> DEFINE m == Len(old) + Len(new)
           start == [old |-> old, new |-> new, rows |-> << >>, out |-> << >>]
           V == MergeState
           round == [i \in Nat |-> [p \in V |-> MergeStep(p)]]
           F(f) == [k \in 0..m |->
                     IF k = 0 THEN start
                     ELSE IF f[k - 1].old = << >> \/ f[k - 1].new = << >> THEN f[k - 1]
                     ELSE MergeRound(f[k - 1])]
           at == CHOOSE f : f = F(f)
<1>1. m \in Nat
  BY LenProperties
<1>2. start \in V
  BY DEF MergeState
<1>3. round \in [Nat -> [V -> V]]
  BY MergeStepType
<1> HIDE DEF V, start
<1>4. PICK f : Built(V, start, round, m, f)
  <2> HIDE DEF round, m
  <2> QED BY <1>1, <1>2, <1>3, Rounds, Zenon
<1>5. f = F(f)
  <2>1. f = [i \in 0..m |-> f[i]] /\ \A i \in 0..m : f[i] \in V
    BY <1>4 DEF Built
  <2>2. ASSUME NEW i \in 0..m PROVE f[i] = IF i = 0 THEN start ELSE MergeStep(f[i - 1])
    <3>1. CASE i = 0
      BY <1>4, <3>1 DEF Built
    <3>2. CASE i # 0
      <4>1. i \in Nat /\ i - 1 \in 0..m
        BY <1>1, <3>2
      <4>2. f[i] = round[i][f[i - 1]] /\ f[i - 1] \in V
        <5> HIDE DEF round
        <5> QED BY <1>4, <2>1, <3>2, <4>1 DEF Built
      <4>3. \A p \in V : round[i][p] = MergeStep(p)
        BY <4>1
      <4> HIDE DEF round
      <4> QED
        BY <3>2, <4>2, <4>3
    <3> QED
      BY <3>1, <3>2
  <2> QED
    BY <2>1, <2>2 DEF MergeStep
<1>6. at = F(at)
  BY <1>5
<1>7. Merge(old, new) = [rows |-> at[m].rows \o at[m].old \o at[m].new, out |-> at[m].out \o at[m].new]
  BY Zenon DEF Merge, start
<1>8. at[0] = start /\ \A i \in 1..m : at[i] = MergeStep(at[i - 1])
  <2> HIDE DEF at
  <2>1. \A i \in 0..m : at[i] = IF i = 0 THEN start ELSE MergeStep(at[i - 1])
    BY <1>6 DEF MergeStep
  <2>2. 0 \in 0..m /\ \A i \in 1..m : i \in 0..m /\ i # 0
    BY <1>1
  <2> QED
    BY <2>1, <2>2
<1> HIDE DEF at, F, round, m
<1>9. \A i \in 0..m : at[i] \in V
  <2> DEFINE S == {i \in Nat : i <= m => at[i] \in V}
  <2>1. 0 \in S
    BY <1>2, <1>8
  <2>2. ASSUME NEW i \in S PROVE i + 1 \in S
    <3>1. i \in Nat /\ (i <= m => at[i] \in V)
      OBVIOUS
    <3>2. ASSUME i + 1 <= m PROVE at[i + 1] \in V
      <4>1. i <= m /\ i + 1 \in 1..m /\ i + 1 - 1 = i
        BY <1>1, <3>1, <3>2
      <4>2. at[i + 1] = MergeStep(at[i])
        BY <1>8, <4>1
      <4> QED
        BY <3>1, <4>1, <4>2, MergeStepType DEF V
    <3> QED
      BY <3>1, <3>2
  <2>3. S = Nat
    <3>1. S \in SUBSET Nat
      OBVIOUS
    <3> HIDE DEF S
    <3> QED BY <2>1, <2>2, <3>1, Reaches
  <2> QED
    BY <1>1, <2>3
<1> QED
  BY <1>7, <1>8, <1>9, Zenon DEF MergeStates, m, start, V

\* The minor indices of a merge in progress, of stored ranges with members O and
\* new ones with members N.
MergeKeeps(O, N, p) ==
  /\ p \in MergeState
  /\ Whole(p.old) /\ Whole(p.new) /\ Whole(p.rows) /\ Whole(p.out)
  /\ Members(p.rows) \cup Members(p.old) \cup Members(p.new) = O \cup N
  /\ Members(p.new) \subseteq N
  /\ Members(p.out) \subseteq N
  /\ Members(p.old) \subseteq O \cup Members(p.out)
  /\ N \subseteq O \cup Members(p.out) \cup Members(p.new)

LEMMA RoundKeeps ==
  ASSUME NEW O, NEW N, NEW p, MergeKeeps(O, N, p)
  PROVE  MergeKeeps(O, N, MergeStep(p))
<1>1. CASE p.old = << >> \/ p.new = << >>
  BY <1>1 DEF MergeStep
<1>2. CASE ~ (p.old = << >> \/ p.new = << >>)
  <2> DEFINE o == Head(p.old)
             n == Head(p.new)
             Os == o[1]..o[2]
             Ns == n[1]..n[2]
             q == MergeStep(p)
  <2>1. /\ p.old \in Seq(Pairs) /\ p.new \in Seq(Pairs) /\ p.rows \in Seq(Pairs) /\ p.out \in Seq(Pairs)
        /\ p \in MergeState
    BY DEF MergeKeeps, MergeState
  <2>2. /\ o \in Pairs /\ Tail(p.old) \in Seq(Pairs)
        /\ Members(p.old) = Os \cup Members(Tail(p.old))
        /\ o[1] <= o[2] /\ Whole(Tail(p.old)) /\ o[1] \in Nat /\ o[2] \in Nat
    BY <1>2, <2>1, MembersSplit DEF MergeKeeps
  <2>3. /\ n \in Pairs /\ Tail(p.new) \in Seq(Pairs)
        /\ Members(p.new) = Ns \cup Members(Tail(p.new))
        /\ n[1] <= n[2] /\ Whole(Tail(p.new)) /\ n[1] \in Nat /\ n[2] \in Nat
    BY <1>2, <2>1, MembersSplit DEF MergeKeeps
  <2>4. /\ <<o>> \in Seq(Pairs) /\ Members(<<o>>) = Os /\ Whole(<<o>>)
        /\ <<n>> \in Seq(Pairs) /\ Members(<<n>>) = Ns /\ Whole(<<n>>)
    BY <2>2, <2>3, OneRange
  <2>5. q \in MergeState
    BY <2>1, MergeStepType
  <2>6. NewFirst(p, q) \/ OldFirst(p, q) \/ Touching(p, q)
    BY <1>2, <2>1, MergeCases DEF MergeStep
  <2>7. /\ Whole(p.old) /\ Whole(p.new) /\ Whole(p.rows) /\ Whole(p.out)
        /\ Members(p.rows) \cup Members(p.old) \cup Members(p.new) = O \cup N
        /\ Members(p.new) \subseteq N
        /\ Members(p.out) \subseteq N
        /\ Members(p.old) \subseteq O \cup Members(p.out)
        /\ N \subseteq O \cup Members(p.out) \cup Members(p.new)
    BY DEF MergeKeeps
  <2> HIDE DEF o, n, q, Os, Ns
  <2>8. CASE NewFirst(p, q)
    <3>1. q = [old |-> p.old, new |-> Tail(p.new), rows |-> p.rows \o <<n>>, out |-> p.out \o <<n>>]
      BY <2>8, Zenon DEF NewFirst, o, n
    <3>2. q.old = p.old /\ q.new = Tail(p.new) /\ q.rows = p.rows \o <<n>> /\ q.out = p.out \o <<n>>
      BY <3>1
    <3>3. Members(q.rows) = Members(p.rows) \cup Ns /\ Whole(q.rows)
      BY <2>1, <2>4, <2>7, <3>2, MembersJoin
    <3>4. Members(q.out) = Members(p.out) \cup Ns /\ Whole(q.out)
      BY <2>1, <2>4, <2>7, <3>2, MembersJoin
    <3>5. MergeKeeps(O, N, q)
      BY <2>3, <2>5, <2>7, <3>2, <3>3, <3>4 DEF MergeKeeps
    <3> QED
      BY <3>5 DEF q
  <2>9. CASE OldFirst(p, q)
    <3>1. q = [old |-> Tail(p.old), new |-> p.new, rows |-> p.rows \o <<o>>, out |-> p.out]
      BY <2>9, Zenon DEF OldFirst, o, n
    <3>2. q.old = Tail(p.old) /\ q.new = p.new /\ q.rows = p.rows \o <<o>> /\ q.out = p.out
      BY <3>1
    <3>3. Members(q.rows) = Members(p.rows) \cup Os /\ Whole(q.rows)
      BY <2>1, <2>4, <2>7, <3>2, MembersJoin
    <3>4. MergeKeeps(O, N, q)
      BY <2>2, <2>5, <2>7, <3>2, <3>3 DEF MergeKeeps
    <3> QED
      BY <3>4 DEF q
  <2>10. CASE Touching(p, q)
    <3> DEFINE w == Wider(o, n)
               b == Before(o, n)
               a == After(o, n)
               Ws == w[1]..w[2]
    <3>1. q = [old |-> <<w>> \o Tail(p.old), new |-> Tail(p.new), rows |-> p.rows, out |-> (p.out \o b) \o a]
      BY <2>10, Zenon DEF Touching, o, n
    <3>2. ~ n[2] + 1 < o[1] /\ ~ o[2] + 1 < n[1]
      BY <2>10 DEF Touching, o, n
    <3>3. o[1] <= n[2] + 1 /\ n[1] <= o[2] + 1
      BY <2>2, <2>3, <3>2
    <3>4. /\ b \in Seq(Pairs) /\ a \in Seq(Pairs) /\ w \in Pairs /\ Whole(b) /\ Whole(a) /\ w[1] <= w[2]
          /\ Ws = Os \cup Members(b) \cup Members(a)
          /\ Ws = Os \cup Ns
          /\ Members(b) \cup Members(a) \subseteq Ns
      BY <2>2, <2>3, <3>3, TouchFacts DEF Os, Ns
    <3>5. /\ <<w>> \in Seq(Pairs) /\ Members(<<w>>) = Ws /\ Whole(<<w>>)
      BY <3>4, OneRange
    <3> HIDE DEF w, b, a, Ws
    <3>6. q.old = <<w>> \o Tail(p.old) /\ q.new = Tail(p.new) /\ q.rows = p.rows /\ q.out = (p.out \o b) \o a
      BY <3>1
    <3>7. Members(q.old) = Ws \cup Members(Tail(p.old)) /\ Whole(q.old)
      BY <2>2, <3>5, <3>6, MembersJoin
    <3>8. p.out \o b \in Seq(Pairs) /\ Members(p.out \o b) = Members(p.out) \cup Members(b) /\ Whole(p.out \o b)
      BY <2>1, <2>7, <3>4, MembersJoin
    <3>9. Members(q.out) = (Members(p.out) \cup Members(b)) \cup Members(a) /\ Whole(q.out)
      BY <3>4, <3>6, <3>8, MembersJoin, ZenonT(40)
    <3>10. Members(q.rows) \cup Members(q.old) \cup Members(q.new) = O \cup N
      BY <2>2, <2>3, <2>7, <3>4, <3>6, <3>7
    <3>11. Members(q.new) \subseteq N /\ Members(q.out) \subseteq N
      BY <2>3, <2>7, <3>4, <3>6, <3>9
    <3>12. Members(q.old) \subseteq O \cup Members(q.out)
      BY <2>2, <2>7, <3>4, <3>7, <3>9
    <3>13. N \subseteq O \cup Members(q.out) \cup Members(q.new)
      <4>1. Ns \subseteq Os \cup Members(b) \cup Members(a)
        BY <3>4
      <4>2. Os \subseteq O \cup Members(p.out)
        BY <2>2, <2>7
      <4> QED
        BY <2>3, <2>7, <3>6, <3>9, <4>1, <4>2
    <3>14. MergeKeeps(O, N, q)
      BY <2>3, <2>5, <2>7, <3>6, <3>7, <3>9, <3>10, <3>11, <3>12, <3>13 DEF MergeKeeps
    <3> QED
      BY <3>14 DEF q
  <2> QED
    BY <2>6, <2>8, <2>9, <2>10
<1> QED
  BY <1>1, <1>2

\* What the merge of whole ranges stores and reports.
LEMMA MergeFacts ==
  ASSUME NEW old \in Seq(Pairs), NEW new \in Seq(Pairs), Whole(old), Whole(new)
  PROVE  LET m == Merge(old, new) IN
         /\ m.rows \in Seq(Pairs) /\ Whole(m.rows)
         /\ m.out \in Seq(Pairs) /\ Whole(m.out)
         /\ Members(m.rows) = Members(old) \cup Members(new)
         /\ Members(m.out) \subseteq Members(new)
         /\ Members(new) \ Members(old) \subseteq Members(m.out)
<1> DEFINE m == Len(old) + Len(new)
           O == Members(old)
           N == Members(new)
<1>1. PICK f : MergeStates(old, new, f)
  BY MergeRuns
<1>2. m \in Nat
  BY LenProperties
<1>3. /\ f[0] = [old |-> old, new |-> new, rows |-> << >>, out |-> << >>]
      /\ f[0] \in MergeState
      /\ \A k \in 1..m : f[k] = MergeStep(f[k - 1])
      /\ Merge(old, new) = [rows |-> f[m].rows \o f[m].old \o f[m].new, out |-> f[m].out \o f[m].new]
  <2>1. 0 \in 0..m
    BY <1>2
  <2> QED
    BY <1>1, <2>1 DEF MergeStates
<1>4. MergeKeeps(O, N, f[0])
  <2>1. f[0].old = old /\ f[0].new = new /\ f[0].rows = << >> /\ f[0].out = << >>
    BY <1>3
  <2>2. Members(<< >>) = {} /\ Whole(<< >>)
    BY MembersOfNone DEF Whole
  <2> HIDE DEF O, N
  <2>3. O = Members(old) /\ N = Members(new)
    BY DEF O, N
  <2> QED
    BY <1>3, <2>1, <2>2, <2>3 DEF MergeKeeps
<1> DEFINE S == {k \in Nat : k <= m => MergeKeeps(O, N, f[k])}
<1>5. 0 \in S
  BY <1>4
<1> HIDE DEF m, O, N
<1>6. ASSUME NEW k \in S PROVE k + 1 \in S
  <2>1. k \in Nat /\ (k <= m => MergeKeeps(O, N, f[k]))
    OBVIOUS
  <2>2. ASSUME k + 1 <= m PROVE MergeKeeps(O, N, f[k + 1])
    <3>1. k <= m /\ k + 1 \in 1..m /\ k + 1 - 1 = k
      BY <1>2, <2>1, <2>2
    <3>2. f[k + 1] = MergeStep(f[k])
      BY <1>3, <3>1
    <3> QED
      BY <2>1, <3>1, <3>2, RoundKeeps
  <2> QED
    BY <2>1, <2>2
<1>7. S = Nat
  <2>1. S \in SUBSET Nat
    OBVIOUS
  <2> HIDE DEF S
  <2> QED BY <1>5, <1>6, <2>1, Reaches
<1> DEFINE p == f[m]
<1>8. MergeKeeps(O, N, p)
  <2>1. m \in S
    BY <1>2, <1>7
  <2> QED
    BY <1>2, <2>1
<1> HIDE DEF S
<1>9. Merge(old, new) = [rows |-> (p.rows \o p.old) \o p.new, out |-> p.out \o p.new]
  BY <1>3, Zenon DEF p
<1> HIDE DEF p
<1>10. /\ p.old \in Seq(Pairs) /\ p.new \in Seq(Pairs) /\ p.rows \in Seq(Pairs) /\ p.out \in Seq(Pairs)
  BY <1>8 DEF MergeKeeps, MergeState
<1>11. /\ p.rows \o p.old \in Seq(Pairs) /\ Members(p.rows \o p.old) = Members(p.rows) \cup Members(p.old)
       /\ Whole(p.rows \o p.old)
  <2>1. Whole(p.rows) /\ Whole(p.old)
    BY <1>8 DEF MergeKeeps
  <2> QED
    BY <1>10, <2>1, MembersJoin
<1>12. /\ (p.rows \o p.old) \o p.new \in Seq(Pairs) /\ Whole((p.rows \o p.old) \o p.new)
       /\ Members((p.rows \o p.old) \o p.new) = Members(p.rows) \cup Members(p.old) \cup Members(p.new)
  <2>1. PICK q : q = p.rows \o p.old
    OBVIOUS
  <2>2. q \in Seq(Pairs) /\ Whole(q) /\ Members(q) = Members(p.rows) \cup Members(p.old)
    BY <1>11, <2>1
  <2>3. Whole(p.new)
    BY <1>8 DEF MergeKeeps
  <2>4. q \o p.new \in Seq(Pairs) /\ Whole(q \o p.new) /\ Members(q \o p.new) = Members(q) \cup Members(p.new)
    BY <1>10, <2>2, <2>3, MembersJoin
  <2> QED
    BY <2>1, <2>2, <2>4, Zenon
<1>13. /\ p.out \o p.new \in Seq(Pairs) /\ Members(p.out \o p.new) = Members(p.out) \cup Members(p.new)
       /\ Whole(p.out \o p.new)
  <2>1. Whole(p.out) /\ Whole(p.new)
    BY <1>8 DEF MergeKeeps
  <2> QED
    BY <1>10, <2>1, MembersJoin
<1>14. /\ Members(p.rows) \cup Members(p.old) \cup Members(p.new) = O \cup N
       /\ Members(p.new) \subseteq N
       /\ Members(p.out) \subseteq N
       /\ N \subseteq O \cup Members(p.out) \cup Members(p.new)
  BY <1>8 DEF MergeKeeps
<1>15. N \ O \subseteq Members(p.out) \cup Members(p.new) /\ Members(p.out) \cup Members(p.new) \subseteq N
  BY <1>14
<1> QED
  BY <1>9, <1>12, <1>13, <1>14, <1>15 DEF O, N

\* The sizes of the beginnings of a sequence of ranges.
Sizes(rs, f) ==
  /\ f[0] = 0
  /\ \A k \in 1..Len(rs) : f[k] = f[k - 1] + rs[k][2] - rs[k][1] + 1
  /\ Size(rs) = f[Len(rs)]

LEMMA SizeRuns ==
  ASSUME NEW rs \in Seq(Pairs)
  PROVE  \E f : Sizes(rs, f)
<1> DEFINE m == Len(rs)
           V == Int
           R(i, p) == p + rs[i][2] - rs[i][1] + 1
           round == [i \in Nat |-> [p \in V |-> IF i \in 1..m THEN R(i, p) ELSE p]]
           F(f) == [k \in 0..m |-> IF k = 0 THEN 0 ELSE R(k, f[k - 1])]
           at == CHOOSE f : f = F(f)
<1>1. m \in Nat
  BY LenProperties
<1>2. 0 \in V
  OBVIOUS
<1>3. \A i \in 1..m, p \in V : R(i, p) \in V
  BY PairFacts
<1> HIDE DEF R
<1>4. round \in [Nat -> [V -> V]]
  BY <1>3
<1> HIDE DEF V
<1>5. PICK f : Built(V, 0, round, m, f)
  <2> HIDE DEF round, m
  <2> QED BY <1>1, <1>2, <1>4, Rounds, Zenon
<1>6. f = F(f)
  <2>1. f = [i \in 0..m |-> f[i]] /\ \A i \in 0..m : f[i] \in V
    BY <1>5 DEF Built
  <2>2. ASSUME NEW i \in 0..m PROVE f[i] = IF i = 0 THEN 0 ELSE R(i, f[i - 1])
    <3>1. CASE i = 0
      BY <1>5, <3>1 DEF Built
    <3>2. CASE i # 0
      <4>1. i \in Nat /\ i - 1 \in 0..m /\ i \in 1..m
        BY <1>1, <3>2
      <4>2. f[i] = round[i][f[i - 1]] /\ f[i - 1] \in V
        <5> HIDE DEF round
        <5> QED BY <1>5, <2>1, <3>2, <4>1 DEF Built
      <4>3. \A p \in V : round[i][p] = R(i, p)
        BY <4>1
      <4> HIDE DEF round
      <4> QED
        BY <3>2, <4>2, <4>3
    <3> QED
      BY <3>1, <3>2
  <2> QED
    BY <2>1, <2>2
<1>7. at = F(at)
  BY <1>6
<1>8. Size(rs) = at[m]
  BY Zenon DEF Size, R
<1>9. at[0] = 0 /\ \A i \in 1..m : at[i] = R(i, at[i - 1])
  <2> HIDE DEF at
  <2>1. \A i \in 0..m : at[i] = IF i = 0 THEN 0 ELSE R(i, at[i - 1])
    BY <1>7
  <2>2. 0 \in 0..m /\ \A i \in 1..m : i \in 0..m /\ i # 0
    BY <1>1
  <2> QED
    BY <2>1, <2>2
<1> HIDE DEF at, F, round
<1> QED
  BY <1>8, <1>9 DEF Sizes, m, R

LEMMA IntervalSize ==
  ASSUME NEW a \in Nat, NEW b \in Nat, a <= b
  PROVE  IsFiniteSet(a..b) /\ Cardinality(a..b) = b - a + 1
BY FS_Interval

\* v counts the members of T at least once, and once if once is set.
Counts(v, T, once) ==
  /\ v \in Nat /\ IsFiniteSet(T)
  /\ Cardinality(T) <= v
  /\ once => Cardinality(T) = v

\* The size is at least the number of members, and is that number when no two
\* ranges have a member in common.
LEMMA SizeFacts ==
  ASSUME NEW rs \in Seq(Pairs), Whole(rs)
  PROVE  /\ Size(rs) \in Nat
         /\ IsFiniteSet(Members(rs)) /\ Cardinality(Members(rs)) \in Nat
         /\ Cardinality(Members(rs)) <= Size(rs)
         /\ Disjoint(rs) => Cardinality(Members(rs)) = Size(rs)
<1> DEFINE n == Len(rs)
           part(k) == UNION {rs[i][1]..rs[i][2] : i \in 1..k}
<1>1. PICK f : Sizes(rs, f)
  BY SizeRuns
<1>2. /\ n \in Nat /\ DOMAIN rs = 1..n
      /\ \A i \in 1..n : rs[i][1] \in Nat /\ rs[i][2] \in Nat /\ rs[i][1] <= rs[i][2]
  BY PairFacts DEF Whole
<1> DEFINE S == {k \in Nat : k <= n => Counts(f[k], part(k), Disjoint(rs))}
<1>3. 0 \in S
  <2>1. part(0) = {}
    OBVIOUS
  <2>2. f[0] = 0
    BY <1>1 DEF Sizes
  <2>3. Counts(0, {}, Disjoint(rs))
    BY FS_EmptySet DEF Counts
  <2>4. Counts(f[0], part(0), Disjoint(rs))
    BY <2>1, <2>2, <2>3, Zenon
  <2> HIDE DEF part
  <2> QED
    BY <2>4
<1>4. ASSUME NEW k \in S PROVE k + 1 \in S
  <2>1. k \in Nat /\ k + 1 \in Nat
    OBVIOUS
  <2>2. SUFFICES ASSUME k + 1 <= n
                 PROVE  Counts(f[k + 1], part(k + 1), Disjoint(rs))
    BY <2>1
  <2> DEFINE r == rs[k + 1]
             one == r[1]..r[2]
  <2>3. k <= n /\ k + 1 \in 1..n
    BY <1>2, <2>1, <2>2
  <2>4. /\ f[k] \in Nat /\ IsFiniteSet(part(k)) /\ Cardinality(part(k)) <= f[k]
        /\ Disjoint(rs) => Cardinality(part(k)) = f[k]
    <3>1. Counts(f[k], part(k), Disjoint(rs))
      BY <2>3
    <3> HIDE DEF part
    <3> QED
      BY <3>1 DEF Counts
  <2>5. part(k + 1) = part(k) \cup one
    <3>1. 1..k + 1 = 1..k \cup {k + 1}
      BY <2>1
    <3> QED
      BY <3>1
  <2>6. r[1] \in Nat /\ r[2] \in Nat /\ r[1] <= r[2]
    BY <1>2, <2>3
  <2>7. f[k + 1] = f[k] + r[2] - r[1] + 1
    <3>1. k + 1 - 1 = k
      BY <2>1
    <3> QED
      BY <1>1, <2>3, <3>1 DEF Sizes
  <2>8. IsFiniteSet(one) /\ Cardinality(one) = r[2] - r[1] + 1
    <3> HIDE DEF r
    <3> QED BY <2>6, IntervalSize
  <2>9. Disjoint(rs) => part(k) \cap one = {}
    <3>1. SUFFICES ASSUME Disjoint(rs), NEW x \in part(k), x \in one PROVE FALSE
      OBVIOUS
    <3>2. PICK i \in 1..k : x \in rs[i][1]..rs[i][2]
      OBVIOUS
    <3>3. i \in 1..n /\ i # k + 1
      BY <2>1, <2>3, <1>2
    <3>4. rs[i][2] < r[1] \/ r[2] < rs[i][1]
      BY <1>2, <2>3, <3>1, <3>3 DEF Disjoint
    <3> HIDE DEF part
    <3> QED
      BY <1>2, <2>6, <3>1, <3>2, <3>3, <3>4
  <2> HIDE DEF part, one, r, S
  <2>10. /\ IsFiniteSet(part(k) \cup one)
         /\ Cardinality(part(k) \cup one) = Cardinality(part(k)) + Cardinality(one) - Cardinality(part(k) \cap one)
    BY <2>4, <2>8, FS_Union
  <2>11. /\ Cardinality(part(k) \cap one) \in Nat /\ Cardinality(part(k)) \in Nat
         /\ part(k) \cap one = {} => Cardinality(part(k) \cap one) = 0
         /\ Cardinality(part(k) \cup one) \in Nat
    <3>1. IsFiniteSet(part(k) \cap one)
      BY <2>4, FS_Intersection
    <3> QED
      BY <2>4, <2>10, <3>1, FS_CardinalityType, FS_EmptySet
  <2>12. PICK c : c = Cardinality(part(k))
    OBVIOUS
  <2>13. PICK d : d = Cardinality(part(k) \cap one)
    OBVIOUS
  <2>14. PICK e : e = Cardinality(part(k) \cup one)
    OBVIOUS
  <2>15. PICK lo : lo = r[1]
    OBVIOUS
  <2>16. PICK hi : hi = r[2]
    OBVIOUS
  <2>17. /\ c \in Nat /\ d \in Nat /\ e \in Nat /\ lo \in Nat /\ hi \in Nat /\ lo <= hi
         /\ c <= f[k] /\ (Disjoint(rs) => c = f[k] /\ d = 0)
         /\ e = c + (hi - lo + 1) - d
         /\ f[k + 1] = f[k] + hi - lo + 1
    BY <2>4, <2>6, <2>7, <2>8, <2>9, <2>10, <2>11, <2>12, <2>13, <2>14, <2>15, <2>16
  <2>18. f[k + 1] \in Nat /\ e <= f[k + 1] /\ (Disjoint(rs) => e = f[k + 1])
    BY <2>4, <2>17
  <2> QED
    BY <2>5, <2>10, <2>14, <2>18 DEF Counts
<1>5. S = Nat
  <2>1. S \in SUBSET Nat
    OBVIOUS
  <2> HIDE DEF S
  <2> QED BY <1>3, <1>4, <2>1, Reaches
<1>6. part(n) = Members(rs)
  <2>1. \A x : x \in Members(rs) <=> \E i \in 1..n : x \in rs[i][1]..rs[i][2]
    BY MembersIn
  <2>2. \A x : x \in part(n) <=> \E i \in 1..n : x \in rs[i][1]..rs[i][2]
    OBVIOUS
  <2> HIDE DEF part
  <2> QED
    BY <2>1, <2>2
<1>7. Size(rs) = f[n]
  BY <1>1 DEF Sizes
<1>8. /\ f[n] \in Nat /\ IsFiniteSet(part(n)) /\ Cardinality(part(n)) <= f[n]
      /\ Disjoint(rs) => Cardinality(part(n)) = f[n]
  <2>1. n \in S
    BY <1>2, <1>5
  <2> HIDE DEF part
  <2>2. n <= n
    BY <1>2
  <2> QED
    BY <2>1, <2>2 DEF Counts
<1> HIDE DEF part, S
<1>9. Cardinality(Members(rs)) \in Nat
  BY <1>6, <1>8, FS_CardinalityType
<1> QED
  BY <1>6, <1>7, <1>8, <1>9

-----------------------------------------------------------------------------
(* What is reported is what was added, when no new range touches two stored *)
(* ones.                                                                    *)

\* Later ranges lie above earlier ones, with a gap between them.
Increasing(rs) == \A i, l \in 1..Len(rs) : i < l => rs[i][2] + 1 < rs[l][1]

LEMMA FartherUp ==
  ASSUME NEW a \in Nat, NEW b \in Nat, NEW c \in Nat, NEW d \in Nat, a + 1 < b, b <= c, c + 1 < d
  PROVE  a + 1 < d
OBVIOUS

LEMMA FiniteUpTo ==
  ASSUME NEW n \in Nat
  PROVE  IsFiniteSet(1..n) /\ IsFiniteSet(0..n)
<1>1. \A a \in Nat : IsFiniteSet(a..n)
  BY FS_Interval
<1> QED
  BY <1>1

LEMMA ValidFacts ==
  ASSUME NEW rs \in Seq(Pairs), Valid(rs)
  PROVE  Whole(rs) /\ Increasing(rs)
<1>1. Whole(rs)
  BY DEF Valid, Whole
<1>2. /\ Len(rs) \in Nat /\ DOMAIN rs = 1..Len(rs)
      /\ \A i \in 1..Len(rs) : rs[i][1] \in Nat /\ rs[i][2] \in Nat /\ rs[i][1] <= rs[i][2]
  BY <1>1, PairFacts DEF Whole
<1>3. \A i \in 1..Len(rs) - 1 : rs[i][2] + 1 < rs[i + 1][1]
  BY DEF Valid
<1> DEFINE n == Len(rs)
           S == {l \in Nat : l <= n => \A i \in 1..l : i < l => rs[i][2] + 1 < rs[l][1]}
<1>4. 0 \in S
  OBVIOUS
<1>5. ASSUME NEW l \in S PROVE l + 1 \in S
  <2>1. l \in Nat /\ (l <= n => \A i \in 1..l : i < l => rs[i][2] + 1 < rs[l][1])
    OBVIOUS
  <2>2. ASSUME l + 1 <= n, NEW i \in 1..l + 1, i < l + 1 PROVE rs[i][2] + 1 < rs[l + 1][1]
    <3>1. /\ l <= n /\ l \in 1..n - 1 /\ l \in 1..n /\ l + 1 \in 1..n /\ i \in 1..l /\ i \in 1..n
          /\ i \in Nat /\ (i = l \/ i < l)
      BY <1>2, <2>1, <2>2
    <3>2. rs[l][2] + 1 < rs[l + 1][1]
      BY <1>3, <3>1
    <3>3. i < l => rs[i][2] + 1 < rs[l][1]
      BY <2>1, <3>1
    <3>4. /\ rs[i][2] \in Nat /\ rs[l][1] \in Nat /\ rs[l][2] \in Nat /\ rs[l + 1][1] \in Nat
          /\ rs[l][1] <= rs[l][2]
      BY <1>2, <3>1
    <3>5. CASE i = l
      BY <3>2, <3>5
    <3>6. CASE i < l
      BY <3>2, <3>3, <3>4, <3>6, FartherUp, Zenon
    <3> QED
      BY <3>1, <3>5, <3>6
  <2> QED
    BY <2>1, <2>2
<1>6. S = Nat
  <2>1. S \in SUBSET Nat
    OBVIOUS
  <2> HIDE DEF S
  <2> QED BY <1>4, <1>5, <2>1, Reaches
<1>7. Increasing(rs)
  <2>1. SUFFICES ASSUME NEW i \in 1..n, NEW l \in 1..n, i < l PROVE rs[i][2] + 1 < rs[l][1]
    BY DEF Increasing
  <2>2. l \in S /\ l <= n /\ i \in 1..l
    BY <1>2, <1>6, <2>1
  <2> QED
    BY <2>1, <2>2
<1> QED
  BY <1>1, <1>7

\* Every range of a sequence lies below x.
Below(rs, x) == \A l \in 1..Len(rs) : rs[l][2] < x

LEMMA JoinDisjoint ==
  ASSUME NEW s \in Seq(Pairs), NEW t \in Seq(Pairs), Disjoint(s), Disjoint(t),
         \A k \in 1..Len(t) : Below(s, t[k][1])
  PROVE  Disjoint(s \o t)
<1> DEFINE st == s \o t
<1>1. st \in Seq(Pairs) /\ Len(st) = Len(s) + Len(t)
  BY ConcatProperties
<1>2. \A i \in 1..Len(s) + Len(t) : st[i] = IF i <= Len(s) THEN s[i] ELSE t[i - Len(s)]
  BY ConcatProperties
<1>3. /\ Len(s) \in Nat /\ Len(t) \in Nat /\ Len(st) \in Nat
      /\ DOMAIN s = 1..Len(s) /\ DOMAIN t = 1..Len(t) /\ DOMAIN st = 1..Len(st)
  BY <1>1, PairFacts
<1> HIDE DEF st
<1>4. SUFFICES ASSUME NEW i \in 1..Len(st), NEW j \in 1..Len(st), i # j
               PROVE  st[i][2] < st[j][1] \/ st[j][2] < st[i][1]
  BY <1>3 DEF Disjoint, st
<1>5. i \in Nat /\ j \in Nat /\ i <= Len(s) + Len(t) /\ j <= Len(s) + Len(t)
  BY <1>1, <1>3
<1>6. CASE i <= Len(s) /\ j <= Len(s)
  <2>1. i \in 1..Len(s) /\ j \in 1..Len(s) /\ st[i] = s[i] /\ st[j] = s[j]
    BY <1>1, <1>2, <1>3, <1>6
  <2> QED
    BY <1>3, <1>4, <2>1 DEF Disjoint
<1>7. CASE i <= Len(s) /\ ~ j <= Len(s)
  <2>1. i \in 1..Len(s) /\ j - Len(s) \in 1..Len(t) /\ st[i] = s[i] /\ st[j] = t[j - Len(s)]
    BY <1>1, <1>2, <1>3, <1>5, <1>7
  <2> QED
    BY <2>1 DEF Below
<1>8. CASE ~ i <= Len(s) /\ j <= Len(s)
  <2>1. j \in 1..Len(s) /\ i - Len(s) \in 1..Len(t) /\ st[j] = s[j] /\ st[i] = t[i - Len(s)]
    BY <1>1, <1>2, <1>3, <1>5, <1>8
  <2> QED
    BY <2>1 DEF Below
<1>9. CASE ~ i <= Len(s) /\ ~ j <= Len(s)
  <2>1. /\ i - Len(s) \in 1..Len(t) /\ j - Len(s) \in 1..Len(t) /\ i - Len(s) # j - Len(s)
        /\ st[i] = t[i - Len(s)] /\ st[j] = t[j - Len(s)]
    BY <1>1, <1>2, <1>3, <1>4, <1>5, <1>9
  <2> QED
    BY <1>3, <2>1 DEF Disjoint
<1> QED
  BY <1>6, <1>7, <1>8, <1>9

LEMMA JoinBelow ==
  ASSUME NEW s \in Seq(Pairs), NEW t \in Seq(Pairs), NEW x, Below(s, x), Below(t, x)
  PROVE  Below(s \o t, x)
<1> DEFINE st == s \o t
<1>1. st \in Seq(Pairs) /\ Len(st) = Len(s) + Len(t)
  BY ConcatProperties
<1>2. \A i \in 1..Len(s) + Len(t) : st[i] = IF i <= Len(s) THEN s[i] ELSE t[i - Len(s)]
  BY ConcatProperties
<1>3. Len(s) \in Nat /\ Len(t) \in Nat
  BY PairFacts
<1> HIDE DEF st
<1>4. SUFFICES ASSUME NEW i \in 1..Len(st) PROVE st[i][2] < x
  BY DEF Below, st
<1>5. CASE i <= Len(s)
  <2>1. i \in 1..Len(s) /\ st[i] = s[i]
    BY <1>1, <1>2, <1>3, <1>5
  <2> QED
    BY <2>1 DEF Below
<1>6. CASE ~ i <= Len(s)
  <2>1. i - Len(s) \in 1..Len(t) /\ st[i] = t[i - Len(s)]
    BY <1>1, <1>2, <1>3, <1>6
  <2> QED
    BY <2>1 DEF Below
<1> QED
  BY <1>5, <1>6

\* A single range.
LEMMA SingleRange ==
  ASSUME NEW r \in Pairs
  PROVE  /\ <<r>> \in Seq(Pairs) /\ Len(<<r>>) = 1 /\ Disjoint(<<r>>)
         /\ \A k \in 1..Len(<<r>>) : <<r>>[k] = r
         /\ \A x : Below(<<r>>, x) <=> r[2] < x
<1>1. <<r>> \in Seq(Pairs) /\ Len(<<r>>) = 1 /\ <<r>>[1] = r /\ DOMAIN <<r>> = {1} /\ 1..1 = {1}
  OBVIOUS
<1> QED
  BY <1>1 DEF Disjoint, Below

LEMMA NoRange == << >> \in Seq(Pairs) /\ Disjoint(<< >>) /\ 1..Len(<< >>) = {} /\ \A x : Below(<< >>, x)
<1>1. << >> \in Seq(Pairs) /\ 1..Len(<< >>) = {} /\ DOMAIN << >> = {}
  OBVIOUS
<1> QED
  BY <1>1 DEF Disjoint, Below

\* The parts of a new range beside the stored range that it touches.
LEMMA BesideFacts ==
  ASSUME NEW o \in Pairs, NEW n \in Pairs
  PROVE  /\ Before(o, n) \in Seq(Pairs) /\ Disjoint(Before(o, n))
         /\ \A k \in 1..Len(Before(o, n)) : Before(o, n)[k][1] = n[1] /\ Before(o, n)[k][2] = o[1] - 1 /\ n[1] < o[1]
         /\ After(o, n) \in Seq(Pairs) /\ Disjoint(After(o, n))
         /\ \A k \in 1..Len(After(o, n)) : After(o, n)[k][1] = o[2] + 1 /\ After(o, n)[k][2] = n[2] /\ o[2] < n[2]
<1>1. o[1] \in Nat /\ o[2] \in Nat /\ n[1] \in Nat /\ n[2] \in Nat
  BY DEF Pairs
<1>2. /\ Before(o, n) \in Seq(Pairs) /\ Disjoint(Before(o, n))
      /\ \A k \in 1..Len(Before(o, n)) : Before(o, n)[k][1] = n[1] /\ Before(o, n)[k][2] = o[1] - 1 /\ n[1] < o[1]
  <2>1. CASE n[1] < o[1]
    <3>1. PICK r : r = <<n[1], o[1] - 1>>
      OBVIOUS
    <3>2. r \in Pairs /\ r[1] = n[1] /\ r[2] = o[1] - 1
      BY <1>1, <2>1, <3>1 DEF Pairs
    <3>3. Before(o, n) = <<r>>
      BY <2>1, <3>1 DEF Before
    <3>4. <<r>> \in Seq(Pairs) /\ Disjoint(<<r>>) /\ \A k \in 1..Len(<<r>>) : <<r>>[k] = r
      BY <3>2, SingleRange
    <3> QED
      BY <2>1, <3>2, <3>3, <3>4
  <2>2. CASE ~ n[1] < o[1]
    <3>1. Before(o, n) = << >>
      BY <2>2 DEF Before
    <3> QED
      BY <3>1, NoRange
  <2> QED
    BY <2>1, <2>2
<1>3. /\ After(o, n) \in Seq(Pairs) /\ Disjoint(After(o, n))
      /\ \A k \in 1..Len(After(o, n)) : After(o, n)[k][1] = o[2] + 1 /\ After(o, n)[k][2] = n[2] /\ o[2] < n[2]
  <2>1. CASE o[2] < n[2]
    <3>1. PICK r : r = <<o[2] + 1, n[2]>>
      OBVIOUS
    <3>2. r \in Pairs /\ r[1] = o[2] + 1 /\ r[2] = n[2]
      BY <1>1, <2>1, <3>1 DEF Pairs
    <3>3. After(o, n) = <<r>>
      BY <2>1, <3>1 DEF After
    <3>4. <<r>> \in Seq(Pairs) /\ Disjoint(<<r>>) /\ \A k \in 1..Len(<<r>>) : <<r>>[k] = r
      BY <3>2, SingleRange
    <3> QED
      BY <2>1, <3>2, <3>3, <3>4
  <2>2. CASE ~ o[2] < n[2]
    <3>1. After(o, n) = << >>
      BY <2>2 DEF After
    <3> QED
      BY <3>1, NoRange
  <2> QED
    BY <2>1, <2>2
<1> QED
  BY <1>2, <1>3

\* A new range touches a stored one.
Touches(n, r) == r[1] <= n[2] + 1 /\ n[1] <= r[2] + 1

LEMMA SimpleFacts ==
  ASSUME NEW old \in Seq(Pairs), NEW new \in Seq(Pairs), Simple(old, new),
         NEW n \in ToSet(new), NEW i \in 1..Len(old), NEW l \in 1..Len(old),
         Touches(n, old[i]), Touches(n, old[l])
  PROVE  i = l
<1> DEFINE T == {k \in DOMAIN old : old[k][1] <= n[2] + 1 /\ n[1] <= old[k][2] + 1}
<1>1. Cardinality(T) <= 1
  BY DEF Simple
<1>2. Len(old) \in Nat /\ DOMAIN old = 1..Len(old)
  BY PairFacts
<1>3. {i, l} \subseteq T
  BY <1>2 DEF Touches
<1>4. IsFiniteSet(T)
  <2>1. IsFiniteSet(1..Len(old)) /\ T \subseteq 1..Len(old)
    BY <1>2, FiniteUpTo
  <2> QED
    BY <2>1, FS_Subset
<1> HIDE DEF T
<1>5. SUFFICES ASSUME i # l PROVE FALSE
  OBVIOUS
<1>6. IsFiniteSet({i}) /\ Cardinality({i}) = 1
  BY FS_Singleton
<1>7. Cardinality({i} \cup {l}) = 2
  <2>1. l \notin {i}
    BY <1>5
  <2>2. Cardinality({i} \cup {l}) = Cardinality({i}) + 1
    BY <1>6, <2>1, FS_AddElement, Zenon
  <2>3. PICK x, y : x = Cardinality({i}) /\ y = Cardinality({i} \cup {l})
    OBVIOUS
  <2>4. x = 1 /\ y = x + 1
    BY <1>6, <2>2, <2>3, Zenon
  <2>5. y = 2
    BY <2>4
  <2> QED
    BY <2>3, <2>5, Zenon
<1>8. {i} \cup {l} = {i, l}
  OBVIOUS
<1>9. Cardinality({i, l}) <= Cardinality(T)
  BY <1>3, <1>4, FS_Subset
<1>10. Cardinality(T) \in Nat
  BY <1>4, FS_CardinalityType
<1> QED
  BY <1>1, <1>7, <1>8, <1>9, <1>10

LEMMA OutOfRange ==
  ASSUME NEW x \in Nat, NEW a \in Nat, NEW b \in Nat, x < a \/ b < x
  PROVE  x \notin a..b
OBVIOUS

LEMMA StepUp ==
  ASSUME NEW x \in Nat, NEW a \in Nat, NEW b \in Nat, NEW c \in Nat, x <= a, a + 1 < b, b <= c
  PROVE  x < c /\ x + 1 < c /\ x <= c
OBVIOUS

\* The first stored range o of a merge in progress, which was s to begin with: a
\* new range that widened it lies below the new ranges that remain.
HeadFits(o, s, rest) ==
  /\ o[1] <= s[1] /\ s[2] <= o[2]
  /\ o[1] = s[1] \/ \A k \in 1..Len(rest) : s[1] <= rest[k][1]
  /\ o[2] = s[2] \/ \A k \in 1..Len(rest) : o[2] + 1 < rest[k][1]

\* Stored ranges that are done with lie below the new ranges that remain.
Passed(old, j, rest) == \A l \in 1..j - 1, k \in 1..Len(rest) : old[l][2] + 1 < rest[k][1]

\* What is reported so far was not stored, and lies below what remains.
OutApart(out, old, rest) ==
  /\ Disjoint(out)
  /\ Members(out) \cap Members(old) = {}
  /\ \A k \in 1..Len(rest) : Below(out, rest[k][1])

\* The new ranges that remain.
RestFits(rest, new) ==
  /\ rest \in Seq(Pairs) /\ Whole(rest) /\ Increasing(rest)
  /\ \A k \in 1..Len(rest) : rest[k] \in ToSet(new)

\* A merge in progress whose first stored range is the j-th of old.
Parted(old, new, p, j) ==
  /\ p \in MergeState
  /\ RestFits(p.new, new)
  /\ j \in 1..Len(old) + 1 /\ Len(p.old) = Len(old) - j + 1
  /\ \A k \in 2..Len(p.old) : p.old[k] = old[j + k - 1]
  /\ p.old # << >> => HeadFits(p.old[1], old[j], p.new)
  /\ Passed(old, j, p.new)
  /\ OutApart(p.out, old, p.new)

\* The first of the new ranges and those after it.
LEMMA RestSplit ==
  ASSUME NEW rest, NEW new, RestFits(rest, new), rest # << >>
  PROVE  /\ RestFits(Tail(rest), new)
         /\ Head(rest) = rest[1] /\ Head(rest) \in ToSet(new) /\ Head(rest) \in Pairs /\ 1 \in 1..Len(rest)
         /\ Head(rest)[1] \in Nat /\ Head(rest)[2] \in Nat /\ Head(rest)[1] <= Head(rest)[2]
         /\ Len(Tail(rest)) = Len(rest) - 1
         /\ \A k \in 1..Len(Tail(rest)) :
              /\ k + 1 \in 1..Len(rest) /\ Tail(rest)[k] = rest[k + 1]
              /\ Tail(rest)[k][1] \in Nat
              /\ Head(rest)[2] + 1 < Tail(rest)[k][1]
<1>1. rest \in Seq(Pairs) /\ Whole(rest) /\ Increasing(rest) /\ \A k \in 1..Len(rest) : rest[k] \in ToSet(new)
  BY DEF RestFits
<1>2. /\ Len(rest) \in Nat /\ DOMAIN rest = 1..Len(rest)
      /\ \A i \in 1..Len(rest) : rest[i] \in Pairs /\ rest[i][1] \in Nat /\ rest[i][2] \in Nat
  BY <1>1, PairFacts
<1>3. /\ Head(rest) \in Pairs /\ Head(rest) = rest[1] /\ Tail(rest) \in Seq(Pairs)
      /\ Head(rest)[1] <= Head(rest)[2] /\ Whole(Tail(rest))
  BY <1>1, MembersSplit
<1>4. Len(Tail(rest)) = Len(rest) - 1 /\ \A k \in 1..Len(Tail(rest)) : Tail(rest)[k] = rest[k + 1]
  BY <1>1, HeadTailProperties
<1>5. Len(Tail(rest)) \in Nat
  BY <1>3, PairFacts
<1> DEFINE t == Tail(rest)
           n == Head(rest)
<1> HIDE DEF t, n
<1>6. 1 \in 1..Len(rest) /\ \A k \in 1..Len(t) : k + 1 \in 1..Len(rest) /\ 1 < k + 1
  BY <1>2, <1>4, <1>5 DEF t
<1>7. \A k \in 1..Len(t) : t[k] = rest[k + 1] /\ n[2] + 1 < t[k][1] /\ t[k][1] \in Nat
  BY <1>1, <1>2, <1>3, <1>4, <1>6 DEF Increasing, t, n
<1>8. RestFits(t, new)
  <2>1. \A k \in 1..Len(t) : t[k] \in ToSet(new)
    BY <1>1, <1>4, <1>6 DEF t
  <2>2. ASSUME NEW i \in 1..Len(t), NEW l \in 1..Len(t), i < l PROVE t[i][2] + 1 < t[l][1]
    <3>1. i + 1 \in 1..Len(rest) /\ l + 1 \in 1..Len(rest) /\ i + 1 < l + 1
      BY <1>6, <2>2
    <3>2. t[i] = rest[i + 1] /\ t[l] = rest[l + 1]
      BY <1>7
    <3> QED
      BY <1>1, <3>1, <3>2 DEF Increasing
  <2> QED
    BY <1>3, <2>1, <2>2 DEF RestFits, Increasing, t
<1> QED
  BY <1>1, <1>2, <1>3, <1>4, <1>6, <1>7, <1>8 DEF t, n

\* Fewer new ranges remain.
LEMMA FewerRemain ==
  ASSUME NEW rest, NEW new, RestFits(rest, new), rest # << >>, NEW old, NEW j
  PROVE  /\ Passed(old, j, rest) => Passed(old, j, Tail(rest))
         /\ \A o, s : HeadFits(o, s, rest) => HeadFits(o, s, Tail(rest))
         /\ \A out : OutApart(out, old, rest) => OutApart(out, old, Tail(rest))
<1> DEFINE t == Tail(rest)
<1>1. \A k \in 1..Len(t) : k + 1 \in 1..Len(rest) /\ t[k] = rest[k + 1]
  BY RestSplit
<1> HIDE DEF t
<1> QED
  BY <1>1 DEF Passed, HeadFits, OutApart, t

\* The new range goes in before the first stored one.
LEMMA PartedNewFirst ==
  ASSUME NEW old \in Seq(Pairs), NEW new \in Seq(Pairs), Whole(old), Increasing(old),
         NEW p, NEW j, Parted(old, new, p, j), p.old # << >>, p.new # << >>, NEW q \in MergeState, NewFirst(p, q)
  PROVE  Parted(old, new, q, j)
<1> DEFINE o == p.old[1]
           n == Head(p.new)
           t == Tail(p.new)
<1>1. /\ p.old \in Seq(Pairs) /\ p.new \in Seq(Pairs) /\ p.out \in Seq(Pairs)
      /\ RestFits(p.new, new) /\ HeadFits(o, old[j], p.new)
      /\ Passed(old, j, p.new) /\ OutApart(p.out, old, p.new)
      /\ j \in 1..Len(old) + 1 /\ Len(p.old) = Len(old) - j + 1
  BY DEF Parted, MergeState
<1>2. Head(p.old) = o /\ o[1] \in Nat
  BY <1>1, MembersSplit
<1>3. /\ n[2] + 1 < o[1]
      /\ q.old = p.old /\ q.new = t /\ q.out = p.out \o <<n>>
  BY <1>2 DEF NewFirst
<1>4. /\ RestFits(t, new) /\ n = p.new[1] /\ 1 \in 1..Len(p.new)
      /\ n \in Pairs /\ n[1] \in Nat /\ n[2] \in Nat /\ n[1] <= n[2]
      /\ \A k \in 1..Len(t) : n[2] + 1 < t[k][1] /\ t[k][1] \in Nat
  BY <1>1, RestSplit
<1>5. /\ Passed(old, j, t) /\ HeadFits(o, old[j], t) /\ OutApart(p.out, old, t)
  BY <1>1, FewerRemain
<1>6. /\ Len(old) \in Nat /\ Len(p.old) \in Nat /\ Len(p.old) # 0
      /\ \A l \in 1..Len(old) : old[l][1] \in Nat /\ old[l][2] \in Nat /\ old[l][1] <= old[l][2]
  <2>1. Len(old) \in Nat /\ Len(p.old) \in Nat
    BY <1>1, PairFacts
  <2>2. Len(p.old) # 0
    BY <1>1, EmptySeq
  <2> QED
    BY <2>1, <2>2, PairFacts DEF Whole
<1>7. j \in 1..Len(old)
  BY <1>1, <1>6
<1> HIDE DEF o, n, t
<1>8. ASSUME NEW x \in n[1]..n[2], NEW l \in 1..Len(old) PROVE x \notin old[l][1]..old[l][2]
  <2>1. /\ x \in Nat /\ n[1] <= x /\ x <= n[2]
    BY <1>4
  <2>2. CASE l < j
    <3>1. l \in 1..j - 1
      BY <1>7, <2>2
    <3>2. old[l][2] + 1 < n[1]
      BY <1>1, <1>4, <3>1 DEF Passed
    <3> QED
      BY <1>4, <1>6, <2>1, <3>2
  <2>3. CASE l = j
    <3>1. o[1] <= old[j][1]
      BY <1>1 DEF HeadFits
    <3>2. /\ old[j][1] \in Nat /\ old[j][2] \in Nat
      BY <1>6, <1>7
    <3>3. x < old[j][1]
      BY <1>2, <1>3, <1>4, <2>1, <3>1, <3>2, StepUp
    <3> QED
      BY <2>1, <2>3, <3>2, <3>3, OutOfRange
  <2>4. CASE j < l
    <3>1. o[1] <= old[j][1]
      BY <1>1 DEF HeadFits
    <3>2. old[j][2] + 1 < old[l][1]
      BY <1>7, <2>4 DEF Increasing
    <3>3. /\ old[j][1] \in Nat /\ old[j][2] \in Nat /\ old[j][1] <= old[j][2]
          /\ old[l][1] \in Nat /\ old[l][2] \in Nat /\ old[l][1] <= old[l][2]
      BY <1>6, <1>7
    <3>4. x < old[j][1]
      BY <1>2, <1>3, <1>4, <2>1, <3>1, <3>3, StepUp, ZenonT(40)
    <3>5. x <= old[j][2]
      BY <2>1, <3>3, <3>4
    <3>6. x < old[l][1]
      BY <2>1, <3>2, <3>3, <3>5, StepUp
    <3> QED
      BY <2>1, <3>3, <3>6, OutOfRange
  <2> QED
    BY <1>7, <2>2, <2>3, <2>4
<1>9. OutApart(q.out, old, t)
  <2>0. PICK one : one = <<n>>
    OBVIOUS
  <2>1. one \in Seq(Pairs) /\ Disjoint(one) /\ Members(one) = n[1]..n[2]
        /\ (\A k \in 1..Len(one) : one[k] = n) /\ (\A x : Below(one, x) <=> n[2] < x)
        /\ q.out = p.out \o one
    BY <1>3, <1>4, <2>0, SingleRange, OneRange
  <2>2. Disjoint(p.out) /\ Members(p.out) \cap Members(old) = {} /\ Below(p.out, n[1])
    BY <1>1, <1>4 DEF OutApart
  <2>3. Disjoint(q.out)
    <3>1. \A k \in 1..Len(one) : Below(p.out, one[k][1])
      BY <2>1, <2>2
    <3> QED
      BY <1>1, <2>1, <2>2, <3>1, JoinDisjoint, Zenon
  <2>4. Members(q.out) = Members(p.out) \cup (n[1]..n[2])
    <3>1. Members(p.out \o one) = Members(p.out) \cup Members(one)
      BY <1>1, <2>1, MembersJoin
    <3>2. Members(one) = n[1]..n[2] /\ q.out = p.out \o one
      BY <2>1
    <3> QED
      BY <3>1, <3>2
  <2>5. (n[1]..n[2]) \cap Members(old) = {}
    BY <1>8, MembersIn
  <2>6. ASSUME NEW k \in 1..Len(t) PROVE Below(q.out, t[k][1])
    <3>1. Below(p.out, t[k][1])
      BY <1>5 DEF OutApart
    <3>2. n[2] < t[k][1]
      BY <1>4
    <3> QED
      BY <1>1, <2>1, <3>1, <3>2, JoinBelow
  <2> QED
    BY <2>2, <2>3, <2>4, <2>5, <2>6 DEF OutApart
<1> QED
  BY <1>3, <1>4, <1>5, <1>9 DEF Parted, o

\* The first stored range is done with.
LEMMA PartedOldFirst ==
  ASSUME NEW old \in Seq(Pairs), NEW new \in Seq(Pairs), Whole(old), Increasing(old),
         NEW p, NEW j, Parted(old, new, p, j), p.old # << >>, p.new # << >>, NEW q \in MergeState, OldFirst(p, q)
  PROVE  Parted(old, new, q, j + 1)
<1> DEFINE o == p.old[1]
           n == Head(p.new)
           u == Tail(p.old)
<1>1. /\ p.old \in Seq(Pairs) /\ p.new \in Seq(Pairs)
      /\ RestFits(p.new, new) /\ HeadFits(o, old[j], p.new)
      /\ Passed(old, j, p.new) /\ OutApart(p.out, old, p.new)
      /\ j \in 1..Len(old) + 1 /\ Len(p.old) = Len(old) - j + 1
      /\ \A k \in 2..Len(p.old) : p.old[k] = old[j + k - 1]
  BY DEF Parted, MergeState
<1>2. Head(p.old) = o /\ o[1] \in Nat /\ o[2] \in Nat
  BY <1>1, MembersSplit
<1>3. o[2] + 1 < n[1] /\ q.old = u /\ q.new = p.new /\ q.out = p.out
  BY <1>2 DEF OldFirst
<1>4. /\ n[1] \in Nat /\ n = p.new[1] /\ 1 \in 1..Len(p.new) /\ n[2] \in Nat /\ n[1] <= n[2]
      /\ Len(Tail(p.new)) = Len(p.new) - 1
      /\ \A k \in 1..Len(Tail(p.new)) : Tail(p.new)[k] = p.new[k + 1] /\ n[2] + 1 < Tail(p.new)[k][1] /\ Tail(p.new)[k][1] \in Nat
  BY <1>1, RestSplit
<1>5. /\ Len(old) \in Nat /\ Len(p.old) \in Nat /\ Len(p.old) # 0 /\ Len(p.new) \in Nat
      /\ \A l \in 1..Len(old) : old[l][1] \in Nat /\ old[l][2] \in Nat /\ old[l][1] <= old[l][2]
  <2>1. Len(old) \in Nat /\ Len(p.old) \in Nat /\ Len(p.new) \in Nat
    BY <1>1, PairFacts
  <2>2. Len(p.old) # 0
    BY <1>1, EmptySeq
  <2> QED
    BY <2>1, <2>2, PairFacts DEF Whole
<1>6. j \in 1..Len(old) /\ j \in Nat
  BY <1>1, <1>5
<1>7. \A k \in 1..Len(p.new) : n[1] <= p.new[k][1]
  <2> TAKE k \in 1..Len(p.new)
  <2>1. CASE k = 1
    BY <1>4, <2>1
  <2>2. CASE k # 1
    <3>1. k - 1 \in 1..Len(Tail(p.new)) /\ k - 1 + 1 = k
      BY <1>4, <1>5, <2>2
    <3>2. n[2] + 1 < p.new[k][1] /\ p.new[k][1] \in Nat
      BY <1>4, <3>1
    <3>3. n[1] \in Nat /\ n[2] \in Nat /\ n[1] <= n[2]
      BY <1>4
    <3> HIDE DEF n
    <3> QED
      BY <3>2, <3>3
  <2> QED
    BY <2>1, <2>2
<1>8. \A k \in 1..Len(p.new) : p.new[k][1] \in Nat
  BY <1>1, PairFacts
<1> HIDE DEF n
<1>9. Passed(old, j + 1, p.new)
  <2>1. SUFFICES ASSUME NEW l \in 1..j, NEW k \in 1..Len(p.new) PROVE old[l][2] + 1 < p.new[k][1]
    BY <1>6 DEF Passed
  <2>2. CASE l = j
    <3>1. old[j][2] <= o[2]
      BY <1>1 DEF HeadFits
    <3>2. old[j][2] \in Nat /\ n[1] <= p.new[k][1] /\ p.new[k][1] \in Nat
      BY <1>5, <1>6, <1>7, <1>8
    <3>3. n[1] \in Nat /\ o[2] \in Nat /\ o[2] + 1 < n[1]
      BY <1>2, <1>3, <1>4
    <3> HIDE DEF o
    <3>4. old[j][2] + 1 < p.new[k][1]
      BY <3>1, <3>2, <3>3, StepUp
    <3> QED
      BY <2>2, <3>4
  <2>3. CASE l # j
    <3>1. l \in 1..j - 1
      BY <1>6, <2>3
    <3> QED
      BY <1>1, <3>1 DEF Passed
  <2> QED
    BY <2>2, <2>3
<1>10. u \in Seq(Pairs) /\ Len(u) = Len(p.old) - 1 /\ \A k \in 1..Len(u) : u[k] = p.old[k + 1]
  BY <1>1, HeadTailProperties
<1>11. Len(u) \in Nat
  BY <1>10, PairFacts
<1> HIDE DEF u, o
<1>12. \A k \in 1..Len(u) : u[k] = old[j + 1 + k - 1]
  <2> TAKE k \in 1..Len(u)
  <2>1. k + 1 \in 2..Len(p.old) /\ j + (k + 1) - 1 = j + 1 + k - 1
    BY <1>5, <1>6, <1>10, <1>11
  <2>2. u[k] = p.old[k + 1] /\ p.old[k + 1] = old[j + (k + 1) - 1]
    BY <1>1, <1>10, <2>1
  <2> QED
    BY <2>1, <2>2
<1>13. u # << >> => HeadFits(u[1], old[j + 1], p.new)
  <2>1. SUFFICES ASSUME u # << >> PROVE HeadFits(u[1], old[j + 1], p.new)
    OBVIOUS
  <2>2. Len(u) # 0
    BY <1>10, <2>1, EmptySeq
  <2>3. 1 \in 1..Len(u) /\ j + 1 + 1 - 1 = j + 1 /\ j + 1 \in 1..Len(old)
    BY <1>1, <1>5, <1>6, <1>10, <1>11, <2>2
  <2>4. u[1] = old[j + 1]
    BY <1>12, <2>3
  <2>5. old[j + 1][1] \in Nat /\ old[j + 1][2] \in Nat
    BY <1>5, <2>3
  <2> QED
    BY <2>4, <2>5 DEF HeadFits
<1>14. \A k \in 2..Len(u) : u[k] = old[j + 1 + k - 1]
  BY <1>11, <1>12
<1>15. j + 1 \in 1..Len(old) + 1 /\ Len(u) = Len(old) - (j + 1) + 1
  BY <1>1, <1>5, <1>6, <1>10, SMTT(30)
<1> QED
  BY <1>1, <1>3, <1>9, <1>13, <1>14, <1>15 DEF Parted

\* The numbers of a new range n1..n2, the stored one s1..s2 that it touches, and
\* what that has been widened to, o1..o2.
LEMMA TouchNumbers ==
  ASSUME NEW n1 \in Nat, NEW n2 \in Nat, NEW o1 \in Nat, NEW o2 \in Nat, NEW s1 \in Nat, NEW s2 \in Nat,
         n1 <= n2, s1 <= s2, ~ n2 + 1 < o1, ~ o2 + 1 < n1, o1 <= s1, o2 = s2, o1 = s1 \/ s1 <= n1
  PROVE  /\ s1 <= n2 + 1 /\ n1 <= s2 + 1
         /\ o1 <= n2 + 1 /\ n1 <= o2 + 1 /\ o1 - 1 < o2 + 1
         /\ \A x \in n1..o1 - 1 : x \in Nat /\ n1 <= x /\ x <= n2 /\ x < s1
         /\ \A x \in o2 + 1..n2 : x \in Nat /\ n1 <= x /\ x <= n2 /\ s2 < x
         /\ \A x \in Nat : x < n1 => x < o2 + 1
         /\ \A y \in Nat : n2 + 1 < y => o1 - 1 < y /\ n2 < y /\ s1 <= y
OBVIOUS

\* The new range touches the first stored one, and by assumption no other.
LEMMA PartedTouching ==
  ASSUME NEW old \in Seq(Pairs), NEW new \in Seq(Pairs), Whole(old), Increasing(old), Simple(old, new),
         NEW p, NEW j, Parted(old, new, p, j), p.old # << >>, p.new # << >>, NEW q \in MergeState, Touching(p, q)
  PROVE  Parted(old, new, q, j)
<1> DEFINE o == p.old[1]
           n == Head(p.new)
           t == Tail(p.new)
           u == Tail(p.old)
           s == old[j]
           w == Wider(o, n)
           b == Before(o, n)
           a == After(o, n)
<1>1. /\ p.old \in Seq(Pairs) /\ p.new \in Seq(Pairs) /\ p.out \in Seq(Pairs)
      /\ RestFits(p.new, new) /\ HeadFits(o, s, p.new)
      /\ Passed(old, j, p.new) /\ OutApart(p.out, old, p.new)
      /\ j \in 1..Len(old) + 1 /\ Len(p.old) = Len(old) - j + 1
      /\ \A k \in 2..Len(p.old) : p.old[k] = old[j + k - 1]
  BY DEF Parted, MergeState
<1>2. Head(p.old) = o /\ o \in Pairs /\ o[1] \in Nat /\ o[2] \in Nat /\ u \in Seq(Pairs)
  BY <1>1, MembersSplit
<1>3. /\ ~ n[2] + 1 < o[1] /\ ~ o[2] + 1 < n[1]
      /\ q.old = <<w>> \o u /\ q.new = t /\ q.out = (p.out \o b) \o a
  BY <1>2 DEF Touching
<1>4. /\ RestFits(t, new) /\ n = p.new[1] /\ 1 \in 1..Len(p.new) /\ n \in ToSet(new)
      /\ n \in Pairs /\ n[1] \in Nat /\ n[2] \in Nat /\ n[1] <= n[2]
      /\ \A k \in 1..Len(t) : n[2] + 1 < t[k][1] /\ t[k][1] \in Nat
  BY <1>1, RestSplit
<1>5. Passed(old, j, t) /\ HeadFits(o, s, t) /\ OutApart(p.out, old, t)
  BY <1>1, FewerRemain
<1>6. /\ Len(old) \in Nat /\ Len(p.old) \in Nat /\ Len(p.old) # 0
      /\ \A l \in 1..Len(old) : old[l][1] \in Nat /\ old[l][2] \in Nat /\ old[l][1] <= old[l][2]
  <2>1. Len(old) \in Nat /\ Len(p.old) \in Nat
    BY <1>1, PairFacts
  <2>2. Len(p.old) # 0
    BY <1>1, EmptySeq
  <2> QED
    BY <2>1, <2>2, PairFacts DEF Whole
<1>7. j \in 1..Len(old) /\ s[1] \in Nat /\ s[2] \in Nat /\ s[1] <= s[2]
  BY <1>1, <1>6
<1>8. /\ w \in Pairs /\ w[1] = (IF n[1] < o[1] THEN n[1] ELSE o[1])
      /\ w[2] = (IF o[2] < n[2] THEN n[2] ELSE o[2])
  BY <1>2, <1>4, TouchFacts DEF Wider
<1>9. /\ b \in Seq(Pairs) /\ Disjoint(b) /\ Members(b) = n[1]..o[1] - 1
      /\ \A k \in 1..Len(b) : b[k][1] = n[1] /\ b[k][2] = o[1] - 1 /\ n[1] < o[1]
      /\ a \in Seq(Pairs) /\ Disjoint(a) /\ Members(a) = o[2] + 1..n[2]
      /\ \A k \in 1..Len(a) : a[k][1] = o[2] + 1 /\ a[k][2] = n[2] /\ o[2] < n[2]
  BY <1>2, <1>4, TouchFacts, BesideFacts
<1>10. Len(u) = Len(p.old) - 1 /\ \A k \in 1..Len(u) : u[k] = p.old[k + 1]
  BY <1>1, HeadTailProperties
<1> HIDE DEF o, n, t, u, w, b, a
<1>11. o[1] <= s[1] /\ o[2] = s[2]
  <2>1. \/ o[2] = s[2]
        \/ o[2] + 1 < p.new[1][1]
    BY <1>1, <1>4 DEF HeadFits
  <2> QED
    BY <1>1, <1>3, <1>4, <2>1 DEF HeadFits
<1>12. o[1] = s[1] \/ s[1] <= n[1]
  BY <1>1, <1>4 DEF HeadFits
<1>121. /\ n[1] \in Nat /\ n[2] \in Nat /\ o[1] \in Nat /\ o[2] \in Nat /\ s[1] \in Nat /\ s[2] \in Nat
        /\ n[1] <= n[2] /\ s[1] <= s[2]
  BY <1>2, <1>4, <1>7
<1>122. ~ n[2] + 1 < o[1] /\ ~ o[2] + 1 < n[1]
  BY <1>3
<1>123. /\ s[1] <= n[2] + 1 /\ n[1] <= s[2] + 1
        /\ o[1] <= n[2] + 1 /\ n[1] <= o[2] + 1 /\ o[1] - 1 < o[2] + 1
        /\ \A x \in n[1]..o[1] - 1 : x \in Nat /\ n[1] <= x /\ x <= n[2] /\ x < s[1]
        /\ \A x \in o[2] + 1..n[2] : x \in Nat /\ n[1] <= x /\ x <= n[2] /\ s[2] < x
        /\ \A x \in Nat : x < n[1] => x < o[2] + 1
        /\ \A y \in Nat : n[2] + 1 < y => o[1] - 1 < y /\ n[2] < y /\ s[1] <= y
  <2> HIDE DEF s
  <2>1. PICK n1 : n1 = n[1]
    OBVIOUS
  <2>2. PICK n2 : n2 = n[2]
    OBVIOUS
  <2>3. PICK o1 : o1 = o[1]
    OBVIOUS
  <2>4. PICK o2 : o2 = o[2]
    OBVIOUS
  <2>5. PICK s1 : s1 = s[1]
    OBVIOUS
  <2>6. PICK s2 : s2 = s[2]
    OBVIOUS
  <2>7. /\ n1 \in Nat /\ n2 \in Nat /\ o1 \in Nat /\ o2 \in Nat /\ s1 \in Nat /\ s2 \in Nat
        /\ n1 <= n2 /\ s1 <= s2 /\ ~ n2 + 1 < o1 /\ ~ o2 + 1 < n1 /\ o1 <= s1 /\ o2 = s2
        /\ o1 = s1 \/ s1 <= n1
    BY <1>121, <1>122, <1>11, <1>12, <2>1, <2>2, <2>3, <2>4, <2>5, <2>6
  <2>8. /\ s1 <= n2 + 1 /\ n1 <= s2 + 1
        /\ o1 <= n2 + 1 /\ n1 <= o2 + 1 /\ o1 - 1 < o2 + 1
        /\ \A x \in n1..o1 - 1 : x \in Nat /\ n1 <= x /\ x <= n2 /\ x < s1
        /\ \A x \in o2 + 1..n2 : x \in Nat /\ n1 <= x /\ x <= n2 /\ s2 < x
        /\ \A x \in Nat : x < n1 => x < o2 + 1
        /\ \A y \in Nat : n2 + 1 < y => o1 - 1 < y /\ n2 < y /\ s1 <= y
    BY <2>7, TouchNumbers
  <2> QED
    BY <2>1, <2>2, <2>3, <2>4, <2>5, <2>6, <2>8, Zenon
<1>13. Touches(n, s)
  BY <1>123 DEF Touches
<1>14. \A l \in 1..Len(old) : j < l => n[2] + 1 < old[l][1]
  <2>1. SUFFICES ASSUME NEW l \in 1..Len(old), j < l PROVE n[2] + 1 < old[l][1]
    OBVIOUS
  <2>2. ~ Touches(n, old[l])
    <3>1. j # l
      BY <1>7, <2>1
    <3> QED
      BY <1>4, <1>7, <1>13, <3>1, SimpleFacts
  <2>3. s[2] + 1 < old[l][1]
    BY <1>7, <2>1 DEF Increasing
  <2>4. old[l][1] \in Nat /\ old[l][2] \in Nat /\ old[l][1] <= old[l][2]
    BY <1>6
  <2>5. n[1] <= s[2] + 1
    BY <1>13 DEF Touches
  <2>6. ~ (old[l][1] <= n[2] + 1) \/ ~ (n[1] <= old[l][2] + 1)
    BY <2>2 DEF Touches
  <2> HIDE DEF s
  <2>7. n[1] <= old[l][2] + 1
    <3>1. PICK n1 : n1 = n[1]
      OBVIOUS
    <3>2. PICK s2 : s2 = s[2]
      OBVIOUS
    <3>3. PICK c : c = old[l][1]
      OBVIOUS
    <3>4. PICK d : d = old[l][2]
      OBVIOUS
    <3>5. n1 \in Nat /\ s2 \in Nat /\ c \in Nat /\ d \in Nat /\ n1 <= s2 + 1 /\ s2 + 1 < c /\ c <= d
      BY <1>121, <2>3, <2>4, <2>5, <3>1, <3>2, <3>3, <3>4
    <3>6. n1 <= d + 1
      BY <3>5
    <3> QED
      BY <3>1, <3>4, <3>6
  <2>8. ~ (old[l][1] <= n[2] + 1)
    BY <2>6, <2>7
  <2> QED
    BY <1>121, <2>4, <2>8
<1>15. \A l \in 1..Len(old) : l < j => old[l][2] + 1 < n[1]
  <2>1. SUFFICES ASSUME NEW l \in 1..Len(old), l < j PROVE old[l][2] + 1 < n[1]
    OBVIOUS
  <2>2. l \in 1..j - 1
    BY <1>7, <2>1
  <2> QED
    BY <1>1, <1>4, <2>2 DEF Passed
\* What is reported was not stored.
<1>16. ASSUME NEW x \in Nat, n[1] <= x, x <= n[2], x < s[1] \/ s[2] < x, NEW l \in 1..Len(old)
       PROVE  x \notin old[l][1]..old[l][2]
  <2>1. old[l][1] \in Nat /\ old[l][2] \in Nat /\ j \in Nat /\ l \in Nat
    BY <1>6, <1>7
  <2>2. CASE l < j
    <3>1. old[l][2] + 1 < n[1]
      BY <1>15, <2>2
    <3>2. old[l][2] < x
      BY <1>4, <1>16, <2>1, <3>1, SMTT(30)
    <3> QED
      BY <2>1, <3>2, OutOfRange
  <2>3. CASE l = j
    BY <1>16, <2>1, <2>3, OutOfRange
  <2>4. CASE j < l
    <3>1. n[2] + 1 < old[l][1]
      BY <1>14, <2>4
    <3>2. x < old[l][1]
      BY <1>4, <1>16, <2>1, <3>1
    <3> QED
      BY <2>1, <3>2, OutOfRange
  <2> QED
    BY <2>1, <2>2, <2>3, <2>4
<1>17. o[1] <= n[2] + 1 /\ o[1] - 1 < o[2] + 1
  BY <1>123, <1>121
<1>18. Members(b) \cap Members(old) = {}
  <2>1. SUFFICES ASSUME NEW x \in n[1]..o[1] - 1 PROVE x \notin Members(old)
    BY <1>9
  <2>2. x \in Nat /\ n[1] <= x /\ x <= n[2] /\ x < s[1]
    BY <1>123, <2>1
  <2>3. \A l \in 1..Len(old) : x \notin old[l][1]..old[l][2]
    BY <1>16, <2>2
  <2> QED
    BY <2>3, MembersIn
<1>19. Members(a) \cap Members(old) = {}
  <2>1. SUFFICES ASSUME NEW x \in o[2] + 1..n[2] PROVE x \notin Members(old)
    BY <1>9
  <2>2. x \in Nat /\ n[1] <= x /\ x <= n[2] /\ s[2] < x
    BY <1>123, <2>1
  <2>3. \A l \in 1..Len(old) : x \notin old[l][1]..old[l][2]
    BY <1>16, <2>2
  <2> QED
    BY <2>3, MembersIn
<1>20. OutApart(q.out, old, t)
  <2>1. Disjoint(p.out) /\ Members(p.out) \cap Members(old) = {} /\ Below(p.out, n[1])
    BY <1>1, <1>4 DEF OutApart
  <2> DEFINE pb == p.out \o b
  <2>2. pb \in Seq(Pairs) /\ Members(pb) = Members(p.out) \cup Members(b)
    BY <1>1, <1>9, MembersJoin
  <2>3. Disjoint(pb)
    <3>1. \A k \in 1..Len(b) : Below(p.out, b[k][1])
      BY <1>9, <2>1
    <3> QED
      BY <1>1, <1>9, <2>1, <3>1, JoinDisjoint, Zenon
  <2>4. Below(pb, o[2] + 1)
    <3>1. Below(p.out, o[2] + 1)
      <4>1. \A l \in 1..Len(p.out) : p.out[l][2] \in Nat /\ p.out[l][2] < n[1]
        BY <1>1, <2>1, PairFacts DEF Below
      <4>3. \A l \in 1..Len(p.out) : p.out[l][2] < o[2] + 1
        BY <1>123, <4>1
      <4> QED
        BY <4>3 DEF Below
    <3>2. Below(b, o[2] + 1)
      BY <1>9, <1>17 DEF Below
    <3> QED
      BY <1>1, <1>9, <3>1, <3>2, JoinBelow
  <2>5. \A k \in 1..Len(a) : Below(pb, a[k][1])
    BY <1>9, <2>4
  <2> HIDE DEF pb
  <2>6. q.out = pb \o a
    BY <1>3 DEF pb
  <2>7. Disjoint(pb \o a) /\ Members(pb \o a) = Members(pb) \cup Members(a)
    BY <1>9, <2>2, <2>3, <2>5, JoinDisjoint, MembersJoin, Zenon
  <2>8. ASSUME NEW k \in 1..Len(t) PROVE Below(q.out, t[k][1])
    <3>1. Below(p.out, t[k][1])
      BY <1>5 DEF OutApart
    <3>2. n[2] + 1 < t[k][1] /\ t[k][1] \in Nat
      BY <1>4
    <3>3. o[1] - 1 < t[k][1] /\ n[2] < t[k][1]
      BY <1>123, <3>2
    <3>4. Below(b, t[k][1]) /\ Below(a, t[k][1])
      BY <1>9, <3>3 DEF Below
    <3>5. Below(pb, t[k][1])
      BY <1>1, <1>9, <3>1, <3>4, JoinBelow DEF pb
    <3> QED
      BY <1>9, <2>2, <2>6, <3>4, <3>5, JoinBelow
  <2>9. Disjoint(q.out) /\ Members(q.out) \cap Members(old) = {}
    BY <1>18, <1>19, <2>1, <2>2, <2>6, <2>7
  <2> QED
    BY <2>8, <2>9 DEF OutApart
<1>21. HeadFits(w, s, t)
  <2> HIDE DEF s
  <2>1. w[1] <= s[1]
    BY <1>2, <1>4, <1>7, <1>8, <1>11
  <2>2. s[2] <= w[2]
    BY <1>2, <1>4, <1>7, <1>8, <1>11
  <2>3. w[1] = s[1] \/ \A k \in 1..Len(t) : s[1] <= t[k][1]
    <3>1. CASE n[1] < o[1]
      <4>1. \A k \in 1..Len(t) : n[2] + 1 < t[k][1] /\ t[k][1] \in Nat
        BY <1>4
      <4> QED
        BY <1>123, <4>1
    <3>2. CASE ~ n[1] < o[1]
      BY <1>5, <1>8, <3>2 DEF HeadFits
    <3> QED
      BY <3>1, <3>2
  <2>4. w[2] = s[2] \/ \A k \in 1..Len(t) : w[2] + 1 < t[k][1]
    BY <1>2, <1>4, <1>8, <1>11
  <2> QED
    BY <2>1, <2>2, <2>3, <2>4 DEF HeadFits
<1>22. /\ Len(q.old) = Len(p.old) /\ q.old[1] = w
       /\ \A k \in 2..Len(q.old) : q.old[k] = p.old[k]
  <2>1. PICK one : one = <<w>>
    OBVIOUS
  <2>2. one \in Seq(Pairs) /\ Len(one) = 1 /\ one[1] = w /\ q.old = one \o u
    BY <1>3, <1>8, <2>1
  <2>3. /\ Len(one \o u) = Len(one) + Len(u)
        /\ \A i \in 1..Len(one) + Len(u) : (one \o u)[i] = IF i <= Len(one) THEN one[i] ELSE u[i - Len(one)]
    BY <1>2, <2>2, ConcatProperties
  <2>4. Len(q.old) = Len(p.old)
    BY <1>6, <1>10, <2>2, <2>3
  <2>5. 1 \in 1..Len(one) + Len(u) /\ 1 <= Len(one)
    BY <1>6, <1>10, <2>2
  <2>6. q.old[1] = w
    BY <2>2, <2>3, <2>5
  <2>7. ASSUME NEW k \in 2..Len(q.old) PROVE q.old[k] = p.old[k]
    <3>1. k \in 1..Len(one) + Len(u) /\ ~ k <= Len(one) /\ k - Len(one) \in 1..Len(u) /\ k - Len(one) + 1 = k
      BY <1>6, <1>10, <2>2, <2>4
    <3>2. q.old[k] = u[k - Len(one)]
      BY <2>2, <2>3, <3>1
    <3> QED
      BY <1>10, <3>1, <3>2
  <2> QED
    BY <2>4, <2>6, <2>7
<1>23. \A k \in 2..Len(q.old) : q.old[k] = old[j + k - 1]
  BY <1>1, <1>22
<1> QED
  BY <1>1, <1>3, <1>4, <1>5, <1>20, <1>21, <1>22, <1>23 DEF Parted, s

\* Where a merge stands after k rounds.
PartedAt(old, new, p, k) ==
  /\ \E j : Parted(old, new, p, j)
  /\ p.old = << >> \/ p.new = << >> \/ Len(p.old) + Len(p.new) <= Len(old) + Len(new) - k

LEMMA Less ==
  ASSUME NEW a \in Nat, NEW b \in Nat, a + 1 < b
  PROVE  a < b
OBVIOUS

LEMMA PartedRound ==
  ASSUME NEW old \in Seq(Pairs), NEW new \in Seq(Pairs), Valid(old), Valid(new), Simple(old, new),
         NEW p, NEW k \in Nat, PartedAt(old, new, p, k)
  PROVE  PartedAt(old, new, MergeStep(p), k + 1)
<1> DEFINE q == MergeStep(p)
<1>1. PICK j : Parted(old, new, p, j)
  BY DEF PartedAt
<1>2. CASE p.old = << >> \/ p.new = << >>
  <2>1. q = p
    BY <1>2 DEF MergeStep
  <2> HIDE DEF q
  <2>2. PartedAt(old, new, q, k + 1)
    BY <1>1, <1>2, <2>1 DEF PartedAt
  <2> QED
    BY <2>2 DEF q
<1>3. CASE ~ (p.old = << >> \/ p.new = << >>)
  <2>1. p \in MergeState /\ Whole(old) /\ Increasing(old)
    BY <1>1, ValidFacts DEF Parted
  <2>2. q \in MergeState
    BY <2>1, MergeStepType
  <2>3. NewFirst(p, q) \/ OldFirst(p, q) \/ Touching(p, q)
    BY <1>3, <2>1, MergeCases DEF MergeStep
  <2>4. p.old \in Seq(Pairs) /\ p.new \in Seq(Pairs)
    BY <2>1 DEF MergeState
  <2>5. /\ Len(Tail(p.old)) = Len(p.old) - 1 /\ Len(Tail(p.new)) = Len(p.new) - 1
        /\ Tail(p.old) \in Seq(Pairs) /\ Tail(p.new) \in Seq(Pairs)
    BY <1>3, <2>4, HeadTailProperties
  <2>6. Len(p.old) \in Nat /\ Len(p.new) \in Nat /\ Len(old) \in Nat /\ Len(new) \in Nat
    BY <2>4, PairFacts
  <2>7. Len(p.old) + Len(p.new) <= Len(old) + Len(new) - k
    BY <1>3 DEF PartedAt
  <2> HIDE DEF q
  <2>8. \E i : Parted(old, new, q, i)
    <3>1. CASE NewFirst(p, q)
      BY <1>1, <1>3, <2>1, <2>2, <3>1, PartedNewFirst
    <3>2. CASE OldFirst(p, q)
      BY <1>1, <1>3, <2>1, <2>2, <3>2, PartedOldFirst
    <3>3. CASE Touching(p, q)
      BY <1>1, <1>3, <2>1, <2>2, <3>3, PartedTouching
    <3> QED
      BY <2>3, <3>1, <3>2, <3>3
  <2>9. \/ Len(q.old) = Len(p.old) /\ Len(q.new) = Len(p.new) - 1
        \/ Len(q.old) = Len(p.old) - 1 /\ Len(q.new) = Len(p.new)
    <3>1. CASE NewFirst(p, q)
      <4>1. q.old = p.old /\ q.new = Tail(p.new)
        BY <3>1 DEF NewFirst
      <4> QED
        BY <2>5, <4>1
    <3>2. CASE OldFirst(p, q)
      <4>1. q.old = Tail(p.old) /\ q.new = p.new
        BY <3>2 DEF OldFirst
      <4> QED
        BY <2>5, <4>1
    <3>3. CASE Touching(p, q)
      <4> DEFINE w == Wider(Head(p.old), Head(p.new))
      <4>1. q.old = <<w>> \o Tail(p.old) /\ q.new = Tail(p.new)
        BY <3>3 DEF Touching
      <4>2. w \in Pairs
        BY <1>3, <2>4, MembersSplit, TouchFacts
      <4> HIDE DEF w
      <4>3. <<w>> \in Seq(Pairs) /\ Len(<<w>>) = 1
        BY <4>2
      <4>4. Len(q.old) = 1 + Len(Tail(p.old))
        BY <2>5, <4>1, <4>3, ConcatProperties
      <4>5. Len(q.old) = Len(p.old)
        BY <2>5, <2>6, <4>4
      <4> QED
        BY <2>5, <4>1, <4>5
    <3> QED
      BY <2>3, <3>1, <3>2, <3>3
  <2>10. Len(q.old) + Len(q.new) <= Len(old) + Len(new) - (k + 1)
    <3>1. PICK a : a = Len(p.old)
      OBVIOUS
    <3>2. PICK b : b = Len(p.new)
      OBVIOUS
    <3>3. PICK c : c = Len(old)
      OBVIOUS
    <3>4. PICK d : d = Len(new)
      OBVIOUS
    <3>5. PICK x : x = Len(q.old)
      OBVIOUS
    <3>6. PICK y : y = Len(q.new)
      OBVIOUS
    <3>7. /\ a \in Nat /\ b \in Nat /\ c \in Nat /\ d \in Nat /\ a + b <= c + d - k
          /\ (x = a /\ y = b - 1) \/ (x = a - 1 /\ y = b)
      BY <2>6, <2>7, <2>9, <3>1, <3>2, <3>3, <3>4, <3>5, <3>6
    <3>8. x + y <= c + d - (k + 1)
      BY <3>7
    <3> QED
      BY <3>3, <3>4, <3>5, <3>6, <3>8
  <2>11. PartedAt(old, new, q, k + 1)
    BY <2>8, <2>10 DEF PartedAt
  <2> QED
    BY <2>11 DEF q
<1> QED
  BY <1>2, <1>3

\* With simple ranges the reported ones are apart and were not stored.
LEMMA SimpleMerge ==
  ASSUME NEW old \in Seq(Pairs), NEW new \in Seq(Pairs), Valid(old), Valid(new), Simple(old, new)
  PROVE  Disjoint(Merge(old, new).out) /\ Members(Merge(old, new).out) \cap Members(old) = {}
<1> DEFINE m == Len(old) + Len(new)
<1>1. PICK f : MergeStates(old, new, f)
  BY MergeRuns
<1>2. /\ Whole(old) /\ Increasing(old) /\ Whole(new) /\ Increasing(new)
      /\ Len(old) \in Nat /\ Len(new) \in Nat
      /\ \A l \in 1..Len(old) : old[l][1] \in Nat /\ old[l][2] \in Nat
      /\ \A l \in 1..Len(new) : new[l][1] \in Nat /\ new[l][2] \in Nat
  BY ValidFacts, PairFacts
<1>3. m \in Nat
  BY <1>2
<1>4. /\ f[0] = [old |-> old, new |-> new, rows |-> << >>, out |-> << >>]
      /\ f[0] \in MergeState
      /\ \A k \in 1..m : f[k] = MergeStep(f[k - 1])
      /\ Merge(old, new).out = f[m].out \o f[m].new
  <2>1. 0 \in 0..m
    BY <1>3
  <2>2. Merge(old, new) = [rows |-> f[m].rows \o f[m].old \o f[m].new, out |-> f[m].out \o f[m].new]
    BY <1>1, Zenon DEF MergeStates
  <2>3. /\ f[0] = [old |-> old, new |-> new, rows |-> << >>, out |-> << >>]
        /\ \A k \in 0..m : f[k] \in MergeState
        /\ \A k \in 1..m : f[k] = MergeStep(f[k - 1])
    BY <1>1, Zenon DEF MergeStates
  <2>31. PICK last : last = f[m]
    OBVIOUS
  <2>4. Merge(old, new).out = f[m].out \o f[m].new
    <3>1. Merge(old, new) = [rows |-> last.rows \o last.old \o last.new, out |-> last.out \o last.new]
      BY <2>2, <2>31, Zenon
    <3>2. PICK r : r = last.rows \o last.old \o last.new
      OBVIOUS
    <3>3. PICK u : u = last.out \o last.new
      OBVIOUS
    <3>4. Merge(old, new) = [rows |-> r, out |-> u]
      BY <3>1, <3>2, <3>3, Zenon
    <3>5. Merge(old, new).out = u
      BY <3>4
    <3> QED
      BY <2>31, <3>3, <3>5, Zenon
  <2> QED
    BY <2>1, <2>3, <2>4, Zenon
<1>5. PartedAt(old, new, f[0], 0)
  <2>1. f[0].old = old /\ f[0].new = new /\ f[0].out = << >>
    BY <1>4
  <2>2. RestFits(new, new)
    BY <1>2 DEF RestFits, ToSet
  <2>3. old # << >> => HeadFits(old[1], old[1], new)
    <3>1. SUFFICES ASSUME old # << >> PROVE HeadFits(old[1], old[1], new)
      OBVIOUS
    <3>2. old[1][1] \in Nat /\ old[1][2] \in Nat
      BY <3>1, MembersSplit
    <3> QED
      BY <3>2 DEF HeadFits
  <2>4. Passed(old, 1, new)
    BY DEF Passed
  <2>5. OutApart(<< >>, old, new)
    BY NoRange, MembersOfNone DEF OutApart
  <2>6. 1 \in 1..Len(old) + 1 /\ Len(old) = Len(old) - 1 + 1
    BY <1>2
  <2>7. \A k \in 2..Len(old) : old[k] = old[1 + k - 1]
    BY <1>2
  <2>8. Parted(old, new, f[0], 1)
    BY <1>4, <2>1, <2>2, <2>3, <2>4, <2>5, <2>6, <2>7 DEF Parted
  <2>9. Len(f[0].old) + Len(f[0].new) <= Len(old) + Len(new) - 0
    BY <1>2, <2>1
  <2> QED
    BY <2>8, <2>9 DEF PartedAt
<1> DEFINE S == {k \in Nat : k <= m => PartedAt(old, new, f[k], k)}
<1>6. 0 \in S
  BY <1>5
<1> HIDE DEF m
<1>7. ASSUME NEW k \in S PROVE k + 1 \in S
  <2>1. k \in Nat /\ (k <= m => PartedAt(old, new, f[k], k))
    OBVIOUS
  <2>2. ASSUME k + 1 <= m PROVE PartedAt(old, new, f[k + 1], k + 1)
    <3>1. k <= m /\ k + 1 \in 1..m /\ k + 1 - 1 = k
      BY <1>3, <2>1, <2>2
    <3>2. f[k + 1] = MergeStep(f[k])
      BY <1>4, <3>1
    <3> QED
      BY <2>1, <3>1, <3>2, PartedRound
  <2> QED
    BY <2>1, <2>2
<1>8. S = Nat
  <2>1. S \in SUBSET Nat
    OBVIOUS
  <2> HIDE DEF S
  <2> QED BY <1>6, <1>7, <2>1, Reaches
<1> DEFINE p == f[m]
<1>9. PartedAt(old, new, p, m)
  <2>1. m \in S
    BY <1>3, <1>8
  <2> QED
    BY <1>3, <2>1
<1> HIDE DEF p, S
<1>10. Merge(old, new).out = p.out \o p.new
  BY <1>4 DEF p
<1>11. PICK j : Parted(old, new, p, j)
  BY <1>9 DEF PartedAt
<1>12. /\ p.old \in Seq(Pairs) /\ p.new \in Seq(Pairs) /\ p.out \in Seq(Pairs)
       /\ RestFits(p.new, new) /\ Passed(old, j, p.new) /\ OutApart(p.out, old, p.new)
       /\ j \in 1..Len(old) + 1 /\ Len(p.old) = Len(old) - j + 1
  BY <1>11 DEF Parted, MergeState
<1>13. Len(p.old) \in Nat /\ Len(p.new) \in Nat
  BY <1>12, PairFacts
<1>14. p.old = << >> \/ p.new = << >>
  <2>1. SUFFICES ASSUME ~ (p.old = << >> \/ p.new = << >>) PROVE FALSE
    OBVIOUS
  <2>2. Len(p.old) # 0 /\ Len(p.new) # 0
    BY <1>12, <2>1, EmptySeq
  <2>3. Len(p.old) + Len(p.new) <= Len(old) + Len(new) - m
    BY <1>9, <2>1 DEF PartedAt
  <2> QED
    <3>1. PICK a : a = Len(p.old)
      OBVIOUS
    <3>2. PICK b : b = Len(p.new)
      OBVIOUS
    <3>3. PICK c : c = Len(old)
      OBVIOUS
    <3>4. PICK d : d = Len(new)
      OBVIOUS
    <3>5. a + b <= c + d - (c + d)
      BY <2>3, <3>1, <3>2, <3>3, <3>4, Zenon DEF m
    <3>6. a \in Nat /\ b \in Nat /\ a # 0 /\ c \in Nat /\ d \in Nat
      BY <1>2, <1>13, <2>2, <3>1, <3>2, <3>3, <3>4
    <3> QED
      BY <3>5, <3>6
<1>15. \A k \in 1..Len(p.new) : p.new[k][1] \in Nat /\ p.new[k][2] \in Nat /\ p.new[k][1] <= p.new[k][2]
  <2>1. Whole(p.new) /\ DOMAIN p.new = 1..Len(p.new)
    BY <1>12, PairFacts DEF RestFits
  <2> QED
    BY <1>12, <2>1, PairFacts DEF Whole
<1>16. Members(p.new) \cap Members(old) = {}
  <2>1. SUFFICES ASSUME NEW x \in Members(p.new), x \in Members(old) PROVE FALSE
    OBVIOUS
  <2>2. PICK k \in 1..Len(p.new) : x \in p.new[k][1]..p.new[k][2]
    BY <1>12, MembersIn
  <2>3. PICK l \in 1..Len(old) : x \in old[l][1]..old[l][2]
    BY <2>1, MembersIn
  <2>4. p.old = << >>
    <3>1. Len(p.new) # 0
      BY <1>13
    <3>2. p.new # << >>
      BY <1>12, <3>1, EmptySeq
    <3> QED
      BY <1>14, <3>2
  <2>5. Len(p.old) = 0
    BY <2>4
  <2>6. l \in 1..j - 1
    BY <1>2, <1>12, <2>5
  <2>7. old[l][2] + 1 < p.new[k][1]
    BY <1>12, <2>6 DEF Passed
  <2>8. old[l][1] \in Nat /\ old[l][2] \in Nat /\ p.new[k][1] \in Nat /\ p.new[k][2] \in Nat
    BY <1>2, <1>15
  <2>9. x \in Nat /\ x <= old[l][2] /\ p.new[k][1] <= x
    BY <2>2, <2>3, <2>8
  <2> QED
    BY <2>7, <2>8, <2>9
<1>17. Disjoint(p.new)
  <2>1. SUFFICES ASSUME NEW a \in 1..Len(p.new), NEW b \in 1..Len(p.new), a # b
                 PROVE  p.new[a][2] < p.new[b][1] \/ p.new[b][2] < p.new[a][1]
    BY <1>12, PairFacts DEF Disjoint
  <2>2. a < b \/ b < a
    BY <1>13, <2>1
  <2>3. Increasing(p.new)
    BY <1>12 DEF RestFits
  <2>4. p.new[a][2] + 1 < p.new[b][1] \/ p.new[b][2] + 1 < p.new[a][1]
    BY <2>2, <2>3 DEF Increasing
  <2>5. /\ p.new[a][1] \in Nat /\ p.new[a][2] \in Nat
        /\ p.new[b][1] \in Nat /\ p.new[b][2] \in Nat
    BY <1>15
  <2> QED
    BY <2>4, <2>5, Less, Zenon
<1>18. Disjoint(p.out \o p.new)
  <2>1. Disjoint(p.out) /\ \A k \in 1..Len(p.new) : Below(p.out, p.new[k][1])
    BY <1>12 DEF OutApart
  <2> QED
    BY <1>12, <1>17, <2>1, JoinDisjoint, Zenon
<1>19. Members(p.out \o p.new) = Members(p.out) \cup Members(p.new)
  BY <1>12, MembersJoin
<1>20. Members(p.out) \cap Members(old) = {}
  BY <1>12 DEF OutApart
<1>21. Members(p.out \o p.new) \cap Members(old) = {}
  BY <1>16, <1>19, <1>20
<1> QED
  BY <1>10, <1>18, <1>21

\* Whatever valid ranges are stored and asked for, do_upsert stores their union
\* and reports at least what was added and at most what was asked for; and when
\* no new range touches two stored ones, exactly what was added.
THEOREM MergesExactly ==
  ASSUME NEW old \in Seq(Nat \X Nat), NEW new \in Seq(Nat \X Nat), Valid(old), Valid(new)
  PROVE  MergeExact(old, new)
<1> DEFINE m == Merge(old, new)
<1>1. old \in Seq(Pairs) /\ new \in Seq(Pairs)
  BY DEF Pairs
<1>2. Whole(old) /\ Whole(new)
  BY <1>1, ValidFacts
<1>3. /\ m.rows \in Seq(Pairs) /\ Whole(m.rows)
      /\ m.out \in Seq(Pairs) /\ Whole(m.out)
      /\ Members(m.rows) = Members(old) \cup Members(new)
      /\ Members(m.out) \subseteq Members(new)
      /\ Members(new) \ Members(old) \subseteq Members(m.out)
  BY <1>1, <1>2, MergeFacts
<1>4. ASSUME Simple(old, new)
      PROVE  /\ Size(m.out) = Cardinality(Members(new) \ Members(old))
             /\ Members(m.out) = Members(new) \ Members(old)
  <2>1. Disjoint(m.out) /\ Members(m.out) \cap Members(old) = {}
    BY <1>1, <1>4, SimpleMerge
  <2>2. Members(m.out) = Members(new) \ Members(old)
    BY <1>3, <2>1
  <2>3. Cardinality(Members(m.out)) = Size(m.out)
    BY <1>3, <2>1, SizeFacts
  <2> QED
    BY <2>2, <2>3
<1> HIDE DEF m
<1>5. QED
  BY <1>3, <1>4 DEF MergeExact, m

-----------------------------------------------------------------------------
(* do_upsert.                                                              *)

WatchRow == Addresses \X Nat \X Nat

Tables ==
  [ranges : [Majors -> Seq(Pairs)], indexes : SUBSET WatchRow, out : Seq(Majors),
   torn : SUBSET Majors, count : Nat, result : {"ok", "schema", "max"}]

\* The tables of an account in the middle of do_upsert.
WholeTables(t) == t \in Tables /\ \A k \in Majors : Whole(t.ranges[k])

EntrySet == [major : Majors, ranges : Seq(Pairs)]

\* The four things that may come of an entry e.
Skips(t, r) == t.result # "ok" /\ r = t
Refuses(t, e, r) ==
  /\ t.result = "ok" /\ ~ Valid(e.ranges)
  /\ r = [ranges |-> t.ranges, indexes |-> t.indexes, out |-> t.out, torn |-> t.torn, count |-> t.count,
          result |-> "schema"]
Overflows(t, e, r) ==
  /\ t.result = "ok" /\ Valid(e.ranges)
  /\ ~ Room(t.count, Merge(t.ranges[e.major], e.ranges).out)
  /\ r = [ranges |-> [t.ranges EXCEPT ![e.major] = << >>], indexes |-> t.indexes, out |-> t.out,
          torn |-> {e.major}, count |-> t.count, result |-> "max"]
Adds(a, t, e, r) ==
  /\ t.result = "ok" /\ Valid(e.ranges)
  /\ LET m == Merge(t.ranges[e.major], e.ranges) IN
     /\ Room(t.count, m.out)
     /\ r = [ranges |-> [t.ranges EXCEPT ![e.major] = m.rows],
             indexes |-> t.indexes \cup IndexRows(a, e.major, m.rows),
             out |-> IF m.out = << >> THEN t.out ELSE Append(t.out, e.major),
             torn |-> t.torn, count |-> t.count + Size(m.out), result |-> "ok"]

LEMMA TablesFields ==
  ASSUME NEW t, WholeTables(t)
  PROVE  /\ t = [ranges |-> t.ranges, indexes |-> t.indexes, out |-> t.out, torn |-> t.torn,
                 count |-> t.count, result |-> t.result]
         /\ t.ranges \in [Majors -> Seq(Pairs)] /\ t.indexes \in SUBSET WatchRow /\ t.out \in Seq(Majors)
         /\ t.torn \in SUBSET Majors /\ t.count \in Nat /\ t.result \in {"ok", "schema", "max"}
         /\ \A k \in Majors : Whole(t.ranges[k]) /\ t.ranges[k] \in Seq(Pairs)
<1>1. t \in Tables /\ \A k \in Majors : Whole(t.ranges[k])
  BY DEF WholeTables
<1>2. /\ t = [ranges |-> t.ranges, indexes |-> t.indexes, out |-> t.out, torn |-> t.torn,
              count |-> t.count, result |-> t.result]
      /\ t.ranges \in [Majors -> Seq(Pairs)] /\ t.indexes \in SUBSET WatchRow /\ t.out \in Seq(Majors)
      /\ t.torn \in SUBSET Majors /\ t.count \in Nat /\ t.result \in {"ok", "schema", "max"}
  BY <1>1 DEF Tables
<1> QED
  BY <1>1, <1>2

LEMMA UpsertCases ==
  ASSUME NEW a, NEW t, WholeTables(t), NEW e \in EntrySet
  PROVE  LET r == UpsertEntry(a, t, e) IN
         Skips(t, r) \/ Refuses(t, e, r) \/ Overflows(t, e, r) \/ Adds(a, t, e, r)
<1> DEFINE r == UpsertEntry(a, t, e)
           m == Merge(t.ranges[e.major], e.ranges)
<1>1. t = [ranges |-> t.ranges, indexes |-> t.indexes, out |-> t.out, torn |-> t.torn,
           count |-> t.count, result |-> t.result]
  BY TablesFields
<1>2. CASE t.result # "ok"
  BY <1>2 DEF UpsertEntry, Skips
<1>3. CASE t.result = "ok" /\ ~ Valid(e.ranges)
  <2>1. r = [t EXCEPT !.result = "schema"]
    BY <1>3 DEF UpsertEntry
  <2> HIDE DEF r
  <2>2. r = [ranges |-> t.ranges, indexes |-> t.indexes, out |-> t.out, torn |-> t.torn, count |-> t.count,
             result |-> "schema"]
    BY <1>1, <2>1
  <2>3. Refuses(t, e, r)
    BY <1>3, <2>2 DEF Refuses
  <2> QED
    BY <2>3 DEF r
<1>4. CASE t.result = "ok" /\ Valid(e.ranges) /\ ~ Room(t.count, m.out)
  <2>1. r = [t EXCEPT !.result = "max", !.ranges[e.major] = << >>, !.torn = {e.major}]
    BY <1>4 DEF UpsertEntry
  <2> HIDE DEF r
  <2>2. r = [ranges |-> [t.ranges EXCEPT ![e.major] = << >>], indexes |-> t.indexes, out |-> t.out,
             torn |-> {e.major}, count |-> t.count, result |-> "max"]
    BY <1>1, <2>1
  <2>3. Overflows(t, e, r)
    BY <1>4, <2>2, Zenon DEF Overflows
  <2> QED
    BY <2>3 DEF r
<1>5. CASE t.result = "ok" /\ Valid(e.ranges) /\ Room(t.count, m.out)
  <2>1. r = [t EXCEPT !.ranges[e.major] = m.rows, !.count = @ + Size(m.out),
                      !.indexes = @ \cup IndexRows(a, e.major, m.rows),
                      !.out = IF m.out = << >> THEN @ ELSE Append(@, e.major)]
    BY <1>5 DEF UpsertEntry
  <2> HIDE DEF r, m
  <2>2. r = [ranges |-> [t.ranges EXCEPT ![e.major] = m.rows],
             indexes |-> t.indexes \cup IndexRows(a, e.major, m.rows),
             out |-> IF m.out = << >> THEN t.out ELSE Append(t.out, e.major),
             torn |-> t.torn, count |-> t.count + Size(m.out), result |-> "ok"]
    BY <1>1, <1>5, <2>1
  <2>3. Adds(a, t, e, r)
    BY <1>5, <2>2, Zenon DEF Adds, m
  <2> QED
    BY <2>3 DEF r
<1> QED
  BY <1>2, <1>3, <1>4, <1>5

\* What the merge of an entry into its major index comes to.
LEMMA EntryMerge ==
  ASSUME NEW a \in Addresses, NEW t, WholeTables(t), NEW e \in EntrySet, Valid(e.ranges)
  PROVE  LET m == Merge(t.ranges[e.major], e.ranges) IN
         /\ e.major \in Majors /\ e.ranges \in Seq(Pairs) /\ e.major \in Nat
         /\ m.rows \in Seq(Pairs) /\ Whole(m.rows)
         /\ Members(m.rows) = Members(t.ranges[e.major]) \cup Members(e.ranges)
         /\ Members(e.ranges) \ Members(t.ranges[e.major]) \subseteq Members(m.out)
         /\ IsFiniteSet(Members(m.out)) /\ IsFiniteSet(Members(m.rows))
         /\ Size(m.out) \in Nat /\ Cardinality(Members(m.out)) <= Size(m.out)
         /\ IndexRows(a, e.major, m.rows) \in SUBSET WatchRow
<1> DEFINE m == Merge(t.ranges[e.major], e.ranges)
<1>1. e.major \in Majors /\ e.ranges \in Seq(Pairs)
  BY DEF EntrySet
<1>2. e.major \in Nat
  BY <1>1, SubAssumption DEF Majors
<1>3. t.ranges[e.major] \in Seq(Pairs) /\ Whole(t.ranges[e.major])
  BY <1>1, TablesFields
<1>4. Whole(e.ranges)
  BY <1>1, ValidFacts
<1>5. /\ m.rows \in Seq(Pairs) /\ Whole(m.rows)
      /\ m.out \in Seq(Pairs) /\ Whole(m.out)
      /\ Members(m.rows) = Members(t.ranges[e.major]) \cup Members(e.ranges)
      /\ Members(e.ranges) \ Members(t.ranges[e.major]) \subseteq Members(m.out)
  BY <1>1, <1>3, <1>4, MergeFacts
<1> HIDE DEF m
<1>6. /\ IsFiniteSet(Members(m.out)) /\ IsFiniteSet(Members(m.rows))
      /\ Size(m.out) \in Nat /\ Cardinality(Members(m.out)) <= Size(m.out)
  BY <1>5, SizeFacts
<1>7. IndexRows(a, e.major, m.rows) \in SUBSET WatchRow
  <2>1. Members(m.rows) \subseteq Nat
    BY <1>5, MembersNat
  <2> QED
    BY <1>2, <2>1 DEF IndexRows, WatchRow
<1> QED
  BY <1>1, <1>2, <1>5, <1>6, <1>7 DEF m

LEMMA UpsertType ==
  ASSUME NEW a \in Addresses, NEW t, WholeTables(t), NEW e \in EntrySet
  PROVE  WholeTables(UpsertEntry(a, t, e))
<1> DEFINE r == UpsertEntry(a, t, e)
           m == Merge(t.ranges[e.major], e.ranges)
<1>1. Skips(t, r) \/ Refuses(t, e, r) \/ Overflows(t, e, r) \/ Adds(a, t, e, r)
  BY UpsertCases
<1>2. /\ t.ranges \in [Majors -> Seq(Pairs)] /\ t.indexes \in SUBSET WatchRow /\ t.out \in Seq(Majors)
      /\ t.torn \in SUBSET Majors /\ t.count \in Nat /\ t.result \in {"ok", "schema", "max"}
      /\ \A k \in Majors : Whole(t.ranges[k]) /\ t.ranges[k] \in Seq(Pairs)
  BY TablesFields
<1>3. e.major \in Majors /\ << >> \in Seq(Pairs) /\ Whole(<< >>)
  BY DEF EntrySet, Whole
<1> HIDE DEF r
<1>4. CASE Skips(t, r)
  BY <1>4 DEF Skips, r
<1>5. CASE Refuses(t, e, r)
  <2>1. WholeTables(r)
    BY <1>2, <1>5 DEF Refuses, WholeTables, Tables
  <2> QED
    BY <2>1 DEF r
<1>6. CASE Overflows(t, e, r)
  <2>1. r = [ranges |-> [t.ranges EXCEPT ![e.major] = << >>], indexes |-> t.indexes, out |-> t.out,
             torn |-> {e.major}, count |-> t.count, result |-> "max"]
    BY <1>6 DEF Overflows
  <2>2. WholeTables(r)
    BY <1>2, <1>3, <2>1 DEF WholeTables, Tables
  <2> QED
    BY <2>2 DEF r
<1>7. CASE Adds(a, t, e, r)
  <2>1. /\ Valid(e.ranges)
        /\ r = [ranges |-> [t.ranges EXCEPT ![e.major] = m.rows],
                indexes |-> t.indexes \cup IndexRows(a, e.major, m.rows),
                out |-> IF m.out = << >> THEN t.out ELSE Append(t.out, e.major),
                torn |-> t.torn, count |-> t.count + Size(m.out), result |-> "ok"]
    BY <1>7, Zenon DEF Adds
  <2>2. m.rows \in Seq(Pairs) /\ Whole(m.rows) /\ Size(m.out) \in Nat
        /\ IndexRows(a, e.major, m.rows) \in SUBSET WatchRow
    BY <2>1, EntryMerge
  <2> HIDE DEF m
  <2>3. Append(t.out, e.major) \in Seq(Majors)
    BY <1>2, <1>3, AppendProperties
  <2>4. t.count + Size(m.out) \in Nat
    BY <1>2, <2>2
  <2>5. WholeTables(r)
    <3>1. PICK o : o = IF m.out = << >> THEN t.out ELSE Append(t.out, e.major)
      OBVIOUS
    <3>2. o \in Seq(Majors)
      BY <1>2, <2>3, <3>1
    <3>3. PICK c : c = t.count + Size(m.out)
      OBVIOUS
    <3>4. PICK i : i = t.indexes \cup IndexRows(a, e.major, m.rows)
      OBVIOUS
    <3>5. c \in Nat /\ i \in SUBSET WatchRow
      BY <1>2, <2>2, <2>4, <3>3, <3>4
    <3>6. r = [ranges |-> [t.ranges EXCEPT ![e.major] = m.rows], indexes |-> i, out |-> o,
               torn |-> t.torn, count |-> c, result |-> "ok"]
      BY <2>1, <3>1, <3>3, <3>4, Zenon
    <3> QED
      BY <1>2, <1>3, <2>2, <3>2, <3>5, <3>6 DEF WholeTables, Tables
  <2> QED
    BY <2>5 DEF r
<1> QED
  BY <1>1, <1>4, <1>5, <1>6, <1>7

\* The tables after each entry.
UpsertStates(a, t, entries, f) ==
  /\ f[0] = t
  /\ \A k \in 0..Len(entries) : WholeTables(f[k])
  /\ \A k \in 1..Len(entries) : f[k] = UpsertEntry(a, f[k - 1], entries[k])

\* What do_upsert starts from.
Stored(id) ==
  [ranges |-> ranges[id], indexes |-> indexes[id], out |-> << >>, torn |-> {},
   count |-> Cardinality(indexes[id]), result |-> "ok"]

LEMMA UpsertRuns ==
  ASSUME NEW a \in Addresses, NEW id, WholeTables(Stored(id)), NEW entries \in Seq(EntrySet),
         ~ MaxSubaddresses < Cardinality(indexes[id])
  PROVE  \E f : UpsertStates(a, Stored(id), entries, f) /\ do_upsert(a, id, entries) = f[Len(entries)]
<1> DEFINE n == Len(entries)
           start == Stored(id)
           V == {t \in Tables : WholeTables(t)}
           round == [i \in Nat |-> [t \in V |-> IF i \in 1..n THEN UpsertEntry(a, t, entries[i]) ELSE t]]
           F(f) == [k \in 0..n |-> IF k = 0 THEN start ELSE UpsertEntry(a, f[k - 1], entries[k])]
           at == CHOOSE f : f = F(f)
<1>1. n \in Nat /\ \A i \in 1..n : entries[i] \in EntrySet
  BY LenProperties, ElementOfSeq
<1>2. start \in V /\ \A t : t \in V <=> WholeTables(t)
  BY DEF WholeTables
<1> HIDE DEF start
<1>3. \A i \in 1..n, t \in V : UpsertEntry(a, t, entries[i]) \in V
  <2> HIDE DEF V
  <2> QED BY <1>1, <1>2, UpsertType
<1> HIDE DEF V
<1>4. round \in [Nat -> [V -> V]]
  BY <1>3
<1>5. PICK f : Built(V, start, round, n, f)
  <2> HIDE DEF round, n
  <2> QED BY <1>1, <1>2, <1>4, Rounds, Zenon
<1>6. f = F(f)
  <2>1. f = [i \in 0..n |-> f[i]] /\ \A i \in 0..n : f[i] \in V
    BY <1>5 DEF Built
  <2>2. ASSUME NEW i \in 0..n PROVE f[i] = IF i = 0 THEN start ELSE UpsertEntry(a, f[i - 1], entries[i])
    <3>1. CASE i = 0
      BY <1>5, <3>1 DEF Built
    <3>2. CASE i # 0
      <4>1. i \in 1..n /\ i \in Nat /\ i - 1 \in 0..n
        BY <1>1, <3>2
      <4>2. f[i] = round[i][f[i - 1]] /\ f[i - 1] \in V
        <5> HIDE DEF round
        <5> QED BY <1>5, <2>1, <3>2, <4>1 DEF Built
      <4>3. \A t \in V : round[i][t] = UpsertEntry(a, t, entries[i])
        BY <4>1
      <4> HIDE DEF round
      <4> QED
        BY <3>2, <4>2, <4>3
    <3> QED
      BY <3>1, <3>2
  <2> QED
    BY <2>1, <2>2
<1>7. at = F(at)
  BY <1>6
<1>8. do_upsert(a, id, entries) = at[n]
  <2>1. ~ MaxSubaddresses < start.count
    BY DEF start, Stored
  <2> QED
    BY <2>1, Zenon DEF do_upsert, start, Stored
<1>9. at[0] = start /\ \A i \in 1..n : at[i] = UpsertEntry(a, at[i - 1], entries[i])
  <2> HIDE DEF at
  <2>1. \A i \in 0..n : at[i] = IF i = 0 THEN start ELSE UpsertEntry(a, at[i - 1], entries[i])
    BY <1>7
  <2>2. 0 \in 0..n /\ \A i \in 1..n : i \in 0..n /\ i # 0
    BY <1>1
  <2> QED
    BY <2>1, <2>2
<1> HIDE DEF at, F, round
<1>10. \A i \in 0..n : WholeTables(at[i])
  <2> DEFINE S == {i \in Nat : i <= n => at[i] \in V}
  <2>1. 0 \in S
    BY <1>2, <1>9
  <2>2. ASSUME NEW i \in S PROVE i + 1 \in S
    <3>1. i \in Nat /\ (i <= n => at[i] \in V)
      OBVIOUS
    <3>2. ASSUME i + 1 <= n PROVE at[i + 1] \in V
      <4>1. i <= n /\ i + 1 \in 1..n /\ i + 1 - 1 = i
        BY <1>1, <3>1, <3>2
      <4>2. at[i + 1] = UpsertEntry(a, at[i], entries[i + 1])
        BY <1>9, <4>1
      <4> QED
        BY <1>3, <3>1, <4>1, <4>2
    <3> QED
      BY <3>1, <3>2
  <2>3. S = Nat
    <3>1. S \in SUBSET Nat
      OBVIOUS
    <3> HIDE DEF S
    <3> QED BY <2>1, <2>2, <3>1, Reaches
  <2> QED
    BY <1>1, <1>2, <2>3
<1> QED
  BY <1>8, <1>9, <1>10, Zenon DEF UpsertStates, n, start

\* The minor indices that index rows have in a major index.
MinorsIn(rows, major) == {r[3] : r \in {s \in rows : s[2] = major}}

\* Rows of one address, as those of an account are unless a creation request
\* was accepted for another account that existed already.
OneAddress(rows) == \A r, s \in rows : r[1] = s[1]

OnePerMajor(entries) ==
  \A i, j \in 1..Len(entries) : entries[i].major = entries[j].major => i = j

\* The range rows of a major index are the minor indices of its index rows, or
\* some of them where tears holds.
RangesFit(rs, rows, tears) ==
  \A m \in Majors :
    /\ Members(rs[m]) \subseteq MinorsIn(rows, m)
    /\ tears[m] \/ Members(rs[m]) = MinorsIn(rows, m)

\* The tables of an account before do_upsert.
AccountTables(id) ==
  /\ WholeTables(Stored(id)) /\ IsFiniteSet(indexes[id])
  /\ RangesFit(ranges[id], indexes[id], [m \in Majors |-> <<id, m>> \in torn])
  /\ OneAddress(indexes[id]) => Cardinality(indexes[id]) <= MaxSubaddresses

\* The tables of an account after k entries.
UpsertInv(a, id, entries, k, t) ==
  /\ WholeTables(t)
  /\ indexes[id] \subseteq t.indexes /\ IsFiniteSet(t.indexes)
  /\ RangesFit(t.ranges, t.indexes, [m \in Majors |-> <<id, m>> \in torn \/ m \in t.torn])
  /\ t.count <= MaxSubaddresses
  /\ OneAddress(t.indexes) => Cardinality(t.indexes) <= t.count
  /\ t.result = "ok" =>
       /\ t.torn = {}
       /\ \A i \in 1..k : IndexRows(a, entries[i].major, entries[i].ranges) \subseteq t.indexes
  /\ OnePerMajor(entries) =>
       \A m \in t.torn : t.ranges[m] = << >> /\ MinorsIn(t.indexes, m) = MinorsIn(indexes[id], m)
  /\ \A m \in Majors :
       (\A i \in 1..k : entries[i].major # m) => MinorsIn(t.indexes, m) = MinorsIn(indexes[id], m)
  /\ (\A i \in 1..Len(entries) : Valid(entries[i].ranges)) => t.result # "schema"

LEMMA MinorsAdded ==
  ASSUME NEW rows, NEW a, NEW major, NEW rs, NEW m
  PROVE  MinorsIn(rows \cup IndexRows(a, major, rs), m)
           = MinorsIn(rows, m) \cup (IF m = major THEN Members(rs) ELSE {})
<1> DEFINE all == rows \cup IndexRows(a, major, rs)
<1>1. ASSUME NEW x PROVE x \in MinorsIn(all, m) <=> \E r \in all : r[2] = m /\ x = r[3]
  BY DEF MinorsIn
<1>2. ASSUME NEW x PROVE x \in MinorsIn(rows, m) <=> \E r \in rows : r[2] = m /\ x = r[3]
  BY DEF MinorsIn
<1>3. ASSUME NEW r PROVE r \in IndexRows(a, major, rs) <=> \E x \in Members(rs) : r = <<a, major, x>>
  BY DEF IndexRows
<1>4. ASSUME NEW x PROVE (\E r \in IndexRows(a, major, rs) : r[2] = m /\ x = r[3]) <=> m = major /\ x \in Members(rs)
  <2>1. ASSUME NEW r \in IndexRows(a, major, rs), r[2] = m, x = r[3] PROVE m = major /\ x \in Members(rs)
    <3>1. PICK y \in Members(rs) : r = <<a, major, y>>
      BY <1>3, <2>1
    <3> QED
      BY <2>1, <3>1
  <2>2. ASSUME m = major, x \in Members(rs) PROVE \E r \in IndexRows(a, major, rs) : r[2] = m /\ x = r[3]
    <3>1. <<a, major, x>> \in IndexRows(a, major, rs)
      BY <1>3, <2>2
    <3> QED
      BY <2>2, <3>1
  <2> QED
    BY <2>1, <2>2
<1>5. ASSUME NEW x
      PROVE  (\E r \in all : r[2] = m /\ x = r[3])
               <=> \/ \E r \in rows : r[2] = m /\ x = r[3]
                   \/ \E r \in IndexRows(a, major, rs) : r[2] = m /\ x = r[3]
  OBVIOUS
<1> HIDE DEF all
<1>6. ASSUME NEW x PROVE x \in MinorsIn(all, m) <=> x \in MinorsIn(rows, m) \/ (m = major /\ x \in Members(rs))
  BY <1>1, <1>2, <1>4, <1>5, Zenon
<1> QED
  BY <1>6 DEF all

\* Rows that are added for an address that all rows are of: no more than reported.
LEMMA RowsAdded ==
  ASSUME NEW rows, IsFiniteSet(rows), rows \in SUBSET WatchRow, NEW a, NEW major, NEW M, NEW O, IsFiniteSet(O), NEW N,
         N \subseteq MinorsIn(rows, major), M \ N \subseteq O,
         OneAddress(rows \cup {<<a, major, x>> : x \in M})
  PROVE  Cardinality(rows \cup {<<a, major, x>> : x \in M}) <= Cardinality(rows) + Cardinality(O)
<1> DEFINE b == [x \in O |-> <<a, major, x>>]
           new == {b[x] : x \in O}
           all == rows \cup {<<a, major, x>> : x \in M}
<1>1. IsFiniteSet(new) /\ Cardinality(new) <= Cardinality(O)
  <2>1. b \in Surjection(O, new)
    BY DEF Surjection
  <2> HIDE DEF b, new
  <2> QED
    BY <2>1, FS_Surjection
<1>2. all \subseteq rows \cup new
  <2>1. SUFFICES ASSUME NEW x \in M PROVE <<a, major, x>> \in rows \cup new
    OBVIOUS
  <2>2. CASE x \in N
    <3>1. x \in MinorsIn(rows, major)
      BY <2>2
    <3>2. PICK r \in rows : r[2] = major /\ x = r[3]
      BY <3>1 DEF MinorsIn
    <3>3. <<a, major, x>> \in all /\ r \in all
      OBVIOUS
    <3>4. r[1] = <<a, major, x>>[1]
      BY <3>3 DEF OneAddress
    <3>5. r \in WatchRow
      BY <3>2
    <3>6. r = <<a, major, x>>
      BY <3>2, <3>4, <3>5 DEF WatchRow
    <3> QED
      BY <3>6
  <2>3. CASE x \notin N
    <3>1. x \in O
      BY <2>3
    <3> QED
      BY <3>1
  <2> QED
    BY <2>2, <2>3
<1> HIDE DEF all, new, b
<1>3. /\ IsFiniteSet(rows \cup new)
      /\ Cardinality(rows \cup new) = Cardinality(rows) + Cardinality(new) - Cardinality(rows \cap new)
  BY <1>1, FS_Union
<1>4. IsFiniteSet(all) /\ Cardinality(all) <= Cardinality(rows \cup new)
  BY <1>2, <1>3, FS_Subset
<1>5. /\ Cardinality(rows \cap new) \in Nat /\ Cardinality(rows) \in Nat /\ Cardinality(new) \in Nat
      /\ Cardinality(O) \in Nat /\ Cardinality(all) \in Nat
  <2>1. IsFiniteSet(rows \cap new)
    BY <1>1, FS_Intersection
  <2> QED
    BY <1>1, <1>4, <2>1, FS_CardinalityType
<1>6. Cardinality(all) <= Cardinality(rows) + Cardinality(O)
  <2>1. PICK c : c = Cardinality(rows)
    OBVIOUS
  <2>2. PICK d : d = Cardinality(new)
    OBVIOUS
  <2>3. PICK e : e = Cardinality(rows \cap new)
    OBVIOUS
  <2>4. PICK f : f = Cardinality(O)
    OBVIOUS
  <2>5. PICK g : g = Cardinality(all)
    OBVIOUS
  <2>6. /\ c \in Nat /\ d \in Nat /\ e \in Nat /\ f \in Nat /\ g \in Nat
        /\ g <= c + d - e /\ d <= f
    BY <1>1, <1>3, <1>4, <1>5, <2>1, <2>2, <2>3, <2>4, <2>5
  <2>7. g <= c + f
    BY <2>6
  <2> QED
    BY <2>1, <2>4, <2>5, <2>7
<1> QED
  BY <1>6 DEF all

LEMMA UpsertStep ==
  ASSUME NEW a \in Addresses, NEW id, NEW entries \in Seq(EntrySet), NEW k \in Nat, k + 1 <= Len(entries),
         NEW t, UpsertInv(a, id, entries, k, t)
  PROVE  UpsertInv(a, id, entries, k + 1, UpsertEntry(a, t, entries[k + 1]))
<1> DEFINE e == entries[k + 1]
           mj == e.major
           r == UpsertEntry(a, t, e)
           I == indexes[id]
           tears(u) == [m \in Majors |-> <<id, m>> \in torn \/ m \in u.torn]
           all == \A i \in 1..Len(entries) : Valid(entries[i].ranges)
<1>1. /\ WholeTables(t)
      /\ I \subseteq t.indexes /\ IsFiniteSet(t.indexes)
      /\ RangesFit(t.ranges, t.indexes, tears(t))
      /\ t.count <= MaxSubaddresses
      /\ OneAddress(t.indexes) => Cardinality(t.indexes) <= t.count
      /\ t.result = "ok" => t.torn = {}
      /\ t.result = "ok" => \A i \in 1..k : IndexRows(a, entries[i].major, entries[i].ranges) \subseteq t.indexes
      /\ OnePerMajor(entries) => \A m \in t.torn : t.ranges[m] = << >> /\ MinorsIn(t.indexes, m) = MinorsIn(I, m)
      /\ \A m \in Majors : (\A i \in 1..k : entries[i].major # m) => MinorsIn(t.indexes, m) = MinorsIn(I, m)
      /\ all => t.result # "schema"
  BY Zenon DEF UpsertInv
<1>2. /\ Len(entries) \in Nat /\ k + 1 \in 1..Len(entries) /\ e \in EntrySet
      /\ mj \in Majors /\ \A i \in 1..k : i \in 1..Len(entries) /\ i \in 1..k + 1 /\ i # k + 1
      /\ k + 1 \in 1..k + 1 /\ \A i \in 1..k + 1 : i \in 1..k \/ i = k + 1
  <2>1. Len(entries) \in Nat /\ k + 1 \in 1..Len(entries)
    BY LenProperties
  <2>2. e \in EntrySet
    BY <2>1, ElementOfSeq
  <2>3. mj \in Majors
    BY <2>2 DEF EntrySet
  <2> HIDE DEF e, mj
  <2> QED
    BY <2>1, <2>2, <2>3
<1>3. Skips(t, r) \/ Refuses(t, e, r) \/ Overflows(t, e, r) \/ Adds(a, t, e, r)
  BY <1>1, <1>2, UpsertCases
<1>4. WholeTables(r)
  BY <1>1, <1>2, UpsertType
<1>5. /\ t.ranges \in [Majors -> Seq(Pairs)] /\ t.indexes \in SUBSET WatchRow
      /\ t.torn \in SUBSET Majors /\ t.count \in Nat
  BY <1>1, TablesFields
\* The rows of no entry so far are the rows at the beginning.
<1>6. \A m \in Majors : (\A i \in 1..k + 1 : entries[i].major # m) =>
                           m # mj /\ MinorsIn(t.indexes, m) = MinorsIn(I, m)
  BY <1>1, <1>2
<1> HIDE DEF r, mj, e
<1>7. CASE r.indexes = t.indexes /\ r.count = t.count /\ r.ranges = t.ranges /\ r.torn = t.torn /\ r.result # "ok"
           /\ (r.result = "schema" => t.result = "schema" \/ ~ all)
  <2>1. RangesFit(r.ranges, r.indexes, tears(r))
    BY <1>1, <1>7
  <2>2. \A m \in Majors : (\A i \in 1..k + 1 : entries[i].major # m) => MinorsIn(r.indexes, m) = MinorsIn(I, m)
    BY <1>6, <1>7
  <2>3. all => r.result # "schema"
    BY <1>1, <1>7
  <2> HIDE DEF tears, all
  <2>4. /\ I \subseteq r.indexes /\ IsFiniteSet(r.indexes) /\ r.count <= MaxSubaddresses
        /\ OneAddress(r.indexes) => Cardinality(r.indexes) <= r.count
        /\ OnePerMajor(entries) => \A m \in r.torn : r.ranges[m] = << >> /\ MinorsIn(r.indexes, m) = MinorsIn(I, m)
    BY <1>1, <1>7
  <2> QED
    BY <1>4, <1>7, <2>1, <2>2, <2>3, <2>4, Zenon DEF UpsertInv, tears, all, r, e
<1>8. CASE Skips(t, r)
  BY <1>7, <1>8 DEF Skips
<1>9. CASE Refuses(t, e, r)
  <2>1. ~ all
    BY <1>2, <1>9 DEF Refuses, e
  <2>2. /\ r.indexes = t.indexes /\ r.count = t.count /\ r.ranges = t.ranges /\ r.torn = t.torn /\ r.result = "schema"
    BY <1>9 DEF Refuses
  <2> QED
    BY <1>7, <2>1, <2>2
<1>10. CASE Overflows(t, e, r)
  <2>1. /\ t.result = "ok" /\ r.ranges = [t.ranges EXCEPT ![mj] = << >>] /\ r.indexes = t.indexes
        /\ r.torn = {mj} /\ r.count = t.count /\ r.result = "max"
    BY <1>10 DEF Overflows, mj
  <2>2. t.torn = {}
    BY <1>1, <2>1
  <2>3. \A m \in Majors : r.ranges[m] = IF m = mj THEN << >> ELSE t.ranges[m]
    BY <1>5, <2>1
  <2>4. RangesFit(r.ranges, r.indexes, tears(r))
    <3>1. SUFFICES ASSUME NEW m \in Majors
                   PROVE  /\ Members(r.ranges[m]) \subseteq MinorsIn(t.indexes, m)
                          /\ (<<id, m>> \in torn \/ m \in r.torn) \/ Members(r.ranges[m]) = MinorsIn(t.indexes, m)
      BY <2>1 DEF RangesFit
    <3>2. CASE m = mj
      BY <1>2, <2>1, <2>3, <3>2, MembersOfNone
    <3>3. CASE m # mj
      <4>1. r.ranges[m] = t.ranges[m] /\ m \notin t.torn
        BY <2>2, <2>3, <3>3
      <4>2. /\ Members(t.ranges[m]) \subseteq MinorsIn(t.indexes, m)
            /\ (<<id, m>> \in torn \/ m \in t.torn) \/ Members(t.ranges[m]) = MinorsIn(t.indexes, m)
        BY <1>1 DEF RangesFit
      <4> QED
        BY <4>1, <4>2
    <3> QED
      BY <3>2, <3>3
  <2>5. OnePerMajor(entries) => \A m \in r.torn : r.ranges[m] = << >> /\ MinorsIn(r.indexes, m) = MinorsIn(I, m)
    <3>1. ASSUME OnePerMajor(entries) PROVE r.ranges[mj] = << >> /\ MinorsIn(r.indexes, mj) = MinorsIn(I, mj)
      <4>1. \A i \in 1..k : entries[i].major # mj
        BY <1>2, <3>1 DEF OnePerMajor, mj, e
      <4> QED
        BY <1>1, <1>2, <2>1, <2>3, <4>1
    <3> QED
      BY <2>1, <3>1
  <2>6. \A m \in Majors : (\A i \in 1..k + 1 : entries[i].major # m) => MinorsIn(r.indexes, m) = MinorsIn(I, m)
    BY <1>6, <2>1
  <2>7. /\ I \subseteq r.indexes /\ IsFiniteSet(r.indexes) /\ r.count <= MaxSubaddresses
        /\ OneAddress(r.indexes) => Cardinality(r.indexes) <= r.count
        /\ r.result # "ok" /\ r.result # "schema"
    BY <1>1, <2>1
  <2> HIDE DEF tears
  <2> QED
    BY <1>4, <2>4, <2>5, <2>6, <2>7, Zenon DEF UpsertInv, tears, r, e
<1>11. CASE Adds(a, t, e, r)
  <2> DEFINE m0 == Merge(t.ranges[mj], e.ranges)
             rows == m0.rows
             new == IndexRows(a, mj, rows)
  <2>1. /\ t.result = "ok" /\ Valid(e.ranges) /\ Room(t.count, m0.out)
        /\ r.ranges = [t.ranges EXCEPT ![mj] = rows]
        /\ r.indexes = t.indexes \cup new /\ r.torn = t.torn
        /\ r.count = t.count + Size(m0.out) /\ r.result = "ok"
    BY <1>11 DEF Adds, mj
  <2>2. /\ e.ranges \in Seq(Pairs) /\ mj \in Nat
        /\ rows \in Seq(Pairs) /\ Whole(rows)
        /\ Members(rows) = Members(t.ranges[mj]) \cup Members(e.ranges)
        /\ Members(e.ranges) \ Members(t.ranges[mj]) \subseteq Members(m0.out)
        /\ IsFiniteSet(Members(m0.out)) /\ IsFiniteSet(Members(rows))
        /\ Size(m0.out) \in Nat /\ Cardinality(Members(m0.out)) <= Size(m0.out)
    BY <1>1, <1>2, <2>1, EntryMerge DEF mj
  <2>3. t.torn = {}
    BY <1>1, <2>1
  <2>4. \A m \in Majors : r.ranges[m] = IF m = mj THEN rows ELSE t.ranges[m]
    BY <1>5, <2>1
  <2>5. \A m \in Majors : MinorsIn(r.indexes, m) = MinorsIn(t.indexes, m) \cup (IF m = mj THEN Members(rows) ELSE {})
    BY <2>1, MinorsAdded, SMTT(30)
  <2>6. \A m \in Majors : /\ Members(t.ranges[m]) \subseteq MinorsIn(t.indexes, m)
                          /\ <<id, m>> \in torn \/ Members(t.ranges[m]) = MinorsIn(t.indexes, m)
    BY <1>1, <2>3 DEF RangesFit
  <2> HIDE DEF m0, rows
  <2>7. RangesFit(r.ranges, r.indexes, tears(r))
    <3>1. SUFFICES ASSUME NEW m \in Majors
                   PROVE  /\ Members(r.ranges[m]) \subseteq MinorsIn(r.indexes, m)
                          /\ <<id, m>> \in torn \/ Members(r.ranges[m]) = MinorsIn(r.indexes, m)
      BY <2>1 DEF RangesFit
    <3>2. CASE m = mj
      BY <1>2, <2>2, <2>4, <2>5, <2>6, <3>2
    <3>3. CASE m # mj
      BY <2>4, <2>5, <2>6, <3>3
    <3> QED
      BY <3>2, <3>3
  <2>8. IsFiniteSet(new) /\ new = {<<a, mj, x>> : x \in Members(rows)}
    <3>1. new = {<<a, mj, x>> : x \in Members(rows)}
      BY DEF IndexRows
    <3> DEFINE b == [x \in Members(rows) |-> <<a, mj, x>>]
    <3>2. IsFiniteSet({b[x] : x \in Members(rows)})
      <4> HIDE DEF b
      <4> QED BY <2>2, FiniteImage
    <3>3. {b[x] : x \in Members(rows)} = {<<a, mj, x>> : x \in Members(rows)}
      OBVIOUS
    <3> QED
      BY <3>1, <3>2, <3>3
  <2> HIDE DEF new
  <2>9. IsFiniteSet(r.indexes)
    <3>1. IsFiniteSet(t.indexes \cup new)
      BY <1>1, <2>8, FS_Union
    <3> QED
      BY <2>1, <3>1
  <2>10. r.count <= MaxSubaddresses
    BY <2>1 DEF Room
  <2>11. ASSUME OneAddress(r.indexes) PROVE Cardinality(r.indexes) <= r.count
    <3>1. OneAddress(t.indexes)
      BY <2>1, <2>11 DEF OneAddress
    <3>2. Members(t.ranges[mj]) \subseteq MinorsIn(t.indexes, mj)
      BY <1>2, <2>6
    <3>3. Members(rows) \ Members(t.ranges[mj]) \subseteq Members(m0.out)
      BY <2>2
    <3>4. OneAddress(t.indexes \cup {<<a, mj, x>> : x \in Members(rows)})
      BY <2>1, <2>8, <2>11
    <3>5. Cardinality(t.indexes \cup {<<a, mj, x>> : x \in Members(rows)})
            <= Cardinality(t.indexes) + Cardinality(Members(m0.out))
      <4>1. PICK M : M = Members(rows)
        OBVIOUS
      <4>2. PICK N : N = Members(t.ranges[mj])
        OBVIOUS
      <4>3. PICK O : O = Members(m0.out)
        OBVIOUS
      <4>4. PICK R : R = t.indexes
        OBVIOUS
      <4>5. /\ IsFiniteSet(R) /\ R \in SUBSET WatchRow /\ IsFiniteSet(O)
            /\ N \subseteq MinorsIn(R, mj) /\ M \ N \subseteq O
            /\ OneAddress(R \cup {<<a, mj, x>> : x \in M})
        BY <1>1, <1>5, <2>2, <3>2, <3>3, <3>4, <4>1, <4>2, <4>3, <4>4
      <4>6. Cardinality(R \cup {<<a, mj, x>> : x \in M}) <= Cardinality(R) + Cardinality(O)
        BY <4>5, RowsAdded, Zenon
      <4> QED
        BY <4>1, <4>3, <4>4, <4>6
    <3>6. Cardinality(t.indexes) \in Nat /\ Cardinality(Members(m0.out)) \in Nat /\ Cardinality(r.indexes) \in Nat
      BY <1>1, <2>2, <2>9, FS_CardinalityType
    <3>7. Cardinality(t.indexes) <= t.count
      BY <1>1, <3>1
    <3>8. PICK c : c = Cardinality(t.indexes)
      OBVIOUS
    <3>9. PICK d : d = Cardinality(Members(m0.out))
      OBVIOUS
    <3>10. PICK s : s = Size(m0.out)
      OBVIOUS
    <3>11. PICK v : v = Cardinality(r.indexes)
      OBVIOUS
    <3>12. v <= c + d
      BY <2>1, <2>8, <3>5, <3>8, <3>9, <3>11
    <3>13. /\ c \in Nat /\ d \in Nat /\ s \in Nat /\ v \in Nat /\ d <= s /\ c <= t.count
      BY <2>2, <3>6, <3>7, <3>8, <3>9, <3>10, <3>11
    <3>14. v <= t.count + s
      BY <1>5, <3>12, <3>13
    <3> QED
      BY <2>1, <3>10, <3>11, <3>14
  <2>12. \A i \in 1..k + 1 : IndexRows(a, entries[i].major, entries[i].ranges) \subseteq r.indexes
    <3>1. \A i \in 1..k : IndexRows(a, entries[i].major, entries[i].ranges) \subseteq r.indexes
      BY <1>1, <2>1
    <3>2. IndexRows(a, mj, e.ranges) \subseteq new
      BY <2>2 DEF IndexRows, new
    <3>3. IndexRows(a, mj, e.ranges) \subseteq r.indexes
      BY <2>1, <3>2
    <3> QED
      BY <1>2, <3>1, <3>3 DEF mj, e
  <2>13. \A m \in Majors : (\A i \in 1..k + 1 : entries[i].major # m) => MinorsIn(r.indexes, m) = MinorsIn(I, m)
    BY <1>6, <2>5
  <2>14. I \subseteq r.indexes
    BY <1>1, <2>1
  <2>15. r.torn = {} /\ r.result = "ok"
    BY <2>1, <2>3
  <2>16. OnePerMajor(entries) => \A m \in r.torn : r.ranges[m] = << >> /\ MinorsIn(r.indexes, m) = MinorsIn(I, m)
    BY <2>15
  <2>17. r.result # "schema"
    BY <2>15
  <2> HIDE DEF tears
  <2> QED
    BY <1>4, <2>7, <2>9, <2>10, <2>11, <2>12, <2>13, <2>14, <2>15, <2>16, <2>17, Zenon DEF UpsertInv, tears, r, e
<1> QED
  BY <1>3, <1>8, <1>9, <1>10, <1>11 DEF r, e

-----------------------------------------------------------------------------
(* What do_upsert and do_lookahead leave in the tables.                    *)

\* The tables t may be stored for the account: they are right but for the major
\* indices that Write will say are torn.
Leaves(id, t) ==
  /\ t.ranges \in [Majors -> Seq(Pairs)] /\ \A m \in Majors : Whole(t.ranges[m])
  /\ t.indexes \in SUBSET WatchRow /\ IsFiniteSet(t.indexes)
  /\ indexes[id] \subseteq t.indexes
  /\ OneAddress(t.indexes) => Cardinality(t.indexes) <= MaxSubaddresses
  /\ RangesFit(t.ranges, t.indexes,
               [m \in Majors |-> <<id, m>> \in torn \/ (m \in t.torn /\ ranges[id][m] # << >>)])

\* The ranges of all entries are watched.
Watches(a, entries, t) ==
  \A i \in 1..Len(entries) : IndexRows(a, entries[i].major, entries[i].ranges) \subseteq t.indexes

LEMMA UpsertInvLeaves ==
  ASSUME NEW a, NEW id, NEW entries, NEW k \in Nat, NEW t, UpsertInv(a, id, entries, k, t),
         t.result = "ok" \/ OnePerMajor(entries), AccountTables(id)
  PROVE  Leaves(id, t)
<1> DEFINE I == indexes[id]
           some == [m \in Majors |-> <<id, m>> \in torn \/ m \in t.torn]
           less == [m \in Majors |-> <<id, m>> \in torn \/ (m \in t.torn /\ ranges[id][m] # << >>)]
<1>1. /\ WholeTables(t)
      /\ I \subseteq t.indexes /\ IsFiniteSet(t.indexes)
      /\ RangesFit(t.ranges, t.indexes, some)
      /\ t.count <= MaxSubaddresses
      /\ OneAddress(t.indexes) => Cardinality(t.indexes) <= t.count
      /\ t.result = "ok" => t.torn = {}
      /\ OnePerMajor(entries) => \A m \in t.torn : t.ranges[m] = << >> /\ MinorsIn(t.indexes, m) = MinorsIn(I, m)
  BY Zenon DEF UpsertInv
<1>2. /\ t.ranges \in [Majors -> Seq(Pairs)] /\ t.indexes \in SUBSET WatchRow
      /\ t.count \in Nat /\ \A k_1 \in Majors : Whole(t.ranges[k_1])
  BY <1>1, TablesFields
<1>3. RangesFit(ranges[id], I, [m \in Majors |-> <<id, m>> \in torn])
  BY DEF AccountTables
<1>4. RangesFit(t.ranges, t.indexes, less)
  <2>1. SUFFICES ASSUME NEW m \in Majors
                 PROVE  /\ Members(t.ranges[m]) \subseteq MinorsIn(t.indexes, m)
                        /\ less[m] \/ Members(t.ranges[m]) = MinorsIn(t.indexes, m)
    BY DEF RangesFit
  <2>2. /\ Members(t.ranges[m]) \subseteq MinorsIn(t.indexes, m)
        /\ some[m] \/ Members(t.ranges[m]) = MinorsIn(t.indexes, m)
    BY <1>1 DEF RangesFit
  <2>3. CASE m \notin t.torn
    BY <2>2, <2>3
  <2>4. CASE m \in t.torn /\ ranges[id][m] # << >>
    BY <2>2, <2>4
  <2>5. CASE m \in t.torn /\ ranges[id][m] = << >>
    <3>1. t.ranges[m] = << >> /\ MinorsIn(t.indexes, m) = MinorsIn(I, m)
      BY <1>1, <2>5
    <3>2. <<id, m>> \in torn \/ Members(ranges[id][m]) = MinorsIn(I, m)
      BY <1>3 DEF RangesFit
    <3> QED
      BY <2>2, <2>5, <3>1, <3>2
  <2> QED
    BY <2>3, <2>4, <2>5
<1>5. OneAddress(t.indexes) => Cardinality(t.indexes) <= MaxSubaddresses
  <2>1. SUFFICES ASSUME OneAddress(t.indexes) PROVE Cardinality(t.indexes) <= MaxSubaddresses
    OBVIOUS
  <2>2. PICK c : c = Cardinality(t.indexes)
    OBVIOUS
  <2>3. c \in Nat /\ c <= t.count
    BY <1>1, <2>1, <2>2, FS_CardinalityType
  <2>4. MaxSubaddresses \in Nat
    BY SubAssumption
  <2>5. c <= MaxSubaddresses
    BY <1>1, <1>2, <2>3, <2>4
  <2> QED
    BY <2>2, <2>5
<1> HIDE DEF less
<1> QED
  BY <1>1, <1>2, <1>4, <1>5 DEF Leaves, less

LEMMA UpsertGives ==
  ASSUME NEW a \in Addresses, NEW id, AccountTables(id), NEW entries \in Seq(EntrySet)
  PROVE  LET t == do_upsert(a, id, entries) IN
         /\ t.result = "ok" \/ OnePerMajor(entries) => Leaves(id, t)
         /\ t.result = "ok" => Watches(a, entries, t)
         /\ (\A i \in 1..Len(entries) : Valid(entries[i].ranges)) => t.result \in {"ok", "max"}
<1> DEFINE t == do_upsert(a, id, entries)
           I == indexes[id]
<1>1. /\ WholeTables(Stored(id)) /\ IsFiniteSet(I)
      /\ RangesFit(ranges[id], I, [m \in Majors |-> <<id, m>> \in torn])
      /\ OneAddress(I) => Cardinality(I) <= MaxSubaddresses
  BY DEF AccountTables
<1>2. /\ ranges[id] \in [Majors -> Seq(Pairs)] /\ I \in SUBSET WatchRow
      /\ \A m \in Majors : Whole(ranges[id][m])
  <2> DEFINE s == Stored(id)
  <2>1. s.ranges = ranges[id] /\ s.indexes = I
    BY DEF Stored
  <2> HIDE DEF s
  <2>2. WholeTables(s)
    BY <1>1 DEF s
  <2> QED
    BY <2>1, <2>2, TablesFields
<1>3. Cardinality(I) \in Nat /\ MaxSubaddresses \in Nat
  BY <1>1, FS_CardinalityType, SubAssumption
<1>4. CASE MaxSubaddresses < Cardinality(I)
  <2>1. /\ t.ranges = ranges[id] /\ t.indexes = I /\ t.torn = {} /\ t.result = "max"
    BY <1>4 DEF do_upsert
  <2>2. ~ OneAddress(I)
    BY <1>1, <1>3, <1>4
  <2>3. RangesFit(t.ranges, t.indexes, [m \in Majors |-> <<id, m>> \in torn \/ (m \in t.torn /\ ranges[id][m] # << >>)])
    BY <1>1, <2>1 DEF RangesFit
  <2> HIDE DEF t
  <2>4. Leaves(id, t)
    BY <1>1, <1>2, <2>1, <2>2, <2>3 DEF Leaves
  <2> QED
    BY <2>1, <2>4 DEF t
<1>5. CASE ~ MaxSubaddresses < Cardinality(I)
  <2>1. PICK f : UpsertStates(a, Stored(id), entries, f) /\ t = f[Len(entries)]
    BY <1>1, <1>5, UpsertRuns
  <2>2. /\ f[0] = Stored(id)
        /\ \A k \in 0..Len(entries) : WholeTables(f[k])
        /\ \A k \in 1..Len(entries) : f[k] = UpsertEntry(a, f[k - 1], entries[k])
    BY <2>1 DEF UpsertStates
  <2>3. Len(entries) \in Nat
    BY LenProperties
  <2> DEFINE S == {k \in Nat : k <= Len(entries) => UpsertInv(a, id, entries, k, f[k])}
  <2>4. 0 \in S
    <3> DEFINE s == Stored(id)
    <3>1. /\ s.ranges = ranges[id] /\ s.indexes = I /\ s.torn = {} /\ s.count = Cardinality(I) /\ s.result = "ok"
      BY DEF Stored
    <3>2. WholeTables(s)
      BY <1>1
    <3> HIDE DEF s
    <3>3. RangesFit(s.ranges, s.indexes, [m \in Majors |-> <<id, m>> \in torn \/ m \in s.torn])
      BY <1>1, <3>1 DEF RangesFit
    <3>4. s.count <= MaxSubaddresses /\ (OneAddress(s.indexes) => Cardinality(s.indexes) <= s.count)
      BY <1>3, <1>5, <3>1
    <3>5. \A i \in 1..0 : IndexRows(a, entries[i].major, entries[i].ranges) \subseteq s.indexes
      OBVIOUS
    <3>6. UpsertInv(a, id, entries, 0, s)
      BY <1>1, <3>1, <3>2, <3>3, <3>4, <3>5 DEF UpsertInv
    <3> QED
      BY <2>2, <3>6 DEF s
  <2>5. ASSUME NEW k \in S PROVE k + 1 \in S
    <3>1. k \in Nat /\ (k <= Len(entries) => UpsertInv(a, id, entries, k, f[k]))
      OBVIOUS
    <3>2. ASSUME k + 1 <= Len(entries) PROVE UpsertInv(a, id, entries, k + 1, f[k + 1])
      <4>1. k <= Len(entries) /\ k + 1 \in 1..Len(entries) /\ k + 1 - 1 = k
        BY <2>3, <3>1, <3>2
      <4>2. f[k + 1] = UpsertEntry(a, f[k], entries[k + 1])
        BY <2>2, <4>1
      <4>3. UpsertInv(a, id, entries, k, f[k])
        BY <3>1, <4>1
      <4>4. UpsertInv(a, id, entries, k + 1, UpsertEntry(a, f[k], entries[k + 1]))
        BY <3>1, <3>2, <4>3, UpsertStep
      <4> QED
        BY <4>2, <4>4
    <3> QED
      BY <3>1, <3>2
  <2>6. S = Nat
    <3>1. S \in SUBSET Nat
      OBVIOUS
    <3> HIDE DEF S
    <3> QED BY <2>4, <2>5, <3>1, Reaches
  <2>7. UpsertInv(a, id, entries, Len(entries), t)
    BY <2>1, <2>3, <2>6
  <2> HIDE DEF t
  <2>8. t.result = "ok" \/ OnePerMajor(entries) => Leaves(id, t)
    BY <2>3, <2>7, UpsertInvLeaves
  <2>9. t.result = "ok" => Watches(a, entries, t)
    BY <2>7 DEF UpsertInv, Watches
  <2>10. (\A i \in 1..Len(entries) : Valid(entries[i].ranges)) => t.result # "schema"
    BY <2>7 DEF UpsertInv
  <2>11. t.result \in {"ok", "schema", "max"}
    BY <2>1, <2>2, <2>3, TablesFields
  <2> QED
    BY <2>8, <2>9, <2>10, <2>11 DEF t
<1> QED
  BY <1>4, <1>5

\* A finite set of numbers has a greatest one.
LEMMA GreatestOf ==
  ASSUME NEW S \in SUBSET Nat, IsFiniteSet(S), S # {}
  PROVE  Max(S) \in S /\ \A x \in S : x <= Max(S)
<1> DEFINE P == {T \in SUBSET S : T = {} \/ \E m \in T : \A x \in T : x <= m}
<1>1. {} \in P
  OBVIOUS
<1>2. ASSUME NEW T \in P, NEW x \in S, x \notin T PROVE T \cup {x} \in P
  <2>1. T \in SUBSET S /\ x \in Nat /\ (T = {} \/ \E m \in T : \A y \in T : y <= m)
    OBVIOUS
  <2>2. CASE T = {}
    <3>1. x \in T \cup {x} /\ \A y \in T \cup {x} : y <= x
      BY <2>1, <2>2
    <3> QED
      BY <2>1, <3>1
  <2>3. CASE T # {}
    <3>1. PICK m \in T : \A y \in T : y <= m
      BY <2>1, <2>3
    <3>2. m \in Nat
      BY <2>1
    <3>3. \E k \in T \cup {x} : \A y \in T \cup {x} : y <= k
      <4>1. CASE m <= x
        <5>1. \A y \in T : y \in Nat /\ y <= x
          BY <2>1, <3>1, <3>2, <4>1
        <5> QED
          BY <2>1, <5>1
      <4>2. CASE x <= m
        BY <3>1, <4>2
      <4> QED
        BY <2>1, <3>2, <4>1, <4>2
    <3> QED
      BY <2>1, <3>3
  <2> QED
    BY <2>2, <2>3
<1>3. S \in P
  <2>1. P \in SUBSET (SUBSET S)
    OBVIOUS
  <2> HIDE DEF P
  <2> QED BY <1>1, <1>2, <2>1, FiniteGrowth
<1>4. \E m \in S : \A x \in S : m >= x
  <2>1. PICK m \in S : \A x \in S : x <= m
    BY <1>3
  <2>2. \A x \in S : x \in Nat /\ m \in Nat
    OBVIOUS
  <2> QED
    BY <2>1, <2>2
<1>5. Max(S) \in S /\ \A x \in S : Max(S) >= x
  BY <1>4 DEF Max
<1>6. \A x \in S : x \in Nat
  OBVIOUS
<1> QED
  BY <1>5, <1>6

\* The greater of two numbers.
LEMMA GreaterOf ==
  ASSUME NEW x \in Nat, NEW y \in Nat
  PROVE  Max({x, y}) = IF x <= y THEN y ELSE x
<1>1. {x, y} \in SUBSET Nat /\ IsFiniteSet({x, y}) /\ {x, y} # {}
  <2>1. IsFiniteSet({x} \cup {y})
    BY FS_Singleton, FS_AddElement
  <2>2. {x} \cup {y} = {x, y}
    OBVIOUS
  <2> QED
    BY <2>1, <2>2
<1>2. PICK m : m = Max({x, y})
  OBVIOUS
<1>3. m \in {x, y} /\ x <= m /\ y <= m
  BY <1>1, <1>2, GreatestOf
<1> QED
  BY <1>2, <1>3

Looks == Lookaheads \cup {NoLookahead}
Output == [height : Nat, to : Payments \ {Nothing}, clean : BOOLEAN]

\* A subaddress that the chain pays, and how far the lookaheads reach from it.
Subaddress(p) == p \in Nat \X Nat /\ \A l \in Lookaheads : p[1] + l[1] <= MajorTop + 1

LEMMA PaidTo ==
  ASSUME NEW p \in Payments, p # Main, p # Nothing
  PROVE  Subaddress(p)
BY SubAssumption DEF Subaddress

LEMMA SubsFacts ==
  ASSUME NEW outs \in SUBSET Output, IsFiniteSet(outs)
  PROVE  /\ Subs(outs) \in SUBSET Output /\ IsFiniteSet(Subs(outs))
         /\ \A o \in Subs(outs) : Subaddress(o.to) /\ o.to[1] \in Nat /\ o.to[2] \in Nat
<1>1. Subs(outs) \in SUBSET outs
  BY DEF Subs
<1>2. IsFiniteSet(Subs(outs))
  BY <1>1, FS_Subset
<1>3. ASSUME NEW o \in Subs(outs) PROVE Subaddress(o.to) /\ o.to[1] \in Nat /\ o.to[2] \in Nat
  <2>1. o.to \in Payments /\ o.to # Main /\ o.to # Nothing
    BY DEF Subs, Output
  <2>2. Subaddress(o.to)
    BY <2>1, PaidTo
  <2> QED
    BY <2>2 DEF Subaddress
<1> QED
  BY <1>1, <1>2, <1>3

\* Entries of one range from 0 for each of the first n major indices.
LEMMA WindowEntries ==
  ASSUME NEW n \in Nat, n <= MajorTop + 1, NEW h \in [1..n -> Nat]
  PROVE  LET es == [i \in 1..n |-> Entry(i - 1, 0, h[i])] IN
         /\ es \in Seq(EntrySet) /\ OnePerMajor(es)
         /\ \A i \in 1..Len(es) : Valid(es[i].ranges)
         /\ \A a, t : Watches(a, es, t) =>
              \A i \in 1..n : \A minor \in 0..h[i] : <<a, i - 1, minor>> \in t.indexes
<1> DEFINE es == [i \in 1..n |-> Entry(i - 1, 0, h[i])]
<1>1. ASSUME NEW i \in 1..n
      PROVE  /\ es[i] = [major |-> i - 1, ranges |-> <<<<0, h[i]>>>>]
             /\ es[i].major = i - 1 /\ es[i].ranges = <<<<0, h[i]>>>>
             /\ i - 1 \in Majors /\ <<0, h[i]>> \in Pairs
  <2>1. i - 1 \in 0..MajorTop /\ h[i] \in Nat
    BY SubAssumption
  <2> QED
    BY <2>1 DEF Entry, Majors, Pairs
<1>2. Len(es) = n /\ DOMAIN es = 1..n
  OBVIOUS
<1>3. \A i \in 1..n : <<<<0, h[i]>>>> \in Seq(Pairs) /\ Members(<<<<0, h[i]>>>>) = 0..h[i] /\ Valid(<<<<0, h[i]>>>>)
  <2> TAKE i \in 1..n
  <2>1. PICK r : r = <<0, h[i]>>
    OBVIOUS
  <2>2. r \in Pairs /\ r[1] = 0 /\ r[2] = h[i] /\ h[i] \in Nat
    BY <1>1, <2>1
  <2>3. <<r>> \in Seq(Pairs) /\ Members(<<r>>) = 0..h[i]
    BY <2>2, OneRange
  <2>4. Valid(<<r>>)
    <3>1. Len(<<r>>) = 1 /\ DOMAIN <<r>> = {1} /\ <<r>>[1] = r /\ 1..1 - 1 = {}
      OBVIOUS
    <3> QED
      BY <2>2, <3>1 DEF Valid
  <2> QED
    BY <2>1, <2>3, <2>4
<1>4. es \in Seq(EntrySet)
  <2>1. \A i \in 1..n : es[i] \in EntrySet
    <3> HIDE DEF es
    <3> TAKE i \in 1..n
    <3>1. PICK rs : rs = <<<<0, h[i]>>>>
      OBVIOUS
    <3>2. rs \in Seq(Pairs) /\ es[i] = [major |-> i - 1, ranges |-> rs] /\ i - 1 \in Majors
      BY <1>1, <1>3, <3>1
    <3> QED
      BY <3>2 DEF EntrySet
  <2> QED
    BY <1>2, <2>1
<1>5. OnePerMajor(es)
  <2>1. \A i, j \in 1..n : i - 1 = j - 1 => i = j
    OBVIOUS
  <2>2. \A i \in 1..n : es[i].major = i - 1
    BY <1>1
  <2> HIDE DEF es
  <2>3. \A i, j \in 1..n : es[i].major = es[j].major => i = j
    BY <2>1, <2>2
  <2> QED
    BY <1>2, <2>3 DEF OnePerMajor
<1> HIDE DEF es
<1>6. \A i \in 1..Len(es) : Valid(es[i].ranges)
  BY <1>1, <1>2, <1>3
<1>7. ASSUME NEW a, NEW t, Watches(a, es, t), NEW i \in 1..n, NEW minor \in 0..h[i]
      PROVE  <<a, i - 1, minor>> \in t.indexes
  <2>1. IndexRows(a, i - 1, <<<<0, h[i]>>>>) \subseteq t.indexes
    BY <1>1, <1>2, <1>7 DEF Watches
  <2>2. <<a, i - 1, minor>> \in IndexRows(a, i - 1, <<<<0, h[i]>>>>)
    BY <1>3 DEF IndexRows
  <2> QED
    BY <2>1, <2>2
<1> QED
  BY <1>4, <1>5, <1>6, <1>7 DEF es

\* The subaddresses ahead of an output are in the rows.
Ahead(a, to, lookahead, rows) ==
  \A major \in 0..to[1] + lookahead[1] - 1 :
    \A minor \in 0..(IF major = to[1] THEN to[2] + lookahead[2] ELSE lookahead[2]) - 1 :
      <<a, major, minor>> \in rows

LEMMA HighestFacts ==
  ASSUME NEW outs \in SUBSET Output, IsFiniteSet(outs), NEW minor \in Nat, minor # 0, NEW major \in Nat
  PROVE  LET h == HighestMinor(outs, major, minor) IN
         /\ h \in Nat /\ minor - 1 <= h
         /\ \A o \in Subs(outs) : o.to[1] = major => o.to[2] + minor - 1 <= h
<1> DEFINE rows == {s \in Subs(outs) : s.to[1] = major}
           mine == {o.to[2] : o \in rows}
           h == HighestMinor(outs, major, minor)
<1>1. /\ Subs(outs) \in SUBSET Output /\ IsFiniteSet(Subs(outs))
      /\ \A o \in Subs(outs) : o.to[1] \in Nat /\ o.to[2] \in Nat
  BY SubsFacts
<1>2. IsFiniteSet(rows)
  BY <1>1, FS_Subset
<1>3. IsFiniteSet(mine)
  <2> DEFINE b == [o \in rows |-> o.to[2]]
  <2>1. IsFiniteSet({b[o] : o \in rows})
    <3> HIDE DEF b, rows
    <3> QED BY <1>2, FiniteImage
  <2>2. {b[o] : o \in rows} = mine
    OBVIOUS
  <2> QED
    BY <2>1, <2>2
<1>4. mine \in SUBSET Nat /\ \A o \in Subs(outs) : o.to[1] = major => o.to[2] \in mine
  BY <1>1
<1>5. h = IF mine = {} THEN minor - 1 ELSE Max(mine) + minor - 1
  BY DEF HighestMinor
<1> HIDE DEF mine, h
<1>6. CASE mine = {}
  <2>1. h = minor - 1 /\ \A o \in Subs(outs) : o.to[1] # major
    BY <1>4, <1>5, <1>6
  <2>2. h \in Nat /\ minor - 1 <= h
    BY <2>1
  <2> QED
    BY <2>1, <2>2 DEF h
<1>7. CASE mine # {}
  <2>1. PICK m : m = Max(mine)
    OBVIOUS
  <2>2. m \in Nat /\ \A x \in mine : x <= m
    BY <1>3, <1>4, <1>7, <2>1, GreatestOf
  <2>3. h = m + minor - 1
    BY <1>5, <1>7, <2>1
  <2>4. h \in Nat /\ minor - 1 <= h
    BY <2>2, <2>3
  <2>5. ASSUME NEW o \in Subs(outs), o.to[1] = major PROVE o.to[2] + minor - 1 <= h
    <3>1. PICK x : x = o.to[2]
      OBVIOUS
    <3>2. x \in Nat /\ x <= m
      BY <1>1, <1>4, <2>2, <2>5, <3>1
    <3>3. x + minor - 1 <= h
      BY <2>2, <2>3, <3>2
    <3> QED
      BY <3>1, <3>3
  <2> QED
    BY <2>4, <2>5 DEF h
<1> QED
  BY <1>6, <1>7

\* What do_lookahead promises for the outputs of an account.
AllAhead(a, outs, lookahead, rows) ==
  lookahead[1] # 0 /\ lookahead[2] # 0 => \A o \in Subs(outs) : Ahead(a, o.to, lookahead, rows)

LEMMA StoredLeaves ==
  ASSUME NEW id, AccountTables(id), NEW t, t.ranges = ranges[id], t.indexes = indexes[id], t.torn = {}
  PROVE  Leaves(id, t)
<1>1. /\ WholeTables(Stored(id)) /\ IsFiniteSet(indexes[id])
      /\ RangesFit(ranges[id], indexes[id], [m \in Majors |-> <<id, m>> \in torn])
      /\ OneAddress(indexes[id]) => Cardinality(indexes[id]) <= MaxSubaddresses
  BY DEF AccountTables
<1>2. /\ ranges[id] \in [Majors -> Seq(Pairs)] /\ indexes[id] \in SUBSET WatchRow
      /\ \A m \in Majors : Whole(ranges[id][m])
  <2> DEFINE s == Stored(id)
  <2>1. s.ranges = ranges[id] /\ s.indexes = indexes[id]
    BY DEF Stored
  <2> HIDE DEF s
  <2>2. WholeTables(s)
    BY <1>1 DEF s
  <2> QED
    BY <2>1, <2>2, TablesFields
<1>3. RangesFit(t.ranges, t.indexes, [m \in Majors |-> <<id, m>> \in torn \/ (m \in t.torn /\ ranges[id][m] # << >>)])
  BY <1>1 DEF RangesFit
<1> QED
  BY <1>1, <1>2, <1>3 DEF Leaves

LEMMA LookaheadGives ==
  ASSUME NEW a \in Addresses, NEW id, AccountTables(id), NEW outs \in SUBSET Output, IsFiniteSet(outs),
         NEW lookahead \in Looks
  PROVE  LET t == do_lookahead(a, id, outs, lookahead) IN
         /\ Leaves(id, t)
         /\ t.result \in {"ok", "max", "hang"} /\ (outs = {} => t.result # "hang")
         /\ t.result = "ok" => AllAhead(a, outs, lookahead, t.indexes)
<1> DEFINE major == lookahead[1]
           minor == lookahead[2]
           same == [ranges |-> ranges[id], indexes |-> indexes[id], torn |-> {}, result |-> "ok"]
           needed == Max({major} \cup {o.to[1] + major : o \in Subs(outs)})
           entries == [i \in 1..needed |-> Entry(i - 1, 0, HighestMinor(outs, i - 1, minor))]
           total == SumFunction([i \in 0..needed - 1 |-> Estimate(outs, i, minor)])
           t == do_lookahead(a, id, outs, lookahead)
<1>1. major \in Nat /\ minor \in Nat /\ MaxSubaddresses \in Nat /\ MajorTop \in Nat /\ MaxSubaddresses <= MajorTop
  <2>1. lookahead \in Nat \X Nat
    BY SubAssumption DEF Looks, NoLookahead
  <2> QED
    BY <2>1, SubAssumption
<1>2. ASSUME NEW u, u = same \/ (\E r : u = [same EXCEPT !.result = r]) PROVE Leaves(id, u)
  <2>1. u.ranges = ranges[id] /\ u.indexes = indexes[id] /\ u.torn = {}
    BY <1>2
  <2> QED
    BY <2>1, StoredLeaves
<1>3. Walk(outs, lookahead) \in {"ok", "max", "hang"} /\ (outs = {} => Walk(outs, lookahead) = "ok")
  BY DEF Walk
<1>4. CASE major = 0 \/ minor = 0
  <2>1. t = same
    BY <1>4 DEF do_lookahead
  <2>2. Leaves(id, t) /\ t.result = "ok"
    BY <1>2, <2>1
  <2>3. AllAhead(a, outs, lookahead, t.indexes)
    BY <1>4 DEF AllAhead
  <2> QED
    BY <2>2, <2>3
<1>5. CASE major # 0 /\ minor # 0 /\ major * minor > MaxSubaddresses
  <2>1. ~ (lookahead[1] * lookahead[2] <= MaxSubaddresses) /\ ~ (major = 0 \/ minor = 0)
    <3>1. lookahead[1] * lookahead[2] \in Int
      BY <1>1
    <3> QED
      BY <1>1, <1>5, <3>1
  <2>3. t = [same EXCEPT !.result = "max"]
    BY <1>5, <2>1, Zenon DEF do_lookahead
  <2>2. Leaves(id, t) /\ t.result = "max"
    BY <1>2, <2>3
  <2> QED
    BY <2>2
<1>6. CASE major # 0 /\ minor # 0 /\ major * minor <= MaxSubaddresses
  <2>1. t = IF Walk(outs, lookahead) # "ok"
            THEN [same EXCEPT !.result = Walk(outs, lookahead)]
            ELSE IF total > MaxSubaddresses
                 THEN [same EXCEPT !.result = "max"]
                 ELSE do_upsert(a, id, entries)
    BY <1>6 DEF do_lookahead
  <2> HIDE DEF total
  <2>2. CASE Walk(outs, lookahead) # "ok"
    <3>1. t = [same EXCEPT !.result = Walk(outs, lookahead)]
      BY <2>1, <2>2
    <3>2. Leaves(id, t) /\ t.result = Walk(outs, lookahead)
      BY <1>2, <3>1
    <3> QED
      BY <1>3, <2>2, <3>2
  <2>3. CASE Walk(outs, lookahead) = "ok" /\ total > MaxSubaddresses
    <3>1. t = [same EXCEPT !.result = "max"]
      BY <2>1, <2>3
    <3>2. Leaves(id, t) /\ t.result = "max"
      BY <1>2, <3>1
    <3> QED
      BY <3>2
  <2>4. CASE Walk(outs, lookahead) = "ok" /\ ~ total > MaxSubaddresses
    <3>1. t = do_upsert(a, id, entries)
      BY <2>1, <2>4
    <3> HIDE DEF t
    <3>2. /\ IsFiniteSet(Subs(outs))
          /\ \A o \in Subs(outs) : Subaddress(o.to) /\ o.to[1] \in Nat /\ o.to[2] \in Nat
      BY SubsFacts
    <3> DEFINE M == {major} \cup {o.to[1] + major : o \in Subs(outs)}
    <3>3. M \in SUBSET Nat /\ M # {} /\ IsFiniteSet(M)
      <4> DEFINE b == [o \in Subs(outs) |-> o.to[1] + major]
      <4>1. IsFiniteSet({b[o] : o \in Subs(outs)})
        <5> HIDE DEF b
        <5> QED BY <3>2, FiniteImage
      <4>2. {b[o] : o \in Subs(outs)} = {o.to[1] + major : o \in Subs(outs)}
        OBVIOUS
      <4>3. IsFiniteSet({o.to[1] + major : o \in Subs(outs)} \cup {major})
        BY <4>1, <4>2, FS_AddElement
      <4>4. {o.to[1] + major : o \in Subs(outs)} \cup {major} = M
        OBVIOUS
      <4>5. \A o \in Subs(outs) : o.to[1] + major \in Nat
        BY <1>1, <3>2
      <4> HIDE DEF b
      <4> QED
        BY <1>1, <4>3, <4>4, <4>5
    <3>4. PICK n : n = needed
      OBVIOUS
    <3>5. n \in M /\ \A x \in M : x <= n
      <4> HIDE DEF M
      <4> QED BY <3>3, <3>4, GreatestOf DEF M
    <3>6. n \in Nat /\ n <= MajorTop + 1
      <4>1. n \in Nat
        BY <3>3, <3>5
      <4>2. major <= MajorTop + 1
        <5>1. \A x, y \in Nat : y # 0 => x <= x * y
          OBVIOUS
        <5>2. major <= major * minor /\ major * minor \in Nat
          BY <1>1, <1>6, <5>1
        <5> QED
          BY <1>1, <1>6, <5>2
      <4>3. \A o \in Subs(outs) : o.to[1] + major <= MajorTop + 1
        <5>1. lookahead \in Lookaheads
          BY <1>6 DEF Looks, NoLookahead
        <5> QED
          BY <3>2, <5>1 DEF Subaddress
      <4> QED
        BY <3>5, <4>1, <4>2, <4>3
    <3> DEFINE h == [i \in 1..n |-> HighestMinor(outs, i - 1, minor)]
    <3>7. /\ h \in [1..n -> Nat]
          /\ \A i \in 1..n : minor - 1 <= h[i]
          /\ \A i \in 1..n : \A o \in Subs(outs) : o.to[1] = i - 1 => o.to[2] + minor - 1 <= h[i]
      <4>1. ASSUME NEW i \in 1..n
            PROVE  LET x == HighestMinor(outs, i - 1, minor) IN
                   /\ x \in Nat /\ minor - 1 <= x
                   /\ \A o \in Subs(outs) : o.to[1] = i - 1 => o.to[2] + minor - 1 <= x
        <5>1. i - 1 \in Nat
          BY <3>6
        <5> QED
          BY <1>1, <1>6, <5>1, HighestFacts
      <4> QED
        BY <4>1
    <3>8. entries = [i \in 1..n |-> Entry(i - 1, 0, h[i])]
      BY <3>4
    <3> HIDE DEF M, h, entries, needed
    <3>9. /\ entries \in Seq(EntrySet) /\ OnePerMajor(entries)
          /\ \A i \in 1..Len(entries) : Valid(entries[i].ranges)
          /\ Watches(a, entries, t) => \A i \in 1..n : \A x \in 0..h[i] : <<a, i - 1, x>> \in t.indexes
      BY <3>6, <3>7, <3>8, WindowEntries
    <3>10. Leaves(id, t) /\ t.result \in {"ok", "max"} /\ (t.result = "ok" => Watches(a, entries, t))
      BY <3>1, <3>9, UpsertGives
    <3>11. ASSUME t.result = "ok" PROVE AllAhead(a, outs, lookahead, t.indexes)
      <4>1. \A i \in 1..n : \A x \in 0..h[i] : <<a, i - 1, x>> \in t.indexes
        BY <3>9, <3>10, <3>11
      <4>2. SUFFICES ASSUME NEW o \in Subs(outs) PROVE Ahead(a, o.to, lookahead, t.indexes)
        BY DEF AllAhead
      <4>3. PICK p, q : p = o.to[1] /\ q = o.to[2]
        OBVIOUS
      <4>4. p \in Nat /\ q \in Nat
        BY <3>2, <4>3
      <4>5. SUFFICES ASSUME NEW mj \in 0..p + major - 1,
                            NEW x \in 0..(IF mj = p THEN q + minor ELSE minor) - 1
                     PROVE  <<a, mj, x>> \in t.indexes
        BY <4>3 DEF Ahead
      <4>6. p + major <= n
        BY <3>5, <4>3 DEF M
      <4>7. mj + 1 \in 1..n /\ mj + 1 - 1 = mj /\ mj \in Nat /\ x \in Nat
        BY <1>1, <3>6, <4>4, <4>6
      <4>8. PICK z : z = h[mj + 1]
        OBVIOUS
      <4>9. z \in Nat /\ minor - 1 <= z /\ (p = mj => q + minor - 1 <= z)
        BY <3>7, <4>3, <4>7, <4>8
      <4>10. x \in 0..z
        BY <1>1, <4>4, <4>7, <4>9
      <4> QED
        BY <4>1, <4>7, <4>8, <4>10
    <3> QED
      BY <3>10, <3>11 DEF t
  <2> HIDE DEF t
  <2> QED
    BY <2>2, <2>3, <2>4 DEF t
<1> QED
  BY <1>1, <1>4, <1>5, <1>6

-----------------------------------------------------------------------------
(* The state of accounts, requests, outputs and batch.                     *)

Number == Nat \ {0}
AccountRow == [id : Number, start : Number, scan : Number, lookahead : Looks, fail : Nat]
Request == [height : Number, lookahead : Looks]
Found == [height : Nat, to : Payments \ {Nothing}]
Batch == [from : Number, next : Number \ {1}, snapshot : SUBSET WatchRow, found : SUBSET Found, raced : BOOLEAN]

SubRows ==
  /\ pays \in [2..Top -> Payments]
  /\ account \in [Addresses -> AccountRow \cup {NoAccount}]
  /\ creation \in [Addresses -> Request \cup {NoRequest}]
  /\ importing \in [Addresses -> Request \cup {NoRequest}]
  /\ outputs \in SUBSET Output /\ IsFiniteSet(outputs)
  /\ batch \in Batch \cup {NoBatch} /\ IsFiniteSet(batch.found)

\* Accounts have ids of their own, given out in turn.
Existing == {a \in Addresses : Exists(a)}
IdsGiven ==
  /\ \A a \in Existing : account[a].id \in 1..Cardinality(Existing)
  /\ \A a, b \in Existing : account[a].id = account[b].id => a = b

TablesPart ==
  /\ ranges \in [Ids -> [Majors -> Seq(Pairs)]]
  /\ indexes \in [Ids -> SUBSET WatchRow]
  /\ \A id \in Ids : AccountTables(id)

LEMMA TablesKept ==
  ASSUME TablesPart, KeepTables
  PROVE  TablesPart'
BY DEF TablesPart, KeepTables, AccountTables, Stored

LEMMA TablesWritten ==
  ASSUME TablesPart, NEW id \in Ids, NEW t, Leaves(id, t), Write(id, t)
  PROVE  /\ TablesPart'
         /\ indexes' = [indexes EXCEPT ![id] = t.indexes]
         /\ \A j \in Ids : indexes[j] \subseteq indexes'[j]
<1>1. /\ ranges' = [ranges EXCEPT ![id] = t.ranges]
      /\ indexes' = [indexes EXCEPT ![id] = t.indexes]
      /\ torn' = torn \cup {<<id, major>> : major \in {k \in t.torn : ranges[id][k] # << >>}}
  BY DEF Write
<1>2. /\ t.ranges \in [Majors -> Seq(Pairs)] /\ \A m \in Majors : Whole(t.ranges[m])
      /\ t.indexes \in SUBSET WatchRow /\ IsFiniteSet(t.indexes)
      /\ indexes[id] \subseteq t.indexes
      /\ OneAddress(t.indexes) => Cardinality(t.indexes) <= MaxSubaddresses
      /\ RangesFit(t.ranges, t.indexes,
                   [m \in Majors |-> <<id, m>> \in torn \/ (m \in t.torn /\ ranges[id][m] # << >>)])
  BY DEF Leaves
<1>3. /\ ranges \in [Ids -> [Majors -> Seq(Pairs)]]
      /\ indexes \in [Ids -> SUBSET WatchRow]
      /\ \A j \in Ids : AccountTables(j)
  BY DEF TablesPart
<1>4. ranges' \in [Ids -> [Majors -> Seq(Pairs)]] /\ indexes' \in [Ids -> SUBSET WatchRow]
  BY <1>1, <1>2, <1>3
<1>5. /\ ranges'[id] = t.ranges /\ indexes'[id] = t.indexes
      /\ \A j \in Ids : j # id => ranges'[j] = ranges[j] /\ indexes'[j] = indexes[j]
  BY <1>1, <1>3
<1>6. ASSUME NEW j \in Ids, NEW m \in Majors
      PROVE  <<j, m>> \in torn' <=> <<j, m>> \in torn \/ (j = id /\ m \in t.torn /\ ranges[id][m] # << >>)
  <2>1. <<j, m>> \in {<<id, major>> : major \in {k \in t.torn : ranges[id][k] # << >>}}
          <=> j = id /\ m \in t.torn /\ ranges[id][m] # << >>
    OBVIOUS
  <2> QED
    BY <1>1, <2>1
<1>7. ASSUME NEW j \in Ids PROVE AccountTables(j)'
  <2>1. CASE j = id
    <3>1. RangesFit(t.ranges, t.indexes, [m \in Majors |-> <<j, m>> \in torn'])
      BY <1>2, <1>6, <2>1 DEF RangesFit
    <3>2. (Stored(j)) ' = [ranges |-> t.ranges, indexes |-> t.indexes, out |-> << >>, torn |-> {},
                          count |-> Cardinality(t.indexes), result |-> "ok"]
      BY <1>5, <2>1 DEF Stored
    <3>3. PICK s : s = [ranges |-> t.ranges, indexes |-> t.indexes, out |-> << >>, torn |-> {},
                        count |-> Cardinality(t.indexes), result |-> "ok"]
      OBVIOUS
    <3>4. s \in Tables /\ s.ranges = t.ranges
      <4>1. Cardinality(t.indexes) \in Nat /\ << >> \in Seq(Majors)
        BY <1>2, FS_CardinalityType
      <4> QED
        BY <1>2, <3>3, <4>1 DEF Tables
    <3>5. WholeTables(s)
      BY <1>2, <3>4 DEF WholeTables
    <3> QED
      BY <1>2, <1>5, <2>1, <3>1, <3>2, <3>3, <3>5 DEF AccountTables
  <2>2. CASE j # id
    <3>1. /\ WholeTables(Stored(j)) /\ IsFiniteSet(indexes[j])
          /\ RangesFit(ranges[j], indexes[j], [m \in Majors |-> <<j, m>> \in torn])
          /\ OneAddress(indexes[j]) => Cardinality(indexes[j]) <= MaxSubaddresses
      BY <1>3 DEF AccountTables
    <3>2. ranges'[j] = ranges[j] /\ indexes'[j] = indexes[j]
      BY <1>5, <2>2
    <3>3. Stored(j)' = Stored(j)
      BY <3>2 DEF Stored
    <3>4. [m \in Majors |-> <<j, m>> \in torn'] = [m \in Majors |-> <<j, m>> \in torn]
      BY <1>6, <2>2
    <3> QED
      BY <3>1, <3>2, <3>3, <3>4 DEF AccountTables
  <2> QED
    BY <2>1, <2>2
<1>8. \A j \in Ids : indexes[j] \subseteq indexes'[j]
  BY <1>2, <1>5
<1> QED
  BY <1>1, <1>4, <1>7, <1>8 DEF TablesPart

\* Ids.
LEMMA IdFacts ==
  ASSUME SubRows, IdsGiven
  PROVE  /\ \A a \in Existing : account[a].id \in Ids /\ account[a] \in AccountRow
         /\ NextId \in Ids /\ NextId \in Number
         /\ \A a \in Existing : account[a].id # NextId
         /\ IsFiniteSet(Existing)
<1>1. IsFiniteSet(Addresses) /\ Existing \in SUBSET Addresses
  BY SubAssumption DEF Existing
<1>2. IsFiniteSet(Existing) /\ Cardinality(Existing) <= Cardinality(Addresses)
  BY <1>1, FS_Subset
<1>3. PICK n, m : n = Cardinality(Existing) /\ m = Cardinality(Addresses)
  OBVIOUS
<1>4. n \in Nat /\ m \in Nat /\ n <= m
  BY <1>1, <1>2, <1>3, FS_CardinalityType
<1>5. NextId = 1 + n /\ Ids = 1..m + 1
  BY <1>3 DEF NextId, Ids, Existing
<1>6. \A a \in Existing : account[a].id \in 1..n
  BY <1>3 DEF IdsGiven
<1>7. \A a \in Existing : account[a] \in AccountRow
  BY DEF Existing, Exists, SubRows
<1> QED
  BY <1>2, <1>4, <1>5, <1>6, <1>7 DEF Number

\* An account that exists keeps its id when its row changes.
LEMMA AccountChanged ==
  ASSUME SubRows, IdsGiven, NEW a \in Existing, NEW r \in AccountRow, r.id = account[a].id,
         account' = [account EXCEPT ![a] = r]
  PROVE  /\ account' \in [Addresses -> AccountRow \cup {NoAccount}] /\ IdsGiven'
         /\ Existing' = Existing
<1>1. /\ account \in [Addresses -> AccountRow \cup {NoAccount}] /\ a \in Addresses
      /\ account[a] # NoAccount /\ r # NoAccount
  <2>1. NoAccount.id = 0
    BY DEF NoAccount
  <2>2. r.id # 0
    BY DEF AccountRow, Number
  <2> QED
    BY <2>1, <2>2 DEF SubRows, Existing, Exists
<1>2. \A b \in Addresses : account'[b] = IF b = a THEN r ELSE account[b]
  BY <1>1
<1>3. \A b \in Addresses : account'[b] # NoAccount <=> account[b] # NoAccount
  BY <1>1, <1>2
<1>4. Existing' = Existing
  BY <1>3 DEF Existing, Exists
<1>5. \A b \in Existing : account'[b].id = account[b].id
  BY <1>2 DEF Existing
<1> QED
  BY <1>1, <1>4, <1>5 DEF IdsGiven

\* A new account takes the next id.
LEMMA AccountAdded ==
  ASSUME SubRows, IdsGiven, NEW a \in Addresses, ~ Exists(a), NEW r \in AccountRow, r.id = NextId,
         account' = [account EXCEPT ![a] = r]
  PROVE  account' \in [Addresses -> AccountRow \cup {NoAccount}] /\ IdsGiven'
<1>1. /\ account \in [Addresses -> AccountRow \cup {NoAccount}]
      /\ account[a] = NoAccount /\ r # NoAccount
  <2>1. NoAccount.id = 0
    BY DEF NoAccount
  <2>2. r.id # 0
    BY DEF AccountRow, Number
  <2> QED
    BY <2>1, <2>2 DEF SubRows, Exists
<1>2. \A b \in Addresses : account'[b] = IF b = a THEN r ELSE account[b]
  BY <1>1
<1>3. Existing' = Existing \cup {a} /\ a \notin Existing
  BY <1>1, <1>2 DEF Existing, Exists
<1>4. PICK n : n = Cardinality(Existing)
  OBVIOUS
<1>5. n \in Nat /\ Cardinality(Existing') = n + 1
  BY <1>3, <1>4, IdFacts, FS_CardinalityType, FS_AddElement
<1>6. \A b \in Existing : account[b].id \in 1..n
  BY <1>4 DEF IdsGiven
<1>7. r.id = n + 1
  <2>1. NextId = 1 + n
    BY <1>4 DEF NextId, Existing
  <2> QED
    BY <1>5, <2>1
<1>8. \A b \in Existing : b # a /\ account'[b] = account[b]
  BY <1>2, <1>3 DEF Existing
<1>9. account'[a] = r
  BY <1>2
<1>10. \A b \in Existing' : account'[b].id \in 1..n + 1
  BY <1>3, <1>5, <1>6, <1>7, <1>8, <1>9
<1>11. \A b, c \in Existing : account[b].id = account[c].id => b = c
  BY DEF IdsGiven
<1>12. \A b \in Existing : account[b].id # n + 1
  BY <1>5, <1>6
<1>13. \A b, c \in Existing' : account'[b].id = account'[c].id => b = c
  BY <1>3, <1>7, <1>8, <1>9, <1>11, <1>12
<1>14. IdsGiven'
  BY <1>5, <1>10, <1>13 DEF IdsGiven
<1> QED
  BY <1>1, <1>14

-----------------------------------------------------------------------------
(* Windows: what is ahead of the outputs of PayTo.                         *)

\* What comes before a recorded failure has its window.
Repaired(user, o, rows) ==
  o.to # Main /\ (user.fail = 0 \/ o.height < user.fail) => Ahead(PayTo, o.to, user.lookahead, rows)

\* All of these outputs have theirs, for a lookahead that asks for one.
Windowed(user, outs, rows) ==
  user.lookahead[1] # 0 /\ user.lookahead[2] # 0 => \A o \in outs : Repaired(user, o, rows)

\* The clean outputs, and those that a batch has found unless it was overtaken
\* by an import or a rescan, have their windows; a batch and the outputs are
\* above the start height of the account.
WindowsAt(user, outs, b, rows) ==
  /\ user.start <= user.scan
  /\ \A o \in outs : user.start < o.height
  /\ b # NoBatch =>
       /\ user.start <= b.from /\ b.from < b.next
       /\ \A o \in b.found : b.from < o.height /\ o.height < b.next
  /\ Windowed(user, {o \in outs : o.clean}, rows)
  /\ ~ b.raced => Windowed(user, b.found, rows)

WindowsInv ==
  /\ Exists(PayTo) => WindowsAt(account[PayTo], outputs, batch, indexes[account[PayTo].id])
  /\ ~ Exists(PayTo) => outputs = {} /\ batch = NoBatch

LEMMA RowFacts ==
  ASSUME NEW u \in AccountRow
  PROVE  /\ u.id \in Nat /\ u.id # 0 /\ u.start \in Nat /\ u.start # 0 /\ u.scan \in Nat /\ u.scan # 0 /\ u.fail \in Nat
         /\ u.lookahead \in Looks /\ u.lookahead[1] \in Nat /\ u.lookahead[2] \in Nat
         /\ u = [id |-> u.id, start |-> u.start, scan |-> u.scan, lookahead |-> u.lookahead, fail |-> u.fail]
<1>1. /\ u.id \in Nat /\ u.id # 0 /\ u.start \in Nat /\ u.start # 0 /\ u.scan \in Nat /\ u.scan # 0 /\ u.fail \in Nat
      /\ u.lookahead \in Looks
      /\ u = [id |-> u.id, start |-> u.start, scan |-> u.scan, lookahead |-> u.lookahead, fail |-> u.fail]
  BY DEF AccountRow, Number
<1>2. u.lookahead \in Nat \X Nat
  BY <1>1, SubAssumption DEF Looks, NoLookahead
<1> QED
  BY <1>1, <1>2

LEMMA BatchFacts ==
  ASSUME NEW b \in Batch
  PROVE  /\ b.from \in Nat /\ b.from # 0 /\ b.next \in Nat /\ b.next # 0 /\ b.next # 1
         /\ b.snapshot \in SUBSET WatchRow /\ b.found \in SUBSET Found /\ b.raced \in BOOLEAN
         /\ b = [from |-> b.from, next |-> b.next, snapshot |-> b.snapshot, found |-> b.found, raced |-> b.raced]
BY DEF Batch, Number

\* A longer list of rows.
LEMMA AheadGrows ==
  ASSUME NEW u, NEW outs, NEW b, NEW R, NEW S, R \subseteq S, WindowsAt(u, outs, b, R)
  PROVE  WindowsAt(u, outs, b, S)
<1>1. ASSUME NEW to, Ahead(PayTo, to, u.lookahead, R) PROVE Ahead(PayTo, to, u.lookahead, S)
  BY <1>1 DEF Ahead
<1>2. ASSUME NEW os, Windowed(u, os, R) PROVE Windowed(u, os, S)
  BY <1>1, <1>2, Zenon DEF Windowed, Repaired
<1> QED
  BY <1>2, Zenon DEF WindowsAt

\* A smaller lookahead.
LEMMA AheadShrinks ==
  ASSUME NEW u \in AccountRow, NEW outs, NEW b, NEW R, WindowsAt(u, outs, b, R),
         NEW l \in Looks, l[1] <= u.lookahead[1], l[2] <= u.lookahead[2],
         \A o \in outs : o.to # Main => o.to[1] \in Nat /\ o.to[2] \in Nat,
         \A o \in b.found : o.to # Main => o.to[1] \in Nat /\ o.to[2] \in Nat
  PROVE  WindowsAt([u EXCEPT !.lookahead = l], outs, b, R)
<1> DEFINE v == [u EXCEPT !.lookahead = l]
<1>1. /\ v.start = u.start /\ v.scan = u.scan /\ v.fail = u.fail /\ v.lookahead = l
      /\ u.lookahead[1] \in Nat /\ u.lookahead[2] \in Nat
  BY RowFacts
<1>2. l[1] \in Nat /\ l[2] \in Nat
  BY SubAssumption DEF Looks, NoLookahead
<1>3. ASSUME NEW to, to[1] \in Nat, to[2] \in Nat, Ahead(PayTo, to, u.lookahead, R) PROVE Ahead(PayTo, to, l, R)
  <2>1. PICK p, q : p = to[1] /\ q = to[2]
    OBVIOUS
  <2>2. PICK m, n : m = u.lookahead[1] /\ n = u.lookahead[2]
    OBVIOUS
  <2>3. PICK c, d : c = l[1] /\ d = l[2]
    OBVIOUS
  <2>4. p \in Nat /\ q \in Nat /\ m \in Nat /\ n \in Nat /\ c \in Nat /\ d \in Nat /\ c <= m /\ d <= n
    BY <1>1, <1>2, <1>3, <2>1, <2>2, <2>3
  <2>5. \A i \in 0..p + m - 1 : \A x \in 0..(IF i = p THEN q + n ELSE n) - 1 : <<PayTo, i, x>> \in R
    BY <1>3, <2>1, <2>2 DEF Ahead
  <2>6. ASSUME NEW i \in 0..p + c - 1, NEW x \in 0..(IF i = p THEN q + d ELSE d) - 1
        PROVE  i \in 0..p + m - 1 /\ x \in 0..(IF i = p THEN q + n ELSE n) - 1
    BY <2>4
  <2>7. \A i \in 0..p + c - 1 : \A x \in 0..(IF i = p THEN q + d ELSE d) - 1 : <<PayTo, i, x>> \in R
    BY <2>5, <2>6
  <2> QED
    BY <2>1, <2>3, <2>7 DEF Ahead
<1> HIDE DEF v
<1>4. l[1] # 0 => u.lookahead[1] # 0
  BY <1>1, <1>2
<1>5. l[2] # 0 => u.lookahead[2] # 0
  BY <1>1, <1>2
<1>6. ASSUME NEW os, \A o \in os : o.to # Main => o.to[1] \in Nat /\ o.to[2] \in Nat, Windowed(u, os, R)
      PROVE  Windowed(v, os, R)
  BY <1>1, <1>3, <1>4, <1>5, <1>6, Zenon DEF Windowed, Repaired
<1>7. /\ u.start <= u.scan
      /\ \A o \in outs : u.start < o.height
      /\ b # NoBatch =>
           /\ u.start <= b.from /\ b.from < b.next
           /\ \A o \in b.found : b.from < o.height /\ o.height < b.next
      /\ Windowed(u, {o \in outs : o.clean}, R)
      /\ ~ b.raced => Windowed(u, b.found, R)
  BY DEF WindowsAt
<1>8. Windowed(v, {o \in outs : o.clean}, R) /\ (~ b.raced => Windowed(v, b.found, R))
  BY <1>6, <1>7
<1> QED
  BY <1>1, <1>7, <1>8, Zenon DEF WindowsAt, v

\* A batch that an import or a rescan has overtaken.
Raced(b) == IF b # NoBatch THEN [b EXCEPT !.raced = TRUE] ELSE b

LEMMA RacedFacts ==
  ASSUME NEW b \in Batch \cup {NoBatch}
  PROVE  /\ Raced(b) \in Batch \cup {NoBatch} /\ Raced(b).found = b.found
         /\ Raced(b) = NoBatch <=> b = NoBatch
         /\ Raced(b).from = b.from /\ Raced(b).next = b.next
         /\ ~ Raced(b).raced => b = NoBatch /\ b.found = {}
<1>1. CASE b = NoBatch
  BY <1>1 DEF Raced, NoBatch
<1>2. CASE b # NoBatch
  <2>1. /\ b.from \in Number /\ b.next \in Number \ {1} /\ b.snapshot \in SUBSET WatchRow /\ b.found \in SUBSET Found
        /\ b = [from |-> b.from, next |-> b.next, snapshot |-> b.snapshot, found |-> b.found, raced |-> b.raced]
    BY <1>2 DEF Batch
  <2>2. Raced(b) = [from |-> b.from, next |-> b.next, snapshot |-> b.snapshot, found |-> b.found, raced |-> TRUE]
    BY <1>2, <2>1 DEF Raced
  <2>3. NoBatch.raced = FALSE
    BY DEF NoBatch
  <2>4. Raced(b) # NoBatch
    BY <2>2, <2>3
  <2> QED
    BY <1>2, <2>1, <2>2, <2>4 DEF Batch
<1> QED
  BY <1>1, <1>2

LEMMA LoweredFacts ==
  ASSUME NEW u \in AccountRow, NEW h \in Number
  PROVE  LET v == Lowered(u, h) IN
         /\ v \in AccountRow
         /\ v.id = u.id /\ v.lookahead = u.lookahead
         /\ v.start = (IF h < u.start THEN h ELSE u.start)
         /\ v.scan = (IF h < u.scan THEN h ELSE u.scan)
         /\ v.fail = (IF h <= u.fail THEN 0 ELSE u.fail)
<1> DEFINE v == Lowered(u, h)
<1>1. /\ u.id \in Number /\ u.start \in Number /\ u.scan \in Number /\ u.fail \in Nat /\ u.lookahead \in Looks
      /\ u = [id |-> u.id, start |-> u.start, scan |-> u.scan, lookahead |-> u.lookahead, fail |-> u.fail]
  BY DEF AccountRow
<1>2. v = [id |-> u.id, start |-> IF h < u.start THEN h ELSE u.start, scan |-> IF h < u.scan THEN h ELSE u.scan,
           lookahead |-> u.lookahead, fail |-> IF h <= u.fail THEN 0 ELSE u.fail]
  <2>1. PICK s, c, f : /\ s = (IF h < u.start THEN h ELSE u.start) /\ c = (IF h < u.scan THEN h ELSE u.scan)
                       /\ f = (IF h <= u.fail THEN 0 ELSE u.fail)
    OBVIOUS
  <2>2. v = [u EXCEPT !.scan = c, !.start = s, !.fail = f]
    BY <2>1, Zenon DEF Lowered
  <2> HIDE DEF v
  <2>3. v = [id |-> u.id, start |-> s, scan |-> c, lookahead |-> u.lookahead, fail |-> f]
    BY <1>1, <2>2
  <2> QED
    BY <2>1, <2>3
<1> HIDE DEF v
<1>3. v \in AccountRow
  BY <1>1, <1>2 DEF AccountRow
<1> QED
  BY <1>2, <1>3 DEF v

\* change_height: what is left of the outputs keeps its windows.
LEMMA AheadLowered ==
  ASSUME NEW u \in AccountRow, NEW outs \in SUBSET Output, NEW b \in Batch \cup {NoBatch}, NEW R,
         WindowsAt(u, outs, b, R), NEW h \in Number
  PROVE  WindowsAt(Lowered(u, h), {o \in outs : o.height < h}, Raced(b), R)
<1> DEFINE v == Lowered(u, h)
           left == {o \in outs : o.height < h}
<1>1. /\ v \in AccountRow
      /\ v.id = u.id /\ v.lookahead = u.lookahead
      /\ v.start = (IF h < u.start THEN h ELSE u.start)
      /\ v.scan = (IF h < u.scan THEN h ELSE u.scan)
      /\ v.fail = (IF h <= u.fail THEN 0 ELSE u.fail)
  BY LoweredFacts
<1>2. /\ u.start \in Nat /\ u.scan \in Nat /\ u.fail \in Nat /\ h \in Nat
      /\ \A o \in outs : o.height \in Nat
      /\ b # NoBatch => b.from \in Nat
  BY RowFacts, BatchFacts DEF Number, Output
<1>3. /\ u.start <= u.scan
      /\ \A o \in outs : u.start < o.height
      /\ b # NoBatch =>
           /\ u.start <= b.from /\ b.from < b.next
           /\ \A o \in b.found : b.from < o.height /\ o.height < b.next
      /\ Windowed(u, {o \in outs : o.clean}, R)
  BY DEF WindowsAt
<1>4. /\ Raced(b) = NoBatch <=> b = NoBatch
      /\ Raced(b).found = b.found /\ Raced(b).from = b.from /\ Raced(b).next = b.next
      /\ ~ Raced(b).raced => b.found = {}
  BY RacedFacts
<1> HIDE DEF v
<1>5. v.start <= v.scan /\ v.start <= u.start /\ v.start \in Nat
  BY <1>1, <1>2, <1>3
<1>6. \A o \in left : v.start < o.height
  BY <1>2, <1>3, <1>5
<1>7. b # NoBatch => v.start <= b.from
  BY <1>2, <1>3, <1>5
<1>8. Windowed(v, {o \in left : o.clean}, R)
  <2>1. SUFFICES ASSUME u.lookahead[1] # 0, u.lookahead[2] # 0, NEW o \in left, o.clean,
                        o.to # Main, v.fail = 0 \/ o.height < v.fail
                 PROVE  Ahead(PayTo, o.to, u.lookahead, R)
    BY <1>1 DEF Windowed, Repaired
  <2>2. u.fail = 0 \/ o.height < u.fail
    BY <1>1, <1>2, <2>1
  <2>3. Repaired(u, o, R)
    BY <1>3, <2>1 DEF Windowed
  <2> QED
    BY <2>1, <2>2, <2>3 DEF Repaired
<1>9. ~ Raced(b).raced => Windowed(v, Raced(b).found, R)
  BY <1>4 DEF Windowed
<1> QED
  BY <1>3, <1>4, <1>5, <1>6, <1>7, <1>8, <1>9, Zenon DEF WindowsAt, v

LEMMA LookaheadRow ==
  ASSUME NEW u \in AccountRow, NEW l \in Looks, NEW result
  PROVE  LET v == WithLookahead(u, l, result) IN
         /\ v \in AccountRow
         /\ v.id = u.id /\ v.start = u.start /\ v.scan = u.scan
         /\ v.lookahead = (IF l = NoLookahead THEN u.lookahead ELSE l)
         /\ v.fail = (IF l # NoLookahead /\ result = "max" THEN u.start ELSE u.fail)
<1> DEFINE v == WithLookahead(u, l, result)
<1>1. /\ u.id \in Number /\ u.start \in Number /\ u.scan \in Number /\ u.fail \in Nat /\ u.lookahead \in Looks
      /\ u = [id |-> u.id, start |-> u.start, scan |-> u.scan, lookahead |-> u.lookahead, fail |-> u.fail]
  BY DEF AccountRow
<1>2. CASE l = NoLookahead
  BY <1>2 DEF WithLookahead
<1>3. CASE l # NoLookahead
  <2>1. PICK m : m = Max({1, u.start})
    OBVIOUS
  <2>2. m = u.start
    <3>1. u.start \in Nat /\ 1 <= u.start
      BY <1>1 DEF Number
    <3> QED
      BY <2>1, <3>1, GreaterOf
  <2>3. PICK f : f = IF result = "max" THEN u.start ELSE u.fail
    OBVIOUS
  <2>4. v = [u EXCEPT !.lookahead = l, !.fail = f]
    BY <1>3, <2>1, <2>2, <2>3 DEF WithLookahead
  <2> HIDE DEF v
  <2>5. v = [id |-> u.id, start |-> u.start, scan |-> u.scan, lookahead |-> l, fail |-> f]
    BY <1>1, <2>4
  <2>6. f \in Nat
    BY <1>1, <2>3 DEF Number
  <2>7. v \in AccountRow
    BY <1>1, <2>5, <2>6 DEF AccountRow
  <2> QED
    BY <1>3, <2>3, <2>5, <2>7 DEF v
<1> QED
  BY <1>2, <1>3

\* An accepted import request with a lookahead.
LEMMA AheadImported ==
  ASSUME NEW u \in AccountRow, NEW outs \in SUBSET Output, NEW b \in Batch \cup {NoBatch}, NEW R,
         WindowsAt(u, outs, b, R), NEW h \in Number, NEW l \in Looks, l # NoLookahead,
         NEW result, result \in {"ok", "max"}, NEW S,
         result = "ok" => AllAhead(PayTo, {o \in outs : o.height < h}, l, S)
  PROVE  LET left == {o \in outs : o.height < h} IN
         WindowsAt(WithLookahead(Lowered(u, h), l, result), IF result = "ok" THEN Regrown(left) ELSE left, Raced(b), S)
<1> DEFINE left == {o \in outs : o.height < h}
           v == Lowered(u, h)
           w == WithLookahead(v, l, result)
           kept == IF result = "ok" THEN Regrown(left) ELSE left
           c == Raced(b)
<1>1. v \in AccountRow
  BY LoweredFacts
<1>2. /\ w.start = v.start /\ w.scan = v.scan /\ w.lookahead = l
      /\ w.fail = (IF result = "max" THEN v.start ELSE v.fail)
  <2> HIDE DEF v
  <2> QED BY <1>1, LookaheadRow
<1>3. WindowsAt(v, left, c, R)
  BY AheadLowered
<1>4. v.start \in Nat /\ v.start # 0
  BY <1>1, RowFacts
<1> HIDE DEF v, w, c
<1>5. /\ v.start <= v.scan
      /\ \A o \in left : v.start < o.height
      /\ c # NoBatch =>
           /\ v.start <= c.from /\ c.from < c.next
           /\ \A o \in c.found : c.from < o.height /\ o.height < c.next
  BY <1>3 DEF WindowsAt
<1>6. ~ c.raced => c.found = {}
  BY RacedFacts DEF c
<1>7. \A o \in kept : \E p \in left : o.height = p.height /\ o.to = p.to
  <2>1. ASSUME NEW o \in Regrown(left) PROVE \E p \in left : o.height = p.height /\ o.to = p.to
    <3>1. PICK p \in left : o = [p EXCEPT !.clean = TRUE]
      BY DEF Regrown
    <3>2. p = [height |-> p.height, to |-> p.to, clean |-> p.clean]
      BY DEF Output
    <3> QED
      BY <3>1, <3>2
  <2> QED
    BY <2>1
<1>8. ASSUME l[1] # 0, l[2] # 0, NEW o \in kept PROVE Repaired(w, o, S)
  <2>1. PICK p \in left : o.height = p.height /\ o.to = p.to
    BY <1>7, <1>8
  <2>2. CASE result = "ok"
    <3>1. SUFFICES ASSUME o.to # Main PROVE Ahead(PayTo, o.to, l, S)
      BY <1>2 DEF Repaired
    <3>2. p \in Subs(left)
      BY <2>1, <3>1 DEF Subs
    <3> QED
      BY <1>8, <2>1, <2>2, <3>2 DEF AllAhead
  <2>3. CASE result = "max"
    <3>1. w.fail = v.start /\ v.start < o.height
      BY <1>2, <1>5, <2>1, <2>3
    <3>2. o.height \in Nat
      BY <2>1 DEF Output
    <3>3. w.fail # 0 /\ ~ o.height < w.fail
      BY <1>4, <3>1, <3>2
    <3> QED
      BY <3>3 DEF Repaired
  <2> QED
    BY <2>2, <2>3
<1>9. Windowed(w, {o \in kept : o.clean}, S) /\ (~ c.raced => Windowed(w, c.found, S))
  BY <1>2, <1>6, <1>8 DEF Windowed
<1>10. \A o \in kept : w.start < o.height
  BY <1>2, <1>5, <1>7
<1> HIDE DEF kept
<1>11. WindowsAt(w, kept, c, S)
  BY <1>2, <1>5, <1>9, <1>10, Zenon DEF WindowsAt
<1> QED
  BY <1>11 DEF w, v, c, kept

LEMMA EarlierFacts ==
  ASSUME NEW fail \in Nat, NEW height \in Nat, height # 0
  PROVE  /\ Earlier(fail, height) \in Nat /\ Earlier(fail, height) # 0 /\ Earlier(fail, height) <= height
         /\ \A x \in Nat : x < Earlier(fail, height) => fail = 0 \/ x < fail
<1>1. PICK e : e = IF fail = 0 \/ height < fail THEN height ELSE fail
  OBVIOUS
<1>2. e \in Nat /\ 1 <= e
  BY <1>1
<1>3. Earlier(fail, height) = e
  <2>1. Max({1, e}) = IF 1 <= e THEN e ELSE 1
    BY <1>2, GreaterOf
  <2> QED
    BY <1>1, <1>2, <2>1 DEF Earlier
<1>4. e <= height /\ \A x \in Nat : x < e => fail = 0 \/ x < fail
  BY <1>1
<1> QED
  BY <1>2, <1>3, <1>4

\* A batch scans one more block.
LEMMA AheadScanned ==
  ASSUME NEW u \in AccountRow, NEW outs \in SUBSET Output, NEW b \in Batch, NEW R, WindowsAt(u, outs, b, R),
         NEW v, v.start = u.start, v.scan = u.scan, v.lookahead = u.lookahead,
         \A x \in Nat : v.fail = 0 \/ x < v.fail => u.fail = 0 \/ x < u.fail,
         NEW S, R \subseteq S, NEW c, c.from = b.from, c.next = b.next + 1, c.raced = b.raced,
         NEW new, c.found = b.found \cup new, \A o \in new : o.height = b.next, Windowed(v, new, S)
  PROVE  WindowsAt(v, outs, c, S)
<1>1. WindowsAt(u, outs, b, S)
  BY AheadGrows, Zenon
<1>2. b # NoBatch
  <2>1. b.from \in Nat
    BY BatchFacts
  <2> QED
    BY <2>1 DEF NoBatch
<1>3. /\ u.start <= u.scan
      /\ \A o \in outs : u.start < o.height
      /\ u.start <= b.from /\ b.from < b.next
      /\ \A o \in b.found : b.from < o.height /\ o.height < b.next
      /\ Windowed(u, {o \in outs : o.clean}, S)
      /\ ~ b.raced => Windowed(u, b.found, S)
  BY <1>1, <1>2 DEF WindowsAt
<1>4. /\ u.start \in Nat /\ b.from \in Nat /\ b.next \in Nat
      /\ \A o \in outs : o.height \in Nat
      /\ \A o \in b.found : o.height \in Nat
  BY RowFacts, BatchFacts DEF Output, Found
<1>5. ASSUME NEW os, \A o \in os : o.height \in Nat, Windowed(u, os, S) PROVE Windowed(v, os, S)
  <2>1. SUFFICES ASSUME v.lookahead[1] # 0, v.lookahead[2] # 0, NEW o \in os PROVE Repaired(v, o, S)
    BY DEF Windowed
  <2>2. Repaired(u, o, S)
    BY <1>5, <2>1 DEF Windowed
  <2>3. (v.fail = 0 \/ o.height < v.fail) => (u.fail = 0 \/ o.height < u.fail)
    BY <1>5
  <2> QED
    BY <2>2, <2>3, Zenon DEF Repaired
<1>6. Windowed(v, {o \in outs : o.clean}, S)
  BY <1>3, <1>4, <1>5
<1>7. ~ c.raced => Windowed(v, c.found, S)
  <2>1. SUFFICES ASSUME ~ b.raced PROVE Windowed(v, b.found \cup new, S)
    OBVIOUS
  <2>2. Windowed(v, b.found, S)
    BY <1>3, <1>4, <1>5, <2>1
  <2> QED
    BY <2>2 DEF Windowed
<1>8. u.start <= c.from /\ c.from < c.next
  BY <1>3, <1>4
<1>9. \A o \in c.found : c.from < o.height /\ o.height < c.next
  BY <1>3, <1>4
<1> QED
  BY <1>3, <1>6, <1>7, <1>8, <1>9, Zenon DEF WindowsAt

\* A batch that has ended leaves its outputs.
Added(b, fresh) == {[height |-> o.height, to |-> o.to, clean |-> ~ b.raced] : o \in fresh}

LEMMA AheadStored ==
  ASSUME NEW u \in AccountRow, NEW outs \in SUBSET Output, NEW b \in Batch, NEW R, WindowsAt(u, outs, b, R),
         NEW v, v.start = u.start, v.lookahead = u.lookahead, v.fail = u.fail, u.scan <= v.scan, v.scan \in Nat,
         NEW fresh \in SUBSET b.found
  PROVE  WindowsAt(v, outs \cup Added(b, fresh), NoBatch, R)
<1> DEFINE new == Added(b, fresh)
<1>1. b # NoBatch
  <2>1. b.from \in Nat
    BY BatchFacts
  <2> QED
    BY <2>1 DEF NoBatch
<1>2. /\ u.start <= u.scan
      /\ \A o \in outs : u.start < o.height
      /\ u.start <= b.from /\ b.from < b.next
      /\ \A o \in b.found : b.from < o.height /\ o.height < b.next
      /\ Windowed(u, {o \in outs : o.clean}, R)
      /\ ~ b.raced => Windowed(u, b.found, R)
  BY <1>1 DEF WindowsAt
<1>3. /\ u.start \in Nat /\ u.scan \in Nat /\ b.from \in Nat
      /\ \A o \in b.found : o.height \in Nat
  BY RowFacts, BatchFacts DEF Found
<1>4. \A o \in new : \E f \in b.found : o.height = f.height /\ o.to = f.to /\ o.clean = ~ b.raced
  BY DEF Added
<1> HIDE DEF new
<1>5. \A o \in outs \cup new : v.start < o.height
  BY <1>2, <1>3, <1>4
<1>6. Windowed(v, {o \in outs \cup new : o.clean}, R)
  <2>1. SUFFICES ASSUME u.lookahead[1] # 0, u.lookahead[2] # 0, NEW o \in outs \cup new, o.clean
                 PROVE  Repaired(v, o, R)
    BY DEF Windowed
  <2>2. CASE o \in outs
    <3>1. Repaired(u, o, R)
      BY <1>2, <2>1, <2>2 DEF Windowed
    <3> QED
      BY <3>1 DEF Repaired
  <2>3. CASE o \in new
    <3>1. PICK f \in b.found : o.height = f.height /\ o.to = f.to /\ o.clean = ~ b.raced
      BY <1>4, <2>3
    <3>2. ~ b.raced
      BY <2>1, <3>1
    <3>3. Repaired(u, f, R)
      BY <1>2, <2>1, <3>2 DEF Windowed
    <3> QED
      BY <3>1, <3>3 DEF Repaired
  <2> QED
    BY <2>1, <2>2, <2>3
<1>7. NoBatch.found = {} /\ Windowed(v, NoBatch.found, R)
  BY DEF NoBatch, Windowed
<1>8. v.start <= v.scan
  BY <1>2, <1>3
<1> QED
  BY <1>5, <1>6, <1>7, <1>8, Zenon DEF WindowsAt, new

-----------------------------------------------------------------------------
(* The inductive invariant of the tables and the windows.                  *)

SubIInv == SubRows /\ IdsGiven /\ TablesPart /\ WindowsInv

\* Changes that are not about PayTo.
LEMMA WindowsKept ==
  ASSUME SubIInv, account'[PayTo] = account[PayTo],
         UNCHANGED <<outputs, batch>>, \A j \in Ids : indexes[j] \subseteq indexes'[j]
  PROVE  WindowsInv'
<1>1. SubRows /\ IdsGiven /\ WindowsInv
  BY DEF SubIInv
<1>2. Exists(PayTo)' <=> Exists(PayTo)
  BY DEF Exists
<1>3. ASSUME Exists(PayTo) PROVE WindowsAt(account'[PayTo], outputs', batch', indexes'[account'[PayTo].id])
  <2>1. PayTo \in Existing
    BY <1>3, SubAssumption DEF Existing
  <2>2. account[PayTo].id \in Ids
    BY <1>1, <2>1, IdFacts
  <2>3. PICK u, os, b, R : u = account[PayTo] /\ os = outputs /\ b = batch /\ R = indexes[account[PayTo].id]
    OBVIOUS
  <2>4. PICK S : S = indexes'[account[PayTo].id]
    OBVIOUS
  <2>5. WindowsAt(u, os, b, R) /\ R \subseteq S
    BY <1>1, <1>3, <2>2, <2>3, <2>4 DEF WindowsInv
  <2>6. WindowsAt(u, os, b, S)
    BY <2>5, AheadGrows
  <2>7. /\ account'[PayTo] = u /\ outputs' = os /\ batch' = b /\ indexes'[account'[PayTo].id] = S
    BY <2>3, <2>4
  <2> QED
    BY <2>6, <2>7
<1>4. ~ Exists(PayTo) => outputs' = {} /\ batch' = NoBatch
  BY <1>1 DEF WindowsInv
<1> QED
  BY <1>2, <1>3, <1>4 DEF WindowsInv

LEMMA WindowsEmpty ==
  ASSUME NEW v, v.start <= v.scan, NEW R
  PROVE  WindowsAt(v, {}, NoBatch, R)
BY DEF WindowsAt, Windowed, NoBatch

\* Requests are well formed.
LEMMA RequestFacts ==
  ASSUME SubIInv, NEW a \in Addresses
  PROVE  /\ account[a] \in AccountRow \cup {NoAccount} /\ (Exists(a) => account[a] \in AccountRow)
         /\ creation[a] # NoRequest => creation[a] \in Request
         /\ importing[a] # NoRequest => importing[a] \in Request
BY DEF SubIInv, SubRows, Exists

LEMMA CreationRequestStep ==
  ASSUME SubIInv, NEW a \in Addresses, NEW l \in Lookaheads, creation_request(a, l)
  PROVE  SubIInv'
<1>1. SubRows /\ IdsGiven /\ TablesPart
  BY DEF SubIInv
<1>2. /\ creation' = [creation EXCEPT ![a] = [height |-> 1, lookahead |-> l]]
      /\ KeepTables /\ UNCHANGED <<pays, account, importing, outputs, batch, hung>>
  BY DEF creation_request
<1>3. [height |-> 1, lookahead |-> l] \in Request
  BY DEF Request, Number, Looks
<1>4. SubRows'
  BY <1>1, <1>2, <1>3 DEF SubRows
<1>5. IdsGiven'
  BY <1>1, <1>2 DEF IdsGiven, Existing, Exists
<1>6. TablesPart'
  BY <1>1, <1>2, TablesKept
<1>7. WindowsInv'
  BY <1>2, WindowsKept DEF KeepTables
<1> QED
  BY <1>4, <1>5, <1>6, <1>7 DEF SubIInv

LEMMA AddAccountStep ==
  ASSUME SubIInv, NEW a \in Addresses, add_account(a)
  PROVE  SubIInv'
<1>1. SubRows /\ IdsGiven /\ TablesPart /\ WindowsInv
  BY DEF SubIInv
<1>2. PICK r : r = [NoAccount EXCEPT !.id = NextId, !.start = 1, !.scan = 1]
  OBVIOUS
<1>3. /\ ~ Exists(a)
      /\ account' = [account EXCEPT ![a] = r]
      /\ KeepTables /\ UNCHANGED <<pays, creation, importing, outputs, batch, hung>>
  BY <1>2 DEF add_account
<1>4. r \in AccountRow /\ r.id = NextId /\ r.start <= r.scan
  <2>1. r = [id |-> NextId, start |-> 1, scan |-> 1, lookahead |-> NoLookahead, fail |-> 0]
    BY <1>2 DEF NoAccount
  <2>2. NextId \in Number
    BY <1>1, IdFacts
  <2> QED
    BY <2>1, <2>2 DEF AccountRow, Number, Looks
<1>5. account' \in [Addresses -> AccountRow \cup {NoAccount}] /\ IdsGiven'
  BY <1>1, <1>3, <1>4, AccountAdded
<1>6. SubRows'
  BY <1>1, <1>3, <1>5 DEF SubRows
<1>7. TablesPart'
  BY <1>1, <1>3, TablesKept
<1>8. WindowsInv'
  <2>1. CASE a # PayTo
    <3>1. account'[PayTo] = account[PayTo]
      BY <1>1, <1>3, <2>1, SubAssumption DEF SubRows
    <3> QED
      BY <1>3, <3>1, WindowsKept DEF KeepTables
  <2>2. CASE a = PayTo
    <3>1. outputs' = {} /\ batch' = NoBatch /\ account'[PayTo] = r
      BY <1>1, <1>3, <2>2, SubAssumption DEF WindowsInv, SubRows
    <3>2. WindowsAt(r, {}, NoBatch, indexes'[account'[PayTo].id])
      BY <1>4, WindowsEmpty
    <3>3. r # NoAccount
      BY <1>4 DEF AccountRow, Number, NoAccount
    <3> QED
      BY <3>1, <3>2, <3>3 DEF WindowsInv, Exists
  <2> QED
    BY <2>1, <2>2
<1> QED
  BY <1>5, <1>6, <1>7, <1>8 DEF SubIInv

LEMMA AcceptCreationStep ==
  ASSUME SubIInv, NEW a \in Addresses, accept_creation(a)
  PROVE  SubIInv'
<1>1. SubRows /\ IdsGiven /\ TablesPart /\ WindowsInv
  BY DEF SubIInv
<1>2. PICK req : req = creation[a]
  OBVIOUS
<1>3. PICK user : user = [NoAccount EXCEPT !.id = NextId, !.start = req.height, !.scan = req.height]
  OBVIOUS
<1>4. PICK t : t = do_lookahead(a, NextId, {}, req.lookahead)
  OBVIOUS
<1>5. PICK id : id = NextId
  OBVIOUS
<1>6. PICK r : r = WithLookahead(user, req.lookahead, t.result)
  OBVIOUS
<1>7. /\ req # NoRequest
      /\ creation' = [creation EXCEPT ![a] = NoRequest]
      /\ Write(id, t)
      /\ account' = IF Exists(a) THEN account ELSE [account EXCEPT ![a] = r]
      /\ UNCHANGED <<pays, importing, outputs, batch, hung, ops>>
  BY <1>2, <1>3, <1>4, <1>5, <1>6, Zenon DEF accept_creation
<1>8. req \in Request /\ req.height \in Number /\ req.lookahead \in Looks
  <2>1. req \in Request
    BY <1>2, <1>7, RequestFacts
  <2> QED
    BY <2>1 DEF Request
<1>9. id \in Ids /\ id \in Number /\ AccountTables(id)
  <2>1. id \in Ids /\ id \in Number
    BY <1>1, <1>5, IdFacts
  <2> QED
    BY <1>1, <2>1 DEF TablesPart
<1>10. Leaves(id, t)
  <2>1. {} \in SUBSET Output /\ IsFiniteSet({})
    BY FS_EmptySet
  <2> QED
    BY <1>4, <1>5, <1>8, <1>9, <2>1, LookaheadGives
<1>11. TablesPart' /\ \A j \in Ids : indexes[j] \subseteq indexes'[j]
  BY <1>1, <1>7, <1>9, <1>10, TablesWritten
<1>12. r \in AccountRow /\ r.id = NextId /\ r.start <= r.scan
  <2>1. user = [id |-> id, start |-> req.height, scan |-> req.height, lookahead |-> NoLookahead, fail |-> 0]
    BY <1>3, <1>5 DEF NoAccount
  <2>2. user \in AccountRow
    BY <1>8, <1>9, <2>1 DEF AccountRow, Looks
  <2>3. r \in AccountRow /\ r.id = user.id /\ r.start = user.start /\ r.scan = user.scan
    BY <1>6, <1>8, <2>2, LookaheadRow
  <2> QED
    BY <1>5, <1>8, <2>1, <2>3 DEF Number
<1>13. account' \in [Addresses -> AccountRow \cup {NoAccount}] /\ IdsGiven'
  <2>1. CASE Exists(a)
    BY <1>1, <1>7, <2>1 DEF SubRows, IdsGiven, Existing, Exists
  <2>2. CASE ~ Exists(a)
    BY <1>1, <1>7, <1>12, <2>2, AccountAdded
  <2> QED
    BY <2>1, <2>2
<1>14. SubRows'
  BY <1>1, <1>7, <1>13 DEF SubRows
<1>15. WindowsInv'
  <2>1. CASE Exists(a) \/ a # PayTo
    <3>1. account'[PayTo] = account[PayTo]
      BY <1>1, <1>7, <2>1, SubAssumption DEF SubRows
    <3> QED
      BY <1>7, <1>11, <3>1, WindowsKept
  <2>2. CASE ~ Exists(a) /\ a = PayTo
    <3>1. outputs' = {} /\ batch' = NoBatch /\ account'[PayTo] = r
      BY <1>1, <1>7, <2>2, SubAssumption DEF WindowsInv, SubRows
    <3>2. WindowsAt(r, {}, NoBatch, indexes'[account'[PayTo].id])
      BY <1>12, WindowsEmpty
    <3>3. r # NoAccount
      BY <1>12 DEF AccountRow, Number, NoAccount
    <3> QED
      BY <3>1, <3>2, <3>3 DEF WindowsInv, Exists
  <2> QED
    BY <2>1, <2>2
<1> QED
  BY <1>11, <1>13, <1>14, <1>15 DEF SubIInv

\* What the outputs and the batch of an invariant state say of subaddresses.
LEMMA PaidFacts ==
  ASSUME SubIInv
  PROVE  /\ \A o \in outputs : o.to # Main => o.to[1] \in Nat /\ o.to[2] \in Nat
         /\ \A o \in batch.found : o.to # Main => o.to[1] \in Nat /\ o.to[2] \in Nat
<1>1. ASSUME NEW p \in Payments \ {Nothing}, p # Main PROVE p[1] \in Nat /\ p[2] \in Nat
  BY <1>1, PaidTo DEF Subaddress
<1>2. outputs \in SUBSET Output /\ batch \in Batch \cup {NoBatch}
  BY DEF SubIInv, SubRows
<1>3. \A o \in outputs : o.to \in Payments \ {Nothing}
  BY <1>2 DEF Output
<1>4. batch.found \in SUBSET Found
  BY <1>2, BatchFacts DEF NoBatch
<1>5. \A o \in batch.found : o.to \in Payments \ {Nothing}
  BY <1>4 DEF Found
<1> QED
  BY <1>1, <1>3, <1>5

LEMMA ImportRequestStep ==
  ASSUME SubIInv, NEW a \in Addresses, NEW height \in 1..Top, NEW l \in Lookaheads, import_request(a, height, l)
  PROVE  SubIInv'
<1>1. SubRows /\ IdsGiven /\ TablesPart /\ WindowsInv
  BY DEF SubIInv
<1>2. PICK user : user = account[a]
  OBVIOUS
<1>3. PICK r : r = [user EXCEPT !.lookahead = l]
  OBVIOUS
<1>4. PICK req : req = [height |-> height, lookahead |-> l]
  OBVIOUS
<1>5. /\ Exists(a)
      /\ \/ account' = account
         \/ l[1] <= user.lookahead[1] /\ l[2] <= user.lookahead[2] /\ account' = [account EXCEPT ![a].lookahead = l]
      /\ importing' = importing \/ importing' = [importing EXCEPT ![a] = req]
      /\ KeepTables /\ UNCHANGED <<pays, creation, outputs, batch, hung>>
  BY <1>2, <1>4 DEF import_request, shrink_lookahead, Requested
<1>6. user \in AccountRow /\ a \in Existing /\ req \in Request /\ l \in Looks
  <2>1. height \in Number
    BY SubAssumption DEF Number
  <2> QED
    BY <1>2, <1>4, <1>5, <2>1, RequestFacts DEF Existing, Request, Looks
<1>7. r \in AccountRow /\ r.id = user.id /\ ([account EXCEPT ![a].lookahead = l] = [account EXCEPT ![a] = r])
  <2>1. r = [id |-> user.id, start |-> user.start, scan |-> user.scan, lookahead |-> l, fail |-> user.fail]
    BY <1>3, <1>6, RowFacts
  <2>2. r \in AccountRow
    BY <1>6, <2>1 DEF AccountRow
  <2> QED
    BY <1>2, <1>3, <2>1, <2>2
<1>8. account' \in [Addresses -> AccountRow \cup {NoAccount}] /\ IdsGiven' /\ Existing' = Existing
  <2>1. CASE account' = account
    BY <1>1, <2>1 DEF SubRows, IdsGiven, Existing, Exists
  <2>2. CASE account' = [account EXCEPT ![a].lookahead = l]
    BY <1>1, <1>2, <1>6, <1>7, <2>2, AccountChanged
  <2> QED
    BY <1>5, <2>1, <2>2
<1>9. SubRows'
  BY <1>1, <1>5, <1>6, <1>8 DEF SubRows
<1>10. TablesPart'
  BY <1>1, <1>5, TablesKept
<1>11. WindowsInv'
  <2>1. CASE account' = account \/ a # PayTo
    <3>1. account'[PayTo] = account[PayTo]
      BY <1>1, <1>5, <1>7, <2>1, SubAssumption DEF SubRows
    <3> QED
      BY <1>5, <3>1, WindowsKept DEF KeepTables
  <2>2. CASE account' # account /\ a = PayTo
    <3>1. l[1] <= user.lookahead[1] /\ l[2] <= user.lookahead[2] /\ account'[PayTo] = r
      BY <1>1, <1>5, <1>7, <2>2 DEF SubRows
    <3>2. PICK os, b, R : os = outputs /\ b = batch /\ R = indexes[user.id]
      OBVIOUS
    <3>3. WindowsAt(user, os, b, R)
      BY <1>1, <1>2, <1>5, <2>2, <3>2 DEF WindowsInv
    <3>4. /\ \A o \in os : o.to # Main => o.to[1] \in Nat /\ o.to[2] \in Nat
          /\ \A o \in b.found : o.to # Main => o.to[1] \in Nat /\ o.to[2] \in Nat
      BY <3>2, PaidFacts
    <3>5. WindowsAt(r, os, b, R)
      BY <1>3, <1>6, <3>1, <3>3, <3>4, AheadShrinks
    <3>6. outputs' = os /\ batch' = b /\ indexes'[account'[PayTo].id] = R
      BY <1>5, <1>7, <3>1, <3>2 DEF KeepTables
    <3>7. r # NoAccount
      BY <1>7 DEF AccountRow, Number, NoAccount
    <3> QED
      BY <3>1, <3>5, <3>6, <3>7 DEF WindowsInv, Exists
  <2> QED
    BY <2>1, <2>2
<1> QED
  BY <1>8, <1>9, <1>10, <1>11 DEF SubIInv

LEMMA KeptFacts ==
  ASSUME SubIInv, NEW a \in Addresses, NEW h
  PROVE  Kept(a, h) \in SUBSET Output /\ IsFiniteSet(Kept(a, h)) /\ Kept(a, h) \subseteq outputs
<1>1. outputs \in SUBSET Output /\ IsFiniteSet(outputs)
  BY DEF SubIInv, SubRows
<1>2. Kept(a, h) \subseteq outputs
  BY DEF Kept
<1>3. IsFiniteSet(Kept(a, h))
  BY <1>1, <1>2, FS_Subset
<1> QED
  BY <1>1, <1>2, <1>3

LEMMA RegrownFacts ==
  ASSUME NEW outs \in SUBSET Output, IsFiniteSet(outs)
  PROVE  Regrown(outs) \in SUBSET Output /\ IsFiniteSet(Regrown(outs))
<1>1. \A o \in outs : [o EXCEPT !.clean = TRUE] \in Output
  BY DEF Output
<1>2. Regrown(outs) \in SUBSET Output
  BY <1>1 DEF Regrown
<1> DEFINE b == [o \in outs |-> [o EXCEPT !.clean = TRUE]]
<1>3. IsFiniteSet({b[o] : o \in outs})
  <2> HIDE DEF b
  <2> QED BY FiniteImage
<1>4. {b[o] : o \in outs} = Regrown(outs)
  BY DEF Regrown
<1> QED
  BY <1>2, <1>3, <1>4

\* The batch after an import or a rescan.
LEMMA RaceFacts ==
  ASSUME SubIInv, NEW a \in Addresses, Race(a)
  PROVE  /\ batch' = IF a = PayTo THEN Raced(batch) ELSE batch
         /\ batch' \in Batch \cup {NoBatch} /\ IsFiniteSet(batch'.found)
<1>1. batch' = IF a = PayTo THEN Raced(batch) ELSE batch
  BY DEF Race, Raced
<1>2. batch \in Batch \cup {NoBatch} /\ IsFiniteSet(batch.found)
  BY DEF SubIInv, SubRows
<1>3. Raced(batch) \in Batch \cup {NoBatch} /\ Raced(batch).found = batch.found
  BY <1>2, RacedFacts
<1> QED
  BY <1>1, <1>2, <1>3

LEMMA AcceptImportStep ==
  ASSUME SubIInv, NEW a \in Addresses, accept_import(a)
  PROVE  SubIInv'
<1>1. SubRows /\ IdsGiven /\ TablesPart /\ WindowsInv
  BY DEF SubIInv
<1>2. PICK req, u : req = importing[a] /\ u = account[a]
  OBVIOUS
<1>3. PICK h, l, user, outs : /\ h = req.height /\ l = req.lookahead /\ user = Lowered(u, h)
                              /\ outs = Kept(a, h)
  OBVIOUS
<1>4. PICK id : id = user.id
  OBVIOUS
<1>5. PICK t : t = do_lookahead(a, id, outs, l)
  OBVIOUS
<1>6. PICK r : r = WithLookahead(user, l, t.result)
  OBVIOUS
<1>7. /\ req # NoRequest /\ Exists(a) /\ UNCHANGED <<pays, creation, ops>>
      /\ IF t.result = "hang"
         THEN KeepTables /\ UNCHANGED <<account, importing, outputs, batch>>
         ELSE /\ account' = [account EXCEPT ![a] = r]
              /\ importing' = [importing EXCEPT ![a] = NoRequest]
              /\ Write(id, t)
              /\ outputs' = IF a # PayTo THEN outputs
                            ELSE IF t.result = "ok" /\ l # NoLookahead THEN Regrown(outs) ELSE outs
              /\ Race(a)
  BY <1>2, <1>3, <1>4, <1>5, <1>6, Zenon DEF accept_import
<1>8. /\ req \in Request /\ h \in Number /\ l \in Looks /\ u \in AccountRow /\ a \in Existing
  <2>1. req \in Request /\ u \in AccountRow
    BY <1>2, <1>7, RequestFacts
  <2> QED
    BY <1>3, <1>7, <2>1 DEF Request, Existing
<1>9. CASE t.result = "hang"
  <2>1. KeepTables /\ UNCHANGED <<account, importing, outputs, batch, pays, creation>>
    BY <1>7, <1>9
  <2>2. SubRows' /\ IdsGiven'
    BY <1>1, <2>1 DEF SubRows, IdsGiven, Existing, Exists
  <2>3. TablesPart'
    BY <1>1, <2>1, TablesKept
  <2>4. WindowsInv'
    BY <2>1, WindowsKept DEF KeepTables
  <2> QED
    BY <2>2, <2>3, <2>4 DEF SubIInv
<1>10. CASE t.result # "hang"
  <2>1. /\ account' = [account EXCEPT ![a] = r]
        /\ importing' = [importing EXCEPT ![a] = NoRequest]
        /\ Write(id, t)
        /\ outputs' = IF a # PayTo THEN outputs
                      ELSE IF t.result = "ok" /\ l # NoLookahead THEN Regrown(outs) ELSE outs
        /\ Race(a) /\ UNCHANGED <<pays, creation>>
    BY <1>7, <1>10
  <2>2. user \in AccountRow /\ user.id = u.id
    BY <1>3, <1>8, LoweredFacts
  <2>3. r \in AccountRow /\ r.id = u.id
    BY <1>6, <1>8, <2>2, LookaheadRow
  <2>4. id \in Ids /\ AccountTables(id) /\ id = u.id
    <3>1. id \in Ids /\ id = u.id
      BY <1>1, <1>2, <1>4, <1>8, <2>2, IdFacts
    <3> QED
      BY <1>1, <3>1 DEF TablesPart
  <2>5. outs \in SUBSET Output /\ IsFiniteSet(outs)
    BY <1>3, KeptFacts
  <2>6. /\ Leaves(id, t) /\ t.result \in {"ok", "max"}
        /\ t.result = "ok" => AllAhead(a, outs, l, t.indexes)
    BY <1>5, <1>8, <1>10, <2>4, <2>5, LookaheadGives
  <2>7. TablesPart' /\ indexes' = [indexes EXCEPT ![id] = t.indexes] /\ \A j \in Ids : indexes[j] \subseteq indexes'[j]
    BY <1>1, <2>1, <2>4, <2>6, TablesWritten
  <2>8. account' \in [Addresses -> AccountRow \cup {NoAccount}] /\ IdsGiven'
    BY <1>1, <1>2, <1>8, <2>1, <2>3, AccountChanged
  <2>9. batch' \in Batch \cup {NoBatch} /\ IsFiniteSet(batch'.found) /\ batch' = IF a = PayTo THEN Raced(batch) ELSE batch
    BY <2>1, RaceFacts
  <2>10. outputs' \in SUBSET Output /\ IsFiniteSet(outputs')
    <3>1. Regrown(outs) \in SUBSET Output /\ IsFiniteSet(Regrown(outs))
      BY <2>5, RegrownFacts
    <3>2. outputs \in SUBSET Output /\ IsFiniteSet(outputs)
      BY <1>1 DEF SubRows
    <3> QED
      BY <2>1, <2>5, <3>1, <3>2
  <2>11. SubRows'
    BY <1>1, <2>1, <2>8, <2>9, <2>10 DEF SubRows
  <2>12. WindowsInv'
    <3>1. CASE a # PayTo
      <4>1. account'[PayTo] = account[PayTo] /\ outputs' = outputs /\ batch' = batch
        BY <1>1, <2>1, <2>9, <3>1, SubAssumption DEF SubRows
      <4> QED
        BY <2>7, <4>1, WindowsKept
    <3>2. CASE a = PayTo
      <4>1. PICK os, b, R, S : os = outputs /\ b = batch /\ R = indexes[id] /\ S = t.indexes
        OBVIOUS
      <4>2. WindowsAt(u, os, b, R)
        BY <1>1, <1>2, <1>7, <2>4, <3>2, <4>1 DEF WindowsInv
      <4>3. os \in SUBSET Output /\ b \in Batch \cup {NoBatch}
        BY <1>1, <4>1 DEF SubRows
      <4>4. outs = {o \in os : o.height < h}
        BY <1>3, <3>2, <4>1 DEF Kept
      <4>5. account'[PayTo] = r /\ batch' = Raced(b)
        BY <1>1, <2>1, <2>9, <3>2, <4>1 DEF SubRows
      <4>6. indexes'[account'[PayTo].id] = S
        <5>1. indexes \in [Ids -> SUBSET WatchRow]
          BY <1>1 DEF TablesPart
        <5> QED
          BY <2>3, <2>4, <2>7, <4>1, <4>5, <5>1
      <4>7. WindowsAt(r, outputs', Raced(b), S)
        <5>1. CASE l = NoLookahead
          <6>1. r = user /\ outputs' = outs
            BY <1>6, <2>1, <3>2, <5>1 DEF WithLookahead
          <6>2. WindowsAt(user, outs, Raced(b), R)
            BY <1>3, <1>8, <4>2, <4>3, <4>4, AheadLowered
          <6>3. R \subseteq S
            BY <2>6, <4>1 DEF Leaves
          <6> QED
            BY <6>1, <6>2, <6>3, AheadGrows
        <5>2. CASE l # NoLookahead
          <6>1. outputs' = IF t.result = "ok" THEN Regrown(outs) ELSE outs
            BY <2>1, <3>2, <5>2
          <6>2. t.result = "ok" => AllAhead(PayTo, {o \in os : o.height < h}, l, S)
            BY <2>6, <3>2, <4>1, <4>4
          <6>3. PICK result : result = t.result
            OBVIOUS
          <6>4. WindowsAt(WithLookahead(Lowered(u, h), l, result),
                          IF result = "ok" THEN Regrown({o \in os : o.height < h}) ELSE {o \in os : o.height < h},
                          Raced(b), S)
            BY <1>8, <2>6, <4>2, <4>3, <5>2, <6>2, <6>3, AheadImported
          <6> QED
            BY <1>3, <1>6, <4>4, <6>1, <6>3, <6>4
        <5> QED
          BY <5>1, <5>2
      <4>8. r # NoAccount
        BY <2>3 DEF AccountRow, Number, NoAccount
      <4> QED
        BY <4>5, <4>6, <4>7, <4>8 DEF WindowsInv, Exists
    <3> QED
      BY <3>1, <3>2
  <2> QED
    BY <2>7, <2>8, <2>11, <2>12 DEF SubIInv
<1> QED
  BY <1>9, <1>10

LEMMA RescanStep ==
  ASSUME SubIInv, NEW a \in Addresses, NEW h \in 1..Top, rescan(a, h)
  PROVE  SubIInv'
<1>1. SubRows /\ IdsGiven /\ TablesPart /\ WindowsInv
  BY DEF SubIInv
<1>2. PICK u, user, outs : u = account[a] /\ user = Lowered(u, h) /\ outs = Kept(a, h)
  OBVIOUS
<1>3. h \in Number
  BY SubAssumption DEF Number
<1>4. /\ Exists(a)
      /\ account' = [account EXCEPT ![a] = user]
      /\ outputs' = IF a = PayTo THEN outs ELSE outputs
      /\ Race(a) /\ KeepTables /\ UNCHANGED <<pays, creation, importing, hung>>
  BY <1>2 DEF rescan
<1>5. u \in AccountRow /\ a \in Existing
  BY <1>2, <1>4, RequestFacts DEF Existing
<1>6. user \in AccountRow /\ user.id = u.id
  BY <1>2, <1>3, <1>5, LoweredFacts
<1>7. account' \in [Addresses -> AccountRow \cup {NoAccount}] /\ IdsGiven'
  BY <1>1, <1>2, <1>4, <1>5, <1>6, AccountChanged
<1>8. batch' \in Batch \cup {NoBatch} /\ IsFiniteSet(batch'.found) /\ batch' = IF a = PayTo THEN Raced(batch) ELSE batch
  BY <1>4, RaceFacts
<1>9. outputs' \in SUBSET Output /\ IsFiniteSet(outputs')
  BY <1>1, <1>2, <1>4, KeptFacts DEF SubRows
<1>10. SubRows'
  BY <1>1, <1>4, <1>7, <1>8, <1>9 DEF SubRows
<1>11. TablesPart'
  BY <1>1, <1>4, TablesKept
<1>12. WindowsInv'
  <2>1. CASE a # PayTo
    <3>1. account'[PayTo] = account[PayTo] /\ outputs' = outputs /\ batch' = batch
      BY <1>1, <1>4, <1>8, <2>1, SubAssumption DEF SubRows
    <3> QED
      BY <1>4, <3>1, WindowsKept DEF KeepTables
  <2>2. CASE a = PayTo
    <3>1. PICK os, b, R : os = outputs /\ b = batch /\ R = indexes[u.id]
      OBVIOUS
    <3>2. WindowsAt(u, os, b, R)
      BY <1>1, <1>2, <1>4, <2>2, <3>1 DEF WindowsInv
    <3>3. os \in SUBSET Output /\ b \in Batch \cup {NoBatch}
      BY <1>1, <3>1 DEF SubRows
    <3>4. outs = {o \in os : o.height < h}
      BY <1>2, <2>2, <3>1 DEF Kept
    <3>5. account'[PayTo] = user /\ batch' = Raced(b) /\ outputs' = outs /\ indexes'[account'[PayTo].id] = R
      BY <1>1, <1>4, <1>6, <1>8, <2>2, <3>1 DEF SubRows, KeepTables
    <3>6. WindowsAt(user, outs, Raced(b), R)
      BY <1>2, <1>3, <1>5, <3>2, <3>3, <3>4, AheadLowered
    <3>7. user # NoAccount
      BY <1>6 DEF AccountRow, Number, NoAccount
    <3> QED
      BY <3>5, <3>6, <3>7 DEF WindowsInv, Exists
  <2> QED
    BY <2>1, <2>2
<1> QED
  BY <1>7, <1>10, <1>11, <1>12 DEF SubIInv

LEMMA UpsertSubaddressesStep ==
  ASSUME SubIInv, NEW a \in Addresses, NEW entries \in Seq(EntrySet), upsert_subaddresses(a, entries)
  PROVE  SubIInv'
<1>1. SubRows /\ IdsGiven /\ TablesPart /\ WindowsInv
  BY DEF SubIInv
<1>2. PICK id : id = account[a].id
  OBVIOUS
<1>3. PICK s \in ByMajor(entries) :
        LET t == do_upsert(a, id, [i \in DOMAIN s |-> entries[s[i]]])
        IN  IF t.result = "ok" THEN Write(id, t) ELSE KeepTables
  BY <1>2 DEF upsert_subaddresses
<1>4. Exists(a) /\ UNCHANGED <<pays, account, creation, importing, outputs, batch, hung>>
  BY DEF upsert_subaddresses
<1>5. PICK sorted : sorted = [i \in DOMAIN s |-> entries[s[i]]]
  OBVIOUS
<1>6. PICK t : t = do_upsert(a, id, sorted)
  OBVIOUS
<1>7. IF t.result = "ok" THEN Write(id, t) ELSE KeepTables
  BY <1>3, <1>5, <1>6
<1>8. sorted \in Seq(EntrySet)
  <2>1. DOMAIN entries = 1..Len(entries) /\ Len(entries) \in Nat
    BY LenProperties
  <2>2. IsFiniteSet(DOMAIN entries)
    BY <2>1, FiniteUpTo
  <2>3. PICK n : n = Cardinality(DOMAIN entries)
    OBVIOUS
  <2>4. n \in Nat /\ s \in [1..n -> DOMAIN entries]
    <3>1. s \in SetToSeqs(DOMAIN entries)
      BY DEF ByMajor
    <3>2. n \in Nat
      BY <2>2, <2>3, FS_CardinalityType
    <3> QED
      BY <2>3, <3>1, <3>2 DEF SetToSeqs
  <2>5. sorted = [i \in 1..n |-> sorted[i]] /\ \A i \in 1..n : sorted[i] \in EntrySet
    BY <1>5, <2>1, <2>4, ElementOfSeq
  <2> QED
    BY <2>4, <2>5
<1>9. TablesPart' /\ \A j \in Ids : indexes[j] \subseteq indexes'[j]
  <2>1. CASE t.result = "ok"
    <3>1. a \in Existing
      BY <1>4 DEF Existing
    <3>2. id \in Ids /\ AccountTables(id)
      <4>1. id \in Ids
        BY <1>1, <1>2, <3>1, IdFacts
      <4> QED
        BY <1>1, <4>1 DEF TablesPart
    <3>3. Leaves(id, t)
      BY <1>6, <1>8, <2>1, <3>2, UpsertGives
    <3> QED
      BY <1>1, <1>7, <2>1, <3>2, <3>3, TablesWritten
  <2>2. CASE t.result # "ok"
    <3>1. KeepTables
      BY <1>7, <2>2
    <3> QED
      BY <1>1, <3>1, TablesKept DEF KeepTables
  <2> QED
    BY <2>1, <2>2
<1>10. SubRows' /\ IdsGiven'
  BY <1>1, <1>4 DEF SubRows, IdsGiven, Existing, Exists
<1>11. WindowsInv'
  BY <1>4, <1>9, WindowsKept
<1> QED
  BY <1>9, <1>10, <1>11 DEF SubIInv

LEMMA ProvisionStep ==
  ASSUME SubIInv, NEW a \in Addresses, NEW major \in 0..1, NEW n \in 1..2, provision_subaddrs(a, major, 1, n, 1)
  PROVE  SubIInv'
<1> DEFINE entries == [i \in 1..n |-> Entry(major + i - 1, 1, 1 + 1 - 1)]
<1>1. upsert_subaddresses(a, entries)
  BY DEF provision_subaddrs
<1>2. entries \in Seq(EntrySet)
  <2>1. ASSUME NEW i \in 1..n PROVE Entry(major + i - 1, 1, 1 + 1 - 1) \in EntrySet
    <3>1. major + i - 1 \in Majors
      BY SubAssumption DEF Majors
    <3>2. PICK rs : rs = <<<<1, 1 + 1 - 1>>>>
      OBVIOUS
    <3>3. rs \in Seq(Pairs)
      BY <3>2, OneRange DEF Pairs
    <3>4. Entry(major + i - 1, 1, 1 + 1 - 1) = [major |-> major + i - 1, ranges |-> rs]
      BY <3>2 DEF Entry
    <3> QED
      BY <3>1, <3>3, <3>4 DEF EntrySet
  <2>2. n \in Nat
    OBVIOUS
  <2> QED
    BY <2>1, <2>2
<1> HIDE DEF entries
<1> QED
  BY <1>1, <1>2, UpsertSubaddressesStep

LEMMA BeginBatchStep ==
  ASSUME SubIInv, BeginBatch
  PROVE  SubIInv'
<1>1. SubRows /\ IdsGiven /\ TablesPart /\ WindowsInv
  BY DEF SubIInv
<1>2. PICK u, R : u = account[PayTo] /\ R = indexes[u.id]
  OBVIOUS
<1>3. PICK b : b = [from |-> u.scan, next |-> u.scan + 1, snapshot |-> R, found |-> {}, raced |-> FALSE]
  OBVIOUS
<1>4. /\ Exists(PayTo) /\ batch = NoBatch
      /\ batch' = b
      /\ KeepTables /\ UNCHANGED <<pays, account, creation, importing, outputs, hung, ops>>
  BY <1>2, <1>3 DEF BeginBatch
<1>5. PayTo \in Existing /\ u \in AccountRow /\ u.id \in Ids
  <2>1. PayTo \in Existing
    BY <1>4, SubAssumption DEF Existing
  <2> QED
    BY <1>1, <1>2, <2>1, IdFacts
<1>6. b \in Batch /\ b.found = {}
  <2>1. u.scan \in Nat /\ u.scan # 0
    BY <1>5, RowFacts
  <2>2. u.scan \in Number /\ u.scan + 1 \in Number \ {1}
    BY <2>1 DEF Number
  <2>3. R \in SUBSET WatchRow
    BY <1>1, <1>2, <1>5 DEF TablesPart
  <2> QED
    BY <1>3, <2>2, <2>3 DEF Batch
<1>7. SubRows' /\ IdsGiven'
  <2>1. IsFiniteSet(b.found)
    BY <1>6, FS_EmptySet
  <2> QED
    BY <1>1, <1>4, <1>6, <2>1 DEF SubRows, IdsGiven, Existing, Exists
<1>8. TablesPart'
  BY <1>1, <1>4, TablesKept
<1>9. WindowsInv'
  <2>1. PICK os : os = outputs
    OBVIOUS
  <2>2. WindowsAt(u, os, NoBatch, R)
    BY <1>1, <1>2, <1>4, <2>1 DEF WindowsInv
  <2>3. u.start <= u.scan /\ u.start \in Nat /\ u.scan \in Nat
    BY <1>5, <2>2, RowFacts DEF WindowsAt
  <2>4. b.from = u.scan /\ b.next = u.scan + 1 /\ b.found = {}
    BY <1>3
  <2>5. u.start <= b.from /\ b.from < b.next
    BY <2>3, <2>4
  <2>6. Windowed(u, b.found, R)
    BY <2>4 DEF Windowed
  <2>7. WindowsAt(u, os, b, R)
    BY <2>2, <2>4, <2>5, <2>6 DEF WindowsAt
  <2>8. account'[PayTo] = u /\ outputs' = os /\ batch' = b /\ indexes'[account'[PayTo].id] = R
    BY <1>2, <1>4, <2>1 DEF KeepTables
  <2> QED
    BY <1>4, <2>7, <2>8 DEF WindowsInv, Exists
<1> QED
  BY <1>7, <1>8, <1>9 DEF SubIInv

\* The window that a match asks for.
LEMMA WindowGives ==
  ASSUME NEW id, AccountTables(id), NEW match, Subaddress(match), NEW l \in Looks, l[1] # 0, l[2] # 0
  PROVE  LET t == do_upsert(PayTo, id, Window(match, l)) IN
         /\ Leaves(id, t)
         /\ t.result = "ok" => Ahead(PayTo, match, l, t.indexes)
<1> DEFINE es == Window(match, l)
           t == do_upsert(PayTo, id, es)
<1>1. PICK p, q : p = match[1] /\ q = match[2]
  OBVIOUS
<1>2. PICK c, d : c = l[1] /\ d = l[2]
  OBVIOUS
<1>3. /\ p \in Nat /\ q \in Nat /\ c \in Nat /\ d \in Nat /\ d # 0 /\ c # 0
      /\ p + c <= MajorTop + 1 /\ MajorTop \in Nat
  <2>1. l \in Lookaheads /\ l \in Nat \X Nat
    BY SubAssumption DEF Looks, NoLookahead
  <2> QED
    BY <1>1, <1>2, <2>1, SubAssumption DEF Subaddress
<1>4. PICK n : n = p + c
  OBVIOUS
<1> DEFINE h == [i \in 1..n |-> IF i - 1 = p THEN q + d - 1 ELSE d - 1]
<1>5. n \in Nat /\ n <= MajorTop + 1 /\ h \in [1..n -> Nat]
  <2>1. n \in Nat /\ n <= MajorTop + 1
    BY <1>3, <1>4
  <2>2. \A i \in 1..n : (IF i - 1 = p THEN q + d - 1 ELSE d - 1) \in Nat
    BY <1>3, <2>1
  <2> QED
    BY <2>1, <2>2
<1>6. es = [i \in 1..n |-> Entry(i - 1, 0, h[i])]
  BY <1>1, <1>2, <1>4 DEF Window
<1>7. \A i \in 1..n : h[i] = IF i - 1 = p THEN q + d - 1 ELSE d - 1
  OBVIOUS
<1> HIDE DEF es, h
<1>8. /\ es \in Seq(EntrySet) /\ OnePerMajor(es)
      /\ Watches(PayTo, es, t) => \A i \in 1..n : \A x \in 0..h[i] : <<PayTo, i - 1, x>> \in t.indexes
  BY <1>5, <1>6, WindowEntries
<1>9. Leaves(id, t) /\ (t.result = "ok" => Watches(PayTo, es, t))
  BY <1>8, UpsertGives, SubAssumption
<1>10. ASSUME t.result = "ok" PROVE Ahead(PayTo, match, l, t.indexes)
  <2>1. \A i \in 1..n : \A x \in 0..h[i] : <<PayTo, i - 1, x>> \in t.indexes
    BY <1>8, <1>9, <1>10
  <2> HIDE DEF t
  <2>2. SUFFICES ASSUME NEW mj \in 0..p + c - 1, NEW x \in 0..(IF mj = p THEN q + d ELSE d) - 1
                 PROVE  <<PayTo, mj, x>> \in t.indexes
    BY <1>1, <1>2 DEF Ahead
  <2>3. mj + 1 \in 1..n /\ mj + 1 - 1 = mj /\ mj \in Nat /\ x \in Nat
    BY <1>3, <1>4
  <2>4. x \in 0..(IF mj + 1 - 1 = p THEN q + d - 1 ELSE d - 1)
    BY <1>3, <2>3
  <2>5. x \in 0..h[mj + 1]
    BY <1>7, <2>3, <2>4
  <2> QED
    BY <2>1, <2>3, <2>5
<1> QED
  BY <1>9, <1>10 DEF es

\* A step of the batch, whatever it writes.
LEMMA ScannedStep ==
  ASSUME SubIInv, batch # NoBatch, NEW u, u = account[PayTo],
         NEW v \in AccountRow, v.id = u.id, v.start = u.start, v.scan = u.scan, v.lookahead = u.lookahead,
         \A x \in Nat : v.fail = 0 \/ x < v.fail => u.fail = 0 \/ x < u.fail,
         account' = [account EXCEPT ![PayTo] = v],
         NEW new \in SUBSET Found, IsFiniteSet(new), \A o \in new : o.height = batch.next,
         NEW snapshot \in SUBSET WatchRow,
         batch' = [from |-> batch.from, next |-> batch.next + 1, snapshot |-> snapshot,
                   found |-> batch.found \cup new, raced |-> batch.raced],
         TablesPart', \A j \in Ids : indexes[j] \subseteq indexes'[j],
         Windowed(v, new, indexes'[u.id]),
         UNCHANGED <<pays, creation, importing, outputs>>
  PROVE  SubIInv'
<1>1. SubRows /\ IdsGiven /\ TablesPart /\ WindowsInv
  BY DEF SubIInv
<1>2. Exists(PayTo) /\ PayTo \in Existing /\ u \in AccountRow /\ u.id \in Ids
  <2>1. Exists(PayTo)
    BY <1>1 DEF WindowsInv
  <2>2. PayTo \in Existing
    BY <2>1, SubAssumption DEF Existing
  <2> QED
    BY <1>1, <2>1, <2>2, IdFacts
<1>3. PICK b, os, R : b = batch /\ os = outputs /\ R = indexes[u.id]
  OBVIOUS
<1>4. PICK S : S = indexes'[u.id]
  OBVIOUS
<1>5. PICK c : c = [from |-> b.from, next |-> b.next + 1, snapshot |-> snapshot,
                    found |-> b.found \cup new, raced |-> b.raced]
  OBVIOUS
<1>6. b \in Batch /\ IsFiniteSet(b.found) /\ batch' = c /\ os \in SUBSET Output
  BY <1>1, <1>3, <1>5 DEF SubRows
<1>7. /\ b.from \in Number /\ b.next \in Nat /\ b.next # 0 /\ b.found \in SUBSET Found /\ b.raced \in BOOLEAN
  BY <1>6, BatchFacts DEF Batch
<1>8. c \in Batch /\ IsFiniteSet(c.found)
  <2>1. b.next + 1 \in Number \ {1}
    BY <1>7 DEF Number
  <2>2. IsFiniteSet(b.found \cup new)
    BY <1>6, FS_Union
  <2> QED
    BY <1>5, <1>7, <2>1, <2>2 DEF Batch
<1>9. account' \in [Addresses -> AccountRow \cup {NoAccount}] /\ IdsGiven'
  BY <1>1, <1>2, AccountChanged
<1>10. SubRows'
  BY <1>1, <1>6, <1>8, <1>9 DEF SubRows
<1>11. WindowsInv'
  <2>1. WindowsAt(u, os, b, R)
    BY <1>1, <1>2, <1>3 DEF WindowsInv
  <2>2. R \subseteq S
    BY <1>2, <1>3, <1>4
  <2>3. c.from = b.from /\ c.next = b.next + 1 /\ c.raced = b.raced /\ c.found = b.found \cup new
    BY <1>5
  <2>4. \A o \in new : o.height = b.next
    BY <1>3
  <2>5. Windowed(v, new, S)
    BY <1>4
  <2>6. WindowsAt(v, os, c, S)
    BY <1>2, <1>6, <2>1, <2>2, <2>3, <2>4, <2>5, AheadScanned
  <2>7. account'[PayTo] = v /\ outputs' = os /\ batch' = c /\ indexes'[account'[PayTo].id] = S
    BY <1>1, <1>3, <1>4, <1>6, SubAssumption DEF SubRows
  <2>8. v # NoAccount
    BY DEF AccountRow, Number, NoAccount
  <2> QED
    BY <2>6, <2>7, <2>8 DEF WindowsInv, Exists
<1> QED
  BY <1>9, <1>10, <1>11 DEF SubIInv

LEMMA ScanBlockStep ==
  ASSUME SubIInv, ScanBlock
  PROVE  SubIInv'
<1>1. SubRows /\ IdsGiven /\ TablesPart /\ WindowsInv
  BY DEF SubIInv
<1>2. PICK b, height : b = batch /\ height = b.next
  OBVIOUS
<1>3. PICK to : to = pays[height]
  OBVIOUS
<1>4. PICK o : o = [height |-> height, to |-> to]
  OBVIOUS
<1>5. PICK u : u = account[PayTo]
  OBVIOUS
<1>6. /\ batch # NoBatch /\ height <= Top
      /\ CASE to # Main /\ to # Nothing /\ <<PayTo, to[1], to[2]>> \in b.snapshot -> update_lookahead(to, height)
           [] to = Main ->
                /\ batch' = [b EXCEPT !.next = height + 1, !.found = @ \cup {o}]
                /\ KeepTables /\ UNCHANGED account
           [] OTHER ->
                /\ batch' = [b EXCEPT !.next = height + 1]
                /\ KeepTables /\ UNCHANGED account
      /\ UNCHANGED <<pays, creation, importing, outputs>>
  BY <1>2, <1>3, <1>4 DEF ScanBlock
<1>7. b \in Batch /\ to \in Payments /\ height \in Nat /\ height # 0
  <2>1. b \in Batch
    BY <1>1, <1>2, <1>6 DEF SubRows
  <2>2. height \in Nat /\ height # 0 /\ height # 1
    BY <1>2, <2>1, BatchFacts
  <2>3. height \in 2..Top
    BY <1>6, <2>2, SubAssumption
  <2> QED
    BY <1>1, <1>3, <2>1, <2>2, <2>3 DEF SubRows
<1>8. /\ b.snapshot \in SUBSET WatchRow
      /\ b = [from |-> b.from, next |-> b.next, snapshot |-> b.snapshot, found |-> b.found, raced |-> b.raced]
  BY <1>7, BatchFacts
<1>9. Exists(PayTo) /\ PayTo \in Existing /\ u \in AccountRow /\ u.id \in Ids
  <2>1. Exists(PayTo)
    BY <1>1, <1>6 DEF WindowsInv
  <2>2. PayTo \in Existing
    BY <2>1, SubAssumption DEF Existing
  <2> QED
    BY <1>1, <1>5, <2>1, <2>2, IdFacts
<1>10. [account EXCEPT ![PayTo] = u] = account
  BY <1>1, <1>5 DEF SubRows
<1>11. /\ {o} \in SUBSET Found \/ to = Nothing
       /\ IsFiniteSet({o}) /\ \A x \in {o} : x.height = batch.next
       /\ {} \in SUBSET Found /\ IsFiniteSet({}) /\ \A x \in {} : x.height = batch.next
  <2>1. to # Nothing => o \in Found
    BY <1>4, <1>7 DEF Found
  <2> QED
    BY <1>2, <1>4, <2>1, FS_Singleton, FS_EmptySet
\* The batch after a block, with or without an output, with or without new rows.
<1>12. ASSUME NEW s, NEW new
       PROVE  [b EXCEPT !.next = height + 1, !.snapshot = s, !.found = @ \cup new]
                = [from |-> batch.from, next |-> batch.next + 1, snapshot |-> s,
                   found |-> batch.found \cup new, raced |-> batch.raced]
  <2>1. PICK f, m, r0, fd, r : f = b.from /\ m = b.next /\ r0 = b.snapshot /\ fd = b.found /\ r = b.raced
    OBVIOUS
  <2>2. b = [from |-> f, next |-> m, snapshot |-> r0, found |-> fd, raced |-> r]
    BY <1>8, <2>1
  <2>3. PICK x : x = [b EXCEPT !.next = height + 1, !.snapshot = s, !.found = @ \cup new]
    OBVIOUS
  <2>4. x = [from |-> f, next |-> height + 1, snapshot |-> s, found |-> fd \cup new, raced |-> r]
    BY <2>1, <2>2, <2>3
  <2> QED
    BY <1>2, <2>1, <2>3, <2>4
<1>13. /\ [b EXCEPT !.next = height + 1, !.found = @ \cup {o}]
            = [from |-> batch.from, next |-> batch.next + 1, snapshot |-> b.snapshot,
               found |-> batch.found \cup {o}, raced |-> batch.raced]
       /\ [b EXCEPT !.next = height + 1]
            = [from |-> batch.from, next |-> batch.next + 1, snapshot |-> b.snapshot,
               found |-> batch.found \cup {}, raced |-> batch.raced]
  <2>1. PICK f, m, r0, fd, r : f = b.from /\ m = b.next /\ r0 = b.snapshot /\ fd = b.found /\ r = b.raced
    OBVIOUS
  <2>2. b = [from |-> f, next |-> m, snapshot |-> r0, found |-> fd, raced |-> r]
    BY <1>8, <2>1
  <2>3. PICK x : x = [b EXCEPT !.next = height + 1, !.found = @ \cup {o}]
    OBVIOUS
  <2>4. PICK y : y = [b EXCEPT !.next = height + 1]
    OBVIOUS
  <2>5. x = [from |-> f, next |-> height + 1, snapshot |-> r0, found |-> fd \cup {o}, raced |-> r]
    BY <2>1, <2>2, <2>3
  <2>6. y = [from |-> f, next |-> height + 1, snapshot |-> r0, found |-> fd \cup {}, raced |-> r]
    BY <2>2, <2>4
  <2> QED
    BY <1>2, <2>1, <2>3, <2>4, <2>5, <2>6
<1>14. CASE to # Main /\ to # Nothing /\ <<PayTo, to[1], to[2]>> \in b.snapshot
  <2>1. update_lookahead(to, height)
    BY <1>6, <1>14, Zenon
  <2>2. PICK t : t = do_upsert(PayTo, u.id, Window(to, u.lookahead))
    OBVIOUS
  <2>3. PICK small : small = (u.lookahead[1] * u.lookahead[2] <= MaxSubaddresses)
    OBVIOUS
  <2>4. PICK renewed : renewed = IF t.out = << >> THEN b.snapshot ELSE t.indexes
    OBVIOUS
  <2>5. (CASE u.lookahead[1] = 0 \/ u.lookahead[2] = 0 ->
               /\ KeepTables /\ UNCHANGED account
               /\ batch' = [b EXCEPT !.next = height + 1, !.found = @ \cup {o}]
          [] u.lookahead[1] # 0 /\ u.lookahead[2] # 0 /\ small /\ t.result = "ok" ->
               /\ Write(u.id, t) /\ UNCHANGED account
               /\ batch' = [b EXCEPT !.next = height + 1, !.snapshot = renewed, !.found = @ \cup {o}]
          [] OTHER ->
               /\ IF small THEN Write(u.id, t) ELSE KeepTables
               /\ account' = [account EXCEPT ![PayTo].fail = Earlier(@, height)]
               /\ batch' = [b EXCEPT !.next = height + 1, !.found = @ \cup {o}])
    BY <1>2, <1>4, <1>5, <2>1, <2>2, <2>3, <2>4, Zenon DEF update_lookahead, Renewed
  <2>6. {o} \in SUBSET Found
    BY <1>11, <1>14
  <2>7. CASE u.lookahead[1] = 0 \/ u.lookahead[2] = 0
    <3>1. /\ KeepTables /\ UNCHANGED account
          /\ batch' = [b EXCEPT !.next = height + 1, !.found = @ \cup {o}]
      BY <2>5, <2>7, Zenon
    <3>2. TablesPart' /\ \A j \in Ids : indexes[j] \subseteq indexes'[j]
      BY <1>1, <3>1, TablesKept DEF KeepTables
    <3>3. Windowed(u, {o}, indexes'[u.id])
      BY <2>7 DEF Windowed
    <3>4. account' = [account EXCEPT ![PayTo] = u] /\ UNCHANGED <<pays, creation, importing, outputs>>
      BY <1>6, <1>10, <3>1
    <3>5. batch' = [from |-> batch.from, next |-> batch.next + 1, snapshot |-> b.snapshot,
                    found |-> batch.found \cup {o}, raced |-> batch.raced]
      BY <1>13, <3>1
    <3> QED
      BY <1>5, <1>6, <1>8, <1>9, <1>11, <2>6, <3>2, <3>3, <3>4, <3>5, ScannedStep
  <2>8. CASE ~ (u.lookahead[1] = 0 \/ u.lookahead[2] = 0)
    <3>1. Subaddress(to)
      BY <1>7, <1>14, PaidTo
    <3>2. AccountTables(u.id)
      BY <1>1, <1>9 DEF TablesPart
    <3>3. u.lookahead \in Looks
      BY <1>9, RowFacts
    <3>4. /\ Leaves(u.id, t)
          /\ t.result = "ok" => Ahead(PayTo, to, u.lookahead, t.indexes)
      BY <2>2, <2>8, <3>1, <3>2, <3>3, WindowGives
    <3>5. t.indexes \in SUBSET WatchRow
      BY <3>4 DEF Leaves
    <3>6. CASE small /\ t.result = "ok"
      <4>1. /\ Write(u.id, t) /\ UNCHANGED account
            /\ batch' = [b EXCEPT !.next = height + 1, !.snapshot = renewed, !.found = @ \cup {o}]
        BY <2>5, <2>8, <3>6, Zenon
      <4>2. TablesPart' /\ (\A j \in Ids : indexes[j] \subseteq indexes'[j]) /\ indexes' = [indexes EXCEPT ![u.id] = t.indexes]
        BY <1>1, <1>9, <3>4, <4>1, TablesWritten
      <4>3. indexes'[u.id] = t.indexes
        <5>1. indexes \in [Ids -> SUBSET WatchRow]
          BY <1>1 DEF TablesPart
        <5> QED
          BY <1>9, <4>2, <5>1
      <4>4. Windowed(u, {o}, indexes'[u.id])
        BY <1>4, <3>4, <3>6, <4>3 DEF Windowed, Repaired
      <4>5. account' = [account EXCEPT ![PayTo] = u] /\ UNCHANGED <<pays, creation, importing, outputs>>
        BY <1>6, <1>10, <4>1
      <4>6. renewed \in SUBSET WatchRow
        BY <1>8, <2>4, <3>5
      <4>7. batch' = [from |-> batch.from, next |-> batch.next + 1, snapshot |-> renewed,
                      found |-> batch.found \cup {o}, raced |-> batch.raced]
        BY <1>12, <4>1
      <4> QED
        BY <1>5, <1>6, <1>9, <1>11, <2>6, <4>2, <4>4, <4>5, <4>6, <4>7, ScannedStep
    <3>7. CASE ~ (small /\ t.result = "ok")
      <4>1. /\ IF small THEN Write(u.id, t) ELSE KeepTables
            /\ account' = [account EXCEPT ![PayTo].fail = Earlier(@, height)]
            /\ batch' = [b EXCEPT !.next = height + 1, !.found = @ \cup {o}]
        BY <2>5, <2>8, <3>7, Zenon
      <4>2. TablesPart' /\ \A j \in Ids : indexes[j] \subseteq indexes'[j]
        <5>1. CASE small
          BY <1>1, <1>9, <3>4, <4>1, <5>1, TablesWritten
        <5>2. CASE ~ small
          <6>1. KeepTables
            BY <4>1, <5>2
          <6> QED
            BY <1>1, <6>1, TablesKept DEF KeepTables
        <5> QED
          BY <5>1, <5>2
      <4>3. PICK e : e = Earlier(u.fail, height)
        OBVIOUS
      <4>4. u.fail \in Nat
        BY <1>9, RowFacts
      <4>5. e \in Nat /\ e # 0 /\ e <= height /\ \A x \in Nat : x < e => u.fail = 0 \/ x < u.fail
        BY <1>7, <4>3, <4>4, EarlierFacts
      <4>6. PICK v : v = [id |-> u.id, start |-> u.start, scan |-> u.scan, lookahead |-> u.lookahead, fail |-> e]
        OBVIOUS
      <4>7. /\ v \in AccountRow /\ v.id = u.id /\ v.start = u.start /\ v.scan = u.scan
            /\ v.lookahead = u.lookahead /\ v.fail = e
        BY <1>9, <4>5, <4>6 DEF AccountRow
      <4>8. account' = [account EXCEPT ![PayTo] = v]
        <5>1. v = [u EXCEPT !.fail = e]
          BY <1>9, <4>6, RowFacts
        <5> QED
          BY <1>5, <4>1, <4>3, <5>1
      <4>9. \A x \in Nat : v.fail = 0 \/ x < v.fail => u.fail = 0 \/ x < u.fail
        BY <4>5, <4>7
      <4>10. Windowed(v, {o}, indexes'[u.id])
        <5>1. o.height = height /\ ~ height < e
          BY <1>4, <1>7, <4>5
        <5>2. ~ (v.fail = 0 \/ o.height < v.fail)
          BY <4>5, <4>7, <5>1
        <5> QED
          BY <5>2 DEF Windowed, Repaired
      <4>11. batch' = [from |-> batch.from, next |-> batch.next + 1, snapshot |-> b.snapshot,
                       found |-> batch.found \cup {o}, raced |-> batch.raced]
        BY <1>13, <4>1
      <4>12. UNCHANGED <<pays, creation, importing, outputs>>
        BY <1>6
      <4> QED
        BY <1>5, <1>6, <1>8, <1>11, <2>6, <4>2, <4>7, <4>8, <4>9, <4>10, <4>11, <4>12, ScannedStep
    <3> QED
      BY <3>6, <3>7
  <2> QED
    BY <2>7, <2>8
<1>15. CASE ~ (to # Main /\ to # Nothing /\ <<PayTo, to[1], to[2]>> \in b.snapshot)
  <2>1. \/ to = Main /\ batch' = [b EXCEPT !.next = height + 1, !.found = @ \cup {o}]
        \/ batch' = [b EXCEPT !.next = height + 1]
    BY <1>6, <1>15
  <2>2. KeepTables /\ UNCHANGED account /\ UNCHANGED <<pays, creation, importing, outputs>>
    BY <1>6, <1>15
  <2>3. TablesPart' /\ \A j \in Ids : indexes[j] \subseteq indexes'[j]
    BY <1>1, <2>2, TablesKept DEF KeepTables
  <2>4. account' = [account EXCEPT ![PayTo] = u]
    BY <1>10, <2>2
  <2>5. PICK new : \/ to = Main /\ new = {o} /\ batch' = [b EXCEPT !.next = height + 1, !.found = @ \cup {o}]
                   \/ new = {} /\ batch' = [b EXCEPT !.next = height + 1]
    BY <2>1
  <2>6. batch' = [from |-> batch.from, next |-> batch.next + 1, snapshot |-> b.snapshot,
                  found |-> batch.found \cup new, raced |-> batch.raced]
    BY <1>13, <2>5
  <2>7. new \in SUBSET Found /\ IsFiniteSet(new) /\ \A x \in new : x.height = batch.next
    BY <1>11, <2>5 DEF Main, Nothing
  <2>8. Windowed(u, new, indexes'[u.id])
    BY <1>4, <2>5 DEF Windowed, Repaired
  <2> QED
    BY <1>5, <1>6, <1>8, <1>9, <2>2, <2>3, <2>4, <2>6, <2>7, <2>8, ScannedStep
<1> QED
  BY <1>14, <1>15

LEMMA UpdateStep ==
  ASSUME SubIInv, Update
  PROVE  SubIInv'
<1>1. SubRows /\ IdsGiven /\ TablesPart /\ WindowsInv
  BY DEF SubIInv
<1>2. PICK u, b, os : u = account[PayTo] /\ b = batch /\ os = outputs
  OBVIOUS
<1>3. PICK last, v : last = b.next - 1 /\ v = [u EXCEPT !.scan = last]
  OBVIOUS
<1>4. PICK fresh : fresh = {f \in b.found : \A p \in os : p.height # f.height}
  OBVIOUS
<1> DEFINE applies == b.from <= u.scan /\ u.scan < last
<1>6. /\ batch # NoBatch
      /\ account' = IF applies THEN [account EXCEPT ![PayTo].scan = last] ELSE account
      /\ outputs' = IF applies THEN os \cup Added(b, fresh) ELSE os
      /\ batch' = NoBatch
      /\ KeepTables /\ UNCHANGED <<pays, creation, importing, hung>>
  BY <1>2, <1>3, <1>4, Zenon DEF Update, Added
<1>7. b \in Batch /\ IsFiniteSet(b.found) /\ os \in SUBSET Output /\ IsFiniteSet(os)
  BY <1>1, <1>2, <1>6 DEF SubRows
<1>8. Exists(PayTo) /\ PayTo \in Existing /\ u \in AccountRow /\ u.id \in Ids
  <2>1. Exists(PayTo)
    BY <1>1, <1>6 DEF WindowsInv
  <2>2. PayTo \in Existing
    BY <2>1, SubAssumption DEF Existing
  <2> QED
    BY <1>1, <1>2, <2>1, <2>2, IdFacts
<1>9. last \in Number
  BY <1>3, <1>7, BatchFacts DEF Number
<1>10. v \in AccountRow /\ v.id = u.id /\ v.start = u.start /\ v.lookahead = u.lookahead /\ v.fail = u.fail /\ v.scan = last
  <2>1. v = [id |-> u.id, start |-> u.start, scan |-> last, lookahead |-> u.lookahead, fail |-> u.fail]
    BY <1>3, <1>8, RowFacts
  <2> QED
    BY <1>8, <1>9, <2>1 DEF AccountRow
<1>11. [account EXCEPT ![PayTo].scan = last] = [account EXCEPT ![PayTo] = v]
  BY <1>2, <1>3
<1>12. account' \in [Addresses -> AccountRow \cup {NoAccount}] /\ IdsGiven'
  <2>1. CASE applies
    <3>1. account' = [account EXCEPT ![PayTo] = v]
      BY <1>6, <1>11, <2>1
    <3> QED
      BY <1>1, <1>2, <1>8, <1>10, <3>1, AccountChanged
  <2>2. CASE ~ applies
    BY <1>1, <1>6, <2>2 DEF SubRows, IdsGiven, Existing, Exists
  <2> QED
    BY <2>1, <2>2
<1>13. Added(b, fresh) \in SUBSET Output /\ IsFiniteSet(Added(b, fresh))
  <2>1. fresh \in SUBSET b.found /\ b.found \in SUBSET Found /\ b.raced \in BOOLEAN
    BY <1>4, <1>7, BatchFacts
  <2>2. \A o \in fresh : [height |-> o.height, to |-> o.to, clean |-> ~ b.raced] \in Output
    BY <2>1 DEF Found, Output
  <2> DEFINE g == [o \in fresh |-> [height |-> o.height, to |-> o.to, clean |-> ~ b.raced]]
  <2>3. IsFiniteSet({g[o] : o \in fresh})
    <3>1. IsFiniteSet(fresh)
      BY <1>7, <2>1, FS_Subset
    <3> HIDE DEF g
    <3> QED BY <3>1, FiniteImage
  <2>4. {g[o] : o \in fresh} = Added(b, fresh)
    BY DEF Added
  <2> QED
    BY <2>2, <2>3, <2>4 DEF Added
<1>14. SubRows'
  <2>1. IsFiniteSet(os \cup Added(b, fresh))
    BY <1>7, <1>13, FS_Union
  <2>2. outputs' \in SUBSET Output /\ IsFiniteSet(outputs')
    BY <1>6, <1>7, <1>13, <2>1
  <2>3. NoBatch.found = {} /\ IsFiniteSet({})
    BY FS_EmptySet DEF NoBatch
  <2> QED
    BY <1>1, <1>6, <1>12, <2>2, <2>3 DEF SubRows
<1>15. TablesPart'
  BY <1>1, <1>6, TablesKept
<1>16. WindowsInv'
  <2>1. PICK R : R = indexes[u.id]
    OBVIOUS
  <2>2. WindowsAt(u, os, b, R)
    BY <1>1, <1>2, <1>8, <2>1 DEF WindowsInv
  <2>3. CASE applies
    <3>1. u.scan \in Nat /\ last \in Nat /\ u.scan <= v.scan /\ v.scan \in Nat
      BY <1>8, <1>9, <1>10, <2>3, RowFacts DEF Number
    <3>2. fresh \in SUBSET b.found
      BY <1>4
    <3>3. WindowsAt(v, os \cup Added(b, fresh), NoBatch, R)
      BY <1>7, <1>8, <1>10, <2>2, <3>1, <3>2, AheadStored
    <3>4. account'[PayTo] = v /\ indexes'[account'[PayTo].id] = R
      BY <1>1, <1>2, <1>6, <1>10, <1>11, <2>1, <2>3, SubAssumption DEF SubRows, KeepTables
    <3>5. v # NoAccount
      BY <1>10 DEF AccountRow, Number, NoAccount
    <3> QED
      BY <1>6, <2>3, <3>3, <3>4, <3>5 DEF WindowsInv, Exists
  <2>4. CASE ~ applies
    <3>1. {} \in SUBSET b.found /\ u.scan <= u.scan /\ u.scan \in Nat
      BY <1>8, RowFacts
    <3>2. WindowsAt(u, os \cup Added(b, {}), NoBatch, R)
      BY <1>7, <1>8, <2>2, <3>1, AheadStored
    <3>3. os \cup Added(b, {}) = os
      BY DEF Added
    <3>4. account'[PayTo] = u /\ indexes'[account'[PayTo].id] = R /\ outputs' = os
      BY <1>2, <1>6, <2>1, <2>4 DEF KeepTables
    <3> QED
      BY <1>2, <1>6, <1>8, <3>2, <3>3, <3>4 DEF WindowsInv, Exists
  <2> QED
    BY <2>3, <2>4
<1> QED
  BY <1>12, <1>14, <1>15, <1>16 DEF SubIInv

LEMMA SubInitInv ==
  ASSUME SubInit
  PROVE  SubIInv
<1>1. SubRows
  <2>1. NoBatch.found = {} /\ IsFiniteSet({})
    BY FS_EmptySet DEF NoBatch
  <2> QED
    BY <2>1 DEF SubInit, SubRows
<1>2. IdsGiven /\ ~ Exists(PayTo)
  <2>1. Existing = {} /\ ~ Exists(PayTo)
    BY SubAssumption DEF SubInit, Existing, Exists
  <2> QED
    BY <2>1 DEF IdsGiven
<1>3. TablesPart
  <2>1. /\ ranges = [id \in Ids |-> [major \in Majors |-> << >>]]
        /\ indexes = [id \in Ids |-> {}]
    BY DEF SubInit
  <2>2. << >> \in Seq(Pairs) /\ Whole(<< >>) /\ << >> \in Seq(Majors)
    BY DEF Whole
  <2>3. ASSUME NEW id \in Ids PROVE AccountTables(id)
    <3>1. ranges[id] = [major \in Majors |-> << >>] /\ indexes[id] = {}
      BY <2>1
    <3>2. IsFiniteSet(indexes[id]) /\ Cardinality(indexes[id]) = 0
      BY <3>1, FS_EmptySet
    <3>3. RangesFit(ranges[id], indexes[id], [m \in Majors |-> <<id, m>> \in torn])
      BY <3>1, MembersOfNone DEF RangesFit, MinorsIn
    <3>4. WholeTables(Stored(id))
      <4>1. PICK s : s = Stored(id)
        OBVIOUS
      <4>2. s = [ranges |-> ranges[id], indexes |-> {}, out |-> << >>, torn |-> {}, count |-> 0, result |-> "ok"]
        BY <3>1, <3>2, <4>1 DEF Stored
      <4>3. s \in Tables /\ s.ranges = ranges[id]
        BY <2>2, <3>1, <4>2 DEF Tables
      <4> QED
        BY <2>2, <3>1, <4>1, <4>3 DEF WholeTables
    <3> QED
      BY <3>2, <3>3, <3>4, SubAssumption DEF AccountTables
  <2>4. ranges \in [Ids -> [Majors -> Seq(Pairs)]] /\ indexes \in [Ids -> SUBSET WatchRow]
    BY <2>1, <2>2
  <2> QED
    BY <2>3, <2>4 DEF TablesPart
<1>4. WindowsInv
  BY <1>2 DEF SubInit, WindowsInv
<1> QED
  BY <1>1, <1>2, <1>3, <1>4 DEF SubIInv

LEMMA SubNextStep ==
  ASSUME SubIInv, SubNext
  PROVE  SubIInv'
<1>1. ASSUME NEW a \in Addresses, NEW l \in Lookaheads, creation_request(a, l) PROVE SubIInv'
  BY <1>1, CreationRequestStep
<1>2. ASSUME NEW a \in Addresses, add_account(a) PROVE SubIInv'
  BY <1>2, AddAccountStep
<1>3. ASSUME NEW a \in Addresses, accept_creation(a) PROVE SubIInv'
  BY <1>3, AcceptCreationStep
<1>4. ASSUME NEW a \in Addresses, NEW h \in 1..Top, NEW l \in Lookaheads, import_request(a, h, l) PROVE SubIInv'
  BY <1>4, ImportRequestStep
<1>5. ASSUME NEW a \in Addresses, accept_import(a) PROVE SubIInv'
  BY <1>5, AcceptImportStep
<1>6. ASSUME NEW a \in Addresses, NEW h \in 1..Top, rescan(a, h) PROVE SubIInv'
  BY <1>6, RescanStep
<1>7. ASSUME NEW a \in Addresses, NEW entries \in Requests, upsert_subaddresses(a, entries) PROVE SubIInv'
  <2>1. entries \in Seq(EntrySet)
    BY SubAssumption DEF EntrySet, Pairs
  <2> QED
    BY <1>7, <2>1, UpsertSubaddressesStep
<1>8. ASSUME NEW a \in Addresses, NEW major \in 0..1, NEW n \in 1..2, provision_subaddrs(a, major, 1, n, 1) PROVE SubIInv'
  BY <1>8, ProvisionStep
<1>9. CASE BeginBatch
  BY <1>9, BeginBatchStep
<1>10. CASE ScanBlock
  BY <1>10, ScanBlockStep
<1>11. CASE Update
  BY <1>11, UpdateStep
<1> QED
  BY <1>1, <1>2, <1>3, <1>4, <1>5, <1>6, <1>7, <1>8, <1>9, <1>10, <1>11, Zenon DEF SubNext

LEMMA SubStays ==
  ASSUME SubIInv, UNCHANGED subVars
  PROVE  SubIInv'
<1>1. SubRows /\ IdsGiven /\ TablesPart /\ WindowsInv
  BY DEF SubIInv
<1>2. /\ UNCHANGED <<pays, account, creation, importing, outputs, batch>> /\ KeepTables
  BY DEF subVars, KeepTables
<1>3. SubRows' /\ IdsGiven'
  BY <1>1, <1>2 DEF SubRows, IdsGiven, Existing, Exists
<1>4. TablesPart'
  BY <1>1, <1>2, TablesKept
<1>5. WindowsInv'
  BY <1>2, WindowsKept DEF KeepTables
<1> QED
  BY <1>3, <1>4, <1>5 DEF SubIInv

LEMMA SubAlways == MCSpec => []SubIInv
<1>1. MCInit => SubIInv
  BY SubInitInv DEF MCInit
<1>2. SubIInv /\ [MCNext]_allVars => SubIInv'
  <2> SUFFICES ASSUME SubIInv, [MCNext]_allVars PROVE SubIInv'
    OBVIOUS
  <2>1. SubNext \/ UNCHANGED subVars
    BY DEF MCNext, allVars
  <2> QED
    BY <2>1, SubNextStep, SubStays
<1> QED
  BY <1>1, <1>2, PTL DEF MCSpec

\* The range rows and the index rows of an account are the same indices, and no
\* more than max_subaddresses (do_upsert under every caller).
THEOREM TablesAlwaysAgree == MCSpec => []TablesAgree
<1>1. SubIInv => TablesAgree
  <2> SUFFICES ASSUME SubIInv, NEW a \in Addresses, Exists(a), account[a].id \notin Adopted
               PROVE  /\ Cardinality(indexes[account[a].id]) <= MaxSubaddresses
                      /\ \A major \in Majors :
                           <<account[a].id, major>> \in torn
                           \/ Members(ranges[account[a].id][major])
                                = {r[3] : r \in {s \in indexes[account[a].id] : s[1] = a /\ s[2] = major}}
    BY DEF TablesAgree
  <2>1. SubRows /\ IdsGiven /\ TablesPart
    BY DEF SubIInv
  <2>2. PICK id, rows : id = account[a].id /\ rows = indexes[id]
    OBVIOUS
  <2>3. a \in Existing /\ id \in Ids
    <3>1. a \in Existing
      BY DEF Existing
    <3> QED
      BY <2>1, <2>2, <3>1, IdFacts
  <2>4. ASSUME NEW r \in rows PROVE r[1] = a
    <3>1. r[1] \in Addresses
      BY <2>1, <2>2, <2>3 DEF TablesPart, WatchRow
    <3>2. Exists(r[1]) /\ account[r[1]].id = id
      BY <2>2, <2>3, <2>4 DEF Adopted
    <3>3. r[1] \in Existing
      BY <3>1, <3>2 DEF Existing
    <3> QED
      BY <2>1, <2>2, <2>3, <3>2, <3>3 DEF IdsGiven
  <2>5. AccountTables(id)
    BY <2>1, <2>3 DEF TablesPart
  <2>6. Cardinality(rows) <= MaxSubaddresses
    <3>1. OneAddress(rows)
      BY <2>4 DEF OneAddress
    <3> QED
      BY <2>2, <2>5, <3>1 DEF AccountTables
  <2>7. ASSUME NEW major \in Majors
        PROVE  <<id, major>> \in torn
               \/ Members(ranges[id][major]) = {r[3] : r \in {s \in rows : s[1] = a /\ s[2] = major}}
    <3>1. <<id, major>> \in torn \/ Members(ranges[id][major]) = MinorsIn(rows, major)
      BY <2>2, <2>5 DEF AccountTables, RangesFit
    <3>2. {s \in rows : s[1] = a /\ s[2] = major} = {s \in rows : s[2] = major}
      BY <2>4
    <3> QED
      BY <3>1, <3>2 DEF MinorsIn
  <2> QED
    BY <2>2, <2>6, <2>7
<1> QED
  BY <1>1, SubAlways, PTL

\* The subaddresses ahead of every clean output are watched as long as no
\* lookahead failure is recorded (do_lookahead, update_lookahead, change_height).
THEOREM WindowsAlways == MCSpec => []Windows
<1>1. SubIInv => Windows
  <2> SUFFICES ASSUME SubIInv, Exists(PayTo), account[PayTo].fail = 0,
                      account[PayTo].lookahead[1] # 0, account[PayTo].lookahead[2] # 0,
                      NEW o \in Subs(outputs), o.clean
               PROVE  Ahead(PayTo, o.to, account[PayTo].lookahead, indexes[account[PayTo].id])
    BY Zenon DEF Windows, Ahead
  <2>1. PICK u, rows : u = account[PayTo] /\ rows = indexes[account[PayTo].id]
    OBVIOUS
  <2>2. Windowed(u, {p \in outputs : p.clean}, rows)
    BY <2>1 DEF SubIInv, WindowsInv, WindowsAt
  <2>3. o \in {p \in outputs : p.clean} /\ o.to # Main
    BY DEF Subs
  <2>4. Repaired(u, o, rows)
    BY <2>1, <2>2, <2>3 DEF Windowed
  <2> QED
    BY <2>1, <2>3, <2>4 DEF Repaired
<1> QED
  BY <1>1, SubAlways, PTL

LEMMA SmallRanges ==
  ASSUME NEW rs \in RangesUpTo(6, 2)
  PROVE  rs \in Seq(Pairs) /\ Valid(rs)
<1>1. PICK j \in 0..2 : rs \in [1..j -> {r \in (0..6) \X (0..6) : r[1] <= r[2]}]
  BY DEF RangesUpTo
<1>2. {r \in (0..6) \X (0..6) : r[1] <= r[2]} \subseteq Pairs
  BY DEF Pairs
<1>3. j \in Nat /\ rs = [i \in 1..j |-> rs[i]] /\ \A i \in 1..j : rs[i] \in Pairs
  BY <1>1, <1>2
<1>4. rs \in Seq(Pairs)
  BY <1>3
<1> QED
  BY <1>4 DEF RangesUpTo

MergeRanges(m) == /\ m[1] \in Seq(Pairs) /\ Valid(m[1])
                  /\ m[2] \in Seq(Pairs) /\ Valid(m[2])

\* What the run compares for small ranges holds of the ranges that it enumerates
\* (do_upsert's merge loop).
THEOREM MergedAlways == MCSpec => []Merged
<1>1. MCInit => MergeRanges(merge)
  <2>1. << >> \in Seq(Pairs) /\ Valid(<< >>)
    BY DEF Valid
  <2>2. ASSUME merge = NoMerge PROVE MergeRanges(merge)
    BY <2>1, <2>2 DEF NoMerge, MergeRanges
  <2>3. ASSUME merge \in RangesUpTo(6, 2) \X RangesUpTo(6, 2) PROVE MergeRanges(merge)
    BY <2>3, SmallRanges DEF MergeRanges
  <2> QED
    BY <2>2, <2>3 DEF MCInit
<1>2. MergeRanges(merge) /\ [MCNext]_allVars => MergeRanges(merge)'
  <2> SUFFICES ASSUME MergeRanges(merge), [MCNext]_allVars PROVE MergeRanges(merge)'
    OBVIOUS
  <2>1. merge' = merge
    BY DEF MCNext, allVars
  <2> QED
    BY <2>1
<1>3. MergeRanges(merge) => Merged
  <2> SUFFICES ASSUME MergeRanges(merge) PROVE Merged
    OBVIOUS
  <2>1. PICK stored, asked : stored = merge[1] /\ asked = merge[2]
    OBVIOUS
  <2>2. stored \in Seq(Pairs) /\ Valid(stored) /\ asked \in Seq(Pairs) /\ Valid(asked)
    BY <2>1 DEF MergeRanges
  <2>3. MergeExact(stored, asked)
    BY <2>2, MergesExactly DEF Pairs
  <2> QED
    BY <2>1, <2>3 DEF Merged
<1> QED
  BY <1>1, <1>2, <1>3, PTL DEF MCSpec
=============================================================================
