--------------------------- MODULE MultisigProofs ---------------------------
(***************************************************************************)
(* Proofs about MultisigStore and KexRegistry, for all values of their     *)
(* constants: of the store alone (StoreSpec) and of the store with the     *)
(* registry of key exchanges that registers wallets in it (Spec).          *)
(***************************************************************************)
EXTENDS KexRegistry, FoldProofs

\* Every operation of the store, with wallets of any number of members: the
\* registry does not limit them.
StoreStep == StoreNext \/ \E w \in StoredWallet, ok \in BOOLEAN : register_wallet(w, ok)

\* The empty tables and files have their types.
LEMMA BlankTypes ==
  /\ EmptyData \in [Address -> Slot]
  /\ \A k \in {"none", "empty", "partial"} : Blank(k) \in Content
<1>1. EmptyData \in [Address -> Slot]
  BY StoreAssumption DEF EmptyData, Slot, Absent
<1>2. QED
  BY <1>1 DEF Blank, Content

\* A table with one more registered amount has its type, and the sum is not
\* above numeric_limits<uint64_t>::max().
LEMMA RegisteredType ==
  ASSUME data \in [Address -> Slot], NEW a \in Address, NEW h \in Hash, NEW m \in Amount,
         Registers(a, h, m)
  PROVE  Registered(a, h, m) \in [Address -> Slot]
<1>1. m \in 1..AmountMax /\ AmountMax \in Nat
  BY StoreAssumption
<1>2. data[a] \in Slot
  OBVIOUS
<1>3. data[a].total + m \in 0..AmountMax
  BY <1>1, <1>2 DEF Slot, Registers
<1>4. [data[a].txs EXCEPT ![h] = m] \in [Hash -> Amount \cup {Absent, 0}]
  BY <1>2 DEF Slot
<1>5. [txs |-> [data[a].txs EXCEPT ![h] = m], total |-> data[a].total + m] \in Slot
  BY <1>3, <1>4 DEF Slot
<1>6. QED
  BY <1>5 DEF Registered

\* A save leaves a file of the right type, whether it succeeds or not.
LEMMA SaveTypes ==
  ASSUME NEW d \in [Address -> Slot], NEW w \in SUBSET StoredWallet,
         file \in Content, failures \in 0..MaxFailures, spoiled \in BOOLEAN,
         SaveDone(d, w) \/ SaveFails
  PROVE  file' \in Content /\ failures' \in 0..MaxFailures /\ spoiled' \in BOOLEAN
<1>1. CASE SaveDone(d, w)
  BY <1>1 DEF SaveDone, Full, Content
<1>2. CASE SaveFails
  BY <1>2, BlankTypes, StoreAssumption DEF SaveFails, Torn
<1>3. QED
  BY <1>1, <1>2

\* A file of a new installation or of an older version has its type.
LEMMA StoreInitTypes == StoreInit => StoreTypeOK
<1> SUFFICES ASSUME StoreInit PROVE StoreTypeOK
  OBVIOUS
<1>1. file \in Content
  <2>1. CASE file = Blank("none")
    BY <2>1, BlankTypes
  <2>2. CASE file \in Legacy
    <3>1. PICK a \in Address, h \in Hash : file = Full(Unpriced(a, h), {})
      BY <2>2 DEF Legacy
    <3>2. Unpriced(a, h) \in [Address -> Slot]
      BY BlankTypes, StoreAssumption DEF Unpriced, Slot
    <3>3. QED
      BY <3>1, <3>2 DEF Full, Content
  <2>3. QED
    BY <2>1, <2>2 DEF StoreInit
<1>2. 0 \in 0..MaxFailures /\ 0 \in 0..MaxTorn /\ 0 \in 0..MaxCrashes
  BY StoreAssumption
<1>3. data \in [Address -> Slot] /\ wallets \in SUBSET StoredWallet
  BY BlankTypes DEF StoreInit
<1>4. QED
  BY <1>1, <1>2, <1>3 DEF StoreInit, StoreTypeOK

\* A request of multisig_register_wallet has a wallet of the store.
LEMMA RequestedWallet ==
  ASSUME multisig_register_wallet
  PROVE  \E w \in StoredWallet, ok \in BOOLEAN : register_wallet(w, ok)
<1>1. PICK id \in WalletId, a \in Address, n \in Members, ok \in BOOLEAN :
        register_wallet([id |-> id, address |-> a, members |-> n], ok)
  BY DEF multisig_register_wallet
<1>2. n \in Nat
  BY StoreAssumption
<1>3. [id |-> id, address |-> a, members |-> n] \in StoredWallet
  BY <1>2 DEF StoredWallet
<1>4. QED
  BY <1>1, <1>3

\* Every operation of the store keeps the types.
LEMMA StoreTypeKept ==
  ASSUME StoreTypeOK, [StoreStep]_storeVars
  PROVE  StoreTypeOK'
<1>1. CASE load
  BY <1>1, BlankTypes DEF load, StoreTypeOK, Content
<1>2. ASSUME NEW a \in Address, NEW h \in Hash, NEW m \in Amount, register_tx_ex(a, h, m)
      PROVE  StoreTypeOK'
  <2>1. data' \in [Address -> Slot]
    BY <1>2, RegisteredType DEF register_tx_ex, StoreTypeOK
  <2>2. file' \in Content /\ failures' \in 0..MaxFailures /\ spoiled' \in BOOLEAN
    BY <1>2, <2>1, SaveTypes DEF register_tx_ex, StoreTypeOK
  <2>3. QED
    BY <1>2, <2>1, <2>2 DEF register_tx_ex, StoreTypeOK
<1>3. ASSUME NEW a \in Address, NEW h \in Hash, register_duplicate(a, h)
      PROVE  StoreTypeOK'
  BY <1>3 DEF register_duplicate, StoreTypeOK
<1>4. ASSUME NEW w \in StoredWallet, NEW ok \in BOOLEAN, register_wallet(w, ok)
      PROVE  StoreTypeOK'
  <2>1. wallets' \in SUBSET StoredWallet
    BY <1>4 DEF register_wallet, WithWallet, StoreTypeOK
  <2>2. file' \in Content /\ failures' \in 0..MaxFailures /\ spoiled' \in BOOLEAN
    BY <1>4, <2>1, SaveTypes DEF register_wallet, StoreTypeOK
  <2>3. QED
    BY <1>4, <2>1, <2>2 DEF register_wallet, StoreTypeOK
<1>5. CASE crash
  BY <1>5, BlankTypes, StoreAssumption DEF crash, Ends, StoreTypeOK
<1>6. CASE crash_saving
  BY <1>6, BlankTypes, StoreAssumption DEF crash_saving, Ends, Torn, StoreTypeOK
<1>7. CASE UNCHANGED storeVars
  BY <1>7 DEF storeVars, StoreTypeOK
<1>8. QED
  BY <1>1, <1>2, <1>3, <1>4, <1>5, <1>6, <1>7, RequestedWallet DEF StoreStep, StoreNext

\* Memory and file keep their types, and total_locked never wraps.
THEOREM StoreTypeCorrect == StoreSpec => []StoreTypeOK
<1>1. StoreTypeOK /\ [StoreNext]_storeVars => StoreTypeOK'
  BY StoreTypeKept DEF StoreStep
<1>2. QED
  BY <1>1, StoreInitTypes, PTL DEF StoreSpec

\* Every operation of the store keeps what its file holds.
LEMMA StoreCoversKept ==
  ASSUME StoreTypeOK, MemoryCovers, [StoreStep]_storeVars
  PROVE  MemoryCovers'
<1> SUFFICES ASSUME phase' = "up", ReadableV2(file)'
             PROVE  MemoryCovers'
  BY DEF MemoryCovers
<1>0. file'.kind = "full"
  BY DEF ReadableV2, ReadableV1
<1>1. CASE load
  <2>1. file' = file /\ data' = file.data /\ wallets' = file.wallets
    BY <1>0, <1>1 DEF load, ReadableV2, ReadableV1, Used, Known
  <2>2. QED
    BY <2>1 DEF MemoryCovers, Known
<1>2. ASSUME NEW a \in Address, NEW h \in Hash, NEW m \in Amount, register_tx_ex(a, h, m)
      PROVE  MemoryCovers'
  <2>1. CASE SaveDone(data', wallets)
    BY <1>2, <2>1 DEF register_tx_ex, SaveDone, Full, MemoryCovers, Known
  <2>2. CASE SaveFails
    <3>1. file' = file /\ phase = "up" /\ wallets' = wallets
      BY <1>0, <1>2, <2>2 DEF SaveFails, Torn, Blank, register_tx_ex
    <3>2. ReadableV2(file)
      BY <3>1 DEF ReadableV2, ReadableV1, Used, Known
    <3>3. \A b \in Address, k \in Hash :
            data'[b].txs[k] = IF b = a /\ k = h THEN m ELSE data[b].txs[k]
      BY <1>2 DEF register_tx_ex, Registered, StoreTypeOK, Slot
    <3>4. data[a].txs[h] \in {Absent, 0} /\ m # Absent
      BY <1>2, StoreAssumption DEF register_tx_ex, Registers, Absent
    <3>5. \A b \in Address : Known(data, b) \subseteq Known(data, b)'
      BY <3>3, <3>4 DEF Known
    <3>6. file.data[a].txs[h] \in {Absent, 0}
      BY <3>1, <3>2, <3>4 DEF MemoryCovers
    <3>7. \A b \in Address, k \in Hash :
            file.data[b].txs[k] \in {Absent, 0, data'[b].txs[k]}
      BY <3>1, <3>2, <3>3, <3>6 DEF MemoryCovers
    <3>8. QED
      BY <3>1, <3>2, <3>5, <3>7 DEF MemoryCovers, Known
  <2>3. QED
    BY <1>2, <2>1, <2>2 DEF register_tx_ex
<1>3. ASSUME NEW a \in Address, NEW h \in Hash, register_duplicate(a, h)
      PROVE  MemoryCovers'
  BY <1>3 DEF register_duplicate, MemoryCovers, ReadableV2, ReadableV1, Used, Known
<1>4. ASSUME NEW w \in StoredWallet, NEW ok \in BOOLEAN, register_wallet(w, ok)
      PROVE  MemoryCovers'
  <2>1. CASE SaveDone(data, wallets')
    BY <1>4, <2>1 DEF register_wallet, SaveDone, Full, MemoryCovers, Known
  <2>2. CASE SaveFails
    <3>1. file' = file /\ phase = "up" /\ data' = data
      BY <1>0, <1>4, <2>2 DEF SaveFails, Torn, Blank, register_wallet
    <3>2. ReadableV2(file)
      BY <3>1 DEF ReadableV2, ReadableV1, Used, Known
    <3>3. \A x \in file.wallets : \E y \in wallets' : y.id = x.id
      BY <1>4, <3>1, <3>2 DEF MemoryCovers, register_wallet, WithWallet
    <3>4. QED
      BY <3>1, <3>2, <3>3 DEF MemoryCovers, Known
  <2>3. QED
    BY <1>4, <2>1, <2>2 DEF register_wallet
<1>5. CASE crash
  BY <1>5 DEF crash, Ends
<1>6. CASE crash_saving
  BY <1>6 DEF crash_saving, Ends
<1>7. CASE UNCHANGED storeVars
  BY <1>7 DEF storeVars, MemoryCovers, ReadableV2, ReadableV1, Used, Known
<1>8. QED
  BY <1>1, <1>2, <1>3, <1>4, <1>5, <1>6, <1>7, RequestedWallet DEF StoreStep, StoreNext

\* A running store has forgotten nothing that its file holds.
THEOREM StoreCovers == StoreSpec => []MemoryCovers
<1>1. StoreInit => MemoryCovers
  BY DEF StoreInit, MemoryCovers
<1>2. StoreTypeOK /\ MemoryCovers /\ [StoreNext]_storeVars => MemoryCovers'
  BY StoreCoversKept DEF StoreStep
<1>3. QED
  BY <1>1, <1>2, StoreTypeCorrect, PTL DEF StoreSpec

-----------------------------------------------------------------------------
(* The registry of key exchanges: the inductive invariant.                 *)

Participant == {q.participant : q \in Submission} \cup {"oracle", "pool", "dao"}
Peer == [participant : Participant, info : {q.info : q \in Submission}, round : Nat]
Context == {q.context : q \in Submission}
KexState == FinalStatus \cup {"pending_peers", "ready_to_make"}
KexRecord ==
  [wallet_id : WalletId, context : Context, total : Nat,
   participants : Seq(Participant), peers : SUBSET Peer, state : KexState,
   created_at : Nat, updated_at : Nat]
Finalizing ==
  [step : {"register", "undo"}, previous : KexRecord, wallet : StoredWallet]

KexTypes ==
  /\ kex \subseteq KexRecord /\ kexFile \subseteq KexRecord
  /\ fin \in [Thread -> {Free} \cup Finalizing]
  /\ now \in Nat

\* What "ready_to_make" says of one record.
Sound(r) ==
  /\ IsFiniteSet(r.peers)
  /\ r.state = "ready_to_make" =>
       \E p \in r.peers : Cardinality({x \in r.peers : x.round = p.round}) >= r.total

\* The records that the registry has, has saved, or may put back.
ReadyInv ==
  /\ \A r \in kex \cup kexFile : Sound(r)
  /\ \A t \in Thread : fin[t].step # "free" => Sound(fin[t].previous)

\* The store has a wallet of the id.
Listed(i) == \E w \in wallets : w.id = i

\* An active record is listed, or a finalisation is about to list it; one that
\* is to be undone has listed it already.
ActiveInv ==
  /\ phase # "up" => \A t \in Thread : fin[t].step = "free"
  /\ \A t \in Thread : fin[t].step # "free" => fin[t].previous.wallet_id = fin[t].wallet.id
  /\ crashes + torn = 0 =>
       /\ phase = "up" =>
            /\ \A t \in Thread : fin[t].step = "undo" => Listed(fin[t].wallet.id)
            /\ \A r \in kex : r.state = "active" =>
                 \/ Listed(r.wallet_id)
                 \/ \E t \in Thread : fin[t].step = "register" /\ fin[t].wallet.id = r.wallet_id
       /\ phase # "up" => kexFile = {} /\ kex = {}

\* Without a failed save the file is the memory, and it can be read.
AckInv ==
  ~ spoiled =>
    /\ file.kind \in {"none", "full"}
    /\ file.kind = "none" => file.data = EmptyData
    /\ phase # "failed"
    /\ phase = "up" => data = file.data
    /\ \A x \in acked : file.data[x[1]].txs[x[2]] # Absent

-----------------------------------------------------------------------------
(* What the handlers do to the records.                                    *)

\* A request has the types of a record.
LEMMA SubmissionTypes ==
  ASSUME NEW q \in Submission
  PROVE  /\ q.wallet \in WalletId /\ q.participant \in Participant
         /\ q.round \in Nat /\ q.total \in Nat /\ q.total >= 1
         /\ q.context \in Context
         /\ [participant |-> q.participant, info |-> q.info, round |-> q.round] \in Peer
<1>1. q.wallet \in WalletId /\ q.round \in Nat /\ q.total \in Nat /\ q.total >= 1
  BY KexAssumption
<1>2. q.participant \in Participant
  BY DEF Participant
<1>3. q.info \in {x.info : x \in Submission} /\ q.context \in Context
  BY DEF Context
<1>4. [participant |-> q.participant, info |-> q.info, round |-> q.round] \in Peer
  BY <1>1, <1>2, <1>3 DEF Peer
<1>5. QED
  BY <1>1, <1>2, <1>3, <1>4

\* The record of a first submission.
LEMMA NewRecordFacts ==
  ASSUME NEW q \in Submission, NEW c \in Stamp, now \in Nat
  PROVE  /\ NewRecord(q, c) \in KexRecord
         /\ NewRecord(q, c).state = "pending_peers" /\ NewRecord(q, c).peers = {}
         /\ NewRecord(q, c).wallet_id = q.wallet
         /\ NewRecord(q, c).participants = participants_for_kex(q.context, q.participant)
<1>1. participants_for_kex(q.context, q.participant) \in Seq(Participant)
  <2> DEFINE z == IF q.context = "task_payment" THEN "pool" ELSE "dao"
  <2>1. q.participant \in Participant /\ "oracle" \in Participant /\ z \in Participant
    BY SubmissionTypes DEF Participant
  <2> HIDE DEF z
  <2>2. <<q.participant, "oracle", z>> \in Seq(Participant)
    BY <2>1
  <2>3. QED
    BY <2>2 DEF participants_for_kex, z
<1> DEFINE k == IF c = 0 THEN now ELSE c
           ps == participants_for_kex(q.context, q.participant)
<1>2. k \in Nat
  BY KexAssumption
<1>3. ps \in Seq(Participant)
  BY <1>1
<1>4. NewRecord(q, c) = [wallet_id |-> q.wallet, context |-> q.context, total |-> q.total,
        participants |-> ps, peers |-> {}, state |-> "pending_peers",
        created_at |-> k, updated_at |-> 0]
  BY DEF NewRecord
<1> HIDE DEF k, ps
<1>5. /\ q.wallet \in WalletId /\ q.total \in Nat /\ 0 \in Nat /\ {} \in SUBSET Peer
      /\ q.context \in Context /\ "pending_peers" \in KexState
  BY SubmissionTypes DEF KexState
<1>6. NewRecord(q, c) \in KexRecord
  BY <1>2, <1>3, <1>4, <1>5 DEF KexRecord
<1>7. QED
  BY <1>4, <1>6 DEF ps

\* A submission keeps the type of the record.
LEMMA SubmittedType ==
  ASSUME NEW r \in KexRecord, NEW q \in Submission, now \in Nat
  PROVE  /\ Submitted(r, q) \in KexRecord
         /\ Submitted(r, q).wallet_id = r.wallet_id /\ Submitted(r, q).total = q.total
         /\ Submitted(r, q).participants = Joined(r.participants, q.participant)
         /\ Submitted(r, q).peers = {x \in r.peers : x.participant # q.participant} \cup
              {[participant |-> q.participant, info |-> q.info, round |-> q.round]}
         /\ Submitted(r, q).state = "active" => r.state = "active"
         /\ Submitted(r, q).state = "ready_to_make" =>
              Cardinality({x \in Submitted(r, q).peers : x.participant # q.participant /\ x.round = q.round})
                >= q.total - 1
<1> DEFINE js == Joined(r.participants, q.participant)
           peer == [participant |-> q.participant, info |-> q.info, round |-> q.round]
           ps == {x \in r.peers : x.participant # q.participant} \cup {peer}
           next == [r EXCEPT !.total = q.total, !.updated_at = now,
                             !.participants = Joined(@, q.participant),
                             !.peers = {x \in @ : x.participant # q.participant} \cup {peer}]
           mid == [r EXCEPT !.total = q.total, !.updated_at = now, !.participants = js, !.peers = ps]
           all == Cardinality(PeersOfRound(next, q.participant, q.round)) >= q.total - 1
           st == IF next.state = "active" THEN next.state ELSE IF all THEN "ready_to_make" ELSE "pending_peers"
<1>1. r.participants \in Seq(Participant) /\ r.peers \in SUBSET Peer
  BY DEF KexRecord
<1>2. js \in Seq(Participant)
  <2> DEFINE list == r.participants
             p == q.participant
  <2>1. list \in Seq(Participant) /\ p \in Participant
    BY <1>1, SubmissionTypes
  <2> HIDE DEF list, p
  <2>2. Append(list, p) \in Seq(Participant)
    BY <2>1
  <2>3. Joined(list, p) \in Seq(Participant)
    BY <2>1, <2>2, Zenon DEF Joined
  <2>4. QED
    BY <2>3 DEF list, p
<1>3. ps \in SUBSET Peer
  BY <1>1, SubmissionTypes
<1>4. next = mid
  BY Zenon
<1>5. q.total \in Nat
  BY SubmissionTypes
<1>6. /\ mid \in KexRecord /\ mid.wallet_id = r.wallet_id /\ mid.total = q.total
      /\ mid.peers = ps /\ mid.state = r.state /\ mid.participants = js
  <2> HIDE DEF js, ps
  <2>1. QED
    BY <1>2, <1>3, <1>5, ZenonT(120) DEF KexRecord
<1>7. Submitted(r, q) = [next EXCEPT !.state = st]
  BY Zenon DEF Submitted
<1>8. next \in KexRecord /\ next.wallet_id = r.wallet_id /\ next.total = q.total
      /\ next.peers = ps /\ next.state = r.state /\ next.participants = js
  <2> HIDE DEF next, mid
  <2>1. QED
    BY <1>4, <1>6
<1>9. st \in KexState /\ (st = "active" => r.state = "active")
      /\ (st = "ready_to_make" => all)
  <2> HIDE DEF next, all
  <2>1. r.state \in KexState
    BY DEF KexRecord
  <2>2. QED
    BY <1>8, <2>1 DEF KexState
<1> HIDE DEF next, st
<1>10. /\ Submitted(r, q) \in KexRecord /\ Submitted(r, q).state = st
       /\ Submitted(r, q).wallet_id = next.wallet_id /\ Submitted(r, q).total = next.total
       /\ Submitted(r, q).peers = next.peers /\ Submitted(r, q).participants = next.participants
  BY <1>7, <1>8, <1>9, ZenonT(120) DEF KexRecord
<1>11. PeersOfRound(next, q.participant, q.round) =
         {x \in Submitted(r, q).peers : x.participant # q.participant /\ x.round = q.round}
  BY <1>10 DEF PeersOfRound
<1>12. QED
  BY <1>8, <1>9, <1>10, <1>11

\* A record that becomes ready has the submitter and enough others in its round.
LEMMA SubmittedSound ==
  ASSUME NEW r \in KexRecord, NEW q \in Submission, now \in Nat, IsFiniteSet(r.peers)
  PROVE  Sound(Submitted(r, q))
<1> DEFINE n == Submitted(r, q)
           peer == [participant |-> q.participant, info |-> q.info, round |-> q.round]
           R == {x \in n.peers : x.round = q.round}
           O == {x \in n.peers : x.participant # q.participant /\ x.round = q.round}
<1>1. n.peers = {x \in r.peers : x.participant # q.participant} \cup {peer} /\ n.total = q.total
  BY SubmittedType
<1>2. IsFiniteSet({x \in r.peers : x.participant # q.participant})
  BY FS_Subset
<1>3. IsFiniteSet(n.peers)
  <2> DEFINE T == {x \in r.peers : x.participant # q.participant}
  <2>1. IsFiniteSet(T) /\ n.peers = T \cup {peer}
    BY <1>1, <1>2
  <2> HIDE DEF T, peer, n
  <2>2. QED
    BY <2>1, FS_AddElement
<1>4. ASSUME n.state = "ready_to_make"
      PROVE  \E p \in n.peers : Cardinality({x \in n.peers : x.round = p.round}) >= n.total
  <2>1. peer \in n.peers /\ peer.round = q.round /\ peer.participant = q.participant
    BY <1>1
  <2> HIDE DEF n
  <2>2. IsFiniteSet(R) /\ O \in SUBSET R /\ peer \in R /\ peer \notin O
    BY <1>3, <2>1, FS_Subset
  <2> HIDE DEF peer
  <2>3. IsFiniteSet(O) /\ IsFiniteSet(O \cup {peer}) /\ Cardinality(O \cup {peer}) = Cardinality(O) + 1
    BY <2>2, FS_Subset, FS_AddElement
  <2>4. O \cup {peer} \in SUBSET R
    BY <2>2
  <2>5. Cardinality(O) + 1 <= Cardinality(R)
    BY <2>2, <2>3, <2>4, FS_Subset
  <2>6. Cardinality(O) >= q.total - 1
    BY <1>4, SubmittedType DEF n
  <2>7. Cardinality(O) \in Nat /\ Cardinality(R) \in Nat /\ q.total \in Nat
    BY <2>2, <2>3, FS_CardinalityType, SubmissionTypes
  <2>9. Cardinality(R) >= n.total
    <3> HIDE DEF O, R
    <3>1. QED
      BY <1>1, <2>5, <2>6, <2>7
  <2>10. {x \in n.peers : x.round = peer.round} = R
    BY <2>1
  <2>11. QED
    BY <2>1, <2>9, <2>10
<1>5. QED
  BY <1>3, <1>4 DEF Sound

\* The store but for the number of failed saves.
storeRest == <<data, wallets, file, phase, torn, crashes, acked, spoiled>>

\* A record that submit, status or a restart leaves: it was there, or it comes
\* of a submission; it is active only if it was.
Comes(r) ==
  /\ r \in KexRecord
  /\ (\A x \in kex : Sound(x)) => Sound(r)
  /\ r.state = "active" => \E x \in kex : x.state = "active" /\ x.wallet_id = r.wallet_id

\* Pruning deletes records and saves, or not.
LEMMA PruneFacts ==
  ASSUME KexTypes, failures \in 0..MaxFailures, NEW S \in Pruned, NEW p \in PruneSave(S)
  PROVE  S \subseteq kex /\ (p[1] = kexFile \/ p[1] = S) /\ p[2] \in 0..MaxFailures
<1>1. S \subseteq kex
  BY DEF Pruned
<1>2. MaxFailures \in Nat
  BY StoreAssumption
<1>3. QED
  BY <1>1, <1>2 DEF PruneSave, KexSave

\* Records that are there already.
LEMMA KexKept ==
  ASSUME KexTypes
  PROVE  \A r \in kex : Comes(r)
BY DEF KexTypes, Comes

\* A record that is put takes the place of the one with its id.
LEMMA WithFacts ==
  ASSUME NEW S, NEW r
  PROVE  \A x \in With(S, r) : x = r \/ (x \in S /\ x.wallet_id # r.wallet_id)
BY DEF With

\* multisig_kex_submit.
LEMMA SubmitFacts ==
  ASSUME KexTypes, failures \in 0..MaxFailures,
         NEW t \in Thread, NEW q \in Submission, NEW c \in Stamp, multisig_kex_submit(t, q, c)
  PROVE  /\ \A r \in kex' : Comes(r)
         /\ kexFile' \subseteq kex \cup kexFile \cup kex'
         /\ failures' \in 0..MaxFailures /\ phase = "up" /\ UNCHANGED <<fin, now, storeRest>>
<1>1. PICK S \in Pruned : \E p \in PruneSave(S) :
        \/ kex' = SubmittedTo(S, q, c) /\ kexFile' = kex' /\ failures' = p[2]
        \/ kex' = S /\ kexFile' = p[1] /\ failures' \in {p[2], p[2] + 1}
           /\ (failures' = p[2] \/ p[2] < MaxFailures)
  BY DEF multisig_kex_submit
<1>2. PICK p \in PruneSave(S) :
        \/ kex' = SubmittedTo(S, q, c) /\ kexFile' = kex' /\ failures' = p[2]
        \/ kex' = S /\ kexFile' = p[1] /\ failures' \in {p[2], p[2] + 1}
           /\ (failures' = p[2] \/ p[2] < MaxFailures)
  BY <1>1
<1>3. S \subseteq kex /\ (p[1] = kexFile \/ p[1] = S) /\ p[2] \in 0..MaxFailures
  BY PruneFacts
<1>4. failures' \in 0..MaxFailures
  <2>1. MaxFailures \in Nat
    BY StoreAssumption
  <2>2. QED
    BY <1>2, <1>3, <2>1
<1>5. phase = "up" /\ UNCHANGED <<fin, now, storeRest>>
  BY DEF multisig_kex_submit, Idle, storeRest
<1>6. kexFile' \subseteq kex \cup kexFile \cup kex'
  BY <1>2, <1>3
<1>7. CASE kex' = S
  BY <1>3, <1>4, <1>5, <1>6, <1>7, KexKept
<1>8. CASE kex' = SubmittedTo(S, q, c)
  <2> DEFINE old == IF q.wallet \in Ids(S) THEN Of(S, q.wallet) ELSE NewRecord(q, c)
  <2>1. old \in KexRecord /\ ((\A x \in kex : Sound(x)) => IsFiniteSet(old.peers))
        /\ (old.state = "active" => old \in kex)
    <3>1. CASE q.wallet \in Ids(S)
      <4>1. Of(S, q.wallet) \in S
        BY <3>1 DEF Ids, Of
      <4>2. QED
        BY <1>3, <3>1, <4>1 DEF KexTypes, Sound
    <3>2. CASE q.wallet \notin Ids(S)
      <4>1. old = NewRecord(q, c)
        BY <3>2
      <4>2. old \in KexRecord /\ old.state = "pending_peers" /\ old.peers = {}
        BY <4>1, NewRecordFacts DEF KexTypes
      <4> HIDE DEF old
      <4>3. QED
        BY <4>2, FS_EmptySet
    <3>3. QED
      BY <3>1, <3>2
  <2>2. kex' = With(S, Submitted(old, q))
    BY <1>8 DEF SubmittedTo
  <2> HIDE DEF old
  <2> DEFINE n == Submitted(old, q)
  <2>3. n \in KexRecord /\ n.wallet_id = old.wallet_id /\ (n.state = "active" => old.state = "active")
    BY <2>1, SubmittedType DEF KexTypes
  <2>4. (\A x \in kex : Sound(x)) => Sound(n)
    BY <2>1, SubmittedSound DEF KexTypes
  <2>5. Comes(n)
    BY <2>1, <2>3, <2>4 DEF Comes
  <2> HIDE DEF n
  <2>6. \A r \in kex' : r = n \/ r \in S
    BY <2>2, WithFacts DEF n
  <2>7. \A r \in kex' : Comes(r)
    BY <1>3, <2>5, <2>6, KexKept
  <2>8. QED
    BY <1>4, <1>5, <1>6, <2>7
<1>9. QED
  BY <1>2, <1>7, <1>8

\* multisig_kex_status.
LEMMA StatusFacts ==
  ASSUME KexTypes, failures \in 0..MaxFailures, NEW t \in Thread, multisig_kex_status(t)
  PROVE  /\ \A r \in kex' : Comes(r)
         /\ kexFile' \subseteq kex \cup kexFile \cup kex'
         /\ failures' \in 0..MaxFailures /\ phase = "up" /\ UNCHANGED <<fin, now, storeRest>>
<1>1. PICK S \in Pruned : \E p \in PruneSave(S) : kex' = S /\ kexFile' = p[1] /\ failures' = p[2]
  BY DEF multisig_kex_status
<1>2. PICK p \in PruneSave(S) : kex' = S /\ kexFile' = p[1] /\ failures' = p[2]
  BY <1>1
<1>3. S \subseteq kex /\ (p[1] = kexFile \/ p[1] = S) /\ p[2] \in 0..MaxFailures
  BY PruneFacts
<1>4. phase = "up" /\ UNCHANGED <<fin, now, storeRest>>
  BY DEF multisig_kex_status, Idle, storeRest
<1>5. QED
  BY <1>2, <1>3, <1>4, KexKept

\* The first critical section of multisig_kex_finalize.
LEMMA FinalizeFacts ==
  ASSUME KexTypes, NEW t \in Thread, NEW w \in WalletId, NEW a \in Address, NEW s \in FinalStatus,
         multisig_kex_finalize(t, w, a, s)
  PROVE  \E old \in kex, new \in KexRecord :
           /\ old.wallet_id = w /\ new.wallet_id = w /\ new.state = s /\ new.peers = old.peers
           /\ new.participants = old.participants
           /\ kex' = With(kex, new) /\ kexFile' = kex'
           /\ fin'[t] \in Finalizing /\ fin'[t].step = "register"
           /\ fin'[t].previous = old /\ fin'[t].wallet.id = w
           /\ \A u \in Thread \ {t} : fin'[u] = fin[u]
           /\ fin' \in [Thread -> {Free} \cup Finalizing]
           /\ phase = "up" /\ fin[t].step = "free" /\ UNCHANGED <<now, stored, storeVars>>
<1> DEFINE old == Of(kex, w)
           new == [old EXCEPT !.state = s, !.updated_at = now]
           wallet == [id |-> w, address |-> a, members |-> Len(new.participants)]
           f == [step |-> "register", previous |-> old, wallet |-> wallet]
<1>1. w \in Ids(kex)
  BY DEF multisig_kex_finalize
<1>2. old \in kex /\ old.wallet_id = w
  BY <1>1 DEF Ids, Of
<1>3. kex' = With(kex, new) /\ kexFile' = kex' /\ fin' = [fin EXCEPT ![t] = f]
  BY Zenon DEF multisig_kex_finalize
<1>4. phase = "up" /\ fin[t].step = "free" /\ UNCHANGED <<now, stored, storeVars>>
  BY DEF multisig_kex_finalize, Idle
<1>5. old \in KexRecord /\ s \in KexState /\ now \in Nat
  BY <1>2 DEF KexTypes, KexState
<1> HIDE DEF old
<1>6. /\ new \in KexRecord /\ new.wallet_id = old.wallet_id /\ new.state = s
      /\ new.peers = old.peers /\ new.participants = old.participants
  BY <1>5, ZenonT(120) DEF KexRecord
<1>7. Len(new.participants) \in Nat
  <2> DEFINE list == old.participants
  <2>1. list \in Seq(Participant)
    BY <1>5 DEF KexRecord
  <2> HIDE DEF list, new
  <2>2. Len(list) \in Nat
    BY <2>1
  <2>3. QED
    BY <1>6, <2>2 DEF list
<1> HIDE DEF new
<1>8. wallet \in StoredWallet /\ wallet.id = w
  BY <1>7 DEF StoredWallet
<1> HIDE DEF wallet
<1>9. f \in Finalizing /\ f.step = "register" /\ f.previous = old /\ f.wallet = wallet
  BY <1>5, <1>8 DEF Finalizing
<1> HIDE DEF f
<1>10. fin \in [Thread -> {Free} \cup Finalizing]
  BY DEF KexTypes
<1>11. fin'[t] = f /\ (\A u \in Thread \ {t} : fin'[u] = fin[u]) /\ fin' \in [Thread -> {Free} \cup Finalizing]
  BY <1>3, <1>9, <1>10
<1>12. QED
  BY <1>2, <1>3, <1>4, <1>6, <1>8, <1>9, <1>11

\* A thread that is not free has a finalisation.
LEMMA FinCases ==
  ASSUME KexTypes, NEW t \in Thread, fin[t].step # "free"
  PROVE  /\ fin[t] \in Finalizing /\ fin[t].previous \in KexRecord
         /\ fin[t].wallet \in StoredWallet
<1>1. fin[t] \in {Free} \cup Finalizing
  BY DEF KexTypes
<1>2. fin[t] \in Finalizing
  BY <1>1 DEF Free
<1>3. QED
  BY <1>2 DEF Finalizing

\* The call of register_wallet between the critical sections.
LEMMA RegisterFacts ==
  ASSUME KexTypes, NEW t \in Thread, finalize_register(t)
  PROVE  \E ok \in BOOLEAN :
           /\ register_wallet(fin[t].wallet, ok) /\ fin[t].wallet \in StoredWallet
           /\ fin[t].step = "register"
           /\ IF ok THEN fin'[t] = Free
                    ELSE /\ fin'[t] \in Finalizing /\ fin'[t].step = "undo"
                         /\ fin'[t].previous = fin[t].previous /\ fin'[t].wallet = fin[t].wallet
           /\ \A u \in Thread \ {t} : fin'[u] = fin[u]
           /\ fin' \in [Thread -> {Free} \cup Finalizing]
           /\ UNCHANGED <<kex, kexFile, now, stored>>
<1>1. PICK ok \in BOOLEAN :
        /\ register_wallet(fin[t].wallet, ok)
        /\ fin' = [fin EXCEPT ![t] = IF ok THEN Free ELSE [@ EXCEPT !.step = "undo"]]
  BY DEF finalize_register
<1>2. fin[t].step = "register" /\ UNCHANGED <<kex, kexFile, now, stored>>
  BY DEF finalize_register
<1>3. fin[t] \in Finalizing /\ fin[t].wallet \in StoredWallet
  BY <1>2, FinCases
<1> DEFINE g == [fin[t] EXCEPT !.step = "undo"]
           f == IF ok THEN Free ELSE g
<1>4. g \in Finalizing /\ g.step = "undo" /\ g.previous = fin[t].previous /\ g.wallet = fin[t].wallet
  BY <1>3, Zenon DEF Finalizing
<1>5. fin' = [fin EXCEPT ![t] = f]
  BY <1>1, Zenon
<1> HIDE DEF g
<1>6. f \in {Free} \cup Finalizing
  BY <1>4
<1>7. fin \in [Thread -> {Free} \cup Finalizing]
  BY DEF KexTypes
<1>8. fin'[t] = f /\ (\A u \in Thread \ {t} : fin'[u] = fin[u]) /\ fin' \in [Thread -> {Free} \cup Finalizing]
  <2> HIDE DEF f
  <2>1. QED
    BY <1>5, <1>6, <1>7
<1>9. QED
  BY <1>1, <1>2, <1>3, <1>4, <1>8

\* The second critical section puts the old record back.
LEMMA UndoFacts ==
  ASSUME KexTypes, failures \in 0..MaxFailures, NEW t \in Thread, finalize_undo(t)
  PROVE  /\ fin[t].step = "undo" /\ phase = "up"
         /\ kex' = With(kex, fin[t].previous) /\ kexFile' \in {kex', kexFile}
         /\ failures' \in 0..MaxFailures /\ fin'[t] = Free
         /\ \A u \in Thread \ {t} : fin'[u] = fin[u]
         /\ fin' \in [Thread -> {Free} \cup Finalizing]
         /\ UNCHANGED <<now, stored, storeRest>>
<1>1. /\ fin[t].step = "undo" /\ phase = "up" /\ kex' = With(kex, fin[t].previous)
      /\ fin' = [fin EXCEPT ![t] = Free] /\ UNCHANGED <<now, stored, storeRest>>
  BY DEF finalize_undo, storeRest
<1>2. PICK p \in KexSave(kex', kexFile, failures) : kexFile' = p[1] /\ failures' = p[2]
  BY DEF finalize_undo
<1>3. MaxFailures \in Nat
  BY StoreAssumption
<1>4. kexFile' \in {kex', kexFile} /\ failures' \in 0..MaxFailures
  BY <1>2, <1>3 DEF KexSave
<1>5. fin \in [Thread -> {Free} \cup Finalizing]
  BY DEF KexTypes
<1>6. fin'[t] = Free /\ (\A u \in Thread \ {t} : fin'[u] = fin[u]) /\ fin' \in [Thread -> {Free} \cup Finalizing]
  BY <1>1, <1>5
<1>7. QED
  BY <1>1, <1>4, <1>6

\* A step on the registry keeps its types.
LEMMA KexTypesKept ==
  ASSUME KexTypes, StoreTypeOK, [Next]_vars
  PROVE  KexTypes'
<1>0. failures \in 0..MaxFailures
  BY DEF StoreTypeOK
<1>1. ASSUME NEW t \in Thread, NEW q \in Submission, NEW c \in Stamp, multisig_kex_submit(t, q, c)
      PROVE  KexTypes'
  BY <1>0, <1>1, SubmitFacts DEF Comes, KexTypes
<1>2. ASSUME NEW t \in Thread, multisig_kex_status(t) PROVE KexTypes'
  BY <1>0, <1>2, StatusFacts DEF Comes, KexTypes
<1>3. ASSUME NEW t \in Thread, NEW w \in WalletId, NEW a \in Address, NEW s \in FinalStatus,
             multisig_kex_finalize(t, w, a, s)
      PROVE  KexTypes'
  <2>1. PICK old \in kex, new \in KexRecord :
          /\ kex' = With(kex, new) /\ kexFile' = kex'
          /\ fin' \in [Thread -> {Free} \cup Finalizing] /\ UNCHANGED now
    BY <1>3, FinalizeFacts
  <2>2. kex' \subseteq KexRecord
    BY <2>1, WithFacts DEF KexTypes
  <2>3. QED
    BY <2>1, <2>2 DEF KexTypes
<1>4. ASSUME NEW t \in Thread, finalize_register(t) PROVE KexTypes'
  BY <1>4, RegisterFacts DEF KexTypes
<1>5. ASSUME NEW t \in Thread, finalize_undo(t) PROVE KexTypes'
  <2>1. /\ kex' = With(kex, fin[t].previous) /\ kexFile' \in {kex', kexFile}
        /\ fin' \in [Thread -> {Free} \cup Finalizing] /\ UNCHANGED now /\ fin[t].step = "undo"
    BY <1>0, <1>5, UndoFacts
  <2>2. fin[t].previous \in KexRecord
    BY <2>1, FinCases
  <2>3. kex' \subseteq KexRecord
    BY <2>1, <2>2, WithFacts DEF KexTypes
  <2>4. QED
    BY <2>1, <2>3 DEF KexTypes
<1>6. ASSUME NEW t \in Thread, store_handler(t) PROVE KexTypes'
  BY <1>6 DEF store_handler, kexVars, KexTypes
<1>7. CASE restart
  BY <1>7 DEF restart, KexTypes
<1>8. CASE process_ends
  <2>1. kex' = {} /\ fin' = [t \in Thread |-> Free] /\ UNCHANGED <<kexFile, now>>
    BY <1>8, Zenon DEF process_ends
  <2>2. QED
    BY <2>1 DEF KexTypes
<1>9. CASE Tick
  BY <1>9 DEF Tick, KexTypes
<1>10. CASE UNCHANGED vars
  BY <1>10 DEF vars, kexVars, KexTypes
<1>11. QED
  BY <1>1, <1>2, <1>3, <1>4, <1>5, <1>6, <1>7, <1>8, <1>9, <1>10, Zenon DEF Next

\* What a step of the whole does to the store: an operation of the store, or
\* the failure of a save of the registry.
LEMMA StoreInWhole ==
  ASSUME KexTypes, StoreTypeOK, [Next]_vars
  PROVE  \/ [StoreStep]_storeVars
         \/ UNCHANGED storeRest /\ failures' \in 0..MaxFailures
<1>0. failures \in 0..MaxFailures
  BY DEF StoreTypeOK
<1>1. ASSUME NEW t \in Thread, NEW q \in Submission, NEW c \in Stamp, multisig_kex_submit(t, q, c)
      PROVE  UNCHANGED storeRest /\ failures' \in 0..MaxFailures
  BY <1>0, <1>1, SubmitFacts
<1>2. ASSUME NEW t \in Thread, multisig_kex_status(t)
      PROVE  UNCHANGED storeRest /\ failures' \in 0..MaxFailures
  BY <1>0, <1>2, StatusFacts
<1>3. ASSUME NEW t \in Thread, NEW w \in WalletId, NEW a \in Address, NEW s \in FinalStatus,
             multisig_kex_finalize(t, w, a, s)
      PROVE  UNCHANGED storeVars
  BY <1>3, Zenon DEF multisig_kex_finalize
<1>4. ASSUME NEW t \in Thread, finalize_register(t) PROVE StoreStep
  BY <1>4, RegisterFacts DEF StoreStep
<1>5. ASSUME NEW t \in Thread, finalize_undo(t)
      PROVE  UNCHANGED storeRest /\ failures' \in 0..MaxFailures
  BY <1>0, <1>5, UndoFacts
<1>6. ASSUME NEW t \in Thread, store_handler(t) PROVE StoreStep
  BY <1>6, Zenon DEF store_handler, StoreStep, StoreNext
<1>7. CASE restart
  BY <1>7, Zenon DEF restart, StoreStep, StoreNext
<1>8. CASE process_ends
  BY <1>8, Zenon DEF process_ends, StoreStep, StoreNext
<1>9. CASE Tick \/ UNCHANGED vars
  <2>1. UNCHANGED storeVars
    BY <1>9, Zenon DEF Tick, vars
  <2>2. QED
    BY <2>1
<1>10. QED
  BY <1>1, <1>2, <1>3, <1>4, <1>5, <1>6, <1>7, <1>8, <1>9, Zenon DEF Next

-----------------------------------------------------------------------------
(* Theorems about the registry.                                            *)

\* The types of the whole are inductive.
LEMMA WholeTypes == Spec => [](StoreTypeOK /\ KexTypes)
<1>1. Init => StoreTypeOK /\ KexTypes
  <2> SUFFICES ASSUME Init PROVE StoreTypeOK /\ KexTypes
    OBVIOUS
  <2>1. KexTypes
    BY KexAssumption DEF Init, KexTypes
  <2>2. QED
    BY <2>1, StoreInitTypes DEF Init
<1>2. StoreTypeOK /\ KexTypes /\ [Next]_vars => (StoreTypeOK /\ KexTypes)'
  <2> SUFFICES ASSUME StoreTypeOK, KexTypes, [Next]_vars PROVE StoreTypeOK' /\ KexTypes'
    OBVIOUS
  <2>1. KexTypes'
    BY KexTypesKept
  <2>2. CASE [StoreStep]_storeVars
    BY <2>1, <2>2, StoreTypeKept
  <2>3. CASE UNCHANGED storeRest /\ failures' \in 0..MaxFailures
    BY <2>1, <2>3 DEF storeRest, StoreTypeOK
  <2>4. QED
    BY <2>2, <2>3, StoreInWhole
<1>3. QED
  BY <1>1, <1>2, PTL DEF Spec

\* No handler marks a record ready that is not.
LEMMA ReadyStep ==
  ASSUME "ready_to_make" \notin FinalStatus, StoreTypeOK, KexTypes, ReadyInv, [Next]_vars
  PROVE  ReadyInv'
<1>0. failures \in 0..MaxFailures
  BY DEF StoreTypeOK
<1>1. ASSUME \A r \in kex' : Comes(r), kexFile' \subseteq kex \cup kexFile \cup kex', fin' = fin
      PROVE  ReadyInv'
  <2>1. \A r \in kex' : Sound(r)
    BY <1>1 DEF Comes, ReadyInv
  <2>2. QED
    BY <1>1, <2>1 DEF ReadyInv
<1>2. ASSUME NEW t \in Thread, NEW q \in Submission, NEW c \in Stamp, multisig_kex_submit(t, q, c)
      PROVE  ReadyInv'
  BY <1>0, <1>1, <1>2, SubmitFacts
<1>3. ASSUME NEW t \in Thread, multisig_kex_status(t) PROVE ReadyInv'
  BY <1>0, <1>1, <1>3, StatusFacts
<1>4. ASSUME NEW t \in Thread, NEW w \in WalletId, NEW a \in Address, NEW s \in FinalStatus,
             multisig_kex_finalize(t, w, a, s)
      PROVE  ReadyInv'
  <2>1. PICK old \in kex, new \in KexRecord :
          /\ new.state = s /\ new.peers = old.peers
          /\ kex' = With(kex, new) /\ kexFile' = kex'
          /\ fin'[t].previous = old /\ \A u \in Thread \ {t} : fin'[u] = fin[u]
    BY <1>4, FinalizeFacts
  <2>2. Sound(new)
    BY <2>1 DEF Sound, ReadyInv
  <2>3. \A r \in kex' : Sound(r)
    BY <2>1, <2>2, WithFacts DEF ReadyInv
  <2>4. \A u \in Thread : fin'[u].step # "free" => Sound(fin'[u].previous)
    BY <2>1 DEF ReadyInv
  <2>5. QED
    BY <2>1, <2>3, <2>4 DEF ReadyInv
<1>5. ASSUME NEW t \in Thread, finalize_register(t) PROVE ReadyInv'
  <2>1. /\ fin'[t].step # "free" => fin'[t].previous = fin[t].previous
        /\ fin[t].step = "register" /\ (\A u \in Thread \ {t} : fin'[u] = fin[u])
        /\ UNCHANGED <<kex, kexFile>>
    BY <1>5, RegisterFacts DEF Free
  <2>2. \A u \in Thread : fin'[u].step # "free" => Sound(fin'[u].previous)
    BY <2>1 DEF ReadyInv
  <2>3. QED
    BY <2>1, <2>2 DEF ReadyInv
<1>6. ASSUME NEW t \in Thread, finalize_undo(t) PROVE ReadyInv'
  <2>1. /\ fin[t].step = "undo" /\ kex' = With(kex, fin[t].previous) /\ kexFile' \in {kex', kexFile}
        /\ fin'[t] = Free /\ \A u \in Thread \ {t} : fin'[u] = fin[u]
    BY <1>0, <1>6, UndoFacts
  <2>2. \A r \in kex' : Sound(r)
    BY <2>1, WithFacts DEF ReadyInv
  <2>3. \A u \in Thread : fin'[u].step # "free" => Sound(fin'[u].previous)
    BY <2>1 DEF ReadyInv, Free
  <2>4. QED
    BY <2>1, <2>2, <2>3 DEF ReadyInv
<1>7. CASE process_ends
  <2>1. kex' = {} /\ kexFile' = kexFile /\ \A u \in Thread : fin'[u].step = "free"
    BY <1>7, Zenon DEF process_ends, Free
  <2>2. QED
    BY <2>1 DEF ReadyInv
<1>8. CASE restart
  BY <1>8 DEF restart, ReadyInv
<1>9. ASSUME UNCHANGED <<kex, kexFile, fin>> PROVE ReadyInv'
  BY <1>9 DEF ReadyInv
<1>10. QED
  BY <1>2, <1>3, <1>4, <1>5, <1>6, <1>7, <1>8, <1>9
  DEF Next, store_handler, Tick, vars, kexVars

\* A record that says "ready_to_make" has its participants in one round,
\* unless a finalize request asks for that status by name.
THEOREM ReadyIsReady ==
  ASSUME "ready_to_make" \notin FinalStatus
  PROVE  Spec => []ReadyMeansAll
<1>1. Init => ReadyInv
  BY DEF Init, ReadyInv, Free
<1>2. StoreTypeOK /\ KexTypes /\ ReadyInv /\ [Next]_vars => ReadyInv'
  BY ReadyStep
<1>3. ReadyInv => ReadyMeansAll
  BY DEF ReadyInv, Sound, ReadyMeansAll
<1>4. QED
  BY <1>1, <1>2, <1>3, WholeTypes, PTL DEF Spec

\* Registering a wallet lists it and keeps the others listed.
LEMMA RegisterLists ==
  ASSUME NEW w, NEW ok, register_wallet(w, ok)
  PROVE  /\ Listed(w.id)' /\ \A i : Listed(i) => Listed(i)'
         /\ UNCHANGED <<phase, torn, crashes>>
<1>1. wallets' = {x \in wallets : x.id # w.id} \cup {w} /\ UNCHANGED <<phase, torn, crashes>>
  BY DEF register_wallet, WithWallet
<1>2. QED
  BY <1>1 DEF Listed

\* The parts of ActiveInv that a step must show.
FinNamed == \A t \in Thread : fin[t].step # "free" => fin[t].previous.wallet_id = fin[t].wallet.id
UndoListed == \A t \in Thread : fin[t].step = "undo" => Listed(fin[t].wallet.id)
Attended(i) == Listed(i) \/ \E t \in Thread : fin[t].step = "register" /\ fin[t].wallet.id = i

\* A step of a running process, with the parts of ActiveInv.
LEMMA RunningStep ==
  ASSUME ActiveInv, phase = "up", UNCHANGED <<phase, torn, crashes>>, FinNamed',
         UndoListed => UndoListed',
         UndoListed /\ (\A r \in kex : r.state = "active" => Attended(r.wallet_id))
           => \A r \in kex' : r.state = "active" => Attended(r.wallet_id)'
  PROVE  ActiveInv'
<1>1. ASSUME crashes + torn = 0
      PROVE  UndoListed /\ \A r \in kex : r.state = "active" => Attended(r.wallet_id)
  BY <1>1 DEF ActiveInv, UndoListed, Attended
<1>2. ASSUME crashes' + torn' = 0
      PROVE  UndoListed' /\ \A r \in kex' : r.state = "active" => Attended(r.wallet_id)'
  BY <1>1, <1>2
<1>3. QED
  BY <1>2 DEF ActiveInv, UndoListed, Attended, FinNamed

\* An active record is listed when no finalisation of its wallet is under way:
\* also a wallet whose save failed is in memory, and the undo comes after it.
LEMMA ActiveStep ==
  ASSUME StoreTypeOK, KexTypes, ActiveInv, [Next]_vars
  PROVE  ActiveInv'
<1>0. failures \in 0..MaxFailures /\ crashes \in Nat /\ torn \in Nat
  BY StoreAssumption DEF StoreTypeOK
<1>f. FinNamed
  BY DEF ActiveInv, FinNamed
<1>1. ASSUME \A r \in kex' : Comes(r), phase = "up", UNCHANGED <<fin, storeRest>>
      PROVE  ActiveInv'
  <2>1. UNCHANGED <<phase, torn, crashes, wallets>>
    BY <1>1 DEF storeRest
  <2>2. \A i : Attended(i) => Attended(i)'
    BY <1>1, <2>1 DEF Attended, Listed
  <2>3. FinNamed' /\ (UndoListed => UndoListed')
    BY <1>f, <1>1, <2>1 DEF FinNamed, UndoListed, Listed
  <2>4. ASSUME \A r \in kex : r.state = "active" => Attended(r.wallet_id)
        PROVE  \A r \in kex' : r.state = "active" => Attended(r.wallet_id)'
    BY <1>1, <2>2, <2>4 DEF Comes
  <2>5. QED
    BY <1>1, <2>1, <2>3, <2>4, RunningStep
<1>2. ASSUME NEW t \in Thread, NEW q \in Submission, NEW c \in Stamp, multisig_kex_submit(t, q, c)
      PROVE  ActiveInv'
  BY <1>0, <1>1, <1>2, SubmitFacts
<1>3. ASSUME NEW t \in Thread, multisig_kex_status(t) PROVE ActiveInv'
  BY <1>0, <1>1, <1>3, StatusFacts
<1>4. ASSUME NEW t \in Thread, NEW w \in WalletId, NEW a \in Address, NEW s \in FinalStatus,
             multisig_kex_finalize(t, w, a, s)
      PROVE  ActiveInv'
  <2>1. PICK old \in kex, new \in KexRecord :
          /\ old.wallet_id = w /\ new.wallet_id = w
          /\ kex' = With(kex, new) /\ fin'[t].step = "register"
          /\ fin'[t].previous = old /\ fin'[t].wallet.id = w
          /\ \A u \in Thread \ {t} : fin'[u] = fin[u]
          /\ phase = "up" /\ fin[t].step = "free" /\ UNCHANGED storeVars
    BY <1>4, FinalizeFacts
  <2>2. UNCHANGED <<phase, torn, crashes, wallets>>
    BY <2>1 DEF storeVars
  <2>3. FinNamed'
    BY <1>f, <2>1 DEF FinNamed
  <2>4. UndoListed => UndoListed'
    BY <2>1, <2>2 DEF UndoListed, Listed
  <2>5. \A i : Attended(i) => Attended(i)'
    BY <2>1, <2>2 DEF Attended, Listed
  <2>6. Attended(w)'
    BY <2>1 DEF Attended
  <2>7. ASSUME \A r \in kex : r.state = "active" => Attended(r.wallet_id)
        PROVE  \A r \in kex' : r.state = "active" => Attended(r.wallet_id)'
    BY <2>1, <2>5, <2>6, <2>7, WithFacts
  <2>8. QED
    BY <2>1, <2>2, <2>3, <2>4, <2>7, RunningStep
<1>5. ASSUME NEW t \in Thread, finalize_register(t) PROVE ActiveInv'
  <2>1. PICK ok \in BOOLEAN :
           /\ register_wallet(fin[t].wallet, ok) /\ fin[t].step = "register"
           /\ IF ok THEN fin'[t] = Free
                    ELSE /\ fin'[t].step = "undo"
                         /\ fin'[t].previous = fin[t].previous /\ fin'[t].wallet = fin[t].wallet
           /\ \A u \in Thread \ {t} : fin'[u] = fin[u]
           /\ UNCHANGED kex
    BY <1>5, RegisterFacts
  <2>2. (\A i : Listed(i) => Listed(i)') /\ UNCHANGED <<phase, torn, crashes>>
    <3>1. PICK w : w = fin[t].wallet
      OBVIOUS
    <3>2. register_wallet(w, ok)
      BY <2>1, <3>1
    <3>3. QED
      BY <3>2, RegisterLists
  <2>3. phase = "up"
    BY <1>5 DEF finalize_register
  <2>4. \E x \in wallets' : x.id = fin[t].wallet.id
    <3>1. wallets' = WithWallet(fin[t].wallet)
      BY <2>1 DEF register_wallet
    <3>2. QED
      BY <3>1 DEF WithWallet
  <2>5. FinNamed'
    BY <1>f, <2>1 DEF FinNamed, Free
  <2>6. UndoListed => UndoListed'
    <3> SUFFICES ASSUME UndoListed, NEW u \in Thread, fin'[u].step = "undo"
                 PROVE  \E x \in wallets' : x.id = fin'[u].wallet.id
      BY DEF UndoListed, Listed
    <3>1. CASE u = t
      BY <2>1, <2>4, <3>1 DEF Free
    <3>2. CASE u # t
      BY <2>1, <2>2, <3>2 DEF UndoListed, Listed
    <3>3. QED
      BY <3>1, <3>2
  <2>7. ASSUME NEW i, Attended(i) PROVE Attended(i)'
    <3>1. CASE Listed(i)
      BY <2>2, <3>1 DEF Attended
    <3>2. ASSUME NEW u \in Thread, fin[u].step = "register", fin[u].wallet.id = i
          PROVE  Attended(i)'
      <4>1. CASE u = t
        BY <2>4, <3>2, <4>1 DEF Attended, Listed
      <4>2. CASE u # t
        BY <2>1, <3>2, <4>2 DEF Attended
      <4>3. QED
        BY <4>1, <4>2
    <3>3. QED
      BY <2>7, <3>1, <3>2 DEF Attended
  <2>8. QED
    BY <2>1, <2>2, <2>3, <2>5, <2>6, <2>7, RunningStep
<1>6. ASSUME NEW t \in Thread, finalize_undo(t) PROVE ActiveInv'
  <2>1. /\ fin[t].step = "undo" /\ phase = "up" /\ kex' = With(kex, fin[t].previous)
        /\ fin'[t] = Free /\ (\A u \in Thread \ {t} : fin'[u] = fin[u]) /\ UNCHANGED storeRest
    BY <1>0, <1>6, UndoFacts
  <2>2. UNCHANGED <<phase, torn, crashes, wallets>>
    BY <2>1 DEF storeRest
  <2>3. FinNamed' /\ (UndoListed => UndoListed')
    BY <1>f, <2>1, <2>2 DEF FinNamed, UndoListed, Listed, Free
  <2>4. \A i : Attended(i) => Attended(i)'
    BY <2>1, <2>2 DEF Attended, Listed
  <2>5. ASSUME UndoListed, \A r \in kex : r.state = "active" => Attended(r.wallet_id)
        PROVE  \A r \in kex' : r.state = "active" => Attended(r.wallet_id)'
    <3>1. PICK old : old = fin[t].previous
      OBVIOUS
    <3>2. Listed(old.wallet_id)'
      BY <1>f, <2>1, <2>2, <2>5, <3>1 DEF FinNamed, UndoListed, Listed
    <3>3. kex' \subseteq kex \cup {old}
      BY <2>1, <3>1 DEF With
    <3>4. QED
      BY <2>4, <2>5, <3>2, <3>3 DEF Attended
  <2>6. QED
    BY <2>1, <2>2, <2>3, <2>5, RunningStep
<1>7. ASSUME NEW t \in Thread, store_handler(t) PROVE ActiveInv'
  <2>1. UNCHANGED <<kex, fin>> /\ phase = "up"
    BY <1>7 DEF store_handler, kexVars, Idle
  <2>2. UNCHANGED <<phase, torn, crashes>> /\ \A i : Listed(i) => Listed(i)'
    <3>1. ASSUME NEW a \in Address, NEW h \in Hash,
                 (\E m \in Amount : register_tx_ex(a, h, m)) \/ register_duplicate(a, h)
          PROVE  UNCHANGED <<phase, torn, crashes, wallets>>
      BY <3>1 DEF register_tx_ex, register_duplicate
    <3>2. ASSUME multisig_register_wallet
          PROVE  UNCHANGED <<phase, torn, crashes>> /\ \A i : Listed(i) => Listed(i)'
      <4>1. PICK w \in StoredWallet, ok \in BOOLEAN : register_wallet(w, ok)
        BY <3>2, RequestedWallet
      <4>2. QED
        BY <4>1, RegisterLists
    <3>3. UNCHANGED wallets => \A i : Listed(i) => Listed(i)'
      BY DEF Listed
    <3>4. \/ multisig_register_wallet
          \/ \E a \in Address, h \in Hash :
               (\E m \in Amount : register_tx_ex(a, h, m)) \/ register_duplicate(a, h)
      BY <1>7 DEF store_handler
    <3>5. QED
      BY <3>1, <3>2, <3>3, <3>4
  <2>3. \A i : Attended(i) => Attended(i)'
    BY <2>1, <2>2 DEF Attended
  <2>4. FinNamed' /\ (UndoListed => UndoListed')
    BY <1>f, <2>1, <2>2 DEF FinNamed, UndoListed
  <2>5. QED
    BY <2>1, <2>2, <2>3, <2>4, RunningStep
<1>8. CASE restart
  <2>1. phase = "down" /\ UNCHANGED <<torn, crashes, kexFile, fin>>
    BY <1>8 DEF restart, load
  <2>2. \A t \in Thread : fin[t].step = "free"
    BY <2>1 DEF ActiveInv
  <2>3. crashes + torn = 0 => kex' = {} /\ kexFile = {}
    BY <1>8, <2>1 DEF restart, ActiveInv
  <2>4. QED
    BY <2>1, <2>2, <2>3 DEF ActiveInv
<1>9. CASE process_ends
  <2>1. /\ \A t \in Thread : fin'[t].step = "free"
        /\ crashes' + torn' # 0
    <3>1. \A t \in Thread : fin'[t].step = "free"
      BY <1>9, Zenon DEF process_ends, Free
    <3>2. \/ crashes' = crashes + 1 /\ torn' = torn
          \/ torn' = torn + 1 /\ crashes' = crashes
      BY <1>9 DEF process_ends, crash, crash_saving
    <3>3. QED
      BY <1>0, <3>1, <3>2
  <2>2. QED
    BY <2>1 DEF ActiveInv
<1>10. ASSUME UNCHANGED <<kex, kexFile, fin, wallets, phase, torn, crashes>> PROVE ActiveInv'
  BY <1>10 DEF ActiveInv, Listed
<1>11. QED
  BY <1>2, <1>3, <1>4, <1>5, <1>6, <1>7, <1>8, <1>9, <1>10
  DEF Next, Tick, vars, kexVars, storeVars

\* An active record is a wallet of the store, whatever two threads that
\* finalise the same wallet do and whichever save fails.
THEOREM ActiveAreListed == Spec => []ActiveListed
<1>1. Init => ActiveInv
  BY DEF Init, ActiveInv, StoreInit, Free
<1>2. StoreTypeOK /\ KexTypes /\ ActiveInv /\ [Next]_vars => ActiveInv'
  BY ActiveStep
<1>3. StoreTypeOK /\ KexTypes /\ ActiveInv => ActiveListed
  BY DEF ActiveInv, ActiveListed, Listed
<1>4. QED
  BY <1>1, <1>2, <1>3, WholeTypes, PTL DEF Spec

-----------------------------------------------------------------------------
(* The store's own properties, in a process with the registry.             *)

\* A running store has forgotten nothing that its file holds, also while the
\* registry registers wallets in it.
THEOREM WholeCovers == Spec => []MemoryCovers
<1>1. Init => MemoryCovers
  BY DEF Init, StoreInit, MemoryCovers
<1>2. StoreTypeOK /\ KexTypes /\ MemoryCovers /\ [Next]_vars => MemoryCovers'
  <2> SUFFICES ASSUME StoreTypeOK, KexTypes, MemoryCovers, [Next]_vars PROVE MemoryCovers'
    OBVIOUS
  <2>1. CASE [StoreStep]_storeVars
    BY <2>1, StoreCoversKept
  <2>2. CASE UNCHANGED storeRest
    BY <2>2 DEF storeRest, MemoryCovers, ReadableV2, ReadableV1, Used, Known
  <2>3. QED
    BY <2>1, <2>2, StoreInWhole
<1>3. QED
  BY <1>1, <1>2, WholeTypes, PTL DEF Spec

-----------------------------------------------------------------------------
(* Sums of the store.                                                      *)

\* The amounts of an address are numbers, and there are finitely many.
LEMMA KnownFacts ==
  ASSUME NEW d \in [Address -> Slot], NEW a \in Address
  PROVE  IsFiniteSet(Known(d, a)) /\ Numbers(d[a].txs, Known(d, a))
<1>1. IsFiniteSet(Known(d, a))
  BY StoreAssumption, FS_Subset DEF Known
<1>2. \A h \in Hash : d[a].txs[h] \in Amount \cup {Absent, 0}
  BY DEF Slot
<1>3. Amount \cup {0} \subseteq Nat
  BY StoreAssumption
<1>4. \A h \in Hash : d[a].txs[h] # Absent => d[a].txs[h] \in Nat
  BY <1>2, <1>3
<1> QED
  BY <1>1, <1>4 DEF Known, Numbers

\* A registration adds its amount to the sum, whether the hash was unknown or
\* known with amount 0.
LEMMA RegisteredSum ==
  ASSUME data \in [Address -> Slot], NEW a \in Address, NEW h \in Hash, NEW m \in Amount,
         Registers(a, h, m), SumsUp(data)
  PROVE  SumsUp(Registered(a, h, m))
<1> DEFINE d == Registered(a, h, m)
           old == Known(data, a)
           rest == old \ {h}
           f == data[a].txs
           g == d[a].txs
<1>1. /\ d \in [Address -> Slot] /\ m \in Nat /\ m # 0 /\ m # Absent
      /\ data[a] \in Slot /\ f \in [Hash -> Amount \cup {Absent, 0}]
  BY RegisteredType, StoreAssumption DEF Absent, Slot
<1>2. d[a] = [txs |-> [f EXCEPT ![h] = m], total |-> data[a].total + m]
        /\ \A b \in Address : b # a => d[b] = data[b]
  BY DEF Registered
<1>3. g[h] = m /\ \A k \in Hash : k # h => g[k] = f[k]
  BY <1>1, <1>2
<1>4. IsFiniteSet(old) /\ Numbers(f, old) /\ IsFiniteSet(Known(d, a)) /\ Numbers(g, Known(d, a))
  BY <1>1, KnownFacts
<1> HIDE DEF d
<1>5. Known(d, a) = rest \cup {h} /\ h \notin rest
  BY <1>1, <1>3 DEF Known
<1>6. IsFiniteSet(rest) /\ Numbers(f, rest) /\ \A k \in rest : f[k] = g[k]
  BY <1>3, <1>4, FS_Subset DEF Numbers, Known
<1>7. SumFunctionOnSet(g, Known(d, a)) = m + SumFunctionOnSet(f, rest)
  <2>1. SumFunctionOnSet(f, rest) = SumFunctionOnSet(g, rest)
    BY <1>6, SumSame
  <2>2. SumFunctionOnSet(g, rest \cup {h}) = g[h] + SumFunctionOnSet(g, rest)
    BY <1>4, <1>5, <1>6, SumAdd
  <2> QED
    BY <1>3, <1>5, <2>1, <2>2
<1>8. SumFunctionOnSet(f, old) = SumFunctionOnSet(f, rest)
  <2>1. CASE h \in old
    <3>1. f[h] = 0
      BY <2>1 DEF Known, Registers
    <3>2. SumFunctionOnSet(f, old) = f[h] + SumFunctionOnSet(f, rest)
      BY <1>4, <2>1, SumRemove
    <3>3. SumFunctionOnSet(f, rest) \in Nat
      BY <1>6, SumType
    <3> QED
      BY <3>1, <3>2, <3>3
  <2>2. CASE h \notin old
    <3>1. rest = old
      BY <2>2
    <3> QED
      BY <3>1
  <2> QED
    BY <2>1, <2>2
<1>9. data[a].total = SumFunctionOnSet(f, old) /\ data[a].total \in Int
  <2>1. data[a].total \in 0..AmountMax /\ AmountMax \in Nat
    BY <1>1, StoreAssumption DEF Slot
  <2> QED
    BY <2>1 DEF SumsUp
<1>10. d[a].total = SumFunctionOnSet(g, Known(d, a))
  BY <1>1, <1>2, <1>7, <1>8, <1>9
<1>11. \A b \in Address : b # a => d[b].total = SumFunctionOnSet(d[b].txs, Known(d, b))
  <2>1. ASSUME NEW b \in Address, b # a PROVE d[b].total = SumFunctionOnSet(d[b].txs, Known(d, b))
    <3>1. d[b] = data[b] /\ Known(d, b) = Known(data, b)
      BY <1>2, <2>1 DEF Known
    <3> QED
      BY <3>1 DEF SumsUp
  <2> QED
    BY <2>1
<1> QED
  BY <1>10, <1>11 DEF SumsUp, d

\* Tables without an amount sum up to 0.
LEMMA EmptySums ==
  /\ SumsUp(EmptyData)
  /\ \A a \in Address, h \in Hash : SumsUp(Unpriced(a, h))
<1>1. ASSUME NEW d \in [Address -> Slot], \A a \in Address : d[a].total = 0,
             \A a \in Address, h \in Hash : d[a].txs[h] \in {Absent, 0}
      PROVE  SumsUp(d)
  <2> SUFFICES ASSUME NEW a \in Address PROVE SumFunctionOnSet(d[a].txs, Known(d, a)) = 0
    BY <1>1 DEF SumsUp
  <2> DEFINE f == d[a].txs
             K == Known(d, a)
             P == {T \in SUBSET K : SumFunctionOnSet(f, T) = 0}
  <2>1. IsFiniteSet(K) /\ Numbers(f, K) /\ \A h \in K : f[h] = 0
    BY <1>1, KnownFacts DEF Known
  <2> HIDE DEF K, f
  <2>2. {} \in P
    BY FS_EmptySet, SumRecursion
  <2>3. ASSUME NEW T \in P, NEW x \in K, x \notin T PROVE T \cup {x} \in P
    <3>1. IsFiniteSet(T) /\ Numbers(f, T \cup {x}) /\ T \in SUBSET K /\ SumFunctionOnSet(f, T) = 0
      BY <2>1, FS_Subset DEF Numbers
    <3>2. SumFunctionOnSet(f, T \cup {x}) = f[x] + SumFunctionOnSet(f, T)
      BY <2>3, <3>1, SumAdd
    <3> QED
      BY <2>1, <3>1, <3>2
  <2>4. K \in P
    <3>1. P \in SUBSET (SUBSET K)
      OBVIOUS
    <3> HIDE DEF P
    <3> QED
      BY <2>1, <2>2, <2>3, <3>1, FiniteGrowth
  <2> QED
    BY <2>4 DEF K, f
<1>2. SumsUp(EmptyData)
  <2>1. /\ EmptyData \in [Address -> Slot]
        /\ \A a \in Address : EmptyData[a].total = 0
        /\ \A a \in Address, h \in Hash : EmptyData[a].txs[h] \in {Absent, 0}
    BY BlankTypes DEF EmptyData
  <2> QED
    BY <1>1, <2>1
<1>3. ASSUME NEW a \in Address, NEW h \in Hash PROVE SumsUp(Unpriced(a, h))
  <2>1. /\ Unpriced(a, h) \in [Address -> Slot]
        /\ \A b \in Address : Unpriced(a, h)[b].total = 0
        /\ \A b \in Address, k \in Hash : Unpriced(a, h)[b].txs[k] \in {Absent, 0}
    BY BlankTypes, StoreAssumption DEF Unpriced, EmptyData, Slot
  <2> QED
    BY <1>1, <2>1
<1> QED
  BY <1>2, <1>3

\* Every operation of the store keeps the sums of memory and file.
LEMMA TotalStep ==
  ASSUME StoreTypeOK, TotalLocked, [StoreStep]_storeVars
  PROVE  TotalLocked'
<1>0. SumsUp(data) /\ SumsUp(file.data) /\ SumsUp(EmptyData)
  BY EmptySums DEF TotalLocked
<1>1. ASSUME data' \in {data, EmptyData, file.data},
             file'.data \in {file.data, EmptyData, data'}
      PROVE  TotalLocked'
  <2>1. SumsUp(data') /\ SumsUp(file'.data)
    BY <1>0, <1>1
  <2> QED
    BY <2>1 DEF TotalLocked, SumsUp, Known
<1>2. CASE load
  BY <1>1, <1>2 DEF load
<1>3. ASSUME SaveFails PROVE file'.data \in {file.data, EmptyData}
  BY <1>3 DEF SaveFails, Torn, Blank
<1>4. ASSUME NEW a \in Address, NEW h \in Hash, NEW m \in Amount, register_tx_ex(a, h, m)
      PROVE  TotalLocked'
  <2>1. data' = Registered(a, h, m) /\ SumsUp(data')
    BY <1>0, <1>4, RegisteredSum DEF register_tx_ex, StoreTypeOK
  <2>2. file'.data \in {file.data, EmptyData, data'}
    BY <1>3, <1>4 DEF register_tx_ex, SaveDone, Full
  <2>3. SumsUp(file'.data)
    BY <1>0, <2>1, <2>2
  <2> QED
    BY <2>1, <2>3 DEF TotalLocked, SumsUp, Known
<1>5. ASSUME NEW a \in Address, NEW h \in Hash, register_duplicate(a, h) PROVE TotalLocked'
  BY <1>1, <1>5 DEF register_duplicate
<1>6. ASSUME NEW w \in StoredWallet, NEW ok \in BOOLEAN, register_wallet(w, ok) PROVE TotalLocked'
  <2>1. data' = data /\ file'.data \in {file.data, EmptyData, data'}
    BY <1>3, <1>6 DEF register_wallet, SaveDone, Full
  <2> QED
    BY <1>1, <2>1
<1>7. CASE crash \/ crash_saving
  BY <1>1, <1>7 DEF crash, crash_saving, Ends, Torn, Blank
<1>8. CASE UNCHANGED storeVars
  BY <1>1, <1>8 DEF storeVars
<1> QED
  BY <1>2, <1>4, <1>5, <1>6, <1>7, <1>8, RequestedWallet DEF StoreStep, StoreNext

\* total_locked of every address, which register_tx_ex updates and load takes
\* from the file, is the sum of the registered amounts, in memory and in the
\* file, through failed saves, crashes and files of an older version.
THEOREM TotalsSumUp == Spec => []TotalLocked
<1>1. Init => TotalLocked
  <2> SUFFICES ASSUME StoreInit PROVE TotalLocked
    BY DEF Init
  <2>1. SumsUp(data) /\ SumsUp(file.data)
    BY EmptySums DEF StoreInit, Blank, Legacy, Full
  <2> QED
    BY <2>1 DEF TotalLocked
<1>2. StoreTypeOK /\ KexTypes /\ TotalLocked /\ [Next]_vars => TotalLocked'
  <2> SUFFICES ASSUME StoreTypeOK, KexTypes, TotalLocked, [Next]_vars PROVE TotalLocked'
    OBVIOUS
  <2>1. CASE [StoreStep]_storeVars
    BY <2>1, TotalStep
  <2>2. CASE UNCHANGED storeRest
    BY <2>2 DEF storeRest, TotalLocked, SumsUp, Known
  <2> QED
    BY <2>1, <2>2, StoreInWhole
<1> QED
  BY <1>1, <1>2, WholeTypes, PTL DEF Spec

\* As long as the limits of the reader are not exceeded, every file that was
\* written to the end can be read.
LEMMA AlwaysReadable ==
  ASSUME Cardinality(Address) <= MaxAddresses, Cardinality(Hash) <= MaxTxs,
         file.kind = "full"
  PROVE  ReadableV1(file)
<1>1. MaxAddresses \in Nat /\ MaxTxs \in Nat /\ IsFiniteSet(Address) /\ IsFiniteSet(Hash)
  BY StoreAssumption
<1>2. Cardinality(Address) \in Nat /\ Cardinality(Hash) \in Nat
  BY <1>1, FS_CardinalityType
<1>3. ASSUME NEW T \in SUBSET Address
      PROVE  Cardinality(T) <= MaxAddresses
  <2>1. IsFiniteSet(T) /\ Cardinality(T) <= Cardinality(Address)
    BY <1>1, FS_Subset
  <2>2. QED
    BY <1>1, <1>2, <2>1, FS_CardinalityType
<1>4. ASSUME NEW T \in SUBSET Hash
      PROVE  Cardinality(T) <= MaxTxs
  <2>1. IsFiniteSet(T) /\ Cardinality(T) <= Cardinality(Hash)
    BY <1>1, FS_Subset
  <2>2. QED
    BY <1>1, <1>2, <2>1, FS_CardinalityType
<1>5. Used(file.data) \in SUBSET Address /\ \A a : Known(file.data, a) \in SUBSET Hash
  BY DEF Used, Known
<1>6. QED
  BY <1>3, <1>4, <1>5 DEF ReadableV1

\* Every operation of the store keeps file and memory together, until a save
\* fails or is interrupted.
LEMMA AckStep ==
  ASSUME Cardinality(Address) <= MaxAddresses, Cardinality(Hash) <= MaxTxs,
         StoreTypeOK, AckInv, [StoreStep]_storeVars
  PROVE  AckInv'
<1> SUFFICES ASSUME ~ spoiled' PROVE AckInv'
  BY DEF AckInv
<1>1. CASE load
  <2>1. ~ spoiled /\ file' = file /\ acked' = acked
    BY <1>1 DEF load
  <2>2. phase' = "up" /\ data' = file.data
    BY <1>1, <2>1, AlwaysReadable DEF load, AckInv
  <2>3. QED
    BY <2>1, <2>2 DEF AckInv
<1>2. ASSUME NEW a \in Address, NEW h \in Hash, NEW m \in Amount, register_tx_ex(a, h, m)
      PROVE  AckInv'
  <2>1. /\ SaveDone(data', wallets) /\ acked' = acked \cup {<<a, h>>}
        /\ data' = Registered(a, h, m) /\ phase' = "up" /\ phase = "up"
    BY <1>2 DEF register_tx_ex, SaveFails
  <2>2. file'.kind = "full" /\ file'.data = data' /\ ~ spoiled
    BY <2>1 DEF SaveDone, Full
  <2>3. m # Absent
    BY StoreAssumption DEF Absent
  <2>4. \A b \in Address, k \in Hash :
          data'[b].txs[k] = IF b = a /\ k = h THEN m ELSE data[b].txs[k]
    BY <2>1 DEF Registered, StoreTypeOK, Slot
  <2>5. acked \subseteq Address \X Hash /\ data = file.data
    BY <2>1, <2>2 DEF AckInv, StoreTypeOK
  <2>6. ASSUME NEW x \in acked' PROVE data'[x[1]].txs[x[2]] # Absent
    <3>1. CASE x = <<a, h>>
      BY <2>3, <2>4, <3>1
    <3>2. CASE x \in acked
      <4>1. x[1] \in Address /\ x[2] \in Hash /\ data[x[1]].txs[x[2]] # Absent
        BY <2>2, <2>5, <3>2 DEF AckInv
      <4>2. QED
        BY <2>3, <2>4, <4>1
    <3>3. QED
      BY <2>1, <3>1, <3>2
  <2>7. QED
    BY <2>1, <2>2, <2>6 DEF AckInv
<1>3. ASSUME NEW a \in Address, NEW h \in Hash, register_duplicate(a, h)
      PROVE  AckInv'
  <2>1. /\ UNCHANGED <<data, file, phase, spoiled>> /\ acked' = acked \cup {<<a, h>>}
        /\ phase = "up" /\ data[a].txs[h] # Absent
    BY <1>3 DEF register_duplicate
  <2>2. QED
    BY <2>1 DEF AckInv
<1>4. ASSUME NEW w \in StoredWallet, NEW ok \in BOOLEAN, register_wallet(w, ok)
      PROVE  AckInv'
  <2>1. /\ file'.kind = "full" /\ file'.data = data /\ ~ spoiled
        /\ data' = data /\ phase = "up" /\ phase' = phase /\ acked' = acked
    BY <1>4 DEF register_wallet, SaveDone, SaveFails, Full
  <2>2. QED
    BY <2>1 DEF AckInv
<1>5. CASE crash
  BY <1>5 DEF crash, Ends, AckInv
<1>6. CASE crash_saving
  BY <1>6 DEF crash_saving
<1>7. CASE UNCHANGED storeVars
  BY <1>7 DEF storeVars, AckInv
<1>8. QED
  BY <1>1, <1>2, <1>3, <1>4, <1>5, <1>6, <1>7, RequestedWallet DEF StoreStep, StoreNext

\* What a client was told is registered stays registered, through restarts, as
\* long as no save failed or was interrupted and the data is within the limits
\* that only the reader has.
THEOREM AcksKept ==
  ASSUME Cardinality(Address) <= MaxAddresses, Cardinality(Hash) <= MaxTxs
  PROVE  Spec => []AckedKept
<1>1. Init => AckInv
  <2> SUFFICES ASSUME Init PROVE AckInv
    OBVIOUS
  <2>1. file.kind \in {"none", "full"} /\ (file.kind = "none" => file.data = EmptyData)
    BY DEF Init, StoreInit, Blank, Legacy, Full
  <2>2. QED
    BY <2>1 DEF Init, StoreInit, AckInv
<1>2. StoreTypeOK /\ KexTypes /\ AckInv /\ [Next]_vars => AckInv'
  <2> SUFFICES ASSUME StoreTypeOK, KexTypes, AckInv, [Next]_vars PROVE AckInv'
    OBVIOUS
  <2>1. CASE [StoreStep]_storeVars
    BY <2>1, AckStep
  <2>2. CASE UNCHANGED storeRest
    BY <2>2 DEF storeRest, AckInv
  <2>3. QED
    BY <2>1, <2>2, StoreInWhole
<1>3. AckInv /\ StoreTypeOK => AckedKept
  BY DEF AckInv, AckedKept, TxAcked, StoreTypeOK
<1>4. QED
  BY <1>1, <1>2, <1>3, WholeTypes, PTL DEF Spec

-----------------------------------------------------------------------------
(* What submit acknowledged, on a server with one REST thread.             *)

\* Who can be a participant of a record of the wallet.
Party(w) ==
  {q.participant : q \in {x \in Submission : x.wallet = w}} \cup {"oracle", "pool", "dao"}

\* The limits that only the reader of the registry file has: room for the
\* parties of a wallet and one more, and for the whole registry.
WithinReader ==
  /\ KexMaxEntries <= KexMaxRecords
  /\ \A w \in WalletId : IsFiniteSet(Party(w)) /\ Cardinality(Party(w)) < KexMaxPeers

Elements(list) == {list[i] : i \in 1..Len(list)}

\* A record names parties of its wallet, the first of them perhaps twice, and
\* has one message of each.
Fits(r) ==
  /\ Elements(r.participants) \subseteq Party(r.wallet_id)
  /\ Len(r.participants) <= Cardinality(Elements(r.participants)) + 1
  /\ \A x \in r.peers : x.participant \in Party(r.wallet_id)
  /\ \A x, y \in r.peers : x.participant = y.participant => x = y

\* A registry: one record per wallet, not more than there is room for.
Table(S) ==
  /\ IsFiniteSet(S) /\ Cardinality(S) <= KexMaxEntries
  /\ \A r, s \in S : r.wallet_id = s.wallet_id => r = s
  /\ \A r \in S : Fits(r)

PeerOf(s) == [participant |-> s.participant, info |-> s.info, round |-> s.round]

\* The submissions D are in the registry S.
Held(D, S) == \A s \in D : \E r \in S : r.wallet_id = s.wallet /\ PeerOf(s) \in r.peers

\* Memory and file hold what is due, and so does a record that may be put back.
KeptInv ==
  /\ Table(kex) /\ Table(kexFile)
  /\ Held(stored, kexFile) /\ (phase = "up" => Held(stored, kex))
  /\ phase # "up" => \A t \in Thread : fin[t].step = "free"
  /\ \A t \in Thread : fin[t].step # "free" =>
       /\ fin[t].previous.wallet_id \in Ids(kex) /\ Fits(fin[t].previous)
       /\ \A s \in stored :
            s.wallet = fin[t].previous.wallet_id => PeerOf(s) \in fin[t].previous.peers

\* A participant that is not listed is appended.
LEMMA JoinedFacts ==
  ASSUME NEW T, NEW list \in Seq(T), NEW p \in T, IsFiniteSet(Elements(list)),
         Len(list) <= Cardinality(Elements(list)) + 1
  PROVE  /\ Elements(Joined(list, p)) = Elements(list) \cup {p}
         /\ Len(Joined(list, p)) <= Cardinality(Elements(Joined(list, p))) + 1
<1>1. CASE p \in Elements(list)
  BY <1>1 DEF Joined, Elements
<1>2. CASE p \notin Elements(list)
  <2>1. Joined(list, p) = Append(list, p)
    BY <1>2 DEF Joined, Elements
  <2>2. Len(Append(list, p)) = Len(list) + 1 /\ Len(list) \in Nat
        /\ Append(list, p)[Len(list) + 1] = p
        /\ \A i \in 1..Len(list) : Append(list, p)[i] = list[i]
    OBVIOUS
  <2>3. Elements(Append(list, p)) = Elements(list) \cup {p}
    BY <2>2 DEF Elements
  <2>4. Cardinality(Elements(list) \cup {p}) = Cardinality(Elements(list)) + 1
        /\ Cardinality(Elements(list)) \in Nat
    BY <1>2, FS_AddElement, FS_CardinalityType
  <2>5. QED
    BY <2>1, <2>2, <2>3, <2>4
<1>3. QED
  BY <1>1, <1>2

\* The record of a first submission fits.
LEMMA NewRecordFits ==
  ASSUME NEW q \in Submission, NEW c \in Stamp, now \in Nat
  PROVE  Fits(NewRecord(q, c))
<1> DEFINE n == NewRecord(q, c)
           z == IF q.context = "task_payment" THEN "pool" ELSE "dao"
           list == <<q.participant, "oracle", z>>
<1>1. n.peers = {} /\ n.wallet_id = q.wallet /\ n.participants = list
  BY NewRecordFacts DEF participants_for_kex
<1>2. Elements(list) = {q.participant, "oracle", z} /\ Len(list) = 3
  BY DEF Elements
<1>3. {q.participant, "oracle", z} \subseteq Party(q.wallet)
  BY DEF Party
<1>4. z # "oracle"
  OBVIOUS
<1> HIDE DEF z
<1>5. 2 <= Cardinality({q.participant, "oracle", z})
  <2>1. IsFiniteSet({"oracle", z}) /\ Cardinality({"oracle", z}) = 2
    <3>1. IsFiniteSet({"oracle"}) /\ Cardinality({"oracle"}) = 1
      BY FS_Singleton
    <3>2. Cardinality({"oracle"} \cup {z}) = 1 + 1 /\ IsFiniteSet({"oracle"} \cup {z})
      BY <1>4, <3>1, FS_AddElement
    <3>3. {"oracle"} \cup {z} = {"oracle", z}
      OBVIOUS
    <3>4. QED
      BY <3>2, <3>3
  <2>2. {"oracle", z} \subseteq {q.participant, "oracle", z} /\ IsFiniteSet({"oracle", z} \cup {q.participant})
    BY <2>1, FS_AddElement
  <2>3. {q.participant, "oracle", z} = {"oracle", z} \cup {q.participant}
    OBVIOUS
  <2>4. QED
    BY <2>1, <2>2, <2>3, FS_Subset
<1>6. QED
  <2> HIDE DEF list, n
  <2>1. Cardinality({q.participant, "oracle", z}) \in Nat
    <3>1. IsFiniteSet({q.participant})
      BY FS_Singleton
    <3>2. IsFiniteSet({q.participant} \cup {"oracle"})
      BY <3>1, FS_AddElement
    <3>3. IsFiniteSet(({q.participant} \cup {"oracle"}) \cup {z})
      BY <3>2, FS_AddElement
    <3>4. ({q.participant} \cup {"oracle"}) \cup {z} = {q.participant, "oracle", z}
      OBVIOUS
    <3>5. QED
      BY <3>3, <3>4, FS_CardinalityType
  <2>2. /\ Elements(n.participants) \subseteq Party(n.wallet_id)
        /\ Len(n.participants) <= Cardinality(Elements(n.participants)) + 1
    <3> DEFINE E == {q.participant, "oracle", z}
    <3>1. Elements(n.participants) = E /\ Len(n.participants) = 3
      BY <1>1, <1>2
    <3>2. E \subseteq Party(n.wallet_id) /\ 2 <= Cardinality(E) /\ Cardinality(E) \in Nat
      BY <1>1, <1>3, <1>5, <2>1
    <3> HIDE DEF E
    <3>3. QED
      BY <3>1, <3>2
  <2>3. QED
    BY <1>1, <2>2 DEF Fits, n

\* A submission to a record keeps it within its parties.
LEMMA SubmittedFits ==
  ASSUME WithinReader, now \in Nat, NEW r \in KexRecord, NEW q \in Submission,
         r.wallet_id = q.wallet, Fits(r)
  PROVE  Fits(Submitted(r, q))
<1> DEFINE n == Submitted(r, q)
           peer == [participant |-> q.participant, info |-> q.info, round |-> q.round]
<1>1. /\ n.wallet_id = q.wallet /\ n.participants = Joined(r.participants, q.participant)
      /\ n.peers = {x \in r.peers : x.participant # q.participant} \cup {peer}
  BY SubmittedType
<1>2. q.participant \in Party(q.wallet) /\ q.participant \in Participant /\ q.wallet \in WalletId
  BY SubmissionTypes DEF Party
<1>3. Elements(r.participants) \subseteq Party(q.wallet) /\ IsFiniteSet(Elements(r.participants))
  BY <1>2, FS_Subset DEF Fits, WithinReader
<1>4. r.participants \in Seq(Participant)
  BY DEF KexRecord
<1>5. /\ Elements(n.participants) \subseteq Party(n.wallet_id)
      /\ Len(n.participants) <= Cardinality(Elements(n.participants)) + 1
  <2> DEFINE list == r.participants
  <2>1. Len(list) <= Cardinality(Elements(list)) + 1
    BY DEF Fits
  <2>2. list \in Seq(Participant) /\ IsFiniteSet(Elements(list))
    BY <1>3, <1>4
  <2> HIDE DEF n, list
  <2>3. Elements(Joined(list, q.participant)) = Elements(list) \cup {q.participant}
        /\ Len(Joined(list, q.participant)) <= Cardinality(Elements(Joined(list, q.participant))) + 1
    BY <1>2, <2>1, <2>2, JoinedFacts
  <2>4. QED
    BY <1>1, <1>2, <1>3, <2>3 DEF list
<1>6. /\ \A x \in n.peers : x.participant \in Party(n.wallet_id)
      /\ \A x, y \in n.peers : x.participant = y.participant => x = y
  <2>1. peer.participant = q.participant
    OBVIOUS
  <2> HIDE DEF n, peer
  <2>2. QED
    BY <1>1, <1>2, <2>1 DEF Fits
<1> HIDE DEF n
<1>7. QED
  BY <1>5, <1>6 DEF Fits, n

\* A part of a registry is one.
LEMMA TablePart ==
  ASSUME NEW S, Table(S), NEW T \in SUBSET S
  PROVE  Table(T)
<1>1. IsFiniteSet(T) /\ Cardinality(T) <= Cardinality(S)
  BY FS_Subset DEF Table
<1>2. Cardinality(T) \in Nat /\ Cardinality(S) \in Nat /\ KexMaxEntries \in Nat
  BY <1>1, FS_CardinalityType, KexAssumption DEF Table
<1>3. QED
  BY <1>1, <1>2 DEF Table

\* A record is put in the place of another, or there is room for it.
LEMMA TableWith ==
  ASSUME NEW S, Table(S), NEW r, Fits(r),
         r.wallet_id \in Ids(S) \/ Cardinality(S) < KexMaxEntries
  PROVE  Table(With(S, r))
<1> DEFINE T == {x \in S : x.wallet_id # r.wallet_id}
<1>1. IsFiniteSet(S) /\ Cardinality(S) <= KexMaxEntries /\ T \in SUBSET S
  BY DEF Table
<1>2. IsFiniteSet(T) /\ Cardinality(T) <= Cardinality(S)
  BY <1>1, FS_Subset
<1>3. Cardinality(S) \in Nat /\ Cardinality(T) \in Nat /\ KexMaxEntries \in Nat
  BY <1>1, <1>2, FS_CardinalityType, KexAssumption
<1>4. Cardinality(T) < KexMaxEntries
  <2>1. CASE r.wallet_id \in Ids(S)
    <3>1. PICK o \in S : o.wallet_id = r.wallet_id
      BY <2>1 DEF Ids
    <3>2. T \in SUBSET (S \ {o})
      BY <3>1
    <3>3. IsFiniteSet(S \ {o}) /\ Cardinality(S \ {o}) = Cardinality(S) - 1
      BY <1>1, FS_RemoveElement
    <3>4. Cardinality(T) <= Cardinality(S \ {o})
      BY <3>2, <3>3, FS_Subset
    <3>5. QED
      BY <1>1, <1>3, <3>3, <3>4
  <2>2. CASE Cardinality(S) < KexMaxEntries
    BY <1>2, <1>3, <2>2
  <2>3. QED
    BY <2>1, <2>2
<1>5. IsFiniteSet(T \cup {r}) /\ Cardinality(T \cup {r}) <= KexMaxEntries
  <2>1. r \notin T
    OBVIOUS
  <2> HIDE DEF T
  <2>2. IsFiniteSet(T \cup {r}) /\ Cardinality(T \cup {r}) = Cardinality(T) + 1
    BY <1>2, <2>1, FS_AddElement
  <2>3. QED
    BY <1>3, <1>4, <2>2
<1>6. With(S, r) = T \cup {r}
  BY DEF With
<1>7. \A x \in T \cup {r} : Fits(x)
  BY DEF Table
<1>8. \A x, y \in T \cup {r} : x.wallet_id = y.wallet_id => x = y
  BY DEF Table
<1>9. QED
  BY <1>5, <1>6, <1>7, <1>8 DEF Table

\* A registry within the limits can be read again.
LEMMA TableLoads ==
  ASSUME WithinReader, NEW S \in SUBSET KexRecord, Table(S)
  PROVE  Loadable(S)
<1>1. Cardinality(S) <= KexMaxRecords
  <2>1. Cardinality(S) \in Nat /\ KexMaxEntries \in Nat /\ KexMaxRecords \in Nat
    BY FS_CardinalityType, KexAssumption DEF Table
  <2>2. QED
    BY <2>1 DEF Table, WithinReader
<1>2. ASSUME NEW r \in S
      PROVE  Len(r.participants) <= KexMaxPeers /\ Cardinality(r.peers) <= KexMaxPeers
  <2> DEFINE P == Party(r.wallet_id)
             named == {x.participant : x \in r.peers}
             f == [x \in r.peers |-> x.participant]
  <2>1. IsFiniteSet(P) /\ Cardinality(P) < KexMaxPeers /\ Cardinality(P) \in Nat /\ KexMaxPeers \in Nat
    BY FS_CardinalityType, KexAssumption DEF WithinReader, KexRecord
  <2>2. Fits(r)
    BY DEF Table
  <2>3. Len(r.participants) <= KexMaxPeers
    <3> DEFINE list == r.participants
               E == Elements(list)
    <3>1. E \subseteq P /\ Len(list) <= Cardinality(E) + 1
      BY <2>2 DEF Fits
    <3>2. list \in Seq(Participant)
      BY DEF KexRecord
    <3> HIDE DEF E, P
    <3>3. Cardinality(E) <= Cardinality(P) /\ Cardinality(E) \in Nat
      BY <2>1, <3>1, FS_Subset, FS_CardinalityType
    <3> HIDE DEF list
    <3>4. Len(list) \in Nat
      BY <3>2
    <3>5. QED
      BY <2>1, <3>1, <3>3, <3>4 DEF list
  <2>4. Cardinality(r.peers) <= KexMaxPeers
    <3>1. named \subseteq P
      BY <2>2 DEF Fits
    <3>2. f \in Injection(r.peers, named) /\ f \in Surjection(r.peers, named)
      BY <2>2 DEF Fits, Injection, IsInjective, Surjection
    <3> HIDE DEF f, named, P
    <3>3. IsFiniteSet(named) /\ Cardinality(named) <= Cardinality(P) /\ Cardinality(named) \in Nat
      BY <2>1, <3>1, FS_Subset, FS_CardinalityType
    <3>4. Cardinality(r.peers) = Cardinality(named)
      BY <3>2, <3>3, FS_Injection
    <3>5. QED
      BY <2>1, <3>3, <3>4
  <2>5. QED
    BY <2>3, <2>4
<1>3. QED
  BY <1>1, <1>2 DEF Loadable

\* What is due after pruning is in what pruning leaves, and in the file.
LEMMA PruneHeld ==
  ASSUME KexTypes, failures \in 0..MaxFailures, KeptInv, phase = "up",
         NEW S \in Pruned, NEW p \in PruneSave(S)
  PROVE  /\ Table(S) /\ S \subseteq kex /\ Held(Due(S), S)
         /\ Table(p[1]) /\ Held(Due(S), p[1]) /\ p[1] \in {S, kexFile}
<1>1. S \subseteq kex /\ (p[1] = kexFile \/ p[1] = S)
  BY PruneFacts
<1>2. Table(S)
  BY <1>1, TablePart DEF KeptInv
<1>3. ASSUME NEW s \in Due(S)
      PROVE  \E r \in S : r.wallet_id = s.wallet /\ PeerOf(s) \in r.peers
  <2>1. s \in stored /\ s.wallet \in Ids(S)
    BY DEF Due
  <2>2. PICK r \in S : r.wallet_id = s.wallet
    BY <2>1 DEF Ids
  <2>3. PICK o \in kex : o.wallet_id = s.wallet /\ PeerOf(s) \in o.peers
    BY <2>1 DEF KeptInv, Held
  <2>4. r = o
    BY <1>1, <2>2, <2>3 DEF KeptInv, Table
  <2>5. QED
    BY <2>2, <2>3, <2>4
<1>4. Held(Due(S), S)
  BY <1>3 DEF Held
<1>5. Held(Due(S), kexFile)
  BY DEF KeptInv, Held, Due
<1>6. QED
  BY <1>1, <1>2, <1>4, <1>5 DEF KeptInv

\* A submission replaces the message of its participant and no other.
LEMMA SubmittedHeld ==
  ASSUME WithinReader, KexTypes, NEW S \in SUBSET kex, Table(S), Held(Due(S), S),
         NEW q \in Submission, NEW c \in Stamp, ~ SubmitRefused(S, q)
  PROVE  Table(SubmittedTo(S, q, c)) /\ Held(Acknowledge(S, q), SubmittedTo(S, q, c))
<1> DEFINE old == IF q.wallet \in Ids(S) THEN Of(S, q.wallet) ELSE NewRecord(q, c)
           n == Submitted(old, q)
           peer == [participant |-> q.participant, info |-> q.info, round |-> q.round]
<1>1. now \in Nat
  BY DEF KexTypes
<1>2. /\ old \in KexRecord /\ old.wallet_id = q.wallet /\ Fits(old)
      /\ q.wallet \in Ids(S) => old \in S
  <2>1. CASE q.wallet \in Ids(S)
    <3>1. Of(S, q.wallet) \in S /\ Of(S, q.wallet).wallet_id = q.wallet
      BY <2>1 DEF Ids, Of
    <3>2. QED
      BY <2>1, <3>1 DEF KexTypes, Table
  <2>2. CASE q.wallet \notin Ids(S)
    <3>1. old = NewRecord(q, c)
      BY <2>2
    <3> HIDE DEF old
    <3>2. QED
      BY <1>1, <2>2, <3>1, NewRecordFacts, NewRecordFits
  <2>3. QED
    BY <2>1, <2>2
<1>3. SubmittedTo(S, q, c) = With(S, n)
  BY DEF SubmittedTo
<1> HIDE DEF old
<1>4. /\ n.wallet_id = q.wallet
      /\ n.peers = {x \in old.peers : x.participant # q.participant} \cup {peer}
  BY <1>1, <1>2, SubmittedType
<1>5. Fits(n)
  BY <1>1, <1>2, SubmittedFits
<1> HIDE DEF n
<1>6. q.wallet \in Ids(S) \/ Cardinality(S) < KexMaxEntries
  <2>1. Cardinality(S) \in Nat /\ KexMaxEntries \in Nat
    BY FS_CardinalityType, KexAssumption DEF Table
  <2>2. QED
    BY <2>1 DEF SubmitRefused
<1>7. Table(With(S, n))
  BY <1>4, <1>5, <1>6, TableWith
<1>8. ASSUME NEW s \in Acknowledge(S, q)
      PROVE  \E r \in With(S, n) : r.wallet_id = s.wallet /\ PeerOf(s) \in r.peers
  <2>1. n \in With(S, n)
    BY DEF With
  <2>2. CASE s = Receipt(q)
    <3>1. s.wallet = q.wallet /\ PeerOf(s) = peer
      BY <2>2 DEF Receipt, PeerOf
    <3> HIDE DEF peer
    <3>2. QED
      BY <1>4, <2>1, <3>1
  <2>3. CASE s # Receipt(q)
    <3>1. s \in Due(S) /\ (s.wallet # q.wallet \/ s.participant # q.participant)
      BY <2>3 DEF Acknowledge
    <3>2. PICK r \in S : r.wallet_id = s.wallet /\ PeerOf(s) \in r.peers
      BY <3>1 DEF Held
    <3>3. CASE s.wallet # q.wallet
      BY <1>4, <3>2, <3>3 DEF With
    <3>4. CASE s.wallet = q.wallet
      <4>1. r = old
        <5>1. q.wallet \in Ids(S)
          BY <3>2, <3>4 DEF Ids
        <5>2. QED
          BY <1>2, <3>2, <3>4, <5>1 DEF Table
      <4>2. PeerOf(s).participant # q.participant
        BY <3>1, <3>4 DEF PeerOf
      <4>3. PeerOf(s) \in n.peers
        BY <1>4, <3>2, <4>1, <4>2
      <4>4. QED
        BY <1>4, <2>1, <3>4, <4>3
    <3>5. QED
      BY <3>3, <3>4
  <2>4. QED
    BY <2>2, <2>3
<1>9. QED
  BY <1>3, <1>7, <1>8 DEF Held

\* No handler loses a submission that is due, if there is only one thread.
LEMMA KeptStep ==
  ASSUME \A t, u \in Thread : t = u, WithinReader,
         StoreTypeOK, KexTypes, KeptInv, [Next]_vars
  PROVE  KeptInv'
<1>0. failures \in 0..MaxFailures
  BY DEF StoreTypeOK
<1>1. ASSUME NEW t \in Thread, fin[t].step = "free" PROVE \A u \in Thread : fin[u].step = "free"
  BY <1>1
<1>2. ASSUME Table(kex)', Table(kexFile)', Held(stored, kex)', Held(stored, kexFile)',
             phase = "up", UNCHANGED <<phase, fin>>, \A u \in Thread : fin[u].step = "free"
      PROVE  KeptInv'
  BY <1>2 DEF KeptInv
<1>3. ASSUME NEW t \in Thread, NEW q \in Submission, NEW c \in Stamp, multisig_kex_submit(t, q, c)
      PROVE  KeptInv'
  <2>1. PICK S \in Pruned : \E p \in PruneSave(S) :
          \/ /\ ~SubmitRefused(S, q) /\ kex' = SubmittedTo(S, q, c) /\ kexFile' = kex'
             /\ stored' = Acknowledge(S, q)
          \/ kex' = S /\ kexFile' = p[1] /\ stored' = Due(S)
    BY <1>3 DEF multisig_kex_submit
  <2>2. PICK p \in PruneSave(S) :
          \/ /\ ~SubmitRefused(S, q) /\ kex' = SubmittedTo(S, q, c) /\ kexFile' = kex'
             /\ stored' = Acknowledge(S, q)
          \/ kex' = S /\ kexFile' = p[1] /\ stored' = Due(S)
    BY <2>1
  <2>3. phase = "up" /\ UNCHANGED <<phase, fin>> /\ \A u \in Thread : fin[u].step = "free"
    BY <1>1, <1>3 DEF multisig_kex_submit, Idle
  <2>4. /\ Table(S) /\ S \subseteq kex /\ Held(Due(S), S)
        /\ Table(p[1]) /\ Held(Due(S), p[1])
    BY <1>0, <2>3, PruneHeld
  <2>5. Table(kex)' /\ Table(kexFile)' /\ Held(stored, kex)' /\ Held(stored, kexFile)'
    <3>1. CASE kex' = S /\ kexFile' = p[1] /\ stored' = Due(S)
      BY <2>4, <3>1 DEF Table, Held
    <3>2. CASE /\ ~SubmitRefused(S, q) /\ kex' = SubmittedTo(S, q, c) /\ kexFile' = kex'
               /\ stored' = Acknowledge(S, q)
      <4>1. Table(SubmittedTo(S, q, c)) /\ Held(Acknowledge(S, q), SubmittedTo(S, q, c))
        BY <2>4, <3>2, SubmittedHeld
      <4>2. QED
        BY <3>2, <4>1 DEF Table, Held
    <3>3. QED
      BY <2>2, <3>1, <3>2
  <2>6. QED
    BY <1>2, <2>3, <2>5
<1>4. ASSUME NEW t \in Thread, multisig_kex_status(t) PROVE KeptInv'
  <2>1. PICK S \in Pruned : \E p \in PruneSave(S) : kex' = S /\ kexFile' = p[1] /\ stored' = Due(S)
    BY <1>4 DEF multisig_kex_status
  <2>2. PICK p \in PruneSave(S) : kex' = S /\ kexFile' = p[1] /\ stored' = Due(S)
    BY <2>1
  <2>3. phase = "up" /\ UNCHANGED <<phase, fin>> /\ \A u \in Thread : fin[u].step = "free"
    BY <1>1, <1>4 DEF multisig_kex_status, Idle
  <2>4. Table(S) /\ Held(Due(S), S) /\ Table(p[1]) /\ Held(Due(S), p[1])
    BY <1>0, <2>3, PruneHeld
  <2>5. Table(kex)' /\ Table(kexFile)' /\ Held(stored, kex)' /\ Held(stored, kexFile)'
    BY <2>2, <2>4 DEF Table, Held
  <2>6. QED
    BY <1>2, <2>3, <2>5
<1>5. ASSUME NEW t \in Thread, NEW w \in WalletId, NEW a \in Address, NEW s \in FinalStatus,
             multisig_kex_finalize(t, w, a, s)
      PROVE  KeptInv'
  <2>1. PICK old \in kex, new \in KexRecord :
          /\ old.wallet_id = w /\ new.wallet_id = w /\ new.peers = old.peers
          /\ new.participants = old.participants
          /\ kex' = With(kex, new) /\ kexFile' = kex' /\ fin'[t].previous = old
          /\ phase = "up" /\ UNCHANGED <<stored, storeVars>>
    BY <1>5, FinalizeFacts
  <2>2. phase' = "up"
    BY <2>1 DEF storeVars
  <2>3. Table(kex) /\ Held(stored, kex) /\ Fits(old) /\ w \in Ids(kex)
    BY <2>1 DEF KeptInv, Table, Ids
  <2>4. Fits(new)
    BY <2>1, <2>3 DEF Fits
  <2>5. Table(With(kex, new))
    BY <2>1, <2>3, <2>4, TableWith
  <2>6. \A e \in stored : e.wallet = w => PeerOf(e) \in old.peers
    BY <2>1, <2>3 DEF Held, Table
  <2>7. ASSUME NEW e \in stored
        PROVE  \E r \in With(kex, new) : r.wallet_id = e.wallet /\ PeerOf(e) \in r.peers
    <3>1. CASE e.wallet = w
      BY <2>1, <2>6, <3>1 DEF With
    <3>2. CASE e.wallet # w
      BY <2>1, <2>3, <3>2 DEF Held, With
    <3>3. QED
      BY <3>1, <3>2
  <2>8. Table(kex)' /\ Table(kexFile)' /\ Held(stored, kex)' /\ Held(stored, kexFile)'
    BY <2>1, <2>5, <2>7 DEF Table, Held
  <2>9. w \in Ids(kex)'
    BY <2>1 DEF Ids, With
  <2>10. \A u \in Thread :
           /\ fin'[u].previous.wallet_id \in Ids(kex)' /\ Fits(fin'[u].previous)
           /\ \A e \in stored' :
                e.wallet = fin'[u].previous.wallet_id => PeerOf(e) \in fin'[u].previous.peers
    <3>1. ASSUME NEW u \in Thread PROVE fin'[u].previous = old
      <4>1. u = t
        OBVIOUS
      <4>2. QED
        BY <2>1, <4>1
    <3>2. QED
      BY <2>1, <2>3, <2>6, <2>9, <3>1
  <2>11. QED
    BY <2>2, <2>8, <2>10 DEF KeptInv, PeerOf, Fits
<1>6. ASSUME NEW t \in Thread, finalize_register(t) PROVE KeptInv'
  <2>1. PICK ok \in BOOLEAN :
          /\ register_wallet(fin[t].wallet, ok) /\ fin[t].step = "register"
          /\ IF ok THEN fin'[t] = Free ELSE fin'[t].previous = fin[t].previous
          /\ UNCHANGED <<kex, kexFile, stored>>
    BY <1>6, RegisterFacts
  <2>2. phase = "up" /\ phase' = "up"
    BY <2>1 DEF register_wallet
  <2>3. \A u \in Thread : fin'[u].step # "free" =>
          fin'[u].previous = fin[u].previous /\ fin[u].step # "free"
    <3>1. \A u \in Thread : u = t
      OBVIOUS
    <3>2. QED
      BY <2>1, <3>1 DEF Free
  <2>4. QED
    BY <2>1, <2>2, <2>3 DEF KeptInv, Table, Held, Ids
<1>7. ASSUME NEW t \in Thread, finalize_undo(t) PROVE KeptInv'
  <2>1. /\ fin[t].step = "undo" /\ phase = "up" /\ kex' = With(kex, fin[t].previous)
        /\ kexFile' \in {kex', kexFile} /\ fin'[t] = Free /\ UNCHANGED <<stored, storeRest>>
    BY <1>0, <1>7, UndoFacts
  <2>2. PICK old : old = fin[t].previous
    OBVIOUS
  <2>3. /\ old.wallet_id \in Ids(kex) /\ Fits(old)
        /\ \A e \in stored : e.wallet = old.wallet_id => PeerOf(e) \in old.peers
    BY <2>1, <2>2 DEF KeptInv
  <2>4. Table(kex) /\ Held(stored, kex) /\ Table(kexFile) /\ Held(stored, kexFile)
    BY <2>1 DEF KeptInv
  <2>5. Table(With(kex, old))
    BY <2>3, <2>4, TableWith
  <2>6. ASSUME NEW e \in stored
        PROVE  \E r \in With(kex, old) : r.wallet_id = e.wallet /\ PeerOf(e) \in r.peers
    <3>1. CASE e.wallet = old.wallet_id
      BY <2>3, <3>1 DEF With
    <3>2. CASE e.wallet # old.wallet_id
      BY <2>4, <3>2 DEF Held, With
    <3>3. QED
      BY <3>1, <3>2
  <2>7. Table(kex)' /\ Table(kexFile)' /\ Held(stored, kex)' /\ Held(stored, kexFile)'
    BY <2>1, <2>2, <2>4, <2>5, <2>6 DEF Table, Held
  <2>8. \A u \in Thread : fin'[u].step = "free"
    <3>1. \A u \in Thread : u = t
      OBVIOUS
    <3>2. QED
      BY <2>1, <3>1 DEF Free
  <2>9. QED
    BY <2>7, <2>8 DEF KeptInv
<1>8. ASSUME UNCHANGED kexVars, phase = "up", phase' = "up" PROVE KeptInv'
  BY <1>8 DEF KeptInv, kexVars, Table, Held, Ids
<1>9. ASSUME NEW t \in Thread, store_handler(t) PROVE KeptInv'
  <2>1. UNCHANGED kexVars /\ phase = "up"
    BY <1>9 DEF store_handler, Idle
  <2>2. phase' = phase
    <3>1. \/ multisig_register_wallet
          \/ \E a \in Address, h \in Hash :
               (\E m \in Amount : register_tx_ex(a, h, m)) \/ register_duplicate(a, h)
      BY <1>9 DEF store_handler
    <3>2. QED
      BY <3>1 DEF multisig_register_wallet, register_wallet, register_tx_ex, register_duplicate
  <2>3. QED
    BY <1>8, <2>1, <2>2
<1>10. CASE restart
  <2>1. phase = "down" /\ UNCHANGED <<kexFile, fin, stored>>
        /\ kex' = IF phase' = "up" /\ Loadable(kexFile) THEN kexFile ELSE {}
    BY <1>10 DEF restart, load
  <2>2. Loadable(kexFile) /\ Table(kexFile) /\ Held(stored, kexFile)
    BY TableLoads DEF KeptInv, KexTypes
  <2>3. Table({})
    BY <2>2, TablePart
  <2>4. Table(kex)' /\ Table(kexFile)' /\ Held(stored, kexFile)' /\ (phase' = "up" => Held(stored, kex)')
    BY <2>1, <2>2, <2>3 DEF Table, Held
  <2>5. \A u \in Thread : fin[u].step = "free"
    BY <2>1 DEF KeptInv
  <2>6. QED
    BY <2>1, <2>4, <2>5 DEF KeptInv
<1>11. CASE process_ends
  <2>1. phase' = "down" /\ kex' = {} /\ UNCHANGED <<kexFile, stored>>
    BY <1>11 DEF process_ends, crash, crash_saving, Ends
  <2>2. \A u \in Thread : fin'[u].step = "free"
    BY <1>11, Zenon DEF process_ends, Free
  <2>3. Table({})
    BY TablePart DEF KeptInv
  <2>4. Table(kex)' /\ Table(kexFile)' /\ Held(stored, kexFile)'
    BY <2>1, <2>3 DEF KeptInv, Table, Held
  <2>5. QED
    BY <2>1, <2>2, <2>4 DEF KeptInv
<1>12. CASE Tick \/ UNCHANGED vars
  <2>1. UNCHANGED <<kex, kexFile, fin, stored, phase>>
    BY <1>12 DEF Tick, vars, kexVars, storeVars
  <2>2. QED
    BY <2>1 DEF KeptInv, Table, Held, Ids
<1>13. QED
  BY <1>3, <1>4, <1>5, <1>6, <1>7, <1>9, <1>10, <1>11, <1>12, Zenon DEF Next

\* A key-exchange message that was acknowledged is in the registry until its
\* participant replaces it or the record expires or is evicted, through failed
\* saves, undone finalisations and restarts.  It takes one REST thread (two
\* threads: the undo of one overwrites what the other acknowledged) and records
\* that the reader of the file does not refuse (WithinReader).
THEOREM SubmissionsKept ==
  ASSUME \A t, u \in Thread : t = u, WithinReader
  PROVE  Spec => []KexAcked
<1>1. Init => KeptInv
  <2> SUFFICES ASSUME Init PROVE KeptInv
    OBVIOUS
  <2>1. kex = {} /\ kexFile = {} /\ stored = {}
    BY DEF Init
  <2>2. Table({})
    BY FS_EmptySet, KexAssumption DEF Table
  <2>3. \A t \in Thread : fin[t].step = "free"
    BY DEF Init, Free
  <2>4. Table(kex) /\ Table(kexFile) /\ Held(stored, kex) /\ Held(stored, kexFile)
    BY <2>1, <2>2 DEF Held
  <2>5. QED
    BY <2>3, <2>4 DEF KeptInv
<1>2. StoreTypeOK /\ KexTypes /\ KeptInv /\ [Next]_vars => KeptInv'
  BY KeptStep
<1>3. KeptInv => KexAcked
  BY DEF KeptInv, KexAcked, Held, PeerOf
<1>4. QED
  BY <1>1, <1>2, <1>3, WholeTypes, PTL DEF Spec

============================================================================
