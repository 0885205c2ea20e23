--------------------------- MODULE ScannerProofs ---------------------------
(***************************************************************************)
(* The theorems of Storage and Scanner, for every value of the constants.  *)
(* First what each transaction of Storage preserves, then the safety of    *)
(* Scanner.  The inductive invariant IInv is proved in parts that follow   *)
(* the variables: the tables (StorageInv), the daemon (EnvInv), the        *)
(* threads and their queues (ThreadsInv, QueuesInv) and the scalars        *)
(* (MiscInv).  Every action leaves StartsLower true, which is what keeps   *)
(* the accounts a thread holds valid while others write the tables.        *)
(* Last, without rescans and imports: nothing is lost, and Ledger is       *)
(* implemented.                                                            *)
(***************************************************************************)
EXTENDS Scanner, TLAPS

----------------------------------------------------------------------------
(* Chains.                                                                 *)

\* The table b holds one chain up to height n, the checkpoint included.
ChainOn(b, n) ==
  /\ n \in Nat /\ Checkpoint <= n
  /\ b = [h \in {0} \cup (Checkpoint..n) |-> b[h]]
  /\ b[n] \in Hash(n) /\ OnCheckpoint(b[n], n)
  /\ \A h \in DOMAIN b : b[h] = Prefix(b[n], h)

\* MDB_LAST_DUP finds the end of a table without holes.
LEMMA LastOfRange ==
  ASSUME NEW b, NEW n \in Nat, Checkpoint <= n,
         DOMAIN b = {0} \cup (Checkpoint..n)
  PROVE  LastOf(b) = n
BY StorageAssumption DEF LastOf

\* An ancestor of a block is a hash of its own height.
LEMMA PrefixType ==
  ASSUME NEW n \in Nat, NEW c \in Hash(n), NEW h \in Nat, h <= n
  PROVE  Prefix(c, h) \in Hash(h) /\ (h = n => Prefix(c, h) = c)
BY DEF Hash, Prefix

\* Hashes of different heights differ.
LEMMA PrefixHeight ==
  ASSUME NEW c, NEW d, NEW h \in Nat, NEW g \in Nat, Prefix(c, h) = Prefix(d, g)
  PROVE  h = g
<1>1. DOMAIN Prefix(c, h) = 1..h /\ DOMAIN Prefix(d, g) = 1..g
  BY DEF Prefix
<1>2. 1..h = 1..g
  BY <1>1
<1>3. h \in 1..h \/ h = 0
  OBVIOUS
<1>4. g \in 1..g \/ g = 0
  OBVIOUS
<1> QED
  BY <1>2, <1>3, <1>4

\* Equal hashes have equal ancestors.
LEMMA PrefixAncestor ==
  ASSUME NEW c, NEW d, NEW h \in Nat, NEW g \in Nat, g <= h, Prefix(c, h) = Prefix(d, h)
  PROVE  Prefix(c, g) = Prefix(d, g)
<1>1. ASSUME NEW i \in 1..g PROVE c[i] = d[i]
  <2>1. i \in 1..h
    OBVIOUS
  <2>2. Prefix(c, h)[i] = c[i] /\ Prefix(d, h)[i] = d[i]
    BY <2>1 DEF Prefix
  <2> QED
    BY <2>2
<1> QED
  BY <1>1 DEF Prefix

\* What ChainOn says in the terms of BlocksOK and ChainLinked.
LEMMA ChainFacts ==
  ASSUME NEW b, NEW n, ChainOn(b, n)
  PROVE  /\ n = LastOf(b) /\ n \in DOMAIN b
         /\ DOMAIN b = {0} \cup (Checkpoint..n)
         /\ \A h \in DOMAIN b : b[h] \in Hash(h)
<1>1. DOMAIN b = {0} \cup (Checkpoint..n)
  BY DEF ChainOn
<1>2. n = LastOf(b) /\ n \in DOMAIN b
  BY <1>1, LastOfRange, StorageAssumption DEF ChainOn
<1>3. ASSUME NEW h \in DOMAIN b PROVE h \in Nat /\ h <= n
  BY <1>1, StorageAssumption DEF ChainOn
<1>4. \A h \in DOMAIN b : b[h] \in Hash(h)
  BY <1>3, PrefixType DEF ChainOn
<1> QED
  BY <1>1, <1>2, <1>4

\* BlocksOK and ChainLinked say that the blocks table is a chain.
LEMMA TableIsChain ==
  ASSUME BlocksOK, ChainLinked
  PROVE  ChainOn(blocks, LastBlock)
<1>1. LastBlock \in DOMAIN blocks
  BY StorageAssumption DEF BlocksOK
<1> QED
  BY <1>1 DEF BlocksOK, ChainLinked, ChainOn, ChainHash

\* A transaction that writes a chain establishes both.
LEMMA ChainIsTable ==
  ASSUME NEW n, ChainOn(blocks', n)
  PROVE  LastBlock' = n /\ BlocksOK' /\ ChainLinked'
<1>1. LastBlock' = n
  BY ChainFacts DEF LastBlock
<1>2. BlocksOK'
  BY <1>1, ChainFacts DEF BlocksOK, ChainOn
<1>3. ChainLinked'
  BY <1>1 DEF ChainLinked, ChainHash, ChainOn
<1> QED
  BY <1>1, <1>2, <1>3

\* An ancestor of an ancestor is an ancestor.
LEMMA PrefixPrefix ==
  ASSUME NEW c, NEW h \in Nat, NEW g \in Nat, g <= h
  PROVE  Prefix(Prefix(c, h), g) = Prefix(c, g)
BY DEF Prefix

\* Two chains with one common block have its ancestors in common.
LEMMA ChainsAgree ==
  ASSUME NEW b, NEW n, ChainOn(b, n), NEW d, NEW e, ChainOn(d, e),
         NEW k \in DOMAIN b \cap DOMAIN d, b[k] = d[k], NEW g \in Nat, g <= k
  PROVE  Prefix(b[n], g) = Prefix(d[e], g)
<1>1. k \in Nat
  BY ChainFacts, StorageAssumption DEF ChainOn
<1>2. Prefix(b[n], k) = Prefix(d[e], k)
  BY DEF ChainOn
<1> QED
  BY <1>1, <1>2, PrefixAncestor

\* The rows up to a common height k, then the rows up to e of another chain
\* that has the same block at k, are a chain again.
LEMMA ExtendChain ==
  ASSUME NEW b, NEW n, ChainOn(b, n),
         NEW N \in Nat, NEW c \in Hash(N), OnCheckpoint(c, N),
         NEW e \in Nat, e <= N,
         NEW k \in Checkpoint..e, k <= n, b[k] = Prefix(c, k)
  PROVE  ChainOn([h \in {g \in DOMAIN b : g <= k} \cup ((k + 1)..e) |->
                    IF h <= k THEN b[h] ELSE Prefix(c, h)], e)
<1> DEFINE D == {g \in DOMAIN b : g <= k} \cup ((k + 1)..e)
<1> DEFINE d == [h \in D |-> IF h <= k THEN b[h] ELSE Prefix(c, h)]
<1>0. k \in Nat /\ n \in Nat /\ Checkpoint \in Nat
  BY StorageAssumption DEF ChainOn
<1>1. DOMAIN b = {0} \cup (Checkpoint..n)
  BY DEF ChainOn
<1>2. D = {0} \cup (Checkpoint..e)
  BY <1>0, <1>1
<1>3. \A h \in D : d[h] = Prefix(c, h)
  <2> SUFFICES ASSUME NEW h \in D, h <= k PROVE b[h] = Prefix(c, h)
    OBVIOUS
  <2>1. h \in Nat /\ h \in DOMAIN b /\ k \in DOMAIN b
    BY <1>0, <1>1, <1>2
  <2>2. b[h] = Prefix(b[n], h) /\ Prefix(b[n], k) = Prefix(c, k)
    BY <2>1 DEF ChainOn
  <2> QED
    BY <1>0, <2>1, <2>2, PrefixAncestor
<1>4. e \in D /\ d[e] = Prefix(c, e)
  BY <1>0, <1>2, <1>3
<1>5. d[e] \in Hash(e)
  BY <1>4, PrefixType
<1>6. OnCheckpoint(d[e], e)
  BY <1>4 DEF OnCheckpoint, Prefix
<1>7. d = [h \in {0} \cup (Checkpoint..e) |-> d[h]] /\ DOMAIN d = D
  BY <1>2
<1>8. \A h \in D : h \in Nat /\ h <= e
  BY <1>0, <1>2
<1> HIDE DEF d, D
<1>9. \A h \in D : d[h] = Prefix(d[e], h)
  BY <1>3, <1>4, <1>8, PrefixPrefix
<1>10. ChainOn(d, e)
  BY <1>0, <1>5, <1>6, <1>7, <1>9, SMTT(30) DEF ChainOn
<1> QED
  BY <1>10 DEF d, D

----------------------------------------------------------------------------
(* Accounts and their index.                                               *)

\* rollback_accounts keeps one index row per account.
LEMMA RollbackIndex ==
  ASSUME AccountsOK, IndexOneRow, NEW h \in Nat, 1 <= h, RollbackAccounts(h)
  PROVE  AccountsOK' /\ IndexOneRow'
<1> DEFINE w == h - 1
<1>0. w \in Nat /\ Most(h, 1) - 1 = w
  BY DEF Most
<1>1. accounts' = [a \in Account |->
        IF a \in RolledBack(h)
        THEN Record(accounts[a].status, Least(w, accounts[a].start), w)
        ELSE accounts[a]]
  BY <1>0 DEF RollbackAccounts
<1>2. by_height' = {r \in by_height : r.height < h}
        \cup {Row(w, r.id, r.status) : r \in {q \in by_height : q.height >= h}}
  BY <1>0 DEF RollbackAccounts
<1> HIDE DEF w
<1>3. AccountsOK'
  <2>1. ASSUME NEW a \in Account
        PROVE  /\ accounts'[a] \in [status : Status \cup {"none"}, start : Nat, scan : Nat]
               /\ accounts'[a].start <= accounts'[a].scan
    BY <1>0, <1>1 DEF AccountsOK, Least, Record
  <2>2. by_height' \subseteq [height : Nat, id : Account, status : Status]
    BY <1>0, <1>2 DEF AccountsOK, Row
  <2>3. accounts' = [a \in Account |-> accounts'[a]]
    BY <1>1
  <2> QED
    BY <2>1, <2>2, <2>3 DEF AccountsOK
<1>4. IndexOneRow'
  <2> SUFFICES ASSUME NEW a \in Account
               PROVE  IF Exists(a)'
                      THEN \E r \in by_height' : /\ RowsOf(a)' = {r}
                                                 /\ r.status = accounts'[a].status
                                                 /\ accounts'[a].scan <= r.height
                      ELSE RowsOf(a)' = {}
    BY DEF IndexOneRow
  <2>1. Exists(a)' <=> Exists(a)
    BY <1>1 DEF Exists, AccountsOK, Record
  <2>2. CASE ~ Exists(a)
    BY <1>2, <2>1, <2>2 DEF IndexOneRow, RowsOf, Row
  <2>3. CASE Exists(a)
    <3>1. PICK r \in by_height : /\ RowsOf(a) = {r}
                                 /\ r.status = accounts[a].status
                                 /\ accounts[a].scan <= r.height
      BY <2>3 DEF IndexOneRow
    <3>2. r \in [height : Nat, id : Account, status : Status] /\ r.id = a
      BY <3>1 DEF AccountsOK, RowsOf
    <3>3. \A q \in by_height : q.id = a => q = r
      BY <3>1 DEF RowsOf
    <3>4. CASE r.height < h
      <4>1. RowsOf(a)' = {r} /\ r \in by_height'
        BY <1>2, <3>1, <3>2, <3>3, <3>4 DEF RowsOf, Row, AccountsOK
      <4>2. a \notin RolledBack(h)
        BY <3>1, <3>2, <3>4 DEF RolledBack
      <4> QED
        BY <1>1, <2>1, <2>3, <3>1, <4>1, <4>2
    <3>5. CASE r.height >= h
      <4>1. RowsOf(a)' = {Row(w, a, r.status)} /\ Row(w, a, r.status) \in by_height'
        BY <1>2, <3>1, <3>2, <3>3, <3>5 DEF RowsOf, Row, AccountsOK
      <4>2. a \in RolledBack(h)
        BY <3>1, <3>5 DEF RolledBack
      <4>3. accounts'[a].scan = w /\ accounts'[a].status = accounts[a].status
        BY <1>1, <4>2 DEF AccountsOK, Record
      <4> QED
        BY <1>0, <2>1, <2>3, <3>1, <4>1, <4>3 DEF Row
    <3> QED
      BY <3>2, <3>4, <3>5
  <2> QED
    BY <2>2, <2>3
<1> QED
  BY <1>3, <1>4

\* Rewriting the records of a set of accounts whose rows are found at their
\* scan heights, one row deleted and one put for each, keeps one row each.
LEMMA RewriteIndex ==
  ASSUME AccountsOK, IndexOneRow, NEW S \in SUBSET Account,
         NEW R, NEW H,
         \A a \in S : /\ Exists(a) /\ Indexed(a) /\ H[a] \in Nat
                      /\ R[a] \in [status : Status, start : Nat, scan : Nat]
                      /\ R[a].start <= R[a].scan /\ R[a].scan <= H[a],
         accounts' = [a \in Account |-> IF a \in S THEN R[a] ELSE accounts[a]],
         by_height' = {r \in by_height : ~ (r.id \in S /\ r.height = accounts[r.id].scan)}
                        \cup {Row(H[a], a, R[a].status) : a \in S}
  PROVE  AccountsOK' /\ IndexOneRow'
<1>1. AccountsOK'
  <2>1. ASSUME NEW a \in Account
        PROVE  /\ accounts'[a] \in [status : Status \cup {"none"}, start : Nat, scan : Nat]
               /\ accounts'[a].start <= accounts'[a].scan
    BY DEF AccountsOK
  <2>2. by_height' \subseteq [height : Nat, id : Account, status : Status]
    BY DEF AccountsOK, Row
  <2> QED
    BY <2>1, <2>2 DEF AccountsOK
<1>2. IndexOneRow'
  <2> SUFFICES ASSUME NEW a \in Account
               PROVE  IF Exists(a)'
                      THEN \E r \in by_height' : /\ RowsOf(a)' = {r}
                                                 /\ r.status = accounts'[a].status
                                                 /\ accounts'[a].scan <= r.height
                      ELSE RowsOf(a)' = {}
    BY DEF IndexOneRow
  <2>1. CASE a \in S
    <3>1. accounts'[a] = R[a] /\ Exists(a)'
      BY <2>1 DEF Exists, Status
    <3>2. PICK r \in by_height : RowsOf(a) = {r}
      BY <2>1 DEF IndexOneRow
    <3>3. r.id = a /\ r.height = accounts[a].scan
      BY <2>1, <3>2 DEF RowsOf, Indexed
    <3>4. RowsOf(a)' = {Row(H[a], a, R[a].status)}
      <4>1. \A q \in by_height : q.id = a => q = r
        BY <3>2 DEF RowsOf
      <4> QED
        BY <2>1, <3>3, <4>1 DEF RowsOf, Row
    <3>5. Row(H[a], a, R[a].status) \in by_height'
      BY <2>1
    <3> QED
      BY <2>1, <3>1, <3>4, <3>5 DEF Row
  <2>2. CASE a \notin S
    <3>1. accounts'[a] = accounts[a]
      BY <2>2
    <3>2. RowsOf(a)' = RowsOf(a)
      BY <2>2 DEF RowsOf, Row
    <3>3. Exists(a)' <=> Exists(a)
      BY <3>1 DEF Exists
    <3>4. CASE Exists(a)
      <4>1. PICK r \in by_height : /\ RowsOf(a) = {r}
                                   /\ r.status = accounts[a].status
                                   /\ accounts[a].scan <= r.height
        BY <3>4 DEF IndexOneRow
      <4>2. r \in by_height'
        BY <3>2, <4>1 DEF RowsOf
      <4> QED
        BY <3>1, <3>2, <3>3, <3>4, <4>1, <4>2
    <3>5. CASE ~ Exists(a)
      BY <3>2, <3>3, <3>5 DEF IndexOneRow
    <3> QED
      BY <3>4, <3>5
  <2> QED
    BY <2>1, <2>2
<1> QED
  BY <1>1, <1>2

\* The same for one account and MovedRow.
LEMMA MoveIndex ==
  ASSUME AccountsOK, IndexOneRow, NEW a \in Account, Exists(a), Indexed(a),
         NEW s \in Status, NEW lo \in Nat, NEW hi \in Nat, NEW h \in Nat,
         lo <= hi, hi <= h,
         accounts' = [accounts EXCEPT ![a] = Record(s, lo, hi)],
         by_height' = MovedRow(a, h, s)
  PROVE  AccountsOK' /\ IndexOneRow'
<1> DEFINE R == [b \in Account |-> Record(s, lo, hi)]
<1> DEFINE H == [b \in Account |-> h]
<1> DEFINE S == {a}
<1>1. accounts' = [b \in Account |-> IF b \in S THEN R[b] ELSE accounts[b]]
  BY DEF AccountsOK
<1>2. by_height' = {r \in by_height : ~ (r.id \in S /\ r.height = accounts[r.id].scan)}
                     \cup {Row(H[b], b, R[b].status) : b \in S}
  <2>1. {Row(H[b], b, R[b].status) : b \in S} = {Row(h, a, s)}
    BY DEF Record
  <2>2. {r \in by_height : ~ (r.id \in S /\ r.height = accounts[r.id].scan)}
          = {r \in by_height : ~ (r.id = a /\ r.height = accounts[a].scan)}
    OBVIOUS
  <2> QED
    BY <2>1, <2>2 DEF MovedRow
<1>3. \A b \in S : /\ Exists(b) /\ Indexed(b) /\ H[b] \in Nat
                   /\ R[b] \in [status : Status, start : Nat, scan : Nat]
                   /\ R[b].start <= R[b].scan /\ R[b].scan <= H[b]
  BY DEF Record
<1>4. S \in SUBSET Account
  OBVIOUS
<1> HIDE DEF R, H, S
<1> QED
  BY <1>1, <1>2, <1>3, <1>4, RewriteIndex

\* do_add_account puts the first row of an address.
LEMMA AddIndex ==
  ASSUME AccountsOK, IndexOneRow, NEW a \in Account, ~ Exists(a),
         NEW s \in Status, NEW h \in Nat, DoAddAccount(a, s, h)
  PROVE  AccountsOK' /\ IndexOneRow'
<1>1. accounts' = [accounts EXCEPT ![a] = Record(s, h, h)]
  BY DEF DoAddAccount
<1>2. by_height' = by_height \cup {Row(h, a, s)}
  BY DEF DoAddAccount
<1>3. AccountsOK'
  BY <1>1, <1>2 DEF AccountsOK, Row, Record
<1>4. IndexOneRow'
  <2> SUFFICES ASSUME NEW b \in Account
               PROVE  IF Exists(b)'
                      THEN \E r \in by_height' : /\ RowsOf(b)' = {r}
                                                 /\ r.status = accounts'[b].status
                                                 /\ accounts'[b].scan <= r.height
                      ELSE RowsOf(b)' = {}
    BY DEF IndexOneRow
  <2>1. CASE b = a
    <3>1. RowsOf(b) = {}
      BY <2>1 DEF IndexOneRow
    <3>2. RowsOf(b)' = {Row(h, b, s)} /\ Row(h, b, s) \in by_height'
      BY <1>2, <2>1, <3>1 DEF RowsOf, Row
    <3>3. accounts'[b] = Record(s, h, h) /\ Exists(b)'
      BY <1>1, <2>1 DEF AccountsOK, Record, Exists, Status
    <3> QED
      BY <3>2, <3>3 DEF Row, Record
  <2>2. CASE b # a
    <3>1. accounts'[b] = accounts[b] /\ (Exists(b)' <=> Exists(b))
      BY <1>1, <2>2 DEF AccountsOK, Exists
    <3>2. RowsOf(b)' = RowsOf(b)
      BY <1>2, <2>2 DEF RowsOf, Row
    <3> QED
      BY <1>2, <3>1, <3>2 DEF IndexOneRow
  <2> QED
    BY <2>1, <2>2
<1> QED
  BY <1>3, <1>4

----------------------------------------------------------------------------
(* The transactions that do not touch the blocks table.                    *)

\* The part of the inductive invariant that is about the tables.
StorageInv == TablesOK /\ ChainLinked /\ IndexOneRow /\ NoPhantom /\ NoOrphans

\* No account disappears and no start height goes up.
StartsLower ==
  \A a \in Account : Exists(a) => Exists(a)' /\ accounts'[a].start <= accounts[a].start

RequestsOK ==
  /\ creates \in [Account -> Nat \cup {NoRequest}]
  /\ imports \in [Account -> Nat \cup {NoRequest}]

\* Only the request queues change.
LEMMA RequestsStep ==
  ASSUME StorageInv, RequestsOK', UNCHANGED <<blocks, accounts, by_height, outputs>>
  PROVE  StorageInv' /\ StartsLower
<1>1. BlocksOK' /\ ChainLinked'
  BY DEF StorageInv, TablesOK, BlocksOK, ChainLinked, ChainHash, LastBlock
<1>2. AccountsOK' /\ OutputsOK'
  BY DEF StorageInv, TablesOK, AccountsOK, OutputsOK
<1>3. IndexOneRow'
  BY DEF StorageInv, IndexOneRow, RowsOf, Exists
<1>4. NoPhantom' /\ NoOrphans'
  BY DEF StorageInv, NoPhantom, NoOrphans, ChainHash, LastBlock, Exists
<1>5. StartsLower
  BY DEF StartsLower, Exists, StorageInv, TablesOK, AccountsOK
<1> QED
  BY <1>1, <1>2, <1>3, <1>4, <1>5 DEF StorageInv, TablesOK, RequestsOK

\* A new account has no outputs and none are found for it.
LEMMA AddStep ==
  ASSUME StorageInv, RequestsOK', UNCHANGED <<blocks, outputs>>,
         NEW a \in Account, ~ Exists(a), NEW s \in Status, NEW h \in Nat,
         DoAddAccount(a, s, h)
  PROVE  StorageInv' /\ StartsLower
<1>1. BlocksOK' /\ ChainLinked' /\ OutputsOK'
  BY DEF StorageInv, TablesOK, BlocksOK, ChainLinked, ChainHash, LastBlock, OutputsOK
<1>2. AccountsOK' /\ IndexOneRow'
  BY AddIndex DEF StorageInv, TablesOK
<1>3. accounts' = [accounts EXCEPT ![a] = Record(s, h, h)]
  BY DEF DoAddAccount
<1>4. \A b \in Account : b # a => accounts'[b] = accounts[b]
  BY <1>3 DEF StorageInv, TablesOK, AccountsOK
<1>5. Exists(a)' /\ outputs[a] = {}
  BY <1>3 DEF StorageInv, TablesOK, AccountsOK, NoOrphans, Exists, Record, Status
<1>6. NoPhantom'
  BY <1>4, <1>5 DEF StorageInv, NoPhantom, ChainHash, LastBlock
<1>7. NoOrphans'
  BY <1>4, <1>5 DEF StorageInv, NoOrphans, Exists
<1>8. StartsLower
  BY <1>4 DEF StartsLower, Exists, StorageInv, TablesOK, AccountsOK
<1> QED
  BY <1>1, <1>2, <1>6, <1>7, <1>8 DEF StorageInv, TablesOK, RequestsOK

\* change_height deletes the outputs it moves the account below.
LEMMA ChangeHeightStep ==
  ASSUME StorageInv, RequestsOK', UNCHANGED blocks,
         NEW a \in Account, NEW h \in Nat, ChangeHeight(a, h)
  PROVE  StorageInv' /\ StartsLower
<1> DEFINE lo == Least(h, accounts[a].start)
<1> DEFINE hi == Least(h, accounts[a].scan)
<1>1. BlocksOK' /\ ChainLinked'
  BY DEF StorageInv, TablesOK, BlocksOK, ChainLinked, ChainHash, LastBlock
<1>2. /\ accounts[a].status \in Status
      /\ accounts[a].start \in Nat /\ accounts[a].scan \in Nat
      /\ accounts[a].start <= accounts[a].scan
  BY DEF StorageInv, TablesOK, AccountsOK, ChangeHeight, Exists
<1>3. lo \in Nat /\ hi \in Nat /\ lo <= hi /\ hi <= h /\ lo <= accounts[a].start
  BY <1>2 DEF Least
<1>4. accounts' = [accounts EXCEPT ![a] = Record(accounts[a].status, lo, hi)]
  BY DEF ChangeHeight
<1>5. by_height' = MovedRow(a, h, accounts[a].status)
  BY DEF ChangeHeight
<1>6. Exists(a) /\ Indexed(a)
  BY DEF ChangeHeight
<1>7. AccountsOK' /\ IndexOneRow'
  <2> HIDE DEF lo, hi
  <2> QED
    BY <1>2, <1>3, <1>4, <1>5, <1>6, MoveIndex DEF StorageInv, TablesOK
<1>8. outputs' = [outputs EXCEPT ![a] = RollbackOutputs(outputs[a], h)]
  BY DEF ChangeHeight
<1>9. OutputsOK'
  BY <1>8 DEF OutputsOK, StorageInv, TablesOK, RollbackOutputs
<1>10. \A b \in Account : b # a => accounts'[b] = accounts[b] /\ outputs'[b] = outputs[b]
  BY <1>4, <1>8 DEF StorageInv, TablesOK, AccountsOK, OutputsOK
<1>11. accounts'[a] = Record(accounts[a].status, lo, hi) /\ outputs'[a] = RollbackOutputs(outputs[a], h)
  BY <1>4, <1>8 DEF StorageInv, TablesOK, AccountsOK, OutputsOK
<1>12. NoPhantom'
  <2> SUFFICES ASSUME NEW b \in Account, NEW o \in outputs'[b]
               PROVE  /\ accounts'[b].start < o.height /\ o.height <= accounts'[b].scan
                      /\ o.height <= LastBlock'
                      /\ o.block = ChainHash(o.height)'
    BY DEF NoPhantom
  <2>0. LastBlock' = LastBlock /\ ChainHash(o.height)' = ChainHash(o.height)
    BY DEF LastBlock, ChainHash
  <2>1. CASE b # a
    BY <1>10, <2>0, <2>1 DEF StorageInv, NoPhantom
  <2>2. CASE b = a
    <3>1. o \in outputs[a] /\ o.height < h /\ o.height \in Nat
      BY <1>11, <2>2 DEF RollbackOutputs, StorageInv, TablesOK, OutputsOK
    <3>2. /\ accounts[a].start < o.height /\ o.height <= accounts[a].scan
          /\ o.height <= LastBlock /\ o.block = ChainHash(o.height)
      BY <3>1 DEF StorageInv, NoPhantom
    <3>3. lo < o.height /\ o.height <= hi
      BY <1>2, <1>3, <3>1, <3>2 DEF Least
    <3> QED
      BY <1>11, <2>0, <2>2, <3>2, <3>3 DEF Record
  <2> QED
    BY <2>1, <2>2
<1>13. NoOrphans'
  BY <1>6, <1>10, <1>11 DEF StorageInv, NoOrphans, Exists, Record
<1>14. StartsLower
  BY <1>3, <1>6, <1>10, <1>11 DEF StartsLower, Exists, Record, StorageInv, TablesOK, AccountsOK
<1> QED
  BY <1>1, <1>7, <1>9, <1>12, <1>13, <1>14 DEF StorageInv, TablesOK, RequestsOK

\* change_status rewrites the record and its row at the same height.
LEMMA StatusStep ==
  ASSUME StorageInv, NEW a \in Account, NEW s \in Status, change_status(a, s)
  PROVE  StorageInv' /\ StartsLower
<1>1. BlocksOK' /\ ChainLinked' /\ OutputsOK' /\ RequestsOK'
  BY DEF StorageInv, TablesOK, BlocksOK, ChainLinked, ChainHash, LastBlock, OutputsOK,
         RequestsOK, change_status
<1> DEFINE lo == accounts[a].start
<1> DEFINE hi == accounts[a].scan
<1>2. lo \in Nat /\ hi \in Nat /\ lo <= hi /\ hi <= hi
  BY DEF StorageInv, TablesOK, AccountsOK
<1>3. accounts' = [accounts EXCEPT ![a] = Record(s, lo, hi)]
  BY DEF change_status
<1>4. by_height' = MovedRow(a, hi, s) /\ Exists(a) /\ Indexed(a)
  BY DEF change_status
<1>5. AccountsOK' /\ IndexOneRow'
  <2> HIDE DEF lo, hi
  <2> QED
    BY <1>2, <1>3, <1>4, MoveIndex DEF StorageInv, TablesOK
<1>6. \A b \in Account : /\ Exists(b)' <=> Exists(b)
                         /\ accounts'[b].start = accounts[b].start
                         /\ accounts'[b].scan = accounts[b].scan
  BY <1>3, <1>4 DEF StorageInv, TablesOK, AccountsOK, Exists, Record, Status
<1>7. NoPhantom' /\ NoOrphans'
  BY <1>6 DEF StorageInv, NoPhantom, NoOrphans, ChainHash, LastBlock, change_status
<1>8. StartsLower
  BY <1>6 DEF StartsLower, StorageInv, TablesOK, AccountsOK
<1> QED
  BY <1>1, <1>5, <1>7, <1>8 DEF StorageInv, TablesOK, RequestsOK

----------------------------------------------------------------------------
(* sync_chain.                                                             *)

\* The blocks table in a state of the invariant.
LEMMA ChainHere ==
  ASSUME StorageInv
  PROVE  /\ ChainOn(blocks, LastBlock)
         /\ LastBlock \in Nat /\ Checkpoint \in Nat /\ Checkpoint <= LastBlock
         /\ DOMAIN blocks = {0} \cup (Checkpoint..LastBlock)
         /\ blocks = [h \in DOMAIN blocks |-> blocks[h]]
<1>1. ChainOn(blocks, LastBlock)
  BY TableIsChain DEF StorageInv, TablesOK
<1>2. LastBlock \in Nat /\ Checkpoint <= LastBlock /\ Checkpoint \in Nat
  BY StorageAssumption DEF StorageInv, TablesOK, BlocksOK
<1>3. blocks = [h \in {0} \cup (Checkpoint..LastBlock) |-> blocks[h]]
  BY DEF StorageInv, TablesOK, BlocksOK
<1>4. DOMAIN blocks = {0} \cup (Checkpoint..LastBlock)
  BY <1>3
<1> QED
  BY <1>1, <1>2, <1>3, <1>4

\* The blocks table has grown: outputs are on the longer chain too.
LEMMA GrowStep ==
  ASSUME StorageInv, NEW e \in Nat, ChainOn(blocks', e), LastBlock <= e,
         blocks'[LastBlock] = blocks[LastBlock],
         UNCHANGED <<accounts, by_height, outputs, creates, imports>>
  PROVE  StorageInv' /\ StartsLower
<1>0. ChainOn(blocks, LastBlock) /\ LastBlock \in Nat
  BY TableIsChain DEF StorageInv, TablesOK, BlocksOK
<1>1. LastBlock' = e /\ BlocksOK' /\ ChainLinked'
  BY ChainIsTable
<1>2. LastBlock \in DOMAIN blocks /\ LastBlock \in DOMAIN blocks'
  BY <1>0, ChainFacts DEF ChainOn
<1>3. \A g \in Nat : g <= LastBlock => ChainHash(g)' = ChainHash(g)
  BY <1>0, <1>1, <1>2, ChainsAgree DEF ChainHash
<1>4. AccountsOK' /\ OutputsOK' /\ RequestsOK'
  BY DEF StorageInv, TablesOK, AccountsOK, OutputsOK, RequestsOK
<1>5. IndexOneRow' /\ NoOrphans'
  BY DEF StorageInv, IndexOneRow, RowsOf, Exists, NoOrphans
<1>6. NoPhantom'
  <2> SUFFICES ASSUME NEW a \in Account, NEW o \in outputs[a]
               PROVE  /\ accounts[a].start < o.height /\ o.height <= accounts[a].scan
                      /\ o.height <= LastBlock' /\ o.block = ChainHash(o.height)'
    BY DEF NoPhantom
  <2>1. o.height \in Nat
    BY DEF StorageInv, TablesOK, OutputsOK
  <2>2. /\ accounts[a].start < o.height /\ o.height <= accounts[a].scan
        /\ o.height <= LastBlock /\ o.block = ChainHash(o.height)
    BY DEF StorageInv, NoPhantom
  <2> QED
    BY <1>0, <1>1, <1>3, <2>1, <2>2
<1>7. StartsLower
  BY DEF StartsLower, Exists, StorageInv, TablesOK, AccountsOK
<1> QED
  BY <1>1, <1>4, <1>5, <1>6, <1>7 DEF StorageInv, TablesOK, RequestsOK

\* The walk of sync_chain compares every hash with the row of its own height,
\* although it passes from genesis to the checkpoint in one move.
LEMMA WalkAligned ==
  ASSUME ChainOn(blocks, LastBlock),
         NEW s \in Nat, NEW n \in Nat, 2 <= n, NEW c,
         NEW hs, hs = [i \in 0..(n - 1) |-> Prefix(c, s + i)],
         FirstMatches(s, hs),
         \/ Mismatch(s, n, hs) = {}
         \/ \E k \in Mismatch(s, n, hs) : /\ \A j \in Mismatch(s, n, hs) : k <= j
                                          /\ Checkpoint < s + k
  PROVE  Checkpoint <= s + 1 /\ \A j \in Nat : 1 <= j => RowAfter(s, j) = s + j
<1>0. Checkpoint \in Nat /\ DOMAIN blocks = {0} \cup (Checkpoint..LastBlock)
  BY StorageAssumption, ChainFacts
<1>1. CASE Checkpoint <= s
  BY <1>0, <1>1 DEF RowAfter
<1>2. CASE s < Checkpoint
  <2>1. s = 0
    BY <1>0, <1>2 DEF FirstMatches
  <2>2. RowAfter(s, 1) = Checkpoint /\ Checkpoint \in DOMAIN blocks
    BY <1>0, <1>2 DEF RowAfter, ChainOn
  <2>3. hs[1] = Prefix(c, 1)
    <3>1. hs[1] = Prefix(c, s + 1) /\ s + 1 = 1
      BY <2>1
    <3> QED
      BY <3>1
  <2>4. blocks[Checkpoint] = Prefix(blocks[LastBlock], Checkpoint)
    BY <2>2 DEF ChainOn
  <2>5. ASSUME Checkpoint # 1 PROVE FALSE
    <3>1. blocks[Checkpoint] # hs[1]
      BY <1>0, <2>3, <2>4, <2>5, PrefixHeight
    <3>2. 1 \in Mismatch(s, n, hs)
      BY <2>2, <3>1 DEF Mismatch
    <3>3. PICK k \in Mismatch(s, n, hs) : /\ \A j \in Mismatch(s, n, hs) : k <= j
                                          /\ Checkpoint < s + k
      BY <3>2
    <3>4. k \in 1..(n - 1) /\ k <= 1
      BY <3>2, <3>3 DEF Mismatch
    <3> QED
      BY <1>0, <1>2, <2>1, <3>3, <3>4
  <2> QED
    BY <1>0, <2>1, <2>5 DEF RowAfter
<1> QED
  BY <1>0, <1>1, <1>2

\* Hashes of a checkpointed chain are appended behind the rows they share.
LEMMA AppendStep ==
  ASSUME StorageInv, NEW N \in Nat, NEW c \in Hash(N), OnCheckpoint(c, N),
         NEW s \in Nat, NEW n \in Nat, 2 <= n, s + n - 1 <= N,
         NEW hs, hs = [i \in 0..(n - 1) |-> Prefix(c, s + i)],
         sync_chain_append(s, n, hs)
  PROVE  StorageInv' /\ StartsLower
<1> DEFINE e == s + n - 1
<1> DEFINE L == LastBlock
<1>0. /\ ChainOn(blocks, L) /\ DOMAIN blocks = {0} \cup (Checkpoint..L)
      /\ L \in Nat /\ Checkpoint \in Nat /\ Checkpoint <= L /\ e \in Nat
  BY ChainHere
<1>1. /\ FirstMatches(s, hs) /\ Mismatch(s, n, hs) = {}
      /\ blocks' = [h \in DOMAIN blocks \cup ((s + 1)..e) |->
                      IF h \in DOMAIN blocks THEN blocks[h] ELSE hs[h - s]]
      /\ UNCHANGED <<accounts, by_height, outputs, creates, imports>>
  BY DEF sync_chain_append
<1>2. /\ Checkpoint <= s + 1
      /\ \A j \in Nat : 1 <= j => RowAfter(s, j) = s + j
  BY <1>0, <1>1, WalkAligned
<1>2a. Checkpoint <= s + 1
  BY <1>2
<1>3. s \in DOMAIN blocks /\ s <= L
  BY <1>0, <1>1 DEF FirstMatches
<1>4. CASE e <= L
  <2>1. ASSUME NEW h \in (s + 1)..e PROVE h \in DOMAIN blocks
    BY <1>0, <1>2a, <1>4
  <2>2. blocks' = blocks
    <3>1. DOMAIN blocks \cup ((s + 1)..e) = DOMAIN blocks
      BY <2>1
    <3>2. blocks = [h \in DOMAIN blocks |-> blocks[h]]
      BY ChainHere
    <3> QED
      BY <1>1, <3>1, <3>2
  <2>3. RequestsOK'
    BY <1>1 DEF StorageInv, TablesOK, RequestsOK
  <2> QED
    BY <1>1, <2>2, <2>3, RequestsStep
<1>5. CASE L < e
  <2>1. blocks[L] = Prefix(c, L)
    <3>1. CASE s = L
      <4>1. hs[0] = Prefix(c, s + 0) /\ s + 0 = s
        OBVIOUS
      <4> QED
        BY <1>1, <3>1, <4>1 DEF FirstMatches
    <3>2. CASE s < L
      <4>1. L - s \in 1..(n - 1) /\ s + (L - s) = L /\ L - s \in 0..(n - 1)
        BY <1>0, <1>5, <3>2
      <4>2. RowAfter(s, L - s) = L /\ L \in DOMAIN blocks
        BY <1>0, <1>2, <1>3, <4>1
      <4>3. blocks[L] = hs[L - s]
        BY <1>1, <4>1, <4>2 DEF Mismatch
      <4>4. hs[L - s] = Prefix(c, s + (L - s))
        BY <4>1
      <4> QED
        BY <4>1, <4>3, <4>4
    <3> QED
      BY <1>0, <1>3, <3>1, <3>2
  <2>2. {g \in DOMAIN blocks : g <= L} \cup ((L + 1)..e) = DOMAIN blocks \cup ((s + 1)..e)
    <3>1. ASSUME NEW h \in (s + 1)..e, ~ (h \in (L + 1)..e) PROVE h \in DOMAIN blocks
      BY <1>0, <1>2a, <1>5, <3>1
    <3>2. ASSUME NEW h \in DOMAIN blocks PROVE h <= L
      BY <1>0
    <3>3. (L + 1)..e \subseteq (s + 1)..e
      BY <1>0, <1>3
    <3> QED
      BY <3>1, <3>2, <3>3
  <2>3. ASSUME NEW h \in DOMAIN blocks \cup ((s + 1)..e)
        PROVE  (IF h <= L THEN blocks[h] ELSE Prefix(c, h)) = blocks'[h]
    <3>1. CASE h <= L
      <4>1. h \in DOMAIN blocks
        BY <1>0, <1>2a, <2>3, <3>1
      <4> QED
        BY <1>1, <3>1, <4>1
    <3>2. CASE ~ (h <= L)
      <4>1. h \notin DOMAIN blocks /\ h - s \in 0..(n - 1) /\ s + (h - s) = h
        BY <1>0, <1>3, <3>2
      <4>2. blocks'[h] = hs[h - s] /\ hs[h - s] = Prefix(c, s + (h - s))
        BY <1>1, <4>1
      <4> QED
        BY <3>2, <4>1, <4>2
    <3> QED
      BY <3>1, <3>2
  <2>4. blocks' = [h \in {g \in DOMAIN blocks : g <= L} \cup ((L + 1)..e) |->
                     IF h <= L THEN blocks[h] ELSE Prefix(c, h)]
    BY <1>1, <2>2, <2>3
  <2>5. L \in Checkpoint..e /\ e <= N /\ L <= L
    BY <1>0, <1>5
  <2>6. ChainOn(blocks', e)
    <3> HIDE DEF e, L
    <3> QED
      BY <1>0, <2>1, <2>4, <2>5, ExtendChain
  <2>7. blocks'[L] = blocks[L] /\ L <= e
    BY <1>0, <1>1, <1>3, <1>5
  <2> QED
    BY <1>0, <1>1, <2>6, <2>7, GrowStep
<1> QED
  BY <1>0, <1>4, <1>5

\* rollback_chain to height K, onto a chain that shares the blocks below K:
\* what remains of every account lies below K.
LEMMA RollbackStep ==
  ASSUME StorageInv, NEW K \in Nat, 1 <= K, RollbackAccounts(K),
         NEW e \in Nat, K <= e, ChainOn(blocks', e),
         \A g \in Nat : g < K => ChainHash(g)' = ChainHash(g),
         UNCHANGED <<creates, imports>>
  PROVE  StorageInv' /\ StartsLower
<1> DEFINE w == K - 1
<1>0. w \in Nat /\ Most(K, 1) - 1 = w
  BY DEF Most
<1>1. LastBlock' = e /\ BlocksOK' /\ ChainLinked'
  BY ChainIsTable
<1>2. AccountsOK' /\ IndexOneRow'
  BY RollbackIndex DEF StorageInv, TablesOK
<1>3. RequestsOK'
  BY DEF StorageInv, TablesOK, RequestsOK
<1>4. ASSUME NEW a \in Account, a \in RolledBack(K)
      PROVE  /\ accounts'[a] = Record(accounts[a].status, Least(w, accounts[a].start), w)
             /\ outputs'[a] = RollbackOutputs(outputs[a], K)
  BY <1>0, <1>4 DEF RollbackAccounts
<1>5. ASSUME NEW a \in Account, a \notin RolledBack(K)
      PROVE  accounts'[a] = accounts[a] /\ outputs'[a] = outputs[a]
  BY <1>5 DEF RollbackAccounts
<1>6. \A a \in Account : /\ accounts[a].start \in Nat /\ accounts[a].scan \in Nat
                         /\ \A o \in outputs[a] : o.height \in Nat
  BY DEF StorageInv, TablesOK, AccountsOK, OutputsOK
<1>7. OutputsOK'
  <2>1. outputs' = [a \in Account |-> outputs'[a]]
    BY DEF RollbackAccounts
  <2>2. ASSUME NEW a \in Account PROVE outputs'[a] \subseteq outputs[a]
    BY <1>4, <1>5 DEF RollbackOutputs
  <2> QED
    BY <2>1, <2>2 DEF StorageInv, TablesOK, OutputsOK
<1>8. NoPhantom'
  <2> SUFFICES ASSUME NEW a \in Account, NEW o \in outputs'[a]
               PROVE  /\ accounts'[a].start < o.height /\ o.height <= accounts'[a].scan
                      /\ o.height <= LastBlock' /\ o.block = ChainHash(o.height)'
    BY DEF NoPhantom
  <2>1. o \in outputs[a] /\ o.height \in Nat
    BY <1>4, <1>5, <1>6 DEF RollbackOutputs
  <2>2. /\ accounts[a].start < o.height /\ o.height <= accounts[a].scan
        /\ o.block = ChainHash(o.height)
    BY <2>1 DEF StorageInv, NoPhantom
  <2>3. CASE a \in RolledBack(K)
    <3>1. o.height < K
      BY <1>4, <2>3 DEF RollbackOutputs
    <3>2. accounts'[a].scan = w /\ accounts'[a].start = Least(w, accounts[a].start)
      <4>1. accounts'[a] = Record(accounts[a].status, Least(w, accounts[a].start), w)
        BY <1>4, <2>3
      <4> HIDE DEF w
      <4> QED
        BY <4>1 DEF Record
    <3>3. accounts'[a].start < o.height /\ o.height <= w
      BY <1>0, <1>6, <2>1, <2>2, <3>1, <3>2 DEF Least
    <3> QED
      BY <1>1, <2>1, <2>2, <3>1, <3>2, <3>3
  <2>4. CASE a \notin RolledBack(K)
    <3>1. Exists(a)
      BY <2>1 DEF StorageInv, NoOrphans
    <3>2. PICK r \in by_height : RowsOf(a) = {r} /\ accounts[a].scan <= r.height
      BY <3>1 DEF StorageInv, IndexOneRow
    <3>3. r.height \in Nat /\ r.height < K
      BY <2>4, <3>2 DEF RolledBack, StorageInv, TablesOK, AccountsOK
    <3>4. o.height < K
      BY <1>6, <2>1, <2>2, <3>2, <3>3
    <3> QED
      BY <1>1, <1>5, <2>1, <2>2, <2>4, <3>4
  <2> QED
    BY <2>3, <2>4
<1>9. ASSUME NEW a \in Account
      PROVE  (Exists(a)' <=> Exists(a)) /\ accounts'[a].start <= accounts[a].start
  <2>1. CASE a \in RolledBack(K)
    <3>1. accounts'[a].status = accounts[a].status
            /\ accounts'[a].start = Least(w, accounts[a].start)
      <4>1. accounts'[a] = Record(accounts[a].status, Least(w, accounts[a].start), w)
        BY <1>4, <2>1
      <4> HIDE DEF w
      <4> QED
        BY <4>1 DEF Record
    <3> QED
      BY <1>0, <1>6, <3>1 DEF Least, Exists
  <2>2. CASE a \notin RolledBack(K)
    BY <1>5, <1>6, <2>2 DEF Exists
  <2> QED
    BY <2>1, <2>2
<1>10. NoOrphans'
  BY <1>4, <1>5, <1>9 DEF StorageInv, NoOrphans, RollbackOutputs
<1>11. StartsLower
  BY <1>9 DEF StartsLower
<1> QED
  BY <1>1, <1>2, <1>3, <1>7, <1>8, <1>10, <1>11 DEF StorageInv, TablesOK, RequestsOK

\* The rows from the first that disagrees are replaced.
LEMMA ReorgStep ==
  ASSUME StorageInv, NEW N \in Nat, NEW c \in Hash(N), OnCheckpoint(c, N),
         NEW s \in Nat, NEW n \in Nat, 2 <= n, s + n - 1 <= N,
         NEW hs, hs = [i \in 0..(n - 1) |-> Prefix(c, s + i)],
         sync_chain_reorg(s, n, hs)
  PROVE  StorageInv' /\ StartsLower
<1> DEFINE e == s + n - 1
<1> DEFINE L == LastBlock
<1>0. /\ ChainOn(blocks, L) /\ DOMAIN blocks = {0} \cup (Checkpoint..L)
      /\ L \in Nat /\ Checkpoint \in Nat /\ Checkpoint <= L /\ e \in Nat
  BY ChainHere
<1>1. FirstMatches(s, hs) /\ UNCHANGED <<creates, imports>>
  BY DEF sync_chain_reorg
<1>2. PICK k \in Mismatch(s, n, hs) :
        /\ \A j \in Mismatch(s, n, hs) : k <= j
        /\ Checkpoint < s + k
        /\ blocks' = [h \in {g \in DOMAIN blocks : g < s + k} \cup ((s + k)..e) |->
                        IF h < s + k THEN blocks[h] ELSE hs[h - s]]
        /\ RollbackAccounts(s + k)
  BY DEF sync_chain_reorg
<1>3. /\ Checkpoint <= s + 1
      /\ \A j \in Nat : 1 <= j => RowAfter(s, j) = s + j
  BY <1>0, <1>1, <1>2, WalkAligned
<1>4. k \in 1..(n - 1) /\ RowAfter(s, k) \in DOMAIN blocks
  BY <1>2 DEF Mismatch
<1>5. RowAfter(s, k) = s + k
  BY <1>3, <1>4
<1> DEFINE K == s + k
<1> DEFINE p == K - 1
<1>6. K \in Nat /\ p \in Nat /\ 1 <= K /\ K <= e /\ K <= L /\ Checkpoint <= p /\ p <= L /\ p <= e
  BY <1>0, <1>2, <1>4, <1>5
<1>7. blocks[p] = Prefix(c, p)
  <2>1. CASE k = 1
    <3>1. hs[0] = Prefix(c, s + 0) /\ s + 0 = p
      BY <2>1
    <3>2. blocks[s] = hs[0] /\ s = p
      BY <1>1, <2>1 DEF FirstMatches
    <3> QED
      BY <3>1, <3>2
  <2>2. CASE k # 1
    <3> DEFINE j == k - 1
    <3>1. j \in 1..(n - 1) /\ s + j = p /\ j \in 0..(n - 1) /\ j \in Nat /\ 1 <= j /\ j < k
      BY <1>4, <2>2
    <3>2. RowAfter(s, j) = p
      BY <1>3, <3>1
    <3>3. p \in DOMAIN blocks
      BY <1>0, <1>6
    <3>4. j \notin Mismatch(s, n, hs)
      BY <1>2, <1>4, <3>1
    <3>5. blocks[p] = hs[j]
      BY <3>1, <3>2, <3>3, <3>4 DEF Mismatch
    <3>6. hs[j] = Prefix(c, s + j)
      BY <3>1
    <3> QED
      BY <3>1, <3>5, <3>6
  <2> QED
    BY <2>1, <2>2
<1>8. {g \in DOMAIN blocks : g < K} \cup (K..e) = {g \in DOMAIN blocks : g <= p} \cup ((p + 1)..e)
  <2>1. \A g \in DOMAIN blocks : g < K <=> g <= p
    BY <1>0, <1>6
  <2>2. K..e = (p + 1)..e
    BY <1>6
  <2> QED
    BY <2>1, <2>2
<1>9. ASSUME NEW h \in {g \in DOMAIN blocks : g < K} \cup (K..e)
      PROVE  (IF h <= p THEN blocks[h] ELSE Prefix(c, h))
               = (IF h < K THEN blocks[h] ELSE hs[h - s])
  <2>0. h \in Nat /\ (h < K <=> h <= p)
    BY <1>0, <1>6
  <2>1. CASE h < K
    BY <2>0, <2>1
  <2>2. CASE ~ (h < K)
    <3>1. h - s \in 0..(n - 1) /\ s + (h - s) = h
      BY <1>4, <1>6, <2>0, <2>2
    <3>2. hs[h - s] = Prefix(c, s + (h - s))
      BY <3>1
    <3> QED
      BY <2>0, <2>2, <3>1, <3>2
  <2> QED
    BY <2>1, <2>2
<1>10. blocks' = [h \in {g \in DOMAIN blocks : g <= p} \cup ((p + 1)..e) |->
                    IF h <= p THEN blocks[h] ELSE Prefix(c, h)]
  BY <1>2, <1>8, <1>9
<1>11. p \in Checkpoint..e /\ e <= N
  BY <1>0, <1>6
<1>12. ChainOn(blocks', e)
  <2> HIDE DEF e, L, p, K
  <2> QED
    BY <1>0, <1>6, <1>7, <1>10, <1>11, ExtendChain
<1>13. p \in DOMAIN blocks /\ p \in DOMAIN blocks' /\ blocks'[p] = blocks[p]
  <2>1. p \in DOMAIN blocks /\ p <= p
    BY <1>0, <1>6
  <2> QED
    BY <1>10, <2>1
<1>14. \A g \in Nat : g < K => ChainHash(g)' = ChainHash(g)
  <2>1. LastBlock' = e
    BY <1>12, ChainIsTable
  <2> SUFFICES ASSUME NEW g \in Nat, g < K PROVE Prefix(blocks'[e], g) = Prefix(blocks[L], g)
    BY <2>1 DEF ChainHash
  <2>2. g <= p
    BY <1>6
  <2>3. p \in DOMAIN blocks \cap DOMAIN blocks' /\ blocks[p] = blocks'[p]
    BY <1>13
  <2>4. ChainOn(blocks, L) /\ ChainOn(blocks', e)
    BY <1>0, <1>12
  <2> HIDE DEF e, L, p, K
  <2> QED
    BY <2>2, <2>3, <2>4, ChainsAgree
<1> QED
  BY <1>0, <1>1, <1>2, <1>6, <1>12, <1>14, RollbackStep

----------------------------------------------------------------------------
(* update, and a new database.                                             *)

\* update with a batch that extends the chain of the table (or leaves it)
\* and whose outputs lie on the resulting chain.
LEMMA UpdateStep ==
  ASSUME StorageInv, NEW m \in Nat, NEW n \in Nat, 1 <= n, NEW chain,
         NEW users, DOMAIN users \subseteq Account, NEW found,
         update(m, n, chain, users, found),
         NEW e \in Nat, ChainOn(blocks', e), LastBlock <= e,
         blocks'[LastBlock] = blocks[LastBlock],
         \A a \in Stored(m, n, users) : \A o \in found[a] :
           /\ o = [height |-> o.height, block |-> o.block] /\ o.height \in Nat
           /\ accounts[a].start < o.height /\ o.height <= LastUpdate(m, n)
           /\ o.height <= e /\ o.block = Prefix(blocks'[e], o.height)
  PROVE  StorageInv' /\ StartsLower
<1> DEFINE S == Stored(m, n, users)
<1> DEFINE u == LastUpdate(m, n)
<1> DEFINE R == [a \in Account |-> Record(accounts[a].status, accounts[a].start, u)]
<1> DEFINE H == [a \in Account |-> u]
<1>0. u \in Nat
  BY DEF LastUpdate
<1>1. /\ accounts' = [a \in Account |-> IF a \in S
                        THEN Record(accounts[a].status, accounts[a].start, u) ELSE accounts[a]]
      /\ by_height' = {r \in by_height : ~ (r.id \in S /\ r.height = accounts[r.id].scan)}
                        \cup {Row(u, a, accounts[a].status) : a \in S}
      /\ outputs' = [a \in Account |-> IF a \in S THEN outputs[a] \cup found[a] ELSE outputs[a]]
      /\ UNCHANGED <<creates, imports>>
  BY DEF update
<1>2. S \in SUBSET Account
  BY DEF Stored, Updated
<1>3. \A a \in S : Exists(a) /\ Indexed(a) /\ accounts[a].scan < u
  BY DEF update, UpdateLost, Stored, Updated
<1>4. \A a \in Account : /\ accounts[a].status \in Status \cup {"none"}
                         /\ accounts[a].start \in Nat /\ accounts[a].scan \in Nat
                         /\ accounts[a].start <= accounts[a].scan
  BY DEF StorageInv, TablesOK, AccountsOK
<1> HIDE DEF S, u
<1>5. AccountsOK' /\ IndexOneRow'
  <2>1. accounts' = [a \in Account |-> IF a \in S THEN R[a] ELSE accounts[a]]
    BY <1>1
  <2>2. {Row(u, a, accounts[a].status) : a \in S} = {Row(H[a], a, R[a].status) : a \in S}
    <3>1. ASSUME NEW a \in S PROVE H[a] = u /\ R[a].status = accounts[a].status
      BY <1>2 DEF Record
    <3> QED
      BY <3>1
  <2>3. by_height' = {r \in by_height : ~ (r.id \in S /\ r.height = accounts[r.id].scan)}
                       \cup {Row(H[a], a, R[a].status) : a \in S}
    BY <1>1, <2>2
  <2>4. ASSUME NEW a \in S
        PROVE  /\ Exists(a) /\ Indexed(a) /\ H[a] \in Nat
               /\ R[a] \in [status : Status, start : Nat, scan : Nat]
               /\ R[a].start <= R[a].scan /\ R[a].scan <= H[a]
    BY <1>0, <1>2, <1>3, <1>4 DEF Record, Exists
  <2> HIDE DEF R, H
  <2> QED
    BY <1>2, <2>1, <2>3, <2>4, RewriteIndex DEF StorageInv, TablesOK
<1>6. LastBlock' = e /\ BlocksOK' /\ ChainLinked'
  BY ChainIsTable
<1>7. \A g \in Nat : g <= LastBlock => ChainHash(g)' = ChainHash(g)
  <2>1. LastBlock \in DOMAIN blocks /\ LastBlock \in DOMAIN blocks'
    <3>1. DOMAIN blocks' = {0} \cup (Checkpoint..e)
      BY ChainFacts
    <3> QED
      BY <3>1, ChainHere
  <2>2. ChainOn(blocks, LastBlock)
    BY ChainHere
  <2> QED
    BY <1>6, <2>1, <2>2, ChainsAgree DEF ChainHash
<1>8. ASSUME NEW a \in Account, NEW o \in outputs'[a]
      PROVE  /\ o = [height |-> o.height, block |-> o.block] /\ o.height \in Nat
             /\ accounts'[a].start < o.height /\ o.height <= accounts'[a].scan
             /\ o.height <= LastBlock' /\ o.block = ChainHash(o.height)'
  <2>1. CASE o \in outputs[a]
    <3>1. /\ o = [height |-> o.height, block |-> o.block] /\ o.height \in Nat
          /\ accounts[a].start < o.height /\ o.height <= accounts[a].scan
          /\ o.height <= LastBlock /\ o.block = ChainHash(o.height)
      BY <2>1 DEF StorageInv, TablesOK, OutputsOK, NoPhantom
    <3>2. LastBlock \in Nat
      BY ChainHere
    <3>3. accounts'[a].start = accounts[a].start /\ accounts[a].scan <= accounts'[a].scan
            /\ accounts'[a].scan \in Nat
      BY <1>0, <1>1, <1>3, <1>4 DEF Record
    <3>4. accounts[a].scan \in Nat
      BY <1>4
    <3> QED
      BY <1>6, <1>7, <3>1, <3>2, <3>3, <3>4
  <2>2. CASE o \notin outputs[a]
    <3>1. a \in S /\ o \in found[a]
      BY <1>1, <2>2
    <3>2. accounts'[a].start = accounts[a].start /\ accounts'[a].scan = u
      BY <1>1, <3>1 DEF Record
    <3> QED
      BY <1>6, <3>1, <3>2 DEF ChainHash, S, u
  <2> QED
    BY <2>1, <2>2
<1>9. OutputsOK'
  BY <1>1, <1>8 DEF OutputsOK
<1>10. NoPhantom'
  BY <1>8 DEF NoPhantom
<1>11. ASSUME NEW a \in Account
       PROVE  accounts'[a].status = accounts[a].status /\ accounts'[a].start = accounts[a].start
  BY <1>1 DEF Record
<1>12. NoOrphans'
  BY <1>1, <1>3, <1>11 DEF StorageInv, NoOrphans, Exists
<1>13. StartsLower
  BY <1>4, <1>11 DEF StartsLower, Exists
<1>14. RequestsOK'
  BY <1>1 DEF StorageInv, TablesOK, RequestsOK
<1> QED
  BY <1>5, <1>6, <1>9, <1>10, <1>12, <1>13, <1>14 DEF StorageInv, TablesOK, RequestsOK

\* check_blockchain leaves a new database in a good state.
LEMMA StorageInitInv ==
  ASSUME StorageInit
  PROVE  StorageInv
<1>0. Checkpoint \in Nat /\ MainTag \in Tag
  BY StorageAssumption
<1>1. CheckpointHash \in Hash(Checkpoint) /\ Prefix(CheckpointHash, Checkpoint) = CheckpointHash
  BY <1>0 DEF CheckpointHash, Hash, Prefix
<1>2. blocks = [h \in {0, Checkpoint} |-> Prefix(CheckpointHash, h)]
  BY DEF StorageInit
<1>3. {0, Checkpoint} = {0} \cup (Checkpoint..Checkpoint)
  BY <1>0
<1>4. blocks[Checkpoint] = CheckpointHash
  BY <1>1, <1>2
<1>5. OnCheckpoint(CheckpointHash, Checkpoint)
  BY <1>0 DEF OnCheckpoint, CheckpointHash
<1>6. ChainOn(blocks, Checkpoint)
  BY <1>0, <1>1, <1>2, <1>3, <1>4, <1>5 DEF ChainOn
<1>7. LastBlock = Checkpoint
  BY <1>6, ChainFacts DEF LastBlock
<1>8. BlocksOK /\ ChainLinked
  BY <1>6, <1>7, ChainFacts DEF BlocksOK, ChainLinked, ChainHash, ChainOn
<1>9. AccountsOK /\ IndexOneRow
  BY DEF StorageInit, AccountsOK, IndexOneRow, Record, RowsOf, Exists
<1>10. OutputsOK /\ NoPhantom /\ NoOrphans
  BY DEF StorageInit, OutputsOK, NoPhantom, NoOrphans
<1>11. RequestsOK
  BY DEF StorageInit, RequestsOK, NoRequest
<1> QED
  BY <1>8, <1>9, <1>10, <1>11 DEF StorageInv, TablesOK, RequestsOK

----------------------------------------------------------------------------
(* The threads and the queues.                                             *)

EnvInv == tip \in Nat /\ daemon \in Hash(tip) /\ OnCheckpoint(daemon, tip)

MiscInv ==
  /\ phase \in {"start", "sync", "load", "scan", "halt"}
  /\ known \in Nat \cup {FirstRequest}
  /\ stop \in BOOLEAN /\ shutdown \in BOOLEAN
  /\ active \subseteq Account
  /\ \/ rest = NoHandler
     \/ rest \in [op : {"rescan", "import", "accept"}, id : Account, height : Nat]
  /\ {reorgs, faults, ops} \subseteq Nat

\* A batch: at least two blocks of a checkpointed chain.
BatchGood(b) == IsBatch(b) /\ OnCheckpoint(b.top, b.last)

\* The state of one thread, apart from what the accounts table says.
ThreadGood(v) ==
  /\ v = Loop(v.pc, v.users, v.req, v.batch)
  /\ v.pc \in {"off", "idle", "read", "store"}
  /\ IsUsers(v.users) /\ v.req \in Nat /\ BatchGood(v.batch)
  /\ v.pc \in {"read", "store"} <=> DOMAIN v.users # {}
  /\ v.pc = "store" => 1 <= v.batch.start /\ v.batch.start < v.batch.last /\ v.req = v.batch.last
  /\ \A a \in DOMAIN v.users : /\ v.req <= Most(1, v.users[a]) \/ v.pc # "read"
                               /\ v.batch.start <= Most(1, v.users[a])

QueueGood(q) ==
  /\ q = [replace |-> q.replace, push |-> q.push]
  /\ q.replace = [is |-> q.replace.is, users |-> q.replace.users]
  /\ q.replace.is \in BOOLEAN
  /\ IsUsers(q.replace.users) /\ IsUsers(q.push)

ThreadsInv ==
  /\ thread = [t \in Thread |-> thread[t]]
  /\ \A t \in Thread : ThreadGood(thread[t]) /\ HeldOK(thread[t].users)

QueuesInv ==
  /\ queue = [t \in Thread |-> queue[t]]
  /\ \A t \in Thread : /\ QueueGood(queue[t])
                       /\ HeldOK(queue[t].push) /\ HeldOK(queue[t].replace.users)

Parts == StorageInv /\ EnvInv /\ MiscInv /\ ThreadsInv /\ QueuesInv

\* HeldOK of a value, in the next state.
HeldNext(u) == \A a \in DOMAIN u : Exists(a)' /\ accounts'[a].start <= u[a]

----------------------------------------------------------------------------

\* IInv is the conjunction of the parts.
LEMMA IInvParts ==
  IInv <=> Parts
<1>1. (TypeOK /\ DaemonOK /\ RequestCovers /\ UsersHeld)
        <=> TablesOK /\ EnvInv /\ MiscInv /\ ThreadsInv /\ QueuesInv
  BY DEF TypeOK, DaemonOK, RequestCovers, UsersHeld, EnvInv, MiscInv, ThreadsInv, QueuesInv,
         ThreadGood, QueueGood, ThreadOK, QueueOK, BatchGood, Loop
<1> QED
  BY <1>1 DEF IInv, StorageInv, Parts

\* What a thread holds stays valid when start heights only go down.
LEMMA HeldKept ==
  ASSUME StorageInv, StorageInv', StartsLower, NEW u, IsUsers(u), HeldOK(u)
  PROVE  HeldNext(u)
<1> SUFFICES ASSUME NEW a \in DOMAIN u PROVE Exists(a)' /\ accounts'[a].start <= u[a]
  BY DEF HeldNext
<1>1. a \in Account /\ u[a] \in Nat
  BY DEF IsUsers
<1>2. accounts[a].start \in Nat /\ accounts'[a].start \in Nat
  BY <1>1 DEF StorageInv, TablesOK, AccountsOK
<1>3. Exists(a) /\ accounts[a].start <= u[a]
  BY DEF HeldOK
<1>4. Exists(a)' /\ accounts'[a].start <= accounts[a].start
  BY <1>1, <1>3 DEF StartsLower
<1> QED
  BY <1>1, <1>2, <1>3, <1>4

\* The threads are left alone while the tables change.
LEMMA ThreadsKept ==
  ASSUME StorageInv, StorageInv', StartsLower, ThreadsInv, UNCHANGED thread
  PROVE  ThreadsInv'
<1>1. ASSUME NEW t \in Thread PROVE ThreadGood(thread[t])' /\ HeldOK(thread[t].users)'
  <2>1. ThreadGood(thread[t]) /\ HeldOK(thread[t].users) /\ IsUsers(thread[t].users)
    BY DEF ThreadsInv, ThreadGood
  <2>2. HeldNext(thread[t].users)
    BY <2>1, HeldKept
  <2>3. HeldOK(thread[t].users)'
    BY <2>2 DEF HeldNext, HeldOK
  <2>4. ThreadGood(thread[t])'
    BY <2>1 DEF ThreadGood, BatchGood, Loop, IsUsers, IsBatch
  <2> QED
    BY <2>3, <2>4
<1> QED
  BY <1>1 DEF ThreadsInv

\* One thread takes a step.
LEMMA ThreadStep ==
  ASSUME StorageInv, StorageInv', StartsLower, ThreadsInv, NEW t \in Thread,
         NEW v, ThreadGood(v), HeldNext(v.users),
         thread' = [thread EXCEPT ![t] = v]
  PROVE  ThreadsInv'
<1>1. ASSUME NEW s \in Thread PROVE ThreadGood(thread'[s]) /\ HeldNext(thread'[s].users)
  <2>1. CASE s = t
    BY <2>1 DEF ThreadsInv
  <2>2. CASE s # t
    <3>1. thread'[s] = thread[s]
      BY <2>2 DEF ThreadsInv
    <3>2. ThreadGood(thread[s]) /\ HeldOK(thread[s].users) /\ IsUsers(thread[s].users)
      BY DEF ThreadsInv, ThreadGood
    <3> QED
      BY <3>1, <3>2, HeldKept
  <2> QED
    BY <2>1, <2>2
<1>2. thread' = [s \in Thread |-> thread'[s]]
  BY DEF ThreadsInv
<1>3. ASSUME NEW s \in Thread PROVE ThreadGood(thread[s])' /\ HeldOK(thread[s].users)'
  BY <1>1 DEF HeldNext, HeldOK, ThreadGood, BatchGood, Loop, IsUsers, IsBatch
<1> QED
  BY <1>2, <1>3 DEF ThreadsInv

\* All threads are given a new state.
LEMMA ThreadsSet ==
  ASSUME NEW F, thread' = [t \in Thread |-> F[t]],
         \A t \in Thread : ThreadGood(F[t]) /\ HeldNext(F[t].users)
  PROVE  ThreadsInv'
<1>1. ASSUME NEW s \in Thread PROVE ThreadGood(thread'[s]) /\ HeldNext(thread'[s].users)
  OBVIOUS
<1>2. thread' = [s \in Thread |-> thread'[s]]
  OBVIOUS
<1>3. ASSUME NEW s \in Thread PROVE ThreadGood(thread[s])' /\ HeldOK(thread[s].users)'
  BY <1>1 DEF HeldNext, HeldOK, ThreadGood, BatchGood, Loop, IsUsers, IsBatch
<1> QED
  BY <1>2, <1>3 DEF ThreadsInv

\* The queues are left alone while the tables change.
LEMMA QueuesKept ==
  ASSUME StorageInv, StorageInv', StartsLower, QueuesInv, UNCHANGED queue
  PROVE  QueuesInv'
<1>1. ASSUME NEW t \in Thread
      PROVE  /\ QueueGood(queue[t])'
             /\ HeldOK(queue[t].push)' /\ HeldOK(queue[t].replace.users)'
  <2>1. QueueGood(queue[t]) /\ HeldOK(queue[t].push) /\ HeldOK(queue[t].replace.users)
    BY DEF QueuesInv
  <2>2. IsUsers(queue[t].push) /\ IsUsers(queue[t].replace.users)
    BY <2>1 DEF QueueGood
  <2>3. HeldNext(queue[t].push) /\ HeldNext(queue[t].replace.users)
    BY <2>1, <2>2, HeldKept
  <2>4. HeldOK(queue[t].push)' /\ HeldOK(queue[t].replace.users)'
    BY <2>3 DEF HeldNext, HeldOK
  <2>5. QueueGood(queue[t])'
    BY <2>1 DEF QueueGood, IsUsers
  <2> QED
    BY <2>4, <2>5
<1> QED
  BY <1>1 DEF QueuesInv

\* All queues are given new contents.
LEMMA QueuesSet ==
  ASSUME NEW F, queue' = [t \in Thread |-> F[t]],
         \A t \in Thread : /\ QueueGood(F[t])
                           /\ HeldNext(F[t].push) /\ HeldNext(F[t].replace.users)
  PROVE  QueuesInv'
<1>1. ASSUME NEW s \in Thread
      PROVE  /\ QueueGood(queue'[s])
             /\ HeldNext(queue'[s].push) /\ HeldNext(queue'[s].replace.users)
  OBVIOUS
<1>2. queue' = [s \in Thread |-> queue'[s]]
  OBVIOUS
<1>3. ASSUME NEW s \in Thread
      PROVE  /\ QueueGood(queue[s])'
             /\ HeldOK(queue[s].push)' /\ HeldOK(queue[s].replace.users)'
  BY <1>1 DEF HeldNext, HeldOK, QueueGood, IsUsers
<1> QED
  BY <1>2, <1>3 DEF QueuesInv

\* queue::get_accounts empties one queue.
LEMMA QueueEmptied ==
  ASSUME StorageInv, StorageInv', StartsLower, QueuesInv, NEW t \in Thread,
         queue' = [queue EXCEPT ![t] = EmptyQueue]
  PROVE  QueuesInv'
<1> DEFINE F == [s \in Thread |-> IF s = t THEN EmptyQueue ELSE queue[s]]
<1>1. queue' = [s \in Thread |-> F[s]]
  BY DEF QueuesInv
<1>2. ASSUME NEW s \in Thread
      PROVE  /\ QueueGood(F[s])
             /\ HeldNext(F[s].push) /\ HeldNext(F[s].replace.users)
  <2>1. CASE s = t
    BY <2>1 DEF QueueGood, HeldNext, EmptyQueue, NoReplace, NoUsers, IsUsers
  <2>2. CASE s # t
    <3>1. QueueGood(queue[s]) /\ HeldOK(queue[s].push) /\ HeldOK(queue[s].replace.users)
      BY DEF QueuesInv
    <3>2. IsUsers(queue[s].push) /\ IsUsers(queue[s].replace.users)
      BY <3>1 DEF QueueGood
    <3>3. F[s] = queue[s]
      BY <2>2
    <3> QED
      BY <3>1, <3>2, <3>3, HeldKept
  <2> QED
    BY <2>1, <2>2
<1> HIDE DEF F
<1> QED
  BY <1>1, <1>2, QueuesSet

----------------------------------------------------------------------------
(* Values the scanner stores.                                              *)

\* Nothing changes in the tables.
LEMMA QuietStep ==
  ASSUME StorageInv, UNCHANGED storage_vars
  PROVE  StorageInv' /\ StartsLower
<1>1. UNCHANGED <<blocks, accounts, by_height, outputs>> /\ UNCHANGED <<creates, imports>>
  BY DEF storage_vars
<1>2. RequestsOK'
  BY <1>1 DEF StorageInv, TablesOK, RequestsOK
<1> QED
  BY <1>1, <1>2, RequestsStep

\* The value of batch while a thread reads.
LEMMA NoBatchGood ==
  BatchGood(NoBatch) /\ NoBatch.start = 0
BY DEF BatchGood, IsBatch, NoBatch, Hash, OnCheckpoint

\* A thread without accounts.
LEMMA RestingGood ==
  /\ ThreadGood(Off) /\ HeldNext(Off.users)
  /\ ThreadGood(Idle) /\ HeldNext(Idle.users)
<1>1. IsUsers(NoUsers) /\ DOMAIN NoUsers = {} /\ HeldNext(NoUsers)
  BY DEF IsUsers, NoUsers, HeldNext
<1> HIDE DEF NoUsers
<1> QED
  BY <1>1, NoBatchGood DEF ThreadGood, Off, Idle, Loop

\* A thread that asks for blocks from r on, no later than its accounts need.
LEMMA ReadGood ==
  ASSUME NEW u, IsUsers(u), DOMAIN u # {}, NEW r \in Nat,
         \A a \in DOMAIN u : r <= Most(1, u[a])
  PROVE  ThreadGood(Loop("read", u, r, NoBatch)) /\ Loop("read", u, r, NoBatch).users = u
<1>1. \A a \in DOMAIN u : 0 <= Most(1, u[a])
  BY DEF IsUsers, Most
<1> QED
  BY <1>1, NoBatchGood DEF ThreadGood, Loop

\* The beginning of scanner::loop.
LEMMA StartGood ==
  ASSUME NEW u, IsUsers(u), HeldNext(u), NEW f, IsFirst(u, f)
  PROVE  ThreadGood(StartLoop(u, f)) /\ HeldNext(StartLoop(u, f).users)
<1>1. CASE DOMAIN u = {}
  BY <1>1, RestingGood DEF StartLoop
<1>2. CASE DOMAIN u # {}
  <2>1. f \in DOMAIN u /\ \A b \in DOMAIN u : u[f] <= u[b]
    BY <1>2 DEF IsFirst, Front
  <2>2. Most(1, u[f]) \in Nat /\ \A a \in DOMAIN u : Most(1, u[f]) <= Most(1, u[a])
    BY <2>1 DEF Most, IsUsers
  <2>3. StartLoop(u, f) = Loop("read", u, Most(1, u[f]), NoBatch)
    BY <1>2 DEF StartLoop
  <2> QED
    BY <1>2, <2>2, <2>3, ReadGood
<1> QED
  BY <1>1, <1>2

\* get_full_account of active accounts.
LEMMA SnapshotGood ==
  ASSUME StorageInv, NEW S, S \subseteq ActiveIds
  PROVE  IsUsers(Snapshot(S)) /\ HeldOK(Snapshot(S))
<1>1. ASSUME NEW a \in S
      PROVE  /\ a \in Account /\ Exists(a)
             /\ accounts[a].scan \in Nat /\ accounts[a].start <= accounts[a].scan
  BY DEF ActiveIds, Exists, StorageInv, TablesOK, AccountsOK
<1> QED
  BY <1>1 DEF Snapshot, IsUsers, HeldOK

\* Merging keeps both properties.
LEMMA MergeGood ==
  ASSUME NEW u, NEW v, IsUsers(u), IsUsers(v), HeldOK(u), HeldOK(v)
  PROVE  IsUsers(Merge(u, v)) /\ HeldOK(Merge(u, v))
BY DEF Merge, IsUsers, HeldOK

\* What a thread holds after it took its queue.
LEMMA NextUsersGood ==
  ASSUME ThreadsInv, QueuesInv, NEW t \in Thread
  PROVE  /\ IsUsers(NextUsers(t)) /\ HeldOK(NextUsers(t))
         /\ ~ HasWork(t) => NextUsers(t) = thread[t].users
<1>1. /\ IsUsers(thread[t].users) /\ HeldOK(thread[t].users)
      /\ IsUsers(queue[t].push) /\ HeldOK(queue[t].push)
      /\ IsUsers(queue[t].replace.users) /\ HeldOK(queue[t].replace.users)
  BY DEF ThreadsInv, ThreadGood, QueuesInv, QueueGood
<1>2. ASSUME ~ HasWork(t) PROVE NextUsers(t) = thread[t].users
  BY <1>1, <1>2 DEF NextUsers, HasWork, Merge, IsUsers
<1> QED
  BY <1>1, <1>2, MergeGood DEF NextUsers

----------------------------------------------------------------------------
(* user_data::store.                                                       *)

\* The batch b as the arguments of update: m is the scan height of the first
\* account.  Either the batch lies below the checkpoint, or the comparison of
\* one hash has shown that the vector is aligned with the heights of the
\* table: hashes of different heights differ.
LEMMA BatchAligned ==
  ASSUME StorageInv, 2 <= Checkpoint, NEW b, BatchGood(b),
         1 <= b.start, b.start < b.last, NEW m \in Nat, b.start <= Most(1, m),
         ~ UpdateBad(m, BatchLength(b), BatchChain(b)),
         ~ UpdateReorg(m, BatchLength(b), BatchChain(b))
  PROVE  /\ BatchLength(b) \in Nat /\ 1 <= BatchLength(b)
         /\ b.last <= LastUpdate(m, BatchLength(b))
         /\ Checkpoint <= LastUpdate(m, BatchLength(b)) =>
              /\ LastUpdate(m, BatchLength(b)) = b.last
              /\ m <= LastBlock
              /\ LET q == LastSame(m, BatchLength(b)) IN blocks[q] = Prefix(b.top, q)
              /\ \A h \in Nat : Most(1, m) <= h /\ h <= b.last =>
                                  BatchChain(b)[h - m] = Prefix(b.top, h)
<1> DEFINE n == BatchLength(b)
<1> DEFINE u == LastUpdate(m, n)
<1> DEFINE q == LastSame(m, n)
<1>0. b.start \in Nat /\ b.last \in Nat /\ Checkpoint \in Nat
  BY StorageAssumption DEF BatchGood, IsBatch
<1>1. n \in Nat /\ 1 <= n /\ b.last <= u /\ u \in Nat /\ m <= u
  <2>1. CASE b.start = 1
    BY <1>0, <2>1 DEF BatchLength, LastUpdate
  <2>2. CASE b.start # 1
    BY <1>0, <2>2 DEF BatchLength, LastUpdate, Most
  <2> QED
    BY <2>1, <2>2
<1>2. ASSUME Checkpoint <= u
      PROVE  /\ u = b.last /\ m <= LastBlock /\ blocks[q] = Prefix(b.top, q)
             /\ \A h \in Nat : Most(1, m) <= h /\ h <= b.last =>
                                 BatchChain(b)[h - m] = Prefix(b.top, h)
  <2>0. /\ LastBlock \in Nat /\ Checkpoint <= LastBlock
        /\ DOMAIN blocks = {0} \cup (Checkpoint..LastBlock) /\ ChainOn(blocks, LastBlock)
    BY ChainHere
  <2>1. m <= LastBlock
    BY <1>2, <2>0 DEF UpdateBad
  <2>2. q \in Nat /\ Checkpoint <= q /\ q <= LastBlock /\ q <= u /\ m <= q
    BY <1>1, <1>2, <2>0, <2>1 DEF LastSame, Least
  <2>3. blocks[q] = BatchChain(b)[q - m]
    BY <1>2, <2>1 DEF UpdateReorg
  <2>4. blocks[q] = Prefix(blocks[LastBlock], q)
    BY <1>0, <2>0, <2>2 DEF ChainOn
  <2>5. \A i \in 0..(n - 1) : BatchChain(b)[i] =
          IF b.start # 1 THEN Prefix(b.top, b.start + i) ELSE Prefix(b.top, Most(1, i))
    BY DEF BatchChain
  <2>6. q - m \in 0..(n - 1) /\ u = m + n - 1
    BY <1>1, <2>2 DEF LastUpdate
  <2>7. CASE b.start # 1
    <3>1. blocks[q] = Prefix(b.top, b.start + (q - m))
      BY <2>3, <2>5, <2>6, <2>7
    <3>2. b.start + (q - m) \in Nat
      BY <1>0, <2>6
    <3>3. q = b.start + (q - m)
      BY <2>2, <2>4, <3>1, <3>2, PrefixHeight
    <3>4. m = b.start /\ n = b.last - b.start + 1
      BY <1>0, <2>2, <2>7, <3>3 DEF BatchLength
    <3>5. ASSUME NEW h \in Nat, Most(1, m) <= h, h <= b.last
          PROVE  BatchChain(b)[h - m] = Prefix(b.top, h)
      <4>1. h - m \in 0..(n - 1) /\ b.start + (h - m) = h
        BY <1>0, <1>1, <3>4, <3>5 DEF Most
      <4>2. BatchChain(b)[h - m] = Prefix(b.top, b.start + (h - m))
        BY <2>5, <2>7, <4>1
      <4> QED
        BY <4>1, <4>2
    <3>6. u = b.last
      BY <1>0, <2>6, <3>4
    <3> QED
      BY <2>1, <3>1, <3>3, <3>5, <3>6
  <2>8. CASE b.start = 1
    <3>1. blocks[q] = Prefix(b.top, Most(1, q - m))
      BY <2>3, <2>5, <2>6, <2>8
    <3>2. Most(1, q - m) \in Nat
      BY <2>6 DEF Most
    <3>3. q = Most(1, q - m)
      BY <2>2, <2>4, <3>1, <3>2, PrefixHeight
    <3>4. m = 0 /\ n = b.last + 1
      BY <1>0, <2>2, <2>8, <3>3 DEF Most, BatchLength
    <3>5. ASSUME NEW h \in Nat, Most(1, m) <= h, h <= b.last
          PROVE  BatchChain(b)[h - m] = Prefix(b.top, h)
      <4>1. h - m \in 0..(n - 1) /\ Most(1, h - m) = h
        BY <1>0, <3>4, <3>5 DEF Most
      <4>2. BatchChain(b)[h - m] = Prefix(b.top, Most(1, h - m))
        BY <2>5, <2>8, <4>1
      <4> QED
        BY <4>1, <4>2
    <3>6. u = b.last
      BY <1>0, <2>6, <3>4
    <3> QED
      BY <2>1, <3>1, <3>3, <3>5, <3>6
  <2> QED
    BY <2>7, <2>8
<1> QED
  BY <1>1, <1>2

\* What store writes keeps the tables' invariant.
LEMMA StoreStep ==
  ASSUME StorageInv, 2 <= Checkpoint, NEW b, BatchGood(b),
         1 <= b.start, b.start < b.last,
         NEW us, IsUsers(us), HeldOK(us), \A a \in DOMAIN us : b.start <= Most(1, us[a]),
         NEW f \in DOMAIN us,
         update(us[f], BatchLength(b), BatchChain(b), us,
                [a \in DOMAIN us |-> Found(b, us[a])])
  PROVE  StorageInv' /\ StartsLower
<1> DEFINE m == us[f]
<1> DEFINE n == BatchLength(b)
<1> DEFINE chain == BatchChain(b)
<1> DEFINE found == [a \in DOMAIN us |-> Found(b, us[a])]
<1> DEFINE u == LastUpdate(m, n)
<1> DEFINE q == LastSame(m, n)
<1> DEFINE L == LastBlock
<1>0. /\ m \in Nat /\ b.start \in Nat /\ b.last \in Nat /\ DOMAIN us \subseteq Account
      /\ b.start <= Most(1, m) /\ b.top \in Hash(b.last) /\ OnCheckpoint(b.top, b.last)
  BY DEF IsUsers, BatchGood, IsBatch
<1>1. /\ ~ UpdateBad(m, n, chain) /\ ~ UpdateReorg(m, n, chain)
      /\ blocks' = AppendChain(m, n, chain)
  BY DEF update
<1>2. /\ n \in Nat /\ 1 <= n /\ b.last <= u
      /\ Checkpoint <= u => /\ u = b.last /\ m <= L /\ blocks[q] = Prefix(b.top, q)
                            /\ \A h \in Nat : Most(1, m) <= h /\ h <= b.last =>
                                                chain[h - m] = Prefix(b.top, h)
  BY <1>0, <1>1, BatchAligned
<1>3. /\ ChainOn(blocks, L) /\ DOMAIN blocks = {0} \cup (Checkpoint..L)
      /\ L \in Nat /\ Checkpoint \in Nat /\ Checkpoint <= L
      /\ blocks = [h \in DOMAIN blocks |-> blocks[h]]
  BY ChainHere
<1>4. u \in Nat /\ m <= u
  BY <1>0, <1>2 DEF LastUpdate
\* The outputs that were found, apart from the chain they are on.
<1>5. ASSUME NEW a \in Stored(m, n, us), NEW o \in found[a]
      PROVE  /\ o = [height |-> o.height, block |-> o.block] /\ o.height \in Nat
             /\ accounts[a].start < o.height /\ o.height <= b.last
             /\ o.block = Prefix(b.top, o.height)
  <2>1. a \in DOMAIN us
    BY DEF Stored, Updated
  <2>2. PICK g \in BatchHeights(b) : us[a] < g /\ o = [height |-> g, block |-> Prefix(b.top, g)]
    BY <2>1 DEF Found
  <2>3. g \in Nat /\ g <= b.last
    BY <1>0 DEF BatchHeights
  <2>4. us[a] \in Nat /\ a \in Account /\ accounts[a].start \in Nat
    BY <2>1 DEF IsUsers, StorageInv, TablesOK, AccountsOK
  <2>5. accounts[a].start <= us[a]
    BY <2>1 DEF HeldOK
  <2> QED
    BY <2>2, <2>3, <2>4, <2>5
<1>6. CASE u < Checkpoint
  <2>1. blocks' = blocks
    BY <1>1, <1>3, <1>4, <1>6 DEF AppendChain
  <2>2. ASSUME NEW a \in Stored(m, n, us), NEW o \in found[a]
        PROVE  o.height <= u /\ o.height <= L /\ o.block = Prefix(blocks'[L], o.height)
    <3>1. o.height \in Nat /\ o.height <= b.last /\ o.block = Prefix(b.top, o.height)
      BY <1>5
    <3>2. o.height <= u /\ o.height < Checkpoint /\ o.height <= L
      BY <1>0, <1>2, <1>3, <1>4, <1>6, <3>1
    <3>3. \A i \in 1..o.height : b.top[i] = MainTag /\ blocks[L][i] = MainTag
      <4> SUFFICES ASSUME NEW i \in 1..o.height
                   PROVE  b.top[i] = MainTag /\ blocks[L][i] = MainTag
        OBVIOUS
      <4>1. i \in 1..b.last /\ i \in 1..L /\ i <= Checkpoint
        BY <1>0, <1>3, <3>1, <3>2
      <4>2. OnCheckpoint(blocks[L], L)
        BY <1>3 DEF ChainOn
      <4> QED
        BY <1>0, <4>1, <4>2 DEF OnCheckpoint
    <3>4. Prefix(b.top, o.height) = Prefix(blocks[L], o.height)
      BY <3>3 DEF Prefix
    <3> QED
      BY <2>1, <3>1, <3>2, <3>4
  <2>3. ChainOn(blocks', L) /\ L <= L /\ blocks'[L] = blocks[L]
    BY <1>3, <2>1
  <2> HIDE DEF m, n, chain, found, u, L
  <2>4. update(m, n, chain, us, found)
    BY DEF m, n, chain, found
  <2>5. L = LastBlock /\ u = LastUpdate(m, n)
    BY DEF L, u
  <2> QED
    BY <1>0, <1>2, <1>3, <1>5, <2>2, <2>3, <2>4, <2>5, UpdateStep
<1>7. CASE Checkpoint <= u
  <2>0. /\ u = b.last /\ m <= L /\ blocks[q] = Prefix(b.top, q)
        /\ \A h \in Nat : Most(1, m) <= h /\ h <= b.last => chain[h - m] = Prefix(b.top, h)
    BY <1>2, <1>7
  <2>1. blocks' = [h \in DOMAIN blocks \cup ((q + 1)..u) |->
                     IF h \in DOMAIN blocks THEN blocks[h] ELSE chain[h - m]]
    BY <1>1, <1>7 DEF AppendChain
  <2> DEFINE e == Most(L, u)
  <2>2. e \in Nat /\ L <= e /\ u <= e /\ q \in Nat /\ m <= q /\ Checkpoint <= q /\ q <= u /\ q <= L
    BY <1>0, <1>3, <1>4, <1>7, <2>0 DEF Most, LastSame, Least
  <2>3. CASE L < u
    <3>1. q = L /\ e = u
      BY <1>3, <1>4, <2>3 DEF Most, LastSame, Least
    <3>2. ASSUME NEW h \in DOMAIN blocks \cup ((L + 1)..u)
          PROVE  (IF h \in DOMAIN blocks THEN blocks[h] ELSE chain[h - m])
                   = (IF h <= L THEN blocks[h] ELSE Prefix(b.top, h))
      <4>1. CASE h \in DOMAIN blocks
        BY <1>3, <4>1
      <4>2. CASE h \notin DOMAIN blocks
        <5>1. h \in Nat /\ ~ (h <= L) /\ Most(1, m) <= h /\ h <= b.last
          BY <1>0, <1>3, <1>4, <2>0, <4>2 DEF Most
        <5> QED
          BY <2>0, <4>2, <5>1
      <4> QED
        BY <4>1, <4>2
    <3>3. {g \in DOMAIN blocks : g <= L} = DOMAIN blocks
      BY <1>3
    <3>4. blocks' = [h \in {g \in DOMAIN blocks : g <= L} \cup ((L + 1)..u) |->
                       IF h <= L THEN blocks[h] ELSE Prefix(b.top, h)]
      BY <2>1, <3>1, <3>2, <3>3
    <3>5. L \in Checkpoint..u /\ L <= L /\ u <= b.last /\ blocks[L] = Prefix(b.top, L)
      BY <1>0, <1>3, <1>4, <2>0, <2>3, <3>1
    <3>6. ChainOn(blocks', u)
      <4> HIDE DEF L, u
      <4> QED
        BY <1>0, <1>3, <1>4, <3>4, <3>5, ExtendChain
    <3>7. blocks'[L] = blocks[L]
      BY <1>3, <2>1
    <3>8. u \in DOMAIN blocks' /\ blocks'[u] = Prefix(b.top, u)
      BY <1>3, <1>4, <2>3, <3>4
    <3>9. ASSUME NEW a \in Stored(m, n, us), NEW o \in found[a]
          PROVE  o.height <= u /\ o.height <= u /\ o.block = Prefix(blocks'[u], o.height)
      <4>1. o.height \in Nat /\ o.height <= b.last /\ o.block = Prefix(b.top, o.height)
        BY <1>5
      <4>2. Prefix(Prefix(b.top, u), o.height) = Prefix(b.top, o.height)
        BY <1>4, <2>0, <4>1, PrefixPrefix
      <4> QED
        BY <2>0, <3>8, <4>1, <4>2
    <3>10. L <= u
      BY <1>3, <1>4, <2>3
    <3> HIDE DEF m, n, chain, found, u, L
    <3>11. update(m, n, chain, us, found)
      BY DEF m, n, chain, found
    <3>12. L = LastBlock /\ u = LastUpdate(m, n)
      BY DEF L, u
    <3> QED
      BY <1>0, <1>2, <1>4, <1>5, <3>6, <3>7, <3>9, <3>10, <3>11, <3>12, UpdateStep
  <2>4. CASE u <= L
    <3>1. q = u
      BY <1>3, <1>4, <2>4 DEF LastSame, Least
    <3>2. DOMAIN blocks \cup ((q + 1)..u) = DOMAIN blocks
      BY <1>4, <3>1
    <3>3. blocks' = blocks
      BY <1>3, <2>1, <3>2
    <3>4. u \in DOMAIN blocks /\ blocks[u] = Prefix(blocks[L], u)
      BY <1>3, <1>4, <1>7, <2>4 DEF ChainOn
    <3>5. Prefix(blocks[L], u) = Prefix(b.top, u)
      BY <2>0, <3>1, <3>4
    <3>6. ASSUME NEW a \in Stored(m, n, us), NEW o \in found[a]
          PROVE  o.height <= u /\ o.height <= L /\ o.block = Prefix(blocks'[L], o.height)
      <4>1. o.height \in Nat /\ o.height <= b.last /\ o.block = Prefix(b.top, o.height)
        BY <1>5
      <4>2. o.height <= u /\ o.height <= L
        BY <1>3, <1>4, <2>0, <2>4, <4>1
      <4>3. Prefix(blocks[L], o.height) = Prefix(b.top, o.height)
        BY <1>4, <3>5, <4>1, <4>2, PrefixAncestor
      <4> QED
        BY <3>3, <4>1, <4>2, <4>3
    <3>7. ChainOn(blocks', L) /\ L <= L /\ blocks'[L] = blocks[L]
      BY <1>3, <3>3
    <3> HIDE DEF m, n, chain, found, u, L
    <3>8. update(m, n, chain, us, found)
      BY DEF m, n, chain, found
    <3>9. L = LastBlock /\ u = LastUpdate(m, n)
      BY DEF L, u
    <3> QED
      BY <1>0, <1>2, <1>3, <1>5, <3>6, <3>7, <3>8, <3>9, UpdateStep
  <2> QED
    BY <1>3, <1>4, <2>3, <2>4
<1> QED
  BY <1>3, <1>4, <1>6, <1>7

----------------------------------------------------------------------------
(* The actions.                                                            *)

\* Steps that change neither tables, threads nor queues.
LEMMA ControlStep ==
  ASSUME Parts, UNCHANGED <<storage_vars, thread, queue>>, EnvInv', MiscInv'
  PROVE  Parts'
<1>1. UNCHANGED storage_vars /\ UNCHANGED thread /\ UNCHANGED queue
  OBVIOUS
<1>2. StorageInv' /\ StartsLower
  BY <1>1, QuietStep DEF Parts
<1> QED
  BY <1>1, <1>2, ThreadsKept, QueuesKept DEF Parts

\* Steps that write the tables and leave the scanner alone.
LEMMA TableStep ==
  ASSUME Parts, StorageInv', StartsLower, UNCHANGED <<thread, queue>>, EnvInv', MiscInv'
  PROVE  Parts'
<1>1. UNCHANGED thread /\ UNCHANGED queue
  OBVIOUS
<1> QED
  BY <1>1, ThreadsKept, QueuesKept DEF Parts

\* The daemon mines a block.
LEMMA MineStep ==
  ASSUME Parts, Mine
  PROVE  Parts'
<1>1. PICK x \in Tag : /\ tip + 1 <= Checkpoint => x = MainTag
                       /\ daemon' = [i \in 1..(tip + 1) |-> IF i <= tip THEN daemon[i] ELSE x]
  BY DEF Mine
<1>2. tip \in Nat /\ daemon \in Hash(tip) /\ OnCheckpoint(daemon, tip) /\ tip' = tip + 1
  BY DEF Parts, EnvInv, Mine
<1>3. daemon' \in Hash(tip + 1)
  BY <1>1, <1>2 DEF Hash
<1>4. OnCheckpoint(daemon', tip + 1)
  <2> SUFFICES ASSUME NEW i \in 1..(tip + 1), i <= Checkpoint PROVE daemon'[i] = MainTag
    BY DEF OnCheckpoint
  <2>1. CASE i <= tip
    BY <1>1, <1>2, <2>1 DEF OnCheckpoint
  <2>2. CASE i = tip + 1
    BY <1>1, <1>2, <2>2
  <2> QED
    BY <1>2, <2>1, <2>2
<1>5. EnvInv'
  BY <1>2, <1>3, <1>4 DEF EnvInv, OnCheckpoint, Hash
<1>6. MiscInv' /\ UNCHANGED <<storage_vars, thread, queue>>
  BY DEF Mine, Parts, MiscInv, scan_vars, storage_vars
<1> QED
  BY <1>5, <1>6, ControlStep

\* The daemon switches to a branch that leaves its chain above the checkpoint.
LEMMA DaemonReorgStep ==
  ASSUME Parts, Reorg
  PROVE  Parts'
<1>1. PICK k \in Checkpoint..(tip - 1), n \in 1..(MaxHeight - 1) :
        /\ k < n /\ tip' = n
        /\ \E c \in Hash(n) : /\ Prefix(c, k) = Prefix(daemon, k)
                              /\ c[k + 1] # daemon[k + 1]
                              /\ daemon' = c
  BY DEF Reorg
<1>2. daemon' \in Hash(n) /\ Prefix(daemon', k) = Prefix(daemon, k) /\ n \in Nat
  BY <1>1
<1>3. tip \in Nat /\ OnCheckpoint(daemon, tip) /\ Checkpoint \in Nat /\ k \in Nat /\ k < tip
  BY StorageAssumption DEF Parts, EnvInv
<1>4. ASSUME NEW i \in 1..n, i <= Checkpoint PROVE daemon'[i] = MainTag
  <2>1. i \in 1..k /\ i \in 1..tip
    BY <1>3, <1>4
  <2>2. Prefix(daemon', k)[i] = daemon'[i] /\ Prefix(daemon, k)[i] = daemon[i]
    BY <2>1 DEF Prefix
  <2>3. daemon[i] = MainTag
    BY <1>3, <1>4, <2>1 DEF OnCheckpoint
  <2> QED
    BY <1>2, <2>2, <2>3
<1>5. EnvInv'
  BY <1>1, <1>2, <1>4 DEF EnvInv, OnCheckpoint, Hash
<1>6. MiscInv' /\ UNCHANGED <<storage_vars, thread, queue>>
  BY DEF Reorg, Parts, MiscInv, scan_vars, storage_vars
<1> QED
  BY <1>5, <1>6, ControlStep

\* An answer of get_hashes_fast is stored.
LEMMA SyncStep ==
  ASSUME Parts, sync_quick
  PROVE  Parts'
<1>1. PICK s \in SyncStarts : \E n \in 2..(tip - s + 1) :
        /\ \/ sync_chain_append(s, n, DaemonHashes(s, n))
           \/ sync_chain_reorg(s, n, DaemonHashes(s, n))
        /\ known' = s + n - 1
  BY DEF sync_quick
<1>2. PICK n \in 2..(tip - s + 1) :
        /\ \/ sync_chain_append(s, n, DaemonHashes(s, n))
           \/ sync_chain_reorg(s, n, DaemonHashes(s, n))
        /\ known' = s + n - 1
  BY <1>1
<1>3. s \in DOMAIN blocks
  BY <1>2 DEF sync_chain_append, sync_chain_reorg, FirstMatches
<1>4. s \in Nat /\ tip \in Nat
  BY <1>3, ChainHere DEF Parts, EnvInv
<1>5. n \in Nat /\ 2 <= n /\ s + n - 1 <= tip
  BY <1>4
<1>6. DaemonHashes(s, n) = [i \in 0..(n - 1) |-> Prefix(daemon, s + i)]
  BY DEF DaemonHashes
<1>7. daemon \in Hash(tip) /\ OnCheckpoint(daemon, tip) /\ StorageInv
  BY DEF Parts, EnvInv
<1>8. StorageInv' /\ StartsLower
  BY <1>2, <1>4, <1>5, <1>6, <1>7, AppendStep, ReorgStep
<1>9. EnvInv'
  BY DEF sync_quick, Parts, EnvInv, env_vars, OnCheckpoint, Hash
<1>10. MiscInv'
  BY <1>2, <1>4, <1>5 DEF sync_quick, Parts, MiscInv, env_vars
<1>11. UNCHANGED <<thread, queue>>
  BY DEF sync_quick
<1> QED
  BY <1>8, <1>9, <1>10, <1>11, TableStep

\* The main loop's steps that only move it on.
LEMMA PhaseStep ==
  ASSUME Parts, sync_refused \/ sync_done \/ sync_timeout \/ load_none \/ join
  PROVE  Parts'
<1>1. EnvInv'
  BY DEF sync_refused, sync_done, sync_timeout, load_none, join, Parts, EnvInv, env_vars,
         OnCheckpoint, Hash
<1>2. MiscInv' /\ UNCHANGED <<storage_vars, thread, queue>>
  BY DEF sync_refused, sync_done, sync_timeout, load_none, join, Parts, MiscInv, env_vars,
         Fault, storage_vars
<1> QED
  BY <1>1, <1>2, ControlStep

\* Empty queues for everybody.
LEMMA QueuesEmptied ==
  ASSUME queue' = [t \in Thread |-> EmptyQueue]
  PROVE  QueuesInv'
<1> DEFINE F == [t \in Thread |-> EmptyQueue]
<1>1. queue' = [t \in Thread |-> F[t]]
  OBVIOUS
<1>2. QueueGood(EmptyQueue) /\ HeldNext(EmptyQueue.push) /\ HeldNext(EmptyQueue.replace.users)
  BY DEF QueueGood, HeldNext, EmptyQueue, NoReplace, NoUsers, IsUsers
<1>3. \A t \in Thread : /\ QueueGood(F[t])
                        /\ HeldNext(F[t].push) /\ HeldNext(F[t].replace.users)
  BY <1>2
<1> HIDE DEF F
<1> QED
  BY <1>1, <1>3, QueuesSet

\* check_loop starts every thread with the accounts it was given.
LEMMA CheckLoopStep ==
  ASSUME Parts, check_loop
  PROVE  Parts'
<1>1. PICK who \in [ActiveIds -> Thread], first \in [Thread -> ActiveIds] :
        /\ \A t \in Thread : IsFirst(Snapshot({a \in ActiveIds : who[a] = t}), first[t])
        /\ thread' = [t \in Thread |->
                        StartLoop(Snapshot({a \in ActiveIds : who[a] = t}), first[t])]
  BY DEF check_loop
<1> DEFINE G(t) == Snapshot({a \in ActiveIds : who[a] = t})
<1> DEFINE F == [t \in Thread |-> StartLoop(G(t), first[t])]
<1>2. StorageInv /\ StorageInv' /\ StartsLower
  BY QuietStep DEF Parts, check_loop
<1>3. ASSUME NEW t \in Thread PROVE ThreadGood(F[t]) /\ HeldNext(F[t].users)
  <2>1. {a \in ActiveIds : who[a] = t} \subseteq ActiveIds
    OBVIOUS
  <2>2. IsUsers(G(t)) /\ HeldOK(G(t))
    BY <1>2, <2>1, SnapshotGood
  <2>3. IsFirst(G(t), first[t])
    BY <1>1
  <2> HIDE DEF G
  <2>4. HeldNext(G(t))
    BY <1>2, <2>2, HeldKept
  <2> QED
    BY <2>2, <2>3, <2>4, StartGood
<1>4. thread' = [t \in Thread |-> F[t]]
  BY <1>1
<1>5. ThreadsInv'
  <2> HIDE DEF F
  <2> QED
    BY <1>3, <1>4, ThreadsSet
<1>6. QueuesInv'
  BY QueuesEmptied DEF check_loop
<1>7. EnvInv'
  BY DEF check_loop, Parts, EnvInv, env_vars, OnCheckpoint, Hash
<1>8. MiscInv'
  BY DEF check_loop, Parts, MiscInv, env_vars, ActiveIds
<1> QED
  BY <1>2, <1>5, <1>6, <1>7, <1>8 DEF Parts

\* A crash leaves the tables and forgets the rest.
LEMMA CrashStep ==
  ASSUME Parts, crash
  PROVE  Parts'
<1>1. StorageInv' /\ StartsLower
  BY QuietStep DEF Parts, crash
<1> DEFINE F == [t \in Thread |-> Off]
<1>2. \A t \in Thread : ThreadGood(F[t]) /\ HeldNext(F[t].users)
  BY RestingGood
<1>3. thread' = [t \in Thread |-> F[t]]
  BY DEF crash
<1>4. ThreadsInv'
  <2> HIDE DEF F
  <2> QED
    BY <1>2, <1>3, ThreadsSet
<1>5. QueuesInv'
  BY QueuesEmptied DEF crash
<1>6. EnvInv'
  BY DEF crash, Parts, EnvInv, env_vars, OnCheckpoint, Hash
<1>7. MiscInv'
  <2>1. {reorgs, faults, ops}' \subseteq Nat
    BY DEF crash, Parts, MiscInv, env_vars, Fault
  <2>2. /\ phase' = "start" /\ known' = FirstRequest /\ active' = {} /\ rest' = NoHandler
        /\ stop' = FALSE /\ shutdown' = FALSE
    BY DEF crash
  <2> QED
    BY <2>1, <2>2 DEF MiscInv
<1> QED
  BY <1>1, <1>4, <1>5, <1>6, <1>7 DEF Parts

\* A thread leaves; the tables and queues are not touched.
LEMMA LeaveStep ==
  ASSUME Parts, NEW t \in Thread, Leave(t), UNCHANGED <<storage_vars, queue>>,
         EnvInv', MiscInv'
  PROVE  Parts'
<1>1. StorageInv /\ StorageInv' /\ StartsLower /\ UNCHANGED queue
  BY QuietStep DEF Parts
<1>2. thread' = [thread EXCEPT ![t] = Off]
  BY DEF Leave
<1>3. ThreadsInv'
  BY <1>1, <1>2, RestingGood, ThreadStep DEF Parts
<1> QED
  BY <1>1, <1>3, QueuesKept DEF Parts

\* The ways a thread leaves without a write.
LEMMA ThreadLeaves ==
  ASSUME Parts, NEW t \in Thread,
         \/ fetch_failed(t) \/ fetch_timeout(t) \/ leave(t)
         \/ store_reorg(t) \/ store_failed(t)
  PROVE  Parts'
<1>1. Leave(t) /\ UNCHANGED <<storage_vars, queue>>
  BY DEF fetch_failed, fetch_timeout, leave, store_reorg, store_failed
<1>2. EnvInv'
  BY DEF fetch_failed, fetch_timeout, leave, store_reorg, store_failed,
         Parts, EnvInv, env_vars, OnCheckpoint, Hash
<1>3. MiscInv'
  <2>1. CASE fetch_failed(t)
    BY <2>1 DEF fetch_failed, Parts, MiscInv, env_vars, Leave
  <2>2. CASE fetch_timeout(t)
    BY <2>2 DEF fetch_timeout, Parts, MiscInv, env_vars, Leave, Fault
  <2>3. CASE leave(t)
    BY <2>3 DEF leave, Parts, MiscInv, env_vars, Leave
  <2>4. CASE store_reorg(t)
    BY <2>4 DEF store_reorg, Parts, MiscInv, env_vars, Leave
  <2>5. CASE store_failed(t)
    BY <2>5 DEF store_failed, Parts, MiscInv, env_vars, Leave
  <2> QED
    BY <2>1, <2>2, <2>3, <2>4, <2>5
<1> QED
  BY <1>1, <1>2, <1>3, LeaveStep

\* A thread takes its queue and goes on with value v.
LEMMA TakeStep ==
  ASSUME Parts, NEW t \in Thread, UNCHANGED storage_vars,
         NEW v, ThreadGood(v), HeldNext(v.users), thread' = [thread EXCEPT ![t] = v],
         queue' = [queue EXCEPT ![t] = EmptyQueue], EnvInv', MiscInv'
  PROVE  Parts'
<1>1. StorageInv /\ StorageInv' /\ StartsLower
  BY QuietStep DEF Parts
<1> QED
  BY <1>1, ThreadStep, QueueEmptied DEF Parts

\* A thread goes idle, or an idle one starts.
LEMMA IdleStep ==
  ASSUME Parts, NEW t \in Thread, fetch_idle(t) \/ wait_for_accounts(t)
  PROVE  Parts'
<1>1. EnvInv' /\ MiscInv' /\ UNCHANGED storage_vars
        /\ queue' = [queue EXCEPT ![t] = EmptyQueue]
  BY DEF fetch_idle, wait_for_accounts, Parts, EnvInv, MiscInv, env_vars, OnCheckpoint, Hash
<1>2. CASE fetch_idle(t)
  <2>1. thread' = [thread EXCEPT ![t] = Idle]
    BY <1>2 DEF fetch_idle
  <2> QED
    BY <1>1, <2>1, RestingGood, TakeStep
<1>3. CASE wait_for_accounts(t)
  <2>1. PICK f \in Account : /\ IsFirst(NextUsers(t), f)
                             /\ thread' = [thread EXCEPT ![t] = StartLoop(NextUsers(t), f)]
    BY <1>3 DEF wait_for_accounts
  <2>2. IsUsers(NextUsers(t)) /\ HeldOK(NextUsers(t))
    BY NextUsersGood DEF Parts
  <2>3. HeldNext(NextUsers(t))
    BY <1>1, <2>2, QuietStep, HeldKept DEF Parts
  <2>4. ThreadGood(StartLoop(NextUsers(t), f)) /\ HeldNext(StartLoop(NextUsers(t), f).users)
    BY <2>1, <2>2, <2>3, StartGood
  <2> QED
    BY <1>1, <2>1, <2>4, TakeStep
<1> QED
  BY <1>2, <1>3

\* A batch arrives: the accounts of the queue are taken into account before
\* the batch is scanned.
LEMMA FetchStep ==
  ASSUME Parts, NEW t \in Thread, fetch(t)
  PROVE  Parts'
<1> DEFINE u == NextUsers(t)
<1> DEFINE s == thread[t].req
<1>1. PICK e \in s..Least(tip, s + BatchSize - 1) : \E f \in DOMAIN u :
        /\ Front(u, f)
        /\ \/ HasWork(t) /\ ~ stop /\ u[f] < s
              /\ thread' = [thread EXCEPT ![t] = Loop("read", u, u[f], NoBatch)]
           \/ (HasWork(t) => s <= u[f]) /\ ~ stop /\ e = s
              /\ thread' = [thread EXCEPT ![t] = Loop("read", u, s, NoBatch)]
           \/ (HasWork(t) => s <= u[f]) /\ s < e
              /\ thread' = [thread EXCEPT ![t] = Loop("store", u, e,
                   [start |-> s, last |-> e, top |-> Prefix(daemon, e)])]
  BY DEF fetch
<1>2. PICK f \in DOMAIN u :
        /\ Front(u, f)
        /\ \/ HasWork(t) /\ ~ stop /\ u[f] < s
              /\ thread' = [thread EXCEPT ![t] = Loop("read", u, u[f], NoBatch)]
           \/ (HasWork(t) => s <= u[f]) /\ ~ stop /\ e = s
              /\ thread' = [thread EXCEPT ![t] = Loop("read", u, s, NoBatch)]
           \/ (HasWork(t) => s <= u[f]) /\ s < e
              /\ thread' = [thread EXCEPT ![t] = Loop("store", u, e,
                   [start |-> s, last |-> e, top |-> Prefix(daemon, e)])]
  BY <1>1
<1>3. thread[t].pc = "read" /\ 0 < s /\ UNCHANGED storage_vars
        /\ queue' = [queue EXCEPT ![t] = EmptyQueue]
  BY DEF fetch
<1>4. EnvInv' /\ MiscInv'
  BY DEF fetch, Parts, EnvInv, MiscInv, env_vars, OnCheckpoint, Hash
<1>5. ThreadGood(thread[t]) /\ s \in Nat
  BY DEF Parts, ThreadsInv, ThreadGood
<1>6. IsUsers(u) /\ HeldOK(u) /\ (~ HasWork(t) => u = thread[t].users)
  BY NextUsersGood DEF Parts
<1>7. HeldNext(u)
  <2>1. StorageInv' /\ StartsLower
    BY <1>3, QuietStep DEF Parts
  <2> HIDE DEF u
  <2> QED
    BY <1>6, <2>1, HeldKept DEF Parts
<1> HIDE DEF u
<1>8. \A b \in DOMAIN u : u[b] \in Nat /\ u[f] <= u[b]
  BY <1>2, <1>6 DEF Front, IsUsers
<1>9. ASSUME HasWork(t) => s <= u[f] PROVE \A b \in DOMAIN u : s <= Most(1, u[b])
  <2>1. CASE HasWork(t)
    BY <1>5, <1>8, <1>9, <2>1 DEF Most
  <2>2. CASE ~ HasWork(t)
    <3>1. u = thread[t].users
      BY <1>6, <2>2
    <3> QED
      BY <1>3, <1>5, <3>1 DEF ThreadGood
  <2> QED
    BY <2>1, <2>2
<1>10. CASE u[f] < s /\ thread' = [thread EXCEPT ![t] = Loop("read", u, u[f], NoBatch)]
  <2>1. \A b \in DOMAIN u : u[f] <= Most(1, u[b])
    BY <1>8 DEF Most
  <2>2. u[f] \in Nat /\ DOMAIN u # {}
    BY <1>8
  <2>3. ThreadGood(Loop("read", u, u[f], NoBatch)) /\ Loop("read", u, u[f], NoBatch).users = u
    BY <1>6, <2>1, <2>2, ReadGood
  <2> QED
    BY <1>3, <1>4, <1>7, <1>10, <2>3, TakeStep
<1>11. CASE (HasWork(t) => s <= u[f]) /\ thread' = [thread EXCEPT ![t] = Loop("read", u, s, NoBatch)]
  <2>1. ThreadGood(Loop("read", u, s, NoBatch)) /\ Loop("read", u, s, NoBatch).users = u
    <3>1. DOMAIN u # {}
      OBVIOUS
    <3> HIDE DEF s
    <3> QED
      BY <1>5, <1>6, <1>9, <1>11, <3>1, ReadGood
  <2> QED
    BY <1>3, <1>4, <1>7, <1>11, <2>1, TakeStep
<1>12. CASE /\ HasWork(t) => s <= u[f]
            /\ s < e
            /\ thread' = [thread EXCEPT ![t] = Loop("store", u, e,
                 [start |-> s, last |-> e, top |-> Prefix(daemon, e)])]
  <2> DEFINE b == [start |-> s, last |-> e, top |-> Prefix(daemon, e)]
  <2>1. e \in Nat /\ e <= tip /\ tip \in Nat
    <3>1. tip \in Nat /\ BatchSize \in Nat
      BY ScannerAssumption DEF Parts, EnvInv
    <3> QED
      BY <1>5, <3>1 DEF Least
  <2>2. Prefix(daemon, e) \in Hash(e)
    BY <2>1, PrefixType DEF Parts, EnvInv
  <2>3. OnCheckpoint(Prefix(daemon, e), e)
    <3>1. \A i \in 1..e : i \in 1..tip
      BY <2>1
    <3> QED
      BY <3>1 DEF Parts, EnvInv, OnCheckpoint, Prefix
  <2>4. BatchGood(b) /\ b.start = s /\ b.last = e
    BY <1>5, <2>1, <2>2, <2>3 DEF BatchGood, IsBatch
  <2>5. \A a \in DOMAIN u : s <= Most(1, u[a])
    BY <1>9, <1>12
  <2> HIDE DEF b, s
  <2>6. ThreadGood(Loop("store", u, e, b)) /\ Loop("store", u, e, b).users = u
    <3>1. 1 <= s /\ s < e /\ DOMAIN u # {}
      BY <1>3, <1>5, <1>12
    <3> QED
      BY <1>6, <2>1, <2>4, <2>5, <3>1 DEF ThreadGood, Loop
  <2>7. thread' = [thread EXCEPT ![t] = Loop("store", u, e, b)]
    BY <1>12 DEF b
  <2> QED
    BY <1>3, <1>4, <1>7, <2>6, <2>7, TakeStep
<1> QED
  BY <1>2, <1>10, <1>11, <1>12

\* A batch is stored.
LEMMA StoreActionStep ==
  ASSUME 2 <= Checkpoint, Parts, NEW t \in Thread, store(t)
  PROVE  Parts'
<1> DEFINE us == thread[t].users
<1> DEFINE b == thread[t].batch
<1>1. PICK f \in DOMAIN us :
        /\ Storing(t, f)
        /\ update(us[f], BatchLength(b), BatchChain(b), us,
                  [a \in DOMAIN us |-> Found(b, us[a])])
  BY DEF store, StoreHeight, StoreLength, StoreChain
<1>2. thread[t].pc = "store" /\ ThreadGood(thread[t]) /\ HeldOK(us)
  BY <1>1 DEF Storing, Parts, ThreadsInv
<1>3. /\ IsUsers(us) /\ BatchGood(b) /\ 1 <= b.start /\ b.start < b.last
      /\ thread[t].req = b.last /\ thread[t].req \in Nat /\ DOMAIN us # {}
      /\ \A a \in DOMAIN us : b.start <= Most(1, us[a])
  BY <1>2 DEF ThreadGood
<1>4. StorageInv /\ ThreadsInv /\ QueuesInv
  BY DEF Parts
<1>5. StorageInv' /\ StartsLower
  <2> HIDE DEF us, b
  <2> QED
    BY <1>1, <1>2, <1>3, <1>4, StoreStep
<1>6. EnvInv'
  BY DEF store, Parts, EnvInv, env_vars, OnCheckpoint, Hash
<1>7. MiscInv'
  BY DEF store, Parts, MiscInv, env_vars, Leave
<1>8. QueuesInv'
  BY <1>4, <1>5, QueuesKept DEF store
<1>9. CASE Leave(t)
  <2>1. thread' = [thread EXCEPT ![t] = Off]
    BY <1>9 DEF Leave
  <2>2. ThreadsInv'
    BY <1>4, <1>5, <2>1, RestingGood, ThreadStep
  <2> QED
    BY <1>5, <1>6, <1>7, <1>8, <2>2 DEF Parts
<1>10. CASE ~ Leave(t)
  <2> DEFINE w == [a \in DOMAIN us |-> Most(us[a], b.last)]
  <2>1. thread' = [thread EXCEPT ![t] = Loop("read", w, thread[t].req, NoBatch)]
    BY <1>10 DEF store
  <2>2. IsUsers(w) /\ DOMAIN w # {} /\ \A a \in DOMAIN w : b.last <= Most(1, w[a]) /\ us[a] <= w[a]
    BY <1>3 DEF IsUsers, Most
  <2>3. HeldNext(us)
    <3> HIDE DEF us
    <3> QED
      BY <1>2, <1>3, <1>4, <1>5, HeldKept
  <2>4. HeldNext(w)
    <3> SUFFICES ASSUME NEW a \in DOMAIN w PROVE Exists(a)' /\ accounts'[a].start <= w[a]
      BY DEF HeldNext
    <3>1. a \in DOMAIN us /\ Exists(a)' /\ accounts'[a].start <= us[a]
      BY <2>3 DEF HeldNext
    <3>2. a \in Account /\ us[a] \in Nat /\ w[a] \in Nat /\ us[a] <= w[a]
      BY <1>3, <2>2, <3>1 DEF IsUsers
    <3>3. accounts'[a].start \in Nat
      BY <1>5, <3>2 DEF StorageInv, TablesOK, AccountsOK
    <3> HIDE DEF w, us
    <3> QED
      BY <3>1, <3>2, <3>3
  <2> HIDE DEF w
  <2>5. /\ ThreadGood(Loop("read", w, thread[t].req, NoBatch))
        /\ Loop("read", w, thread[t].req, NoBatch).users = w
    BY <1>3, <2>2, ReadGood
  <2>6. ThreadsInv'
    BY <1>4, <1>5, <2>1, <2>4, <2>5, ThreadStep
  <2> QED
    BY <1>5, <1>6, <1>7, <1>8, <2>6 DEF Parts
<1> QED
  BY <1>9, <1>10

\* New accounts are pushed to the queues.
LEMMA CheckUsersStep ==
  ASSUME Parts, check_users
  PROVE  Parts'
<1>1. PICK who \in [ActiveIds \ active -> Thread] :
        queue' = [t \in Thread |->
          [replace |-> queue[t].replace,
           push |-> Merge(queue[t].push, Snapshot({a \in ActiveIds \ active : who[a] = t}))]]
  BY DEF check_users
<1> DEFINE G(t) == Snapshot({a \in ActiveIds \ active : who[a] = t})
<1> DEFINE F == [t \in Thread |->
                   [replace |-> queue[t].replace, push |-> Merge(queue[t].push, G(t))]]
<1>2. StorageInv /\ StorageInv' /\ StartsLower
  BY QuietStep DEF Parts, check_users
<1>3. ASSUME NEW t \in Thread
      PROVE  /\ QueueGood(F[t])
             /\ HeldNext(F[t].push) /\ HeldNext(F[t].replace.users)
  <2>1. QueueGood(queue[t]) /\ HeldOK(queue[t].push) /\ HeldOK(queue[t].replace.users)
    BY DEF Parts, QueuesInv
  <2>2. IsUsers(queue[t].push) /\ IsUsers(queue[t].replace.users)
    BY <2>1 DEF QueueGood
  <2>3. {a \in ActiveIds \ active : who[a] = t} \subseteq ActiveIds
    OBVIOUS
  <2>4. IsUsers(G(t)) /\ HeldOK(G(t))
    BY <1>2, <2>3, SnapshotGood
  <2>5. F[t].replace = queue[t].replace /\ F[t].push = Merge(queue[t].push, G(t))
          /\ F[t] = [replace |-> F[t].replace, push |-> F[t].push]
    OBVIOUS
  <2> HIDE DEF G, F
  <2>6. IsUsers(F[t].push) /\ HeldOK(F[t].push)
    BY <2>1, <2>2, <2>4, <2>5, MergeGood
  <2>7. HeldNext(F[t].push) /\ HeldNext(F[t].replace.users)
    BY <1>2, <2>1, <2>2, <2>5, <2>6, HeldKept
  <2> QED
    BY <2>1, <2>5, <2>6, <2>7 DEF QueueGood
<1>4. QueuesInv'
  <2>1. queue' = [t \in Thread |-> F[t]]
    BY <1>1
  <2> HIDE DEF F
  <2> QED
    BY <1>3, <2>1, QueuesSet
<1>5. ThreadsInv'
  BY <1>2, ThreadsKept DEF Parts, check_users
<1>6. EnvInv' /\ MiscInv'
  BY DEF check_users, Parts, EnvInv, MiscInv, env_vars, OnCheckpoint, Hash, ActiveIds
<1> QED
  BY <1>2, <1>4, <1>5, <1>6 DEF Parts

\* All accounts are dealt again.
LEMMA ReplaceStep ==
  ASSUME Parts, do_replace_users \/ remote_change
  PROVE  Parts'
<1>1. ReplaceAll
  BY DEF do_replace_users, remote_change
<1>2. PICK who \in [ActiveIds -> Thread] :
        queue' = [t \in Thread |->
          [replace |-> Replace(Snapshot({a \in ActiveIds : who[a] = t})), push |-> NoUsers]]
  BY <1>1 DEF ReplaceAll
<1> DEFINE G(t) == Snapshot({a \in ActiveIds : who[a] = t})
<1> DEFINE F == [t \in Thread |-> [replace |-> Replace(G(t)), push |-> NoUsers]]
<1>3. StorageInv /\ StorageInv' /\ StartsLower
  BY <1>1, QuietStep DEF Parts, ReplaceAll
<1>4. ASSUME NEW t \in Thread
      PROVE  /\ QueueGood(F[t])
             /\ HeldNext(F[t].push) /\ HeldNext(F[t].replace.users)
  <2>1. {a \in ActiveIds : who[a] = t} \subseteq ActiveIds
    OBVIOUS
  <2>2. IsUsers(G(t)) /\ HeldOK(G(t))
    BY <1>3, <2>1, SnapshotGood
  <2>3. F[t] = [replace |-> Replace(G(t)), push |-> NoUsers]
    OBVIOUS
  <2> HIDE DEF G, F
  <2>4. HeldNext(G(t))
    BY <1>3, <2>2, HeldKept
  <2>5. IsUsers(NoUsers) /\ HeldNext(NoUsers)
    BY DEF IsUsers, NoUsers, HeldNext
  <2>6. /\ F[t].push = NoUsers /\ F[t].replace = [is |-> TRUE, users |-> G(t)]
        /\ F[t].replace.is = TRUE /\ F[t].replace.users = G(t)
    BY <2>3 DEF Replace
  <2>7. F[t] = [replace |-> F[t].replace, push |-> F[t].push]
    BY <2>3
  <2>8. F[t].replace = [is |-> F[t].replace.is, users |-> F[t].replace.users]
    BY <2>6
  <2>9. F[t].replace.is \in BOOLEAN
    BY <2>6
  <2> QED
    BY <2>2, <2>4, <2>5, <2>6, <2>7, <2>8, <2>9 DEF QueueGood
<1>5. QueuesInv'
  <2>1. queue' = [t \in Thread |-> F[t]]
    BY <1>2
  <2> HIDE DEF F
  <2> QED
    BY <1>4, <2>1, QueuesSet
<1>6. ThreadsInv'
  BY <1>1, <1>3, ThreadsKept DEF Parts, ReplaceAll
<1>7. EnvInv' /\ MiscInv'
  BY DEF do_replace_users, remote_change, ReplaceAll, Fault, Parts, EnvInv, MiscInv, env_vars,
         OnCheckpoint, Hash, ActiveIds
<1> QED
  BY <1>3, <1>5, <1>6, <1>7 DEF Parts

\* Registration and status.
LEMMA AccountStep ==
  ASSUME Parts, NEW a \in Account,
         \/ admin_add(a) \/ admin_status(a)
         \/ login_request(a) \/ admin_accept_create(a) \/ admin_reject(a)
  PROVE  Parts'
<1>0. StorageInv /\ LastBlock \in Nat
  BY ChainHere DEF Parts
<1>1. StorageInv' /\ StartsLower
  <2>1. CASE admin_add(a)
    <3>1. PICK s \in AddedStatus : add_account(a, s)
      BY <2>1 DEF admin_add
    <3>2. s \in Status /\ ~ Exists(a) /\ DoAddAccount(a, s, LastBlock)
            /\ UNCHANGED <<blocks, outputs>> /\ RequestsOK'
      BY <1>0, <3>1 DEF AddedStatus, Status, add_account, StorageInv, TablesOK, RequestsOK
    <3> QED
      BY <1>0, <3>2, AddStep
  <2>2. CASE admin_status(a)
    BY <1>0, <2>2, StatusStep DEF admin_status
  <2>3. CASE login_request(a)
    <3>1. creation_request(a)
      BY <2>3 DEF login_request
    <3>2. RequestsOK' /\ UNCHANGED <<blocks, accounts, by_height, outputs>>
      BY <1>0, <3>1 DEF creation_request, StorageInv, TablesOK, RequestsOK
    <3> QED
      BY <1>0, <3>2, RequestsStep
  <2>4. CASE admin_accept_create(a)
    <3>1. create_accounts(a)
      BY <2>4 DEF admin_accept_create
    <3>2. RequestsOK' /\ UNCHANGED <<blocks, outputs>> /\ creates[a] \in Nat
      BY <1>0, <3>1 DEF create_accounts, StorageInv, TablesOK, RequestsOK
    <3>3. CASE Exists(a)
      BY <1>0, <3>1, <3>2, <3>3, RequestsStep DEF create_accounts
    <3>4. CASE ~ Exists(a)
      <4>1. DoAddAccount(a, "active", creates[a]) /\ "active" \in Status
        BY <3>1, <3>4 DEF create_accounts, Status
      <4> QED
        BY <1>0, <3>2, <3>4, <4>1, AddStep
    <3> QED
      BY <3>3, <3>4
  <2>5. CASE admin_reject(a)
    <3>1. reject_requests(a)
      BY <2>5 DEF admin_reject
    <3>2. RequestsOK' /\ UNCHANGED <<blocks, accounts, by_height, outputs>>
      BY <1>0, <3>1 DEF reject_requests, StorageInv, TablesOK, RequestsOK
    <3> QED
      BY <1>0, <3>2, RequestsStep
  <2> QED
    BY <2>1, <2>2, <2>3, <2>4, <2>5
<1>2. EnvInv'
  BY DEF admin_add, admin_status, login_request, admin_accept_create, admin_reject,
         Parts, EnvInv, env_vars, OnCheckpoint, Hash
<1>3. MiscInv' /\ UNCHANGED <<thread, queue>>
  BY DEF admin_add, admin_status, login_request, admin_accept_create, admin_reject,
         UseOp, Parts, MiscInv, scan_vars, env_vars
<1> QED
  BY <1>1, <1>2, <1>3, TableStep

\* Heights that are lowered, or requests for it.
LEMMA HeightStep ==
  ASSUME Parts, NEW a \in Account, admin_accept_import(a) \/ admin_rescan(a)
  PROVE  Parts'
<1>0. StorageInv
  BY DEF Parts
<1>1. StorageInv' /\ StartsLower
  <2>1. CASE admin_accept_import(a)
    <3>1. import_accounts(a)
      BY <2>1 DEF admin_accept_import
    <3>2. RequestsOK' /\ UNCHANGED blocks /\ imports[a] \in Nat /\ ChangeHeight(a, imports[a])
      BY <1>0, <3>1 DEF import_accounts, StorageInv, TablesOK, RequestsOK
    <3> QED
      BY <1>0, <3>2, ChangeHeightStep
  <2>2. CASE admin_rescan(a)
    <3>1. PICK h \in ImportHeights : rescan(a, h)
      BY <2>2 DEF admin_rescan
    <3>2. RequestsOK' /\ UNCHANGED blocks /\ h \in Nat /\ ChangeHeight(a, h)
      BY <1>0, <3>1, ScannerAssumption DEF rescan, StorageInv, TablesOK, RequestsOK
    <3> QED
      BY <1>0, <3>2, ChangeHeightStep
  <2> QED
    BY <2>1, <2>2
<1>2. EnvInv'
  BY DEF admin_accept_import, admin_rescan, Parts, EnvInv, env_vars, OnCheckpoint, Hash
<1>3. MiscInv' /\ UNCHANGED <<thread, queue>>
  BY DEF admin_accept_import, admin_rescan, UseOp, Parts, MiscInv, scan_vars, env_vars
<1> QED
  BY <1>1, <1>2, <1>3, TableStep

\* A REST handler reads the account.
LEMMA HandleStep ==
  ASSUME Parts, NEW a \in Account,
         request_rescan(a) \/ auto_rescan(a) \/ import_older(a) \/ import_lookahead(a)
  PROVE  Parts'
<1>1. accounts[a].start \in Nat /\ accounts[a].scan \in Nat /\ RescanDepth \in Nat
  BY ScannerAssumption DEF Parts, StorageInv, TablesOK, AccountsOK
<1>2. AutoRescanHeight(a) \in Nat
  BY <1>1 DEF AutoRescanHeight, Most
<1>3. \E o \in {"rescan", "import"}, h \in Nat : Handle(o, a, h)
  BY <1>1, <1>2, ScannerAssumption DEF request_rescan, auto_rescan, import_older, import_lookahead
<1>4. PICK o \in {"rescan", "import"}, h \in Nat : Handle(o, a, h)
  BY <1>3
<1>5. rest' \in [op : {"rescan", "import", "accept"}, id : Account, height : Nat]
  BY <1>4 DEF Handle
<1>6. MiscInv'
  BY <1>4, <1>5 DEF Handle, UseOp, Parts, MiscInv, scan_vars, env_vars
<1>7. EnvInv' /\ UNCHANGED <<storage_vars, thread, queue>>
  BY <1>4 DEF Handle, Parts, EnvInv, env_vars, OnCheckpoint, Hash, scan_vars, storage_vars
<1> QED
  BY <1>6, <1>7, ControlStep

\* A REST handler writes what it decided, or gives up.
LEMMA RestStep ==
  ASSUME Parts, rest_rescan \/ rest_import \/ rest_accept \/ rest_error
  PROVE  Parts'
<1>0. StorageInv /\ rest # NoHandler
  BY DEF Parts, rest_rescan, rest_import, rest_accept, rest_error
<1>1. rest \in [op : {"rescan", "import", "accept"}, id : Account, height : Nat]
  BY <1>0 DEF Parts, MiscInv
<1>2. rest.id \in Account /\ rest.height \in Nat
  BY <1>1
<1>3. StorageInv' /\ StartsLower
  <2>1. CASE rest_rescan
    <3>1. RequestsOK' /\ UNCHANGED blocks /\ ChangeHeight(rest.id, rest.height)
      BY <1>0, <2>1 DEF rest_rescan, rescan, StorageInv, TablesOK, RequestsOK
    <3> QED
      BY <1>0, <1>2, <3>1, ChangeHeightStep
  <2>2. CASE rest_import
    <3>1. RequestsOK' /\ UNCHANGED <<blocks, accounts, by_height, outputs>>
      BY <1>0, <1>2, <2>2 DEF rest_import, import_request, StorageInv, TablesOK, RequestsOK
    <3> QED
      BY <1>0, <3>1, RequestsStep
  <2>3. CASE rest_accept
    <3>1. import_accounts(rest.id)
      BY <2>3 DEF rest_accept
    <3>2. /\ RequestsOK' /\ UNCHANGED blocks /\ imports[rest.id] \in Nat
          /\ ChangeHeight(rest.id, imports[rest.id])
      BY <1>0, <1>2, <3>1 DEF import_accounts, StorageInv, TablesOK, RequestsOK
    <3> QED
      BY <1>0, <1>2, <3>2, ChangeHeightStep
  <2>4. CASE rest_error
    BY <1>0, <2>4, QuietStep DEF rest_error
  <2> QED
    BY <2>1, <2>2, <2>3, <2>4
<1>4. EnvInv'
  BY DEF rest_rescan, rest_import, rest_accept, rest_error, Parts, EnvInv, env_vars,
         OnCheckpoint, Hash
<1>5. MiscInv' /\ UNCHANGED <<thread, queue>>
  <2>1. \/ rest' = NoHandler
        \/ rest' \in [op : {"rescan", "import", "accept"}, id : Account, height : Nat]
    BY <1>1 DEF rest_rescan, rest_import, rest_accept, rest_error
  <2> QED
    BY <2>1 DEF rest_rescan, rest_import, rest_accept, rest_error, Parts, MiscInv, scan_vars, env_vars
<1> QED
  BY <1>3, <1>4, <1>5, TableStep

----------------------------------------------------------------------------
(* The theorems.                                                           *)

\* The initial states satisfy every part.
LEMMA InitParts ==
  ASSUME Init
  PROVE  Parts
<1>1. StorageInv
  BY StorageInitInv DEF Init
<1>2. EnvInv
  BY DEF Init, EnvInv
<1>3. MiscInv
  <2>1. {reorgs, faults, ops} \subseteq Nat
    BY DEF Init
  <2>2. phase \in {"start", "sync", "load", "scan", "halt"} /\ known \in Nat \cup {FirstRequest}
    BY DEF Init
  <2>3. stop \in BOOLEAN /\ shutdown \in BOOLEAN
    BY Zenon DEF Init
  <2>4. active \subseteq Account /\ rest = NoHandler
    BY DEF Init
  <2> QED
    BY <2>1, <2>2, <2>3, <2>4, Zenon DEF MiscInv
<1>4. IsUsers(NoUsers) /\ DOMAIN NoUsers = {} /\ HeldOK(NoUsers)
  BY DEF IsUsers, NoUsers, HeldOK
<1>5. ThreadsInv
  <2> HIDE DEF NoUsers
  <2> QED
    BY <1>4, NoBatchGood DEF Init, ThreadsInv, ThreadGood, Off, Loop
<1>6. QueuesInv
  <2> HIDE DEF NoUsers
  <2> QED
    BY <1>4 DEF Init, QueuesInv, QueueGood, EmptyQueue, NoReplace
<1> QED
  BY <1>1, <1>2, <1>3, <1>5, <1>6 DEF Parts

\* Every action preserves every part.
LEMMA NextParts ==
  ASSUME 2 <= Checkpoint, Parts, Next
  PROVE  Parts'
<1>1. CASE DaemonNext
  BY <1>1, MineStep, DaemonReorgStep DEF DaemonNext
<1>2. CASE MainNext
  BY <1>2, SyncStep, PhaseStep, CheckLoopStep, CrashStep DEF MainNext
<1>3. ASSUME NEW t \in Thread, ThreadNext(t) PROVE Parts'
  BY <1>3, ThreadLeaves, IdleStep, FetchStep, StoreActionStep DEF ThreadNext
<1>4. CASE AccountNext
  BY <1>4, CheckUsersStep, ReplaceStep, AccountStep DEF AccountNext
<1>5. CASE HeightNext
  BY <1>5, RestStep, HeightStep, HandleStep DEF HeightNext
<1> QED
  BY <1>1, <1>2, <1>3, <1>4, <1>5 DEF Next, ScanNext

\* A stuttering step preserves every part.
LEMMA StutterParts ==
  ASSUME Parts, UNCHANGED vars
  PROVE  Parts'
<1>1. UNCHANGED <<storage_vars, thread, queue>>
  BY DEF vars, scan_vars, storage_vars
<1>2. EnvInv' /\ MiscInv'
  BY DEF vars, scan_vars, env_vars, Parts, EnvInv, MiscInv, OnCheckpoint, Hash
<1> QED
  BY <1>1, <1>2, ControlStep

\* IInv is an invariant of the whole system (scanner threads, main loop,
\* account server, REST and admin operations, crashes, daemon
\* reorganisations) on every network whose last checkpoint is above block 1.
THEOREM Inductive ==
  ASSUME 2 <= Checkpoint
  PROVE  Spec => []IInv
<1>1. Init => Parts
  BY InitParts
<1>2. Parts /\ [Next]_vars => Parts'
  BY NextParts, StutterParts
<1>3. Parts => IInv
  BY IInvParts
<1> QED
  BY <1>1, <1>2, <1>3, PTL DEF Spec

\* Types of the tables and of the scanner.
THEOREM TypeCorrect ==
  ASSUME 2 <= Checkpoint
  PROVE  Spec => []TypeOK
<1>1. IInv => TypeOK
  BY DEF IInv
<1> QED
  BY <1>1, Inductive, PTL

\* The block hashes that update and sync_chain store lie on one chain with
\* the checkpoint in it, although each compares only some of them.
THEOREM ChainSafe ==
  ASSUME 2 <= Checkpoint
  PROVE  Spec => []ChainLinked
<1>1. IInv => ChainLinked
  BY DEF IInv
<1> QED
  BY <1>1, Inductive, PTL

\* The index by scan height has one row per account, at or above its scan
\* height, whatever transactions interleave.
THEOREM IndexSafe ==
  ASSUME 2 <= Checkpoint
  PROVE  Spec => []IndexOneRow
<1>1. IInv => IndexOneRow
  BY DEF IInv
<1> QED
  BY <1>1, Inductive, PTL

\* No output of a detached block, and none outside the scanned range, is ever
\* in the table.
THEOREM OutputsSafe ==
  ASSUME 2 <= Checkpoint
  PROVE  Spec => []NoPhantom
<1>1. IInv => NoPhantom
  BY DEF IInv
<1> QED
  BY <1>1, Inductive, PTL

\* No thread asks for, or stores, blocks that begin above the scan height of
\* an account it holds.
THEOREM RequestsSafe ==
  ASSUME 2 <= Checkpoint
  PROVE  Spec => []RequestCovers
<1>1. IInv => RequestCovers
  BY DEF IInv
<1> QED
  BY <1>1, Inductive, PTL

----------------------------------------------------------------------------
(* Completeness, as long as nobody rescans or imports.                     *)

\* Every account starts at or above the checkpoint, where update compares
\* hashes: a batch with the wrong label is refused there.
HighStarts ==
  \A a \in Account : /\ Exists(a) => Checkpoint <= accounts[a].start
                     /\ creates[a] # NoRequest => Checkpoint <= creates[a]

\* NoLost without the hashes, which NoPhantom supplies.
Complete ==
  \A a \in Account : Exists(a) =>
    \A h \in (accounts[a].start + 1)..accounts[a].scan : \E o \in outputs[a] : o.height = h

GrowInv == HighStarts /\ Complete /\ IndexExact

\* AdvanceCovers of one step.
Covers ==
  \A a \in Account :
    Exists(a) /\ Exists(a)' =>
      \A h \in (accounts[a].scan + 1)..accounts'[a].scan : \E o \in outputs'[a] : o.height = h

\* Steps that leave the tables alone.
LEMMA GrowQuiet ==
  ASSUME StorageInv, GrowInv, UNCHANGED <<accounts, by_height, outputs, creates>>
  PROVE  GrowInv' /\ Covers
<1>1. \A a \in Account : Exists(a)' <=> Exists(a)
  BY DEF Exists
<1>2. HighStarts' /\ Complete'
  BY <1>1 DEF GrowInv, HighStarts, Complete
<1>3. IndexExact'
  BY <1>1 DEF GrowInv, IndexExact, Indexed, RowsOf
<1>4. Covers
  BY DEF Covers, StorageInv, TablesOK, AccountsOK
<1> QED
  BY <1>2, <1>3, <1>4 DEF GrowInv

\* sync_chain rolls back: the row of an account is at its scan height, so that
\* every account above the fork is found, and no other one.
LEMMA GrowRollback ==
  ASSUME StorageInv, GrowInv, NEW K \in Nat, Checkpoint < K, RollbackAccounts(K), UNCHANGED creates
  PROVE  GrowInv' /\ Covers
<1> DEFINE w == K - 1
<1>0. w \in Nat /\ Most(K, 1) - 1 = w /\ Checkpoint <= w /\ Checkpoint \in Nat
  BY StorageAssumption DEF Most
<1>1. /\ accounts' = [a \in Account |->
           IF a \in RolledBack(K)
           THEN Record(accounts[a].status, Least(w, accounts[a].start), w) ELSE accounts[a]]
      /\ outputs' = [a \in Account |->
           IF a \in RolledBack(K) THEN RollbackOutputs(outputs[a], K) ELSE outputs[a]]
      /\ by_height' = {r \in by_height : r.height < K}
           \cup {Row(w, r.id, r.status) : r \in {q \in by_height : q.height >= K}}
  BY <1>0 DEF RollbackAccounts
<1>2. ASSUME NEW a \in Account
      PROVE  accounts[a].start \in Nat /\ accounts[a].scan \in Nat
             /\ accounts[a].start <= accounts[a].scan
  BY DEF StorageInv, TablesOK, AccountsOK
<1> HIDE DEF w
<1>3. ASSUME NEW a \in Account
      PROVE  Exists(a)' <=> Exists(a)
  BY <1>1 DEF Exists, Record
<1>4. ASSUME NEW a \in Account, Exists(a)
      PROVE  \E r \in by_height : RowsOf(a) = {r} /\ r.height = accounts[a].scan /\ r.id = a
  <2>1. PICK r \in by_height : RowsOf(a) = {r}
    BY <1>4 DEF StorageInv, IndexOneRow
  <2>2. Indexed(a)
    BY <1>4 DEF GrowInv, IndexExact
  <2> QED
    BY <2>1, <2>2 DEF Indexed, RowsOf
<1>5. ASSUME NEW a \in Account, Exists(a)
      PROVE  a \in RolledBack(K) <=> accounts[a].scan >= K
  BY <1>4, <1>5 DEF RolledBack
<1>6. ASSUME NEW a \in Account, Exists(a), a \in RolledBack(K)
      PROVE  /\ Checkpoint <= accounts'[a].start /\ Indexed(a)'
             /\ accounts'[a].scan <= accounts[a].scan
             /\ \A h \in (accounts'[a].start + 1)..accounts'[a].scan :
                  \E o \in outputs'[a] : o.height = h
  <2>1. /\ accounts'[a].start = Least(w, accounts[a].start) /\ accounts'[a].scan = w
        /\ outputs'[a] = {o \in outputs[a] : o.height < K}
    BY <1>1, <1>6 DEF Record, RollbackOutputs
  <2>2. accounts[a].scan >= K /\ Checkpoint <= accounts[a].start
    BY <1>5, <1>6 DEF GrowInv, HighStarts
  <2>3. Indexed(a)'
    <3>1. PICK r \in by_height : RowsOf(a) = {r} /\ r.height = accounts[a].scan /\ r.id = a
      BY <1>4, <1>6
    <3>2. Row(w, a, r.status) \in by_height'
      BY <1>1, <2>2, <3>1
    <3> QED
      BY <2>1, <3>2 DEF Indexed, RowsOf, Row
  <2>4. ASSUME NEW h \in (accounts'[a].start + 1)..w
        PROVE  \E o \in outputs'[a] : o.height = h
    <3>1. h \in (accounts[a].start + 1)..accounts[a].scan /\ h < K
      BY <1>0, <1>2, <2>1, <2>2 DEF Least, w
    <3>2. PICK o \in outputs[a] : o.height = h
      BY <1>6, <3>1 DEF GrowInv, Complete
    <3> QED
      BY <2>1, <3>1, <3>2
  <2>5. accounts'[a].scan <= accounts[a].scan /\ Checkpoint <= accounts'[a].start
    BY <1>0, <1>2, <2>1, <2>2 DEF Least, w
  <2> QED
    BY <2>1, <2>3, <2>4, <2>5
<1>7. ASSUME NEW a \in Account, Exists(a), a \notin RolledBack(K)
      PROVE  /\ Checkpoint <= accounts'[a].start /\ Indexed(a)'
             /\ accounts'[a].scan <= accounts[a].scan
             /\ \A h \in (accounts'[a].start + 1)..accounts'[a].scan :
                  \E o \in outputs'[a] : o.height = h
  <2>1. accounts'[a] = accounts[a] /\ outputs'[a] = outputs[a]
    BY <1>1, <1>7
  <2>2. Indexed(a)'
    <3>1. PICK r \in by_height : RowsOf(a) = {r} /\ r.height = accounts[a].scan /\ r.id = a
      BY <1>4, <1>7
    <3>2. r \in by_height'
      BY <1>1, <1>2, <1>5, <1>7, <3>1
    <3> QED
      BY <2>1, <3>1, <3>2 DEF Indexed, RowsOf
  <2> QED
    BY <1>2, <1>7, <2>1, <2>2 DEF GrowInv, HighStarts, Complete
<1>8. HighStarts'
  BY <1>3, <1>6, <1>7 DEF HighStarts, GrowInv
<1>9. Complete' /\ IndexExact'
  BY <1>3, <1>6, <1>7 DEF Complete, IndexExact
<1>10. Covers
  <2> SUFFICES ASSUME NEW a \in Account, Exists(a),
                      NEW h \in (accounts[a].scan + 1)..accounts'[a].scan
               PROVE  FALSE
    BY DEF Covers
  <2>1. accounts'[a].scan <= accounts[a].scan /\ accounts[a].scan \in Nat
    BY <1>2, <1>6, <1>7
  <2>2. accounts'[a].scan \in Nat
    BY <1>0, <1>1, <1>2 DEF Record
  <2> QED
    BY <2>1, <2>2
<1> QED
  BY <1>8, <1>9, <1>10 DEF GrowInv

\* A batch is stored: its label is right, because it is not below the
\* checkpoint, and it begins no later than the copies, which are no later than
\* the record.
LEMMA GrowStore ==
  ASSUME 2 <= Checkpoint, StorageInv, GrowInv, NEW b, BatchGood(b),
         1 <= b.start, b.start < b.last,
         NEW us, IsUsers(us), HeldOK(us), \A a \in DOMAIN us : b.start <= Most(1, us[a]),
         NEW f \in DOMAIN us,
         update(us[f], BatchLength(b), BatchChain(b), us,
                [a \in DOMAIN us |-> Found(b, us[a])])
  PROVE  GrowInv' /\ Covers
<1> DEFINE m == us[f]
<1> DEFINE n == BatchLength(b)
<1> DEFINE u == LastUpdate(m, n)
<1> DEFINE S == Stored(m, n, us)
<1> DEFINE found == [a \in DOMAIN us |-> Found(b, us[a])]
<1>0. /\ m \in Nat /\ b.start \in Nat /\ b.last \in Nat /\ DOMAIN us \subseteq Account
      /\ b.start <= Most(1, m) /\ Checkpoint \in Nat
  BY StorageAssumption DEF IsUsers, BatchGood, IsBatch
<1>1. /\ ~ UpdateBad(m, n, BatchChain(b)) /\ ~ UpdateReorg(m, n, BatchChain(b))
      /\ \A a \in S : Indexed(a)
      /\ accounts' = [a \in Account |->
           IF a \in S THEN Record(accounts[a].status, accounts[a].start, u) ELSE accounts[a]]
      /\ by_height' = {r \in by_height : ~ (r.id \in S /\ r.height = accounts[r.id].scan)}
           \cup {Row(u, a, accounts[a].status) : a \in S}
      /\ outputs' = [a \in Account |-> IF a \in S THEN outputs[a] \cup found[a] ELSE outputs[a]]
      /\ UNCHANGED creates
  BY DEF update, UpdateLost
<1>2. u = b.last
  <2>1. n \in Nat /\ 1 <= n /\ (Checkpoint <= u => u = b.last)
    BY <1>0, <1>1, BatchAligned
  <2>2. Exists(f) /\ f \in Account /\ accounts[f].start <= m
    BY <1>0 DEF HeldOK
  <2>3. accounts[f].start \in Nat /\ Checkpoint <= accounts[f].start
    BY <2>2 DEF StorageInv, TablesOK, AccountsOK, GrowInv, HighStarts
  <2>4. m <= u /\ u \in Nat
    BY <1>0, <2>1 DEF LastUpdate
  <2> QED
    BY <1>0, <2>1, <2>2, <2>3, <2>4
<1>3. ASSUME NEW a \in Account
      PROVE  accounts[a].start \in Nat /\ accounts[a].scan \in Nat
  BY DEF StorageInv, TablesOK, AccountsOK
<1>4. ASSUME NEW a \in S
      PROVE  /\ a \in DOMAIN us /\ a \in Account /\ Exists(a)
             /\ us[a] \in Nat /\ us[a] <= accounts[a].scan
             /\ b.start <= us[a] /\ Checkpoint <= accounts[a].start
             /\ accounts[a].scan < u
  <2>1. a \in DOMAIN us /\ Exists(a) /\ us[a] <= accounts[a].scan /\ accounts[a].scan < u
    BY DEF Stored, Updated
  <2>2. a \in Account /\ us[a] \in Nat /\ accounts[a].start <= us[a]
    BY <1>0, <2>1 DEF IsUsers, HeldOK
  <2>3. Checkpoint <= accounts[a].start /\ accounts[a].start \in Nat
    BY <1>3, <2>1, <2>2 DEF GrowInv, HighStarts
  <2>4. b.start <= us[a]
    BY <1>0, <2>1, <2>2, <2>3 DEF Most
  <2> QED
    BY <2>1, <2>2, <2>3, <2>4
<1>5. ASSUME NEW a \in S, NEW h \in (accounts[a].scan + 1)..u
      PROVE  \E o \in outputs'[a] : o.height = h
  <2>1. h \in BatchHeights(b) /\ us[a] < h
    BY <1>0, <1>2, <1>3, <1>4 DEF BatchHeights
  <2>2. [height |-> h, block |-> Prefix(b.top, h)] \in found[a]
    BY <1>4, <2>1 DEF Found
  <2>3. outputs'[a] = outputs[a] \cup found[a]
    BY <1>1, <1>4
  <2> QED
    BY <2>2, <2>3
<1> HIDE DEF m, n, u, S, found
<1>6. ASSUME NEW a \in Account
      PROVE  /\ Exists(a)' <=> Exists(a)
             /\ accounts'[a].start = accounts[a].start
             /\ accounts'[a].scan = IF a \in S THEN u ELSE accounts[a].scan
             /\ outputs[a] \subseteq outputs'[a]
  BY <1>1 DEF Exists, Record
<1>7. ASSUME NEW a \in Account, Exists(a), NEW h \in (accounts'[a].start + 1)..accounts'[a].scan
      PROVE  \E o \in outputs'[a] : o.height = h
  <2>1. CASE h \in (accounts[a].start + 1)..accounts[a].scan
    BY <1>6, <1>7, <2>1 DEF GrowInv, Complete
  <2>2. CASE h \notin (accounts[a].start + 1)..accounts[a].scan
    <3>1. a \in S
      BY <1>6, <2>2
    <3>2. h \in (accounts[a].scan + 1)..u
      BY <1>0, <1>2, <1>3, <1>6, <2>2, <3>1
    <3> QED
      BY <1>5, <3>1, <3>2
  <2> QED
    BY <2>1, <2>2
<1>8. HighStarts' /\ Complete'
  BY <1>1, <1>6, <1>7 DEF GrowInv, HighStarts, Complete
<1>9. IndexExact'
  <2> SUFFICES ASSUME NEW a \in Account, Exists(a) PROVE Indexed(a)'
    BY <1>6 DEF IndexExact
  <2>1. CASE a \in S
    <3>1. Row(u, a, accounts[a].status) \in by_height'
      BY <1>1, <2>1
    <3> QED
      BY <1>6, <2>1, <3>1 DEF Indexed, RowsOf, Row
  <2>2. CASE a \notin S
    <3>1. PICK r \in by_height : r.id = a /\ r.height = accounts[a].scan
      BY DEF GrowInv, IndexExact, Indexed, RowsOf
    <3>2. r \in by_height'
      BY <1>1, <2>2, <3>1
    <3> QED
      BY <1>6, <2>2, <3>1, <3>2 DEF Indexed, RowsOf
  <2> QED
    BY <2>1, <2>2
<1>10. Covers
  <2> SUFFICES ASSUME NEW a \in Account, Exists(a),
                      NEW h \in (accounts[a].scan + 1)..accounts'[a].scan
               PROVE  \E o \in outputs'[a] : o.height = h
    BY DEF Covers
  <2>1. a \in S
    BY <1>3, <1>6
  <2> QED
    BY <1>5, <1>6, <2>1
<1> QED
  BY <1>8, <1>9, <1>10 DEF GrowInv

\* A new account has nothing to miss.
LEMMA GrowAdd ==
  ASSUME StorageInv, GrowInv, NEW a \in Account, NEW s \in Status, NEW h \in Nat, Checkpoint <= h,
         ~ Exists(a), DoAddAccount(a, s, h), UNCHANGED outputs,
         \A x \in Account : creates'[x] # NoRequest => Checkpoint <= creates'[x]
  PROVE  GrowInv' /\ Covers
<1>1. /\ accounts'[a] = Record(s, h, h) /\ \A x \in Account : x # a => accounts'[x] = accounts[x]
      /\ by_height \subseteq by_height' /\ Row(h, a, s) \in by_height'
  BY DEF DoAddAccount, StorageInv, TablesOK, AccountsOK
<1>2. \A x \in Account : x # a => (Exists(x)' <=> Exists(x))
  BY <1>1 DEF Exists
<1>3. accounts'[a].start = h /\ accounts'[a].scan = h
  BY <1>1 DEF Record
<1>4. (h + 1)..h = {}
  OBVIOUS
<1>5. HighStarts' /\ Complete'
  BY <1>1, <1>2, <1>3, <1>4 DEF GrowInv, HighStarts, Complete
<1>6. IndexExact'
  <2> SUFFICES ASSUME NEW x \in Account, Exists(x)' PROVE Indexed(x)'
    BY DEF IndexExact
  <2>1. CASE x = a
    BY <1>1, <1>3, <2>1 DEF Indexed, RowsOf, Row
  <2>2. CASE x # a
    BY <1>1, <1>2, <2>2 DEF GrowInv, IndexExact, Indexed, RowsOf
  <2> QED
    BY <2>1, <2>2
<1>7. Covers
  <2> SUFFICES ASSUME NEW x \in Account, Exists(x),
                      NEW g \in (accounts[x].scan + 1)..accounts'[x].scan
               PROVE  FALSE
    BY DEF Covers
  <2>1. accounts'[x] = accounts[x] /\ accounts[x].scan \in Nat
    BY <1>1 DEF StorageInv, TablesOK, AccountsOK
  <2> QED
    BY <2>1
<1> QED
  BY <1>5, <1>6, <1>7 DEF GrowInv

\* A changed status moves no height.
LEMMA GrowStatus ==
  ASSUME StorageInv, GrowInv, NEW a \in Account, NEW s \in Status, change_status(a, s)
  PROVE  GrowInv' /\ Covers
<1>1. /\ accounts'[a] = Record(s, accounts[a].start, accounts[a].scan)
      /\ \A x \in Account : x # a => accounts'[x] = accounts[x]
      /\ Exists(a) /\ UNCHANGED <<outputs, creates>>
      /\ by_height' = {r \in by_height : ~ (r.id = a /\ r.height = accounts[a].scan)}
           \cup {Row(accounts[a].scan, a, s)}
  BY DEF change_status, MovedRow, StorageInv, TablesOK, AccountsOK
<1>2. ASSUME NEW x \in Account
      PROVE  /\ Exists(x)' <=> Exists(x)
             /\ accounts'[x].start = accounts[x].start /\ accounts'[x].scan = accounts[x].scan
  BY <1>1 DEF Exists, Record, Status
<1>3. HighStarts' /\ Complete'
  BY <1>1, <1>2 DEF GrowInv, HighStarts, Complete
<1>4. IndexExact'
  <2> SUFFICES ASSUME NEW x \in Account, Exists(x) PROVE Indexed(x)'
    BY <1>2 DEF IndexExact
  <2>1. CASE x = a
    <3>1. Row(accounts[a].scan, a, s) \in by_height'
      BY <1>1
    <3> QED
      BY <1>2, <2>1, <3>1 DEF Indexed, RowsOf, Row
  <2>2. CASE x # a
    BY <1>1, <1>2, <2>2 DEF GrowInv, IndexExact, Indexed, RowsOf
  <2> QED
    BY <2>1, <2>2
<1>5. Covers
  BY <1>2 DEF Covers, StorageInv, TablesOK, AccountsOK
<1> QED
  BY <1>3, <1>4, <1>5 DEF GrowInv

\* An answer of get_hashes_fast is stored.
LEMMA GrowSync ==
  ASSUME Parts, GrowInv, sync_quick
  PROVE  GrowInv' /\ Covers
<1>0. StorageInv
  BY DEF Parts
<1>1. PICK s \in SyncStarts : \E n \in 2..(tip - s + 1) :
        \/ sync_chain_append(s, n, DaemonHashes(s, n))
        \/ sync_chain_reorg(s, n, DaemonHashes(s, n))
  BY DEF sync_quick
<1>2. PICK n \in 2..(tip - s + 1) :
        \/ sync_chain_append(s, n, DaemonHashes(s, n))
        \/ sync_chain_reorg(s, n, DaemonHashes(s, n))
  BY <1>1
<1>3. CASE sync_chain_append(s, n, DaemonHashes(s, n))
  BY <1>0, <1>3, GrowQuiet DEF sync_chain_append
<1>4. CASE sync_chain_reorg(s, n, DaemonHashes(s, n))
  <2>1. PICK k \in Mismatch(s, n, DaemonHashes(s, n)) :
          Checkpoint < s + k /\ RollbackAccounts(s + k)
    BY <1>4 DEF sync_chain_reorg
  <2>2. s \in Nat /\ k \in Nat
    BY <1>0, <1>4, <2>1, ChainHere DEF sync_chain_reorg, FirstMatches, Mismatch
  <2>3. s + k \in Nat
    BY <2>2
  <2> QED
    BY <1>0, <1>4, <2>1, <2>3, GrowRollback DEF sync_chain_reorg
<1> QED
  BY <1>2, <1>3, <1>4

\* Accounts and requests.
LEMMA GrowAccount ==
  ASSUME Parts, GrowInv, NEW a \in Account,
         \/ admin_add(a) \/ admin_status(a)
         \/ login_request(a) \/ admin_accept_create(a) \/ admin_reject(a)
  PROVE  GrowInv' /\ Covers
<1>0. StorageInv /\ LastBlock \in Nat /\ Checkpoint <= LastBlock
  BY ChainHere DEF Parts, StorageInv, TablesOK, BlocksOK
<1>1. /\ creates \in [Account -> Nat \cup {NoRequest}]
      /\ \A x \in Account : creates[x] # NoRequest => Checkpoint <= creates[x]
  BY <1>0 DEF StorageInv, TablesOK, GrowInv, HighStarts
<1>2. ASSUME UNCHANGED <<accounts, by_height, outputs>>,
             \A x \in Account : creates'[x] # NoRequest => Checkpoint <= creates'[x]
      PROVE  GrowInv' /\ Covers
  <2>1. \A x \in Account : Exists(x)' <=> Exists(x)
    BY <1>2 DEF Exists
  <2>2. HighStarts' /\ Complete'
    BY <1>2, <2>1 DEF GrowInv, HighStarts, Complete
  <2>3. IndexExact'
    BY <1>2, <2>1 DEF GrowInv, IndexExact, Indexed, RowsOf
  <2>4. Covers
    BY <1>0, <1>2 DEF Covers, StorageInv, TablesOK, AccountsOK
  <2> QED
    BY <2>2, <2>3, <2>4 DEF GrowInv
<1>3. CASE admin_add(a)
  <2>1. PICK s \in AddedStatus : add_account(a, s)
    BY <1>3 DEF admin_add
  <2>2. s \in Status /\ ~ Exists(a) /\ DoAddAccount(a, s, LastBlock) /\ UNCHANGED <<outputs, creates>>
    BY <2>1 DEF AddedStatus, Status, add_account
  <2> QED
    BY <1>0, <1>1, <2>2, GrowAdd
<1>4. CASE admin_status(a)
  BY <1>0, <1>4, GrowStatus DEF admin_status
<1>5. CASE login_request(a)
  <2>1. creates' = [creates EXCEPT ![a] = LastBlock] /\ UNCHANGED <<accounts, by_height, outputs>>
    BY <1>5 DEF login_request, creation_request
  <2> QED
    BY <1>0, <1>1, <1>2, <2>1
<1>6. CASE admin_accept_create(a)
  <2>1. create_accounts(a)
    BY <1>6 DEF admin_accept_create
  <2>2. /\ creates' = [creates EXCEPT ![a] = NoRequest] /\ UNCHANGED outputs
        /\ creates[a] \in Nat /\ Checkpoint <= creates[a]
    BY <1>1, <2>1 DEF create_accounts
  <2>3. \A x \in Account : creates'[x] # NoRequest => Checkpoint <= creates'[x]
    BY <1>1, <2>2
  <2>4. CASE Exists(a)
    BY <1>2, <2>1, <2>2, <2>3, <2>4 DEF create_accounts
  <2>5. CASE ~ Exists(a)
    <3>1. DoAddAccount(a, "active", creates[a]) /\ "active" \in Status
      BY <2>1, <2>5 DEF create_accounts, Status
    <3> QED
      BY <1>0, <2>2, <2>3, <2>5, <3>1, GrowAdd
  <2> QED
    BY <2>4, <2>5
<1>7. CASE admin_reject(a)
  <2>1. /\ creates' = creates \/ creates' = [creates EXCEPT ![a] = NoRequest]
        /\ UNCHANGED <<accounts, by_height, outputs>>
    BY <1>7 DEF admin_reject, reject_requests
  <2> QED
    BY <1>1, <1>2, <2>1
<1> QED
  BY <1>3, <1>4, <1>5, <1>6, <1>7

\* Steps of the daemon, the main loop, the threads and the account server
\* that write no table.
LEMMA GrowIdle ==
  ASSUME Parts, GrowInv, UNCHANGED storage_vars
  PROVE  GrowInv' /\ Covers
BY GrowQuiet DEF Parts, storage_vars

\* A batch is stored.
LEMMA GrowStoreAction ==
  ASSUME 2 <= Checkpoint, Parts, GrowInv, NEW t \in Thread, store(t)
  PROVE  GrowInv' /\ Covers
<1> DEFINE us == thread[t].users
<1> DEFINE b == thread[t].batch
<1>1. PICK f \in DOMAIN us :
        /\ Storing(t, f)
        /\ update(us[f], BatchLength(b), BatchChain(b), us,
                  [a \in DOMAIN us |-> Found(b, us[a])])
  BY DEF store, StoreHeight, StoreLength, StoreChain
<1>2. thread[t].pc = "store" /\ ThreadGood(thread[t]) /\ HeldOK(us)
  BY <1>1 DEF Storing, Parts, ThreadsInv
<1>3. /\ IsUsers(us) /\ BatchGood(b) /\ 1 <= b.start /\ b.start < b.last
      /\ \A a \in DOMAIN us : b.start <= Most(1, us[a])
  BY <1>2 DEF ThreadGood
<1>4. StorageInv
  BY DEF Parts
<1> HIDE DEF us, b
<1> QED
  BY <1>1, <1>2, <1>3, <1>4, GrowStore

\* Every step that neither rescans nor imports.
LEMMA GrowAllSteps ==
  ASSUME 2 <= Checkpoint, Parts, GrowInv, ScanNext \/ AccountNext \/ UNCHANGED vars
  PROVE  GrowInv' /\ Covers
<1>1. CASE DaemonNext
  BY <1>1, GrowIdle DEF DaemonNext, Mine, Reorg
<1>2. CASE MainNext
  <2>1. CASE sync_quick
    BY <2>1, GrowSync
  <2>2. CASE ~ sync_quick
    BY <1>2, <2>2, GrowIdle DEF MainNext, sync_refused, sync_done, sync_timeout, load_none,
                                check_loop, join, crash
  <2> QED
    BY <2>1, <2>2
<1>3. ASSUME NEW t \in Thread, ThreadNext(t) PROVE GrowInv' /\ Covers
  <2>1. CASE store(t)
    BY <2>1, GrowStoreAction
  <2>2. CASE ~ store(t)
    BY <1>3, <2>2, GrowIdle DEF ThreadNext, fetch_failed, fetch_timeout, fetch_idle, fetch,
                                store_reorg, store_failed, wait_for_accounts, leave
  <2> QED
    BY <2>1, <2>2
<1>4. CASE check_users \/ do_replace_users \/ remote_change
  BY <1>4, GrowIdle DEF check_users, do_replace_users, remote_change, ReplaceAll
<1>5. CASE UNCHANGED vars
  BY <1>5, GrowIdle DEF vars
<1> QED
  BY <1>1, <1>2, <1>3, <1>4, <1>5, GrowAccount DEF ScanNext, AccountNext

\* A new database has no accounts.
LEMMA GrowInit ==
  ASSUME Init
  PROVE  GrowInv
BY DEF Init, StorageInit, Record, GrowInv, HighStarts, Complete, IndexExact, Exists

\* An output that NoPhantom allows at a height is the one NoLost asks for.
LEMMA GrowComplete ==
  ASSUME StorageInv, GrowInv
  PROVE  NoLost /\ IndexExact
<1> SUFFICES ASSUME NEW a \in Account, Exists(a),
                    NEW h \in (accounts[a].start + 1)..accounts[a].scan
             PROVE  [height |-> h, block |-> ChainHash(h)] \in outputs[a]
  BY DEF NoLost, GrowInv
<1>1. PICK o \in outputs[a] : o.height = h
  BY DEF GrowInv, Complete
<1>2. o = [height |-> o.height, block |-> o.block]
  BY DEF StorageInv, TablesOK, OutputsOK
<1>3. o.block = ChainHash(h)
  BY <1>1 DEF StorageInv, NoPhantom
<1> QED
  BY <1>1, <1>2, <1>3

\* The invariant of the system without rescans and imports.
LEMMA GrowInductive ==
  ASSUME 2 <= Checkpoint
  PROVE  GrowSpec => [](Parts /\ GrowInv)
<1>1. Init => Parts /\ GrowInv
  BY InitParts, GrowInit
<1>2. Parts /\ GrowInv /\ [ScanNext \/ AccountNext]_vars => (Parts /\ GrowInv)'
  BY NextParts, StutterParts, GrowAllSteps DEF Next
<1> QED
  BY <1>1, <1>2, PTL DEF GrowSpec

\* Nothing is missed: whatever batches race, are stale, are refused or are
\* stored twice, and whatever the daemon reorganises, an account has the
\* outputs of every block from its start to its scan height.  Rescans and
\* imports are left out: ChangeHeight writes the index row at the requested
\* height although the record keeps the lower one, and the height may lie
\* below the checkpoint, where update compares no hashes.
THEOREM NothingLost ==
  ASSUME 2 <= Checkpoint
  PROVE  GrowSpec => []NoLost
<1>1. Parts /\ GrowInv => NoLost
  BY GrowComplete DEF Parts
<1> QED
  BY <1>1, GrowInductive, PTL

\* The index row of an account stays where update, change_status and
\* rollback_accounts look for it.
THEOREM IndexKept ==
  ASSUME 2 <= Checkpoint
  PROVE  GrowSpec => []IndexExact
<1>1. Parts /\ GrowInv => IndexExact
  BY DEF GrowInv
<1> QED
  BY <1>1, GrowInductive, PTL

\* No transaction credits an account with blocks that were not scanned for it.
THEOREM AdvancesCover ==
  ASSUME 2 <= Checkpoint
  PROVE  GrowSpec => AdvanceCovers
<1>1. Parts /\ GrowInv /\ [ScanNext \/ AccountNext]_vars => [Covers]_vars
  BY GrowAllSteps
<1>2. GrowSpec => [][Covers]_vars
  BY <1>1, GrowInductive, PTL DEF GrowSpec
<1>3. [][Covers]_vars => AdvanceCovers
  BY PTL DEF AdvanceCovers, Covers
<1> QED
  BY <1>2, <1>3, PTL

----------------------------------------------------------------------------
(* The ledger that Held is: every transaction is one of its steps.         *)

\* The chain in the next state.
LEMMA NextTable ==
  ASSUME StorageInv'
  PROVE  /\ LastBlock' \in Nat /\ Checkpoint <= LastBlock' /\ Checkpoint \in Nat
         /\ DOMAIN blocks' = {0} \cup (Checkpoint..LastBlock')
         /\ TopHash' \in [1..LastBlock' -> Tag]
         /\ \A h \in DOMAIN blocks' : blocks'[h] = Prefix(TopHash', h)
<1>1. LastBlock' \in Nat /\ Checkpoint <= LastBlock' /\ Checkpoint \in Nat
  BY StorageAssumption DEF StorageInv, TablesOK, BlocksOK
<1>2. blocks' = [h \in {0} \cup (Checkpoint..LastBlock') |-> blocks'[h]]
  BY DEF StorageInv, TablesOK, BlocksOK
<1>3. DOMAIN blocks' = {0} \cup (Checkpoint..LastBlock')
  BY <1>2
<1>4. TopHash' \in Hash(LastBlock')
  <2>1. LastBlock' \in DOMAIN blocks'
    BY <1>1, <1>3
  <2> QED
    BY <2>1 DEF StorageInv, TablesOK, BlocksOK, TopHash
<1>5. \A h \in DOMAIN blocks' : blocks'[h] = Prefix(TopHash', h)
  BY DEF StorageInv, ChainLinked, ChainHash, TopHash
<1> QED
  BY <1>1, <1>3, <1>4, <1>5 DEF Hash

\* And in this one.
LEMMA ThisTable ==
  ASSUME StorageInv
  PROVE  /\ LastBlock \in Nat /\ Checkpoint <= LastBlock /\ Checkpoint \in Nat
         /\ DOMAIN blocks = {0} \cup (Checkpoint..LastBlock)
         /\ TopHash \in [1..LastBlock -> Tag]
         /\ \A h \in DOMAIN blocks : blocks[h] = Prefix(TopHash, h)
<1>1. LastBlock \in DOMAIN blocks
  BY ChainHere
<1>2. TopHash \in Hash(LastBlock)
  BY <1>1 DEF StorageInv, TablesOK, BlocksOK, TopHash
<1>3. \A h \in DOMAIN blocks : blocks[h] = Prefix(TopHash, h)
  BY DEF StorageInv, ChainLinked, ChainHash, TopHash
<1> QED
  BY <1>2, <1>3, ChainHere DEF Hash

\* An account's outputs are what its span of the chain pays it: NoLost and
\* NoPhantom together.
LEMMA ExactHere ==
  ASSUME StorageInv, GrowInv
  PROVE  Held!Exact
<1> SUFFICES ASSUME NEW a \in Account
             PROVE  outputs[a] = Held!Paid(TopHash, Spans[a].from, Spans[a].upto)
  BY DEF Held!Exact
<1>1. CASE Exists(a)
  <2>1. Spans[a].from = accounts[a].start /\ Spans[a].upto = accounts[a].scan
    BY <1>1 DEF Spans
  <2>2. ASSUME NEW o \in outputs[a]
        PROVE  \E h \in (accounts[a].start + 1)..accounts[a].scan :
                 o = [height |-> h, block |-> Held!Block(TopHash, h)]
    <3>1. o = [height |-> o.height, block |-> o.block] /\ o.height \in Nat
      BY DEF StorageInv, TablesOK, OutputsOK
    <3>2. /\ accounts[a].start < o.height /\ o.height <= accounts[a].scan
          /\ o.block = ChainHash(o.height)
      BY DEF StorageInv, NoPhantom
    <3>3. accounts[a].start \in Nat /\ accounts[a].scan \in Nat
      BY DEF StorageInv, TablesOK, AccountsOK
    <3>4. ChainHash(o.height) = Held!Block(TopHash, o.height)
      BY DEF ChainHash, Held!Block, Prefix, TopHash
    <3> QED
      BY <3>1, <3>2, <3>3, <3>4
  <2>3. ASSUME NEW h \in (accounts[a].start + 1)..accounts[a].scan
        PROVE  [height |-> h, block |-> Held!Block(TopHash, h)] \in outputs[a]
    <3>1. [height |-> h, block |-> ChainHash(h)] \in outputs[a]
      BY <1>1, GrowComplete DEF NoLost
    <3> QED
      BY <3>1 DEF ChainHash, Held!Block, Prefix, TopHash
  <2> QED
    BY <2>1, <2>2, <2>3 DEF Held!Paid
<1>2. CASE ~ Exists(a)
  <2>1. Spans[a].from = -1 /\ Spans[a].upto = -1
    BY <1>2 DEF Spans
  <2>2. Held!Paid(TopHash, -1, -1) = {}
    BY DEF Held!Paid
  <2> QED
    BY <1>2, <2>1, <2>2 DEF StorageInv, NoOrphans
<1> QED
  BY <1>1, <1>2

\* Chains that begin alike pay alike there.
LEMMA PaidAlike ==
  ASSUME NEW c, NEW d, NEW k \in Nat, Held!Block(c, k) = Held!Block(d, k),
         NEW f \in Int, -1 <= f, NEW u \in Int, f = u \/ u <= k
  PROVE  Held!Paid(c, f, u) = Held!Paid(d, f, u)
<1>1. ASSUME NEW h \in (f + 1)..u PROVE Held!Block(c, h) = Held!Block(d, h)
  <2>1. h \in Nat /\ h <= k
    OBVIOUS
  <2>2. Prefix(c, k) = Prefix(d, k)
    BY DEF Held!Block, Prefix
  <2>3. Prefix(c, h) = Prefix(d, h)
    BY <2>1, <2>2, PrefixAncestor
  <2> QED
    BY <2>3 DEF Held!Block, Prefix
<1> QED
  BY <1>1 DEF Held!Paid

\* A longer span is the shorter one and the rest.
LEMMA PaidFurther ==
  ASSUME NEW c, NEW f \in Int, NEW u \in Int, NEW h \in Int, f <= u, u <= h
  PROVE  Held!Paid(c, f, h) = Held!Paid(c, f, u) \cup Held!Paid(c, u, h)
<1>1. (f + 1)..h = ((f + 1)..u) \cup ((u + 1)..h)
  OBVIOUS
<1> QED
  BY <1>1 DEF Held!Paid

\* What a span pays up to a height.
LEMMA PaidBelow ==
  ASSUME NEW c, NEW f \in Int, NEW u \in Int, NEW k \in Int,
         NEW g, g = (IF k < u /\ k < f THEN k ELSE f), NEW v, v = (IF k < u THEN k ELSE u)
  PROVE  {o \in Held!Paid(c, f, u) : o.height <= k} = Held!Paid(c, g, v)
<1>1. (g + 1)..v = {h \in (f + 1)..u : h <= k}
  OBVIOUS
<1>2. {o \in Held!Paid(c, f, u) : o.height <= k}
        = {[height |-> h, block |-> Held!Block(c, h)] : h \in {i \in (f + 1)..u : i <= k}}
  BY DEF Held!Paid
<1>3. Held!Paid(c, g, v) = {[height |-> h, block |-> Held!Block(c, h)] : h \in (g + 1)..v}
  BY DEF Held!Paid
<1> QED
  BY <1>1, <1>2, <1>3

SpanRange(s) == s.from \in Int /\ s.upto \in Int /\ -1 <= s.from /\ s.from <= s.upto

LEMMA SpanTypes ==
  ASSUME StorageInv, NEW a \in Account
  PROVE  SpanRange(Spans[a])
<1>1. accounts[a].start \in Nat /\ accounts[a].scan \in Nat /\ accounts[a].start <= accounts[a].scan
  BY DEF StorageInv, TablesOK, AccountsOK
<1> QED
  BY <1>1 DEF Spans, SpanRange

\* A span that has grown ends on the chain.
LEMMA SpanReached ==
  ASSUME StorageInv, GrowInv, NEW a \in Account
  PROVE  Spans[a].from = Spans[a].upto \/ Spans[a].upto <= LastBlock
<1>1. CASE Exists(a)
  <2>1. /\ accounts[a].start \in Nat /\ accounts[a].scan \in Nat
        /\ accounts[a].start <= accounts[a].scan
    BY DEF StorageInv, TablesOK, AccountsOK
  <2>2. Spans[a].from = accounts[a].start /\ Spans[a].upto = accounts[a].scan
    BY <1>1 DEF Spans
  <2>3. ASSUME accounts[a].start # accounts[a].scan PROVE accounts[a].scan <= LastBlock
    <3>1. accounts[a].scan \in (accounts[a].start + 1)..accounts[a].scan
      BY <2>1, <2>3
    <3>2. PICK o \in outputs[a] : o.height = accounts[a].scan
      BY <1>1, <3>1 DEF GrowInv, Complete
    <3> QED
      BY <3>2 DEF StorageInv, NoPhantom
  <2> QED
    BY <2>2, <2>3
<1>2. CASE ~ Exists(a)
  BY <1>2 DEF Spans
<1> QED
  BY <1>1, <1>2

\* The outputs of both states, and their spans.
LEMMA OutputsHere ==
  ASSUME StorageInv', Held!Exact'
  PROVE  /\ outputs' = [a \in Account |-> outputs'[a]]
         /\ \A a \in Account : outputs'[a] = Held!Paid(TopHash', Spans'[a].from, Spans'[a].upto)
<1>1. outputs' = [a \in Account |-> outputs'[a]]
  BY DEF StorageInv, TablesOK, OutputsOK
<1>2. \A a \in Account : outputs'[a] = Held!Paid(TopHash', Spans'[a].from, Spans'[a].upto)
  BY DEF Held!Exact
<1> QED
  BY <1>1, <1>2

\* The chain grows, or stays, and the accounts S are scanned up to h.
LEMMA LedgerGrows ==
  ASSUME StorageInv, StorageInv', GrowInv, Held!Exact, Held!Exact',
         LastBlock \in DOMAIN blocks', blocks'[LastBlock] = blocks[LastBlock],
         NEW S \in SUBSET Account, NEW h \in 0..LastBlock',
         \A a \in S : Exists(a) /\ Spans[a].upto < h,
         Spans' = [a \in Account |-> IF a \in S THEN [Spans[a] EXCEPT !.upto = h] ELSE Spans[a]]
  PROVE  Held!Grow(S, h)
<1>1. /\ LastBlock \in Nat /\ LastBlock' \in Nat /\ LastBlock <= LastBlock'
      /\ TopHash' \in [1..LastBlock' -> Tag] /\ Prefix(TopHash', LastBlock) = TopHash
  <2>1. /\ LastBlock' \in Nat /\ Checkpoint \in Nat /\ DOMAIN blocks' = {0} \cup (Checkpoint..LastBlock')
        /\ TopHash' \in [1..LastBlock' -> Tag]
        /\ blocks'[LastBlock] = Prefix(TopHash', LastBlock)
    BY NextTable
  <2> QED
    BY <2>1, ThisTable DEF TopHash
<1>2. Held!Block(TopHash', LastBlock) = TopHash /\ Held!Block(TopHash, LastBlock) = TopHash
  <2>1. Prefix(TopHash, LastBlock) = TopHash
    BY ThisTable DEF Prefix
  <2> QED
    BY <1>1, <2>1 DEF Held!Block, Prefix
<1>3. ASSUME NEW a \in S PROVE Spans[a] # Held!NoSpan /\ Spans[a].upto < h
  <2>1. Exists(a) /\ accounts[a].start \in Nat
    BY DEF StorageInv, TablesOK, AccountsOK
  <2>2. Spans[a].from = accounts[a].start
    BY <2>1 DEF Spans
  <2> QED
    BY <2>1, <2>2 DEF Held!NoSpan
<1>4. ASSUME NEW a \in Account
      PROVE  outputs'[a] = IF a \in S THEN outputs[a] \cup Held!Paid(TopHash', Spans[a].upto, h)
                           ELSE outputs[a]
  <2> DEFINE f == Spans[a].from
             u == Spans[a].upto
  <2>1. f \in Int /\ u \in Int /\ -1 <= f /\ f <= u
    BY SpanTypes DEF SpanRange
  <2>2. f = u \/ u <= LastBlock
    BY SpanReached
  <2>3. Held!Paid(TopHash', f, u) = outputs[a]
    <3>1. Held!Paid(TopHash', f, u) = Held!Paid(TopHash, f, u)
      <4>1. PICK c, d, x, y, k : c = TopHash' /\ d = TopHash /\ x = f /\ y = u /\ k = LastBlock
        OBVIOUS
      <4>2. /\ k \in Nat /\ Held!Block(c, k) = Held!Block(d, k)
            /\ x \in Int /\ -1 <= x /\ y \in Int /\ (x = y \/ y <= k)
        BY <1>1, <1>2, <2>1, <2>2, <4>1
      <4>3. Held!Paid(c, x, y) = Held!Paid(d, x, y)
        BY <4>2, PaidAlike
      <4> HIDE DEF f, u
      <4> QED
        BY <4>1, <4>3
    <3> QED
      BY <3>1 DEF Held!Exact
  <2>4. outputs'[a] = Held!Paid(TopHash', Spans'[a].from, Spans'[a].upto)
    BY OutputsHere
  <2>5. CASE a \in S
    <3>1. Spans'[a] = [Spans[a] EXCEPT !.upto = h]
      BY <2>5
    <3>2. Spans'[a].from = f /\ Spans'[a].upto = h
      BY <3>1 DEF Spans
    <3>3. h \in Int /\ u <= h
      BY <1>1, <2>1, <2>5
    <3>4. Held!Paid(TopHash', f, h) = Held!Paid(TopHash', f, u) \cup Held!Paid(TopHash', u, h)
      <4>1. PICK c, x, y : c = TopHash' /\ x = f /\ y = u
        OBVIOUS
      <4>2. x \in Int /\ y \in Int /\ x <= y /\ y <= h
        BY <2>1, <3>3, <4>1
      <4>3. Held!Paid(c, x, h) = Held!Paid(c, x, y) \cup Held!Paid(c, y, h)
        BY <3>3, <4>2, PaidFurther
      <4> HIDE DEF f, u
      <4> QED
        BY <4>1, <4>3
    <3> QED
      BY <2>3, <2>4, <2>5, <3>2, <3>4
  <2>6. CASE a \notin S
    <3>1. Spans'[a] = Spans[a]
      BY <2>6
    <3> QED
      BY <2>3, <2>4, <2>6, <3>1
  <2> QED
    BY <2>5, <2>6
<1>5. outputs' = [a \in Account |-> IF a \in S THEN outputs[a] \cup Held!Paid(TopHash', Spans[a].upto, h)
                                    ELSE outputs[a]]
  BY <1>4, OutputsHere
<1> QED
  BY <1>1, <1>2, <1>3, <1>5 DEF Held!Grow

\* The blocks above k are replaced.
LEMMA LedgerDetached ==
  ASSUME StorageInv, StorageInv', Held!Exact, Held!Exact',
         NEW k \in Nat, k < LastBlock, k < LastBlock',
         Prefix(TopHash', k) = Prefix(TopHash, k), Prefix(TopHash', k + 1) # Prefix(TopHash, k + 1),
         Spans' = [a \in Account |->
                     IF k < Spans[a].upto
                     THEN [from |-> IF k < Spans[a].from THEN k ELSE Spans[a].from, upto |-> k]
                     ELSE Spans[a]]
  PROVE  Held!Detach(k)
<1>1. /\ LastBlock \in Nat /\ LastBlock' \in Nat /\ TopHash' \in [1..LastBlock' -> Tag]
  BY ThisTable, NextTable
<1>2. Held!Block(TopHash', k) = Held!Block(TopHash, k)
  BY DEF Held!Block, Prefix
<1>3. TopHash'[k + 1] # TopHash[k + 1]
  <2> SUFFICES ASSUME TopHash'[k + 1] = TopHash[k + 1]
               PROVE  Prefix(TopHash', k + 1) = Prefix(TopHash, k + 1)
    OBVIOUS
  <2>1. ASSUME NEW i \in 1..k + 1 PROVE TopHash'[i] = TopHash[i]
    <3>1. CASE i = k + 1
      BY <3>1
    <3>2. CASE i # k + 1
      <4>1. i \in 1..k
        BY <3>2
      <4>2. Prefix(TopHash', k)[i] = TopHash'[i] /\ Prefix(TopHash, k)[i] = TopHash[i]
        BY <4>1 DEF Prefix
      <4> QED
        BY <4>2
    <3> QED
      BY <3>1, <3>2
  <2> QED
    BY <2>1 DEF Prefix
<1>4. ASSUME NEW a \in Account PROVE outputs'[a] = {o \in outputs[a] : o.height <= k}
  <2>1. PICK f, u : f = Spans[a].from /\ u = Spans[a].upto
    OBVIOUS
  <2>2. f \in Int /\ u \in Int /\ -1 <= f /\ f <= u
    BY <2>1, SpanTypes DEF SpanRange
  <2>3. PICK g, v : /\ g = (IF k < u /\ k < f THEN k ELSE f)
                    /\ v = (IF k < u THEN k ELSE u)
    OBVIOUS
  <2>4. Spans'[a].from = g /\ Spans'[a].upto = v
    <3>1. CASE k < u
      <4>1. Spans'[a] = [from |-> IF k < f THEN k ELSE f, upto |-> k]
        BY <2>1, <3>1
      <4> QED
        BY <2>3, <3>1, <4>1
    <3>2. CASE ~ k < u
      <4>1. Spans'[a] = Spans[a]
        BY <2>1, <3>2
      <4> QED
        BY <2>1, <2>3, <3>2, <4>1
    <3> QED
      BY <3>1, <3>2
  <2>5. g \in Int /\ v \in Int /\ -1 <= g /\ v <= k
    BY <2>2, <2>3
  <2>6. Held!Paid(TopHash', g, v) = Held!Paid(TopHash, g, v)
    BY <1>2, <2>5, PaidAlike
  <2>7. {o \in Held!Paid(TopHash, f, u) : o.height <= k} = Held!Paid(TopHash, g, v)
    BY <2>2, <2>3, PaidBelow
  <2>8. outputs[a] = Held!Paid(TopHash, f, u)
    BY <2>1 DEF Held!Exact
  <2>9. outputs'[a] = Held!Paid(TopHash', g, v)
    BY <2>4, OutputsHere
  <2> QED
    BY <2>6, <2>7, <2>8, <2>9
<1>5. outputs' = [a \in Account |-> {o \in outputs[a] : o.height <= k}]
  BY <1>4, OutputsHere
<1> QED
  BY <1>1, <1>2, <1>3, <1>5 DEF Held!Detach

LedgerStep == Held!Next \/ UNCHANGED Held!ledger

\* What the steps below start from and lead to.
Around ==
  /\ StorageInv /\ GrowInv /\ Held!Exact
  /\ StorageInv' /\ Held!Exact'

\* Steps that move no height.
LEMMA LedgerQuiet ==
  ASSUME UNCHANGED <<blocks, outputs>>,
         \A a \in Account : /\ Exists(a)' <=> Exists(a)
                            /\ accounts'[a].start = accounts[a].start
                            /\ accounts'[a].scan = accounts[a].scan
  PROVE  LedgerStep
<1>1. LastBlock' = LastBlock
  BY DEF LastBlock
<1>2. TopHash' = TopHash
  BY <1>1 DEF TopHash
<1>3. Spans' = Spans
  BY DEF Spans
<1> QED
  BY <1>1, <1>2, <1>3 DEF LedgerStep, Held!ledger

\* A new account is registered.
LEMMA LedgerAdd ==
  ASSUME StorageInv, NEW a \in Account, ~ Exists(a), NEW s \in Status, NEW h \in Nat,
         DoAddAccount(a, s, h), UNCHANGED <<blocks, outputs>>
  PROVE  LedgerStep
<1>1. /\ accounts'[a] = Record(s, h, h)
      /\ \A x \in Account : x # a => accounts'[x] = accounts[x]
  BY DEF DoAddAccount, StorageInv, TablesOK, AccountsOK
<1>2. Exists(a)' /\ accounts'[a].start = h /\ accounts'[a].scan = h
  BY <1>1 DEF Exists, Record, Status
<1>3. Spans'[a] = [from |-> h, upto |-> h]
  BY <1>2 DEF Spans
<1>4. \A x \in Account : x # a => Spans'[x] = Spans[x]
  BY <1>1 DEF Spans, Exists
<1>5. Spans' = [Spans EXCEPT ![a] = [from |-> h, upto |-> h]]
  BY <1>3, <1>4 DEF Spans
<1>6. Spans[a] = Held!NoSpan
  BY DEF Spans, Held!NoSpan
<1>7. Spans'[a].from = h
  BY <1>3
<1>8. LastBlock' = LastBlock /\ TopHash' = TopHash
  BY DEF LastBlock, TopHash
<1>9. Held!Register(a)
  BY <1>5, <1>6, <1>7, <1>8, Zenon DEF Held!Register
<1> QED
  BY <1>9, Zenon DEF LedgerStep, Held!Next

\* The outputs above a fork are taken from every account that has gone further.
LEMMA LedgerRollback ==
  ASSUME Around, NEW K \in Nat, Checkpoint < K, RollbackAccounts(K),
         K \in DOMAIN blocks, K \in DOMAIN blocks', blocks'[K] # blocks[K],
         K - 1 \in DOMAIN blocks, K - 1 \in DOMAIN blocks', blocks'[K - 1] = blocks[K - 1]
  PROVE  LedgerStep
<1>1. PICK k : k = K - 1
  OBVIOUS
<1>2. /\ k \in Nat /\ k + 1 = K /\ Checkpoint <= k /\ Checkpoint \in Nat
      /\ Most(K, 1) - 1 = k
  BY <1>1, StorageAssumption DEF Most
<1>3. /\ k < LastBlock /\ Prefix(TopHash, k) = blocks[k] /\ Prefix(TopHash, K) = blocks[K]
      /\ LastBlock \in Nat
  BY <1>1, <1>2, ThisTable DEF Around
<1>4. /\ k < LastBlock' /\ Prefix(TopHash', k) = blocks'[k] /\ Prefix(TopHash', K) = blocks'[K]
      /\ LastBlock' \in Nat
  BY <1>1, <1>2, NextTable DEF Around
<1>5. accounts' = [a \in Account |->
        IF a \in RolledBack(K)
        THEN Record(accounts[a].status, Least(k, accounts[a].start), k) ELSE accounts[a]]
  BY <1>2 DEF RollbackAccounts
<1>6. ASSUME NEW a \in Account
      PROVE  Spans'[a] = IF k < Spans[a].upto
                         THEN [from |-> IF k < Spans[a].from THEN k ELSE Spans[a].from, upto |-> k]
                         ELSE Spans[a]
  <2>1. Exists(a)' <=> Exists(a)
    BY <1>5 DEF Exists, Record
  <2>2. CASE ~ Exists(a)
    <3>1. Spans[a].upto = -1 /\ Spans'[a] = Spans[a]
      BY <2>1, <2>2 DEF Spans
    <3> QED
      BY <1>2, <3>1
  <2>3. CASE Exists(a)
    <3>1. accounts[a].start \in Nat /\ accounts[a].scan \in Nat
      BY DEF Around, StorageInv, TablesOK, AccountsOK
    <3>2. Spans[a].from = accounts[a].start /\ Spans[a].upto = accounts[a].scan
      BY <2>3 DEF Spans
    <3>3. a \in RolledBack(K) <=> k < accounts[a].scan
      <4>1. PICK r \in by_height : RowsOf(a) = {r}
        BY <2>3 DEF Around, StorageInv, IndexOneRow
      <4>2. Indexed(a)
        BY <2>3 DEF Around, GrowInv, IndexExact
      <4>3. r.height = accounts[a].scan
        BY <4>1, <4>2 DEF Indexed
      <4>4. a \in RolledBack(K) <=> accounts[a].scan >= K
        BY <4>1, <4>3 DEF RolledBack
      <4> QED
        BY <1>2, <3>1, <4>4
    <3>4. CASE k < accounts[a].scan
      <4>1. accounts'[a].start = Least(k, accounts[a].start) /\ accounts'[a].scan = k
        BY <1>5, <3>3, <3>4 DEF Record
      <4>2. Least(k, accounts[a].start) = IF k < accounts[a].start THEN k ELSE accounts[a].start
        BY <1>2, <3>1 DEF Least
      <4>3. Spans'[a] = [from |-> accounts'[a].start, upto |-> accounts'[a].scan]
        BY <2>1, <2>3 DEF Spans
      <4> QED
        BY <3>2, <3>4, <4>1, <4>2, <4>3
    <3>5. CASE ~ k < accounts[a].scan
      <4>1. accounts'[a] = accounts[a]
        BY <1>5, <3>3, <3>5
      <4>2. Spans'[a] = Spans[a]
        BY <2>1, <2>3, <4>1 DEF Spans
      <4> QED
        BY <3>2, <3>5, <4>2
    <3> QED
      BY <3>4, <3>5
  <2> QED
    BY <2>2, <2>3
<1>7. Spans' = [a \in Account |-> IF k < Spans[a].upto
                  THEN [from |-> IF k < Spans[a].from THEN k ELSE Spans[a].from, upto |-> k]
                  ELSE Spans[a]]
  <2>1. Spans' = [a \in Account |-> Spans'[a]]
    BY DEF Spans
  <2> QED
    BY <1>6, <2>1
<1>8. Held!Detach(k)
  BY <1>1, <1>2, <1>3, <1>4, <1>7, LedgerDetached DEF Around
<1>9. k \in Checkpoint..LastBlock - 1
  BY <1>2, <1>3
<1> QED
  BY <1>8, <1>9, Zenon DEF LedgerStep, Held!Next

\* An answer of get_hashes_fast is stored.
LEMMA LedgerSync ==
  ASSUME Parts, Around, sync_quick
  PROVE  LedgerStep
<1>1. PICK s \in SyncStarts : \E n \in 2..(tip - s + 1) :
        \/ sync_chain_append(s, n, DaemonHashes(s, n))
        \/ sync_chain_reorg(s, n, DaemonHashes(s, n))
  BY DEF sync_quick
<1>2. PICK n \in 2..(tip - s + 1) :
        \/ sync_chain_append(s, n, DaemonHashes(s, n))
        \/ sync_chain_reorg(s, n, DaemonHashes(s, n))
  BY <1>1
<1>3. PICK hs : hs = DaemonHashes(s, n)
  OBVIOUS
<1>4. s \in Nat /\ tip \in Nat /\ FirstMatches(s, hs)
  BY <1>2, <1>3, ChainHere
     DEF Parts, EnvInv, sync_chain_append, sync_chain_reorg, FirstMatches
<1>5. n \in Nat /\ 2 <= n /\ hs = [i \in 0..(n - 1) |-> Prefix(daemon, s + i)]
  BY <1>3, <1>4 DEF DaemonHashes
<1>6. /\ LastBlock \in Nat /\ Checkpoint \in Nat /\ Checkpoint <= LastBlock
      /\ DOMAIN blocks = {0} \cup (Checkpoint..LastBlock) /\ ChainOn(blocks, LastBlock)
  BY ChainHere DEF Around
<1>7. CASE sync_chain_append(s, n, hs)
  <2>1. LastBlock \in DOMAIN blocks' /\ blocks'[LastBlock] = blocks[LastBlock]
    <3>1. LastBlock \in DOMAIN blocks
      BY <1>6
    <3> QED
      BY <1>7, <3>1 DEF sync_chain_append
  <2>2. Spans' = Spans
    BY <1>7 DEF sync_chain_append, Spans, Exists
  <2>3. Spans' = [a \in Account |-> IF a \in {} THEN [Spans[a] EXCEPT !.upto = 0] ELSE Spans[a]]
    BY <2>2 DEF Spans
  <2>4. 0 \in 0..LastBlock' /\ {} \in SUBSET Account /\ \A a \in {} : Exists(a) /\ Spans[a].upto < 0
    BY NextTable DEF Around
  <2>5. Held!Grow({}, 0)
    BY <2>1, <2>3, <2>4, LedgerGrows DEF Around
  <2> QED
    BY <2>4, <2>5, Zenon DEF LedgerStep, Held!Next
<1>8. CASE sync_chain_reorg(s, n, hs)
  <2>1. PICK k \in Mismatch(s, n, hs) :
          /\ \A j \in Mismatch(s, n, hs) : k <= j
          /\ Checkpoint < s + k
          /\ blocks' = [h \in {g \in DOMAIN blocks : g < s + k} \cup ((s + k)..(s + n - 1)) |->
                          IF h < s + k THEN blocks[h] ELSE hs[h - s]]
          /\ RollbackAccounts(s + k)
    BY <1>8 DEF sync_chain_reorg
  <2>2. \A j \in Nat : 1 <= j => RowAfter(s, j) = s + j
    BY <1>4, <1>5, <1>6, <2>1, WalkAligned
  <2>3. /\ k \in 1..(n - 1) /\ RowAfter(s, k) \in DOMAIN blocks
        /\ blocks[RowAfter(s, k)] # hs[k]
    BY <2>1 DEF Mismatch
  <2>4. PICK K : K = s + k
    OBVIOUS
  <2>5. /\ K \in Nat /\ Checkpoint < K /\ K \in DOMAIN blocks /\ blocks[K] # hs[k]
        /\ K <= s + n - 1 /\ K - s = k /\ ~ K < K
    BY <1>4, <1>5, <2>1, <2>2, <2>3, <2>4
  <2>6. K \in DOMAIN blocks' /\ blocks'[K] = hs[k]
    BY <2>1, <2>4, <2>5
  <2>7. K - 1 \in DOMAIN blocks /\ K - 1 < K
    BY <1>6, <2>5
  <2>8. K - 1 \in DOMAIN blocks' /\ blocks'[K - 1] = blocks[K - 1]
    BY <2>1, <2>4, <2>7
  <2> QED
    BY <2>1, <2>4, <2>5, <2>6, <2>7, <2>8, LedgerRollback
<1> QED
  BY <1>2, <1>3, <1>7, <1>8

\* A batch is stored: the accounts that it moves are scanned to its last block.
LEMMA LedgerStore ==
  ASSUME 2 <= Checkpoint, Parts, Around, NEW t \in Thread, store(t)
  PROVE  LedgerStep
<1>1. PICK us, b : us = thread[t].users /\ b = thread[t].batch
  OBVIOUS
<1>2. PICK f \in DOMAIN us :
        /\ Storing(t, f)
        /\ update(us[f], BatchLength(b), BatchChain(b), us,
                  [a \in DOMAIN us |-> Found(b, us[a])])
  BY <1>1 DEF store, StoreHeight, StoreLength, StoreChain
<1>3. /\ IsUsers(us) /\ BatchGood(b) /\ 1 <= b.start /\ b.start < b.last /\ HeldOK(us)
      /\ \A a \in DOMAIN us : b.start <= Most(1, us[a])
  BY <1>1, <1>2 DEF Storing, Parts, ThreadsInv, ThreadGood
<1>4. PICK m, n : m = us[f] /\ n = BatchLength(b)
  OBVIOUS
<1>5. PICK u : u = LastUpdate(m, n)
  OBVIOUS
<1>6. PICK S : S = Stored(m, n, us)
  OBVIOUS
<1>7. /\ ~ UpdateBad(m, n, BatchChain(b)) /\ ~ UpdateReorg(m, n, BatchChain(b))
      /\ blocks' = AppendChain(m, n, BatchChain(b))
      /\ accounts' = [a \in Account |->
           IF a \in S THEN Record(accounts[a].status, accounts[a].start, u) ELSE accounts[a]]
  BY <1>2, <1>4, <1>5, <1>6 DEF update
<1>8. /\ LastBlock \in Nat /\ Checkpoint \in Nat /\ Checkpoint <= LastBlock
      /\ DOMAIN blocks = {0} \cup (Checkpoint..LastBlock)
  BY ChainHere DEF Around
<1>9. m \in Nat /\ n \in Nat /\ 1 <= n /\ u \in Nat /\ m <= u /\ Checkpoint <= u
  <2>1. /\ m \in Nat /\ b.start \in Nat /\ b.last \in Nat /\ f \in Account
        /\ b.start <= Most(1, m) /\ b.top \in Hash(b.last) /\ OnCheckpoint(b.top, b.last)
    BY <1>2, <1>3, <1>4 DEF IsUsers, BatchGood, IsBatch
  <2>2. n \in Nat /\ 1 <= n
    BY <1>3, <1>4, <1>7, <2>1, BatchAligned DEF Around
  <2>3. u \in Nat /\ m <= u
    BY <1>5, <2>1, <2>2 DEF LastUpdate
  <2>4. accounts[f].start \in Nat /\ Checkpoint <= accounts[f].start /\ accounts[f].start <= m
    BY <1>2, <1>3, <1>4, <2>1 DEF HeldOK, Around, StorageInv, TablesOK, AccountsOK, GrowInv, HighStarts
  <2> QED
    BY <1>8, <2>1, <2>2, <2>3, <2>4
<1>10. /\ LastBlock \in DOMAIN blocks' /\ blocks'[LastBlock] = blocks[LastBlock]
       /\ u \in DOMAIN blocks'
  <2>1. blocks' = [h \in DOMAIN blocks \cup ((LastSame(m, n) + 1)..u) |->
                     IF h \in DOMAIN blocks THEN blocks[h] ELSE BatchChain(b)[h - m]]
    BY <1>5, <1>7, <1>9 DEF AppendChain
  <2>2. LastBlock \in DOMAIN blocks
    BY <1>8
  <2>3. LastSame(m, n) = IF LastBlock <= u THEN LastBlock ELSE u
    BY <1>5 DEF LastSame, Least
  <2>4. u \in DOMAIN blocks \cup ((LastSame(m, n) + 1)..u)
    BY <1>8, <1>9, <2>3
  <2> QED
    BY <2>1, <2>2, <2>4
<1>11. u \in 0..LastBlock'
  <2>1. DOMAIN blocks' = {0} \cup (Checkpoint..LastBlock') /\ LastBlock' \in Nat
    BY NextTable DEF Around
  <2> QED
    BY <1>8, <1>9, <1>10, <2>1
<1>12. /\ S \in SUBSET Account
       /\ \A a \in S : Exists(a) /\ accounts[a].scan < u
  BY <1>3, <1>5, <1>6 DEF Stored, Updated, IsUsers
<1>13. \A a \in S : Exists(a) /\ Spans[a].upto < u
  BY <1>12 DEF Spans
<1>14. ASSUME NEW a \in Account
       PROVE  Spans'[a] = IF a \in S THEN [Spans[a] EXCEPT !.upto = u] ELSE Spans[a]
  <2>1. CASE a \in S
    <3>1. Exists(a) /\ Exists(a)' /\ accounts'[a].start = accounts[a].start /\ accounts'[a].scan = u
      BY <1>7, <1>12, <2>1 DEF Exists, Record
    <3>2. /\ Spans[a] = [from |-> accounts[a].start, upto |-> accounts[a].scan]
          /\ Spans'[a] = [from |-> accounts[a].start, upto |-> u]
      BY <3>1 DEF Spans
    <3> QED
      BY <2>1, <3>2
  <2>2. CASE a \notin S
    <3>1. accounts'[a] = accounts[a]
      BY <1>7, <2>2
    <3> QED
      BY <2>2, <3>1 DEF Spans, Exists
  <2> QED
    BY <2>1, <2>2
<1>15. Spans' = [a \in Account |-> IF a \in S THEN [Spans[a] EXCEPT !.upto = u] ELSE Spans[a]]
  <2>1. Spans' = [a \in Account |-> Spans'[a]]
    BY DEF Spans
  <2> QED
    BY <1>14, <2>1
<1>16. Held!Grow(S, u)
  BY <1>10, <1>11, <1>12, <1>13, <1>15, LedgerGrows DEF Around
<1> QED
  BY <1>11, <1>12, <1>16, Zenon DEF LedgerStep, Held!Next

\* Registration, status and requests.
LEMMA LedgerAccount ==
  ASSUME Around, NEW a \in Account,
         \/ admin_add(a) \/ admin_status(a)
         \/ login_request(a) \/ admin_accept_create(a) \/ admin_reject(a)
  PROVE  LedgerStep
<1>0. StorageInv /\ LastBlock \in Nat
  BY ChainHere DEF Around
<1>1. ASSUME UNCHANGED <<blocks, accounts, outputs>> PROVE LedgerStep
  BY <1>1, LedgerQuiet DEF Exists
<1>2. CASE admin_add(a)
  <2>1. PICK s \in AddedStatus : add_account(a, s)
    BY <1>2 DEF admin_add
  <2>2. /\ s \in Status /\ ~ Exists(a) /\ DoAddAccount(a, s, LastBlock)
        /\ UNCHANGED <<blocks, outputs>>
    BY <2>1 DEF AddedStatus, Status, add_account
  <2> QED
    BY <1>0, <2>2, LedgerAdd
<1>3. CASE admin_status(a)
  <2>1. PICK s \in Status : change_status(a, s)
    BY <1>3 DEF admin_status
  <2>2. /\ accounts'[a] = Record(s, accounts[a].start, accounts[a].scan)
        /\ \A x \in Account : x # a => accounts'[x] = accounts[x]
        /\ Exists(a) /\ UNCHANGED <<blocks, outputs>>
    BY <1>0, <2>1 DEF change_status, StorageInv, TablesOK, AccountsOK
  <2>3. \A x \in Account : /\ Exists(x)' <=> Exists(x)
                           /\ accounts'[x].start = accounts[x].start
                           /\ accounts'[x].scan = accounts[x].scan
    BY <2>2 DEF Exists, Record, Status
  <2> QED
    BY <2>2, <2>3, LedgerQuiet
<1>4. CASE login_request(a)
  BY <1>1, <1>4 DEF login_request, creation_request
<1>5. CASE admin_accept_create(a)
  <2>1. create_accounts(a)
    BY <1>5 DEF admin_accept_create
  <2>2. creates[a] \in Nat /\ UNCHANGED <<blocks, outputs>>
    BY <1>0, <2>1 DEF create_accounts, StorageInv, TablesOK
  <2>3. CASE Exists(a)
    BY <1>1, <2>1, <2>2, <2>3 DEF create_accounts
  <2>4. CASE ~ Exists(a)
    <3>1. DoAddAccount(a, "active", creates[a]) /\ "active" \in Status
      BY <2>1, <2>4 DEF create_accounts, Status
    <3> QED
      BY <1>0, <2>2, <2>4, <3>1, LedgerAdd
  <2> QED
    BY <2>3, <2>4
<1>6. CASE admin_reject(a)
  BY <1>1, <1>6 DEF admin_reject, reject_requests
<1> QED
  BY <1>2, <1>3, <1>4, <1>5, <1>6

\* Every step that neither rescans nor imports is one of the ledger, or none.
LEMMA LedgerAllSteps ==
  ASSUME 2 <= Checkpoint, Parts, Around, ScanNext \/ AccountNext \/ UNCHANGED vars
  PROVE  LedgerStep
<1>1. ASSUME UNCHANGED storage_vars PROVE LedgerStep
  BY <1>1, LedgerQuiet DEF Exists, storage_vars
<1>2. CASE DaemonNext
  BY <1>1, <1>2 DEF DaemonNext, Mine, Reorg
<1>3. CASE MainNext
  <2>1. CASE sync_quick
    BY <2>1, LedgerSync
  <2>2. CASE ~ sync_quick
    BY <1>1, <1>3, <2>2 DEF MainNext, sync_refused, sync_done, sync_timeout, load_none,
                            check_loop, join, crash
  <2> QED
    BY <2>1, <2>2
<1>4. ASSUME NEW t \in Thread, ThreadNext(t) PROVE LedgerStep
  <2>1. CASE store(t)
    BY <2>1, LedgerStore
  <2>2. CASE ~ store(t)
    BY <1>1, <1>4, <2>2 DEF ThreadNext, fetch_failed, fetch_timeout, fetch_idle, fetch,
                            store_reorg, store_failed, wait_for_accounts, leave
  <2> QED
    BY <2>1, <2>2
<1>5. CASE check_users \/ do_replace_users \/ remote_change
  BY <1>1, <1>5 DEF check_users, do_replace_users, remote_change, ReplaceAll
<1>6. CASE UNCHANGED vars
  BY <1>1, <1>6 DEF vars
<1> QED
  BY <1>2, <1>3, <1>4, <1>5, <1>6, LedgerAccount DEF ScanNext, AccountNext

\* A new database is a new ledger.
LEMMA LedgerInit ==
  ASSUME Init
  PROVE  Held!Init
<1>1. StorageInit /\ StorageInv
  BY StorageInitInv DEF Init
<1>2. /\ LastBlock \in Nat /\ Checkpoint \in Nat /\ Checkpoint <= LastBlock
      /\ DOMAIN blocks = {0} \cup (Checkpoint..LastBlock)
  BY <1>1, ChainHere
<1>3. blocks = [h \in {0, Checkpoint} |-> Prefix(CheckpointHash, h)]
  BY <1>1 DEF StorageInit
<1>4. LastBlock = Checkpoint
  BY <1>2, <1>3
<1>5. TopHash = [i \in 1..Checkpoint |-> MainTag]
  BY <1>3, <1>4 DEF TopHash, Prefix, CheckpointHash
<1>6. /\ accounts = [a \in Account |-> Record("none", 0, 0)]
      /\ outputs = [a \in Account |-> {}]
  BY <1>1 DEF StorageInit
<1>7. Spans = [a \in Account |-> Held!NoSpan]
  BY <1>6 DEF Spans, Exists, Record, Held!NoSpan
<1> QED
  BY <1>4, <1>5, <1>6, <1>7, Zenon DEF Held!Init

\* In every state an account has the outputs that its span of the chain pays
\* it and no other: sync_chain, update and the requests keep the tables
\* accounts, blocks and outputs together.
THEOREM HeldExactly ==
  ASSUME 2 <= Checkpoint
  PROVE  GrowSpec => []Held!Exact
<1>1. Parts /\ GrowInv => Held!Exact
  BY ExactHere DEF Parts
<1> QED
  BY <1>1, GrowInductive, PTL

\* The scanner implements the ledger: every transaction is one step of it or
\* none.  In particular an account that is scanned further in a transaction
\* gets all outputs of the blocks between and no other in that transaction,
\* and a fork is taken from all accounts in the transaction that replaces the
\* blocks.
THEOREM LedgerKept ==
  ASSUME 2 <= Checkpoint
  PROVE  GrowSpec => Ledgered
<1>1. Init => Held!Init
  BY LedgerInit
<1>2. Parts /\ GrowInv => Held!Exact
  BY ExactHere DEF Parts
<1>3. /\ Parts /\ GrowInv /\ Held!Exact
      /\ (Parts /\ GrowInv /\ Held!Exact)'
      /\ [ScanNext \/ AccountNext]_vars
      => [Held!Next]_(Held!ledger)
  <2> SUFFICES ASSUME Parts, GrowInv, Held!Exact, Parts', GrowInv', Held!Exact',
                      ScanNext \/ AccountNext \/ UNCHANGED vars
               PROVE  LedgerStep
    BY DEF LedgerStep
  <2>1. Around
    BY DEF Around, Parts
  <2> QED
    BY <2>1, LedgerAllSteps
<1> QED
  BY <1>1, <1>2, <1>3, GrowInductive, PTL DEF GrowSpec, Ledgered, Held!Spec

============================================================================
