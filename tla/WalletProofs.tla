---------------------------- MODULE WalletProofs ----------------------------
(***************************************************************************)
(* Proofs about Wallet, for all values of its constants: the tables that   *)
(* the handlers read agree with each other, the rows they answer from are  *)
(* rows of blocks the server follows, the three handlers report the same   *)
(* money, and no output is withheld without a reason.  All rests on where  *)
(* rows come from: a row at a height was made from the block at that       *)
(* height.                                                                 *)
(***************************************************************************)
EXTENDS Wallet, FoldProofs, SequenceTheorems

WalletTypes ==
  /\ chain \in Seq(Tx) /\ blocks \in Seq(Tx)
  /\ scan \in Nat /\ rescan \in Nat \cup {None}

\* A key image is used in one block of a chain.
ImagesOnce(c) ==
  \A i, j \in DOMAIN c : \A p \in Rings[c[i]], q \in Rings[c[j]] : p.image = q.image => i = j

\* The rows of an output and of a spend come from the block at their height.
OutputFrom(r) == r.height \in DOMAIN blocks /\ r.out \in Range(Receives[blocks[r.height]])
SpendFrom(s) == s.height \in DOMAIN blocks /\ \E p \in Rings[blocks[s.height]] : p.image = s.image

Chains == WalletTypes /\ ImagesOnce(chain) /\ ImagesOnce(blocks)
Rows == (\A r \in outputs : OutputFrom(r)) /\ (\A s \in spends : SpendFrom(s))

WalletIInv == Chains /\ Rows /\ TablesExact

ImageRow(s) == [id |-> s.source, image |-> s.image]

----------------------------------------------------------------------------
(* Sequences.                                                              *)

\* A prefix has the elements of the whole.
LEMMA PrefixAgrees ==
  ASSUME NEW s \in Seq(Tx), NEW t \in Seq(Tx), IsPrefix(s, t)
  PROVE  Len(s) <= Len(t) /\ \A i \in 1..Len(s) : s[i] = t[i]
<1>1. Len(s) <= Len(t) /\ SubSeq(s, 1, Len(s)) = SubSeq(t, 1, Len(s))
  BY DEF IsPrefix
<1>2. Len(s) \in Nat /\ Len(t) \in Nat
  OBVIOUS
<1>3. ASSUME NEW i \in 1..Len(s) PROVE s[i] = t[i]
  <2>1. SubSeq(s, 1, Len(s))[i] = s[i]
    BY <1>2, <1>3
  <2>2. SubSeq(t, 1, Len(s))[i] = t[i]
    BY <1>1, <1>2, <1>3
  <2> QED
    BY <1>1, <2>1, <2>2
<1> QED
  BY <1>1, <1>3

\* Two chains agree as far as Common.
LEMMA CommonAgrees ==
  ASSUME WalletTypes
  PROVE  /\ Common \in Nat /\ Common <= Len(blocks) /\ Common <= Len(chain)
         /\ \A i \in 1..Common : blocks[i] = chain[i]
         /\ IsPrefix(blocks, chain) => Common = Len(blocks)
<1> DEFINE C == CommonPrefixes({blocks, chain})
<1>1. chain \in Seq(Tx) /\ blocks \in Seq(Tx) /\ Len(blocks) \in Nat /\ Len(chain) \in Nat
  BY DEF WalletTypes
<1>2. ASSUME NEW p \in C
      PROVE  p \in Seq(Tx) /\ IsPrefix(p, blocks) /\ IsPrefix(p, chain)
  <2>1. PICK s \in {blocks, chain} : p \in Prefixes(s)
    BY DEF CommonPrefixes
  <2>2. PICK l \in 0..Len(s) : p = SubSeq(s, 1, l)
    BY <2>1 DEF Prefixes
  <2>3. s \in Seq(Tx)
    BY <1>1
  <2>4. p \in Seq(Tx)
    BY <2>2, <2>3
  <2> QED
    BY <2>4 DEF CommonPrefixes
<1>3. <<>> \in C
  <2>1. <<>> = SubSeq(blocks, 1, 0)
    BY <1>1
  <2>2. <<>> \in Prefixes(blocks)
    BY <1>1, <2>1 DEF Prefixes
  <2>3. ASSUME NEW t \in {blocks, chain} PROVE IsPrefix(<<>>, t)
    <3>1. t \in Seq(Tx) /\ Len(<<>>) = 0 /\ 0 <= Len(t)
      BY <1>1
    <3>2. SubSeq(<<>>, 1, 0) = <<>> /\ SubSeq(t, 1, 0) = <<>>
      BY <3>1
    <3> QED
      BY <3>1, <3>2 DEF IsPrefix
  <2> QED
    BY <2>2, <2>3 DEF CommonPrefixes
<1>4. \E longest \in C : \A other \in C : Len(other) <= Len(longest)
  <2> HIDE DEF C
  <2> DEFINE D == {Len(blocks) - Len(p) : p \in C}
  <2>1. ASSUME NEW p \in C PROVE Len(p) \in Nat /\ Len(p) <= Len(blocks)
    <3>1. p \in Seq(Tx) /\ IsPrefix(p, blocks)
      BY <1>2
    <3>2. Len(p) <= Len(blocks)
      BY <1>1, <3>1, PrefixAgrees
    <3> QED
      BY <3>1, <3>2
  <2>2. D \subseteq Nat
    BY <1>1, <2>1
  <2>3. Len(blocks) - Len(<<>>) \in D
    BY <1>3
  <2>4. PICK d \in D : \A e \in D : ~ (<<e, d>> \in OpToRel(<, Nat))
    BY <2>2, <2>3, NatLessThanWellFounded, WFMin
  <2>5. PICK m \in C : d = Len(blocks) - Len(m)
    OBVIOUS
  <2>6. ASSUME NEW p \in C, Len(m) < Len(p) PROVE FALSE
    <3> DEFINE e == Len(blocks) - Len(p)
    <3>1. e \in D /\ e \in Nat /\ d \in Nat
      BY <2>2
    <3>2. e < d
      BY <1>1, <2>1, <2>5, <2>6
    <3>3. <<e, d>> \in OpToRel(<, Nat)
      BY <3>1, <3>2 DEF OpToRel
    <3> QED
      BY <2>4, <3>1, <3>3
  <2>7. \A p \in C : Len(p) <= Len(m)
    <3> SUFFICES ASSUME NEW p \in C PROVE Len(p) <= Len(m)
      OBVIOUS
    <3>1. Len(p) \in Nat /\ Len(m) \in Nat
      BY <2>1
    <3> QED
      BY <2>6, <3>1
  <2> QED
    BY <2>7
<1>5. PICK longest \in C : /\ longest = LongestCommonPrefix({blocks, chain})
                           /\ \A other \in C : Len(other) <= Len(longest)
  BY <1>4 DEF LongestCommonPrefix
<1>6. Common = Len(longest)
  BY <1>5 DEF Common
<1>7. /\ longest \in Seq(Tx) /\ Len(longest) <= Len(blocks) /\ Len(longest) <= Len(chain)
      /\ \A i \in 1..Len(longest) : longest[i] = blocks[i] /\ longest[i] = chain[i]
  BY <1>1, <1>2, PrefixAgrees
<1>8. Len(longest) \in Nat
  BY <1>7
<1>9. ASSUME IsPrefix(blocks, chain) PROVE Len(blocks) <= Len(longest)
  <2>1. SubSeq(blocks, 1, Len(blocks)) = blocks /\ Len(blocks) \in 0..Len(blocks)
    BY <1>1
  <2>2. IsPrefix(blocks, blocks)
    BY <1>1, <2>1 DEF IsPrefix
  <2>3. blocks \in Prefixes(blocks)
    BY <1>1, <2>1 DEF Prefixes
  <2>4. blocks \in C
    BY <1>9, <2>2, <2>3 DEF CommonPrefixes
  <2> HIDE DEF C
  <2> QED
    BY <1>5, <2>4
<1> QED
  BY <1>1, <1>6, <1>7, <1>8, <1>9

----------------------------------------------------------------------------
(* The daemon's chain.                                                     *)

\* A mined transaction has new key images.
LEMMA MineOnce ==
  ASSUME WalletTypes, ImagesOnce(chain), NEW t \in Tx, mine(t)
  PROVE  chain' \in Seq(Tx) /\ ImagesOnce(chain)'
<1>1. /\ chain \in Seq(Tx) /\ Len(chain) \in Nat /\ chain' = Append(chain, t)
      /\ \A p \in Rings[t] : p.image \notin ImagesOf(chain)
  BY DEF WalletTypes, mine, Minable
<1>2. /\ chain' \in Seq(Tx) /\ DOMAIN chain' = 1..(Len(chain) + 1) /\ DOMAIN chain = 1..Len(chain)
      /\ chain'[Len(chain) + 1] = t
      /\ \A i \in 1..Len(chain) : chain'[i] = chain[i]
  BY <1>1
<1>3. \A i \in DOMAIN chain : \A q \in Rings[chain[i]] : q.image \in ImagesOf(chain)
  BY DEF ImagesOf
<1>4. ASSUME NEW i \in DOMAIN chain', NEW j \in DOMAIN chain',
             NEW p \in Rings[chain'[i]], NEW q \in Rings[chain'[j]], p.image = q.image
      PROVE  i = j
  <2>1. CASE i \in DOMAIN chain /\ j \in DOMAIN chain
    BY <1>2, <1>4, <2>1 DEF ImagesOnce
  <2>2. CASE i \in DOMAIN chain /\ j \notin DOMAIN chain
    <3>1. j = Len(chain) + 1 /\ chain'[i] = chain[i]
      BY <1>1, <1>2, <2>2
    <3> QED
      BY <1>1, <1>2, <1>3, <1>4, <2>2, <3>1
  <2>3. CASE i \notin DOMAIN chain /\ j \in DOMAIN chain
    <3>1. i = Len(chain) + 1 /\ chain'[j] = chain[j]
      BY <1>1, <1>2, <2>3
    <3> QED
      BY <1>1, <1>2, <1>3, <1>4, <2>3, <3>1
  <2>4. CASE i \notin DOMAIN chain /\ j \notin DOMAIN chain
    BY <1>1, <1>2, <2>4
  <2> QED
    BY <2>1, <2>2, <2>3, <2>4
<1> QED
  BY <1>2, <1>4 DEF ImagesOnce

\* A detached chain is a prefix.
LEMMA ReorgOnce ==
  ASSUME WalletTypes, ImagesOnce(chain), NEW n \in 0..MaxHeight, reorg(n)
  PROVE  chain' \in Seq(Tx) /\ ImagesOnce(chain)'
<1>1. chain \in Seq(Tx) /\ Len(chain) \in Nat /\ n \in Nat /\ n < Len(chain)
        /\ chain' = SubSeq(chain, 1, n)
  BY WalletAssumption DEF WalletTypes, reorg
<1>2. /\ chain' \in Seq(Tx) /\ DOMAIN chain' = 1..n /\ DOMAIN chain = 1..Len(chain)
      /\ \A i \in 1..n : chain'[i] = chain[i]
  BY <1>1
<1>3. 1..n \subseteq 1..Len(chain)
  BY <1>1
<1> QED
  BY <1>2, <1>3 DEF ImagesOnce

----------------------------------------------------------------------------
(* The tables.                                                             *)

\* Spends of one image are in one block, so that a rollback takes all of them.
LEMMA OneHeight ==
  ASSUME Chains, NEW s, SpendFrom(s), NEW r, SpendFrom(r), s.image = r.image
  PROVE  s.height = r.height
BY DEF SpendFrom, Chains, ImagesOnce

\* A rollback takes the rows of detached blocks and leaves the others.
LEMMA RollbackRows ==
  ASSUME WalletIInv, NEW h \in Nat, rollback(h)
  PROVE  /\ \A r \in outputs' : r \in outputs /\ r.height < h
         /\ \A s \in spends' : s \in spends /\ s.height < h
         /\ ImagesExact' /\ OnePub'
<1> DEFINE gone == {s \in spends : s.height >= h}
<1>1. /\ outputs' = {r \in outputs : r.height < h}
      /\ spends' = spends \ gone
      /\ images' = images \ {ImageRow(s) : s \in gone}
  BY DEF rollback, ImageRow
<1>2. \A s \in spends : SpendFrom(s)
  BY DEF WalletIInv, Rows
<1>3. \A s \in spends : s.height \in Nat
  <2>1. \A i \in DOMAIN blocks : i \in Nat
    BY DEF WalletIInv, Chains, WalletTypes
  <2> QED
    BY <1>2, <2>1 DEF SpendFrom
<1>4. \A s \in spends' : s \in spends /\ s.height < h
  BY <1>1, <1>3
<1>5. ASSUME NEW s \in spends, NEW g \in gone, ImageRow(s) = ImageRow(g)
      PROVE  s \in gone
  <2>1. s.image = g.image
    BY <1>5 DEF ImageRow
  <2>2. s.height = g.height
    BY <1>2, <2>1, OneHeight DEF WalletIInv
  <2> QED
    BY <2>2
<1>6. images = {ImageRow(s) : s \in spends}
  BY DEF WalletIInv, TablesExact, ImagesExact, ImageRow
<1>7. images' = {ImageRow(s) : s \in spends'}
  <2> HIDE DEF gone
  <2>1. gone \subseteq spends
    BY DEF gone
  <2> QED
    BY <1>1, <1>5, <1>6, <2>1
<1>8. ImagesExact'
  BY <1>7 DEF ImagesExact, ImageRow
<1>9. OnePub'
  BY <1>1 DEF WalletIInv, TablesExact, OnePub
<1> QED
  BY <1>1, <1>4, <1>8, <1>9

\* A block is scanned.
LEMMA ScanStep ==
  ASSUME WalletIInv, scan_transaction
  PROVE  WalletIInv'
<1> DEFINE h == scan + 1
<1> DEFINE t == blocks[h]
<1>1. /\ h \in DOMAIN blocks /\ t \in Tx /\ h \in Nat
      /\ spends' = spends \cup Spent(t, h)
      /\ images' = images \cup {ImageRow(s) : s \in Spent(t, h)}
      /\ outputs' = outputs \cup Added(t, h)
      /\ scan' = h /\ UNCHANGED <<chain, blocks, imported, rescan>>
  BY DEF scan_transaction, WalletIInv, Chains, WalletTypes, ImageRow, keyVars
<1>2. Chains'
  BY <1>1 DEF WalletIInv, Chains, WalletTypes, ImagesOnce
<1>3. ASSUME NEW s \in Spent(t, h) PROVE SpendFrom(s)
  <2>1. PICK p \in Rings[t] : s \in {[height |-> h, tx |-> t, image |-> p.image, source |-> r.id] :
                                       r \in Members(p)}
    BY DEF Spent
  <2>2. s.height = h /\ s.image = p.image
    BY <2>1
  <2> QED
    BY <1>1, <2>2 DEF SpendFrom
<1> DEFINE I == {m \in DOMAIN Receives[t] :
                   /\ \A r \in outputs : Pub[r.out] # Pub[Receives[t][m]]
                   /\ \A k \in 1..(m - 1) : Pub[Receives[t][k]] # Pub[Receives[t][m]]}
<1> DEFINE row(n) == [height |-> h, out |-> Receives[t][n], id |-> IdOf(blocks, Receives[t][n])]
<1>4. Added(t, h) = {row(n) : n \in I}
  BY DEF Added
<1>5. \A n \in I : row(n).height = h /\ row(n).out = Receives[t][n] /\ n \in DOMAIN Receives[t]
  OBVIOUS
<1>6. DOMAIN Receives[t] \subseteq Nat /\ \A n \in DOMAIN Receives[t] : 1 <= n
  <2>1. Receives[t] \in Seq(Output)
    BY <1>1, WalletAssumption
  <2> QED
    BY <2>1
<1>7. ASSUME NEW n \in I PROVE OutputFrom(row(n))
  <2>1. Receives[t][n] \in Range(Receives[t])
    BY <1>5 DEF Range
  <2> HIDE DEF row
  <2> QED
    BY <1>1, <1>5, <2>1 DEF OutputFrom
<1>8. ASSUME NEW n \in I, NEW m \in I, Pub[row(n).out] = Pub[row(m).out]
      PROVE  n = m
  <2>1. Pub[Receives[t][n]] = Pub[Receives[t][m]]
    BY <1>5, <1>8
  <2>2. n \in Nat /\ m \in Nat /\ 1 <= n /\ 1 <= m
    BY <1>6
  <2>3. ~ n < m /\ ~ m < n
    BY <2>1, <2>2
  <2> QED
    BY <2>2, <2>3
<1>9. \A n \in I, r \in outputs : Pub[r.out] # Pub[row(n).out]
  BY <1>5
<1> HIDE DEF I, row
<1>10. Rows'
  <2>1. \A s \in spends' : SpendFrom(s)
    BY <1>1, <1>3 DEF WalletIInv, Rows
  <2>2. \A r \in outputs' : OutputFrom(r)
    BY <1>1, <1>4, <1>7 DEF WalletIInv, Rows
  <2> QED
    BY <1>1, <2>1, <2>2 DEF Rows, SpendFrom, OutputFrom
<1>11. OnePub'
  <2> SUFFICES ASSUME NEW q \in outputs', NEW r \in outputs', Pub[q.out] = Pub[r.out] PROVE q = r
    BY DEF OnePub
  <2>1. q \in outputs \/ \E n \in I : q = row(n)
    BY <1>1, <1>4
  <2>2. r \in outputs \/ \E n \in I : r = row(n)
    BY <1>1, <1>4
  <2>3. CASE q \in outputs /\ r \in outputs
    BY <2>3 DEF WalletIInv, TablesExact, OnePub
  <2>4. CASE \E n \in I : q = row(n)
    BY <1>8, <1>9, <2>2, <2>4
  <2>5. CASE \E n \in I : r = row(n)
    BY <1>8, <1>9, <2>1, <2>5
  <2> QED
    BY <2>1, <2>2, <2>3, <2>4, <2>5
<1>12. ImagesExact'
  <2>1. images = {ImageRow(s) : s \in spends}
    BY DEF WalletIInv, TablesExact, ImagesExact, ImageRow
  <2>2. images' = {ImageRow(s) : s \in spends'}
    BY <1>1, <2>1
  <2> QED
    BY <2>2 DEF ImagesExact, ImageRow
<1>13. OneSource'
  BY <1>1 DEF WalletIInv, TablesExact, OneSource
<1> QED
  BY <1>2, <1>10, <1>11, <1>12, <1>13 DEF WalletIInv, TablesExact

\* The blocks table follows the daemon.
LEMMA SyncTablesStep ==
  ASSUME WalletIInv, sync_chain
  PROVE  WalletIInv'
<1>1. /\ WalletTypes /\ chain \in Seq(Tx) /\ blocks \in Seq(Tx)
      /\ blocks' = chain /\ UNCHANGED <<chain, imported, rescan>>
      /\ scan' = Least(scan, Common) /\ scan \in Nat
  BY DEF sync_chain, WalletIInv, Chains, WalletTypes, keyVars
<1>2. /\ Common \in Nat /\ Common <= Len(blocks) /\ Common <= Len(chain)
      /\ \A i \in 1..Common : blocks[i] = chain[i]
  BY <1>1, CommonAgrees
<1>3. Chains'
  <2>1. scan' \in Nat
    BY <1>1, <1>2 DEF Least
  <2> QED
    BY <1>1, <2>1 DEF WalletIInv, Chains, WalletTypes, ImagesOnce
<1>4. DOMAIN blocks = 1..Len(blocks) /\ DOMAIN chain = 1..Len(chain)
        /\ Len(blocks) \in Nat /\ Len(chain) \in Nat
  BY <1>1
<1>5. CASE IsPrefix(blocks, chain)
  <2>1. UNCHANGED <<outputs, spends, images>>
    BY <1>5 DEF sync_chain
  <2>2. Len(blocks) <= Len(chain) /\ \A i \in 1..Len(blocks) : blocks[i] = chain[i]
    BY <1>1, <1>5, PrefixAgrees
  <2>3. \A i \in DOMAIN blocks : i \in DOMAIN blocks' /\ blocks'[i] = blocks[i]
    BY <1>1, <1>4, <2>2
  <2>4. Rows'
    BY <2>1, <2>3 DEF WalletIInv, Rows, OutputFrom, SpendFrom
  <2>5. TablesExact'
    BY <1>1, <2>1 DEF WalletIInv, TablesExact, OneSource, ImagesExact, OnePub
  <2> QED
    BY <1>3, <2>4, <2>5 DEF WalletIInv
<1>6. CASE ~ IsPrefix(blocks, chain)
  <2>1. PICK k \in Nat : k = Common + 1
    BY <1>2
  <2>2. rollback(k)
    BY <1>6, <2>1 DEF sync_chain
  <2>3. /\ \A r \in outputs' : r \in outputs /\ r.height < k
        /\ \A s \in spends' : s \in spends /\ s.height < k
        /\ ImagesExact' /\ OnePub'
    BY <2>2, RollbackRows
  <2>4. \A i \in DOMAIN blocks : i < k => i \in DOMAIN blocks' /\ blocks'[i] = blocks[i]
    BY <1>1, <1>2, <1>4, <2>1
  <2>5. Rows'
    BY <2>3, <2>4 DEF WalletIInv, Rows, OutputFrom, SpendFrom
  <2>6. OneSource'
    BY <1>1 DEF WalletIInv, TablesExact, OneSource
  <2> QED
    BY <1>3, <2>3, <2>5, <2>6 DEF WalletIInv, TablesExact
<1> QED
  BY <1>5, <1>6

\* A rescan that an import of key images decided.
LEMMA RescanStep ==
  ASSUME WalletIInv, auto_rescan
  PROVE  WalletIInv'
<1>1. /\ rescan \in Nat /\ rollback(rescan) /\ scan' = Least(scan, rescan) /\ rescan' = None
      /\ scan \in Nat /\ UNCHANGED <<chain, blocks, imported>>
  BY DEF auto_rescan, WalletIInv, Chains, WalletTypes
<1>2. PICK k \in Nat : k = rescan
  BY <1>1
<1>3. /\ \A r \in outputs' : r \in outputs /\ r.height < k
      /\ \A s \in spends' : s \in spends /\ s.height < k
      /\ ImagesExact' /\ OnePub'
  BY <1>1, <1>2, RollbackRows
<1>4. Chains'
  BY <1>1 DEF WalletIInv, Chains, WalletTypes, ImagesOnce, Least
<1>5. Rows'
  BY <1>1, <1>3 DEF WalletIInv, Rows, OutputFrom, SpendFrom
<1>6. OneSource'
  BY <1>1 DEF WalletIInv, TablesExact, OneSource
<1> QED
  BY <1>3, <1>4, <1>5, <1>6 DEF WalletIInv, TablesExact

\* Key images and sources are imported.
LEMMA ImportStep ==
  ASSUME WalletIInv, NEW r \in Request, import_key_images(r)
  PROVE  WalletIInv'
<1>1. /\ imported' = Replaced(r.sources) /\ UNCHANGED <<chain, blocks, scan, outputs, spends, images>>
      /\ rescan' \in {select_auto_rescan_height, None}
  BY DEF import_key_images, chainVars
<1>2. select_auto_rescan_height \in Nat
  BY WalletAssumption, SMTT(30) DEF select_auto_rescan_height, WalletIInv, Chains, WalletTypes
<1>3. Chains'
  BY <1>1, <1>2 DEF WalletIInv, Chains, WalletTypes, ImagesOnce
<1>4. Rows'
  BY <1>1 DEF WalletIInv, Rows, OutputFrom, SpendFrom
<1>5. OneSource'
  <2>1. \A c, d \in r.sources : c.image = d.image => c = d
    BY WalletAssumption
  <2>2. Resolved(r.sources) \subseteq r.sources
    BY DEF Resolved
  <2>3. \A c, d \in imported : c.image = d.image => c = d
    BY DEF WalletIInv, TablesExact, OneSource
  <2>4. \A c, d \in Replaced(r.sources) : c.image = d.image => c = d
    BY <2>1, <2>2, <2>3 DEF Replaced
  <2> QED
    BY <1>1, <2>4 DEF OneSource
<1>6. ImagesExact' /\ OnePub'
  BY <1>1 DEF WalletIInv, TablesExact, ImagesExact, OnePub
<1> QED
  BY <1>3, <1>4, <1>5, <1>6 DEF WalletIInv, TablesExact

\* Steps of the daemon, the pool, the clock and pending spends.
LEMMA ElsewhereStep ==
  ASSUME WalletIInv, UNCHANGED <<blocks, scan, outputs, spends, images, imported, rescan>>,
         chain' \in Seq(Tx), ImagesOnce(chain)'
  PROVE  WalletIInv'
<1>1. Chains'
  BY DEF WalletIInv, Chains, WalletTypes, ImagesOnce
<1>2. Rows'
  BY DEF WalletIInv, Rows, OutputFrom, SpendFrom
<1>3. TablesExact'
  BY DEF WalletIInv, TablesExact, OneSource, ImagesExact, OnePub
<1> QED
  BY <1>1, <1>2, <1>3 DEF WalletIInv

----------------------------------------------------------------------------

\* An empty wallet.
LEMMA WalletInit ==
  ASSUME Init
  PROVE  WalletIInv
<1>1. chain = <<>> /\ blocks = <<>> /\ DOMAIN chain = {} /\ <<>> \in Seq(Tx)
  BY DEF Init
<1>2. Chains
  BY <1>1 DEF Init, Chains, WalletTypes, ImagesOnce
<1>3. Rows /\ OneSource /\ OnePub
  BY DEF Init, Rows, OneSource, OnePub
<1>4. ImagesExact
  BY DEF Init, ImagesExact
<1> QED
  BY <1>2, <1>3, <1>4 DEF WalletIInv, TablesExact

\* Every step preserves the invariant.
LEMMA WalletStep ==
  ASSUME WalletIInv, Next \/ UNCHANGED vars
  PROVE  WalletIInv'
<1>0. WalletTypes /\ ImagesOnce(chain)
  BY DEF WalletIInv, Chains
<1>1. ASSUME NEW t \in Tx, mine(t) PROVE WalletIInv'
  BY <1>0, <1>1, MineOnce, ElsewhereStep DEF mine, keyVars
<1>2. ASSUME NEW n \in 0..MaxHeight, reorg(n) PROVE WalletIInv'
  BY <1>0, <1>2, ReorgOnce, ElsewhereStep DEF reorg, keyVars
<1>3. CASE UNCHANGED <<chainVars, imported, rescan>>
  <2>1. chain' \in Seq(Tx) /\ ImagesOnce(chain)'
    BY <1>0, <1>3 DEF chainVars, WalletTypes, ImagesOnce
  <2> QED
    BY <1>3, <2>1, ElsewhereStep DEF chainVars
<1>4. CASE \E t \in Tx : enter_pool(t)
  BY <1>3, <1>4 DEF enter_pool, keyVars
<1>5. CASE (\E r \in outputs : submit_raw_tx(r))
            \/ (\E p \in sending : record_pending_spends(p) \/ submit_failed(p))
  BY <1>3, <1>5 DEF submit_raw_tx, record_pending_spends, submit_failed, keyVars
<1>6. CASE tick \/ fetch_txpool_transactions \/ fetch_failed
  BY <1>3, <1>6 DEF tick, fetch_txpool_transactions, fetch_failed, keyVars
<1>7. CASE UNCHANGED vars
  BY <1>3, <1>7 DEF vars, keyVars
<1> QED
  BY <1>1, <1>2, <1>4, <1>5, <1>6, <1>7, ScanStep, SyncTablesStep, RescanStep, ImportStep DEF Next

\* The tables behind the wallet's handlers agree with each other: a source per
\* image, a key image row per spend and none besides, an output per public
\* key, through scans, reorganisations, imports and rescans.
THEOREM TablesKept == Spec => []TablesExact
<1>1. Init => WalletIInv
  BY WalletInit
<1>2. WalletIInv /\ [Next]_vars => WalletIInv'
  BY WalletStep
<1>3. WalletIInv => TablesExact
  BY DEF WalletIInv
<1> QED
  BY <1>1, <1>2, <1>3, PTL DEF Spec

\* Once the blocks table follows the daemon, every output that is offered
\* belongs to a transaction the daemon knows: /get_unspent_outs does not fail.
THEOREM UnspentAnswered == Spec => []Answerable
<1>1. Init => WalletIInv
  BY WalletInit
<1>2. WalletIInv /\ [Next]_vars => WalletIInv'
  BY WalletStep
<1>3. WalletIInv => Answerable
  <2> SUFFICES ASSUME WalletIInv, IsPrefix(blocks, chain), NEW r \in outputs
               PROVE  TxOf(r.out) \in Range(chain)
    BY DEF Answerable, fetch_additional_tx_pub_keys, get_unspent_outs
  <2>1. chain \in Seq(Tx) /\ blocks \in Seq(Tx) /\ OutputFrom(r)
    BY DEF WalletIInv, Chains, WalletTypes, Rows
  <2>2. PICK t : t = blocks[r.height]
    OBVIOUS
  <2>3. t \in Tx /\ r.out \in Range(Receives[t])
    BY <2>1, <2>2 DEF OutputFrom
  <2>4. \A u \in Tx : r.out \in Range(Receives[u]) => u = t
    BY <2>3, WalletAssumption
  <2>5. TxOf(r.out) = t
    BY <2>3, <2>4 DEF TxOf
  <2>6. r.height \in DOMAIN chain /\ chain[r.height] = t
    BY <2>1, <2>2, PrefixAgrees DEF OutputFrom
  <2> QED
    BY <2>5, <2>6 DEF Range
<1> QED
  BY <1>1, <1>2, <1>3, PTL DEF Spec

----------------------------------------------------------------------------
(* The numbering of outputs.                                               *)

\* A chain has a transaction once.
NoRepeats(c) == \A i, j \in DOMAIN c : c[i] = c[j] => i = j

\* Block i of a chain receives o.
ReceivedAt(c, i, o) == o \in Range(Receives[c[i]])

\* f[i] is the outputs of the first i blocks.
Layout(c, f) ==
  /\ f[0] = <<>>
  /\ \A i \in 0..Len(c) : f[i] \in Seq(Output)
  /\ \A i \in 1..Len(c) : f[i] = f[i - 1] \o Receives[c[i]]

\* Indexed is the end of a layout.
LEMMA LayoutExists ==
  ASSUME NEW c \in Seq(Tx)
  PROVE  \E f : Layout(c, f) /\ Indexed(c) = f[Len(c)]
<1> DEFINE n == Len(c)
           V == Seq(Output)
           own == [i \in Nat |-> IF i \in 1..n THEN Receives[c[i]] ELSE <<>>]
           round == [i \in Nat |-> [s \in V |-> s \o own[i]]]
           seqs == [i \in DOMAIN c |-> Receives[c[i]]]
           G(g) == [i \in 1..n |-> IF i = 1 THEN seqs[i] ELSE g[i - 1] \o seqs[i]]
           flat == CHOOSE g : g = G(g)
<1>1. n \in Nat /\ DOMAIN c = 1..n /\ \A i \in 1..n : c[i] \in Tx
  OBVIOUS
<1>2. own \in [Nat -> V] /\ <<>> \in V
  <2>1. \A i \in 1..n : Receives[c[i]] \in V
    BY <1>1, WalletAssumption
  <2> QED
    BY <2>1
<1>3. round \in [Nat -> [V -> V]]
  <2>1. ASSUME NEW i \in Nat, NEW s \in V PROVE s \o own[i] \in V
    <3>1. own[i] \in V
      BY <1>2
    <3> HIDE DEF own
    <3> QED
      BY <3>1
  <2> HIDE DEF own, V
  <2> QED
    BY <2>1
<1>4. PICK f : Built(V, <<>>, round, n, f)
  <2> HIDE DEF round, V, n
  <2> QED
    BY <1>1, <1>2, <1>3, Rounds, Zenon
<1>5. f[0] = <<>> /\ \A i \in 0..n : f[i] \in V
  <2> HIDE DEF round, V, n
  <2> QED
    BY <1>1, <1>4 DEF Built
<1>6. ASSUME NEW i \in 1..n PROVE f[i] = f[i - 1] \o Receives[c[i]]
  <2>1. i \in 0..n /\ i # 0 /\ i \in Nat /\ i - 1 \in 0..n
    BY <1>1
  <2>2. f[i] = round[i][f[i - 1]]
    BY <1>4, <2>1 DEF Built
  <2>3. f[i - 1] \in V
    BY <1>5, <2>1
  <2>4. own[i] = Receives[c[i]]
    BY <2>1
  <2> HIDE DEF own, V
  <2> QED
    BY <2>1, <2>2, <2>3, <2>4
<1>7. Layout(c, f)
  BY <1>5, <1>6 DEF Layout
<1>8. Len(seqs) = n /\ (n = 0 => seqs = <<>>)
  BY <1>1
<1>9. Indexed(c) = IF n = 0 THEN seqs ELSE flat[n]
  <2>1. Indexed(c) = IF Len(seqs) = 0 THEN seqs
                     ELSE (CHOOSE g : g = [i \in 1..Len(seqs) |->
                             IF i = 1 THEN seqs[i] ELSE g[i - 1] \o seqs[i]])[Len(seqs)]
    BY Zenon DEF Indexed, FlattenSeq
  <2>2. PICK k : k = Len(seqs)
    OBVIOUS
  <2>3. Indexed(c) = IF k = 0 THEN seqs
                     ELSE (CHOOSE g : g = [i \in 1..k |->
                             IF i = 1 THEN seqs[i] ELSE g[i - 1] \o seqs[i]])[k]
    BY <2>1, <2>2, Zenon
  <2>4. k = n
    BY <1>8, <2>2
  <2> QED
    BY <2>3, <2>4, Zenon
<1>10. \A i \in 1..n : seqs[i] = Receives[c[i]]
  BY <1>1
<1>11. ASSUME n # 0 PROVE flat[n] = f[n]
  <2> DEFINE g == [i \in 1..n |-> f[i]]
  <2>1. g = G(g)
    <3>1. ASSUME NEW i \in 1..n PROVE f[i] = IF i = 1 THEN seqs[i] ELSE g[i - 1] \o seqs[i]
      <4>1. CASE i = 1
        <5>1. f[1] = <<>> \o seqs[1] /\ seqs[1] \in V
          <6>1. 1 \in 1..n /\ 1 - 1 = 0
            BY <4>1
          <6>2. seqs[1] = Receives[c[1]] /\ Receives[c[1]] \in V
            BY <1>1, <1>10, <6>1, WalletAssumption
          <6>3. f[1] = f[0] \o Receives[c[1]]
            BY <1>6, <6>1
          <6> HIDE DEF seqs, V, n
          <6> QED
            BY <1>5, <6>2, <6>3
        <5> HIDE DEF seqs
        <5> QED
          BY <4>1, <5>1, ConcatEmptySeq
      <4>2. CASE i # 1
        <5>1. i - 1 \in 1..n
          BY <1>1, <4>2
        <5>2. g[i - 1] = f[i - 1]
          BY <5>1
        <5> QED
          BY <1>6, <1>10, <4>2, <5>2
      <4> QED
        BY <4>1, <4>2
    <3> HIDE DEF seqs
    <3> QED
      BY <3>1
  <2>2. flat = G(flat)
    <3> HIDE DEF g, G
    <3> QED
      BY <2>1
  <2>3. \A i \in 1..n : flat[i] = IF i = 1 THEN seqs[i] ELSE flat[i - 1] \o seqs[i]
    <3> HIDE DEF flat, seqs
    <3> QED
      BY <2>2
  <2>4. \A i \in 1..n : g[i] = IF i = 1 THEN seqs[i] ELSE g[i - 1] \o seqs[i]
    <3> HIDE DEF g, seqs
    <3> QED
      BY <2>1
  <2> DEFINE a == [i \in 0..n |-> IF i = 0 THEN <<>> ELSE flat[i]]
             b == [i \in 0..n |-> IF i = 0 THEN <<>> ELSE g[i]]
  <2>5. a[0] = b[0]
    BY <1>1
  <2>6. ASSUME NEW i \in 1..n, a[i - 1] = b[i - 1] PROVE a[i] = b[i]
    <3>1. a[i] = flat[i] /\ b[i] = g[i]
      BY <1>1
    <3>2. i # 1 => i - 1 \in 1..n /\ i - 1 \in 0..n /\ i - 1 # 0
      BY <1>1
    <3>3. i # 1 => a[i - 1] = flat[i - 1] /\ b[i - 1] = g[i - 1]
      BY <3>2
    <3> HIDE DEF a, b, flat, g, seqs
    <3>4. flat[i] = IF i = 1 THEN seqs[i] ELSE flat[i - 1] \o seqs[i]
      BY <2>3, Zenon
    <3>5. g[i] = IF i = 1 THEN seqs[i] ELSE g[i - 1] \o seqs[i]
      BY <2>4, Zenon
    <3>6. i # 1 => flat[i - 1] = g[i - 1]
      BY <2>6, <3>3, Zenon
    <3> QED
      BY <3>1, <3>4, <3>5, <3>6, Zenon
  <2>7. \A i \in 0..n : a[i] = b[i]
    <3> HIDE DEF a, b, n
    <3>1. n \in Nat /\ a[0] = b[0] /\ \A i \in 1..n : a[i - 1] = b[i - 1] => a[i] = b[i]
      BY <1>1, <2>5, <2>6
    <3> QED
      BY <3>1, SameRounds, ZenonT(40)
  <2>8. n \in 0..n /\ n \in 1..n
    BY <1>1, <1>11
  <2>9. flat[n] = g[n]
    <3>1. a[n] = b[n]
      BY <2>7, <2>8
    <3>2. a[n] = flat[n] /\ b[n] = g[n]
      BY <1>11, <2>8
    <3> QED
      BY <3>1, <3>2
  <2> QED
    BY <2>8, <2>9
<1>12. Indexed(c) = f[n]
  BY <1>5, <1>8, <1>9, <1>11
<1> QED
  BY <1>7, <1>12

\* What block i adds to the outputs.
BlockAdds(c, f, i) ==
  /\ f[i - 1] \in Seq(Output) /\ f[i] \in Seq(Output) /\ Receives[c[i]] \in Seq(Output)
  /\ Len(f[i]) = Len(f[i - 1]) + Len(Receives[c[i]])
  /\ \A j \in 1..Len(f[i - 1]) : f[i][j] = f[i - 1][j]
  /\ \A j \in 1..Len(Receives[c[i]]) : f[i][Len(f[i - 1]) + j] = Receives[c[i]][j]

LEMMA LayoutNext ==
  ASSUME NEW c \in Seq(Tx), NEW f, Layout(c, f), NEW i \in 1..Len(c)
  PROVE  BlockAdds(c, f, i)
<1>1. i - 1 \in 0..Len(c) /\ i \in 0..Len(c) /\ c[i] \in Tx
  OBVIOUS
<1>2. PICK s : s = f[i - 1]
  OBVIOUS
<1>3. PICK t : t = Receives[c[i]]
  OBVIOUS
<1>4. s \in Seq(Output) /\ t \in Seq(Output) /\ f[i] = s \o t /\ f[i] \in Seq(Output)
  BY <1>1, <1>2, <1>3, WalletAssumption DEF Layout
<1>5. /\ Len(s \o t) = Len(s) + Len(t) /\ Len(s) \in Nat /\ Len(t) \in Nat
      /\ \A j \in 1..Len(s) + Len(t) : (s \o t)[j] = IF j <= Len(s) THEN s[j] ELSE t[j - Len(s)]
  BY <1>4, ConcatProperties, LenProperties
<1>6. \A j \in 1..Len(s) : (s \o t)[j] = s[j]
  BY <1>5
<1>7. ASSUME NEW j \in 1..Len(t) PROVE (s \o t)[Len(s) + j] = t[j]
  <2>1. Len(s) + j \in 1..Len(s) + Len(t) /\ ~ Len(s) + j <= Len(s) /\ Len(s) + j - Len(s) = j
    BY <1>5
  <2> QED
    BY <1>5, <2>1
<1> QED
  BY <1>2, <1>3, <1>4, <1>5, <1>6, <1>7 DEF BlockAdds

\* Outputs keep their place when blocks are added.
LEMMA LayoutGrows ==
  ASSUME NEW c \in Seq(Tx), NEW f, Layout(c, f), NEW n \in 0..Len(c), NEW k \in n..Len(c)
  PROVE  Len(f[n]) <= Len(f[k]) /\ \A j \in 1..Len(f[n]) : f[k][j] = f[n][j]
<1> DEFINE Good(m) == Len(f[n]) <= Len(f[m]) /\ \A j \in 1..Len(f[n]) : f[m][j] = f[n][j]
           S == {d \in Nat : n + d <= Len(c) => Good(n + d)}
<1>1. Len(c) \in Nat /\ n \in Nat /\ \A i \in 0..Len(c) : Len(f[i]) \in Nat
  <2>1. \A i \in 0..Len(c) : f[i] \in Seq(Output)
    BY DEF Layout
  <2> QED
    BY <2>1, LenProperties
<1>2. 0 \in S
  BY <1>1
<1>3. ASSUME NEW d \in S PROVE d + 1 \in S
  <2>1. SUFFICES ASSUME n + (d + 1) <= Len(c) PROVE Good(n + (d + 1))
    OBVIOUS
  <2>2. PICK i : i = n + (d + 1)
    OBVIOUS
  <2>3. /\ i \in 1..Len(c) /\ i - 1 = n + d /\ n + d <= Len(c)
        /\ i \in 0..Len(c) /\ i - 1 \in 0..Len(c)
    BY <1>1, <2>1, <2>2
  <2>4. Good(i - 1)
    BY <2>3
  <2>5. /\ Len(f[i]) = Len(f[i - 1]) + Len(Receives[c[i]])
        /\ \A j \in 1..Len(f[i - 1]) : f[i][j] = f[i - 1][j]
        /\ Len(Receives[c[i]]) \in Nat
    <3>1. /\ Receives[c[i]] \in Seq(Output)
          /\ Len(f[i]) = Len(f[i - 1]) + Len(Receives[c[i]])
          /\ \A j \in 1..Len(f[i - 1]) : f[i][j] = f[i - 1][j]
      <4>1. i \in 1..Len(c)
        BY <2>3
      <4>2. BlockAdds(c, f, i)
        BY <4>1, LayoutNext, Zenon
      <4> QED
        BY <4>2, Zenon DEF BlockAdds
    <3>2. Len(Receives[c[i]]) \in Nat
      BY <3>1, LenProperties, Zenon
    <3> QED
      BY <3>1, <3>2
  <2>6. Good(i)
    <3>1. PICK x : x = Len(f[n])
      OBVIOUS
    <3>2. PICK y : y = Len(f[i - 1])
      OBVIOUS
    <3>3. PICK z : z = Len(Receives[c[i]])
      OBVIOUS
    <3>4. /\ x \in Nat /\ y \in Nat /\ z \in Nat /\ x <= y /\ Len(f[i]) = y + z
          /\ \A j \in 1..x : f[i - 1][j] = f[n][j]
          /\ \A j \in 1..y : f[i][j] = f[i - 1][j]
      <4>1. n \in 0..Len(c)
        OBVIOUS
      <4> QED
        BY <1>1, <2>3, <2>4, <2>5, <3>1, <3>2, <3>3, <4>1, Zenon
    <3>5. x <= y + z /\ \A j \in 1..x : j \in 1..y
      BY <3>4
    <3>6. \A j \in 1..x : f[i][j] = f[n][j]
      BY <3>4, <3>5, Zenon
    <3> QED
      BY <3>1, <3>4, <3>5, <3>6, Zenon
  <2> QED
    BY <2>2, <2>6
<1>4. S = Nat
  <2>1. S \in SUBSET Nat
    OBVIOUS
  <2> HIDE DEF S
  <2> QED
    BY <1>2, <1>3, <2>1, Reaches
<1> HIDE DEF S
<1>5. PICK d \in Nat : n + d = k /\ k <= Len(c)
  <2>1. k - n \in Nat /\ n + (k - n) = k /\ k <= Len(c)
    BY <1>1
  <2> QED
    BY <2>1
<1>6. d \in S
  BY <1>4, <1>5
<1>7. n + d <= Len(c) => Good(n + d)
  BY <1>6 DEF S
<1> QED
  BY <1>5, <1>7

\* The outputs of a chain are those of its blocks; a chain that has no
\* transaction twice has no output twice.
LEMMA LayoutOutputs ==
  ASSUME NEW c \in Seq(Tx), NEW f, Layout(c, f), NEW k \in 0..Len(c)
  PROVE  /\ \A o : o \in Range(f[k]) <=> \E i \in 1..k : ReceivedAt(c, i, o)
         /\ NoRepeats(c) => \A x, y \in 1..Len(f[k]) : f[k][x] = f[k][y] => x = y
<1> DEFINE Good(m) == /\ \A o : o \in Range(f[m]) <=> \E i \in 1..m : ReceivedAt(c, i, o)
                      /\ NoRepeats(c) => \A x, y \in 1..Len(f[m]) : f[m][x] = f[m][y] => x = y
           S == {m \in Nat : m <= Len(c) => Good(m)}
<1>0. Len(c) \in Nat /\ DOMAIN c = 1..Len(c)
  OBVIOUS
<1>1. 0 \in S
  <2>1. f[0] = <<>> /\ Range(<<>>) = {} /\ Len(<<>>) = 0 /\ 1..0 = {}
    BY DEF Layout, Range
  <2> QED
    BY <2>1
<1>2. ASSUME NEW m \in S PROVE m + 1 \in S
  <2>1. SUFFICES ASSUME m + 1 <= Len(c) PROVE Good(m + 1)
    OBVIOUS
  <2>2. PICK i : i = m + 1
    OBVIOUS
  <2>3. i \in 1..Len(c) /\ i - 1 = m /\ Good(m) /\ m \in Nat
    BY <1>0, <2>1, <2>2
  <2>4. PICK s : s = f[i - 1]
    OBVIOUS
  <2>5. PICK t : t = Receives[c[i]]
    OBVIOUS
  <2>6. PICK u : u = f[i]
    OBVIOUS
  <2>7. /\ s \in Seq(Output) /\ t \in Seq(Output) /\ u \in Seq(Output)
        /\ Len(u) = Len(s) + Len(t) /\ Len(s) \in Nat /\ Len(t) \in Nat
        /\ \A j \in 1..Len(s) : u[j] = s[j]
        /\ \A j \in 1..Len(t) : u[Len(s) + j] = t[j]
        /\ DOMAIN s = 1..Len(s) /\ DOMAIN t = 1..Len(t) /\ DOMAIN u = 1..Len(u)
    <3>1. /\ s \in Seq(Output) /\ t \in Seq(Output) /\ u \in Seq(Output)
          /\ Len(u) = Len(s) + Len(t)
          /\ \A j \in 1..Len(s) : u[j] = s[j]
          /\ \A j \in 1..Len(t) : u[Len(s) + j] = t[j]
      <4>1. i \in 1..Len(c)
        BY <2>3
      <4>2. BlockAdds(c, f, i)
        BY <4>1, LayoutNext, Zenon
      <4> QED
        <5>1. s = f[i - 1] /\ t = Receives[c[i]] /\ u = f[i]
          BY <2>4, <2>5, <2>6, Zenon
        <5> QED
          BY <4>2, <5>1, Zenon DEF BlockAdds
    <3> QED
      BY <3>1, LenProperties, Zenon
  <2>8. \A x \in 1..Len(u) : \/ x \in 1..Len(s) /\ u[x] = s[x]
                             \/ x - Len(s) \in 1..Len(t) /\ u[x] = t[x - Len(s)]
    <3>1. ASSUME NEW x \in 1..Len(u), x \notin 1..Len(s)
          PROVE  x - Len(s) \in 1..Len(t) /\ u[x] = t[x - Len(s)]
      <4>1. x - Len(s) \in 1..Len(t) /\ Len(s) + (x - Len(s)) = x
        BY <2>7, <3>1
      <4> QED
        BY <2>7, <4>1
    <3> QED
      BY <2>7, <3>1
  <2>9. ASSUME NEW o PROVE o \in Range(u) <=> o \in Range(s) \/ o \in Range(t)
    <3>1. ASSUME NEW x \in 1..Len(u), o = u[x] PROVE o \in Range(s) \/ o \in Range(t)
      BY <2>7, <2>8, <3>1 DEF Range
    <3>2. ASSUME NEW x \in 1..Len(s), o = s[x] PROVE o \in Range(u)
      <4>1. x \in 1..Len(u)
        BY <2>7
      <4> QED
        BY <2>7, <3>2, <4>1 DEF Range
    <3>3. ASSUME NEW x \in 1..Len(t), o = t[x] PROVE o \in Range(u)
      <4>1. Len(s) + x \in 1..Len(u)
        BY <2>7
      <4> QED
        BY <2>7, <3>3, <4>1 DEF Range
    <3> QED
      BY <2>7, <3>1, <3>2, <3>3 DEF Range
  <2>10. \A o : o \in Range(t) <=> ReceivedAt(c, i, o)
    BY <2>5 DEF ReceivedAt
  <2>11. \A o : o \in Range(s) <=> \E j \in 1..m : ReceivedAt(c, j, o)
    BY <2>3, <2>4
  <2>12. \A j : j \in 1..m + 1 <=> j \in 1..m \/ j = i
    BY <2>2, <2>3
  <2>13. \A o : o \in Range(u) <=> \E j \in 1..m + 1 : ReceivedAt(c, j, o)
    BY <2>9, <2>10, <2>11, <2>12
  <2>14. ASSUME NoRepeats(c), NEW x \in 1..Len(u), NEW y \in 1..Len(u), u[x] = u[y] PROVE x = y
    <3>1. \A a, b \in 1..Len(s) : s[a] = s[b] => a = b
      BY <2>3, <2>4, <2>14
    <3>2. \A a, b \in 1..Len(t) : t[a] = t[b] => a = b
      <4>1. c[i] \in Tx
        BY <2>3
      <4> QED
        BY <2>5, <2>7, <4>1, WalletAssumption, ZenonT(40) DEF IsInjective
    <3>3. ASSUME NEW a \in 1..Len(s), NEW b \in 1..Len(t), s[a] = t[b] PROVE FALSE
      <4>1. s[a] \in Range(s) /\ s[a] \in Range(t)
        BY <2>7, <3>3 DEF Range
      <4>2. PICK j \in 1..m : s[a] \in Range(Receives[c[j]])
        BY <2>11, <4>1 DEF ReceivedAt
      <4>3. c[j] \in Tx /\ c[i] \in Tx /\ j \in DOMAIN c /\ i \in DOMAIN c /\ j # i
        BY <1>0, <2>2, <2>3, <4>2
      <4>4. c[j] = c[i]
        BY <2>5, <4>1, <4>2, <4>3, WalletAssumption
      <4> QED
        BY <2>14, <4>3, <4>4 DEF NoRepeats
    <3>4. CASE x \in 1..Len(s) /\ y \in 1..Len(s)
      BY <2>7, <2>14, <3>1, <3>4
    <3>5. CASE x \in 1..Len(s) /\ y \notin 1..Len(s)
      BY <2>7, <2>8, <2>14, <3>3, <3>5
    <3>6. CASE x \notin 1..Len(s) /\ y \in 1..Len(s)
      <4>1. y \in 1..Len(s) /\ u[y] = s[y] /\ x - Len(s) \in 1..Len(t) /\ u[x] = t[x - Len(s)]
        BY <2>7, <2>8, <3>6
      <4> QED
        BY <2>14, <3>3, <4>1
    <3>7. CASE x \notin 1..Len(s) /\ y \notin 1..Len(s)
      <4>1. /\ x - Len(s) \in 1..Len(t) /\ u[x] = t[x - Len(s)]
            /\ y - Len(s) \in 1..Len(t) /\ u[y] = t[y - Len(s)]
        BY <2>8, <3>7
      <4>2. x - Len(s) = y - Len(s)
        BY <2>14, <3>2, <4>1
      <4> QED
        BY <2>7, <4>2
    <3> QED
      BY <3>4, <3>5, <3>6, <3>7
  <2> QED
    BY <2>2, <2>6, <2>13, <2>14
<1>3. S = Nat
  <2>1. S \in SUBSET Nat
    OBVIOUS
  <2> HIDE DEF S
  <2> QED
    BY <1>1, <1>2, <2>1, Reaches
<1>4. k \in S /\ k <= Len(c)
  BY <1>0, <1>3
<1>5. Good(k)
  BY <1>4
<1> QED
  BY <1>5

\* The id of an output is its place in the chain.
LEMMA IndexedFacts ==
  ASSUME NEW c \in Seq(Tx), NoRepeats(c)
  PROVE  /\ \A o : o \in Range(Indexed(c)) <=> \E i \in DOMAIN c : ReceivedAt(c, i, o)
         /\ \A o \in Range(Indexed(c)) : IdOf(c, o) \in DOMAIN Indexed(c) /\ Indexed(c)[IdOf(c, o)] = o
<1>1. PICK f : Layout(c, f) /\ Indexed(c) = f[Len(c)]
  BY LayoutExists
<1>2. Len(c) \in 0..Len(c) /\ DOMAIN c = 1..Len(c)
  OBVIOUS
<1>3. \A o : o \in Range(Indexed(c)) <=> \E i \in DOMAIN c : ReceivedAt(c, i, o)
  BY <1>1, <1>2, LayoutOutputs
<1>4. ASSUME NEW o \in Range(Indexed(c))
      PROVE  IdOf(c, o) \in DOMAIN Indexed(c) /\ Indexed(c)[IdOf(c, o)] = o
  <2>1. \E n \in DOMAIN Indexed(c) : Indexed(c)[n] = o
    BY DEF Range
  <2> QED
    BY <2>1 DEF IdOf
<1> QED
  BY <1>3, <1>4

\* Two chains share their first n blocks.
SameUpto(c, d, n) == n \in Nat /\ n <= Len(c) /\ n <= Len(d) /\ \A i \in 1..n : c[i] = d[i]

\* Outputs of blocks that two chains share have the same id in both.
LEMMA SameIds ==
  ASSUME NEW c \in Seq(Tx), NEW d \in Seq(Tx), NoRepeats(c), NoRepeats(d),
         NEW n, SameUpto(c, d, n), NEW m \in 1..n, NEW o, ReceivedAt(c, m, o)
  PROVE  IdOf(c, o) = IdOf(d, o)
<1>0. n \in Nat /\ n <= Len(c) /\ n <= Len(d) /\ \A i \in 1..n : c[i] = d[i]
  BY DEF SameUpto
<1>1. PICK f : Layout(c, f) /\ Indexed(c) = f[Len(c)]
  BY LayoutExists
<1>2. PICK g : Layout(d, g) /\ Indexed(d) = g[Len(d)]
  BY LayoutExists
<1>3. Len(c) \in Nat /\ Len(d) \in Nat
  OBVIOUS
<1>4. \A i \in 0..n : f[i] = g[i]
  <2>1. f[0] = g[0]
    BY <1>1, <1>2 DEF Layout
  <2>2. \A i \in 1..n : i \in 1..Len(c) /\ i \in 1..Len(d)
    BY <1>0, <1>3
  <2>3. \A i \in 1..n : f[i - 1] = g[i - 1] => f[i] = g[i]
    BY <1>0, <1>1, <1>2, <2>2 DEF Layout
  <2> QED
    BY <1>0, <2>1, <2>3, SameRounds, ZenonT(40)
<1>5. n \in 0..Len(c) /\ n \in 0..Len(d) /\ Len(c) \in n..Len(c) /\ Len(d) \in n..Len(d) /\ n \in 0..n
  BY <1>0, <1>3
<1>6. o \in Range(f[n])
  BY <1>1, <1>5, LayoutOutputs
<1>7. f[n] \in Seq(Output) /\ f[Len(c)] \in Seq(Output) /\ g[Len(d)] \in Seq(Output) /\ f[n] = g[n]
  BY <1>1, <1>2, <1>4, <1>5 DEF Layout
<1>8. PICK j \in 1..Len(f[n]) : f[n][j] = o
  BY <1>6, <1>7 DEF Range
<1>9. Len(f[n]) <= Len(f[Len(c)]) /\ f[Len(c)][j] = o
  <2>1. Layout(c, f) /\ n \in 0..Len(c) /\ Len(c) \in n..Len(c)
    BY <1>1, <1>5
  <2>2. Len(f[n]) <= Len(f[Len(c)]) /\ \A x \in 1..Len(f[n]) : f[Len(c)][x] = f[n][x]
    BY ONLY <2>1, LayoutGrows, c \in Seq(Tx)
  <2> QED
    BY <1>8, <2>2, Zenon
<1>10. Len(g[n]) <= Len(g[Len(d)]) /\ g[Len(d)][j] = o
  BY <1>2, <1>5, <1>7, <1>8, LayoutGrows
<1>11. j \in DOMAIN Indexed(c) /\ Indexed(c)[j] = o /\ j \in DOMAIN Indexed(d) /\ Indexed(d)[j] = o
  <2>1. Len(f[n]) \in Nat /\ Len(f[Len(c)]) \in Nat /\ Len(g[Len(d)]) \in Nat
    BY <1>7
  <2>2. j \in 1..Len(f[Len(c)]) /\ j \in 1..Len(g[Len(d)])
    BY <1>7, <1>8, <1>9, <1>10, <2>1
  <2> QED
    BY <1>1, <1>2, <1>7, <1>9, <1>10, <2>2
<1>12. \A x \in DOMAIN Indexed(c) : Indexed(c)[x] = o => x = j
  <2>1. \A x, y \in 1..Len(f[Len(c)]) : f[Len(c)][x] = f[Len(c)][y] => x = y
    <3>1. Len(c) \in 0..Len(c)
      BY <1>3
    <3> QED
      BY <1>1, <3>1, LayoutOutputs
  <2> QED
    BY <1>1, <1>7, <1>11, <2>1
<1>13. \A x \in DOMAIN Indexed(d) : Indexed(d)[x] = o => x = j
  <2>1. \A x, y \in 1..Len(g[Len(d)]) : g[Len(d)][x] = g[Len(d)][y] => x = y
    <3>1. Len(d) \in 0..Len(d)
      BY <1>3
    <3> QED
      BY <1>2, <3>1, LayoutOutputs
  <2> QED
    BY <1>2, <1>7, <1>11, <2>1, SMTT(30)
<1>14. IdOf(c, o) = j
  BY <1>11, <1>12 DEF IdOf
<1>15. IdOf(d, o) = j
  BY <1>11, <1>13 DEF IdOf
<1> QED
  BY <1>14, <1>15

----------------------------------------------------------------------------
(* Ids are positions in the blocks table, and the sets that are added up   *)
(* are finite.                                                             *)

Ids == \A r \in outputs : r.id = IdOf(blocks, r.out)

Finite ==
  /\ IsFiniteSet(outputs)
  /\ IsFiniteSet(pool) /\ pool \subseteq Tx
  /\ IsFiniteSet(cache.txs) /\ cache \in [valid : BOOLEAN, at : Nat, txs : SUBSET Tx]

Times == now \in Nat /\ \A p \in pending \cup sending : p.recorded \in Nat

NumberInv == NoRepeats(chain) /\ NoRepeats(blocks) /\ Ids /\ Finite /\ Times

\* An id stands for one output of a row.
LEMMA IdsDiffer ==
  ASSUME WalletIInv, NoRepeats(blocks), Ids, NEW q \in outputs, NEW r \in outputs, q.id = r.id
  PROVE  q = r
<1>1. blocks \in Seq(Tx) /\ OutputFrom(q) /\ OutputFrom(r) /\ OnePub
  BY DEF WalletIInv, Chains, WalletTypes, Rows, TablesExact
<1>2. q.out \in Range(Indexed(blocks)) /\ r.out \in Range(Indexed(blocks))
  BY <1>1, IndexedFacts DEF OutputFrom, ReceivedAt
<1>3. Indexed(blocks)[q.id] = q.out /\ Indexed(blocks)[r.id] = r.out
  BY <1>1, <1>2, IndexedFacts DEF Ids
<1>4. q.out = r.out
  BY <1>3
<1> QED
  BY <1>1, <1>4 DEF OnePub

\* A mined transaction is new to the chain.
LEMMA MineNew ==
  ASSUME WalletTypes, NoRepeats(chain), NEW t \in Tx, mine(t)
  PROVE  NoRepeats(chain)'
<1>1. chain \in Seq(Tx) /\ Len(chain) \in Nat /\ chain' = Append(chain, t) /\ t \notin Range(chain)
  BY DEF WalletTypes, mine, Minable
<1>2. /\ DOMAIN chain' = 1..(Len(chain) + 1) /\ DOMAIN chain = 1..Len(chain)
      /\ chain'[Len(chain) + 1] = t
      /\ \A i \in 1..Len(chain) : chain'[i] = chain[i]
  BY <1>1
<1>3. \A i \in DOMAIN chain : chain[i] # t
  BY <1>1 DEF Range
<1>4. \A i \in DOMAIN chain' : i \in DOMAIN chain \/ i = Len(chain) + 1
  BY <1>1, <1>2
<1> QED
  BY <1>2, <1>3, <1>4 DEF NoRepeats

LEMMA ReorgNew ==
  ASSUME WalletTypes, NoRepeats(chain), NEW n \in 0..MaxHeight, reorg(n)
  PROVE  NoRepeats(chain)'
<1>1. chain \in Seq(Tx) /\ Len(chain) \in Nat /\ n \in Nat /\ n < Len(chain)
        /\ chain' = SubSeq(chain, 1, n)
  BY WalletAssumption DEF WalletTypes, reorg
<1>2. /\ DOMAIN chain' = 1..n /\ DOMAIN chain = 1..Len(chain)
      /\ \A i \in 1..n : chain'[i] = chain[i]
  BY <1>1
<1>3. 1..n \subseteq 1..Len(chain)
  BY <1>1
<1> QED
  BY <1>2, <1>3 DEF NoRepeats

\* The rows a scan adds are finitely many and have the ids of the chain.
LEMMA AddedRows ==
  ASSUME NEW t \in Tx, NEW h
  PROVE  /\ IsFiniteSet(Added(t, h))
         /\ \A r \in Added(t, h) : r.id = IdOf(blocks, r.out)
<1> DEFINE D == DOMAIN Receives[t]
           row == [n \in D |-> [height |-> h, out |-> Receives[t][n], id |-> IdOf(blocks, Receives[t][n])]]
           I == {m \in D : /\ \A r \in outputs : Pub[r.out] # Pub[Receives[t][m]]
                           /\ \A k \in 1..(m - 1) : Pub[Receives[t][k]] # Pub[Receives[t][m]]}
<1>1. Added(t, h) = {row[n] : n \in I}
  BY DEF Added
<1>2. IsFiniteSet(I)
  <2>1. Receives[t] \in Seq(Output)
    BY WalletAssumption
  <2>2. D = 1..Len(Receives[t]) /\ Len(Receives[t]) \in Nat
    BY <2>1
  <2>3. IsFiniteSet(D)
    BY <2>2, FS_Interval
  <2>4. I \in SUBSET D
    OBVIOUS
  <2> HIDE DEF I, D
  <2> QED
    BY <2>3, <2>4, FS_Subset
<1>3. IsFiniteSet({row[n] : n \in I})
  <2> HIDE DEF row, I
  <2> QED
    BY <1>2, FiniteImage
<1>4. \A n \in I : row[n].id = IdOf(blocks, row[n].out)
  OBVIOUS
<1> HIDE DEF row, I
<1> QED
  BY <1>1, <1>3, <1>4

\* The blocks table follows the daemon: the rows that stay are of blocks that
\* stay, and keep their ids.
LEMMA SyncNumbers ==
  ASSUME WalletIInv, NumberInv, sync_chain
  PROVE  NoRepeats(blocks)' /\ Ids' /\ IsFiniteSet(outputs')
<1>1. /\ WalletTypes /\ chain \in Seq(Tx) /\ blocks \in Seq(Tx) /\ blocks' = chain
      /\ NoRepeats(chain) /\ NoRepeats(blocks) /\ Ids /\ IsFiniteSet(outputs)
      /\ Len(blocks) \in Nat /\ Len(chain) \in Nat /\ DOMAIN blocks = 1..Len(blocks)
  BY DEF sync_chain, WalletIInv, Chains, WalletTypes, NumberInv, Finite
<1>2. /\ Common \in Nat /\ Common <= Len(blocks) /\ Common <= Len(chain)
      /\ \A i \in 1..Common : blocks[i] = chain[i]
  BY <1>1, CommonAgrees
<1>3. PICK n \in Nat :
        /\ n <= Len(blocks) /\ n <= Len(chain) /\ \A i \in 1..n : blocks[i] = chain[i]
        /\ \A r \in outputs' : r \in outputs /\ r.height <= n
  <2>1. CASE IsPrefix(blocks, chain)
    <3>1. outputs' = outputs
      BY <2>1 DEF sync_chain
    <3>2. Len(blocks) <= Len(chain) /\ \A i \in 1..Len(blocks) : blocks[i] = chain[i]
      BY <1>1, <2>1, PrefixAgrees
    <3>3. \A r \in outputs : r.height \in 1..Len(blocks)
      BY <1>1 DEF WalletIInv, Rows, OutputFrom
    <3> QED
      BY <1>1, <3>1, <3>2, <3>3
  <2>2. CASE ~ IsPrefix(blocks, chain)
    <3>1. outputs' = {r \in outputs : r.height < Common + 1}
      BY <2>2 DEF sync_chain, rollback
    <3>2. \A r \in outputs : r.height \in 1..Len(blocks)
      BY <1>1 DEF WalletIInv, Rows, OutputFrom
    <3>3. \A r \in outputs' : r \in outputs /\ r.height <= Common
      BY <1>1, <1>2, <3>1, <3>2
    <3> QED
      BY <1>2, <3>3
  <2> QED
    BY <2>1, <2>2
<1>4. ASSUME NEW r \in outputs' PROVE r.id = IdOf(chain, r.out)
  <2>1. r \in outputs /\ r.height \in 1..n /\ ReceivedAt(blocks, r.height, r.out)
    <3>1. r \in outputs /\ r.height <= n
      BY <1>3
    <3>2. OutputFrom(r)
      BY <3>1 DEF WalletIInv, Rows
    <3> QED
      BY <1>1, <3>1, <3>2 DEF OutputFrom, ReceivedAt
  <2>2. SameUpto(blocks, chain, n)
    BY <1>3 DEF SameUpto
  <2>3. IdOf(blocks, r.out) = IdOf(chain, r.out)
    BY <1>1, <2>1, <2>2, SameIds
  <2> QED
    BY <1>1, <2>1, <2>3 DEF Ids
<1>5. outputs' \in SUBSET outputs
  BY <1>3
<1> QED
  BY <1>1, <1>4, <1>5, FS_Subset DEF NoRepeats, Ids

LEMMA NumberInit ==
  ASSUME Init
  PROVE  NumberInv
<1>1. DOMAIN chain = {} /\ DOMAIN blocks = {}
  BY DEF Init
<1> QED
  BY <1>1, FS_EmptySet DEF Init, NumberInv, NoRepeats, Ids, Finite, Times

\* Steps that keep the blocks table and add no row.
LEMMA NumberKept ==
  ASSUME NumberInv, NoRepeats(chain)', UNCHANGED blocks, outputs' \subseteq outputs, Times', Finite'
  PROVE  NumberInv'
BY DEF NumberInv, NoRepeats, Ids

LEMMA NumberStep ==
  ASSUME WalletIInv, NumberInv, Next \/ UNCHANGED vars
  PROVE  NumberInv'
<1>0. WalletTypes /\ NoRepeats(chain) /\ NoRepeats(blocks) /\ Ids /\ Finite /\ Times
  BY DEF WalletIInv, Chains, NumberInv
<1>1. ASSUME NEW t \in Tx, mine(t) PROVE NumberInv'
  <2>1. pool' = pool \ {t} /\ UNCHANGED <<blocks, outputs, cache, pending, sending, now>>
    BY <1>1 DEF mine, sendVars
  <2>2. IsFiniteSet(pool')
    BY <1>0, <2>1, FS_RemoveElement DEF Finite
  <2>3. Finite' /\ Times'
    BY <1>0, <2>1, <2>2 DEF Finite, Times
  <2> QED
    BY <1>0, <1>1, <2>1, <2>3, MineNew, NumberKept
<1>2. ASSUME NEW n \in 0..MaxHeight, reorg(n) PROVE NumberInv'
  <2>1. UNCHANGED <<blocks, outputs, pool, cache, pending, sending, now>>
    BY <1>2 DEF reorg, poolVars, sendVars
  <2>2. Finite' /\ Times'
    BY <1>0, <2>1 DEF Finite, Times
  <2> QED
    BY <1>0, <1>2, <2>1, <2>2, ReorgNew, NumberKept
<1>3. ASSUME UNCHANGED <<chain, blocks>>, outputs' \subseteq outputs, Finite', Times'
      PROVE  NumberInv'
  <2>1. NoRepeats(chain)'
    BY <1>0, <1>3 DEF NoRepeats
  <2> QED
    BY <1>3, <2>1, NumberKept
<1>4. ASSUME NEW t \in Tx, enter_pool(t) PROVE NumberInv'
  <2>1. pool' = pool \cup {t} /\ UNCHANGED <<chain, blocks, outputs, cache, pending, sending, now>>
    BY <1>4 DEF enter_pool, chainVars, sendVars
  <2>2. IsFiniteSet(pool')
    BY <1>0, <2>1, FS_AddElement DEF Finite
  <2>3. Finite' /\ Times'
    BY <1>0, <2>1, <2>2 DEF Finite, Times
  <2> QED
    BY <1>3, <2>1, <2>3
<1>5. ASSUME scan_transaction PROVE NumberInv'
  <2>1. /\ scan + 1 \in DOMAIN blocks /\ blocks[scan + 1] \in Tx
        /\ outputs' = outputs \cup Added(blocks[scan + 1], scan + 1)
        /\ UNCHANGED <<chain, blocks, pool, cache, pending, sending, now>>
    BY <1>0, <1>5 DEF scan_transaction, WalletTypes, poolVars, sendVars
  <2>2. IsFiniteSet(outputs') /\ Ids'
    BY <1>0, <2>1, AddedRows, FS_Union DEF Finite, Ids
  <2> QED
    BY <1>0, <2>1, <2>2 DEF NumberInv, NoRepeats, Finite, Times
<1>6. ASSUME sync_chain PROVE NumberInv'
  <2>1. UNCHANGED <<chain, pool, cache, pending, sending, now>>
    BY <1>6 DEF sync_chain, poolVars, sendVars
  <2>2. NoRepeats(blocks)' /\ Ids' /\ IsFiniteSet(outputs')
    BY <1>6, SyncNumbers
  <2> QED
    BY <1>0, <2>1, <2>2 DEF NumberInv, NoRepeats, Finite, Times
<1>7. ASSUME NEW r \in Request, import_key_images(r) PROVE NumberInv'
  <2>1. UNCHANGED <<chain, blocks, outputs, pool, cache, pending, sending, now>>
    BY <1>7 DEF import_key_images, chainVars, poolVars, sendVars
  <2> QED
    BY <1>0, <1>3, <2>1 DEF Finite, Times
<1>8. ASSUME auto_rescan PROVE NumberInv'
  <2>1. outputs' \subseteq outputs /\ UNCHANGED <<chain, blocks, pool, cache, pending, sending, now>>
    BY <1>8 DEF auto_rescan, rollback, poolVars, sendVars
  <2>2. IsFiniteSet(outputs')
    BY <1>0, <2>1, FS_Subset DEF Finite
  <2> QED
    BY <1>0, <1>3, <2>1, <2>2 DEF Finite, Times
<1>9. ASSUME NEW r \in outputs, submit_raw_tx(r) PROVE NumberInv'
  <2>1. /\ sending' = sending \cup {[id |-> r.id, out |-> r.out, recorded |-> now]}
        /\ UNCHANGED <<chain, blocks, outputs, pool, cache, pending, now>>
    BY <1>9 DEF submit_raw_tx, chainVars, poolVars
  <2> QED
    BY <1>0, <1>3, <2>1 DEF Finite, Times
<1>10. ASSUME NEW p \in sending, record_pending_spends(p) \/ submit_failed(p) PROVE NumberInv'
  <2>1. /\ sending' \subseteq sending /\ pending' \subseteq pending \cup {p}
        /\ UNCHANGED <<chain, blocks, outputs, pool, cache, now>>
    BY <1>10 DEF record_pending_spends, submit_failed, chainVars, poolVars
  <2> QED
    BY <1>0, <1>3, <2>1 DEF Finite, Times
<1>11. ASSUME tick PROVE NumberInv'
  <2>1. now' = now + 1 /\ UNCHANGED <<chain, blocks, outputs, pool, cache, pending, sending>>
    BY <1>11 DEF tick, chainVars, poolVars, sendVars
  <2> QED
    BY <1>0, <1>3, <2>1 DEF Finite, Times
<1>12. ASSUME fetch_txpool_transactions \/ fetch_failed PROVE NumberInv'
  <2>1. /\ cache' = [valid |-> TRUE, at |-> now, txs |-> pool] \/ cache' = [cache EXCEPT !.valid = FALSE]
        /\ UNCHANGED <<chain, blocks, outputs, pool, pending, sending, now>>
    BY <1>12 DEF fetch_txpool_transactions, fetch_failed, chainVars, sendVars
  <2>2. IsFiniteSet(cache'.txs) /\ cache' \in [valid : BOOLEAN, at : Nat, txs : SUBSET Tx]
    <3>1. /\ cache \in [valid : BOOLEAN, at : Nat, txs : SUBSET Tx] /\ IsFiniteSet(cache.txs)
          /\ now \in Nat /\ pool \subseteq Tx /\ IsFiniteSet(pool)
      BY <1>0 DEF Finite, Times
    <3>2. CASE cache' = [valid |-> TRUE, at |-> now, txs |-> pool]
      BY <3>1, <3>2
    <3>3. CASE cache' = [cache EXCEPT !.valid = FALSE]
      <4>1. cache' \in [valid : BOOLEAN, at : Nat, txs : SUBSET Tx] /\ cache'.txs = cache.txs
        BY <3>1, <3>3
      <4> QED
        BY <3>1, <4>1
    <3> QED
      BY <2>1, <3>2, <3>3
  <2> QED
    BY <1>0, <1>3, <2>1, <2>2 DEF Finite, Times
<1>13. ASSUME UNCHANGED vars PROVE NumberInv'
  BY <1>0, <1>3, <1>13 DEF Finite, Times, vars, chainVars, poolVars, sendVars
<1> QED
  BY <1>1, <1>2, <1>4, <1>5, <1>6, <1>7, <1>8, <1>9, <1>10, <1>11, <1>12, <1>13 DEF Next

----------------------------------------------------------------------------
(* The sums of the handlers.                                               *)

AllRows == outputs \cup OverlayRows
Worth == [r \in AllRows |-> Amount[r.out]]
WorthOf(rows) == SumFunctionOnSet(Worth, rows)

\* The rows that are added up: finitely many, one per output.
LEMMA RowsCounted ==
  ASSUME WalletIInv, NumberInv
  PROVE  /\ IsFiniteSet(AllRows) /\ outputs \cap OverlayRows = {}
         /\ \A r \in AllRows : r.out \in Output
         /\ \A q, r \in AllRows : q.out = r.out => q = r
         /\ Numbers(Worth, AllRows)
<1>1. /\ blocks \in Seq(Tx) /\ \A r \in outputs : OutputFrom(r)
      /\ OnePub /\ IsFiniteSet(outputs) /\ IsFiniteSet(cache.txs) /\ cache.txs \subseteq Tx
  BY DEF WalletIInv, Chains, WalletTypes, Rows, TablesExact, NumberInv, Finite
<1>2. \A t \in Tx : IsFiniteSet(Range(Receives[t])) /\ Range(Receives[t]) \subseteq Output
  <2>1. ASSUME NEW t \in Tx
        PROVE  IsFiniteSet(Range(Receives[t])) /\ Range(Receives[t]) \subseteq Output
    <3>1. Receives[t] \in Seq(Output)
      BY WalletAssumption
    <3>2. DOMAIN Receives[t] = 1..Len(Receives[t]) /\ Len(Receives[t]) \in Nat
      BY <3>1
    <3>3. IsFiniteSet(DOMAIN Receives[t])
      BY <3>2, FS_Interval
    <3>4. IsFiniteSet({Receives[t][n] : n \in DOMAIN Receives[t]})
      BY <3>3, FiniteImage
    <3> QED
      BY <3>1, <3>4 DEF Range
  <2> QED
    BY <2>1
<1>3. IsFiniteSet(Overlay) /\ Overlay \subseteq Output
  <2>1. CASE Fresh
    <3> DEFINE range == [t \in Tx |-> Range(Receives[t])]
               Sets == {range[t] : t \in cache.txs}
    <3>1. IsFiniteSet(Sets)
      <4> HIDE DEF range
      <4> QED
        BY <1>1, FiniteImage
    <3>2. \A X \in Sets : IsFiniteSet(X) /\ X \subseteq Output
      BY <1>1, <1>2
    <3>3. Sets = {Range(Receives[t]) : t \in cache.txs}
      BY <1>1
    <3> HIDE DEF Sets
    <3>4. IsFiniteSet(UNION Sets) /\ UNION Sets \subseteq Output
      BY <3>1, <3>2, FS_UNION
    <3>5. Overlay \in SUBSET (UNION Sets)
      BY <2>1, <3>3 DEF Overlay
    <3> QED
      BY <3>4, <3>5, FS_Subset
  <2>2. CASE ~ Fresh
    BY <2>2, FS_EmptySet DEF Overlay
  <2> QED
    BY <2>1, <2>2
<1>4. \A o \in Overlay : \A r \in outputs : r.out # o
  BY DEF Overlay, output_exists_in_rows
<1> DEFINE b == [o \in Overlay |-> [height |-> 0, out |-> o, id |-> 0]]
<1>5. OverlayRows = {b[o] : o \in Overlay} /\ \A o \in Overlay : b[o].out = o
  BY DEF OverlayRows
<1>6. IsFiniteSet(OverlayRows)
  <2> HIDE DEF b
  <2> QED
    BY <1>3, <1>5, FiniteImage
<1>7. \A r \in OverlayRows : r.out \in Overlay /\ r = b[r.out]
  <2> HIDE DEF b
  <2> QED
    BY <1>5
<1> HIDE DEF b
<1>8. IsFiniteSet(AllRows)
  BY <1>1, <1>6, FS_Union DEF AllRows
<1>9. outputs \cap OverlayRows = {}
  BY <1>4, <1>7
<1>10. \A r \in AllRows : r.out \in Output
  <2>1. ASSUME NEW r \in outputs PROVE r.out \in Output
    <3>1. r.height \in DOMAIN blocks /\ r.out \in Range(Receives[blocks[r.height]])
      BY <1>1 DEF OutputFrom
    <3>2. blocks[r.height] \in Tx
      BY <1>1, <3>1
    <3> QED
      BY <1>2, <3>1, <3>2
  <2> QED
    BY <1>3, <1>7, <2>1 DEF AllRows
<1>11. \A q, r \in AllRows : q.out = r.out => q = r
  BY <1>1, <1>4, <1>7 DEF AllRows, OnePub
<1>12. Numbers(Worth, AllRows)
  BY <1>10, WalletAssumption DEF Numbers, Worth
<1> QED
  BY <1>8, <1>9, <1>10, <1>11, <1>12

LEMMA TotalIsSum ==
  ASSUME WalletIInv, NumberInv, NEW rows \in SUBSET AllRows
  PROVE  Total(rows) = WorthOf(rows) /\ WorthOf(rows) \in Nat
<1> DEFINE f == [r \in rows |-> Amount[r.out]]
<1>1. IsFiniteSet(AllRows) /\ Numbers(Worth, AllRows)
  BY RowsCounted
<1>2. IsFiniteSet(rows) /\ Numbers(Worth, rows) /\ \A r \in rows : Worth[r] = f[r]
  BY <1>1, FS_Subset DEF Numbers, Worth
<1>3. Total(rows) = SumFunctionOnSet(f, rows)
  BY DEF Total, SumFunction
<1> HIDE DEF f
<1> QED
  BY <1>2, <1>3, SumSame, SumType DEF WorthOf

\* Two sets of rows without a common row.
LEMMA SumTwo ==
  ASSUME WalletIInv, NumberInv, NEW S \in SUBSET AllRows, NEW T \in SUBSET AllRows, S \cap T = {}
  PROVE  WorthOf(S \cup T) = WorthOf(S) + WorthOf(T)
<1>1. IsFiniteSet(AllRows) /\ Numbers(Worth, AllRows)
  BY RowsCounted
<1>2. IsFiniteSet(S) /\ IsFiniteSet(T) /\ Numbers(Worth, S \cup T)
  BY <1>1, FS_Subset DEF Numbers
<1> QED
  BY <1>2, SumUnion DEF WorthOf

\* No output is counted twice.
LEMMA CountedOnce ==
  ASSUME WalletIInv, NumberInv
  PROVE  ReceivedOnce
<1> DEFINE b == [r \in AllRows |-> r.out]
<1>1. /\ IsFiniteSet(AllRows) /\ Numbers(Worth, AllRows)
      /\ \A q, r \in AllRows : b[q] = b[r] => q = r
      /\ \A r \in AllRows : Amount[b[r]] = Worth[r]
      /\ {b[r] : r \in AllRows} = {r.out : r \in AllRows}
  BY RowsCounted DEF Worth
<1>2. get_address_info.received = WorthOf(AllRows)
  BY TotalIsSum DEF get_address_info, AllRows
<1> HIDE DEF b
<1>3. SumFunctionOnSet(Amount, {b[r] : r \in AllRows}) = SumFunctionOnSet(Worth, AllRows)
  BY <1>1, SumImage
<1> QED
  BY <1>1, <1>2, <1>3 DEF ReceivedOnce, AllRows, WorthOf

\* A source of a confirmed image is among the ids that are left out.
LEMMA SentHidden == SentNotListed
<1> SUFFICES ASSUME NEW r \in Sources PROVE r.id \in confirmed_sources
  BY DEF SentNotListed, get_unspent_outs, Listed
<1>1. PICK k \in Known \cap confirmed : r \in find_output_by_imported_source(k)
  BY DEF Sources
<1>2. PICK c \in imported : c.image = k /\ c.id = r.id
  BY <1>1 DEF find_output_by_imported_source
<1> QED
  BY <1>1, <1>2 DEF confirmed_sources

\* The amounts of transactions add up to the amounts of their rows.
LEMMA ByTransaction ==
  ASSUME WalletIInv, NumberInv, NEW S \in SUBSET AllRows, NEW D, IsFiniteSet(D),
         NEW m, \A r \in S : m[r] \in D,
         NEW h, DOMAIN h = D, \A t \in D : h[t] = Total({r \in S : m[r] = t})
  PROVE  SumFunction(h) = Total(S)
<1>1. IsFiniteSet(S) /\ Numbers(Worth, S)
  <2>1. IsFiniteSet(AllRows) /\ Numbers(Worth, AllRows)
    BY RowsCounted
  <2> QED
    BY <2>1, FS_Subset DEF Numbers
<1>2. \A t \in D : h[t] = SumFunctionOnSet(Worth, {r \in S : m[r] = t})
  <2>1. ASSUME NEW t \in D PROVE h[t] = SumFunctionOnSet(Worth, {r \in S : m[r] = t})
    <3> DEFINE part == {r \in S : m[r] = t}
    <3>1. part \in SUBSET AllRows /\ h[t] = Total(part)
      OBVIOUS
    <3> HIDE DEF part
    <3>2. h[t] = SumFunctionOnSet(Worth, part)
      BY <3>1, TotalIsSum DEF WorthOf
    <3> QED
      BY <3>2 DEF part
  <2> QED
    BY <2>1
<1>3. SumFunctionOnSet(h, D) = SumFunctionOnSet(Worth, S)
  BY <1>1, <1>2, SumParts
<1> QED
  BY <1>3, TotalIsSum DEF SumFunction, WorthOf

\* /get_address_txs adds up to /get_address_info.
LEMMA TransactionsAddUp ==
  ASSUME WalletIInv, NumberInv
  PROVE  LET info == get_address_info
             txs == get_address_txs
         IN  /\ info.received = SumFunction([t \in DOMAIN txs |-> txs[t].amount])
             /\ info.sent = SumFunction([t \in DOMAIN txs |-> txs[t].spent])
<1> DEFINE D == {TxOf(r.out) : r \in AllRows} \cup {SpendOf(r).tx : r \in Sources}
           got == [r \in AllRows |-> TxOf(r.out)]
           gone == [r \in Sources |-> SpendOf(r).tx]
           amount == [t \in D |-> Total({r \in AllRows : TxOf(r.out) = t})]
           spent == [t \in D |-> Total({r \in Sources : SpendOf(r).tx = t})]
<1>1. Sources \in SUBSET AllRows /\ AllRows \in SUBSET AllRows
  BY DEF Sources, find_output_by_imported_source, AllRows
<1>2. D = {got[r] : r \in AllRows} \cup {gone[r] : r \in Sources}
  OBVIOUS
<1>3. IsFiniteSet(D)
  <2>1. IsFiniteSet(AllRows) /\ IsFiniteSet(Sources)
    BY <1>1, RowsCounted, FS_Subset
  <2> HIDE DEF got, gone
  <2>2. IsFiniteSet({got[r] : r \in AllRows}) /\ IsFiniteSet({gone[r] : r \in Sources})
    BY <2>1, FiniteImage
  <2> HIDE DEF D
  <2> QED
    BY <1>2, <2>2, FS_Union
<1>4. get_address_txs =
        [t \in D |-> [amount |-> Total({r \in AllRows : TxOf(r.out) = t}),
                      spent |-> Total({r \in Sources : SpendOf(r).tx = t})]]
  BY Zenon DEF get_address_txs, AllRows
<1>5. /\ [t \in DOMAIN get_address_txs |-> get_address_txs[t].amount] = amount
      /\ [t \in DOMAIN get_address_txs |-> get_address_txs[t].spent] = spent
  <2> HIDE DEF D
  <2> QED
    BY <1>4
<1>6. SumFunction(amount) = Total(AllRows)
  <2>1. /\ \A r \in AllRows : got[r] \in D
        /\ DOMAIN amount = D /\ \A t \in D : amount[t] = Total({r \in AllRows : got[r] = t})
    <3>1. \A t : {r \in AllRows : TxOf(r.out) = t} = {r \in AllRows : got[r] = t}
      OBVIOUS
    <3>2. \A r \in AllRows : got[r] \in D
      BY <1>2
    <3> HIDE DEF D, got
    <3> QED
      BY <3>1, <3>2
  <2> HIDE DEF D, got, amount
  <2> QED
    BY <1>1, <1>3, <2>1, ByTransaction
<1>7. SumFunction(spent) = Total(Sources)
  <2>1. /\ \A r \in Sources : gone[r] \in D
        /\ DOMAIN spent = D /\ \A t \in D : spent[t] = Total({r \in Sources : gone[r] = t})
    <3>1. \A t : {r \in Sources : SpendOf(r).tx = t} = {r \in Sources : gone[r] = t}
      OBVIOUS
    <3>2. \A r \in Sources : gone[r] \in D
      BY <1>2
    <3> HIDE DEF D, gone
    <3> QED
      BY <3>1, <3>2
  <2> HIDE DEF D, gone, spent
  <2> QED
    BY <1>1, <1>3, <2>1, ByTransaction
<1>8. get_address_info.received = Total(AllRows) /\ get_address_info.sent = Total(Sources)
  BY DEF get_address_info, AllRows
<1> HIDE DEF amount, spent
<1> QED
  BY <1>5, <1>6, <1>7, <1>8

\* An output that is not sent is offered or held by a pending spend, once the
\* spent state is complete.
Held ==
  {r \in outputs \ Sources :
     \E p \in pending : p.id = r.id /\ p.out = r.out /\ now - p.recorded \in 0..Ttl}

LEMMA SentOfferedOrHeld ==
  ASSUME WalletIInv, NumberInv, ~ spent_state_incomplete
  PROVE  /\ outputs \ Sources = get_unspent_outs(0) \cup Held
         /\ get_unspent_outs(0) \cap Held = {}
<1>1. /\ ImagesExact /\ OneSource /\ now \in Nat /\ \A p \in pending : p.recorded \in Nat
      /\ NoRepeats(blocks) /\ Ids
  BY DEF WalletIInv, TablesExact, NumberInv, Times
<1>2. \A s \in spends : s.image \in confirmed /\ find_output_by_imported_source(s.image) # {}
  BY DEF spent_state_incomplete
<1>3. \A p \in pending : now - p.recorded \in 0..Ttl <=> Active(p)
  BY <1>1, WalletAssumption, SMTT(30) DEF Active
<1>4. ASSUME NEW s \in spends
      PROVE  \E c \in imported, r \in outputs : c.image = s.image /\ c.id = r.id /\ c.out = r.out
  BY <1>2 DEF find_output_by_imported_source
<1>5. ASSUME NEW r \in outputs \ Sources
      PROVE  r.id \notin confirmed_sources /\ ~ has_confirmed_spend_image_without_imported_source(r)
  <2>1. ASSUME NEW d \in imported, d.image \in Known \cap confirmed, d.id = r.id PROVE FALSE
    <3>1. PICK s \in spends : s.image = d.image
      BY <2>1 DEF Known
    <3>2. PICK c \in imported, q \in outputs : c.image = s.image /\ c.id = q.id /\ c.out = q.out
      BY <1>4
    <3>3. c = d
      BY <1>1, <3>1, <3>2 DEF OneSource
    <3>4. q = r
      BY <1>1, <2>1, <3>2, <3>3, IdsDiffer
    <3>5. r \in find_output_by_imported_source(d.image)
      BY <3>2, <3>3, <3>4 DEF find_output_by_imported_source
    <3> QED
      BY <1>5, <2>1, <3>5 DEF Sources
  <2>2. \A s \in spends : \E c \in imported : c.image = s.image
    BY <1>4
  <2>3. \A k \in images : \E s \in spends : k.image = s.image
    BY <1>1 DEF ImagesExact
  <2> QED
    BY <2>1, <2>2, <2>3 DEF confirmed_sources, has_confirmed_spend_image_without_imported_source
<1>6. \A r \in outputs : Amount[r.out] >= 0
  <2>1. \A r \in outputs : r \in AllRows
    BY DEF AllRows
  <2> QED
    BY <2>1, RowsCounted, WalletAssumption
<1>7. \A r \in outputs : r \in get_unspent_outs(0) <=> Listed(r)
  BY <1>6 DEF get_unspent_outs
<1>8. \A r \in outputs \ Sources :
        Listed(r) <=> ~ \E p \in pending : Active(p) /\ pending_spend_matches_output(p, r)
  BY <1>5 DEF Listed
<1>9. \A r \in outputs \ Sources :
        r \in Held <=> \E p \in pending : Active(p) /\ pending_spend_matches_output(p, r)
  BY <1>3 DEF Held, pending_spend_matches_output
<1>10. get_unspent_outs(0) \subseteq outputs \ Sources
  BY SentHidden DEF SentNotListed, get_unspent_outs
<1>11. Held \subseteq outputs \ Sources
  BY DEF Held
<1> QED
  BY <1>7, <1>8, <1>9, <1>10, <1>11

\* What was received is what was sent, what is offered, what is held and what
\* is in the pool.
LEMMA BalanceHolds ==
  ASSUME WalletIInv, NumberInv
  PROVE  Balanced
<1>1. Sources \in SUBSET AllRows /\ outputs \in SUBSET AllRows /\ OverlayRows \in SUBSET AllRows
  BY DEF Sources, find_output_by_imported_source, AllRows
<1>2. get_address_info.locked <= get_address_info.received
  <2> DEFINE locked == {r \in outputs : is_locked(r)} \cup OverlayRows
  <2>1. locked \in SUBSET AllRows /\ AllRows \in SUBSET AllRows
    BY <1>1
  <2>2. get_address_info.locked = Total(locked) /\ get_address_info.received = Total(AllRows)
    BY DEF get_address_info, AllRows
  <2> HIDE DEF locked
  <2> QED
    <3>1. IsFiniteSet(AllRows) /\ Numbers(Worth, AllRows)
      BY RowsCounted
    <3>2. SumFunctionOnSet(Worth, locked) <= SumFunctionOnSet(Worth, AllRows)
      BY <2>1, <3>1, SumPart
    <3>3. Total(locked) = WorthOf(locked) /\ Total(AllRows) = WorthOf(AllRows)
      BY <2>1, TotalIsSum
    <3> QED
      BY <2>2, <3>2, <3>3 DEF WorthOf
<1>3. ASSUME ~ spent_state_incomplete
      PROVE  get_address_info.received - get_address_info.sent
               = Total(get_unspent_outs(0)) + Total(Held) + Total(OverlayRows)
  <2>1. /\ outputs \ Sources = get_unspent_outs(0) \cup Held
        /\ get_unspent_outs(0) \cap Held = {}
    BY <1>3, SentOfferedOrHeld
  <2>2. Sources \subseteq outputs /\ outputs \cap OverlayRows = {}
    BY RowsCounted DEF Sources, find_output_by_imported_source
  <2> DEFINE unspent == get_unspent_outs(0)
             rest == outputs \ Sources
  <2>3. /\ unspent \in SUBSET AllRows /\ Held \in SUBSET AllRows /\ rest \in SUBSET AllRows
        /\ AllRows \in SUBSET AllRows
    BY <1>1, <2>1
  <2>4. get_address_info.received = Total(AllRows) /\ get_address_info.sent = Total(Sources)
    BY DEF get_address_info, AllRows
  <2>5. AllRows = outputs \cup OverlayRows /\ outputs = Sources \cup rest /\ Sources \cap rest = {}
    BY <2>2 DEF AllRows
  <2>6. WorthOf(AllRows) = WorthOf(outputs) + WorthOf(OverlayRows)
    BY <1>1, <2>2, SumTwo DEF AllRows
  <2> HIDE DEF unspent, rest
  <2>7. WorthOf(outputs) = WorthOf(Sources) + WorthOf(rest)
    BY <1>1, <2>3, <2>5, SumTwo
  <2>8. WorthOf(rest) = WorthOf(unspent) + WorthOf(Held)
    BY <2>1, <2>3, SumTwo DEF unspent, rest
  <2>9. /\ WorthOf(AllRows) \in Nat /\ WorthOf(outputs) \in Nat /\ WorthOf(OverlayRows) \in Nat
        /\ WorthOf(Sources) \in Nat /\ WorthOf(rest) \in Nat /\ WorthOf(unspent) \in Nat /\ WorthOf(Held) \in Nat
        /\ Total(AllRows) = WorthOf(AllRows) /\ Total(Sources) = WorthOf(Sources)
        /\ Total(unspent) = WorthOf(unspent) /\ Total(Held) = WorthOf(Held)
        /\ Total(OverlayRows) = WorthOf(OverlayRows)
    BY <1>1, <2>3, TotalIsSum
  <2> QED
    BY <2>4, <2>6, <2>7, <2>8, <2>9 DEF unspent
<1> QED
  BY <1>2, <1>3, SentHidden, CountedOnce, TransactionsAddUp DEF Balanced, Held, get_address_info

\* The handlers agree on what was received, what was sent and what is left, in
\* every state of scans, reorganisations, imports, pending spends and pools.
THEOREM BalanceKept == Spec => []Balanced
<1> DEFINE Inv == WalletIInv /\ NumberInv
<1>1. Init => Inv
  BY WalletInit, NumberInit
<1>2. Inv /\ [Next]_vars => Inv'
  BY WalletStep, NumberStep
<1>3. Inv => Balanced
  BY BalanceHolds
<1> QED
  BY <1>1, <1>2, <1>3, PTL DEF Spec

----------------------------------------------------------------------------
(* Why an output is left out.                                              *)

\* Ring members are received in earlier blocks.
RingsBefore(c) ==
  \A i \in DOMAIN c : \A p \in Rings[c[i]] : \A o \in p.ring :
    \E j \in DOMAIN c : j < i /\ ReceivedAt(c, j, o)

\* A spend is of a scanned block, and has a row for every output of its ring
\* that the account has.
Scanned == scan \in Nat /\ \A s \in spends : s.height <= scan

RingWhole ==
  \A s \in spends, r \in outputs : \A p \in Rings[blocks[s.height]] :
    p.image = s.image /\ r.out \in p.ring => \E q \in spends : q.image = s.image /\ q.source = r.id

RingInv == RingsBefore(chain) /\ RingsBefore(blocks) /\ Scanned /\ RingWhole

\* A source was in a request.  Until a block is detached it has the id of its
\* output, and the blocks table is behind the daemon.
Follows == Len(blocks) <= Len(chain) /\ \A i \in DOMAIN blocks : blocks[i] = chain[i]

SourceExact(c) == (\E j \in DOMAIN chain : ReceivedAt(chain, j, c.out)) /\ c.id = IdOf(chain, c.out)

SourceInv ==
  /\ \A c \in imported : \E r \in Request : c \in r.sources
  /\ reorgs \in Nat
  /\ reorgs = 0 => Follows /\ \A c \in imported : SourceExact(c)

\* An output is received in one block.
LEMMA ReceivedIn ==
  ASSUME NEW c \in Seq(Tx), NoRepeats(c), NEW i \in DOMAIN c, NEW j \in DOMAIN c, NEW o,
         ReceivedAt(c, i, o), ReceivedAt(c, j, o)
  PROVE  i = j
<1>1. c[i] \in Tx /\ c[j] \in Tx
  OBVIOUS
<1>2. c[i] = c[j]
  BY <1>1, WalletAssumption DEF ReceivedAt
<1> QED
  BY <1>2 DEF NoRepeats

LEMMA MineRings ==
  ASSUME WalletTypes, NoRepeats(chain), RingsBefore(chain), NEW t \in Tx, mine(t)
  PROVE  RingsBefore(chain)'
<1>1. /\ chain \in Seq(Tx) /\ Len(chain) \in Nat /\ chain' = Append(chain, t)
      /\ \A p \in Rings[t] : p.ring \subseteq Range(Indexed(chain))
  BY DEF WalletTypes, mine, Minable
<1>2. /\ DOMAIN chain' = 1..(Len(chain) + 1) /\ DOMAIN chain = 1..Len(chain)
      /\ chain'[Len(chain) + 1] = t
      /\ \A i \in 1..Len(chain) : chain'[i] = chain[i]
  BY <1>1
<1>3. ASSUME NEW i \in DOMAIN chain', NEW p \in Rings[chain'[i]], NEW o \in p.ring
      PROVE  \E j \in DOMAIN chain' : j < i /\ ReceivedAt(chain', j, o)
  <2>1. \E j \in DOMAIN chain : j < i /\ ReceivedAt(chain, j, o)
    <3>1. CASE i \in DOMAIN chain
      BY <1>2, <1>3, <3>1 DEF RingsBefore
    <3>2. CASE i \notin DOMAIN chain
      <4>1. i = Len(chain) + 1 /\ p \in Rings[t]
        BY <1>1, <1>2, <1>3, <3>2
      <4>2. o \in Range(Indexed(chain))
        BY <1>1, <1>3, <4>1
      <4>3. PICK j \in DOMAIN chain : ReceivedAt(chain, j, o)
        BY <1>1, <4>2, IndexedFacts
      <4> QED
        BY <1>1, <1>2, <4>1, <4>3
    <3> QED
      BY <3>1, <3>2
  <2>2. PICK j \in DOMAIN chain : j < i /\ ReceivedAt(chain, j, o)
    BY <2>1
  <2>3. j \in DOMAIN chain' /\ chain'[j] = chain[j]
    BY <1>1, <1>2
  <2> QED
    BY <2>2, <2>3 DEF ReceivedAt
<1> QED
  BY <1>3 DEF RingsBefore

LEMMA ReorgRings ==
  ASSUME WalletTypes, RingsBefore(chain), NEW n \in 0..MaxHeight, reorg(n)
  PROVE  RingsBefore(chain)'
<1>1. chain \in Seq(Tx) /\ Len(chain) \in Nat /\ n \in Nat /\ n < Len(chain)
        /\ chain' = SubSeq(chain, 1, n)
  BY WalletAssumption DEF WalletTypes, reorg
<1>2. /\ DOMAIN chain' = 1..n /\ DOMAIN chain = 1..Len(chain)
      /\ \A i \in 1..n : chain'[i] = chain[i]
  BY <1>1
<1>3. ASSUME NEW i \in DOMAIN chain', NEW p \in Rings[chain'[i]], NEW o \in p.ring
      PROVE  \E j \in DOMAIN chain' : j < i /\ ReceivedAt(chain', j, o)
  <2>1. i \in DOMAIN chain /\ p \in Rings[chain[i]] /\ i <= n
    BY <1>1, <1>2, <1>3
  <2>2. PICK j \in DOMAIN chain : j < i /\ ReceivedAt(chain, j, o)
    BY <1>3, <2>1 DEF RingsBefore
  <2>3. j \in DOMAIN chain' /\ chain'[j] = chain[j]
    BY <1>1, <1>2, <2>1, <2>2
  <2> QED
    BY <2>2, <2>3 DEF ReceivedAt
<1> QED
  BY <1>3 DEF RingsBefore

\* A scanned spend has a row for every ring member of the account; outputs that
\* are found later are in no ring that was scanned before.
LEMMA ScanRings ==
  ASSUME WalletIInv, NumberInv, RingInv, scan_transaction
  PROVE  RingInv'
<1> DEFINE h == scan + 1
           t == blocks[h]
<1>1. /\ h \in DOMAIN blocks /\ h \in Nat /\ scan \in Nat /\ scan < h
      /\ spends' = spends \cup Spent(t, h)
      /\ outputs' = outputs \cup Added(t, h)
      /\ scan' = h /\ UNCHANGED <<chain, blocks>>
      /\ blocks \in Seq(Tx) /\ NoRepeats(blocks) /\ Ids /\ RingsBefore(blocks)
  BY DEF scan_transaction, WalletIInv, Chains, WalletTypes, NumberInv, RingInv, Scanned
<1>2. \A s \in Spent(t, h) : s.height = h
  BY DEF Spent
<1>3. \A r \in Added(t, h) : ReceivedAt(blocks, h, r.out)
  <2>1. ASSUME NEW r \in Added(t, h) PROVE r.out \in Range(Receives[t])
    <3>1. PICK n \in DOMAIN Receives[t] :
            r = [height |-> h, out |-> Receives[t][n], id |-> IdOf(blocks, Receives[t][n])]
      BY DEF Added
    <3> QED
      BY <3>1 DEF Range
  <2> QED
    BY <2>1 DEF ReceivedAt
<1>4. ASSUME NEW s \in spends PROVE s.height <= scan /\ s.height \in DOMAIN blocks /\ s.height \in Nat
  <2>1. SpendFrom(s) /\ s.height <= scan
    BY DEF WalletIInv, Rows, RingInv, Scanned
  <2> QED
    BY <1>1, <2>1 DEF SpendFrom
<1> HIDE DEF h, t
<1>5. Scanned'
  <2>1. \A s \in spends' : s.height <= h
    BY <1>1, <1>2, <1>4
  <2> QED
    BY <1>1, <2>1 DEF Scanned
<1>6. ASSUME NEW r \in Added(t, h), NEW i \in DOMAIN blocks, i <= h, NEW p \in Rings[blocks[i]], r.out \in p.ring
      PROVE  FALSE
  <2>1. PICK j \in DOMAIN blocks : j < i /\ ReceivedAt(blocks, j, r.out)
    BY <1>1, <1>6 DEF RingsBefore
  <2>2. j = h
    BY <1>1, <1>3, <2>1, ReceivedIn
  <2>3. i \in Nat
    BY <1>1
  <2> QED
    BY <1>1, <1>6, <2>1, <2>2, <2>3
<1>7. ASSUME NEW r \in outputs, NEW p \in Rings[t], r.out \in p.ring
      PROVE  \E q \in Spent(t, h) : q.image = p.image /\ q.source = r.id
  <2>1. r \in Members(p)
    BY <1>1, <1>7 DEF Members, Ids
  <2> DEFINE q == [height |-> h, tx |-> t, image |-> p.image, source |-> r.id]
  <2>2. q \in Spent(t, h)
    BY <2>1 DEF Spent
  <2> QED
    BY <2>2
<1>8. ASSUME NEW s \in spends', NEW r \in outputs', NEW p \in Rings[blocks[s.height]],
             p.image = s.image, r.out \in p.ring
      PROVE  \E q \in spends' : q.image = s.image /\ q.source = r.id
  <2>1. s.height \in DOMAIN blocks /\ s.height <= h
    BY <1>1, <1>2, <1>4
  <2>2. r \in outputs
    BY <1>1, <1>6, <1>8, <2>1
  <2>3. CASE s \in spends
    BY <1>1, <1>8, <2>2, <2>3 DEF RingInv, RingWhole
  <2>4. CASE s \in Spent(t, h)
    <3>1. p \in Rings[t]
      BY <1>2, <1>8, <2>4 DEF t
    <3> QED
      BY <1>1, <1>7, <1>8, <2>2, <3>1
  <2> QED
    BY <1>1, <2>3, <2>4
<1>9. RingWhole'
  BY <1>1, <1>8 DEF RingWhole
<1> QED
  BY <1>1, <1>5, <1>9 DEF RingInv, RingsBefore, ReceivedAt

\* Spends of one image go together, so that what is left of a ring is whole.
LEMMA RollbackRings ==
  ASSUME WalletIInv, RingWhole, outputs' \subseteq outputs, NEW n \in Int,
         spends' = {s \in spends : s.height <= n},
         \A i \in DOMAIN blocks : i <= n => blocks'[i] = blocks[i]
  PROVE  RingWhole'
<1>1. ASSUME NEW s \in spends', NEW r \in outputs', NEW p \in Rings[blocks'[s.height]],
             p.image = s.image, r.out \in p.ring
      PROVE  \E q \in spends' : q.image = s.image /\ q.source = r.id
  <2>1. s \in spends /\ r \in outputs /\ s.height <= n
    OBVIOUS
  <2>2. SpendFrom(s)
    BY <2>1 DEF WalletIInv, Rows
  <2>3. p \in Rings[blocks[s.height]]
    BY <1>1, <2>1, <2>2 DEF SpendFrom
  <2>4. PICK q \in spends : q.image = s.image /\ q.source = r.id
    BY <1>1, <2>1, <2>3 DEF RingWhole
  <2>5. SpendFrom(q)
    BY DEF WalletIInv, Rows
  <2>6. q.height = s.height
    BY <2>2, <2>4, <2>5, OneHeight DEF WalletIInv
  <2> QED
    BY <2>1, <2>4, <2>6
<1> QED
  BY <1>1 DEF RingWhole

LEMMA SyncRings ==
  ASSUME WalletIInv, RingInv, sync_chain
  PROVE  RingInv'
<1>1. /\ WalletTypes /\ chain \in Seq(Tx) /\ blocks \in Seq(Tx) /\ blocks' = chain /\ chain' = chain
      /\ scan' = Least(scan, Common) /\ scan \in Nat
      /\ Len(blocks) \in Nat /\ Len(chain) \in Nat /\ DOMAIN blocks = 1..Len(blocks)
      /\ RingsBefore(chain) /\ RingWhole
  BY DEF sync_chain, WalletIInv, Chains, WalletTypes, RingInv
<1>2. /\ Common \in Nat /\ Common <= Len(blocks) /\ Common <= Len(chain)
      /\ \A i \in 1..Common : blocks[i] = chain[i]
      /\ IsPrefix(blocks, chain) => Common = Len(blocks)
  BY <1>1, CommonAgrees
<1>3. \A s \in spends : s.height \in 1..Len(blocks) /\ s.height <= scan
  BY <1>1 DEF WalletIInv, Rows, SpendFrom, RingInv, Scanned
<1>4. outputs' \subseteq outputs /\ spends' = {s \in spends : s.height <= Common}
  <2>1. CASE IsPrefix(blocks, chain)
    <3>1. outputs' = outputs /\ spends' = spends
      BY <2>1 DEF sync_chain
    <3> QED
      BY <1>2, <1>3, <2>1, <3>1
  <2>2. CASE ~ IsPrefix(blocks, chain)
    <3>1. /\ outputs' = {r \in outputs : r.height < Common + 1}
          /\ spends' = spends \ {s \in spends : s.height >= Common + 1}
      BY <2>2 DEF sync_chain, rollback
    <3> QED
      BY <1>2, <1>3, <3>1
  <2> QED
    BY <2>1, <2>2
<1>5. RingWhole'
  <2>1. PICK n \in Int : n = Common
    BY <1>2
  <2>2. \A i \in DOMAIN blocks : i <= n => blocks'[i] = blocks[i]
    <3>1. \A i \in 1..n : blocks'[i] = blocks[i]
      BY <1>1, <1>2, <2>1
    <3>2. \A i \in DOMAIN blocks : i <= n => i \in 1..n
      BY <1>1
    <3> QED
      BY <3>1, <3>2, Zenon
  <2>3. spends' = {s \in spends : s.height <= n}
    BY <1>4, <2>1
  <2> QED
    BY <1>1, <1>4, <2>1, <2>2, <2>3, RollbackRings
<1>6. Scanned'
  <2>1. \A s \in spends' : s.height \in Nat /\ s.height <= scan /\ s.height <= Common
    BY <1>3, <1>4
  <2> QED
    BY <1>1, <1>2, <2>1 DEF Scanned, Least
<1> QED
  BY <1>1, <1>5, <1>6 DEF RingInv, RingsBefore, ReceivedAt

LEMMA RescanRings ==
  ASSUME WalletIInv, RingInv, auto_rescan
  PROVE  RingInv'
<1>1. /\ rescan \in Nat /\ scan' = Least(scan, rescan) /\ scan \in Nat /\ UNCHANGED <<chain, blocks>>
      /\ RingsBefore(chain) /\ RingsBefore(blocks) /\ RingWhole
      /\ outputs' = {r \in outputs : r.height < rescan}
      /\ spends' = spends \ {s \in spends : s.height >= rescan}
  BY DEF auto_rescan, rollback, WalletIInv, Chains, WalletTypes, RingInv
<1>2. \A s \in spends : s.height \in Nat /\ s.height <= scan
  <2>1. DOMAIN blocks = 1..Len(blocks) /\ Len(blocks) \in Nat
    BY DEF WalletIInv, Chains, WalletTypes
  <2> QED
    BY <2>1 DEF WalletIInv, Rows, SpendFrom, RingInv, Scanned
<1>3. PICK n \in Int : n = rescan - 1
  BY <1>1
<1>4. outputs' \subseteq outputs /\ spends' = {s \in spends : s.height <= n}
  BY <1>1, <1>2, <1>3
<1>5. RingWhole'
  BY <1>1, <1>4, RollbackRings
<1>6. Scanned'
  <2>1. \A s \in spends' : s.height \in Nat /\ s.height <= scan /\ s.height <= rescan
    BY <1>1, <1>2, <1>3, <1>4
  <2> QED
    BY <1>1, <2>1 DEF Scanned, Least
<1> QED
  BY <1>1, <1>5, <1>6 DEF RingInv, RingsBefore, ReceivedAt

LEMMA RingInit ==
  ASSUME Init
  PROVE  RingInv /\ SourceInv
<1>1. /\ chain = <<>> /\ blocks = <<>> /\ DOMAIN chain = {} /\ DOMAIN blocks = {}
      /\ Len(chain) = 0 /\ Len(blocks) = 0
      /\ scan = 0 /\ spends = {} /\ outputs = {} /\ imported = {} /\ reorgs = 0
  BY DEF Init
<1>2. RingInv
  BY <1>1 DEF RingInv, RingsBefore, Scanned, RingWhole
<1> QED
  BY <1>1, <1>2 DEF SourceInv, Follows

\* Steps that keep the tables.
LEMMA RingElsewhere ==
  ASSUME RingInv, UNCHANGED <<blocks, scan, outputs, spends>>, RingsBefore(chain)'
  PROVE  RingInv'
BY DEF RingInv, RingsBefore, ReceivedAt, Scanned, RingWhole

LEMMA RingStep ==
  ASSUME WalletIInv, NumberInv, RingInv, Next \/ UNCHANGED vars
  PROVE  RingInv'
<1>0. WalletTypes /\ NoRepeats(chain) /\ RingsBefore(chain)
  BY DEF WalletIInv, Chains, NumberInv, RingInv
<1>1. ASSUME NEW t \in Tx, mine(t) PROVE RingInv'
  BY <1>0, <1>1, MineRings, RingElsewhere DEF mine
<1>2. ASSUME NEW n \in 0..MaxHeight, reorg(n) PROVE RingInv'
  BY <1>0, <1>2, ReorgRings, RingElsewhere DEF reorg
<1>3. ASSUME UNCHANGED chainVars PROVE RingInv'
  <2>1. RingsBefore(chain)'
    BY <1>0, <1>3 DEF chainVars, RingsBefore, ReceivedAt
  <2> QED
    BY <1>3, <2>1, RingElsewhere DEF chainVars
<1>4. CASE \E t \in Tx : enter_pool(t)
  BY <1>3, <1>4 DEF enter_pool
<1>5. CASE (\E r \in outputs : submit_raw_tx(r))
            \/ (\E p \in sending : record_pending_spends(p) \/ submit_failed(p))
  BY <1>3, <1>5 DEF submit_raw_tx, record_pending_spends, submit_failed
<1>6. CASE tick \/ fetch_txpool_transactions \/ fetch_failed
  BY <1>3, <1>6 DEF tick, fetch_txpool_transactions, fetch_failed
<1>7. CASE \E r \in Request : import_key_images(r)
  BY <1>3, <1>7 DEF import_key_images
<1>8. CASE UNCHANGED vars
  BY <1>3, <1>8 DEF vars
<1> QED
  BY <1>1, <1>2, <1>4, <1>5, <1>6, <1>7, <1>8, ScanRings, SyncRings, RescanRings DEF Next

\* Blocks that are added keep the ids of sources.
LEMMA MineSources ==
  ASSUME WalletIInv, NumberInv, SourceInv, NEW t \in Tx, mine(t)
  PROVE  SourceInv'
<1>1. /\ chain \in Seq(Tx) /\ blocks \in Seq(Tx) /\ Len(chain) \in Nat /\ Len(blocks) \in Nat
      /\ chain' = Append(chain, t)
      /\ UNCHANGED <<blocks, imported, reorgs>> /\ WalletTypes /\ NoRepeats(chain)
  BY DEF WalletIInv, Chains, WalletTypes, mine, keyVars, NumberInv
<1>2. /\ chain' \in Seq(Tx) /\ Len(chain') = Len(chain) + 1
      /\ DOMAIN chain = 1..Len(chain) /\ DOMAIN chain' = 1..(Len(chain) + 1)
      /\ \A i \in 1..Len(chain) : chain[i] = chain'[i]
  BY <1>1
<1>3. NoRepeats(chain')
  BY <1>1, MineNew DEF NoRepeats
<1>4. ASSUME NEW c, SourceExact(c) PROVE SourceExact(c)'
  <2>1. PICK j \in DOMAIN chain : ReceivedAt(chain, j, c.out)
    BY <1>4 DEF SourceExact
  <2>2. j \in 1..Len(chain) /\ j \in DOMAIN chain' /\ ReceivedAt(chain', j, c.out)
    BY <1>1, <1>2, <2>1 DEF ReceivedAt
  <2>3. Len(chain) <= Len(chain')
    BY <1>1, <1>2
  <2>4. IdOf(chain, c.out) = IdOf(chain', c.out)
    <3>1. SameUpto(chain, chain', Len(chain))
      BY <1>1, <1>2, <2>3 DEF SameUpto
    <3>2. PICK d : d = chain'
      OBVIOUS
    <3>3. /\ d \in Seq(Tx) /\ NoRepeats(d) /\ NoRepeats(chain) /\ chain \in Seq(Tx)
          /\ SameUpto(chain, d, Len(chain)) /\ j \in 1..Len(chain) /\ ReceivedAt(chain, j, c.out)
      BY <1>1, <1>2, <1>3, <2>1, <2>2, <3>1, <3>2, Zenon
    <3>4. IdOf(chain, c.out) = IdOf(d, c.out)
      BY <3>3, SameIds
    <3> QED
      BY <3>2, <3>4, Zenon
  <2>5. c.id = IdOf(chain', c.out)
    BY <1>4, <2>4 DEF SourceExact
  <2> QED
    BY <2>2, <2>5 DEF SourceExact, ReceivedAt, IdOf, Indexed
<1>5. Follows => Follows'
  <2>1. DOMAIN blocks = 1..Len(blocks)
    BY <1>1
  <2> QED
    BY <1>1, <1>2, <2>1 DEF Follows
<1> QED
  BY <1>1, <1>4, <1>5 DEF SourceInv

\* A source that is imported names a row; as long as the blocks table is behind
\* the daemon the row has the daemon's id.
LEMMA ImportSources ==
  ASSUME WalletIInv, NumberInv, SourceInv, NEW r \in Request, import_key_images(r)
  PROVE  SourceInv'
<1>1. /\ imported' = Replaced(r.sources) /\ UNCHANGED <<chain, blocks, outputs, reorgs>>
      /\ chain \in Seq(Tx) /\ blocks \in Seq(Tx) /\ NoRepeats(chain) /\ NoRepeats(blocks) /\ Ids
      /\ DOMAIN chain = 1..Len(chain) /\ DOMAIN blocks = 1..Len(blocks)
      /\ Len(chain) \in Nat /\ Len(blocks) \in Nat
  BY DEF import_key_images, chainVars, WalletIInv, Chains, WalletTypes, NumberInv
<1>2. \A c \in imported' : c \in imported \/ c \in Resolved(r.sources)
  BY <1>1 DEF Replaced
<1>3. Resolved(r.sources) \subseteq r.sources
  BY DEF Resolved
<1>4. ASSUME Follows, NEW c \in Resolved(r.sources) PROVE SourceExact(c)
  <2>1. PICK q \in outputs : q.id = c.id /\ q.out = c.out
    BY DEF Resolved
  <2>2. q.height \in DOMAIN blocks /\ ReceivedAt(blocks, q.height, q.out) /\ q.id = IdOf(blocks, q.out)
    BY <1>1 DEF WalletIInv, Rows, OutputFrom, ReceivedAt, Ids
  <2>3. q.height \in DOMAIN chain /\ blocks[q.height] = chain[q.height]
    BY <1>1, <1>4, <2>2 DEF Follows
  <2>4. SameUpto(blocks, chain, Len(blocks))
    BY <1>1, <1>4 DEF Follows, SameUpto
  <2>5. q.height \in 1..Len(blocks)
    BY <1>1, <2>2
  <2>6. IdOf(blocks, q.out) = IdOf(chain, q.out)
    BY <1>1, <2>2, <2>4, <2>5, SameIds
  <2> QED
    BY <2>1, <2>2, <2>3, <2>6 DEF SourceExact, ReceivedAt
<1>5. Follows' <=> Follows
  BY <1>1 DEF Follows
<1>6. \A c : SourceExact(c)' <=> SourceExact(c)
  BY <1>1 DEF SourceExact, ReceivedAt, IdOf, Indexed
<1> QED
  BY <1>1, <1>2, <1>3, <1>4, <1>5, <1>6 DEF SourceInv

LEMMA SourceKept ==
  ASSUME SourceInv, UNCHANGED <<chain, blocks, imported, reorgs>>
  PROVE  SourceInv'
<1>1. Follows' <=> Follows
  BY DEF Follows
<1>2. \A c : SourceExact(c)' <=> SourceExact(c)
  BY DEF SourceExact, ReceivedAt, IdOf, Indexed
<1> QED
  BY <1>1, <1>2 DEF SourceInv

LEMMA SourceStep ==
  ASSUME WalletIInv, NumberInv, SourceInv, Next \/ UNCHANGED vars
  PROVE  SourceInv'
<1>1. ASSUME NEW n \in 0..MaxHeight, reorg(n) PROVE SourceInv'
  <2>1. reorgs' = reorgs + 1 /\ imported' = imported
    BY <1>1 DEF reorg, keyVars
  <2> QED
    BY <2>1 DEF SourceInv
<1>2. ASSUME sync_chain PROVE SourceInv'
  <2>1. /\ blocks' = chain /\ chain' = chain /\ imported' = imported /\ reorgs' = reorgs
        /\ chain \in Seq(Tx) /\ Len(chain) \in Nat
    BY <1>2 DEF sync_chain, keyVars, WalletIInv, Chains, WalletTypes
  <2>2. Follows'
    BY <2>1 DEF Follows
  <2>3. \A c : SourceExact(c)' <=> SourceExact(c)
    BY <2>1 DEF SourceExact, ReceivedAt, IdOf, Indexed
  <2> QED
    BY <2>1, <2>2, <2>3 DEF SourceInv
<1>3. CASE scan_transaction \/ auto_rescan
  BY <1>3, SourceKept DEF scan_transaction, auto_rescan, keyVars
<1>4. CASE UNCHANGED <<chainVars, imported>>
  BY <1>4, SourceKept DEF chainVars
<1>5. CASE \E t \in Tx : enter_pool(t)
  BY <1>4, <1>5 DEF enter_pool, keyVars
<1>6. CASE (\E r \in outputs : submit_raw_tx(r))
            \/ (\E p \in sending : record_pending_spends(p) \/ submit_failed(p))
  BY <1>4, <1>6 DEF submit_raw_tx, record_pending_spends, submit_failed, keyVars
<1>7. CASE tick \/ fetch_txpool_transactions \/ fetch_failed
  BY <1>4, <1>7 DEF tick, fetch_txpool_transactions, fetch_failed, keyVars
<1>8. CASE UNCHANGED vars
  BY <1>4, <1>8 DEF vars, keyVars
<1> QED
  BY <1>1, <1>2, <1>3, <1>5, <1>6, <1>7, <1>8, MineSources, ImportSources DEF Next

\* An output that is not offered may be spent by a confirmed image, or a
\* transaction that was just sent spends it.
LEMMA OfferedHolds ==
  ASSUME HonestSources, WalletIInv, NumberInv, RingInv, SourceInv
  PROVE  Offered
<1> SUFFICES ASSUME reorgs = 0, NEW r \in outputs, r \notin get_unspent_outs(0)
             PROVE  \/ \E s \in spends : s.source = r.id /\ s.image \in confirmed
                    \/ \E p \in pending : p.out = r.out /\ now <= p.recorded + Ttl
  BY DEF Offered
<1>1. /\ ImagesExact /\ now \in Nat /\ \A p \in pending : p.recorded \in Nat
      /\ NoRepeats(blocks) /\ NoRepeats(chain) /\ Ids
      /\ chain \in Seq(Tx) /\ blocks \in Seq(Tx) /\ Follows
      /\ DOMAIN chain = 1..Len(chain) /\ DOMAIN blocks = 1..Len(blocks)
      /\ Len(chain) \in Nat /\ Len(blocks) \in Nat
  BY DEF WalletIInv, Chains, WalletTypes, TablesExact, NumberInv, Times, SourceInv
<1>2. ~ Listed(r)
  <2>1. Amount[r.out] >= 0
    <3>1. r \in AllRows
      BY DEF AllRows
    <3> QED
      BY <3>1, RowsCounted, WalletAssumption
  <2> QED
    BY <2>1 DEF get_unspent_outs
<1>3. CASE has_confirmed_spend_image_without_imported_source(r)
  <2>1. PICK k \in images : k.id = r.id /\ k.image \in confirmed
    BY <1>3 DEF has_confirmed_spend_image_without_imported_source
  <2>2. PICK s \in spends : k = [id |-> s.source, image |-> s.image]
    BY <1>1, <2>1 DEF ImagesExact
  <2> QED
    BY <2>1, <2>2
<1>4. CASE \E p \in pending : Active(p) /\ pending_spend_matches_output(p, r)
  <2>1. PICK p \in pending : Active(p) /\ pending_spend_matches_output(p, r)
    BY <1>4
  <2>2. p.out = r.out /\ now - p.recorded <= Ttl /\ p.recorded \in Nat /\ now \in Nat
    BY <1>1, <2>1 DEF Active, pending_spend_matches_output
  <2>3. now <= p.recorded + Ttl
    BY <2>2, WalletAssumption, SMTT(30)
  <2> QED
    BY <2>2, <2>3
<1>5. CASE r.id \in confirmed_sources
  <2>1. CASE \E q \in spends : q.image \in confirmed /\ q.source = r.id
    BY <2>1
  <2>2. ASSUME NEW d \in imported, d.image \in Known \cap confirmed, d.id = r.id
        PROVE  \E s \in spends : s.source = r.id /\ s.image \in confirmed
    <3>1. PICK s \in spends : s.image = d.image
      BY <2>2 DEF Known
    <3>2. SpendFrom(s) /\ OutputFrom(r)
      BY DEF WalletIInv, Rows
    <3>3. PICK p \in Rings[blocks[s.height]] : p.image = s.image
      BY <3>2 DEF SpendFrom
    <3>4. SourceExact(d)
      BY DEF SourceInv
    <3>5. d.out \in Range(Indexed(chain)) /\ Indexed(chain)[d.id] = d.out
      BY <1>1, <3>4, IndexedFacts DEF SourceExact
    <3>6. r.height \in DOMAIN blocks /\ ReceivedAt(blocks, r.height, r.out)
      BY <3>2 DEF OutputFrom, ReceivedAt
    <3>7. r.height \in DOMAIN chain /\ ReceivedAt(chain, r.height, r.out)
      BY <1>1, <3>6 DEF Follows, ReceivedAt
    <3>8. IdOf(blocks, r.out) = IdOf(chain, r.out)
      <4>1. SameUpto(blocks, chain, Len(blocks))
        BY <1>1 DEF Follows, SameUpto
      <4>2. r.height \in 1..Len(blocks)
        BY <1>1, <3>6
      <4> QED
        BY <1>1, <3>6, <4>1, <4>2, SameIds
    <3>9. Indexed(chain)[r.id] = r.out
      BY <1>1, <3>7, <3>8, IndexedFacts DEF Ids
    <3>10. r.out \in p.ring
      <4>1. blocks[s.height] \in Tx
        BY <1>1, <3>2 DEF SpendFrom
      <4>2. \E q \in Request : d \in q.sources
        BY DEF SourceInv
      <4>3. d.out \in p.ring
        BY <3>1, <3>3, <4>1, <4>2 DEF HonestSources
      <4> QED
        BY <2>2, <3>5, <3>9, <4>3
    <3>11. PICK q \in spends : q.image = s.image /\ q.source = r.id
      BY <3>3, <3>10 DEF RingInv, RingWhole
    <3> QED
      BY <2>2, <3>1, <3>11
  <2> QED
    BY <1>5, <2>1, <2>2 DEF confirmed_sources
<1> QED
  BY <1>2, <1>3, <1>4, <1>5 DEF Listed

\* No output is frozen: until a block is detached, an output that is left out
\* of /get_unspent_outs may be spent by a confirmed image, or a transaction of
\* the last day spends it.  The wallet's sources are outputs that the input
\* with their image could spend; the server does not check that.
THEOREM OfferedKept ==
  ASSUME HonestSources
  PROVE  Spec => []Offered
<1> DEFINE Inv == WalletIInv /\ NumberInv /\ RingInv /\ SourceInv
<1>1. Init => Inv
  BY WalletInit, NumberInit, RingInit
<1>2. Inv /\ [Next]_vars => Inv'
  BY WalletStep, NumberStep, RingStep, SourceStep
<1>3. Inv => Offered
  BY OfferedHolds
<1> QED
  BY <1>1, <1>2, <1>3, PTL DEF Spec

=============================================================================
