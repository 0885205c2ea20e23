------------------------------- MODULE Wallet -------------------------------
(***************************************************************************)
(* The outputs, spends and key images of one account, and what the REST    *)
(* server makes of them: /get_address_info, /get_address_txs,              *)
(* /get_unspent_outs, /import_key_images and the pending spends that       *)
(* /submit_raw_tx leaves behind (src/src/rest_server.cpp, scanner.cpp,     *)
(* db/storage.cpp).                                                        *)
(*                                                                         *)
(* The server has the view key only: an input names a ring of outputs, and *)
(* every ring member of the account becomes a spend row.  Which of them is *)
(* spent is known once the wallet imports its key images.                  *)
(*                                                                         *)
(* A block has one transaction.  An output stands for its transaction      *)
(* hash, index and public key together; its id is the global index, which  *)
(* the chain gives it and a reorganisation may change.  A ring that was    *)
(* made again after a reorganisation keeps its key image.                  *)
(***************************************************************************)
EXTENDS Integers, Sequences, FiniteSets, SequencesExt

CONSTANTS
  Output, Image, Tx,
  Amount,            \* [Output -> Nat]
  Pub,               \* public key of an output; two outputs may share one
  Unlock,            \* [Output -> Nat]: unlock_time of the transaction
  Direct,            \* outputs to the main address, not to a subaddress
  Receives,          \* [Tx -> sequence of outputs]
  Rings,             \* [Tx -> set of inputs: key image and set of outputs]
  Request,           \* bodies of /import_key_images: images, and exact sources
                     \* (at most one per image; more would be a second request)
  SpendableAge,      \* CRYPTONOTE_DEFAULT_TX_SPENDABLE_AGE
  AllowedDelta,      \* CRYPTONOTE_LOCKED_TX_ALLOWED_DELTA_BLOCKS
  Ttl,               \* pending_spend_ttl_seconds
  CacheTimeout,      \* txpool_overlay_cache_timeout
  MinConfirmed,      \* auto_rescan_min_confirmed_spends
  RescanDepth,       \* auto_rescan_depth
  AutoRescan,        \* auto_rescan_after_key_images
  Pooled,            \* bound: transactions that are seen in the pool
  MaxHeight, MaxReorgs, MaxNow, MaxImports, MaxSubmits      \* bounds

ASSUME WalletAssumption ==
  /\ Amount \in [Output -> Nat] /\ Unlock \in [Output -> Nat]
  /\ DOMAIN Pub = Output /\ Direct \subseteq Output
  /\ Receives \in [Tx -> Seq(Output)] /\ \A t \in Tx : IsInjective(Receives[t])
  /\ \A t, u \in Tx : Range(Receives[t]) \cap Range(Receives[u]) # {} => t = u
  /\ Rings \in [Tx -> SUBSET [image : Image, ring : SUBSET Output]]
  /\ Request \subseteq [images : SUBSET Image,
                         sources : SUBSET [image : Image, id : Nat, out : Output]]
  /\ \A r \in Request : \A c, d \in r.sources : c.image = d.image => c = d
  /\ {SpendableAge, AllowedDelta, Ttl, CacheTimeout, MinConfirmed, RescanDepth} \subseteq Nat
  /\ {MaxHeight, MaxReorgs, MaxNow, MaxImports, MaxSubmits} \subseteq Nat
  /\ AutoRescan \in BOOLEAN

VARIABLES
  chain,      \* the daemon's blocks, one transaction each
  blocks,     \* the blocks table
  scan,       \* scan_height of the account
  outputs,    \* outputs table: [height, out, id]
  spends,     \* spends table: [height, tx, image, source]
  images,     \* key_images table: [id, image]
  confirmed,  \* confirmed_spends table
  imported,   \* imported_spend_sources table: [image, id, out]
  pending,    \* pending_spends table: [id, out, recorded]
  pool,       \* the daemon's transaction pool
  cache,      \* cached_transactions, cached_at and cached_valid
  sending,    \* pending spends of transactions the daemon has not answered yet
  rescan,     \* height of an automatic rescan that was decided, or None
  now, reorgs, imports, submits

chainVars == <<chain, blocks, scan, outputs, spends, images, reorgs>>
poolVars == <<pool, cache>>
keyVars == <<confirmed, imported, imports, rescan>>
sendVars == <<pending, sending, submits>>
vars == <<chainVars, poolVars, keyVars, sendVars, now>>

None == -1

Total(rows) == SumFunction([r \in rows |-> Amount[r.out]])

Least(m, n) == IF m <= n THEN m ELSE n

-----------------------------------------------------------------------------
(* The chain.                                                              *)

\* All outputs of a chain; the position is the global index.
Indexed(c) == FlattenSeq([i \in DOMAIN c |-> Receives[c[i]]])
IdOf(c, o) == CHOOSE n \in DOMAIN Indexed(c) : Indexed(c)[n] = o

ImagesOf(c) == UNION {{in.image : in \in Rings[c[i]]} : i \in DOMAIN c}

\* The daemon takes a transaction whose rings exist and whose images are new.
Minable(t) ==
  /\ t \notin Range(chain)
  /\ \A in \in Rings[t] :
       in.ring \subseteq Range(Indexed(chain)) /\ in.image \notin ImagesOf(chain)

mine(t) ==
  /\ Len(chain) < MaxHeight
  /\ Minable(t)
  /\ chain' = Append(chain, t)
  /\ pool' = pool \ {t}
  /\ UNCHANGED <<blocks, scan, outputs, spends, images, reorgs, cache, keyVars, sendVars, now>>

reorg(n) ==
  /\ reorgs < MaxReorgs
  /\ n < Len(chain)
  /\ chain' = SubSeq(chain, 1, n)
  /\ reorgs' = reorgs + 1
  /\ UNCHANGED <<blocks, scan, outputs, spends, images, poolVars, keyVars, sendVars, now>>

enter_pool(t) ==
  /\ t \in Pooled \ pool
  /\ Minable(t)
  /\ pool' = pool \cup {t}
  /\ UNCHANGED <<chainVars, cache, keyVars, sendVars, now>>

-----------------------------------------------------------------------------
(* Scanning.                                                               *)

\* The ring members the account can tell are its own, by their ids.
Members(in) == {r \in outputs : \E o \in in.ring : IdOf(blocks, o) = r.id}

Spent(t, h) ==
  UNION {{[height |-> h, tx |-> t, image |-> in.image, source |-> r.id] : r \in Members(in)} :
           in \in Rings[t]}

\* add_out: an output whose public key the account has already is not added.
Added(t, h) ==
  {[height |-> h, out |-> Receives[t][n], id |-> IdOf(blocks, Receives[t][n])] :
     n \in {m \in DOMAIN Receives[t] :
              /\ \A r \in outputs : Pub[r.out] # Pub[Receives[t][m]]
              /\ \A k \in 1..(m - 1) : Pub[Receives[t][k]] # Pub[Receives[t][m]]}}

scan_transaction ==
  LET h == scan + 1
      t == blocks[h]
  IN /\ scan < Len(blocks)
     /\ IsPrefix(blocks, chain)
     /\ spends' = spends \cup Spent(t, h)
     /\ images' = images \cup {[id |-> s.source, image |-> s.image] : s \in Spent(t, h)}
     /\ outputs' = outputs \cup Added(t, h)
     /\ scan' = h
     /\ UNCHANGED <<chain, blocks, reorgs, poolVars, keyVars, sendVars, now>>

rollback_above(h) ==
  LET gone == {s \in spends : s.height > h}
  IN /\ outputs' = {r \in outputs : r.height <= h}
     /\ spends' = spends \ gone
     /\ images' = images \ {[id |-> s.source, image |-> s.image] : s \in gone}

rollback(h) ==
  LET gone == {s \in spends : s.height >= h}
  IN /\ outputs' = {r \in outputs : r.height < h}
     /\ spends' = spends \ gone
     /\ images' = images \ {[id |-> s.source, image |-> s.image] : s \in gone}

Common == Len(LongestCommonPrefix({blocks, chain}))

sync_chain ==
  /\ blocks # chain
  /\ IF IsPrefix(blocks, chain)
     THEN UNCHANGED <<outputs, spends, images>>
     ELSE rollback(Common + 1)
  /\ scan' = Least(scan, Common)
  /\ blocks' = chain
  /\ UNCHANGED <<chain, reorgs, poolVars, keyVars, sendVars, now>>

-----------------------------------------------------------------------------
(* Key images.                                                             *)

Known == {s.image : s \in spends}

\* Sources that name an output of the account exactly; the output need not be
\* a member of the ring.
Resolved(sources) ==
  {c \in sources : c.image \in Known /\ \E r \in outputs : r.id = c.id /\ r.out = c.out}

ReplacedNone(sources) == imported \cup Resolved(sources)

\* A source replaces the earlier ones of its image.
Replaced(sources) ==
  {c \in imported : \A d \in Resolved(sources) : d.image # c.image} \cup Resolved(sources)

select_auto_rescan_height == IF RescanDepth = 0 \/ scan <= RescanDepth THEN 0 ELSE scan - RescanDepth

\* The images of a request that become confirmed: those of spends in the table.
Confirms(r) == (r.images \cap Known) \ confirmed


import_key_images(r) ==
  LET fresh == Confirms(r)
  IN /\ imports < MaxImports
     /\ rescan = None
     /\ confirmed' = confirmed \cup fresh
     /\ imported' = Replaced(r.sources)
     /\ imports' = imports + 1
     /\ rescan' = IF /\ AutoRescan /\ Cardinality(fresh) >= MinConfirmed
                     /\ select_auto_rescan_height < scan
                  THEN select_auto_rescan_height ELSE None
     /\ UNCHANGED <<chainVars, poolVars, sendVars, now>>

\* storage::rescan, in a transaction of its own.
auto_rescan ==
  /\ rescan # None
  /\ rollback(rescan)
  /\ scan' = Least(scan, rescan)
  /\ rescan' = None
  /\ UNCHANGED <<chain, blocks, reorgs, confirmed, imported, imports, poolVars, sendVars, now>>

-----------------------------------------------------------------------------
(* Pending spends.  A wallet names an output it has seen in the tables.    *)

submit_raw_tx(r) ==
  /\ submits < MaxSubmits
  /\ sending' = sending \cup {[id |-> r.id, out |-> r.out, recorded |-> now]}
  /\ submits' = submits + 1
  /\ UNCHANGED <<chainVars, poolVars, keyVars, pending, now>>

record_pending_spends(p) ==
  /\ pending' = pending \cup {p}
  /\ sending' = sending \ {p}
  /\ UNCHANGED <<chainVars, poolVars, keyVars, submits, now>>

\* The daemon refuses the transaction, does not answer, or the write fails.
submit_failed(p) ==
  /\ sending' = sending \ {p}
  /\ UNCHANGED <<chainVars, poolVars, keyVars, pending, submits, now>>

tick ==
  /\ now < MaxNow
  /\ now' = now + 1
  /\ UNCHANGED <<chainVars, poolVars, keyVars, sendVars>>

-----------------------------------------------------------------------------
(* The transaction pool, as the address handlers see it.                   *)

Fresh == cache.valid /\ now - cache.at < CacheTimeout

\* The first request after the time-out asks the daemon.
fetch_txpool_transactions ==
  /\ ~Fresh
  /\ cache' = [valid |-> TRUE, at |-> now, txs |-> pool]
  /\ UNCHANGED <<chainVars, pool, keyVars, sendVars, now>>

fetch_failed ==
  /\ ~Fresh
  /\ cache.valid
  /\ cache' = [cache EXCEPT !.valid = FALSE]
  /\ UNCHANGED <<chainVars, pool, keyVars, sendVars, now>>

output_exists_in_rows(o) == \E r \in outputs : r.out = o

\* fetch_txpool_incoming_overlay: outputs to the main address that no row has.
\* Without an answer of the daemon there is no overlay.
Overlay ==
  IF Fresh
  THEN {o \in UNION {Range(Receives[t]) : t \in cache.txs} \cap Direct : ~output_exists_in_rows(o)}
  ELSE {}

OverlayRows == {[height |-> 0, out |-> o, id |-> 0] : o \in Overlay}

-----------------------------------------------------------------------------
(* What the handlers answer.                                               *)

\* blocks_until_unlocked # 0, for an unlock_time that is a height.
is_locked(r) ==
  \/ Unlock[r.out] > (IF blocks = <<>> THEN 0 ELSE Len(blocks) - 1 + AllowedDelta)
  \/ r.height + SpendableAge > Len(blocks)

find_output_by_imported_source(k) ==
  {r \in outputs : \E c \in imported : c.image = k /\ c.id = r.id /\ c.out = r.out}

\* The outputs of confirmed images; two images of one source count once.
Sources == UNION {find_output_by_imported_source(k) : k \in Known \cap confirmed}

\* unconfirmed_spend_count or missing_source_count is not 0.
spent_state_incomplete ==
  \E s \in spends : s.image \notin confirmed \/ find_output_by_imported_source(s.image) = {}

get_address_info ==
  [received   |-> Total(outputs \cup OverlayRows),
   locked     |-> Total({r \in outputs : is_locked(r)} \cup OverlayRows),
   sent       |-> Total(Sources),
   incomplete |-> spent_state_incomplete]

TxOf(o) == CHOOSE t \in Tx : o \in Range(Receives[t])

\* The spend that is reported for a source.
SpendOf(r) ==
  CHOOSE s \in spends : s.image \in confirmed /\ r \in find_output_by_imported_source(s.image)

get_address_txs ==
  [t \in {TxOf(r.out) : r \in outputs \cup OverlayRows} \cup {SpendOf(r).tx : r \in Sources} |->
     [amount |-> Total({r \in outputs \cup OverlayRows : TxOf(r.out) = t}),
      spent  |-> Total({r \in Sources : SpendOf(r).tx = t})]]

confirmed_ring_members == {s.source : s \in {q \in spends : q.image \in confirmed}}

\* The ids that are left out because an image of theirs is confirmed.
confirmed_sources ==
  {c.id : c \in {d \in imported : d.image \in Known \cap confirmed}}
  \cup {s.source : s \in {q \in spends : q.image \in confirmed
                                         /\ \A c \in imported : c.image # q.image}}

has_confirmed_spend_image_without_imported_source(r) ==
  \E k \in images : /\ k.id = r.id /\ k.image \in confirmed
                    /\ \A c \in imported : c.image # k.image

ActiveForever(p) == p.recorded <= now
Active(p) == p.recorded <= now /\ now - p.recorded <= Ttl

pending_spend_matches_output(p, r) == p.id = r.id /\ p.out = r.out

Listed(r) ==
  /\ ~has_confirmed_spend_image_without_imported_source(r)
  /\ r.id \notin confirmed_sources
  /\ ~\E p \in pending : Active(p) /\ pending_spend_matches_output(p, r)

get_unspent_outs(dust) == {r \in outputs : Amount[r.out] >= dust /\ Listed(r)}

\* The handler asks the daemon for the transactions of its answer, and fails
\* when the daemon does not know one of them.
fetch_additional_tx_pub_keys(rows) == \A r \in rows : TxOf(r.out) \in Range(chain) \cup pool

-----------------------------------------------------------------------------
Init ==
  /\ chain = <<>> /\ blocks = <<>> /\ scan = 0 /\ reorgs = 0
  /\ outputs = {} /\ spends = {} /\ images = {}
  /\ confirmed = {} /\ imported = {} /\ imports = 0 /\ rescan = None
  /\ pending = {} /\ sending = {} /\ submits = 0
  /\ pool = {} /\ cache = [valid |-> FALSE, at |-> 0, txs |-> {}]
  /\ now = 0

Next ==
  \/ \E t \in Tx : mine(t) \/ enter_pool(t)
  \/ \E n \in 0..MaxHeight : reorg(n)
  \/ scan_transaction
  \/ sync_chain
  \/ \E r \in Request : import_key_images(r)
  \/ auto_rescan
  \/ \E r \in outputs : submit_raw_tx(r)
  \/ \E p \in sending : record_pending_spends(p) \/ submit_failed(p)
  \/ tick
  \/ fetch_txpool_transactions
  \/ fetch_failed

Spec == Init /\ [][Next]_vars

-----------------------------------------------------------------------------
(* Properties.                                                             *)

\* An image has one exact source, however often it is imported: the handlers read
\* the table into a map and would keep the first row they meet (storage.cpp:3699).
OneSource == \A c, d \in imported : c.image = d.image => c = d

\* The key_images table has exactly the rows of the spends table, after
\* reorganisations and rescans too: rollback_spends fails on a missing row, and
\* get_unspent_outs hides an output for a row too many (storage.cpp:1710).
ImagesExact == images = {[id |-> s.source, image |-> s.image] : s \in spends}

\* Of two outputs with one public key only one can be spent, and only one is
\* kept, in whichever order reorganisations bring them (account.cpp:223).
OnePub == \A q, r \in outputs : Pub[q.out] = Pub[r.out] => q = r

\* The tables the handlers read from agree with each other, whatever sequence of
\* scans, reorganisations, imports and rescans wrote them.
TablesExact == OneSource /\ ImagesExact /\ OnePub

\* What /get_address_info counts as sent is never offered by /get_unspent_outs
\* (rest_server.cpp:1857, 2744).
SentNotListed == Sources \cap get_unspent_outs(0) = {}

\* No output is received twice, not from a pool that was read before the block
\* with it was scanned either (rest_server.cpp:1718).
ReceivedOnce ==
  get_address_info.received =
    SumFunctionOnSet(Amount, {r.out : r \in outputs \cup OverlayRows})

\* With spent_state_incomplete false the three handlers agree: what was received
\* is what was sent and what is still offered, and the transactions add up
\* (rest_server.cpp:1878).  Outputs in the pool and outputs of a transaction that
\* was just sent are received and not offered.
Balanced ==
  LET info == get_address_info
      txs == get_address_txs
      held == {r \in outputs \ Sources :
                 \E p \in pending : p.id = r.id /\ p.out = r.out /\ now - p.recorded \in 0..Ttl}
  IN /\ SentNotListed /\ ReceivedOnce
     /\ info.locked <= info.received
     /\ info.received = SumFunction([t \in DOMAIN txs |-> txs[t].amount])
     /\ info.sent = SumFunction([t \in DOMAIN txs |-> txs[t].spent])
     /\ ~info.incomplete =>
          info.received - info.sent = Total(get_unspent_outs(0)) + Total(held) + Total(OverlayRows)

\* An exact source is an output that the inputs with its image may spend.  The
\* server takes the wallet's word for it (storage.cpp:3586).
HonestSources ==
  \A r \in Request : \A c \in r.sources, t \in Tx : \A p \in Rings[t] :
    p.image = c.image => c.out \in p.ring

\* As long as no block was detached, an output is left out of /get_unspent_outs
\* only while a confirmed image may spend it or a transaction of the last day
\* does: a failed transaction does not freeze an output (rest_server.cpp:2665).
Offered ==
  reorgs = 0 =>
    \A r \in outputs :
      \/ r \in get_unspent_outs(0)
      \/ \E s \in spends : s.source = r.id /\ s.image \in confirmed
      \/ \E p \in pending : p.out = r.out /\ now <= p.recorded + Ttl

\* A row of a detached block makes /get_unspent_outs fail for the whole account;
\* once the blocks table follows the daemon there is no such row
\* (rest_server.cpp:2571, storage.cpp:1747).
Answerable == IsPrefix(blocks, chain) => fetch_additional_tx_pub_keys(get_unspent_outs(0))

=============================================================================
