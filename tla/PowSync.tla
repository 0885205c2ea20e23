------------------------------ MODULE PowSync ------------------------------
(***************************************************************************)
(* The chain and its difficulties (tables blocks and pows) with and        *)
(* without --untrusted-daemon.  A trusting server copies block hashes      *)
(* (sync_quick, storage::sync_chain); a distrusting one verifies blocks    *)
(* against a window of earlier difficulties and stores hash and difficulty *)
(* (sync_full, storage::sync_pow).  Threads that scan past the end add to  *)
(* either.  The server may be restarted in the other mode, and the daemon  *)
(* may reorganise above the last checkpoint.                               *)
(*                                                                         *)
(* A block is <<height, branch>>; a difficulty is represented by the block *)
(* it was computed for.                                                    *)
(***************************************************************************)
EXTENDS Integers, FiniteSets, FiniteSetsExt

CONSTANTS
  LastCheckpoint,  \* get_checkpoints().get_max_height()
  ForkAt,          \* first height at which the two branches differ
  TipMax,          \* largest height of the daemon
  SyncBatch,       \* blocks in one answer of the daemon, after the overlap
  PowWindow,       \* DIFFICULTY_BLOCKS_COUNT
  MaxTurns         \* restarts and reorganisations

ASSUME PowAssumption ==
  /\ {LastCheckpoint, ForkAt, TipMax, SyncBatch, PowWindow, MaxTurns} \subseteq Nat
  /\ 0 < LastCheckpoint /\ LastCheckpoint < ForkAt /\ ForkAt <= TipMax

VARIABLES
  daemon,     \* [branch, height]
  blocks,     \* blocks table: [height -> block or NoBlock]
  pows,       \* pows table: [height -> block or NoBlock]
  mode,       \* "trusted" or "untrusted"
  stage,      \* "sync" or "scan"
  turns,
  trusting,   \* history: the server has run in trusted mode
  abutting    \* history: sync_pow stored blocks up to just below the checkpoint

powVars == <<daemon, blocks, pows, mode, stage, turns, trusting, abutting>>

NoBlock == <<-1, 0>>
PowHeights == 0..TipMax
Block(h, branch) == <<h, IF h < ForkAt THEN 0 ELSE branch>>
OnDaemon(h) == h <= daemon.height
DaemonBlock(h) == Block(h, daemon.branch)

Rows(table) == {h \in PowHeights : table[h] # NoBlock}
LastRow(table) == Max(Rows(table))

\* The n-th row of the blocks table after a height, if there is one.
NthAfter(start, n) ==
  {r \in Rows(blocks) : /\ start < r
                        /\ Cardinality({g \in Rows(blocks) : start < g /\ g <= r}) = n}

-----------------------------------------------------------------------------
(* storage                                                                 *)

\* append_block_hashes overwrites; append_pow leaves rows that exist alone.
append_block_hashes(table, first, last) ==
  [h \in PowHeights |-> IF first <= h /\ h <= last THEN DaemonBlock(h) ELSE table[h]]

append_pow(table, first, last) ==
  [h \in PowHeights |->
    IF first <= h /\ h <= last /\ table[h] = NoBlock THEN DaemonBlock(h) ELSE table[h]]

Without(table, height) == [h \in PowHeights |-> IF height <= h THEN NoBlock ELSE table[h]]

\* Mutant: the difficulties stay.
rollback_blocks_only(height) == [blocks |-> Without(blocks, height), pows |-> pows]

\* rollback_chain from a height.  Difficulties are deleted from the row of that
\* height on, if there is one.
rollback_chain(height) ==
  [blocks |-> Without(blocks, height),
   pows |-> IF pows[height] = NoBlock THEN pows ELSE Without(pows, height)]

Same == [blocks |-> blocks, pows |-> pows]

\* Row by row the walk meets the daemon's blocks; sync_pow (ids) looks at the
\* heights of the rows as well.
Agrees(start, h, ids) ==
  \E r \in NthAfter(start, h - start) : (ids => r = h) /\ blocks[r] = DaemonBlock(h)

\* First of the heights start + 1.. at which the next row of the blocks table is
\* missing, of another height (only looked at when ids is TRUE) or not the
\* daemon's; last + 1 if there is none.
Stop(start, last, ids) ==
  LET stops == {h \in start + 1..last : ~ Agrees(start, h, ids)}
  IN IF stops = {} THEN last + 1 ELSE Min(stops)

\* At Stop there is a row of another block.
Differs(start, stop, last, ids) ==
  /\ stop <= last
  /\ \E r \in NthAfter(start, stop - start) :
       (ids => r = stop) /\ blocks[r] # DaemonBlock(stop)

\* get_pow_window: count rows from the first of the window on, whatever their heights.
get_pow_window(last) ==
  LET first == IF PowWindow < last THEN last - (PowWindow - 1) ELSE 0
  IN \/ last = 0
     \/ /\ pows[first] # NoBlock
        /\ Cardinality({h \in Rows(pows) : first <= h}) >= last - first + 1

-----------------------------------------------------------------------------
(* sync_quick and sync_full                                                *)

\* The blocks that a request names: the last ten rows, and older ones further and
\* further apart down to the first.  The bounds stay within the ten.
Named(upto) == {h \in Rows(blocks) : h <= upto}

\* Where the daemon starts its answer: the latest block it knows among those named.
Common(upto) == Max({h \in Named(upto) : OnDaemon(h) /\ blocks[h] = DaemonBlock(h)})
Answer(start) == Min({start + SyncBatch, daemon.height})

sync_chain ==
  LET start == Common(TipMax)
      last == Answer(start)
      stop == Stop(start, last, FALSE)
      refused == Differs(start, stop, last, FALSE) /\ stop <= LastCheckpoint
      kept == IF Differs(start, stop, last, FALSE) THEN rollback_chain(stop) ELSE Same
  IN /\ stage = "sync" /\ mode = "trusted"
     /\ start < daemon.height
     /\ ~ refused
     /\ blocks' = append_block_hashes(kept.blocks, stop, last)
     /\ pows' = kept.pows
     /\ UNCHANGED <<daemon, mode, stage, turns, trusting, abutting>>

\* Verification by difficulty passes: the daemon is honest.
sync_pow ==
  LET start == Common(LastRow(pows))
      last == Answer(start)
      stop == Stop(start, last, TRUE)
      refused == Differs(start, stop, last, TRUE) /\ stop <= LastCheckpoint
      kept == IF Differs(start, stop, last, TRUE) THEN rollback_chain(stop) ELSE Same
  IN /\ stage = "sync" /\ mode = "untrusted"
     /\ start < daemon.height
     /\ get_pow_window(start)
     /\ ~ refused
     /\ blocks' = append_block_hashes(kept.blocks, stop, last)
     /\ pows' = append_pow(kept.pows, stop, last)
     /\ abutting' = (abutting \/ last = LastCheckpoint - 1)
     /\ UNCHANGED <<daemon, mode, stage, turns, trusting>>

\* The daemon has nothing new.  A distrusting server wants the checkpoint as well.
sync_done ==
  /\ stage = "sync"
  /\ \/ mode = "trusted" /\ Common(TipMax) = daemon.height
     \/ /\ mode = "untrusted" /\ Common(LastRow(pows)) = daemon.height
        /\ LastCheckpoint <= daemon.height
  /\ stage' = "scan"
  /\ UNCHANGED <<daemon, blocks, pows, mode, turns, trusting, abutting>>

-----------------------------------------------------------------------------
(* Scan threads                                                            *)

\* A distrusting thread verifies the blocks after height against the window.
Verified(height) == mode = "untrusted" => get_pow_window(height)

\* storage::update with the blocks height..last: those after the last row are new.
AppendedFrom(height, last) == Min({LastRow(blocks), last}) + 1

update(height, last) ==
  LET first == AppendedFrom(height, last)
  IN /\ stage = "scan"
     /\ height < last /\ OnDaemon(last) /\ LastCheckpoint <= last
     /\ height <= LastRow(blocks)
     /\ blocks[height] = DaemonBlock(height)
     /\ Verified(height)
     /\ blocks[first - 1] = DaemonBlock(first - 1)
     /\ blocks' = append_block_hashes(blocks, first, last)
     /\ pows' = IF mode = "untrusted" THEN append_pow(pows, first, last) ELSE pows
     /\ UNCHANGED <<daemon, mode, stage, turns, trusting, abutting>>

\* blockchain_reorg: the threads end and the chain is synchronised again.
update_reorg(last) ==
  /\ stage = "scan"
  /\ OnDaemon(last)
  /\ blocks[AppendedFrom(0, last) - 1] # DaemonBlock(AppendedFrom(0, last) - 1)
  /\ stage' = "sync"
  /\ UNCHANGED <<daemon, blocks, pows, mode, turns, trusting, abutting>>

-----------------------------------------------------------------------------
(* Daemon and operator                                                     *)

Grows ==
  /\ daemon.height < TipMax
  /\ daemon' = [daemon EXCEPT !.height = @ + 1]
  /\ UNCHANGED <<blocks, pows, mode, stage, turns, trusting, abutting>>

\* The other branch, at least as high as the checkpoint and one lower at most.
Reorganises ==
  /\ turns < MaxTurns /\ turns' = turns + 1
  /\ ForkAt <= daemon.height
  /\ \E h \in ForkAt..TipMax :
       h >= daemon.height - 1 /\ daemon' = [branch |-> 1 - daemon.branch, height |-> h]
  /\ UNCHANGED <<blocks, pows, mode, stage, trusting, abutting>>

Restart ==
  /\ turns < MaxTurns /\ turns' = turns + 1
  /\ mode' \in {"trusted", "untrusted"}
  /\ stage' = "sync"
  /\ trusting' = (trusting \/ mode' = "trusted")
  /\ UNCHANGED <<daemon, blocks, pows, abutting>>

\* The rollback command, here above the last checkpoint.
rollback(height) ==
  LET kept == rollback_chain(height)
  IN /\ turns < MaxTurns /\ turns' = turns + 1
     /\ LastCheckpoint < height /\ blocks[height] # NoBlock
     /\ blocks' = kept.blocks /\ pows' = kept.pows
     /\ UNCHANGED <<daemon, mode, stage, trusting, abutting>>

\* check_blockchain and check_pow on a new database.
NewBlocks ==
  [h \in PowHeights |-> IF h \in {0, LastCheckpoint} THEN Block(h, 0) ELSE NoBlock]
NewPows == [h \in PowHeights |-> IF h = 0 THEN Block(h, 0) ELSE NoBlock]

PowInit ==
  /\ daemon \in [branch : {0}, height : 1..LastCheckpoint + 1]
  /\ blocks = NewBlocks /\ pows = NewPows
  /\ mode \in {"trusted", "untrusted"} /\ trusting = (mode = "trusted")
  /\ stage = "sync"
  /\ turns = 0
  /\ abutting = FALSE

PowNext ==
  \/ sync_chain \/ sync_pow \/ sync_done
  \/ \E height, last \in PowHeights : update(height, last)
  \/ \E last \in PowHeights : update_reorg(last)
  \/ Grows \/ Reorganises \/ Restart
  \/ \E height \in PowHeights : rollback(height)

PowSpec == PowInit /\ [][PowNext]_powVars

-----------------------------------------------------------------------------
(* Properties                                                              *)

\* The difficulties are those of the blocks of the chain, from the first block to
\* the last verified one without a gap, through reorganisations and restarts:
\* what get_pow_window relies on when it counts rows.  It takes a database that
\* only ever saw --untrusted-daemon, and no answer of the daemon that ended just
\* below the checkpoint; in both cases sync_pow finds a block that is stored
\* already and passes over it without its difficulty.
PowFollows ==
  ~ trusting /\ ~ abutting =>
    /\ Rows(pows) = 0..LastRow(pows)
    /\ \A h \in Rows(pows) : pows[h] = blocks[h]
    /\ Rows(blocks) = Rows(pows) \cup {LastCheckpoint}

============================================================================
