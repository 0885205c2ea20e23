----------------------------- MODULE MCServices -----------------------------
(***************************************************************************)
(* Instances of Subaddresses, PowSync and UnstakeTxsets for TLC.  They do  *)
(* not interact; the focus says which of them moves, and the others stay   *)
(* in an initial state.  With the focus "merge" nothing moves: the initial *)
(* states enumerate stored and requested ranges for the merge of do_upsert.*)
(***************************************************************************)
EXTENDS Subaddresses, PowSync, UnstakeTxsets

VARIABLES focus, merge

allVars == <<subVars, powVars, txsetVars, focus, merge>>

PaymentsMC == {Main, Nothing, <<0, 1>>, <<1, 0>>}
LookaheadsMC == {<<0, 0>>, <<1, 2>>, <<2, 2>>}
RequestsMC ==
  {<<[major |-> 0, ranges |-> <<<<0, 0>>, <<2, 2>>>>]>>,
   <<Entry(0, 1, 3)>>,
   <<Entry(1, 0, 1), Entry(0, 2, 2)>>}

\* Valid sequences of up to k ranges of the minor indices 0..n.
RangesUpTo(n, k) ==
  {rs \in UNION {[1..j -> {r \in (0..n) \X (0..n) : r[1] <= r[2]}] : j \in 0..k} : Valid(rs)}

NoMerge == <<<< >>, << >>>>
Still == pays = [h \in 2..Top |-> Nothing]
PowStill == daemon.height = 1 /\ mode = "trusted"

MCInit ==
  /\ SubInit /\ PowInit /\ TxsetInit
  /\ \/ focus = "sub" /\ merge = NoMerge /\ PowStill
     \/ focus = "merge" /\ merge \in RangesUpTo(6, 2) \X RangesUpTo(6, 2) /\ Still /\ PowStill
     \/ focus = "pow" /\ merge = NoMerge /\ Still
     \/ focus = "txset" /\ merge = NoMerge /\ Still /\ PowStill

MCNext ==
  /\ \/ focus = "sub" /\ SubNext /\ UNCHANGED <<powVars, txsetVars>>
     \/ focus = "pow" /\ PowNext /\ UNCHANGED <<subVars, txsetVars>>
     \/ focus = "txset" /\ TxsetNext /\ UNCHANGED <<subVars, powVars>>
  /\ UNCHANGED <<focus, merge>>

MCSpec == MCInit /\ [][MCNext]_allVars

\* MergeExact on every stored and requested sequence of up to two ranges.
Merged == MergeExact(merge[1], merge[2])

============================================================================
