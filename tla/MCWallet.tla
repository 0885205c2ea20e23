------------------------------ MODULE MCWallet ------------------------------
(***************************************************************************)
(* Instances of Wallet for TLC: two outputs of different worth and one     *)
(* with the public key of the first, spent by two transactions that both   *)
(* have the first two outputs in their ring.                               *)
(***************************************************************************)
EXTENDS Wallet, TLC

Amounts == [o \in Output |-> IF o = "o1" THEN 1 ELSE IF o = "o2" THEN 2 ELSE 4]
Unlocks == [o \in Output |-> IF o = "o2" THEN 3 ELSE 0]
Pubs == [o \in Output |-> IF o = "o2" THEN "p2" ELSE "p1"]

ReceivesOf ==
  [t \in Tx |-> CASE t = "r1" -> <<"o1">> [] t = "r2" -> <<"o2", "o3">> [] OTHER -> <<>>]

RingsOf ==
  [t \in Tx |-> CASE t = "s1" -> {[image |-> "k1", ring |-> {"o1", "o2"}]}
                  [] t = "s2" -> {[image |-> "k2", ring |-> {"o1", "o2"}]}
                  [] OTHER -> {}]

Source(k, n, o) == [image |-> k, id |-> n, out |-> o]
Import(ks, ss) == [images |-> ks, sources |-> ss]

\* The first image without its source, and both with the sources they have when
\* the outputs are in the order of their names or the other way round.
Imports ==
  {Import({"k1"}, {})} \cup
  {Import({k}, {Source(k, n, IF k = "k1" THEN "o1" ELSE "o2")}) : k \in Image, n \in 1..2}

ASSUME HonestImports == HonestSources

=============================================================================
