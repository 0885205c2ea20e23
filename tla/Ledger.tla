------------------------------- MODULE Ledger -------------------------------
(***************************************************************************)
(* What the server promises the wallets: one chain, and for every account  *)
(* a span of it, of which the account has every output that the chain pays *)
(* it and no other.  A span begins where the account was registered, grows *)
(* by whole blocks of the chain, and shrinks only when blocks of it are    *)
(* detached - in the same step, and for all accounts at once.              *)
(***************************************************************************)
EXTENDS Integers

CONSTANTS Account, Tag, MainTag, Checkpoint

VARIABLES
  height,   \* of the last block
  chain,    \* its hash: the tags of the blocks 1..height
  span,     \* span[a]: NoSpan, or the blocks from + 1..upto
  credited  \* outputs of an account

ledger == <<height, chain, span, credited>>

NoSpan == [from |-> -1, upto |-> -1]

\* The hash of block h of the chain c, and the outputs of the blocks from + 1..upto.
Block(c, h) == [i \in 1..h |-> c[i]]
Paid(c, from, upto) == {[height |-> h, block |-> Block(c, h)] : h \in (from + 1)..upto}

Init ==
  /\ height = Checkpoint
  /\ chain = [i \in 1..Checkpoint |-> MainTag]
  /\ span = [a \in Account |-> NoSpan]
  /\ credited = [a \in Account |-> {}]

\* A new account has no outputs.  Its registration may have been asked for when
\* the chain was longer.
Register(a) ==
  /\ span[a] = NoSpan
  /\ span'[a].from \in Nat
  /\ span' = [span EXCEPT ![a] = [from |-> span'[a].from, upto |-> span'[a].from]]
  /\ UNCHANGED <<height, chain, credited>>

\* The chain grows, and the accounts S are scanned up to block h of it.
Grow(S, h) ==
  /\ height <= height'
  /\ chain' \in [1..height' -> Tag] /\ Block(chain', height) = chain
  /\ \A a \in S : span[a] # NoSpan /\ span[a].upto < h
  /\ span' = [a \in Account |-> IF a \in S THEN [span[a] EXCEPT !.upto = h] ELSE span[a]]
  /\ credited' = [a \in Account |->
       IF a \in S THEN credited[a] \cup Paid(chain', span[a].upto, h) ELSE credited[a]]

\* The blocks above k are replaced, and nobody keeps anything of them.
Detach(k) ==
  /\ k < height'
  /\ chain' \in [1..height' -> Tag]
  /\ Block(chain', k) = Block(chain, k) /\ chain'[k + 1] # chain[k + 1]
  /\ span' = [a \in Account |->
       IF k < span[a].upto
       THEN [from |-> IF k < span[a].from THEN k ELSE span[a].from, upto |-> k]
       ELSE span[a]]
  /\ credited' = [a \in Account |-> {o \in credited[a] : o.height <= k}]

Next ==
  \/ \E a \in Account : Register(a)
  \/ \E S \in SUBSET Account, h \in 0..height' : Grow(S, h)
  \/ \E k \in Checkpoint..height - 1 : Detach(k)

Spec == Init /\ [][Next]_ledger

\* An account has what its span of the chain pays it.
Exact == \A a \in Account : credited[a] = Paid(chain, span[a].from, span[a].upto)

=============================================================================
