----------------------------- MODULE Assignment -----------------------------
(***************************************************************************)
(* How accounts are dealt to scan threads: check_loop when the scanner     *)
(* starts, do_replace_users and check_users of the account server, and     *)
(* replace_accounts of a remote scanner.  Every loop of the code is a      *)
(* recursive function of the number of rounds it has made.                 *)
(*                                                                         *)
(* Accounts come as sequences, sorted by scan height where the code sorts; *)
(* threads are numbered from 1, remote scanners after the local threads.   *)
(***************************************************************************)
EXTENDS Integers, Sequences, FiniteSets

Larger(x, y) == IF x < y THEN y ELSE x
Smaller(x, y) == IF x < y THEN x ELSE y

----------------------------------------------------------------------------
(* check_loop without options, and client::replace_accounts: from the back *)
(* of the sequence, what is left divided by the threads that are left.     *)

\* Mutant: the threads that have theirs already are counted again.
CountLeftAll(n, threads) ==
  LET left[i \in 0..threads] == IF i = 0 THEN n ELSE left[i - 1] - left[i - 1] \div threads
  IN  left

\* How many accounts are left after thread i.
CountLeft(n, threads) ==
  LET left[i \in 0..threads] ==
        IF i = 0 THEN n ELSE left[i - 1] - left[i - 1] \div (threads - i + 1)
  IN  left

\* The positions that each thread gets.
ByCount(n, threads) ==
  [i \in 1..threads |-> CountLeft(n, threads)[i] + 1..CountLeft(n, threads)[i - 1]]

----------------------------------------------------------------------------
(* check_loop with --block-depth-threading: depths is sorted.              *)

SumTo(depths, n) ==
  LET sum[i \in 0..Len(depths)] == IF i = 0 THEN 0 ELSE sum[i - 1] + depths[i] IN sum[n]

\* should_move_to_next_thread: the even threads, counted from 0, take the
\* account that reaches the target, the odd ones stop before they exceed it.
Moves(relative, filled, depth, target) ==
  IF relative % 2 = 0 THEN filled >= target ELSE filled + depth > target

\* The thread of each position and the depth that thread then has, for threads
\* first..first + threads - 1.
ByDepth(depths, first, threads) ==
  LET n == Len(depths)
      target == SumTo(depths, n) \div threads
      at[i \in 0..n] ==
        IF i = 0 THEN [thread |-> first, filled |-> 0]
        ELSE LET p == at[i - 1]
                 move == /\ p.thread < first + threads - 1
                         /\ Moves(p.thread - first, p.filled, depths[i], target)
             IN  [thread |-> IF move THEN p.thread + 1 ELSE p.thread,
                  filled |-> depths[i] + IF move THEN 0 ELSE p.filled]
  IN  at

\* With --split-sync-threads: the accounts with a depth of at most synced_depth
\* are dealt in turn to the first threads, the others by depth to those after
\* them.  The threads of an account: none, when no thread is left.
SplitSync(raw, min_depth, synced_depth, synced_threads, threads) ==
  LET n == Len(raw)
      k == Cardinality({i \in 1..n : raw[i] <= synced_depth})
      used == Smaller(synced_threads, k)
      from == IF k = 0 THEN 0 ELSE synced_threads
      rest == [i \in 1..n - k |-> Larger(raw[k + i], min_depth)]
  IN  [i \in 1..n |->
        IF i <= k THEN {((i - 1) % used) + 1}
        ELSE IF from < threads
        THEN {ByDepth(rest, from + 1, threads - from)[i - k].thread}
        ELSE {}]

----------------------------------------------------------------------------
(* do_replace_users: local threads first, then the remote scanners, each   *)
(* with a share for all of its threads.                                    *)

ThreadsOf(remotes) == SumTo(remotes, Len(remotes))

\* Accounts and threads that are left after each local thread and remote
\* scanner; below the threshold the remote scanners get no share.
ReplaceLeft(n, locals, remotes, threshold) ==
  LET all == locals + ThreadsOf(remotes)
      only == locals > 0 /\ n \div locals < threshold
      left[i \in 0..locals + Len(remotes)] ==
        IF i = 0 THEN [users |-> n, threads |-> IF only THEN locals ELSE all]
        ELSE LET p == left[i - 1]
                 own == IF i <= locals THEN 1 ELSE remotes[i - locals]
                 share == IF i <= locals THEN p.users \div p.threads
                          ELSE Larger(1, p.users \div Larger(1, p.threads)) * own
             IN  [users |-> p.users - Smaller(p.users, share),
                  threads |-> p.threads - Smaller(p.threads, own)]
  IN  left

\* The positions that each local thread and remote scanner gets.
Replace(n, locals, remotes, threshold) ==
  LET left == ReplaceLeft(n, locals, remotes, threshold)
  IN  [i \in 1..locals + Len(remotes) |-> left[i].users + 1..left[i - 1].users]

\* The accounts at these positions of s.
Shares(s, locals, remotes, threshold) ==
  LET left == ReplaceLeft(Len(s), locals, remotes, threshold)
  IN  [i \in 1..locals + Len(remotes) |-> SubSeq(s, left[i].users + 1, left[i - 1].users)]

----------------------------------------------------------------------------
(* check_users without --balance-new-addresses: one account to a local     *)
(* thread, up to its number of threads to a remote scanner.                *)

\* An account that was moved from.
Hollow == 0

\* The loop that finds the remote scanner of next_thread_.
RemoteAt(next, locals, remotes) ==
  CHOOSE j \in 1..Len(remotes) :
    /\ next <= locals + SumTo(remotes, j - 1)
    /\ \A k \in 1..j - 1 : next > locals + SumTo(remotes, k - 1)

\* Mutant: the turn of a scanner is one thread long.
TurnOne(next, locals, remotes) == 1

\* How many threads the turn at next is for, and how far next_thread_ goes on.
Turn(next, locals, remotes) ==
  IF next < locals THEN 1 ELSE remotes[RemoteAt(next, locals, remotes)]

\* One round: accounts are taken from the back.  The code erases one element
\* where it moved several, and erase(end()) for a scanner without threads
\* drops the last one (the outcome of the vector that the build uses).
Round(p, locals, remotes) ==
  LET n == Len(p.new)
      total == locals + ThreadsOf(remotes)
      worker == IF p.next < locals THEN p.next + 1
                ELSE locals + RemoteAt(p.next, locals, remotes)
      step == Turn(p.next, locals, remotes)
      took == Smaller(n, step)
  IN  [new |-> IF took = 0 THEN SubSeq(p.new, 1, n - 1)
               ELSE SubSeq(p.new, 1, n - took) \o [i \in 1..took - 1 |-> Hollow],
       next |-> (p.next + step) % total,
       out |-> [p.out EXCEPT ![worker] = Append(@, SubSeq(p.new, n - took + 1, n))]]

\* The rounds until no account is left, each of which removes one.
RoundRobin(new, next, locals, remotes) ==
  LET total == locals + ThreadsOf(remotes)
      after[k \in 0..Len(new)] ==
        IF k = 0 THEN [new |-> new, next |-> next % total,
                        out |-> [worker \in 1..locals + Len(remotes) |-> << >>]]
        ELSE IF after[k - 1].new = << >> THEN after[k - 1]
        ELSE Round(after[k - 1], locals, remotes)
  IN  after[Len(new)]

----------------------------------------------------------------------------
(* check_users with --balance-new-addresses: the best thread for height h. *)

\* The comparison of one thread with the best one so far.
Better(b, h, height, count) ==
  IF height <= h
  THEN ~ b.found \/ height > b.height \/ (height = b.height /\ count < b.count)
  ELSE ~ b.found /\ (b.height = 0 \/ height < b.height \/ (height = b.height /\ count < b.count))

BestThread(h, heights, counts) ==
  LET best[i \in 0..Len(heights)] ==
        IF i = 0 THEN [thread |-> 1, height |-> 0, count |-> -1, found |-> FALSE]
        ELSE LET b == best[i - 1]
             IN  IF Better(b, h, heights[i], counts[i])
                 THEN [thread |-> i, height |-> heights[i], count |-> counts[i],
                       found |-> b.found \/ heights[i] <= h]
                 ELSE b
  IN  best[Len(heights)].thread

----------------------------------------------------------------------------
(* What the algorithms are for.                                            *)

\* A turn of RoundRobin begins at next: of a local thread, or of a scanner.
TurnAt(next, locals, remotes) ==
  \/ next < locals
  \/ \E j \in DOMAIN remotes : remotes[j] > 0 /\ next = locals + SumTo(remotes, j - 1)

\* No position is dealt twice.
Apart(sets) == \A i, j \in DOMAIN sets : i # j => sets[i] \cap sets[j] = {}

\* check_loop and a remote scanner deal every account, once, in shares that
\* differ by one at most.
CountDealt(n, threads) ==
  LET to == ByCount(n, threads) IN
  /\ UNION {to[i] : i \in 1..threads} = 1..n
  /\ Apart(to)
  /\ \A i, j \in 1..threads : Cardinality(to[i]) <= Cardinality(to[j]) + 1

\* do_replace_users deals no account twice; what it leaves out are fewer
\* accounts than the last scanner has threads, the ones with the most to scan,
\* and none when every scanner has one thread or there is none.
ReplaceDealt(n, locals, remotes, threshold) ==
  LET to == Replace(n, locals, remotes, threshold)
      dealt == UNION {to[i] : i \in DOMAIN to}
      all == 1..n
      with == {i \in DOMAIN remotes : remotes[i] > 0}
  IN  /\ Apart(to)
      /\ dealt # all =>
           \E j \in with :
             /\ \A k \in with : k <= j
             /\ Cardinality(all \ dealt) < remotes[j]
             /\ \A x \in all \ dealt, y \in dealt : x < y

\* With --block-depth-threading, of the threads but the last in use, an even one
\* reaches the target, with its last account and not before; an odd one stays
\* within it, unless one account alone is above.  No thread is left out, unless
\* there are fewer blocks than threads.
DepthDealt(depths, threads) ==
  LET n == Len(depths)
      at == ByDepth(depths, 1, threads)
      target == SumTo(depths, n) \div threads
      load(t) == {i \in 1..n : at[i].thread = t}
      last(t) == CHOOSE i \in load(t) : \A k \in load(t) : k <= i
  IN  target > 0 => \A t \in 1..at[n].thread - 1 :
        /\ load(t) # {}
        /\ LET sum == at[last(t)].filled IN
           IF (t - 1) % 2 = 0
           THEN sum >= target /\ sum - depths[last(t)] < target
           ELSE sum <= target \/ Cardinality(load(t)) = 1

\* With --split-sync-threads every account gets one thread, unless all threads
\* are for synced accounts; synced accounts share none with the others.
SplitDealt(raw, min_depth, synced_depth, synced_threads, threads) ==
  LET to == SplitSync(raw, min_depth, synced_depth, synced_threads, threads)
      synced == {i \in DOMAIN raw : raw[i] <= synced_depth}
  IN  /\ \A i \in DOMAIN raw :
           \/ \E t \in 1..threads : to[i] = {t}
           \/ i \notin synced /\ synced # {} /\ synced_threads = threads
      /\ \A i \in synced, k \in DOMAIN raw \ synced : to[i] \cap to[k] = {}

\* With --balance-new-addresses: of the threads not above the account the
\* highest, else the lowest; of equal ones one with fewest accounts.
BestFits(h, heights, counts) ==
  LET T == 1..Len(heights)
      below == {i \in T : heights[i] <= h}
      among == IF below # {} THEN {i \in below : \A k \in below : heights[k] <= heights[i]}
               ELSE {i \in T : \A k \in T : heights[i] <= heights[k]}
  IN  BestThread(h, heights, counts) \in {i \in among : \A k \in among : counts[i] <= counts[k]}

============================================================================
