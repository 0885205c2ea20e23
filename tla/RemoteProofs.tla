---------------------------- MODULE RemoteProofs ----------------------------
(***************************************************************************)
(* Proofs about Remote and the dealing of Assignment: every algorithm      *)
(* deals the accounts as it should, the account server always finds the    *)
(* scanner whose turn it is, and without a rescan by hand no update comes  *)
(* from above the database, for any number of accounts, threads and        *)
(* connections.                                                            *)
(***************************************************************************)
EXTENDS MCRemote, FoldProofs, FunctionTheorems, SequenceTheorems

-----------------------------------------------------------------------------
(* The inductive invariants.                                               *)

UserMap == UNION {[S -> Nat] : S \in SUBSET Account}
Command == [op : {"push", "replace"}, users : Seq([id : Account, height : Nat])]
Report == [op : {"initialize"}, ok : BOOLEAN, users : {NoUsers}, last : {0}]
          \cup [op : {"update"}, ok : {TRUE}, users : UserMap, last : Nat]

RemoteTypes ==
  /\ active \in SUBSET Account /\ listed \in SUBSET Account
  /\ scan \in [Account -> Nat] /\ tip \in Nat /\ ops \in Nat /\ rescans \in BOOLEAN
  /\ running \in BOOLEAN /\ dead \in BOOLEAN
  /\ remote \in SUBSET Conn /\ next \in Nat
  /\ srv \in [Conn -> {"open", "closing", "gone"}]
  /\ cli \in [Conn -> {"up", "orphan", "late", "down"}] /\ given \in [Conn -> SUBSET Account]
  /\ threads \in [Conn -> Nat] /\ push_to \in [Conn -> Nat]
  /\ wire \in [Conn -> Seq(Command)] /\ up \in [Conn -> Seq(Report)]
  /\ held \in [Thread -> UserMap]

\* The threads of the connections in S, with none for the others.
WeightsOf(S, th) == [c \in Conn |-> IF c \in S THEN th[c] ELSE 0]

TurnInv ==
  /\ \A c \in Conn : srv[c] = "open" => c \in remote
  /\ ~ running => remote = {}
  /\ Up /\ AnyThread(remote, threads) => TurnAt(next, Locals, WeightsOf(remote, threads))

\* Commands whose copies are as the database has the accounts.
Fresh == {m \in Command : \A i \in DOMAIN m.users : m.users[i].height = scan[m.users[i].id]}

\* A copy is not above the heights h, or not above one of the first k updates
\* of q.
Under(u, h) == \A a \in DOMAIN u : u[a] <= h[a]
Follows(u, h, q, k) ==
  \A a \in DOMAIN u :
    u[a] <= h[a] \/ \E j \in 1..k : a \in DOMAIN q[j].users /\ u[a] <= q[j].last

\* Where copies are: with a local thread, in a command, with a thread of a
\* scanner, and in the updates that this scanner has sent before.
LocalUnder == \A w \in Thread : w[1] = 0 => Under(held[w], scan)
WireUnder ==
  \A c \in Conn : \A k \in DOMAIN wire[c] : \A i \in DOMAIN wire[c][k].users :
    wire[c][k].users[i].height <= scan[wire[c][k].users[i].id]
DownEmpty == \A c \in Conn : cli[c] # "up" => \A w \in Thread : w[1] = c => held[w] = NoUsers
UpFollows ==
  \A c \in Conn : srv[c] = "open" =>
    /\ \A k \in DOMAIN up[c] : Follows(up[c][k].users, scan, up[c], k - 1)
    /\ \A w \in Thread : w[1] = c => Follows(held[w], scan, up[c], Len(up[c]))

CopiesInv == ~ rescans => LocalUnder /\ WireUnder /\ DownEmpty /\ UpFollows

\* No replace_accounts behind the first k commands of q, and an account that one
\* of these names.
Lasts(q, k) == \A j \in DOMAIN q : k < j => q[j].op = "push"
Names(m) == {m.users[i].id : i \in DOMAIN m.users}
InWire(a, q) == \E k \in DOMAIN q : a \in Names(q[k]) /\ Lasts(q, k)

\* An account is with a local thread, or with a scanner once it has read all of
\* its commands.
WithLocal(a) == \E w \in Thread : w[1] = 0 /\ a \in DOMAIN held[w]
WithScanner(a, c) ==
  \/ InWire(a, wire[c])
  \/ Lasts(wire[c], 0) /\ \E w \in Thread : w[1] = c /\ a \in DOMAIN held[w]

\* A connection keeps an account that was dealt to it: with a client that has
\* no threads, or with a scanner.
Kept(a, c) == a \in given[c] /\ (cli[c] = "orphan" \/ WithScanner(a, c))

CoverInv ==
  Up /\ AnyThread(remote, threads) =>
    \A a \in listed :
      a \in left \/ Unnoticed \/ WithLocal(a) \/ \E c \in remote : Kept(a, c)

-----------------------------------------------------------------------------
(* Lemmas: sums.                                                           *)

\* SumTo adds up the first n numbers.
LEMMA SumFacts ==
  ASSUME NEW d \in Seq(Nat)
  PROVE  /\ SumTo(d, 0) = 0
         /\ \A n \in 0..Len(d) : SumTo(d, n) \in Nat
         /\ \A n \in 1..Len(d) : SumTo(d, n) = SumTo(d, n - 1) + d[n]
<1> DEFINE F(f) == [i \in 0..Len(d) |-> IF i = 0 THEN 0 ELSE f[i - 1] + d[i]]
           round == [i \in Nat |-> [n \in Nat |-> IF i \in 1..Len(d) THEN n + d[i] ELSE 0]]
           sum == CHOOSE f : f = F(f)
<1>1. Len(d) \in Nat /\ \A i \in 1..Len(d) : d[i] \in Nat
  BY ElementOfSeq, LenProperties
<1>2. round \in [Nat -> [Nat -> Nat]]
  BY <1>1
<1>3. PICK f : Built(Nat, 0, round, Len(d), f)
  <2> HIDE DEF round
  <2>1. 0 \in Nat
    OBVIOUS
  <2>2. QED
    BY <1>1, <1>2, <2>1, Rounds, Zenon
<1>4. ASSUME NEW i \in 0..Len(d) PROVE f[i] = IF i = 0 THEN 0 ELSE f[i - 1] + d[i]
  <2>1. CASE i # 0
    <3>0. i \in 1..Len(d) /\ i - 1 \in 0..Len(d) /\ i \in Nat
      BY <1>1, <2>1
    <3>1. f[i - 1] \in Nat
      BY <1>3, <3>0 DEF Built
    <3> DEFINE v == f[i - 1]
    <3>2. \A n \in Nat : round[i][n] = n + d[i]
      BY <3>0
    <3>3. v \in Nat
      BY <3>1
    <3>4. round[i][v] = v + d[i]
      <4> HIDE DEF round, v
      <4> QED BY <3>2, <3>3
    <3>5. QED
      BY <1>3, <2>1, <3>4 DEF Built
  <2>2. QED
    BY <1>3, <2>1 DEF Built
<1>5. f = F(f)
  <2>1. f = [i \in 0..Len(d) |-> f[i]]
    BY <1>3 DEF Built
  <2>2. QED
    BY <1>4, <2>1
<1>6. sum = F(sum)
  BY <1>5
<1>7. \A n \in 0..Len(d) : SumTo(d, n) = sum[n]
  BY DEF SumTo
<1>8. \A i \in 0..Len(d) : sum[i] = IF i = 0 THEN 0 ELSE sum[i - 1] + d[i]
  <2> HIDE DEF sum
  <2> QED BY <1>6
<1> HIDE DEF sum, F, round
<1>9. f[0] = sum[0] /\ \A i \in 1..Len(d) : f[i - 1] = sum[i - 1] => f[i] = sum[i]
  BY <1>1, <1>4, <1>8
<1>10. \A i \in 0..Len(d) : f[i] = sum[i]
  BY <1>1, <1>9, SameRounds
<1>11. \A n \in 0..Len(d) : SumTo(d, n) = sum[n] /\ sum[n] \in Nat
  BY <1>3, <1>7, <1>10 DEF Built
<1>12. ASSUME NEW n \in 1..Len(d) PROVE SumTo(d, n) = SumTo(d, n - 1) + d[n]
  <2>1. n \in 0..Len(d) /\ n - 1 \in 0..Len(d) /\ n # 0
    BY <1>1
  <2>2. QED
    BY <1>7, <1>8, <2>1
<1>13. SumTo(d, 0) = 0
  <2>1. 0 \in 0..Len(d)
    BY <1>1
  <2>2. QED
    BY <1>7, <1>8, <2>1
<1>14. QED
  BY <1>11, <1>12, <1>13

\* Sums do not change over zeros, and they do not go down.
LEMMA SumBetween ==
  ASSUME NEW d \in Seq(Nat), NEW a \in 0..Len(d), NEW b \in a..Len(d)
  PROVE  /\ SumTo(d, a) <= SumTo(d, b)
         /\ (\A i \in a + 1..b : d[i] = 0) => SumTo(d, a) = SumTo(d, b)
<1> DEFINE T(n) == SumTo(d, n)
           Good(n) == T(a) <= T(n) /\ ((\A i \in a + 1..n : d[i] = 0) => T(a) = T(n))
           S == {k \in Nat : a + k <= Len(d) => Good(a + k)}
<1>1. Len(d) \in Nat /\ \A i \in 1..Len(d) : d[i] \in Nat
  BY ElementOfSeq, LenProperties
<1>2. /\ \A n \in 0..Len(d) : T(n) \in Nat
      /\ \A n \in 1..Len(d) : T(n) = T(n - 1) + d[n]
  BY SumFacts
<1> HIDE DEF T
<1>3. 0 \in S
  <2>1. a + 0 = a /\ T(a) \in Nat
    BY <1>1, <1>2
  <2>2. QED
    BY <2>1
<1>4. ASSUME NEW k \in S PROVE k + 1 \in S
  <2>0. k \in Nat /\ a \in Nat
    BY <1>1
  <2>1. SUFFICES ASSUME a + (k + 1) <= Len(d) PROVE Good(a + (k + 1))
    BY <2>0
  <2>2. a + k <= Len(d) /\ Good(a + k)
    BY <1>1, <2>0, <2>1
  <2> DEFINE n == a + (k + 1)
  <2>3. n \in 1..Len(d) /\ n - 1 = a + k /\ n \in a + 1..n /\ a + k \in 0..Len(d)
    BY <1>1, <2>0, <2>1
  <2>4. T(n) = T(a + k) + d[n] /\ d[n] \in Nat /\ T(a + k) \in Nat /\ T(a) \in Nat
    BY <1>1, <1>2, <2>3
  <2>5. \A i \in a + 1..a + k : i \in a + 1..n
    BY <2>0
  <2> HIDE DEF n
  <2>6. Good(n)
    BY <2>2, <2>3, <2>4, <2>5, SMTT(30)
  <2>7. QED
    BY <2>6 DEF n
<1>5. S = Nat
  <2>1. S \in SUBSET Nat
    OBVIOUS
  <2> HIDE DEF S
  <2>2. QED
    BY <1>3, <1>4, <2>1, Reaches
<1>6. b - a \in Nat /\ a + (b - a) = b /\ b <= Len(d)
  BY <1>1
<1>7. Good(b)
  <2>1. b - a \in S
    BY <1>5, <1>6
  <2> HIDE DEF Good
  <2>2. QED
    BY <1>6, <2>1
<1>8. QED
  BY <1>7 DEF T

\* Where a sum has not reached the whole, a number that counts comes next.
LEMMA NextTurn ==
  ASSUME NEW d \in Seq(Nat), NEW k \in 0..Len(d), SumTo(d, k) < SumTo(d, Len(d))
  PROVE  \E j \in k + 1..Len(d) : d[j] > 0 /\ SumTo(d, j - 1) = SumTo(d, k)
<1>1. Len(d) \in Nat /\ \A i \in 1..Len(d) : d[i] \in Nat
  BY ElementOfSeq, LenProperties
<1> DEFINE S == {j \in k + 1..Len(d) : d[j] > 0}
<1>2. \A n \in 0..Len(d) : SumTo(d, n) \in Nat
  BY SumFacts
<1>3. S # {}
  <2>1. ASSUME S = {} PROVE FALSE
    <3>1. \A i \in k + 1..Len(d) : d[i] = 0
      BY <1>1, <2>1
    <3>2. SumTo(d, k) = SumTo(d, Len(d))
      BY <1>1, <3>1, SumBetween
    <3>3. QED
      BY <1>1, <1>2, <3>2
  <2>2. QED
    BY <2>1
<1>4. PICK j \in S : \A i \in S : j <= i
  <2>1. S \in SUBSET Nat
    BY <1>1
  <2> HIDE DEF S
  <2>2. QED
    BY <1>3, <2>1, LeastNumber
<1>5. j - 1 \in k..Len(d) /\ \A i \in k + 1..j - 1 : d[i] = 0
  BY <1>1, <1>4
<1>6. SumTo(d, j - 1) = SumTo(d, k)
  BY <1>1, <1>5, SumBetween
<1>7. QED
  BY <1>4, <1>6

-----------------------------------------------------------------------------
(* Lemmas: shares that are taken from the back of a sequence.              *)

\* Intervals between numbers that go down: no two of them meet, and together
\* they reach from the last number to the first.
LEMMA Intervals ==
  ASSUME NEW m \in Nat, NEW f, \A i \in 0..m : f[i] \in Nat, \A i \in 1..m : f[i] <= f[i - 1]
  PROVE  /\ \A i \in 0..m : \A j \in i..m : f[j] <= f[i]
         /\ Apart([i \in 1..m |-> f[i] + 1..f[i - 1]])
         /\ \A x \in f[m] + 1..f[0] : \E i \in 1..m : x \in f[i] + 1..f[i - 1]
<1>1. ASSUME NEW i \in 0..m, NEW j \in i..m PROVE f[j] <= f[i]
  <2> DEFINE S == {k \in Nat : i + k <= m => f[i + k] <= f[i]}
  <2>1. 0 \in S
    <3>1. i + 0 = i /\ f[i] \in Nat
      OBVIOUS
    <3>2. QED
      BY <3>1
  <2>2. ASSUME NEW k \in S PROVE k + 1 \in S
    <3>1. SUFFICES ASSUME i + (k + 1) <= m PROVE f[i + (k + 1)] <= f[i]
      OBVIOUS
    <3> DEFINE n == i + (k + 1)
    <3>2. n \in 1..m /\ n \in 0..m /\ n - 1 = i + k /\ n - 1 \in 0..m /\ i + k <= m
      BY <3>1
    <3>3. f[n] <= f[n - 1] /\ f[n] \in Nat /\ f[n - 1] \in Nat /\ f[i] \in Nat
      <4> HIDE DEF n
      <4> QED BY <3>2
    <3>4. f[n - 1] <= f[i]
      BY <3>2
    <3> HIDE DEF n
    <3>5. f[n] <= f[i]
      BY <3>3, <3>4
    <3>6. QED
      BY <3>5 DEF n
  <2>3. S = Nat
    <3>1. S \in SUBSET Nat
      OBVIOUS
    <3> HIDE DEF S
    <3>2. QED
      BY <2>1, <2>2, <3>1, Reaches
  <2>4. j - i \in Nat /\ i + (j - i) = j /\ j <= m
    OBVIOUS
  <2>5. QED
    BY <2>3, <2>4
<1>2. ASSUME NEW i \in 1..m, NEW j \in 1..m, i # j
      PROVE  (f[i] + 1..f[i - 1]) \cap (f[j] + 1..f[j - 1]) = {}
  <2>1. ASSUME NEW k \in 1..m, NEW l \in 1..m, k < l
        PROVE  (f[k] + 1..f[k - 1]) \cap (f[l] + 1..f[l - 1]) = {}
    <3>1. k \in 0..m /\ l - 1 \in k..m /\ l - 1 \in 0..m
      BY <2>1
    <3>2. f[l - 1] <= f[k] /\ f[l - 1] \in Nat /\ f[k] \in Nat
      BY <1>1, <3>1
    <3>3. QED
      BY <3>2
  <2>2. i < j \/ j < i
    BY <1>2
  <2>3. QED
    BY <2>1, <2>2
<1>3. ASSUME NEW x \in f[m] + 1..f[0] PROVE \E i \in 1..m : x \in f[i] + 1..f[i - 1]
  <2> DEFINE S == {i \in 0..m : f[i] < x}
  <2>0. x \in Nat /\ f[m] \in Nat /\ f[0] \in Nat /\ m \in 0..m
    OBVIOUS
  <2>1. S \in SUBSET Nat /\ m \in S
    BY <2>0
  <2>2. PICK i \in S : \A n \in S : i <= n
    <3> HIDE DEF S
    <3> QED BY <2>1, LeastNumber
  <2>3. i # 0
    BY <2>0
  <2>4. i \in 1..m /\ i - 1 \in 0..m /\ i - 1 \notin S
    BY <2>2, <2>3
  <2>5. f[i - 1] \in Nat /\ f[i] \in Nat /\ ~ f[i - 1] < x
    BY <2>4
  <2>6. QED
    BY <2>0, <2>4, <2>5
<1>4. Apart([i \in 1..m |-> f[i] + 1..f[i - 1]])
  BY <1>2 DEF Apart
<1>5. QED
  BY <1>1, <1>3, <1>4

\* Division.
LEMMA Division ==
  ASSUME NEW x \in Nat, NEW k \in Nat \ {0}
  PROVE  /\ x \div k \in Nat /\ x \div k <= x
         /\ k * (x \div k) <= x /\ x < k * (x \div k) + k
         /\ \A q \in Nat : k * q <= x /\ x < k * q + k => x \div k = q
<1>1. x \div k \in Nat /\ x \div k <= x
  OBVIOUS
<1>2. k * (x \div k) <= x
  OBVIOUS
<1>3. x < k * (x \div k) + k
  OBVIOUS
<1>4. ASSUME NEW q \in Nat, k * q <= x, x < k * q + k PROVE x \div k = q
  BY <1>4
<1>5. QED
  BY <1>1, <1>2, <1>3, <1>4

\* What is left after each thread.
LEMMA CountLeftFacts ==
  ASSUME NEW n \in Nat, NEW t \in Nat
  PROVE  LET left_ == CountLeft(n, t)
         IN  /\ left_[0] = n
             /\ \A i \in 0..t : left_[i] \in Nat
             /\ \A i \in 1..t :
                  left_[i] = left_[i - 1] - left_[i - 1] \div (t - i + 1)
             /\ \A i \in 1..t : left_[i] <= left_[i - 1]
<1> DEFINE F(f) == [i \in 0..t |-> IF i = 0 THEN n ELSE f[i - 1] - f[i - 1] \div (t - i + 1)]
           round == [i \in Nat |-> [x \in Nat |-> IF i \in 1..t THEN x - x \div (t - i + 1) ELSE 0]]
           L == CHOOSE f : f = F(f)
<1>1. \A i \in 1..t : t - i + 1 \in Nat \ {0}
  OBVIOUS
<1>2. \A i \in 1..t : \A x \in Nat : x - x \div (t - i + 1) \in Nat /\ x - x \div (t - i + 1) <= x
  <2> TAKE i \in 1..t
  <2> TAKE x \in Nat
  <2> DEFINE k == t - i + 1
  <2>1. k \in Nat \ {0}
    BY <1>1
  <2> HIDE DEF k
  <2>2. x \div k \in Nat /\ x \div k <= x
    BY <2>1, Division
  <2>3. x - x \div k \in Nat /\ x - x \div k <= x
    BY <2>2
  <2>4. QED
    BY <2>3 DEF k
<1>3. round \in [Nat -> [Nat -> Nat]]
  BY <1>2
<1>4. PICK f : Built(Nat, n, round, t, f)
  <2> HIDE DEF round
  <2> QED BY <1>3, Rounds, Zenon
<1>5. f = [i \in 0..t |-> f[i]] /\ f[0] = n /\ \A i \in 0..t : f[i] \in Nat
  <2> HIDE DEF round
  <2>1. f \in [0..t -> Nat] /\ 0 \in 0..t
    BY <1>4 DEF Built
  <2>2. f[0] = n
    BY <1>4, <2>1 DEF Built
  <2>3. QED
    BY <2>1, <2>2
<1>6. ASSUME NEW i \in 1..t
      PROVE  f[i] = f[i - 1] - f[i - 1] \div (t - i + 1) /\ f[i - 1] \in Nat /\ i # 0
  <2>1. i \in 0..t /\ i - 1 \in 0..t /\ i # 0 /\ i \in Nat
    OBVIOUS
  <2>2. f[i] = round[i][f[i - 1]]
    <3> HIDE DEF round
    <3> QED BY <1>4, <2>1 DEF Built
  <2>3. f[i - 1] \in Nat
    BY <1>5, <2>1
  <2> DEFINE v == f[i - 1]
  <2>4. \A x \in Nat : round[i][x] = x - x \div (t - i + 1)
    BY <2>1
  <2> HIDE DEF round, v
  <2>5. round[i][v] = v - v \div (t - i + 1)
    BY <2>3, <2>4 DEF v
  <2>6. QED
    BY <2>1, <2>2, <2>3, <2>5 DEF v
<1>7. f = F(f)
  <2>1. ASSUME NEW i \in 0..t
        PROVE  f[i] = IF i = 0 THEN n ELSE f[i - 1] - f[i - 1] \div (t - i + 1)
    <3>1. i = 0 \/ i \in 1..t
      OBVIOUS
    <3>2. QED
      BY <1>5, <1>6, <3>1
  <2>2. QED
    BY <1>5, <2>1
<1>8. L = F(L)
  BY <1>7
<1>9. CountLeft(n, t) = L
  BY DEF CountLeft
<1>10. L[0] = n /\ \A i \in 1..t : L[i] = L[i - 1] - L[i - 1] \div (t - i + 1)
  <2> HIDE DEF L
  <2>1. \A i \in 0..t : L[i] = IF i = 0 THEN n ELSE L[i - 1] - L[i - 1] \div (t - i + 1)
    BY <1>8
  <2>2. 0 \in 0..t /\ \A i \in 1..t : i \in 0..t /\ i # 0
    OBVIOUS
  <2>3. QED
    BY <2>1, <2>2
<1> HIDE DEF L, F, round
<1>11. \A i \in 0..t : f[i] = L[i]
  <2>1. f[0] = L[0]
    BY <1>5, <1>10
  <2>2. \A i \in 1..t : f[i - 1] = L[i - 1] => f[i] = L[i]
    <3> TAKE i \in 1..t
    <3> HAVE f[i - 1] = L[i - 1]
    <3> DEFINE v == L[i - 1]
    <3>1. f[i] = v - v \div (t - i + 1) /\ L[i] = v - v \div (t - i + 1)
      BY <1>6, <1>10
    <3> HIDE DEF v
    <3>2. QED
      BY <3>1
  <2>3. QED
    BY <2>1, <2>2, SameRounds, ZenonT(60)
<1>12. \A i \in 0..t : L[i] \in Nat
  BY <1>5, <1>11
<1>13. ASSUME NEW i \in 1..t PROVE L[i] <= L[i - 1]
  <2>1. i - 1 \in 0..t
    OBVIOUS
  <2>2. QED
    BY <1>2, <1>10, <1>12, <2>1
<1>14. QED
  BY <1>9, <1>10, <1>12, <1>13

\* One share of what is left for k threads, when each of them is to get q or
\* one more: so it is for the others afterwards.
LEMMA EvenShare ==
  ASSUME NEW x \in Nat, NEW k \in Nat \ {0}, NEW q \in Nat, k * q <= x, x <= k * q + k
  PROVE  /\ x \div k \in {q, q + 1}
         /\ (k - 1) * q <= x - x \div k
         /\ x - x \div k <= (k - 1) * q + (k - 1)
<1> DEFINE m == k * q
<1>1. m \in Nat /\ k * (q + 1) = m + k /\ (k - 1) * q = m - q
  OBVIOUS
<1>2. CASE x = m + k
  <2>1. k * (q + 1) <= x /\ x < k * (q + 1) + k /\ q + 1 \in Nat
    BY <1>1, <1>2
  <2>2. x \div k = q + 1
    BY <2>1, Division
  <2> HIDE DEF m
  <2>3. QED
    BY <1>1, <1>2, <2>2
<1>3. CASE x # m + k
  <2>1. x < m + k
    BY <1>1, <1>3
  <2>2. x \div k = q
    BY <2>1, Division
  <2> HIDE DEF m
  <2>3. m <= x
    BY DEF m
  <2>4. QED
    BY <1>1, <2>1, <2>2, <2>3
<1>4. QED
  BY <1>2, <1>3

\* check_loop, and a remote scanner that gets a new workload, give every account
\* to exactly one thread, and no thread more than one account above another.
THEOREM CountAlwaysDealt ==
  ASSUME NEW n \in Nat, NEW t \in Nat \ {0}
  PROVE  CountDealt(n, t)
<1> DEFINE L == CountLeft(n, t)
           q == n \div t
           Even(i) == (t - i) * q <= L[i] /\ L[i] <= (t - i) * q + (t - i)
<1>1. /\ L[0] = n
      /\ \A i \in 0..t : L[i] \in Nat
      /\ \A i \in 1..t : L[i] = L[i - 1] - L[i - 1] \div (t - i + 1)
      /\ \A i \in 1..t : L[i] <= L[i - 1]
  BY CountLeftFacts
<1>2. ByCount(n, t) = [i \in 1..t |-> L[i] + 1..L[i - 1]]
  BY DEF ByCount
<1>3. q \in Nat /\ t * q <= n /\ n <= t * q + t
  BY Division
<1> HIDE DEF L, q
<1>4. L[t] = 0
  <2>1. t \in 1..t /\ t - 1 \in 0..t /\ t - t + 1 = 1
    OBVIOUS
  <2>2. L[t] = L[t - 1] - L[t - 1] \div 1 /\ L[t - 1] \in Nat
    BY <1>1, <2>1
  <2>3. QED
    BY <2>2
<1>5. ASSUME NEW i \in 1..t, Even(i - 1)
      PROVE  Even(i) /\ L[i - 1] - L[i] \in {q, q + 1}
  <2> DEFINE x == L[i - 1]
             k == t - i + 1
  <2>1. i - 1 \in 0..t /\ k \in Nat \ {0} /\ t - (i - 1) = k /\ t - i = k - 1
    OBVIOUS
  <2>2. x \in Nat /\ L[i] = x - x \div k
    BY <1>1, <2>1
  <2>3. k * q <= x /\ x <= k * q + k
    BY <1>5, <2>1
  <2> HIDE DEF x, k
  <2>4. /\ x \div k \in {q, q + 1}
        /\ (k - 1) * q <= x - x \div k
        /\ x - x \div k <= (k - 1) * q + (k - 1)
    BY <1>3, <2>1, <2>2, <2>3, EvenShare
  <2>5. Even(i)
    BY <2>1, <2>2, <2>4
  <2>6. x - L[i] = x \div k
    BY <1>3, <2>2, <2>4
  <2>7. QED
    BY <2>4, <2>5, <2>6 DEF x
<1>6. \A i \in 0..t : Even(i)
  <2> DEFINE S == {i \in Nat : i <= t => Even(i)}
  <2>1. 0 \in S
    <3>1. t - 0 = t
      OBVIOUS
    <3>2. QED
      BY <1>1, <1>3, <3>1
  <2>2. ASSUME NEW i \in S PROVE i + 1 \in S
    <3> HIDE DEF Even
    <3>1. SUFFICES ASSUME i + 1 <= t PROVE Even(i + 1)
      OBVIOUS
    <3>2. i + 1 \in 1..t /\ i + 1 - 1 = i /\ Even(i)
      BY <3>1
    <3>3. QED
      BY <1>5, <3>2
  <2>3. S = Nat
    <3>1. S \in SUBSET Nat
      OBVIOUS
    <3> HIDE DEF S
    <3>2. QED
      BY <2>1, <2>2, <3>1, Reaches
  <2> HIDE DEF Even
  <2>4. QED
    BY <2>3
<1>7. ASSUME NEW i \in 1..t PROVE Cardinality(L[i] + 1..L[i - 1]) \in {q, q + 1}
  <2>1. i - 1 \in 0..t /\ i \in 0..t
    OBVIOUS
  <2>2. L[i] \in Nat /\ L[i - 1] \in Nat /\ L[i] <= L[i - 1] /\ L[i - 1] - L[i] \in {q, q + 1}
    <3> HIDE DEF Even
    <3> QED BY <1>1, <1>5, <1>6, <2>1
  <2> DEFINE a == L[i] + 1
             b == L[i - 1]
  <2>3. a \in Int /\ b \in Int /\ b - a + 1 = L[i - 1] - L[i]
    BY <2>2
  <2>4. Cardinality(a..b) = IF a <= b THEN b - a + 1 ELSE 0
    <3> HIDE DEF a, b
    <3> QED BY <2>3, FS_Interval
  <2>5. QED
    BY <1>3, <2>2, <2>3, <2>4, SMTT(30)
<1> DEFINE to == [i \in 1..t |-> L[i] + 1..L[i - 1]]
<1>8. /\ \A i \in 0..t : \A j \in i..t : L[j] <= L[i]
      /\ Apart(to)
      /\ \A x \in L[t] + 1..L[0] : \E i \in 1..t : x \in L[i] + 1..L[i - 1]
  BY <1>1, Intervals
<1>9. UNION {to[i] : i \in 1..t} = 1..n
  <2>1. ASSUME NEW i \in 1..t PROVE L[i] + 1..L[i - 1] \subseteq 1..n
    <3>1. i - 1 \in 0..t /\ i \in 0..t /\ i - 1 \in 0..t /\ 0 \in 0..t
      OBVIOUS
    <3>2. L[i] \in Nat /\ L[i - 1] \in Nat /\ L[i - 1] <= n
      BY <1>1, <1>8, <3>1
    <3>3. QED
      BY <3>2
  <2>2. ASSUME NEW x \in 1..n PROVE \E i \in 1..t : x \in to[i]
    <3>1. x \in L[t] + 1..L[0]
      BY <1>1, <1>4
    <3>2. QED
      BY <1>8, <3>1
  <2>3. QED
    BY <2>1, <2>2
<1>10. ASSUME NEW i \in 1..t, NEW j \in 1..t PROVE Cardinality(to[i]) <= Cardinality(to[j]) + 1
  BY <1>3, <1>7
<1>11. QED
  <2> HIDE DEF to
  <2>1. ByCount(n, t) = to
    BY <1>2 DEF to
  <2>2. QED
    BY <1>8, <1>9, <1>10, <2>1 DEF CountDealt

\* What do_replace_users has left after each local thread and remote scanner.
LeftInTurn(L, n, locals, remotes, threshold) ==
  LET m == locals + Len(remotes)
      own(i) == IF i <= locals THEN 1 ELSE remotes[i - locals]
      share(i, p) == IF i <= locals THEN p.users \div p.threads
                     ELSE Larger(1, p.users \div Larger(1, p.threads)) * own(i)
  IN  /\ L[0].users = n
      /\ \A i \in 0..m : L[i].users \in Nat
      /\ \A i \in 1..m : L[i].users <= L[i - 1].users
      /\ L[0].threads = IF locals > 0 /\ n \div locals < threshold THEN locals
                        ELSE locals + ThreadsOf(remotes)
      /\ \A i \in 0..m : L[i].threads \in Nat
      /\ \A i \in 1..m :
           /\ L[i].users = L[i - 1].users - Smaller(L[i - 1].users, share(i, L[i - 1]))
           /\ L[i].threads = L[i - 1].threads - Smaller(L[i - 1].threads, own(i))
           /\ i <= locals => L[i - 1].threads > 0 /\ L[i].threads = L[i - 1].threads - 1

LEMMA ReplaceLeftFacts ==
  ASSUME NEW n \in Nat, NEW locals \in Nat, NEW remotes \in Seq(Nat), NEW threshold \in Nat
  PROVE  LeftInTurn(ReplaceLeft(n, locals, remotes, threshold), n, locals, remotes, threshold)
<1> DEFINE m == locals + Len(remotes)
           V == [users : Nat, threads : Nat]
           own(i) == IF i <= locals THEN 1 ELSE remotes[i - locals]
           share(i, p) == IF i <= locals THEN p.users \div p.threads
                          ELSE Larger(1, p.users \div Larger(1, p.threads)) * own(i)
           R(i, p) == [users |-> p.users - Smaller(p.users, share(i, p)),
                       threads |-> p.threads - Smaller(p.threads, own(i))]
           start == [users |-> n,
                     threads |-> IF locals > 0 /\ n \div locals < threshold THEN locals
                                 ELSE locals + ThreadsOf(remotes)]
           round == [i \in Nat |-> [p \in V |->
                      IF i \in 1..m /\ (i <= locals => p.threads > 0) THEN R(i, p) ELSE p]]
           F(f) == [i \in 0..m |-> IF i = 0 THEN start ELSE R(i, f[i - 1])]
           L == CHOOSE f : f = F(f)
<1>1. m \in Nat /\ Len(remotes) \in Nat
  BY LenProperties
<1>2. start \in V /\ start.threads >= locals
  <2>1. ThreadsOf(remotes) \in Nat
    BY <1>1, SumFacts DEF ThreadsOf
  <2>2. QED
    BY <2>1
<1>3. ASSUME NEW i \in 1..m PROVE own(i) \in Nat
  <2>1. i > locals => i - locals \in 1..Len(remotes)
    BY <1>1
  <2>2. QED
    BY <1>1, <2>1, ElementOfSeq
<1>4. ASSUME NEW i \in 1..m, NEW p \in V, i <= locals => p.threads > 0
      PROVE  /\ R(i, p) \in V /\ R(i, p).users <= p.users
             /\ i <= locals => R(i, p).threads = p.threads - 1
  <2>1. share(i, p) \in Nat
    <3>1. CASE i <= locals
      <4>1. p.users \in Nat /\ p.threads \in Nat \ {0}
        BY <1>4, <3>1
      <4>2. p.users \div p.threads \in Nat
        BY <4>1, Division
      <4>3. QED
        BY <3>1, <4>2
    <3>2. CASE ~ i <= locals
      <4> DEFINE k == Larger(1, p.threads)
                 s == Larger(1, p.users \div k)
      <4>1. p.users \in Nat /\ k \in Nat \ {0}
        BY DEF Larger
      <4>2. p.users \div k \in Nat
        <5> HIDE DEF k
        <5> QED BY <4>1, Division
      <4>3. s \in Nat
        <5> HIDE DEF k
        <5> QED BY <4>2 DEF Larger
      <4>4. share(i, p) = s * own(i)
        BY <3>2
      <4> HIDE DEF s, own, share
      <4>5. QED
        BY <1>3, <4>3, <4>4
    <3>3. QED
      BY <3>1, <3>2
  <2> HIDE DEF share
  <2>2. p.users - Smaller(p.users, share(i, p)) \in Nat
        /\ p.users - Smaller(p.users, share(i, p)) <= p.users
    BY <2>1 DEF Smaller
  <2>3. p.threads - Smaller(p.threads, own(i)) \in Nat
    <3> HIDE DEF own
    <3> QED BY <1>3 DEF Smaller
  <2>4. i <= locals => p.threads - Smaller(p.threads, own(i)) = p.threads - 1
    BY <1>4 DEF Smaller
  <2>5. QED
    BY <2>2, <2>3, <2>4
<1>5. round \in [Nat -> [V -> V]]
  <2> HIDE DEF R, V
  <2>1. \A i \in Nat : \A p \in V :
          (IF i \in 1..m /\ (i <= locals => p.threads > 0) THEN R(i, p) ELSE p) \in V
    BY <1>4
  <2>2. QED
    BY <2>1
<1>6. PICK f : Built(V, start, round, m, f)
  <2> HIDE DEF round, start, V
  <2> QED BY <1>1, <1>2, <1>5, Rounds, Zenon
<1> HIDE DEF start, V, R
<1>7. f = [i \in 0..m |-> f[i]] /\ f[0] = start /\ \A i \in 0..m : f[i] \in V
  <2> HIDE DEF round
  <2>1. f \in [0..m -> V] /\ 0 \in 0..m
    BY <1>1, <1>6 DEF Built
  <2>2. f[0] = start
    BY <1>6, <2>1 DEF Built
  <2>3. QED
    BY <2>1, <2>2
<1>8. ASSUME NEW i \in 1..m, i <= locals => f[i - 1].threads > 0
      PROVE  /\ f[i] = R(i, f[i - 1]) /\ f[i].users <= f[i - 1].users
             /\ i <= locals => f[i].threads = f[i - 1].threads - 1
  <2>1. i \in 0..m /\ i - 1 \in 0..m /\ i # 0 /\ i \in Nat
    BY <1>1
  <2>2. f[i] = round[i][f[i - 1]]
    <3> HIDE DEF round
    <3> QED BY <1>6, <2>1 DEF Built
  <2> DEFINE p == f[i - 1]
  <2>3. p \in V
    BY <1>7, <2>1
  <2>4. \A x \in V : (i <= locals => x.threads > 0) => round[i][x] = R(i, x)
    BY <2>1
  <2> HIDE DEF round, p
  <2>5. i <= locals => p.threads > 0
    BY <1>8 DEF p
  <2>6. round[i][p] = R(i, p)
    BY <2>3, <2>4, <2>5
  <2>7. /\ R(i, p).users <= p.users
        /\ i <= locals => R(i, p).threads = p.threads - 1
    BY <1>4, <2>3, <2>5
  <2>8. QED
    BY <2>2, <2>6, <2>7 DEF p
<1>9. \A i \in 0..m : f[i].threads >= locals - i
  <2> DEFINE S == {i \in Nat : i <= m => f[i].threads >= locals - i}
  <2>1. 0 \in S
    BY <1>2, <1>7
  <2>2. ASSUME NEW i \in S PROVE i + 1 \in S
    <3>1. SUFFICES ASSUME i + 1 <= m PROVE f[i + 1].threads >= locals - (i + 1)
      OBVIOUS
    <3>2. i + 1 \in 1..m /\ i + 1 - 1 = i /\ i \in Nat /\ i \in 0..m /\ i + 1 \in 0..m
      BY <1>1, <3>1
    <3>3. f[i].threads \in Nat /\ f[i + 1].threads \in Nat /\ f[i].threads >= locals - i
      BY <1>7, <3>1, <3>2 DEF V
    <3>4. CASE i + 1 <= locals
      <4>1. f[i].threads > 0
        BY <3>2, <3>3, <3>4
      <4>2. f[i + 1].threads = f[i].threads - 1
        BY <1>8, <3>2, <3>4, <4>1
      <4>3. QED
        BY <3>2, <3>3, <4>2, SMTT(30)
    <3>5. CASE ~ i + 1 <= locals
      BY <3>2, <3>3, <3>5
    <3>6. QED
      BY <3>4, <3>5
  <2>3. S = Nat
    <3>1. S \in SUBSET Nat
      OBVIOUS
    <3> HIDE DEF S
    <3>2. QED
      BY <2>1, <2>2, <3>1, Reaches
  <2>4. QED
    BY <1>1, <2>3
<1>10. \A i \in 1..m : f[i] = R(i, f[i - 1]) /\ f[i].users <= f[i - 1].users
  <2> TAKE i \in 1..m
  <2>1. i - 1 \in 0..m
    BY <1>1
  <2>2. f[i - 1].threads >= locals - (i - 1) /\ f[i - 1].threads \in Nat
    BY <1>7, <1>9, <2>1 DEF V
  <2>3. i <= locals => f[i - 1].threads > 0
    BY <1>1, <2>2
  <2>4. QED
    BY <1>8, <2>3
<1>11. f = F(f)
  <2>1. ASSUME NEW i \in 0..m PROVE f[i] = IF i = 0 THEN start ELSE R(i, f[i - 1])
    <3>1. i = 0 \/ i \in 1..m
      BY <1>1
    <3>2. QED
      BY <1>7, <1>10, <3>1
  <2>2. QED
    BY <1>7, <2>1
<1>12. L = F(L)
  BY <1>11
<1>13. ReplaceLeft(n, locals, remotes, threshold) = L
  BY DEF ReplaceLeft, start, R
<1>14. L[0] = start /\ \A i \in 1..m : L[i] = R(i, L[i - 1])
  <2> HIDE DEF L
  <2>1. \A i \in 0..m : L[i] = IF i = 0 THEN start ELSE R(i, L[i - 1])
    BY <1>12
  <2>2. 0 \in 0..m /\ \A i \in 1..m : i \in 0..m /\ i # 0
    BY <1>1
  <2>3. QED
    BY <2>1, <2>2
<1> HIDE DEF L, F, round
<1>15. \A i \in 0..m : f[i] = L[i]
  <2>1. f[0] = L[0]
    BY <1>7, <1>14
  <2>2. \A i \in 1..m : f[i - 1] = L[i - 1] => f[i] = L[i]
    BY <1>10, <1>14
  <2>3. QED
    BY <1>1, <2>1, <2>2, SameRounds, ZenonT(60)
<1>16. \A i \in 0..m : L[i].users \in Nat /\ L[i].threads \in Nat
  BY <1>7, <1>15 DEF V
<1>17. ASSUME NEW i \in 1..m PROVE L[i].users <= L[i - 1].users
  <2>1. i \in 0..m /\ i - 1 \in 0..m
    BY <1>1
  <2>2. QED
    BY <1>10, <1>15, <2>1
<1>18. /\ L[0].users = n
       /\ L[0].threads = IF locals > 0 /\ n \div locals < threshold THEN locals
                         ELSE locals + ThreadsOf(remotes)
  BY <1>14 DEF start
<1>19. ASSUME NEW i \in 1..m
       PROVE  /\ L[i].users = L[i - 1].users - Smaller(L[i - 1].users, share(i, L[i - 1]))
              /\ L[i].threads = L[i - 1].threads - Smaller(L[i - 1].threads, own(i))
              /\ i <= locals => L[i - 1].threads > 0 /\ L[i].threads = L[i - 1].threads - 1
  <2>1. L[i] = R(i, L[i - 1])
    BY <1>14
  <2>2. i <= locals => L[i - 1].threads > 0
    <3>1. i - 1 \in 0..m /\ i \in Nat
      BY <1>1
    <3>2. L[i - 1].threads >= locals - (i - 1) /\ L[i - 1].threads \in Nat
      BY <1>9, <1>15, <1>16, <3>1
    <3> QED
      BY <3>1, <3>2
  <2>3. i <= locals => L[i].threads = L[i - 1].threads - 1
    BY <1>8, <1>15, <2>2, <1>1
  <2> QED
    BY <2>1, <2>2, <2>3 DEF R
<1> HIDE DEF m
<1>20. LeftInTurn(L, n, locals, remotes, threshold)
  <2> HIDE DEF share, own
  <2> QED
    BY <1>16, <1>17, <1>18, <1>19 DEF m, own, share, LeftInTurn
<1>21. QED
  BY <1>13, <1>20

\* A share is a part of the sequence.
LEMMA SharesOf ==
  ASSUME NEW S, NEW s \in Seq(S), NEW locals \in Nat, NEW remotes \in Seq(Nat),
         NEW threshold \in Nat
  PROVE  /\ DOMAIN Shares(s, locals, remotes, threshold) = 1..locals + Len(remotes)
         /\ \A i \in 1..locals + Len(remotes) : Shares(s, locals, remotes, threshold)[i] \in Seq(S)
<1> DEFINE L == ReplaceLeft(Len(s), locals, remotes, threshold)
           m == locals + Len(remotes)
<1>1. Len(s) \in Nat /\ m \in Nat
  BY LenProperties
<1>2. /\ L[0].users = Len(s)
      /\ \A i \in 0..m : L[i].users \in Nat
      /\ \A i \in 1..m : L[i].users <= L[i - 1].users
  <2>1. LeftInTurn(L, Len(s), locals, remotes, threshold)
    BY <1>1, ReplaceLeftFacts
  <2> HIDE DEF L
  <2> QED
    BY <2>1 DEF LeftInTurn
<1>3. Shares(s, locals, remotes, threshold)
        = [i \in 1..m |-> SubSeq(s, L[i].users + 1, L[i - 1].users)]
  BY DEF Shares
<1> HIDE DEF L, m
<1> DEFINE u == [i \in 0..m |-> L[i].users]
<1>4. /\ \A i \in 0..m : u[i] \in Nat
      /\ \A i \in 1..m : u[i] <= u[i - 1]
  <2>1. \A i \in 1..m : i \in 0..m /\ i - 1 \in 0..m
    BY <1>1
  <2>2. QED
    BY <1>2, <2>1
<1>5. \A i \in 0..m : \A j \in i..m : u[j] <= u[i]
  <2> HIDE DEF u
  <2> QED BY <1>1, <1>4, Intervals
<1>6. ASSUME NEW i \in 1..m PROVE SubSeq(s, L[i].users + 1, L[i - 1].users) \in Seq(S)
  <2>1. i \in 0..m /\ i - 1 \in 0..m /\ 0 \in 0..m /\ i - 1 \in 0..m
    BY <1>1
  <2>2. L[i].users \in Nat /\ L[i - 1].users \in Nat /\ L[i - 1].users <= Len(s)
    BY <1>2, <1>5, <2>1
  <2> DEFINE a == L[i].users + 1
             b == L[i - 1].users
  <2>3. a \in Int /\ b \in Int /\ \A k \in a..b : s[k] \in S
    <3>1. \A k \in a..b : k \in 1..Len(s)
      BY <1>1, <2>2, SMTT(30)
    <3>2. QED
      BY <2>2, <3>1, ElementOfSeq, SMTT(30)
  <2> HIDE DEF a, b
  <2>4. SubSeq(s, a, b) \in Seq(S)
    BY <2>3, SubSeqProperties
  <2>5. QED
    BY <2>4 DEF a, b
<1>7. QED
  BY <1>3, <1>6 DEF m

-----------------------------------------------------------------------------
(* Every way of dealing accounts, for any numbers of them.                 *)

\* The last scanner with threads leaves fewer accounts than it has threads.
LEMMA LastShare ==
  ASSUME NEW users \in Nat, NEW r \in Nat \ {0}
  PROVE  LET share == Larger(1, users \div Larger(1, r)) * r
         IN  users - Smaller(users, share) < r
<1> DEFINE share == Larger(1, users \div Larger(1, r)) * r
<1>1. Larger(1, r) = r
  BY DEF Larger
<1>2. PICK q : q = users \div r
  OBVIOUS
<1>3. q \in Nat /\ r * q <= users /\ users < r * q + r
  BY <1>2, Division
<1>4. share = Larger(1, q) * r
  BY <1>1, <1>2
<1>5. CASE q < 1
  <2>1. q = 0 /\ r * q = 0 /\ Larger(1, q) = 1
    BY <1>3, <1>5 DEF Larger
  <2>2. share = r /\ users < r
    BY <1>3, <1>4, <2>1
  <2> HIDE DEF share
  <2>3. Smaller(users, share) = users
    BY <2>2 DEF Smaller
  <2>4. users - Smaller(users, share) < r
    BY <2>3
  <2> QED
    BY <2>4 DEF share
<1>6. CASE ~ q < 1
  <2>1. Larger(1, q) = q
    BY <1>3, <1>6 DEF Larger
  <2>2. PICK x : x = r * q
    OBVIOUS
  <2>3. x \in Nat /\ x <= users /\ users < x + r
    BY <1>3, <2>2
  <2>4. share = x
    BY <1>3, <1>4, <2>1, <2>2
  <2> HIDE DEF share
  <2>5. users - Smaller(users, share) = users - x
    BY <2>3, <2>4 DEF Smaller
  <2>6. users - Smaller(users, share) < r
    BY <2>3, <2>5
  <2> QED
    BY <2>6 DEF share
<1> QED
  BY <1>3, <1>5, <1>6

\* The threads that are left while the local threads get theirs, and then while
\* the scanners get theirs, unless they get none.
ThreadsInTurn(L, locals, remotes) ==
  /\ \A i \in 0..locals : L[i].threads = L[0].threads - i
  /\ L[0].threads = locals + ThreadsOf(remotes) =>
       \A j \in 0..Len(remotes) :
         L[locals + j].threads = ThreadsOf(remotes) - SumTo(remotes, j)

LEMMA ThreadsLeft ==
  ASSUME NEW n \in Nat, NEW locals \in Nat, NEW remotes \in Seq(Nat), NEW threshold \in Nat
  PROVE  ThreadsInTurn(ReplaceLeft(n, locals, remotes, threshold), locals, remotes)
<1> DEFINE L == ReplaceLeft(n, locals, remotes, threshold)
           m == locals + Len(remotes)
           th == [i \in 0..m |-> L[i].threads]
           all == ThreadsOf(remotes)
           own(i) == IF i <= locals THEN 1 ELSE remotes[i - locals]
<1>1. m \in Nat /\ Len(remotes) \in Nat
  BY LenProperties
<1>2. /\ \A i \in 0..m : L[i].threads \in Nat
      /\ \A i \in 1..m :
           /\ L[i].threads = L[i - 1].threads - Smaller(L[i - 1].threads, own(i))
           /\ i <= locals => L[i - 1].threads > 0 /\ L[i].threads = L[i - 1].threads - 1
  <2>1. LeftInTurn(L, n, locals, remotes, threshold)
    BY ReplaceLeftFacts
  <2> HIDE DEF L
  <2> QED
    BY <2>1 DEF LeftInTurn
<1>3. /\ \A i \in 0..m : th[i] = L[i].threads /\ th[i] \in Nat
      /\ \A i \in 1..m :
           /\ th[i] = th[i - 1] - Smaller(th[i - 1], own(i))
           /\ i <= locals => th[i] = th[i - 1] - 1
  <2>1. \A i \in 1..m : i \in 0..m /\ i - 1 \in 0..m
    BY <1>1
  <2> HIDE DEF L, own, m
  <2> QED
    BY <1>2, <2>1
<1> HIDE DEF th, L
<1>4. \A i \in 0..locals : th[i] = th[0] - i
  <2> DEFINE S == {i \in Nat : i <= locals => th[i] = th[0] - i}
  <2>1. 0 \in S
    <3>1. 0 \in 0..m
      BY <1>1
    <3> QED
      BY <1>3, <3>1
  <2>2. ASSUME NEW i \in S PROVE i + 1 \in S
    <3>1. SUFFICES ASSUME i + 1 <= locals PROVE th[i + 1] = th[0] - (i + 1)
      OBVIOUS
    <3>2. PICK k : k = i + 1
      OBVIOUS
    <3>3. k \in 1..m /\ k - 1 = i /\ k <= locals /\ i <= locals /\ i \in Nat
      BY <1>1, <3>1, <3>2
    <3>4. th[k] = th[i] - 1 /\ th[i] = th[0] - i
      BY <1>3, <3>3
    <3>5. th[0] \in Nat
      BY <1>1, <1>3
    <3>6. th[k] = th[0] - (i + 1)
      BY <3>3, <3>4, <3>5
    <3> QED
      BY <3>2, <3>6
  <2>3. S = Nat
    <3>1. S \in SUBSET Nat
      OBVIOUS
    <3> HIDE DEF S
    <3> QED
      BY <2>1, <2>2, <3>1, Reaches
  <2> QED
    BY <2>3
<1>5. ASSUME th[0] = locals + all
      PROVE  \A j \in 0..Len(remotes) : th[locals + j] = all - SumTo(remotes, j)
  <2> DEFINE sum == [j \in 0..Len(remotes) |-> SumTo(remotes, j)]
             S == {j \in Nat : j <= Len(remotes) => th[locals + j] = all - sum[j]}
  <2>1. /\ sum[0] = 0
        /\ \A j \in 0..Len(remotes) : sum[j] \in Nat /\ sum[j] <= all
        /\ \A j \in 1..Len(remotes) : sum[j] = sum[j - 1] + remotes[j] /\ remotes[j] \in Nat
        /\ all \in Nat
    <3>1. /\ SumTo(remotes, 0) = 0
          /\ \A j \in 0..Len(remotes) : SumTo(remotes, j) \in Nat
          /\ \A j \in 1..Len(remotes) : SumTo(remotes, j) = SumTo(remotes, j - 1) + remotes[j]
      BY SumFacts
    <3>2. \A j \in 0..Len(remotes) : SumTo(remotes, j) <= all
      <4> TAKE j \in 0..Len(remotes)
      <4>1. PICK b : b = Len(remotes)
        OBVIOUS
      <4>2. b \in j..Len(remotes)
        BY <1>1, <4>1
      <4>3. SumTo(remotes, j) <= SumTo(remotes, b)
        BY <4>2, SumBetween
      <4> QED
        BY <4>1, <4>3 DEF ThreadsOf
    <3>3. \A j \in 1..Len(remotes) : j \in 0..Len(remotes) /\ j - 1 \in 0..Len(remotes)
      BY <1>1
    <3>4. 0 \in 0..Len(remotes) /\ Len(remotes) \in 0..Len(remotes)
      BY <1>1
    <3>5. all \in Nat
      BY <3>1, <3>4 DEF ThreadsOf
    <3>6. \A j \in 1..Len(remotes) : remotes[j] \in Nat
      BY ElementOfSeq
    <3> HIDE DEF all
    <3> QED
      BY <3>1, <3>2, <3>3, <3>4, <3>5, <3>6
  <2> HIDE DEF sum, all
  <2>2. 0 \in S
    <3>1. locals + 0 = locals /\ locals \in 0..locals
      OBVIOUS
    <3>2. th[locals] = th[0] - locals
      BY <1>4, <3>1
    <3>3. th[locals] = all - 0
      BY <1>5, <2>1, <3>2
    <3> QED
      BY <2>1, <3>1, <3>3
  <2>3. ASSUME NEW j \in S PROVE j + 1 \in S
    <3>1. SUFFICES ASSUME j + 1 <= Len(remotes) PROVE th[locals + (j + 1)] = all - sum[j + 1]
      OBVIOUS
    <3>2. PICK k : k = j + 1
      OBVIOUS
    <3>3. PICK i : i = locals + k
      OBVIOUS
    <3>4. /\ j \in Nat /\ k \in 1..Len(remotes) /\ k \in 0..Len(remotes) /\ k - 1 = j
          /\ i \in 1..m /\ i \in 0..m /\ i - 1 = locals + j /\ ~ i <= locals /\ i - locals = k
      BY <1>1, <3>1, <3>2, <3>3
    <3>5. th[i - 1] = all - sum[j] /\ j \in 0..Len(remotes)
      BY <1>1, <3>1, <3>4
    <3>6. own(i) = remotes[k]
      BY <3>4
    <3>7. th[i] = th[i - 1] - Smaller(th[i - 1], remotes[k])
      <4> HIDE DEF own
      <4> QED BY <1>3, <3>4, <3>6
    <3>8. sum[k] = sum[j] + remotes[k] /\ remotes[k] \in Nat /\ sum[k] <= all
      BY <2>1, <3>4
    <3>9. Smaller(th[i - 1], remotes[k]) = remotes[k]
      BY <2>1, <3>5, <3>8 DEF Smaller
    <3>10. th[i] = all - sum[k]
      BY <2>1, <3>5, <3>7, <3>8, <3>9
    <3> QED
      BY <3>2, <3>3, <3>10
  <2>4. S = Nat
    <3>1. S \in SUBSET Nat
      OBVIOUS
    <3> HIDE DEF S
    <3> QED
      BY <2>2, <2>3, <3>1, Reaches
  <2>5. \A j \in 0..Len(remotes) : th[locals + j] = all - sum[j]
    BY <2>4
  <2> QED
    BY <2>5 DEF sum
<1>6. /\ \A i \in 0..locals : i \in 0..m
      /\ \A j \in 0..Len(remotes) : locals + j \in 0..m
      /\ 0 \in 0..m
  BY <1>1
<1>7. /\ \A i \in 0..locals : L[i].threads = L[0].threads - i
      /\ L[0].threads = locals + all =>
           \A j \in 0..Len(remotes) : L[locals + j].threads = all - SumTo(remotes, j)
  <2> HIDE DEF m, all
  <2> QED BY <1>3, <1>4, <1>5, <1>6
<1> QED
  BY <1>7 DEF L, ThreadsInTurn

\* With a single thread left a local thread takes all accounts.
LEMMA NothingLeft ==
  ASSUME NEW n \in Nat, NEW locals \in Nat \ {0}, NEW remotes \in Seq(Nat), NEW threshold \in Nat,
         ReplaceLeft(n, locals, remotes, threshold)[0].threads = locals
  PROVE  ReplaceLeft(n, locals, remotes, threshold)[locals].users = 0
<1> DEFINE L == ReplaceLeft(n, locals, remotes, threshold)
<1>1. LeftInTurn(L, n, locals, remotes, threshold) /\ ThreadsInTurn(L, locals, remotes)
  BY ReplaceLeftFacts, ThreadsLeft
<1>2. L[0].threads = locals
  OBVIOUS
<1>3. Len(remotes) \in Nat
  BY LenProperties
<1> HIDE DEF L
<1>4. PICK p : p = L[locals - 1]
  OBVIOUS
<1>5. /\ locals - 1 \in 0..locals /\ locals - 1 \in 0..locals + Len(remotes)
      /\ locals \in 1..locals + Len(remotes) /\ locals <= locals
  BY <1>3
<1>6. p.threads = 1 /\ p.users \in Nat
  <2>1. p.threads = L[0].threads - (locals - 1)
    BY <1>1, <1>4, <1>5 DEF ThreadsInTurn
  <2>2. p.users \in Nat
    BY <1>1, <1>4, <1>5 DEF LeftInTurn
  <2> QED
    BY <1>2, <2>1, <2>2
<1>7. L[locals].users = p.users - Smaller(p.users, p.users \div p.threads)
  BY <1>1, <1>4, <1>5 DEF LeftInTurn
<1>8. p.users \div p.threads = p.users
  BY <1>6
<1>9. L[locals].users = 0
  BY <1>6, <1>7, <1>8 DEF Smaller
<1> QED
  BY <1>9 DEF L

\* do_replace_users forgets nobody but fewer accounts than the last scanner has
\* threads, whatever the numbers of accounts, threads and scanners.
THEOREM ReplaceAlwaysDealt ==
  ASSUME NEW n \in Nat, NEW locals \in Nat, NEW remotes \in Seq(Nat), NEW threshold \in Nat,
         locals + ThreadsOf(remotes) > 0
  PROVE  ReplaceDealt(n, locals, remotes, threshold)
<1> DEFINE L == ReplaceLeft(n, locals, remotes, threshold)
           m == locals + Len(remotes)
           u == [i \in 0..m |-> L[i].users]
           to == [i \in 1..m |-> u[i] + 1..u[i - 1]]
           all == 1..n
           with == {i \in DOMAIN remotes : remotes[i] > 0}
           sum(j) == SumTo(remotes, j)
<1>1. m \in Nat /\ Len(remotes) \in Nat /\ DOMAIN remotes = 1..Len(remotes)
      /\ \A j \in 1..Len(remotes) : remotes[j] \in Nat
  BY LenProperties, ElementOfSeq
<1>2. LeftInTurn(L, n, locals, remotes, threshold)
  BY ReplaceLeftFacts
<1>3. Replace(n, locals, remotes, threshold) = [i \in 1..m |-> L[i].users + 1..L[i - 1].users]
  BY DEF Replace
<1>4. ASSUME L[0].threads = locals + ThreadsOf(remotes)
      PROVE  \A j \in 0..Len(remotes) : L[locals + j].threads = ThreadsOf(remotes) - sum(j)
  <2>1. ThreadsInTurn(L, locals, remotes)
    BY ThreadsLeft
  <2> HIDE DEF L
  <2> QED
    BY <1>4, <2>1 DEF ThreadsInTurn
<1>5. L[0].threads = locals /\ locals > 0 => L[locals].users = 0
  BY NothingLeft
<1>6. sum(0) = 0 /\ (\A j \in 0..Len(remotes) : sum(j) \in Nat)
      /\ \A j \in 1..Len(remotes) : sum(j) = sum(j - 1) + remotes[j]
  BY SumFacts
<1>7. \A a \in 0..Len(remotes) : \A b \in a..Len(remotes) :
        (\A i \in a + 1..b : remotes[i] = 0) => sum(a) = sum(b)
  BY SumBetween
<1>8. ThreadsOf(remotes) = sum(Len(remotes))
  BY DEF ThreadsOf
<1> HIDE DEF L, sum
<1>9. \A i \in 0..m : u[i] = L[i].users /\ u[i] \in Nat
  BY <1>2 DEF LeftInTurn
<1>10. /\ \A i \in 1..m : u[i] <= u[i - 1]
       /\ u[0] = n
       /\ Replace(n, locals, remotes, threshold) = to
  <2>1. \A i \in 1..m : i \in 0..m /\ i - 1 \in 0..m
    BY <1>1
  <2>2. 0 \in 0..m
    BY <1>1
  <2>3. L[0].users = n /\ \A i \in 1..m : L[i].users <= L[i - 1].users
    BY <1>2 DEF LeftInTurn
  <2>4. \A i \in 0..m : u[i] = L[i].users
    OBVIOUS
  <2> HIDE DEF u
  <2> QED
    BY <1>3, <2>1, <2>2, <2>3, <2>4
<1> HIDE DEF u
<1>11. /\ \A i \in 0..m : \A j \in i..m : u[j] <= u[i]
       /\ Apart(to)
       /\ \A x \in u[m] + 1..u[0] : \E i \in 1..m : x \in u[i] + 1..u[i - 1]
  BY <1>1, <1>9, <1>10, Intervals
<1> DEFINE dealt == UNION {to[i] : i \in DOMAIN to}
<1>12. u[m] \in Nat /\ u[m] <= n
  <2>1. 0 \in 0..m /\ m \in 0..m /\ m \in 0..m
    BY <1>1
  <2> QED
    BY <1>9, <1>10, <1>11, <2>1
<1>13. dealt = u[m] + 1..n
  <2>1. ASSUME NEW i \in 1..m PROVE to[i] \subseteq u[m] + 1..n
    <3>1. i \in 0..m /\ i - 1 \in 0..m /\ m \in i..m /\ i - 1 \in 0..m /\ 0 \in 0..m
      BY <1>1
    <3>2. u[m] <= u[i] /\ u[i - 1] <= n /\ u[i] \in Nat /\ u[i - 1] \in Nat
      BY <1>9, <1>10, <1>11, <3>1
    <3> QED
      BY <1>12, <3>2, SMTT(30)
  <2>2. ASSUME NEW x \in u[m] + 1..n PROVE \E i \in 1..m : x \in to[i]
    BY <1>10, <1>11
  <2>3. DOMAIN to = 1..m
    OBVIOUS
  <2> HIDE DEF to
  <2> QED
    BY <2>1, <2>2, <2>3
<1> HIDE DEF to
<1>14. ASSUME dealt # all
       PROVE  \E j \in with :
                /\ \A k \in with : k <= j
                /\ Cardinality(all \ dealt) < remotes[j]
                /\ \A x \in all \ dealt, y \in dealt : x < y
  <2>1. u[m] > 0 /\ all \ dealt = 1..u[m]
    <3>1. u[m] # 0
      BY <1>12, <1>13, <1>14
    <3> HIDE DEF dealt
    <3> QED
      BY <1>12, <1>13, <3>1
  <2>2. L[locals].users # 0
    <3>1. locals \in 0..m /\ m \in locals..m
      BY <1>1
    <3>2. u[m] <= u[locals] /\ u[locals] = L[locals].users /\ u[locals] \in Nat
      BY <1>9, <1>11, <3>1
    <3> QED
      BY <1>12, <2>1, <3>2
  <2>3. L[0].threads = locals + ThreadsOf(remotes)
    <3>1. L[0].threads = IF locals > 0 /\ n \div locals < threshold THEN locals
                         ELSE locals + ThreadsOf(remotes)
      BY <1>2 DEF LeftInTurn
    <3> QED
      BY <1>5, <2>2, <3>1
  <2>4. ThreadsOf(remotes) > 0
    <3>1. ASSUME ThreadsOf(remotes) = 0 PROVE FALSE
      <4>1. L[0].threads = locals /\ locals > 0
        BY <2>3, <3>1
      <4> QED
        BY <1>5, <2>2, <4>1
    <3>2. ThreadsOf(remotes) \in Nat
      BY <1>1, <1>6, <1>8
    <3> QED
      BY <3>1, <3>2
  <2> DEFINE lastly == {i \in 0..Len(remotes) : \A k \in i + 1..Len(remotes) : remotes[k] = 0}
  <2>5. Len(remotes) \in lastly /\ lastly \in SUBSET Nat
    BY <1>1
  <2>6. PICK j \in lastly : \A i \in lastly : j <= i
    <3> HIDE DEF lastly
    <3> QED BY <2>5, LeastNumber
  <2>7. j \in 0..Len(remotes) /\ j \in Nat /\ \A k \in j + 1..Len(remotes) : remotes[k] = 0
    BY <1>1
  <2>8. sum(j) = ThreadsOf(remotes)
    <3>1. Len(remotes) \in j..Len(remotes)
      BY <1>1, <2>7
    <3> QED
      BY <1>7, <1>8, <2>7, <3>1
  <2>9. j # 0
    BY <1>6, <2>4, <2>8
  <2>10. j \in 1..Len(remotes) /\ j - 1 \in 0..Len(remotes) /\ remotes[j] \in Nat
    BY <1>1, <2>7, <2>9
  <2>11. remotes[j] # 0
    <3>1. ASSUME remotes[j] = 0 PROVE FALSE
      <4>1. ASSUME NEW k \in j - 1 + 1..Len(remotes) PROVE remotes[k] = 0
        <5>1. k = j \/ k \in j + 1..Len(remotes)
          BY <1>1, <2>7
        <5> QED
          BY <2>7, <3>1, <5>1
      <4>2. j - 1 \in lastly
        BY <2>10, <4>1
      <4>3. j <= j - 1
        <5> HIDE DEF lastly
        <5> QED BY <2>6, <4>2
      <4> QED
        BY <2>7, <4>3
    <3> QED
      BY <3>1
  <2>12. j \in with /\ \A k \in with : k <= j
    <3>1. ASSUME NEW k \in with PROVE k <= j
      <4>1. k \in 1..Len(remotes) /\ remotes[k] # 0
        BY <1>1
      <4>2. k \notin j + 1..Len(remotes)
        BY <2>7, <4>1
      <4> QED
        BY <1>1, <2>7, <4>1, <4>2
    <3> QED
      BY <1>1, <2>10, <2>11, <3>1
  <2>13. PICK i : i = locals + j
    OBVIOUS
  <2>14. PICK p : p = L[i - 1]
    OBVIOUS
  <2>15. i \in 1..m /\ i - 1 = locals + (j - 1) /\ ~ i <= locals /\ i - locals = j
         /\ i \in 0..m /\ i - 1 \in 0..m /\ m \in i..m
    BY <1>1, <2>10, <2>13
  <2>16. p.threads = remotes[j]
    <3>1. p.threads = ThreadsOf(remotes) - sum(j - 1)
      BY <1>4, <2>3, <2>10, <2>14, <2>15
    <3>2. sum(j) = sum(j - 1) + remotes[j] /\ sum(j - 1) \in Nat /\ sum(j) \in Nat
      BY <1>6, <2>7, <2>10
    <3> QED
      BY <2>8, <2>10, <3>1, <3>2
  <2>17. p.users \in Nat
    BY <1>2, <2>14, <2>15 DEF LeftInTurn
  <2>18. L[i].users = p.users - Smaller(p.users, Larger(1, p.users \div Larger(1, p.threads)) * remotes[j])
    BY <1>2, <2>14, <2>15 DEF LeftInTurn
  <2>19. L[i].users < remotes[j]
    <3>1. PICK r : r = remotes[j]
      OBVIOUS
    <3>2. r \in Nat \ {0}
      BY <2>10, <2>11, <3>1
    <3>3. p.users - Smaller(p.users, Larger(1, p.users \div Larger(1, r)) * r) < r
      BY <2>17, <3>2, LastShare
    <3> QED
      BY <2>16, <2>18, <3>1, <3>3
  <2>20. u[m] < remotes[j]
    <3>1. u[m] <= u[i] /\ u[i] = L[i].users /\ u[i] \in Nat
      BY <1>9, <1>11, <2>15
    <3> QED
      BY <1>12, <2>10, <2>19, <3>1
  <2>21. Cardinality(all \ dealt) < remotes[j]
    <3>1. PICK c : c = u[m]
      OBVIOUS
    <3>2. c \in Nat /\ c > 0
      BY <1>12, <2>1, <3>1
    <3>3. Cardinality(1..c) = c - 1 + 1
      <4>1. PICK one : one = 1
        OBVIOUS
      <4>2. Cardinality(one..c) = c - one + 1
        BY <3>2, <4>1, FS_Interval
      <4> QED
        BY <4>1, <4>2
    <3>4. Cardinality(all \ dealt) = c
      <4>1. all \ dealt = 1..c
        <5> HIDE DEF all, dealt
        <5> QED BY <2>1, <3>1
      <4>2. c - 1 + 1 = c
        BY <3>2
      <4> HIDE DEF all, dealt
      <4> QED
        BY <3>3, <4>1, <4>2
    <3> QED
      BY <2>20, <3>1, <3>4
  <2>22. \A x \in all \ dealt, y \in dealt : x < y
    <3> HIDE DEF dealt, all
    <3> QED
      BY <1>12, <1>13, <2>1
  <2> HIDE DEF with, dealt
  <2> QED
    BY <2>12, <2>21, <2>22
<1> HIDE DEF dealt
<1>15. Replace(n, locals, remotes, threshold) = to /\ Apart(to)
  BY <1>10, <1>11
<1> QED
  BY <1>14, <1>15, Zenon DEF ReplaceDealt, dealt
\* One account is put on a thread with --block-depth-threading.
LEMMA ByDepthFacts ==
  ASSUME NEW d \in Seq(Nat), NEW first \in Nat, NEW workers \in Nat \ {0}
  PROVE  LET at == ByDepth(d, first, workers)
             target == SumTo(d, Len(d)) \div workers
             moves(i) == /\ at[i - 1].thread < first + workers - 1
                         /\ Moves(at[i - 1].thread - first, at[i - 1].filled, d[i], target)
         IN  /\ target \in Nat
             /\ at[0].thread = first /\ at[0].filled = 0
             /\ \A i \in 0..Len(d) : at[i].filled \in Nat /\ at[i].thread \in first..first + workers - 1
             /\ \A i \in 1..Len(d) :
                  \/ moves(i) /\ at[i].thread = at[i - 1].thread + 1 /\ at[i].filled = d[i]
                  \/ ~ moves(i) /\ at[i].thread = at[i - 1].thread /\ at[i].filled = d[i] + at[i - 1].filled
<1> DEFINE n == Len(d)
           V == [thread : first..first + workers - 1, filled : Nat]
           target == SumTo(d, n) \div workers
           goes(i, p) == p.thread < first + workers - 1 /\ Moves(p.thread - first, p.filled, d[i], target)
           R(i, p) == [thread |-> IF goes(i, p) THEN p.thread + 1 ELSE p.thread,
                       filled |-> d[i] + IF goes(i, p) THEN 0 ELSE p.filled]
           start == [thread |-> first, filled |-> 0]
           round == [i \in Nat |-> [p \in V |-> IF i \in 1..n THEN R(i, p) ELSE p]]
           F(f) == [i \in 0..n |-> IF i = 0 THEN start ELSE R(i, f[i - 1])]
           at == CHOOSE f : f = F(f)
<1>1. n \in Nat /\ \A i \in 1..n : d[i] \in Nat
  BY ElementOfSeq, LenProperties
<1>2. target \in Nat
  <2>1. SumTo(d, n) \in Nat
    BY <1>1, SumFacts
  <2> QED
    BY <2>1, Division
<1>3. start \in V
  OBVIOUS
<1> HIDE DEF target
<1>4. ASSUME NEW i \in 1..n, NEW p \in V PROVE R(i, p) \in V
  <2>1. d[i] \in Nat /\ p.filled \in Nat /\ p.thread \in first..first + workers - 1
    BY <1>1
  <2>2. CASE goes(i, p)
    <3>1. p.thread + 1 \in first..first + workers - 1
      BY <2>1, <2>2
    <3>2. R(i, p) = [thread |-> p.thread + 1, filled |-> d[i] + 0]
      BY <2>2
    <3> QED
      BY <2>1, <3>1, <3>2
  <2>3. CASE ~ goes(i, p)
    <3>1. R(i, p) = [thread |-> p.thread, filled |-> d[i] + p.filled]
      BY <2>3
    <3> QED
      BY <2>1, <3>1
  <2> QED
    BY <2>2, <2>3
<1> HIDE DEF R, V, start
<1>5. round \in [Nat -> [V -> V]]
  BY <1>4
<1>6. PICK f : Built(V, start, round, n, f)
  <2> HIDE DEF round, n
  <2> QED BY <1>1, <1>3, <1>5, Rounds, Zenon
<1>7. f = F(f)
  <2>1. f = [i \in 0..n |-> f[i]] /\ \A i \in 0..n : f[i] \in V
    BY <1>6 DEF Built
  <2>2. ASSUME NEW i \in 0..n PROVE f[i] = IF i = 0 THEN start ELSE R(i, f[i - 1])
    <3>1. CASE i = 0
      BY <1>6, <3>1 DEF Built
    <3>2. CASE i # 0
      <4>1. i \in 1..n /\ i \in Nat /\ i - 1 \in 0..n
        BY <1>1, <3>2
      <4>2. f[i] = round[i][f[i - 1]] /\ f[i - 1] \in V
        <5> HIDE DEF round
        <5> QED BY <1>6, <2>1, <3>2, <4>1 DEF Built
      <4>3. \A p \in V : round[i][p] = R(i, p)
        BY <4>1
      <4> HIDE DEF round
      <4> QED
        BY <3>2, <4>2, <4>3
    <3> QED
      BY <3>1, <3>2
  <2> QED
    BY <2>1, <2>2
<1>8. at = F(at)
  BY <1>7
<1>9. ByDepth(d, first, workers) = at
  BY Zenon DEF ByDepth, R, start, target
<1>10. at[0] = start /\ \A i \in 1..n : at[i] = R(i, at[i - 1])
  <2> HIDE DEF at
  <2>1. \A i \in 0..n : at[i] = IF i = 0 THEN start ELSE R(i, at[i - 1])
    BY <1>8
  <2>2. 0 \in 0..n /\ \A i \in 1..n : i \in 0..n /\ i # 0
    BY <1>1
  <2> QED
    BY <2>1, <2>2
<1> HIDE DEF at, F, round
<1>11. \A i \in 0..n : at[i] \in V
  <2> DEFINE S == {i \in Nat : i <= n => at[i] \in V}
  <2>1. 0 \in S
    BY <1>3, <1>10
  <2>2. ASSUME NEW i \in S PROVE i + 1 \in S
    <3>1. i + 1 <= n => i + 1 \in 1..n /\ i + 1 - 1 = i /\ i <= n
      BY <1>1
    <3> QED
      BY <1>4, <1>10, <3>1
  <2>3. S = Nat
    <3>1. S \in SUBSET Nat
      OBVIOUS
    <3> HIDE DEF S
    <3> QED
      BY <2>1, <2>2, <3>1, Reaches
  <2> QED
    BY <2>3
<1>12. at[0].thread = first /\ at[0].filled = 0
  BY <1>10 DEF start
<1>13. \A i \in 0..n : at[i].filled \in Nat /\ at[i].thread \in first..first + workers - 1
  BY <1>11 DEF V
<1>14. ASSUME NEW i \in 1..n
       PROVE  \/ goes(i, at[i - 1]) /\ at[i].thread = at[i - 1].thread + 1 /\ at[i].filled = d[i]
              \/ ~ goes(i, at[i - 1]) /\ at[i].thread = at[i - 1].thread
                   /\ at[i].filled = d[i] + at[i - 1].filled
  <2> HIDE DEF goes
  <2>1. at[i] = R(i, at[i - 1]) /\ d[i] \in Nat
    BY <1>1, <1>10
  <2>2. CASE goes(i, at[i - 1])
    BY <2>1, <2>2 DEF R
  <2>3. CASE ~ goes(i, at[i - 1])
    BY <2>1, <2>3 DEF R
  <2> QED
    BY <2>2, <2>3
<1> QED
  BY <1>2, <1>9, <1>12, <1>13, <1>14 DEF target

\* The thread goes up by one at most, from account to account.
LEMMA ByDepthUp ==
  ASSUME NEW d \in Seq(Nat), NEW first \in Nat, NEW workers \in Nat \ {0},
         NEW i \in 0..Len(d), NEW k \in i..Len(d)
  PROVE  ByDepth(d, first, workers)[i].thread <= ByDepth(d, first, workers)[k].thread
<1> DEFINE f == [x \in 0..Len(d) |-> ByDepth(d, first, workers)[x].thread]
           S == {x \in Nat : i + x <= Len(d) => f[i] <= f[i + x]}
<1>0. \A x \in 1..Len(d) :
        \/ ByDepth(d, first, workers)[x].thread = ByDepth(d, first, workers)[x - 1].thread + 1
        \/ ByDepth(d, first, workers)[x].thread = ByDepth(d, first, workers)[x - 1].thread
  <2> DEFINE at == ByDepth(d, first, workers)
             target == SumTo(d, Len(d)) \div workers
             moves(x) == /\ at[x - 1].thread < first + workers - 1
                         /\ Moves(at[x - 1].thread - first, at[x - 1].filled, d[x], target)
  <2>1. \A x \in 1..Len(d) :
          \/ moves(x) /\ at[x].thread = at[x - 1].thread + 1 /\ at[x].filled = d[x]
          \/ ~ moves(x) /\ at[x].thread = at[x - 1].thread /\ at[x].filled = d[x] + at[x - 1].filled
    BY ByDepthFacts
  <2> QED
    BY <2>1, Zenon
<1>1. Len(d) \in Nat /\ \A x \in 0..Len(d) : f[x] \in Nat
  <2>1. \A x \in 0..Len(d) : ByDepth(d, first, workers)[x].thread \in first..first + workers - 1
    BY ByDepthFacts
  <2>2. Len(d) \in Nat
    BY LenProperties
  <2>3. \A x \in 0..Len(d) : f[x] = ByDepth(d, first, workers)[x].thread
    OBVIOUS
  <2> HIDE DEF f
  <2>4. ASSUME NEW x \in 0..Len(d) PROVE f[x] \in Nat
    <3>1. PICK y : y = ByDepth(d, first, workers)[x].thread
      OBVIOUS
    <3>2. y \in first..first + workers - 1 /\ f[x] = y
      BY <2>1, <2>3, <3>1, Zenon
    <3> QED
      BY <3>2
  <2> QED
    BY <2>2, <2>4
<1>2. \A x \in 1..Len(d) : f[x - 1] <= f[x]
  <2> TAKE x \in 1..Len(d)
  <2>1. /\ x \in 0..Len(d) /\ x - 1 \in 0..Len(d)
        /\ f[x] \in Nat /\ f[x - 1] \in Nat
    BY <1>1
  <2>2. \/ ByDepth(d, first, workers)[x].thread = ByDepth(d, first, workers)[x - 1].thread + 1
        \/ ByDepth(d, first, workers)[x].thread = ByDepth(d, first, workers)[x - 1].thread
    BY <1>0
  <2>3. f[x] = f[x - 1] + 1 \/ f[x] = f[x - 1]
    BY <2>1, <2>2
  <2> HIDE DEF f
  <2> QED
    BY <2>1, <2>3
<1> HIDE DEF f
<1>3. 0 \in S
  BY <1>1
<1>4. ASSUME NEW x \in S PROVE x + 1 \in S
  <2>1. SUFFICES ASSUME i + (x + 1) <= Len(d) PROVE f[i] <= f[i + (x + 1)]
    OBVIOUS
  <2>2. PICK y : y = i + (x + 1)
    OBVIOUS
  <2>3. y \in 1..Len(d) /\ y - 1 = i + x /\ i + x <= Len(d) /\ y \in 0..Len(d) /\ y - 1 \in 0..Len(d)
    BY <1>1, <2>1, <2>2
  <2>4. f[i] <= f[y - 1] /\ f[y - 1] <= f[y] /\ f[i] \in Nat /\ f[y] \in Nat /\ f[y - 1] \in Nat
    BY <1>1, <1>2, <2>3
  <2>5. f[i] <= f[y]
    BY <2>4
  <2> QED
    BY <2>2, <2>5
<1>5. S = Nat
  <2>1. S \in SUBSET Nat
    OBVIOUS
  <2> HIDE DEF S
  <2> QED
    BY <1>3, <1>4, <2>1, Reaches
<1>6. PICK x : x = k - i
  OBVIOUS
<1>7. x \in Nat /\ i + x = k /\ k <= Len(d) /\ i \in 0..Len(d) /\ k \in 0..Len(d)
  BY <1>1, <1>6
<1>8. x \in S
  <2> HIDE DEF S
  <2> QED
    BY <1>5, <1>7
<1>9. f[i] <= f[k]
  BY <1>7, <1>8
<1> QED
  BY <1>7, <1>9 DEF f

\* With --block-depth-threading the threads reach the target, or stay within it,
\* by turns, for any depths and number of threads.
THEOREM DepthAlwaysDealt ==
  ASSUME NEW d \in Seq(Nat), NEW workers \in Nat \ {0}
  PROVE  DepthDealt(d, workers)
<1> DEFINE n == Len(d)
           at == ByDepth(d, 1, workers)
           target == SumTo(d, n) \div workers
           load(t) == {i \in 1..n : at[i].thread = t}
           last(t) == CHOOSE i \in load(t) : \A k \in load(t) : k <= i
           moves(i) == at[i - 1].thread < 1 + workers - 1
                         /\ Moves(at[i - 1].thread - 1, at[i - 1].filled, d[i], target)
<1>1. n \in Nat /\ \A i \in 1..n : d[i] \in Nat
  BY ElementOfSeq, LenProperties
<1>2. 1 \in Nat
  OBVIOUS
<1>3. /\ target \in Nat /\ at[0].thread = 1 /\ at[0].filled = 0
      /\ \A i \in 0..n : at[i].filled \in Nat /\ at[i].thread \in 1..1 + workers - 1
      /\ \A i \in 1..n :
           \/ moves(i) /\ at[i].thread = at[i - 1].thread + 1 /\ at[i].filled = d[i]
           \/ ~ moves(i) /\ at[i].thread = at[i - 1].thread /\ at[i].filled = d[i] + at[i - 1].filled
  BY <1>2, ByDepthFacts, ZenonT(40)
<1>4. \A i \in 0..n : \A k \in i..n : at[i].thread <= at[k].thread
  BY <1>2, ByDepthUp
<1> HIDE DEF at, target, n
<1>5. ASSUME target > 0, NEW t \in 1..at[n].thread - 1
      PROVE  /\ load(t) # {}
             /\ LET sum == at[last(t)].filled IN
                IF (t - 1) % 2 = 0
                THEN sum >= target /\ sum - d[last(t)] < target
                ELSE sum <= target \/ Cardinality(load(t)) = 1
  <2> DEFINE above == {i \in 0..n : at[i].thread > t}
  <2>1. t \in Nat /\ t >= 1 /\ n \in 0..n /\ at[n].thread \in Nat
    BY <1>1, <1>3
  <2>2. n \in above /\ above \in SUBSET Nat
    BY <2>1
  <2>3. PICK m \in above : \A i \in above : m <= i
    <3> HIDE DEF above
    <3> QED BY <2>2, LeastNumber
  <2>4. m \in 0..n /\ m \in Nat /\ at[m].thread > t /\ m # 0
    BY <1>3, <2>1
  <2>5. m \in 1..n /\ m - 1 \in 0..n /\ m - 1 \notin above
    BY <1>1, <2>3, <2>4
  <2>6. at[m].thread \in Nat /\ at[m - 1].thread \in Nat /\ at[m - 1].thread <= t
    BY <1>3, <2>1, <2>4, <2>5, SMTT(30)
  <2>7. moves(m) /\ at[m].thread = at[m - 1].thread + 1 /\ at[m - 1].thread = t
    <3>1. \/ moves(m) /\ at[m].thread = at[m - 1].thread + 1
          \/ at[m].thread = at[m - 1].thread
      BY <1>3, <2>5, Zenon
    <3>2. at[m].thread # at[m - 1].thread
      BY <2>1, <2>4, <2>6
    <3>3. moves(m) /\ at[m].thread = at[m - 1].thread + 1
      BY <3>1, <3>2, Zenon
    <3> HIDE DEF moves
    <3> QED
      BY <2>1, <2>4, <2>6, <3>3
  <2>8. PICK l : l = m - 1
    OBVIOUS
  <2>9. /\ l \in 0..n /\ at[l].thread = t /\ at[l].filled \in Nat
        /\ Moves(t - 1, at[l].filled, d[m], target) /\ t < workers /\ d[m] \in Nat
    <3>1. l \in 0..n /\ at[l].thread = t /\ at[l].filled \in Nat /\ d[m] \in Nat
      BY <1>1, <1>3, <2>5, <2>7, <2>8
    <3>2. at[l].thread < 1 + workers - 1 /\ Moves(at[l].thread - 1, at[l].filled, d[m], target)
      BY <2>7, <2>8, Zenon
    <3>3. 1 + workers - 1 = workers
      OBVIOUS
    <3> QED
      BY <3>1, <3>2, <3>3
  <2>10. l # 0
    <3>1. ASSUME l = 0 PROVE FALSE
      <4>1. t - 1 = 0 /\ at[l].filled = 0 /\ (t - 1) % 2 = 0
        BY <1>3, <2>9, <3>1
      <4>2. at[l].filled >= target
        BY <2>9, <4>1 DEF Moves
      <4> QED
        BY <1>3, <1>5, <4>1, <4>2
    <3> QED
      BY <3>1
  <2>11. l \in 1..n /\ l - 1 \in 0..n /\ l \in load(t) /\ d[l] \in Nat /\ l \in Nat
    BY <1>1, <2>9, <2>10
  <2>12. ASSUME NEW k \in load(t) PROVE k <= l
    <3>1. k \in 1..n /\ at[k].thread = t
      OBVIOUS
    <3>2. ~ m <= k
      <4>1. ASSUME m <= k PROVE FALSE
        <5>1. k \in m..n
          BY <1>1, <2>4, <3>1, <4>1
        <5>2. at[m].thread <= at[k].thread
          BY <1>4, <2>4, <5>1
        <5> QED
          BY <2>1, <2>4, <2>6, <3>1, <5>2
      <4> QED
        BY <4>1
    <3> QED
      BY <1>1, <2>4, <2>8, <3>1, <3>2
  <2>13. last(t) = l
    <3>1. \A i \in load(t) : (\A k \in load(t) : k <= i) => i = l
      <4> TAKE i \in load(t)
      <4> HAVE \A k \in load(t) : k <= i
      <4>1. i <= l /\ l <= i /\ i \in Nat
        BY <1>1, <2>11, <2>12
      <4> QED
        BY <2>11, <4>1
    <3> HIDE DEF load
    <3> QED
      BY <2>11, <2>12, <3>1
  <2>14. \/ moves(l) /\ t = at[l - 1].thread + 1 /\ at[l].filled = d[l]
         \/ ~ moves(l) /\ t = at[l - 1].thread /\ at[l].filled = d[l] + at[l - 1].filled
    BY <1>3, <2>9, <2>11, Zenon
  <2>15. at[l - 1].thread \in Nat /\ at[l - 1].filled \in Nat
    BY <1>3, <2>11
  <2>16. t = at[l - 1].thread => (moves(l) <=> Moves(t - 1, at[l - 1].filled, d[l], target))
    BY <2>9
  <2>17. CASE (t - 1) % 2 = 0
    <3>1. at[l].filled >= target
      BY <2>9, <2>17 DEF Moves
    <3>2. at[l].filled - d[l] < target
      <4>1. CASE t = at[l - 1].thread + 1 /\ at[l].filled = d[l]
        BY <1>3, <1>5, <2>11, <4>1
      <4>2. CASE ~ moves(l) /\ t = at[l - 1].thread /\ at[l].filled = d[l] + at[l - 1].filled
        <5>1. ~ Moves(t - 1, at[l - 1].filled, d[l], target)
          BY <2>16, <4>2
        <5>2. ~ at[l - 1].filled >= target
          BY <2>17, <5>1 DEF Moves
        <5>3. at[l].filled = d[l] + at[l - 1].filled
          BY <4>2
        <5> QED
          BY <1>3, <2>11, <2>15, <5>2, <5>3
      <4> QED
        BY <2>14, <4>1, <4>2
    <3> HIDE DEF load, last, moves
    <3> QED
      BY <2>11, <2>13, <2>17, <3>1, <3>2
  <2>18. CASE (t - 1) % 2 # 0
    <3>1. at[l].filled <= target \/ Cardinality(load(t)) = 1
      <4>1. CASE t = at[l - 1].thread + 1
        <5>1. ASSUME NEW k \in load(t) PROVE k = l
          <6>1. k \in 1..n /\ at[k].thread = t /\ k <= l /\ k \in Nat
            BY <1>1, <2>12
          <6>2. k # l => k \in 0..n /\ l - 1 \in k..n
            BY <1>1, <2>11, <6>1
          <6>3. k # l => at[k].thread <= at[l - 1].thread
            BY <1>4, <6>2
          <6> QED
            BY <2>1, <2>15, <4>1, <6>1, <6>3
        <5>2. load(t) = {l}
          <6> HIDE DEF load
          <6> QED BY <2>11, <5>1
        <5> QED
          BY <5>2, FS_Singleton
      <4>2. CASE ~ moves(l) /\ t = at[l - 1].thread /\ at[l].filled = d[l] + at[l - 1].filled
        <5>1. ~ Moves(t - 1, at[l - 1].filled, d[l], target)
          BY <2>16, <4>2
        <5>2. ~ at[l - 1].filled + d[l] > target
          BY <2>18, <5>1 DEF Moves
        <5>3. at[l].filled = d[l] + at[l - 1].filled
          BY <4>2
        <5> QED
          BY <1>3, <2>11, <2>15, <5>2, <5>3
      <4> QED
        BY <2>14, <4>1, <4>2
    <3> HIDE DEF load, last, moves
    <3> QED
      BY <2>11, <2>13, <2>18, <3>1
  <2> QED
    BY <2>17, <2>18
<1> QED
  BY <1>5, Zenon DEF DepthDealt, at, target, n


\* A sorted sequence goes up.
LEMMA SortedUp ==
  ASSUME NEW d \in Seq(Nat), \A i \in 1..Len(d) - 1 : d[i] <= d[i + 1],
         NEW a \in 1..Len(d), NEW b \in a..Len(d)
  PROVE  d[a] <= d[b]
<1> DEFINE S == {x \in Nat : a + x <= Len(d) => d[a] <= d[a + x]}
<1>1. Len(d) \in Nat /\ \A i \in 1..Len(d) : d[i] \in Nat
  BY ElementOfSeq, LenProperties
<1>2. 0 \in S
  <2>1. a + 0 = a /\ d[a] \in Nat
    BY <1>1
  <2> QED
    BY <2>1
<1>3. ASSUME NEW x \in S PROVE x + 1 \in S
  <2>1. SUFFICES ASSUME a + (x + 1) <= Len(d) PROVE d[a] <= d[a + (x + 1)]
    OBVIOUS
  <2>2. PICK y : y = a + x
    OBVIOUS
  <2>3. y \in 1..Len(d) - 1 /\ y + 1 = a + (x + 1) /\ y \in 1..Len(d) /\ y + 1 \in 1..Len(d)
        /\ a + x <= Len(d)
    BY <1>1, <2>1, <2>2
  <2>4. d[a] <= d[y] /\ d[y] <= d[y + 1] /\ d[a] \in Nat /\ d[y] \in Nat /\ d[y + 1] \in Nat
    BY <1>1, <2>2, <2>3
  <2>5. d[a] <= d[y + 1]
    BY <2>4
  <2> QED
    BY <2>3, <2>5
<1>4. S = Nat
  <2>1. S \in SUBSET Nat
    OBVIOUS
  <2> HIDE DEF S
  <2> QED
    BY <1>2, <1>3, <2>1, Reaches
<1>5. PICK x : x = b - a
  OBVIOUS
<1>6. x \in Nat /\ a + x = b /\ b <= Len(d)
  BY <1>1, <1>5
<1>7. x \in S
  <2> HIDE DEF S
  <2> QED BY <1>4, <1>6
<1> QED
  BY <1>6, <1>7

\* The synced accounts are the first ones.
LEMMA SyncedFirst ==
  ASSUME NEW d \in Seq(Nat), \A i \in 1..Len(d) - 1 : d[i] <= d[i + 1], NEW h \in Nat
  PROVE  /\ Cardinality({i \in 1..Len(d) : d[i] <= h}) \in 0..Len(d)
         /\ {i \in 1..Len(d) : d[i] <= h} = 1..Cardinality({i \in 1..Len(d) : d[i] <= h})
<1> DEFINE n == Len(d)
           S == {i \in 1..n : d[i] <= h}
           later == {i \in 1..n + 1 : i \in 1..n => d[i] > h}
<1>1. n \in Nat /\ \A i \in 1..n : d[i] \in Nat
  BY ElementOfSeq, LenProperties
<1>2. \A a \in 1..n : \A b \in a..n : d[a] <= d[b]
  BY SortedUp
<1> HIDE DEF n
<1>3. later \in SUBSET Nat /\ n + 1 \in later
  BY <1>1
<1>4. PICK c \in later : \A i \in later : c <= i
  <2> HIDE DEF later
  <2> QED BY <1>3, LeastNumber
<1>5. c \in 1..n + 1 /\ c \in Nat /\ (c \in 1..n => d[c] > h)
  BY <1>1
<1>6. PICK k : k = c - 1
  OBVIOUS
<1>7. k \in 0..n /\ k \in Nat /\ c = k + 1
  BY <1>1, <1>5, <1>6
<1>8. ASSUME NEW i \in 1..n PROVE i \in S <=> i <= k
  <2>1. CASE i <= k
    <3>1. ~ c <= i /\ i \in 1..n + 1
      BY <1>1, <1>7, <2>1
    <3>2. i \notin later
      <4> HIDE DEF later
      <4> QED BY <1>4, <3>1
    <3> QED
      BY <1>1, <2>1, <3>1, <3>2
  <2>2. CASE ~ i <= k
    <3>1. c \in 1..n /\ i \in c..n
      BY <1>1, <1>7, <2>2
    <3>2. d[c] <= d[i] /\ d[c] > h /\ d[i] \in Nat /\ d[c] \in Nat
      BY <1>1, <1>2, <1>5, <3>1
    <3>3. ~ d[i] <= h
      BY <3>2
    <3> QED
      BY <2>2, <3>3
  <2> QED
    BY <2>1, <2>2
<1>9. S = 1..k
  <2>1. S \subseteq 1..n /\ 1..k \subseteq 1..n
    BY <1>1, <1>7
  <2>2. \A i \in 1..n : i \in 1..k <=> i <= k
    OBVIOUS
  <2> HIDE DEF S
  <2> QED
    BY <1>8, <2>1, <2>2
<1>10. Cardinality(1..k) = k
  <2>1. PICK one : one = 1
    OBVIOUS
  <2>2. Cardinality(one..k) = IF one <= k THEN k - one + 1 ELSE 0
    BY <1>7, <2>1, FS_Interval
  <2> QED
    BY <1>7, <2>1, <2>2
<1>11. Cardinality(S) = k /\ S = 1..Cardinality(S) /\ Cardinality(S) \in 0..n
  <2> HIDE DEF S
  <2> QED BY <1>7, <1>9, <1>10
<1> QED
  BY <1>11 DEF n

\* With --split-sync-threads every account gets one thread unless all are for
\* synced accounts, and synced accounts have theirs for themselves, whatever the
\* depths and the numbers of threads.
THEOREM SplitAlwaysDealt ==
  ASSUME NEW raw \in Seq(Nat), \A i \in 1..Len(raw) - 1 : raw[i] <= raw[i + 1],
         NEW min_depth \in Nat, NEW synced_depth \in Nat,
         NEW synced_threads \in Nat \ {0}, NEW workers \in Nat, synced_threads <= workers
  PROVE  SplitDealt(raw, min_depth, synced_depth, synced_threads, workers)
<1> DEFINE n == Len(raw)
           S == {i \in 1..n : raw[i] <= synced_depth}
           k == Cardinality(S)
           used == Smaller(synced_threads, k)
           from == IF k = 0 THEN 0 ELSE synced_threads
           rest == [i \in 1..n - k |-> Larger(raw[k + i], min_depth)]
           at == ByDepth(rest, from + 1, workers - from)
           to == [i \in 1..n |-> IF i <= k THEN {((i - 1) % used) + 1}
                                 ELSE IF from < workers THEN {at[i - k].thread}
                                 ELSE {}]
           synced == {i \in DOMAIN raw : raw[i] <= synced_depth}
<1>1. n \in Nat /\ DOMAIN raw = 1..n /\ \A i \in 1..n : raw[i] \in Nat
  BY ElementOfSeq, LenProperties
<1>2. k \in 0..n /\ S = 1..k
  <2> HIDE DEF k
  <2> QED BY SyncedFirst DEF k
<1>3. synced = S
  BY <1>1
<1>4. SplitSync(raw, min_depth, synced_depth, synced_threads, workers) = to
  BY DEF SplitSync
<1>5. rest \in Seq(Nat) /\ Len(rest) = n - k
  <2> HIDE DEF k, n
  <2>1. n - k \in Nat
    BY <1>1, <1>2
  <2>2. \A i \in 1..n - k : Larger(raw[k + i], min_depth) \in Nat
    <3> TAKE i \in 1..n - k
    <3>1. k + i \in 1..n
      BY <1>1, <1>2
    <3> QED
      BY <1>1, <3>1 DEF Larger
  <2>3. rest \in [1..n - k -> Nat]
    BY <2>2
  <2> HIDE DEF rest
  <2> QED
    BY <2>1, <2>3, LenProperties, IsASeq, SMTT(30)
<1>6. ASSUME from < workers, NEW x \in 0..Len(rest)
      PROVE  at[x].thread \in from + 1..workers
  <2> HIDE DEF rest, k
  <2>0. from \in Nat
    OBVIOUS
  <2> HIDE DEF from
  <2>1. PICK first : first = from + 1
    OBVIOUS
  <2>2. PICK count : count = workers - from
    OBVIOUS
  <2>3. first \in Nat /\ count \in Nat \ {0} /\ first + count - 1 = workers
    BY <1>6, <2>0, <2>1, <2>2
  <2>4. ByDepth(rest, first, count)[x].thread \in first..first + count - 1
    BY <1>5, <1>6, <2>3, ByDepthFacts
  <2> QED
    BY <2>1, <2>2, <2>3, <2>4
<1> HIDE DEF at, rest, S, k
<1>7. ASSUME NEW i \in 1..n, i <= k
      PROVE  \E t \in 1..synced_threads : to[i] = {t}
  <2>1. used \in Nat \ {0} /\ used <= synced_threads
    BY <1>2, <1>7 DEF Smaller
  <2> HIDE DEF used
  <2>2. PICK t : t = ((i - 1) % used) + 1
    OBVIOUS
  <2>3. i - 1 \in Nat
    OBVIOUS
  <2>4. t \in 1..synced_threads
    BY <2>1, <2>2, <2>3
  <2>5. to[i] = {t}
    BY <1>7, <2>2
  <2> QED
    BY <2>4, <2>5
<1>8. ASSUME NEW i \in 1..n, ~ i <= k
      PROVE  \/ \E t \in from + 1..workers : to[i] = {t}
             \/ ~ from < workers /\ to[i] = {}
  <2>1. i - k \in 0..Len(rest)
    BY <1>1, <1>2, <1>5, <1>8
  <2>2. CASE from < workers
    <3>1. at[i - k].thread \in from + 1..workers
      BY <1>6, <2>1, <2>2
    <3>2. to[i] = {at[i - k].thread}
      BY <1>8, <2>2
    <3> QED
      BY <3>1, <3>2
  <2>3. CASE ~ from < workers
    BY <1>8, <2>3
  <2> QED
    BY <2>2, <2>3
<1> HIDE DEF to
<1>9. \A i \in 1..n : i \in synced <=> i <= k
  <2>1. synced = 1..k /\ k \in Nat
    <3> HIDE DEF synced
    <3> QED BY <1>1, <1>2, <1>3
  <2>2. \A i \in 1..n : i \in 1..k <=> i <= k
    BY <1>1, <2>1
  <2> HIDE DEF synced
  <2> QED
    BY <2>1, <2>2
<1>10. ASSUME NEW i \in 1..n
       PROVE  \/ \E t \in 1..workers : to[i] = {t}
              \/ i \notin synced /\ synced # {} /\ synced_threads = workers
  <2>1. CASE i <= k
    <3>1. 1..synced_threads \subseteq 1..workers
      OBVIOUS
    <3> QED
      BY <1>7, <2>1, <3>1
  <2>2. CASE ~ i <= k /\ from < workers
    <3>1. from + 1..workers \subseteq 1..workers
      OBVIOUS
    <3> QED
      BY <1>8, <2>2, <3>1
  <2>3. CASE ~ i <= k /\ ~ from < workers
    <3>1. k # 0 /\ synced_threads = workers
      BY <2>3
    <3>2. 1 \in 1..n /\ 1 <= k
      BY <1>1, <1>2, <3>1
    <3> HIDE DEF synced
    <3> QED
      BY <1>9, <2>3, <3>1, <3>2
  <2> QED
    BY <2>1, <2>2, <2>3
<1>11. ASSUME NEW i \in synced, NEW x \in (1..n) \ synced PROVE to[i] \cap to[x] = {}
  <2>1. i \in 1..n /\ i <= k /\ ~ x <= k
    BY <1>1, <1>9
  <2>2. from = synced_threads
    BY <1>2, <2>1
  <2>3. PICK t \in 1..synced_threads : to[i] = {t}
    BY <1>7, <2>1
  <2>4. CASE to[x] = {}
    BY <2>4
  <2>5. CASE \E s \in from + 1..workers : to[x] = {s}
    <3>1. PICK s \in from + 1..workers : to[x] = {s}
      BY <2>5
    <3>2. s # t
      BY <2>2
    <3> QED
      BY <2>3, <3>1, <3>2
  <2> QED
    BY <1>8, <2>1, <2>4, <2>5
<1> HIDE DEF synced, from
<1>12. /\ \A i \in DOMAIN raw :
            \/ \E t \in 1..workers : to[i] = {t}
            \/ i \notin synced /\ synced # {} /\ synced_threads = workers
       /\ \A i \in synced, x \in DOMAIN raw \ synced : to[i] \cap to[x] = {}
  BY <1>1, <1>10, <1>11
<1> QED
  BY <1>4, <1>12, Zenon DEF SplitDealt, synced

\* Comparing by height and then by count.
LEMMA HigherFirst ==
  ASSUME NEW a \in Nat, NEW b \in Nat, NEW c \in Nat, NEW d \in Nat, NEW e \in Nat, NEW f \in Nat,
         a > b \/ (a = b /\ d < e), b > c \/ (b = c /\ e <= f)
  PROVE  a > c \/ (a = c /\ d <= f)
  OBVIOUS

LEMMA LowerFirst ==
  ASSUME NEW a \in Nat, NEW b \in Nat, NEW c \in Nat, NEW d \in Nat, NEW e \in Nat, NEW f \in Nat,
         a < b \/ (a = b /\ d < e), b < c \/ (b = c /\ e <= f)
  PROVE  a < c \/ (a = c /\ d <= f)
  OBVIOUS

\* With --balance-new-addresses the thread that check_users comes to is the best
\* one, whatever the heights and the numbers of accounts.
THEOREM BestAlwaysFits ==
  ASSUME NEW h \in Nat, NEW heights \in Seq(Nat), NEW counts \in Seq(Nat),
         Len(heights) = Len(counts), Len(heights) > 0
  PROVE  BestFits(h, heights, counts)
<1> DEFINE n == Len(heights)
           V == [thread : Nat, height : Nat, count : Int, found : BOOLEAN]
           R(i, b) == IF Better(b, h, heights[i], counts[i])
                      THEN [thread |-> i, height |-> heights[i], count |-> counts[i],
                            found |-> b.found \/ heights[i] <= h]
                      ELSE b
           start == [thread |-> 1, height |-> 0, count |-> -1, found |-> FALSE]
           round == [i \in Nat |-> [b \in V |-> IF i \in 1..n THEN R(i, b) ELSE b]]
           F(f) == [i \in 0..n |-> IF i = 0 THEN start ELSE R(i, f[i - 1])]
           best == CHOOSE f : f = F(f)
<1>1. n \in Nat \ {0} /\ \A i \in 1..n : heights[i] \in Nat /\ counts[i] \in Nat
  BY ElementOfSeq, LenProperties
<1>2. start \in V
  OBVIOUS
<1>3. ASSUME NEW i \in 1..n, NEW b \in V PROVE R(i, b) \in V
  <2>1. [thread |-> i, height |-> heights[i], count |-> counts[i],
         found |-> b.found \/ heights[i] <= h] \in V
    <3>1. i \in Nat /\ heights[i] \in Nat /\ counts[i] \in Int
      BY <1>1
    <3>2. (b.found \/ heights[i] <= h) \in BOOLEAN
      OBVIOUS
    <3> QED
      BY <3>1, <3>2
  <2> HIDE DEF V
  <2> QED
    BY <2>1
<1> HIDE DEF R, V, start
<1>4. round \in [Nat -> [V -> V]]
  BY <1>3
<1>5. PICK f : Built(V, start, round, n, f)
  <2> HIDE DEF round, n
  <2> QED BY <1>1, <1>2, <1>4, Rounds, Zenon
<1>6. f = F(f)
  <2>1. f = [i \in 0..n |-> f[i]] /\ \A i \in 0..n : f[i] \in V
    BY <1>5 DEF Built
  <2>2. ASSUME NEW i \in 0..n PROVE f[i] = IF i = 0 THEN start ELSE R(i, f[i - 1])
    <3>1. CASE i = 0
      BY <1>5, <3>1 DEF Built
    <3>2. CASE i # 0
      <4>1. i \in 1..n /\ i \in Nat /\ i - 1 \in 0..n
        BY <1>1, <3>2
      <4>2. f[i] = round[i][f[i - 1]] /\ f[i - 1] \in V
        <5> HIDE DEF round
        <5> QED BY <1>5, <2>1, <3>2, <4>1 DEF Built
      <4>3. \A b \in V : round[i][b] = R(i, b)
        BY <4>1
      <4> HIDE DEF round
      <4> QED
        BY <3>2, <4>2, <4>3
    <3> QED
      BY <3>1, <3>2
  <2> QED
    BY <2>1, <2>2
<1>7. best = F(best)
  BY <1>6
<1>8. BestThread(h, heights, counts) = best[n].thread
  BY Zenon DEF BestThread, R, start
<1>9. best[0] = start /\ \A i \in 1..n : best[i] = R(i, best[i - 1])
  <2> HIDE DEF best
  <2>1. \A i \in 0..n : best[i] = IF i = 0 THEN start ELSE R(i, best[i - 1])
    BY <1>7
  <2>2. 0 \in 0..n /\ \A i \in 1..n : i \in 0..n /\ i # 0
    BY <1>1
  <2> QED
    BY <2>1, <2>2
<1> HIDE DEF best, F, round, n
\* What the best of the first i threads is.
<1> DEFINE Same(b) == b.height = heights[b.thread] /\ b.count = counts[b.thread]
           Above(x, y) == heights[x] > heights[y] \/ (heights[x] = heights[y] /\ counts[x] <= counts[y])
           Beneath(x, y) == heights[x] < heights[y] \/ (heights[x] = heights[y] /\ counts[x] <= counts[y])
           Good(i, b) ==
             /\ b.thread \in 1..i /\ Same(b) /\ b.found \in BOOLEAN
             /\ b.found => /\ heights[b.thread] <= h
                           /\ \A x \in 1..i : heights[x] <= h => Above(b.thread, x)
             /\ ~ b.found => \A x \in 1..i : heights[x] > h /\ Beneath(b.thread, x)
<1>10. Good(1, best[1])
  <2>1. best[1] = R(1, start) /\ 1 \in 1..n /\ 1 \in 1..1
    BY <1>1, <1>9
  <2>2. Better(start, h, heights[1], counts[1])
    BY DEF Better, start
  <2>3. PICK q : q = (start.found \/ heights[1] <= h)
    OBVIOUS
  <2>4. best[1] = [thread |-> 1, height |-> heights[1], count |-> counts[1], found |-> q]
    BY <2>1, <2>2, <2>3, Zenon DEF R
  <2>5. ~ start.found
    BY DEF start
  <2>6. q \in BOOLEAN /\ (q <=> heights[1] <= h)
    BY <2>3, <2>5, Zenon
  <2>7. heights[1] \in Nat /\ counts[1] \in Nat
    BY <1>1, <2>1
  <2>8. \A x \in 1..1 : x = 1
    OBVIOUS
  <2>9. best[1].thread = 1 /\ best[1].height = heights[1] /\ best[1].count = counts[1]
        /\ best[1].found = q
    BY <2>4
  <2>10. best[1].thread \in 1..1 /\ Same(best[1]) /\ best[1].found \in BOOLEAN
    BY <2>6, <2>9
  <2>11. Above(1, 1) /\ Beneath(1, 1)
    BY <2>7
  <2>12. heights[1] <= h \/ heights[1] > h
    BY <2>7
  <2> HIDE DEF Above, Beneath, Same
  <2>13. best[1].found => /\ heights[best[1].thread] <= h
                          /\ \A x \in 1..1 : heights[x] <= h => Above(best[1].thread, x)
    BY <2>6, <2>8, <2>9, <2>11
  <2>14. ~ best[1].found => \A x \in 1..1 : heights[x] > h /\ Beneath(best[1].thread, x)
    BY <2>6, <2>8, <2>9, <2>11, <2>12
  <2> QED
    BY <2>10, <2>13, <2>14
<1>11. ASSUME NEW i \in 1..n, i + 1 \in 1..n, Good(i, best[i]) PROVE Good(i + 1, best[i + 1])
  <2>1. PICK j : j = i + 1
    OBVIOUS
  <2>2. PICK b : b = best[i]
    OBVIOUS
  <2>3. PICK t : t = b.thread
    OBVIOUS
  <2>4. j \in 1..n /\ j - 1 = i /\ best[j] = R(j, b)
    BY <1>9, <1>11, <2>1, <2>2
  <2>5. heights[j] \in Nat /\ counts[j] \in Nat
    BY <1>1, <2>4
  <2>6. Good(i, b)
    BY <1>11, <2>2
  <2>7. t \in 1..i /\ t \in 1..n /\ b.height = heights[t] /\ b.count = counts[t]
        /\ heights[t] \in Nat /\ counts[t] \in Nat
    BY <1>1, <2>3, <2>6
  <2>8. \A x \in 1..j : x = j \/ x \in 1..i
    BY <2>1
  <2>9. \A x \in 1..i : x \in 1..n /\ heights[x] \in Nat /\ counts[x] \in Nat
    BY <1>1
  <2>10. /\ b.found => /\ heights[t] <= h
                       /\ \A x \in 1..i : heights[x] <= h => Above(t, x)
         /\ ~ b.found => \A x \in 1..i : heights[x] > h /\ Beneath(t, x)
         /\ b.found \in BOOLEAN
    BY <2>3, <2>6
  <2> HIDE DEF Good
  <2>11. CASE Better(b, h, heights[j], counts[j])
    <3> PICK q : q = (b.found \/ heights[j] <= h)
      OBVIOUS
    <3>1. /\ best[j].thread = j /\ best[j].height = heights[j] /\ best[j].count = counts[j]
          /\ best[j].found = q
      <4>1. best[j] = [thread |-> j, height |-> heights[j], count |-> counts[j], found |-> q]
        BY <2>4, <2>11, Zenon DEF R
      <4> QED
        BY <4>1
    <3>2. CASE heights[j] <= h
      <4>1. best[j].found = TRUE
        BY <3>1, <3>2, Zenon
      <4>2. ASSUME NEW x \in 1..j, heights[x] <= h PROVE Above(j, x)
        <5>1. CASE x = j
          BY <2>5, <5>1
        <5>2. CASE x \in 1..i
          <6>1. b.found
            BY <2>9, <2>10, <4>2, <5>2
          <6>2. heights[j] > heights[t] \/ (heights[j] = heights[t] /\ counts[j] < counts[t])
            BY <2>7, <2>11, <3>2, <6>1 DEF Better
          <6>3. Above(t, x)
            BY <2>10, <4>2, <5>2, <6>1
          <6>4. heights[x] \in Nat /\ counts[x] \in Nat
            BY <2>9, <5>2
          <6>5. heights[t] \in Nat /\ counts[t] \in Nat
            BY <2>7
          <6>6. PICK a, b1, c, d, e, g : /\ a = heights[j] /\ b1 = heights[t] /\ c = heights[x]
                                         /\ d = counts[j] /\ e = counts[t] /\ g = counts[x]
            OBVIOUS
          <6>7. /\ a \in Nat /\ b1 \in Nat /\ c \in Nat /\ d \in Nat /\ e \in Nat /\ g \in Nat
                /\ a > b1 \/ (a = b1 /\ d < e)
                /\ b1 > c \/ (b1 = c /\ e <= g)
            BY <2>5, <6>2, <6>3, <6>4, <6>5, <6>6
          <6>8. a > c \/ (a = c /\ d <= g)
            BY <6>7, HigherFirst
          <6> QED
            BY <6>6, <6>8
        <5> QED
          BY <2>8, <5>1, <5>2
      <4>3. j \in 1..j /\ best[j].thread = j /\ Same(best[j])
        BY <2>4, <3>1
      <4>4. Good(j, best[j])
        <5> HIDE DEF Above, Beneath, Same
        <5> QED BY <3>2, <4>1, <4>2, <4>3 DEF Good
      <4> QED
        BY <2>1, <4>4
    <3>3. CASE ~ heights[j] <= h
      <4>1. ~ b.found /\ (heights[t] = 0 \/ heights[j] < heights[t]
                           \/ (heights[j] = heights[t] /\ counts[j] < counts[t]))
        BY <2>7, <2>11, <3>3 DEF Better
      <4>2. best[j].found = FALSE
        BY <3>1, <3>3, <4>1, Zenon
      <4>3. heights[t] > h
        BY <2>7, <2>10, <4>1
      <4>4. ASSUME NEW x \in 1..j PROVE heights[x] > h /\ Beneath(j, x)
        <5>1. CASE x = j
          BY <2>5, <3>3, <5>1
        <5>2. CASE x \in 1..i
          <6>1. heights[x] > h /\ Beneath(t, x)
            BY <2>10, <4>1, <5>2
          <6>2. heights[x] \in Nat /\ counts[x] \in Nat
            BY <2>9, <5>2
          <6>3. heights[j] < heights[t] \/ (heights[j] = heights[t] /\ counts[j] < counts[t])
            BY <2>7, <4>1, <4>3
          <6>4. heights[t] \in Nat /\ counts[t] \in Nat
            BY <2>7
          <6>5. PICK a, b1, c, d, e, g : /\ a = heights[j] /\ b1 = heights[t] /\ c = heights[x]
                                         /\ d = counts[j] /\ e = counts[t] /\ g = counts[x]
            OBVIOUS
          <6>6. /\ a \in Nat /\ b1 \in Nat /\ c \in Nat /\ d \in Nat /\ e \in Nat /\ g \in Nat
                /\ a < b1 \/ (a = b1 /\ d < e)
                /\ b1 < c \/ (b1 = c /\ e <= g)
            BY <2>5, <6>1, <6>2, <6>3, <6>4, <6>5
          <6>7. a < c \/ (a = c /\ d <= g)
            BY <6>6, LowerFirst
          <6> QED
            BY <6>1, <6>5, <6>7
        <5> QED
          BY <2>8, <5>1, <5>2
      <4>5. j \in 1..j /\ best[j].thread = j /\ Same(best[j])
        BY <2>4, <3>1
      <4>6. Good(j, best[j])
        <5> HIDE DEF Above, Beneath, Same
        <5> QED BY <4>2, <4>4, <4>5 DEF Good
      <4> QED
        BY <2>1, <4>6
    <3> QED
      BY <3>2, <3>3
  <2>12. CASE ~ Better(b, h, heights[j], counts[j])
    <3>1. best[j] = b
      BY <2>4, <2>12 DEF R
    <3>2. b.thread \in 1..j /\ Same(b)
      BY <2>1, <2>3, <2>7
    <3>3. ASSUME b.found, NEW x \in 1..j, heights[x] <= h PROVE Above(t, x)
      <4>1. CASE x = j
        <5>1. ~ (heights[j] > heights[t] \/ (heights[j] = heights[t] /\ counts[j] < counts[t]))
          BY <2>7, <2>12, <3>3, <4>1 DEF Better
        <5> QED
          BY <2>5, <2>7, <4>1, <5>1, SMTT(30)
      <4>2. CASE x \in 1..i
        BY <2>10, <3>3, <4>2
      <4> QED
        BY <2>8, <4>1, <4>2
    <3>4. ASSUME ~ b.found, NEW x \in 1..j PROVE heights[x] > h /\ Beneath(t, x)
      <4>1. CASE x = j
        <5>1. ~ heights[j] <= h
          BY <2>12, <3>4 DEF Better
        <5>2. ~ (heights[t] = 0 \/ heights[j] < heights[t]
                  \/ (heights[j] = heights[t] /\ counts[j] < counts[t]))
          BY <2>7, <2>12, <3>4, <5>1 DEF Better
        <5>3. heights[j] > h
          BY <2>5, <5>1
        <5>4. Beneath(t, j)
          BY <2>5, <2>7, <5>2, SMTT(30)
        <5> QED
          BY <4>1, <5>3, <5>4
      <4>2. CASE x \in 1..i
        BY <2>10, <3>4, <4>2
      <4> QED
        BY <2>8, <4>1, <4>2
    <3>5. Good(j, b)
      <4> HIDE DEF Above, Beneath, Same
      <4> QED BY <2>3, <2>10, <3>2, <3>3, <3>4 DEF Good
    <3> QED
      BY <2>1, <3>1, <3>5
  <2> QED
    BY <2>11, <2>12
<1>12. Good(n, best[n])
  <2> DEFINE S == {x \in Nat : x + 1 <= n => Good(x + 1, best[x + 1])}
  <2> HIDE DEF Good
  <2>1. 0 \in S
    BY <1>10
  <2>2. ASSUME NEW x \in S PROVE x + 1 \in S
    <3>1. SUFFICES ASSUME x + 1 + 1 <= n PROVE Good(x + 1 + 1, best[x + 1 + 1])
      OBVIOUS
    <3>2. PICK i : i = x + 1
      OBVIOUS
    <3>3. i \in 1..n /\ i + 1 \in 1..n /\ Good(i, best[i])
      BY <1>1, <3>1, <3>2
    <3>4. Good(i + 1, best[i + 1])
      BY <1>11, <3>3
    <3> QED
      BY <3>2, <3>4
  <2>3. S = Nat
    <3>1. S \in SUBSET Nat
      OBVIOUS
    <3> HIDE DEF S
    <3> QED
      BY <2>1, <2>2, <3>1, Reaches
  <2>4. PICK x : x = n - 1
    OBVIOUS
  <2>5. x \in Nat /\ x + 1 = n /\ x + 1 <= n
    BY <1>1, <2>4
  <2>6. x \in S
    <3> HIDE DEF S
    <3> QED BY <2>3, <2>5
  <2> QED
    BY <2>5, <2>6
<1>13. PICK t : t = best[n].thread
  OBVIOUS
<1> DEFINE T == 1..n
           below == {i \in T : heights[i] <= h}
           among == IF below # {} THEN {i \in below : \A k \in below : heights[k] <= heights[i]}
                    ELSE {i \in T : \A k \in T : heights[i] <= heights[k]}
<1>14. t \in {i \in among : \A k \in among : counts[i] <= counts[k]}
  <2>1. t \in T /\ heights[t] \in Nat /\ \A x \in T : heights[x] \in Nat /\ counts[x] \in Nat
    BY <1>1, <1>12, <1>13
  <2>2. CASE best[n].found
    <3>1. t \in below /\ \A x \in below : Above(t, x)
      BY <1>12, <1>13, <2>1, <2>2
    <3>2. \A x \in below : x \in T
      OBVIOUS
    <3> HIDE DEF below
    <3>3. among = {i \in below : \A k \in below : heights[k] <= heights[i]}
      BY <3>1
    <3>4. t \in among
      <4>1. ASSUME NEW k \in below PROVE heights[k] <= heights[t]
        <5>1. Above(t, k) /\ heights[k] \in Nat
          BY <2>1, <3>1, <3>2
        <5> QED
          BY <2>1, <5>1
      <4> QED
        BY <3>1, <3>3, <4>1
    <3>5. \A k \in among : counts[t] <= counts[k]
      <4> TAKE k \in among
      <4>1. k \in below /\ heights[t] <= heights[k]
        BY <3>1, <3>3
      <4>2. Above(t, k) /\ k \in T
        BY <3>1, <3>2, <4>1
      <4>3. heights[t] \in Nat /\ heights[k] \in Nat /\ counts[t] \in Nat /\ counts[k] \in Nat
        BY <2>1, <4>2
      <4> QED
        BY <4>1, <4>2, <4>3
    <3> HIDE DEF among
    <3> QED
      BY <3>4, <3>5
  <2>3. CASE ~ best[n].found
    <3>1. \A x \in T : heights[x] > h /\ Beneath(t, x)
      BY <1>12, <1>13, <2>3
    <3>2. below = {}
      BY <2>1, <3>1
    <3> HIDE DEF below
    <3>3. among = {i \in T : \A k \in T : heights[i] <= heights[k]}
      BY <3>2
    <3>4. t \in among
      <4>1. ASSUME NEW k \in T PROVE heights[t] <= heights[k]
        <5>1. Beneath(t, k) /\ heights[k] \in Nat
          BY <2>1, <3>1
        <5> QED
          BY <2>1, <5>1
      <4> QED
        BY <2>1, <3>3, <4>1
    <3>5. \A k \in among : counts[t] <= counts[k]
      <4> TAKE k \in among
      <4>1. k \in T /\ heights[k] <= heights[t]
        BY <2>1, <3>3
      <4>2. heights[t] \in Nat /\ heights[k] \in Nat /\ counts[t] \in Nat /\ counts[k] \in Nat
        BY <2>1, <4>1
      <4>3. Beneath(t, k)
        BY <3>1, <4>1
      <4> QED
        BY <4>1, <4>2, <4>3
    <3> HIDE DEF among
    <3> QED
      BY <3>4, <3>5
  <2> QED
    BY <2>2, <2>3
<1> QED
  BY <1>8, <1>13, <1>14, Zenon DEF BestFits, n

\* What the dealing algorithms can be given: any numbers and sequences, sorted
\* where the code sorts, with as many counts as heights.
AnyInput ==
  [kind : {"count"}, n : Nat, threads : Nat \ {0}]
  \cup [kind : {"replace"}, n : Nat, locals : Nat, threshold : Nat, remotes : Seq(Nat)]
  \cup [kind : {"depth"}, depths : Seq(Nat), threads : Nat \ {0}]
  \cup {r \in [kind : {"split"}, raw : Seq(Nat), synced : Nat \ {0}, threads : Nat \ {0}] :
          \A i \in 1..Len(r.raw) - 1 : r.raw[i] <= r.raw[i + 1]}
  \cup {r \in [kind : {"best"}, h : Nat, heights : Seq(Nat), counts : Seq(Nat)] :
          Len(r.heights) = Len(r.counts) /\ Len(r.heights) > 0}

\* check_loop, do_replace_users and check_users forget nobody and deal nobody
\* twice, but for the exceptions that Dealt names, whatever they are given.
THEOREM EveryDeal == input \in AnyInput => Dealt
<1>1. CASE input \in [kind : {"count"}, n : Nat, threads : Nat \ {0}]
  <2>1. input.kind = "count" /\ input.n \in Nat /\ input.threads \in Nat \ {0}
    BY <1>1
  <2>2. CountDealt(input.n, input.threads)
    BY <2>1, CountAlwaysDealt
  <2> QED
    BY <2>1, <2>2 DEF Dealt
<1>2. CASE input \in [kind : {"replace"}, n : Nat, locals : Nat, threshold : Nat, remotes : Seq(Nat)]
  <2>1. /\ input.kind = "replace" /\ input.n \in Nat /\ input.locals \in Nat
        /\ input.threshold \in Nat /\ input.remotes \in Seq(Nat)
    BY <1>2
  <2>2. input.locals + ThreadsOf(input.remotes) > 0 =>
          ReplaceDealt(input.n, input.locals, input.remotes, input.threshold)
    BY <2>1, ReplaceAlwaysDealt
  <2> QED
    BY <2>1, <2>2 DEF Dealt
<1>3. CASE input \in [kind : {"depth"}, depths : Seq(Nat), threads : Nat \ {0}]
  <2>1. input.kind = "depth" /\ input.depths \in Seq(Nat) /\ input.threads \in Nat \ {0}
    BY <1>3
  <2>2. DepthDealt(input.depths, input.threads)
    BY <2>1, DepthAlwaysDealt
  <2> QED
    BY <2>1, <2>2 DEF Dealt
<1>4. CASE input \in {r \in [kind : {"split"}, raw : Seq(Nat), synced : Nat \ {0}, threads : Nat \ {0}] :
                        \A i \in 1..Len(r.raw) - 1 : r.raw[i] <= r.raw[i + 1]}
  <2>1. /\ input.kind = "split" /\ input.raw \in Seq(Nat)
        /\ input.synced \in Nat \ {0} /\ input.threads \in Nat
        /\ \A i \in 1..Len(input.raw) - 1 : input.raw[i] <= input.raw[i + 1]
    BY <1>4
  <2>2. PICK one : one = 1
    OBVIOUS
  <2>3. one \in Nat
    BY <2>2
  <2>4. input.synced <= input.threads =>
          SplitDealt(input.raw, one, one, input.synced, input.threads)
    BY <2>1, <2>3, SplitAlwaysDealt
  <2> QED
    BY <2>1, <2>2, <2>4 DEF Dealt
<1>5. CASE input \in {r \in [kind : {"best"}, h : Nat, heights : Seq(Nat), counts : Seq(Nat)] :
                        Len(r.heights) = Len(r.counts) /\ Len(r.heights) > 0}
  <2>1. /\ input.kind = "best" /\ input.h \in Nat
        /\ input.heights \in Seq(Nat) /\ input.counts \in Seq(Nat)
        /\ Len(input.heights) = Len(input.counts) /\ Len(input.heights) > 0
    BY <1>5
  <2>2. BestFits(input.h, input.heights, input.counts)
    BY <2>1, BestAlwaysFits
  <2> QED
    BY <2>1, <2>2 DEF Dealt
<1> QED
  BY <1>1, <1>2, <1>3, <1>4, <1>5 DEF AnyInput

\* A sorted sequence of the run is a sequence.
LEMMA SortedFacts ==
  ASSUME NEW S \in SUBSET Nat, NEW m \in Nat, NEW s \in Sorted(S, m)
  PROVE  s \in Seq(Nat) /\ \A i \in 1..Len(s) - 1 : s[i] <= s[i + 1]
<1> DEFINE Going(k) == {x \in [1..k -> S] : \A i \in 1..k - 1 : x[i] <= x[i + 1]}
<1>0. s \in UNION {Going(k) : k \in 0..m}
  BY DEF Sorted
<1>1. PICK k \in 0..m : s \in Going(k)
  <2> HIDE DEF Going
  <2> QED BY <1>0
<1>2. k \in Nat /\ s \in [1..k -> Nat]
  <2>1. s \in [1..k -> S] /\ k \in Nat
    BY <1>1
  <2>2. s = [i \in 1..k |-> s[i]] /\ \A i \in 1..k : s[i] \in Nat
    BY <2>1
  <2> QED
    BY <2>1, <2>2
<1>3. s \in Seq(Nat) /\ Len(s) = k
  BY <1>2, IsASeq, LenProperties
<1> QED
  BY <1>1, <1>3

\* The inputs of the run are among those of EveryDeal.
LEMMA InputsAmong == Inputs \subseteq AnyInput
<1> SUFFICES ASSUME NEW x \in Inputs PROVE x \in AnyInput
  OBVIOUS
<1>1. CASE x \in [kind : {"count"}, n : 0..8, threads : 1..5]
  BY <1>1 DEF AnyInput
<1>2. CASE x \in [kind : {"replace"}, n : 0..7, locals : 0..2, threshold : {0, 2},
                  remotes : UNION {[1..k -> 0..3] : k \in 0..2}]
  <2>1. UNION {[1..k -> 0..3] : k \in 0..2} \subseteq Seq(Nat)
    <3>1. ASSUME NEW k \in 0..2, NEW s \in [1..k -> 0..3] PROVE s \in Seq(Nat)
      <4>1. k \in Nat /\ s \in [1..k -> Nat]
        OBVIOUS
      <4> QED
        BY <4>1, IsASeq
    <3> QED
      BY <3>1
  <2>2. x.remotes \in Seq(Nat)
    BY <1>2, <2>1
  <2>3. x = [kind |-> "replace", n |-> x.n, locals |-> x.locals, threshold |-> x.threshold,
             remotes |-> x.remotes]
        /\ x.n \in Nat /\ x.locals \in Nat /\ x.threshold \in Nat
    BY <1>2
  <2> QED
    BY <2>2, <2>3 DEF AnyInput
<1>3. CASE x \in [kind : {"depth"}, depths : Sorted(1..5, 5) \ {<< >>}, threads : 1..4]
  <2>1. PICK S, m : S = 1..5 /\ m = 5
    OBVIOUS
  <2>2. S \in SUBSET Nat /\ m \in Nat /\ x.depths \in Sorted(S, m) /\ x.threads \in Nat \ {0}
    BY <1>3, <2>1
  <2>3. x.depths \in Seq(Nat)
    BY <2>2, SortedFacts
  <2>4. x = [kind |-> "depth", depths |-> x.depths, threads |-> x.threads]
    BY <1>3
  <2> QED
    BY <2>2, <2>3, <2>4 DEF AnyInput
<1>4. CASE x \in [kind : {"split"}, raw : Sorted(0..3, 4), synced : 1..3, threads : 1..3]
  <2>1. PICK S, m : S = 0..3 /\ m = 4
    OBVIOUS
  <2>2. S \in SUBSET Nat /\ m \in Nat /\ x.raw \in Sorted(S, m)
        /\ x.threads \in Nat \ {0} /\ x.synced \in Nat \ {0}
    BY <1>4, <2>1
  <2>3. x.raw \in Seq(Nat) /\ \A i \in 1..Len(x.raw) - 1 : x.raw[i] <= x.raw[i + 1]
    BY <2>2, SortedFacts
  <2>4. x = [kind |-> "split", raw |-> x.raw, synced |-> x.synced, threads |-> x.threads]
    BY <1>4
  <2>5. x \in [kind : {"split"}, raw : Seq(Nat), synced : Nat \ {0}, threads : Nat \ {0}]
    BY <2>2, <2>3, <2>4
  <2> QED
    BY <2>3, <2>5 DEF AnyInput
<1>5. CASE x \in UNION {[kind : {"best"}, h : 0..3, heights : [1..k -> 0..3], counts : [1..k -> 0..2]]
                        : k \in 1..3}
  <2>1. PICK k \in 1..3 : x \in [kind : {"best"}, h : 0..3, heights : [1..k -> 0..3],
                                 counts : [1..k -> 0..2]]
    BY <1>5
  <2>2. k \in Nat /\ k > 0 /\ x.heights \in [1..k -> Nat] /\ x.counts \in [1..k -> Nat] /\ x.h \in Nat
    BY <2>1
  <2>3. /\ x.heights \in Seq(Nat) /\ Len(x.heights) = k
        /\ x.counts \in Seq(Nat) /\ Len(x.counts) = k
    BY <2>2, IsASeq, LenProperties
  <2>4. x = [kind |-> "best", h |-> x.h, heights |-> x.heights, counts |-> x.counts]
    BY <2>1
  <2>5. x \in [kind : {"best"}, h : Nat, heights : Seq(Nat), counts : Seq(Nat)]
    BY <2>2, <2>3, <2>4
  <2> QED
    BY <2>2, <2>3, <2>5 DEF AnyInput
<1> QED
  BY <1>1, <1>2, <1>3, <1>4, <1>5 DEF Inputs

\* The run looks at inputs of EveryDeal only, so that Dealt holds throughout it.
THEOREM DealtThroughout == MCSpec => []Dealt
<1> DEFINE Fed == input \in Inputs \cup {NoInput}
<1>1. MCInit => Fed
  BY DEF MCInit
<1>2. Fed /\ [MCNext]_<<vars, focus, input>> => Fed'
  BY DEF MCNext
<1>3. Fed => Dealt
  <2>1. input = NoInput => Dealt
    BY DEF NoInput, Dealt
  <2> QED
    BY <2>1, EveryDeal, InputsAmong
<1> QED
  BY <1>1, <1>2, <1>3, PTL DEF MCSpec

-----------------------------------------------------------------------------
(* Lemmas: the turns of threads and scanners.                              *)

\* Where a turn begins is below the number of threads, and 0 is such a place.
LEMMA TurnBounds ==
  ASSUME NEW locals \in Nat, NEW remotes \in Seq(Nat), locals + ThreadsOf(remotes) > 0
  PROVE  /\ TurnAt(0, locals, remotes)
         /\ \A n \in Nat : TurnAt(n, locals, remotes) => n < locals + ThreadsOf(remotes)
<1>1. Len(remotes) \in Nat
  BY LenProperties
<1>2. /\ SumTo(remotes, 0) = 0
      /\ \A n \in 0..Len(remotes) : SumTo(remotes, n) \in Nat
      /\ \A n \in 1..Len(remotes) : SumTo(remotes, n) = SumTo(remotes, n - 1) + remotes[n]
      /\ DOMAIN remotes = 1..Len(remotes)
      /\ \A n \in 1..Len(remotes) : remotes[n] \in Nat
  BY SumFacts, LenProperties, ElementOfSeq
<1>3. TurnAt(0, locals, remotes)
  <2>1. CASE locals = 0
    <3>1. 0 \in 0..Len(remotes) /\ SumTo(remotes, 0) < SumTo(remotes, Len(remotes))
      BY <1>1, <1>2, <2>1 DEF ThreadsOf
    <3>2. PICK j \in 0 + 1..Len(remotes) :
            remotes[j] > 0 /\ SumTo(remotes, j - 1) = SumTo(remotes, 0)
      BY <3>1, NextTurn
    <3>3. j \in DOMAIN remotes /\ 0 = locals + SumTo(remotes, j - 1)
      BY <1>1, <1>2, <2>1, <3>2
    <3>4. QED
      BY <3>2, <3>3 DEF TurnAt
  <2>2. QED
    BY <2>1 DEF TurnAt
<1>4. ASSUME NEW n \in Nat, TurnAt(n, locals, remotes) PROVE n < locals + ThreadsOf(remotes)
  <2>1. ThreadsOf(remotes) \in Nat
    BY <1>1, <1>2 DEF ThreadsOf
  <2>2. CASE n < locals
    BY <2>1, <2>2
  <2>3. CASE ~ n < locals
    <3>1. PICK j \in 1..Len(remotes) : remotes[j] > 0 /\ n = locals + SumTo(remotes, j - 1)
      BY <1>2, <1>4, <2>3 DEF TurnAt
    <3>2. j \in 0..Len(remotes) /\ j - 1 \in 0..Len(remotes) /\ Len(remotes) \in j..Len(remotes)
      BY <1>1
    <3>3. SumTo(remotes, j) <= ThreadsOf(remotes)
      BY <3>2, SumBetween DEF ThreadsOf
    <3>4. SumTo(remotes, j) = SumTo(remotes, j - 1) + remotes[j] /\ SumTo(remotes, j - 1) \in Nat
          /\ remotes[j] \in Nat
      BY <1>2, <3>2
    <3>5. QED
      BY <2>1, <3>1, <3>3, <3>4, SMTT(30)
  <2>4. QED
    BY <2>2, <2>3
<1>5. QED
  BY <1>3, <1>4

\* The scanner of a turn is found, and the turn is its first.
LEMMA TurnFound ==
  ASSUME NEW locals \in Nat, NEW remotes \in Seq(Nat), NEW n \in Nat,
         TurnAt(n, locals, remotes), ~ n < locals
  PROVE  /\ RemoteAt(n, locals, remotes) \in 1..Len(remotes)
         /\ n = locals + SumTo(remotes, RemoteAt(n, locals, remotes) - 1)
<1> DEFINE P(j) == /\ n <= locals + SumTo(remotes, j - 1)
                   /\ \A k \in 1..j - 1 : n > locals + SumTo(remotes, k - 1)
           S == {j \in 1..Len(remotes) : n <= locals + SumTo(remotes, j - 1)}
           at == RemoteAt(n, locals, remotes)
<1>1. Len(remotes) \in Nat /\ \A k \in 0..Len(remotes) : SumTo(remotes, k) \in Nat
  BY SumFacts, LenProperties
<1>2. PICK j \in 1..Len(remotes) : n = locals + SumTo(remotes, j - 1)
  <2>1. DOMAIN remotes = 1..Len(remotes)
    BY LenProperties
  <2>2. QED
    BY <2>1 DEF TurnAt
<1>3. \E i \in 1..Len(remotes) : P(i)
  <2>1. j \in S /\ S \in SUBSET Nat
    <3>1. SumTo(remotes, j - 1) \in Nat
      BY <1>1
    <3>2. QED
      BY <1>1, <1>2, <3>1, SMTT(30)
  <2>2. PICK i \in S : \A k \in S : i <= k
    <3> HIDE DEF S
    <3> QED BY <2>1, LeastNumber
  <2>3. ASSUME NEW k \in 1..i - 1 PROVE n > locals + SumTo(remotes, k - 1)
    <3>1. k \in 1..Len(remotes) /\ k - 1 \in 0..Len(remotes) /\ k < i
      BY <1>1, <2>2, SMTT(30)
    <3>2. k \notin S
      BY <2>2, <3>1
    <3>3. SumTo(remotes, k - 1) \in Nat
      BY <1>1, <3>1
    <3>4. QED
      BY <3>1, <3>2, <3>3
  <2>4. QED
    BY <2>2, <2>3
<1>4. at \in 1..Len(remotes) /\ P(at)
  BY <1>3 DEF RemoteAt
<1> HIDE DEF at, S
<1>5. at <= j
  <2>1. SUFFICES ASSUME j < at PROVE FALSE
    BY <1>1, <1>4
  <2>2. j \in 1..at - 1
    BY <1>1, <1>4, <2>1
  <2>3. n > locals + SumTo(remotes, j - 1) /\ SumTo(remotes, j - 1) \in Nat
    BY <1>1, <1>4, <2>2, SMTT(30)
  <2>4. QED
    BY <1>2, <2>3
<1>6. SumTo(remotes, at - 1) <= SumTo(remotes, j - 1)
  <2>1. at - 1 \in 0..Len(remotes) /\ j - 1 \in at - 1..Len(remotes)
    BY <1>1, <1>4, <1>5
  <2>2. QED
    BY <2>1, SumBetween
<1>7. SumTo(remotes, at - 1) \in Nat /\ SumTo(remotes, j - 1) \in Nat
  BY <1>1, <1>4, SMTT(30)
<1>8. n = locals + SumTo(remotes, at - 1)
  BY <1>2, <1>4, <1>6, <1>7
<1>9. QED
  BY <1>4, <1>8 DEF at

\* After a turn there is another one.
LEMMA TurnGoesOn ==
  ASSUME NEW locals \in Nat, NEW remotes \in Seq(Nat), locals + ThreadsOf(remotes) > 0,
         NEW n \in Nat, TurnAt(n, locals, remotes)
  PROVE  LET total == locals + ThreadsOf(remotes)
             next_ == (n + Turn(n, locals, remotes)) % total
         IN  /\ Turn(n, locals, remotes) \in Nat
             /\ next_ \in Nat /\ TurnAt(next_, locals, remotes)
<1> DEFINE total == locals + ThreadsOf(remotes)
           step == Turn(n, locals, remotes)
           last == n + step
<1>1. /\ Len(remotes) \in Nat /\ DOMAIN remotes = 1..Len(remotes)
      /\ \A k \in 1..Len(remotes) : remotes[k] \in Nat
  BY LenProperties, ElementOfSeq
<1>2. /\ SumTo(remotes, 0) = 0
      /\ \A k \in 0..Len(remotes) : SumTo(remotes, k) \in Nat
      /\ \A k \in 1..Len(remotes) : SumTo(remotes, k) = SumTo(remotes, k - 1) + remotes[k]
  BY SumFacts
<1>3. total \in Nat /\ total > 0 /\ ThreadsOf(remotes) \in Nat
  BY <1>1, <1>2 DEF ThreadsOf
\* Either the next turn is of a local thread, or the turns so far are those of
\* the local threads and the first k scanners.
<1>4. /\ step \in Nat /\ last <= total
      /\ last < locals \/ \E k \in 0..Len(remotes) : last = locals + SumTo(remotes, k)
  <2>1. CASE n < locals
    <3>1. step = 1
      BY <2>1 DEF Turn
    <3>2. last <= locals /\ last <= total
      BY <1>3, <2>1, <3>1
    <3>3. last < locals \/ last = locals + SumTo(remotes, 0)
      BY <1>2, <2>1, <3>1, <3>2
    <3>4. 0 \in 0..Len(remotes)
      BY <1>1
    <3>5. QED
      BY <3>1, <3>2, <3>3, <3>4
  <2>2. CASE ~ n < locals
    <3> DEFINE at == RemoteAt(n, locals, remotes)
    <3>1. at \in 1..Len(remotes) /\ n = locals + SumTo(remotes, at - 1)
      BY <2>2, TurnFound
    <3>2. step = remotes[at]
      BY <2>2 DEF Turn
    <3> HIDE DEF at
    <3>3. at \in 0..Len(remotes) /\ at - 1 \in 0..Len(remotes) /\ Len(remotes) \in at..Len(remotes)
      BY <1>1, <3>1
    <3>4. /\ SumTo(remotes, at) = SumTo(remotes, at - 1) + remotes[at]
          /\ SumTo(remotes, at - 1) \in Nat /\ remotes[at] \in Nat
      BY <1>1, <1>2, <3>1, <3>3
    <3>5. SumTo(remotes, at) <= ThreadsOf(remotes)
      BY <3>3, SumBetween DEF ThreadsOf
    <3>6. last = locals + SumTo(remotes, at) /\ step \in Nat
      BY <3>1, <3>2, <3>4, SMTT(30)
    <3>7. last <= total
      BY <1>2, <1>3, <3>3, <3>5, <3>6, SMTT(30)
    <3>8. QED
      BY <3>3, <3>6, <3>7
  <2>3. QED
    BY <2>1, <2>2
<1> HIDE DEF step
<1>5. CASE last = total
  <2>1. last % total = 0
    <3> HIDE DEF last, total
    <3> QED BY <1>3, <1>5
  <2>2. TurnAt(0, locals, remotes)
    BY TurnBounds
  <2> HIDE DEF last, total
  <2>3. QED
    BY <1>4, <2>1, <2>2 DEF step, last, total
<1>6. CASE last < total
  <2>1. last % total = last
    <3>1. last \in Nat
      BY <1>4
    <3> HIDE DEF last, total
    <3>2. QED
      BY <1>3, <1>6, <3>1
  <2>2. TurnAt(last, locals, remotes)
    <3>1. CASE last < locals
      BY <3>1 DEF TurnAt
    <3>2. CASE ~ last < locals
      <4>1. PICK k \in 0..Len(remotes) : last = locals + SumTo(remotes, k)
        BY <1>4, <3>2
      <4>2. SumTo(remotes, k) < SumTo(remotes, Len(remotes))
        BY <1>2, <1>3, <1>6, <4>1 DEF ThreadsOf
      <4>3. PICK j \in k + 1..Len(remotes) :
              remotes[j] > 0 /\ SumTo(remotes, j - 1) = SumTo(remotes, k)
        BY <4>2, NextTurn
      <4>4. j \in DOMAIN remotes /\ last = locals + SumTo(remotes, j - 1)
        BY <1>1, <4>1, <4>3
      <4> HIDE DEF last
      <4>5. QED
        BY <4>3, <4>4 DEF TurnAt
    <3>3. QED
      BY <3>1, <3>2
  <2>3. last \in Nat
    BY <1>4
  <2> HIDE DEF last, total
  <2>4. QED
    BY <1>4, <2>1, <2>2, <2>3 DEF step, last, total
<1>7. QED
  BY <1>3, <1>4, <1>5, <1>6

\* A round leaves the next one a turn, and hands over accounts that it took.
LEMMA RoundTypes ==
  ASSUME NEW locals \in Nat, NEW remotes \in Seq(Nat), locals + ThreadsOf(remotes) > 0, NEW M,
         Hollow \in M, NEW p \in [new : Seq(M),
                                  next : {n \in Nat : TurnAt(n, locals, remotes)},
                                  out : [1..locals + Len(remotes) -> Seq(Seq(M))]]
  PROVE  Round(p, locals, remotes) \in [new : Seq(M),
                                        next : {n \in Nat : TurnAt(n, locals, remotes)},
                                        out : [1..locals + Len(remotes) -> Seq(Seq(M))]]
<1> DEFINE W == 1..locals + Len(remotes)
           N == {n \in Nat : TurnAt(n, locals, remotes)}
           l == Len(p.new)
           step == Turn(p.next, locals, remotes)
           took == Smaller(l, step)
           worker == IF p.next < locals THEN p.next + 1
                     ELSE locals + RemoteAt(p.next, locals, remotes)
           new == IF took = 0 THEN SubSeq(p.new, 1, l - 1)
                  ELSE SubSeq(p.new, 1, l - took) \o [i \in 1..took - 1 |-> Hollow]
           next_ == (p.next + step) % (locals + ThreadsOf(remotes))
           taken == SubSeq(p.new, l - took + 1, l)
           out == [p.out EXCEPT ![worker] = Append(p.out[worker], taken)]
<1>1. Len(remotes) \in Nat
  BY LenProperties
<1>2. p.new \in Seq(M) /\ p.next \in N /\ p.out \in [W -> Seq(Seq(M))]
  OBVIOUS
<1>3. l \in Nat /\ \A i \in 1..l : p.new[i] \in M
  BY <1>2, LenProperties, ElementOfSeq
<1>4. step \in Nat /\ next_ \in N
  <2>1. p.next \in Nat /\ TurnAt(p.next, locals, remotes)
    BY <1>2
  <2>2. QED
    BY <2>1, TurnGoesOn
<1>5. worker \in W
  <2>1. CASE p.next < locals
    BY <1>1, <1>2, <2>1
  <2>2. CASE ~ p.next < locals
    <3>1. RemoteAt(p.next, locals, remotes) \in 1..Len(remotes)
      BY <1>2, <2>2, TurnFound
    <3>2. QED
      BY <1>1, <2>2, <3>1
  <2>3. QED
    BY <2>1, <2>2
<1> HIDE DEF l, step, W, N, worker, next_
<1>6. took \in 0..l
  BY <1>3, <1>4 DEF Smaller
<1> HIDE DEF took
<1>7. \A a, b \in Int : 1 <= a /\ b <= l => SubSeq(p.new, a, b) \in Seq(M)
  <2> TAKE a, b \in Int
  <2> HAVE 1 <= a /\ b <= l
  <2>1. \A i \in a..b : p.new[i] \in M
    BY <1>3
  <2>2. QED
    BY <2>1, SubSeqProperties
<1>8. taken \in Seq(M)
  <2> DEFINE a == l - took + 1
  <2>1. a \in Int /\ l \in Int /\ 1 <= a /\ l <= l
    BY <1>3, <1>6
  <2> HIDE DEF a
  <2>2. SubSeq(p.new, a, l) \in Seq(M)
    BY <1>7, <2>1
  <2>3. QED
    BY <2>2 DEF a
<1>9. new \in Seq(M)
  <2> DEFINE a == l - 1
             b == l - took
             rest == [i \in 1..took - 1 |-> Hollow]
  <2>1. a \in Int /\ b \in Int /\ 1 \in Int /\ a <= l /\ b <= l /\ 1 <= 1
    BY <1>3, <1>6
  <2> HIDE DEF a, b
  <2>2. SubSeq(p.new, 1, a) \in Seq(M) /\ SubSeq(p.new, 1, b) \in Seq(M)
    BY <1>7, <2>1
  <2>3. took # 0 => rest \in Seq(M)
    <3>1. took # 0 => took - 1 \in Nat
      BY <1>3, <1>6
    <3>2. \A k \in Nat : [i \in 1..k |-> Hollow] \in Seq(M)
      BY IsASeq
    <3>3. QED
      BY <3>1, <3>2
  <2> HIDE DEF rest
  <2>4. took # 0 => SubSeq(p.new, 1, b) \o rest \in Seq(M)
    BY <2>2, <2>3, ConcatProperties
  <2>5. QED
    BY <2>2, <2>4 DEF a, b, rest
<1>10. out \in [W -> Seq(Seq(M))]
  <2>1. p.out[worker] \in Seq(Seq(M))
    BY <1>2, <1>5
  <2> DEFINE more == Append(p.out[worker], taken)
  <2>2. more \in Seq(Seq(M))
    <3> HIDE DEF taken
    <3> QED BY <1>8, <2>1, AppendProperties
  <2> HIDE DEF more
  <2>3. [p.out EXCEPT ![worker] = more] \in [W -> Seq(Seq(M))]
    BY <1>2, <1>5, <2>2
  <2>4. QED
    BY <2>3 DEF more
<1>11. Round(p, locals, remotes) = [new |-> new, next |-> next_, out |-> out]
  BY DEF Round, l, step, took, worker, next_
<1> HIDE DEF new, out, taken
<1>12. [new |-> new, next |-> next_, out |-> out]
         \in [new : Seq(M), next : N, out : [W -> Seq(Seq(M))]]
  BY <1>4, <1>9, <1>10
<1>13. QED
  BY <1>11, <1>12 DEF W, N

\* check_users deals the new accounts, or what is left of them after an account
\* was moved from, and stops at a turn.
LEMMA RoundRobinTypes ==
  ASSUME NEW locals \in Nat, NEW remotes \in Seq(Nat), locals + ThreadsOf(remotes) > 0, NEW M,
         Hollow \in M, NEW s \in Seq(M), NEW n \in Nat, TurnAt(n, locals, remotes)
  PROVE  RoundRobin(s, n, locals, remotes) \in [new : Seq(M),
                                                next : {k \in Nat : TurnAt(k, locals, remotes)},
                                                out : [1..locals + Len(remotes) -> Seq(Seq(M))]]
<1> DEFINE V == [new : Seq(M), next : {k \in Nat : TurnAt(k, locals, remotes)},
                 out : [1..locals + Len(remotes) -> Seq(Seq(M))]]
           total == locals + ThreadsOf(remotes)
           start == [new |-> s, next |-> n % total,
                     out |-> [worker \in 1..locals + Len(remotes) |-> << >>]]
           R(p) == Round(p, locals, remotes)
           m == Len(s)
           round == [i \in Nat |-> [p \in V |-> IF p.new = << >> THEN p ELSE R(p)]]
           F(f) == [k \in 0..m |-> IF k = 0 THEN start
                                   ELSE IF f[k - 1].new = << >> THEN f[k - 1] ELSE R(f[k - 1])]
           L == CHOOSE f : f = F(f)
<1>1. m \in Nat
  BY LenProperties
<1>2. start \in V
  <2>1. n % total = n
    <3>1. total \in Nat \ {0} /\ n < total
      BY LenProperties, SumFacts, TurnBounds, SMTT(30) DEF ThreadsOf
    <3> HIDE DEF total
    <3>2. QED
      BY <3>1, SMTT(30)
  <2>2. [worker \in 1..locals + Len(remotes) |-> << >>] \in [1..locals + Len(remotes) -> Seq(Seq(M))]
    BY EmptySeq
  <2>3. start = [new |-> s, next |-> n, out |-> [worker \in 1..locals + Len(remotes) |-> << >>]]
    BY <2>1
  <2>4. QED
    BY <2>2, <2>3
<1>3. \A p \in V : R(p) \in V
  BY RoundTypes
<1> HIDE DEF V, start, R
<1>4. round \in [Nat -> [V -> V]]
  BY <1>3
<1>5. PICK f : Built(V, start, round, m, f)
  <2> HIDE DEF round, m
  <2> QED BY <1>1, <1>2, <1>4, Rounds, Zenon
<1>6. f = [i \in 0..m |-> f[i]] /\ f[0] = start /\ \A i \in 0..m : f[i] \in V
  <2> HIDE DEF round
  <2>1. f \in [0..m -> V] /\ 0 \in 0..m
    BY <1>1, <1>5 DEF Built
  <2>2. f[0] = start
    BY <1>5, <2>1 DEF Built
  <2>3. QED
    BY <2>1, <2>2
<1>7. \A i \in 1..m : f[i] = IF f[i - 1].new = << >> THEN f[i - 1] ELSE R(f[i - 1])
  <2> TAKE i \in 1..m
  <2>1. i \in 0..m /\ i - 1 \in 0..m /\ i # 0 /\ i \in Nat
    BY <1>1
  <2>2. f[i] = round[i][f[i - 1]]
    <3> HIDE DEF round
    <3> QED BY <1>5, <2>1 DEF Built
  <2> DEFINE p == f[i - 1]
  <2>3. p \in V
    BY <1>6, <2>1
  <2>4. \A x \in V : round[i][x] = IF x.new = << >> THEN x ELSE R(x)
    BY <2>1
  <2> HIDE DEF round, p
  <2>5. round[i][p] = IF p.new = << >> THEN p ELSE R(p)
    BY <2>3, <2>4
  <2>6. QED
    BY <2>2, <2>5 DEF p
<1>8. f = F(f)
  <2>1. ASSUME NEW i \in 0..m
        PROVE  f[i] = IF i = 0 THEN start
                      ELSE IF f[i - 1].new = << >> THEN f[i - 1] ELSE R(f[i - 1])
    <3>1. i = 0 \/ i \in 1..m
      BY <1>1
    <3>2. QED
      BY <1>6, <1>7, <3>1
  <2>2. QED
    BY <1>6, <2>1
<1>9. L = F(L)
  BY <1>8, Zenon
<1>10. RoundRobin(s, n, locals, remotes) = L[m]
  BY DEF RoundRobin, start, R
<1>11. /\ L[0] = start
       /\ \A i \in 1..m : L[i] = IF L[i - 1].new = << >> THEN L[i - 1] ELSE R(L[i - 1])
  <2> HIDE DEF L
  <2>1. \A i \in 0..m : L[i] = IF i = 0 THEN start
                               ELSE IF L[i - 1].new = << >> THEN L[i - 1] ELSE R(L[i - 1])
    BY <1>9
  <2>2. 0 \in 0..m /\ \A i \in 1..m : i \in 0..m /\ i # 0
    BY <1>1
  <2>3. QED
    BY <2>1, <2>2
<1> HIDE DEF L, F, round
<1>12. \A i \in 0..m : f[i] = L[i]
  <2>1. f[0] = L[0]
    BY <1>6, <1>11
  <2>2. \A i \in 1..m : f[i - 1] = L[i - 1] => f[i] = L[i]
    BY <1>7, <1>11
  <2>3. QED
    BY <1>1, <2>1, <2>2, SameRounds, ZenonT(60)
<1>13. L[m] \in V
  <2>1. m \in 0..m
    BY <1>1
  <2>2. QED
    BY <1>6, <1>12, <2>1
<1>14. QED
  BY <1>10, <1>13 DEF V

-----------------------------------------------------------------------------
(* Lemmas: the connections in their order.                                 *)

\* A set in some order.
LEMMA SomeOrder ==
  ASSUME NEW S, IsFiniteSet(S), NEW s \in SetToSeqs(S)
  PROVE  /\ s \in Seq(S) /\ Len(s) \in Nat /\ DOMAIN s = 1..Len(s)
         /\ \A i, j \in 1..Len(s) : i # j => s[i] # s[j]
         /\ \A x \in S : \E i \in 1..Len(s) : s[i] = x
<1> DEFINE k == Cardinality(S)
<1>1. k \in Nat
  BY FS_CardinalityType
<1>2. s \in [1..k -> S] /\ \A i, j \in 1..k : i # j => s[i] # s[j]
  BY DEF SetToSeqs
<1> HIDE DEF k
<1>3. s \in Seq(S) /\ DOMAIN s = 1..k /\ Len(s) = k
  <2>1. s \in Seq(S)
    BY <1>1, <1>2
  <2>2. QED
    BY <1>1, <1>2, <2>1, LenProperties
<1>4. s \in Surjection(1..k, S)
  <2>1. s \in Injection(1..k, S)
    BY <1>2 DEF Injection, IsInjective
  <2>2. IsFiniteSet(1..k) /\ Cardinality(1..k) = k
    BY <1>1, FS_Interval
  <2>3. QED
    BY <1>1, <2>1, <2>2, FS_Injection DEF k
<1>5. \A x \in S : \E i \in 1..k : s[i] = x
  BY <1>4 DEF Surjection
<1>6. QED
  BY <1>1, <1>2, <1>3, <1>5

\* Connections that are put in order: all of them, each once.
LEMMA OrderedFacts ==
  ASSUME NEW S \in SUBSET Conn, NEW R \in Ordered(S)
  PROVE  /\ Len(R) \in Nat /\ DOMAIN R = 1..Len(R)
         /\ \A i \in 1..Len(R) : R[i] \in S
         /\ \A i, j \in 1..Len(R) : i < j => R[i] < R[j]
         /\ \A c \in S : \E i \in 1..Len(R) : R[i] = c
<1>1. IsFiniteSet(S)
  <2>1. IsFiniteSet(Conn)
    BY FS_Interval, RemoteAssumption DEF Conn
  <2>2. QED
    BY <2>1, FS_Subset
<1>2. R \in SetToSeqs(S)
  BY DEF Ordered
<1>3. /\ R \in Seq(S) /\ Len(R) \in Nat /\ DOMAIN R = 1..Len(R)
      /\ \A c \in S : \E i \in 1..Len(R) : R[i] = c
  BY <1>1, <1>2, SomeOrder
<1>4. \A i \in 1..Len(R) : R[i] \in S
  BY <1>3, ElementOfSeq
<1>5. \A i, j \in 1..Len(R) : i < j => R[i] < R[j]
  BY <1>3 DEF Ordered
<1>6. QED
  BY <1>3, <1>4, <1>5

\* Sums over connections in their order are sums over all slots.
LEMMA OrderedSums ==
  ASSUME NEW S \in SUBSET Conn, NEW R \in Ordered(S), NEW th \in [Conn -> Nat]
  PROVE  /\ ThreadsIn(R, th) \in Seq(Nat) /\ Len(ThreadsIn(R, th)) = Len(R)
         /\ WeightsOf(S, th) \in Seq(Nat) /\ Len(WeightsOf(S, th)) = Conns
         /\ \A i \in 1..Len(R) : ThreadsIn(R, th)[i] = th[R[i]]
         /\ \A j \in 1..Len(R) :
              SumTo(ThreadsIn(R, th), j - 1) = SumTo(WeightsOf(S, th), R[j] - 1)
<1> DEFINE T == ThreadsIn(R, th)
           W == WeightsOf(S, th)
           l == Len(R)
<1>1. /\ l \in Nat /\ DOMAIN R = 1..l /\ Conns \in Nat
      /\ \A i \in 1..l : R[i] \in S /\ R[i] \in 1..Conns
      /\ \A i, j \in 1..l : i < j => R[i] < R[j]
      /\ \A c \in S : \E i \in 1..l : R[i] = c
  BY OrderedFacts, RemoteAssumption DEF Conn
<1> HIDE DEF l
<1>2. T \in Seq(Nat) /\ Len(T) = l /\ \A i \in 1..l : T[i] = th[R[i]]
  <2>1. T = [i \in 1..l |-> th[R[i]]]
    BY <1>1 DEF ThreadsIn
  <2> HIDE DEF T
  <2>2. \A i \in 1..l : th[R[i]] \in Nat
    BY <1>1
  <2>3. T \in [1..l -> Nat]
    BY <2>1, <2>2
  <2>4. T \in Seq(Nat)
    BY <1>1, <2>3
  <2>5. QED
    BY <1>1, <2>1, <2>3, <2>4, LenProperties
<1>3. W \in Seq(Nat) /\ Len(W) = Conns /\ \A c \in 1..Conns : W[c] = IF c \in S THEN th[c] ELSE 0
  <2>1. W \in [1..Conns -> Nat] /\ \A c \in 1..Conns : W[c] = IF c \in S THEN th[c] ELSE 0
    BY DEF WeightsOf, Conn
  <2> HIDE DEF W
  <2>2. W \in Seq(Nat)
    BY <1>1, <2>1
  <2>3. QED
    BY <1>1, <2>1, <2>2, LenProperties
<1> HIDE DEF T, W
<1>4. /\ SumTo(T, 0) = 0 /\ SumTo(W, 0) = 0
      /\ \A n \in 1..l : SumTo(T, n) = SumTo(T, n - 1) + T[n]
      /\ \A n \in 1..Conns : SumTo(W, n) = SumTo(W, n - 1) + W[n]
  BY <1>2, <1>3, SumFacts
\* No connection of S lies between two neighbours, nor before the first.
<1>5. \A k \in Nat : k + 1 <= l => SumTo(T, k) = SumTo(W, R[k + 1] - 1)
  <2> DEFINE S_ == {k \in Nat : k + 1 <= l => SumTo(T, k) = SumTo(W, R[k + 1] - 1)}
  <2>1. 0 \in S_
    <3>1. SUFFICES ASSUME 1 <= l PROVE SumTo(T, 0) = SumTo(W, R[1] - 1)
      OBVIOUS
    <3>2. 1 \in 1..l /\ R[1] \in 1..Conns
      BY <1>1, <3>1
    <3>3. ASSUME NEW c \in 0 + 1..R[1] - 1 PROVE W[c] = 0
      <4>1. c \in 1..Conns /\ c < R[1]
        BY <1>1, <3>2
      <4>2. ASSUME c \in S PROVE FALSE
        <5>1. PICK i \in 1..l : R[i] = c
          BY <1>1, <4>2
        <5>2. i = 1 \/ 1 < i
          BY <1>1
        <5>3. R[1] <= R[i]
          BY <1>1, <3>2, <5>2, SMTT(30)
        <5>4. QED
          BY <1>1, <3>2, <4>1, <5>1, <5>3
      <4>3. QED
        BY <1>3, <4>1, <4>2
    <3>4. 0 \in 0..Len(W) /\ R[1] - 1 \in 0..Len(W)
      BY <1>1, <1>3, <3>2
    <3>5. SumTo(W, 0) = SumTo(W, R[1] - 1)
      BY <1>3, <3>3, <3>4, SumBetween
    <3>6. QED
      BY <1>4, <3>5
  <2>2. ASSUME NEW k \in S_ PROVE k + 1 \in S_
    <3>1. SUFFICES ASSUME k + 1 + 1 <= l
                   PROVE  SumTo(T, k + 1) = SumTo(W, R[k + 1 + 1] - 1)
      OBVIOUS
    <3> DEFINE n == k + 1
    <3>2. n \in 1..l /\ n + 1 \in 1..l /\ n - 1 = k /\ n < n + 1
      BY <1>1, <3>1
    <3>3. SumTo(T, k) = SumTo(W, R[n] - 1)
      BY <1>1, <3>1
    <3> HIDE DEF n
    <3>4. R[n] \in 1..Conns /\ R[n + 1] \in 1..Conns /\ R[n] \in S /\ R[n] < R[n + 1]
      BY <1>1, <3>2
    <3>5. SumTo(T, n) = SumTo(W, R[n])
      <4>1. SumTo(T, n) = SumTo(T, k) + T[n] /\ T[n] = th[R[n]]
        BY <1>2, <1>4, <3>2
      <4>2. SumTo(W, R[n]) = SumTo(W, R[n] - 1) + W[R[n]] /\ W[R[n]] = th[R[n]]
        BY <1>3, <1>4, <3>4
      <4>3. QED
        BY <3>3, <4>1, <4>2
    <3>6. ASSUME NEW c \in R[n] + 1..R[n + 1] - 1 PROVE W[c] = 0
      <4>1. c \in 1..Conns /\ R[n] < c /\ c < R[n + 1]
        BY <1>1, <3>4, SMTT(30)
      <4>2. ASSUME c \in S PROVE FALSE
        <5>1. PICK i \in 1..l : R[i] = c
          BY <1>1, <4>2
        <5>2. i < n \/ i = n \/ i = n + 1 \/ n + 1 < i
          BY <1>1, <3>2
        <5>3. c < R[n] \/ c = R[n] \/ c = R[n + 1] \/ R[n + 1] < c
          BY <1>1, <3>2, <5>1, <5>2
        <5>4. c \in Nat /\ R[n] \in Nat /\ R[n + 1] \in Nat
          BY <1>1, <3>4, <4>1, SMTT(30)
        <5>5. QED
          BY <4>1, <5>3, <5>4
      <4>3. QED
        BY <1>3, <4>1, <4>2
    <3>7. R[n] \in 0..Len(W) /\ R[n + 1] - 1 \in R[n]..Len(W)
      <4> DEFINE a == R[n]
                 b == R[n + 1]
      <4>1. a \in 1..Conns /\ b \in 1..Conns /\ a < b /\ Len(W) = Conns /\ Conns \in Nat
        BY <1>1, <1>3, <3>4
      <4> HIDE DEF a, b
      <4>2. a \in 0..Len(W) /\ b - 1 \in a..Len(W)
        BY <4>1
      <4>3. QED
        BY <4>2 DEF a, b
    <3>8. SumTo(W, R[n]) = SumTo(W, R[n + 1] - 1)
      BY <1>3, <3>6, <3>7, SumBetween
    <3>9. QED
      BY <3>5, <3>8 DEF n
  <2>3. S_ = Nat
    <3>1. S_ \in SUBSET Nat
      OBVIOUS
    <3> HIDE DEF S_
    <3>2. QED
      BY <2>1, <2>2, <3>1, Reaches
  <2>4. QED
    BY <2>3
<1>6. ASSUME NEW j \in 1..l PROVE SumTo(T, j - 1) = SumTo(W, R[j] - 1)
  <2>1. j - 1 \in Nat /\ j - 1 + 1 = j /\ j <= l
    BY <1>1
  <2>2. QED
    BY <1>5, <2>1
<1>7. QED
  BY <1>2, <1>3, <1>6 DEF T, W, l

\* A turn among the connections that are there is one among all slots.
LEMMA TurnsAgree ==
  ASSUME NEW S \in SUBSET Conn, NEW R \in Ordered(S), NEW th \in [Conn -> Nat], NEW n
  PROVE  TurnAt(n, Locals, WeightsOf(S, th)) <=> TurnAt(n, Locals, ThreadsIn(R, th))
<1> DEFINE T == ThreadsIn(R, th)
           W == WeightsOf(S, th)
<1>1. /\ Len(R) \in Nat /\ DOMAIN T = 1..Len(R) /\ DOMAIN W = Conn
      /\ \A i \in 1..Len(R) : R[i] \in S
      /\ \A c \in S : \E i \in 1..Len(R) : R[i] = c
  BY OrderedFacts DEF ThreadsIn, WeightsOf
<1>2. /\ \A i \in 1..Len(R) : T[i] = th[R[i]] /\ SumTo(T, i - 1) = SumTo(W, R[i] - 1)
      /\ \A c \in Conn : W[c] = IF c \in S THEN th[c] ELSE 0
  BY OrderedSums DEF WeightsOf
<1> HIDE DEF T, W
<1>3. ASSUME NEW i \in DOMAIN T, T[i] > 0, n = Locals + SumTo(T, i - 1)
      PROVE  \E c \in DOMAIN W : W[c] > 0 /\ n = Locals + SumTo(W, c - 1)
  <2>1. R[i] \in Conn /\ R[i] \in S /\ W[R[i]] = T[i] /\ SumTo(T, i - 1) = SumTo(W, R[i] - 1)
    BY <1>1, <1>2
  <2>2. QED
    BY <1>1, <1>3, <2>1
<1>4. ASSUME NEW c \in DOMAIN W, W[c] > 0, n = Locals + SumTo(W, c - 1)
      PROVE  \E i \in DOMAIN T : T[i] > 0 /\ n = Locals + SumTo(T, i - 1)
  <2>1. c \in S
    BY <1>1, <1>2, <1>4
  <2>2. PICK i \in 1..Len(R) : R[i] = c
    BY <1>1, <2>1
  <2>3. T[i] = W[c] /\ SumTo(T, i - 1) = SumTo(W, c - 1)
    BY <1>1, <1>2, <2>1, <2>2
  <2>4. QED
    BY <1>1, <1>4, <2>3
<1>5. QED
  BY <1>3, <1>4 DEF TurnAt, T, W

-----------------------------------------------------------------------------
(* Lemmas: copies of accounts.                                             *)

\* Copies that are read from the database are as the database has them.
LEMMA CopiesFacts ==
  ASSUME scan \in [Account -> Nat], NEW S \in SUBSET Account
  PROVE  /\ Copies(S) \in UserMap /\ DOMAIN Copies(S) = S
         /\ \A a \in S : Copies(S)[a] = scan[a]
<1>1. Copies(S) \in [S -> Nat]
  BY DEF Copies
<1>2. QED
  BY <1>1 DEF Copies, UserMap

\* Accounts that are sent arrive with the height that the database has.
LEMMA SentFacts ==
  ASSUME scan \in [Account -> Nat], NEW s \in Seq(Account)
  PROVE  PushAccounts(Sent(s)) \in Fresh /\ ReplaceAccounts(Sent(s)) \in Fresh
<1>1. Len(s) \in Nat /\ DOMAIN s = 1..Len(s) /\ \A i \in 1..Len(s) : s[i] \in Account
  BY LenProperties, ElementOfSeq
<1>2. Sent(s) \in [1..Len(s) -> [id : Account, height : Nat]]
  BY <1>1 DEF Sent
<1>3. /\ DOMAIN Sent(s) = 1..Len(s)
      /\ \A i \in 1..Len(s) : Sent(s)[i].height = scan[Sent(s)[i].id]
  BY <1>1 DEF Sent
<1> DEFINE t == Sent(s)
<1> HIDE DEF t
<1>4. t \in Seq([id : Account, height : Nat])
  <2> DEFINE E == [id : Account, height : Nat]
             l == Len(s)
  <2>1. l \in Nat /\ t \in [1..l -> E]
    BY <1>1, <1>2 DEF t
  <2> HIDE DEF E, l
  <2>2. t \in Seq(E)
    BY <2>1
  <2>3. QED
    BY <2>2 DEF E
<1>5. \A i \in DOMAIN t : t[i].height = scan[t[i].id]
  BY <1>3 DEF t
<1>6. \A o \in {"push", "replace"} : [op |-> o, users |-> t] \in Fresh
  <2> TAKE o \in {"push", "replace"}
  <2> DEFINE m == [op |-> o, users |-> t]
  <2>1. m \in Command
    BY <1>4 DEF Command
  <2>2. m.users = t
    OBVIOUS
  <2> HIDE DEF m
  <2>3. QED
    BY <1>5, <2>1, <2>2 DEF Fresh, m
<1>7. QED
  BY <1>6 DEF PushAccounts, ReplaceAccounts, t

\* Accounts that were received: each with the height of one of its copies.
LEMMA UsersFacts ==
  ASSUME NEW s \in Seq([id : Account, height : Nat]), NEW S \in SUBSET DOMAIN s
  PROVE  /\ Users(s, S) \in UserMap
         /\ \A a \in DOMAIN Users(s, S) : \E i \in S : s[i].id = a /\ Users(s, S)[a] = s[i].height
<1> DEFINE D == {s[i].id : i \in S}
           r == Received(s, S)
<1>1. \A i \in S : s[i] \in [id : Account, height : Nat]
  BY LenProperties, ElementOfSeq
<1>2. D \in SUBSET Account
  BY <1>1
<1>3. r = [a \in D |-> CHOOSE i \in S : s[i].id = a]
  BY DEF Received
<1>4. \A a \in D : r[a] \in S /\ s[r[a]].id = a
  <2> HIDE DEF r
  <2> TAKE a \in D
  <2>1. \E i \in S : s[i].id = a
    OBVIOUS
  <2>2. r[a] = CHOOSE i \in S : s[i].id = a
    <3> HIDE DEF D
    <3> QED BY <1>3
  <2>3. QED
    BY <2>1, <2>2
<1>5. DOMAIN r = D
  BY <1>3
<1> HIDE DEF D, r
<1>6. Users(s, S) = [a \in D |-> s[r[a]].height]
  BY <1>5 DEF Users, r
<1>7. Users(s, S) \in [D -> Nat]
  BY <1>1, <1>4, <1>6
<1>8. Users(s, S) \in UserMap
  BY <1>2, <1>7 DEF UserMap
<1>9. \A a \in D : r[a] \in S /\ s[r[a]].id = a /\ Users(s, S)[a] = s[r[a]].height
  BY <1>4, <1>6
<1>10. QED
  BY <1>6, <1>8, <1>9

\* The domain of a thread's copies.
LEMMA MapFacts ==
  ASSUME NEW u \in UserMap
  PROVE  DOMAIN u \in SUBSET Account /\ \A a \in DOMAIN u : u[a] \in Nat
BY DEF UserMap

\* Copies that are merged.
LEMMA MergeFacts ==
  ASSUME NEW u \in UserMap, NEW v \in UserMap
  PROVE  /\ Merge(u, v) \in UserMap
         /\ \A a \in DOMAIN Merge(u, v) :
              \/ a \in DOMAIN u /\ Merge(u, v)[a] = u[a]
              \/ a \in DOMAIN v /\ Merge(u, v)[a] = v[a]
<1> DEFINE D == DOMAIN u \cup DOMAIN v
<1>1. D \in SUBSET Account /\ \A a \in D : (IF a \in DOMAIN v THEN v[a] ELSE u[a]) \in Nat
  BY MapFacts
<1>2. Merge(u, v) \in [D -> Nat]
  BY <1>1 DEF Merge
<1>3. Merge(u, v) \in UserMap
  BY <1>1, <1>2 DEF UserMap
<1>4. QED
  BY <1>3 DEF Merge

\* Copies that advance.
LEMMA AdvancedFacts ==
  ASSUME NEW u \in UserMap, NEW last \in Nat
  PROVE  /\ Advanced(u, last) \in UserMap /\ DOMAIN Advanced(u, last) = DOMAIN u
         /\ \A a \in DOMAIN u : Advanced(u, last)[a] = Larger(u[a], last)
<1>1. Advanced(u, last) \in [DOMAIN u -> Nat]
  BY MapFacts DEF Advanced, Larger
<1>2. QED
  BY <1>1, MapFacts DEF UserMap, Advanced

\* Without accounts.
LEMMA NoUsersFacts == NoUsers \in UserMap /\ DOMAIN NoUsers = {}
<1>1. NoUsers \in [{} -> Nat] /\ DOMAIN NoUsers = {}
  BY DEF NoUsers
<1>2. QED
  BY <1>1 DEF UserMap

\* Heights are stored upwards, and up to the last block for what fits.
LEMMA StoredFacts ==
  ASSUME scan \in [Account -> Nat], NEW u \in UserMap, NEW last \in Nat
  PROVE  /\ StoredHeights(u, last) \in [Account -> Nat]
         /\ \A a \in Account : scan[a] <= StoredHeights(u, last)[a]
         /\ Fits(u) => \A a \in DOMAIN u : Larger(scan[a], last) = StoredHeights(u, last)[a]
<1>1. StoredHeights(u, last) \in [Account -> Nat]
  BY DEF StoredHeights, Larger
<1>2. \A a \in Account : scan[a] <= StoredHeights(u, last)[a]
  BY DEF StoredHeights, Larger
<1>3. ASSUME Fits(u), NEW a \in DOMAIN u PROVE Larger(scan[a], last) = StoredHeights(u, last)[a]
  BY <1>3, MapFacts DEF StoredHeights, Fits
<1>4. QED
  BY <1>1, <1>2, <1>3

-----------------------------------------------------------------------------
(* Lemmas: what dealing accounts does, in do_replace_users and check_users. *)

\* The number of a thread.
LEMMA ThreadFacts ==
  ASSUME NEW w \in Thread
  PROVE  /\ w[1] = 0 => w[2] \in 1..Locals
         /\ w[1] # 0 => w[1] \in Conn /\ w[2] \in 1..RemoteThreads[w[1]]
<1>1. ASSUME NEW c \in Conn PROVE c # 0
  BY RemoteAssumption DEF Conn
<1>2. CASE w \in {<<0, i>> : i \in 1..Locals}
  BY <1>2
<1>3. CASE w \in UNION {{<<c, i>> : i \in 1..RemoteThreads[c]} : c \in Conn}
  BY <1>1, <1>3
<1>4. QED
  BY <1>2, <1>3 DEF Thread

\* Accounts in some order.
LEMMA OrderTypes ==
  ASSUME NEW S \in SUBSET Account, NEW s \in SetToSeqs(S)
  PROVE  s \in Seq(Account)
<1>1. Cardinality(S) \in Nat
  <2>1. IsFiniteSet(Account)
    BY FS_Interval, RemoteAssumption DEF Account
  <2>2. QED
    BY <2>1, FS_Subset, FS_CardinalityType
<1>2. s \in [1..Cardinality(S) -> S]
  BY DEF SetToSeqs
<1>3. QED
  BY <1>1, <1>2

\* The place of a connection among those that are there.
LEMMA PositionFacts ==
  ASSUME NEW S \in SUBSET Conn, NEW R \in Ordered(S), NEW c \in S
  PROVE  Position(R, c) \in 1..Len(R) /\ R[Position(R, c)] = c
<1>1. DOMAIN R = 1..Len(R) /\ \E i \in 1..Len(R) : R[i] = c
  BY OrderedFacts
<1>2. QED
  BY <1>1 DEF Position

\* The connection at a place has this place.
LEMMA PlaceFacts ==
  ASSUME NEW S \in SUBSET Conn, NEW R \in Ordered(S), NEW j \in 1..Len(R)
  PROVE  R[j] \in S /\ Position(R, R[j]) = j
<1>1. R[j] \in S
  BY OrderedFacts
<1> DEFINE k == Position(R, R[j])
<1>2. k \in 1..Len(R) /\ R[k] = R[j]
  BY <1>1, PositionFacts
<1>3. \A x, y \in 1..Len(R) : x < y => R[x] < R[y]
  BY OrderedFacts
<1>4. \A x \in 1..Len(R) : R[x] \in Nat
  BY OrderedFacts, RemoteAssumption, SMTT(30) DEF Conn
<1>5. Len(R) \in Nat
  BY OrderedFacts
<1> HIDE DEF k
<1>6. k = j
  BY <1>2, <1>3, <1>4, <1>5
<1>7. QED
  BY <1>1, <1>6 DEF k

\* Commands are added behind those that are under way, or not at all.
LEMMA WrittenFacts ==
  ASSUME RemoteTypes, NEW ms \in [Conn -> Seq(Fresh)]
  PROVE  /\ Written(ms) \in [Conn -> Seq(Command)]
         /\ \A c \in Conn : \A k \in DOMAIN Written(ms)[c] :
              \/ Written(ms)[c][k] \in Fresh
              \/ k \in DOMAIN wire[c] /\ Written(ms)[c][k] = wire[c][k]
         /\ Closing(ms) \in [Conn -> {"open", "closing", "gone"}]
         /\ \A c \in Conn : Closing(ms)[c] = "open" => srv[c] = "open"
<1>1. /\ wire \in [Conn -> Seq(Command)] /\ srv \in [Conn -> {"open", "closing", "gone"}]
      /\ Fresh \in SUBSET Command
  BY DEF RemoteTypes, Fresh
<1> HIDE DEF Command, Fresh
<1>2. ASSUME NEW c \in Conn
      PROVE  /\ wire[c] \o ms[c] \in Seq(Command)
             /\ \A k \in DOMAIN (wire[c] \o ms[c]) :
                  \/ (wire[c] \o ms[c])[k] \in Fresh
                  \/ k \in DOMAIN wire[c] /\ (wire[c] \o ms[c])[k] = wire[c][k]
  <2> DEFINE x == wire[c]
             y == ms[c]
             xy == x \o y
  <2>1. x \in Seq(Command) /\ y \in Seq(Fresh)
    BY <1>1
  <2> HIDE DEF x, y
  <2>2. y \in Seq(Command) /\ Len(x) \in Nat /\ Len(y) \in Nat /\ DOMAIN x = 1..Len(x)
    BY <1>1, <2>1, LenProperties
  <2>3. /\ xy \in Seq(Command) /\ Len(xy) = Len(x) + Len(y)
        /\ \A i \in 1..Len(x) + Len(y) :
             xy[i] = IF i <= Len(x) THEN x[i] ELSE y[i - Len(x)]
    BY <2>1, <2>2, ConcatProperties
  <2> HIDE DEF xy
  <2>4. DOMAIN xy = 1..Len(x) + Len(y)
    BY <2>3, LenProperties
  <2>5. ASSUME NEW k \in DOMAIN xy PROVE xy[k] \in Fresh \/ (k \in DOMAIN x /\ xy[k] = x[k])
    <3>1. CASE k <= Len(x)
      BY <2>2, <2>3, <2>4, <3>1
    <3>2. CASE ~ k <= Len(x)
      <4>1. k - Len(x) \in 1..Len(y)
        BY <2>2, <2>4, <3>2
      <4>2. y[k - Len(x)] \in Fresh
        BY <2>1, <4>1, ElementOfSeq
      <4>3. QED
        BY <2>3, <2>4, <3>2, <4>2
    <3>3. QED
      BY <3>1, <3>2
  <2>6. QED
    BY <2>3, <2>5 DEF x, y, xy
<1>3. Written(ms) \in [Conn -> Seq(Command)]
  BY <1>1, <1>2 DEF Written
<1>4. ASSUME NEW c \in Conn, NEW k \in DOMAIN Written(ms)[c]
      PROVE  \/ Written(ms)[c][k] \in Fresh
             \/ k \in DOMAIN wire[c] /\ Written(ms)[c][k] = wire[c][k]
  <2>1. CASE srv[c] = "open"
    <3>1. Written(ms)[c] = wire[c] \o ms[c]
      BY <2>1 DEF Written
    <3>2. QED
      BY <1>2, <3>1
  <2>2. CASE srv[c] # "open"
    <3>1. Written(ms)[c] = wire[c]
      BY <2>2 DEF Written
    <3>2. QED
      BY <3>1
  <2>3. QED
    BY <2>1, <2>2
<1>5. /\ Closing(ms) \in [Conn -> {"open", "closing", "gone"}]
      /\ \A c \in Conn : Closing(ms)[c] = "open" => srv[c] = "open"
  <2>1. Closing(ms) = [c \in Conn |-> IF Overflow(ms, c) THEN "closing" ELSE srv[c]]
    BY DEF Closing
  <2>2. \A c \in Conn : Closing(ms)[c] = "closing" \/ Closing(ms)[c] = srv[c]
    BY <2>1
  <2>3. QED
    BY <1>1, <2>1, <2>2
<1>6. QED
  BY <1>3, <1>4, <1>5

\* An account that a command names.
LEMMA SentNames ==
  ASSUME NEW s \in Seq(Account), NEW a \in ToSet(s)
  PROVE  a \in Names(PushAccounts(Sent(s))) /\ a \in Names(ReplaceAccounts(Sent(s)))
<1>1. PICK i \in DOMAIN s : s[i] = a
  BY DEF ToSet
<1>2. DOMAIN Sent(s) = DOMAIN s /\ Sent(s)[i].id = a
  BY <1>1 DEF Sent
<1>3. PushAccounts(Sent(s)).users = Sent(s) /\ ReplaceAccounts(Sent(s)).users = Sent(s)
  BY DEF PushAccounts, ReplaceAccounts
<1>4. QED
  BY <1>2, <1>3 DEF Names

\* Commands x behind the commands q: what they name is in the wire, and pushed
\* accounts leave what was there.
LEMMA ConcatWires ==
  ASSUME NEW X, NEW q \in Seq(X), NEW x \in Seq(X)
  PROVE  /\ \A a : InWire(a, x) => InWire(a, q \o x)
         /\ (\A k \in DOMAIN x : x[k].op = "push") =>
              /\ \A a : InWire(a, q) => InWire(a, q \o x)
              /\ Lasts(q, 0) => Lasts(q \o x, 0)
<1> DEFINE y == q \o x
<1>1. /\ Len(q) \in Nat /\ Len(x) \in Nat /\ DOMAIN q = 1..Len(q) /\ DOMAIN x = 1..Len(x)
      /\ DOMAIN y = 1..Len(q) + Len(x)
      /\ \A i \in 1..Len(q) + Len(x) : y[i] = IF i <= Len(q) THEN q[i] ELSE x[i - Len(q)]
  BY LenProperties, ConcatProperties
<1> HIDE DEF y
<1>2. ASSUME NEW a, NEW k \in DOMAIN x, a \in Names(x[k]), Lasts(x, k)
      PROVE  InWire(a, y)
  <2> DEFINE n == Len(q) + k
  <2>1. n \in DOMAIN y /\ y[n] = x[k] /\ n \in Nat
    BY <1>1
  <2>2. ASSUME NEW j \in DOMAIN y, n < j PROVE y[j].op = "push"
    <3>1. j - Len(q) \in DOMAIN x /\ k < j - Len(q) /\ y[j] = x[j - Len(q)]
      BY <1>1, <2>2
    <3>2. QED
      BY <1>2, <3>1 DEF Lasts
  <2> HIDE DEF n
  <2>3. QED
    BY <1>2, <2>1, <2>2 DEF InWire, Lasts
<1>3. ASSUME \A k \in DOMAIN x : x[k].op = "push", NEW k \in Nat, Lasts(q, k)
      PROVE  Lasts(y, k)
  <2>1. ASSUME NEW j \in DOMAIN y, k < j PROVE y[j].op = "push"
    <3>1. CASE j <= Len(q)
      BY <1>1, <1>3, <2>1, <3>1 DEF Lasts
    <3>2. CASE ~ j <= Len(q)
      <4>1. j - Len(q) \in DOMAIN x /\ y[j] = x[j - Len(q)]
        BY <1>1, <3>2
      <4>2. QED
        BY <1>3, <4>1
    <3>3. QED
      BY <3>1, <3>2
  <2>2. QED
    BY <2>1 DEF Lasts
<1>4. ASSUME \A k \in DOMAIN x : x[k].op = "push", NEW a, InWire(a, q)
      PROVE  InWire(a, y)
  <2>1. PICK k \in DOMAIN q : a \in Names(q[k]) /\ Lasts(q, k)
    BY <1>4 DEF InWire
  <2>2. k \in DOMAIN y /\ y[k] = q[k] /\ k \in Nat
    BY <1>1
  <2>3. QED
    BY <1>3, <1>4, <2>1, <2>2 DEF InWire
<1>5. QED
  BY <1>2, <1>3, <1>4 DEF y, InWire

\* What dealing does: commands with fresh copies are written, connections only
\* close, and a local thread gets copies that are fresh or that it had.
Dealing ==
  /\ srv' \in [Conn -> {"open", "closing", "gone"}]
  /\ \A c \in Conn : srv'[c] = "open" => srv[c] = "open"
  /\ wire' \in [Conn -> Seq(Command)]
  /\ \A c \in Conn : \A k \in DOMAIN wire'[c] :
       wire'[c][k] \in Fresh \/ (k \in DOMAIN wire[c] /\ wire'[c][k] = wire[c][k])
  /\ listed' \in SUBSET Account /\ next' \in Nat
  /\ given' \in [Conn -> SUBSET Account]
  /\ held' \in [Thread -> UserMap]
  /\ \A w \in Thread : w[1] # 0 => held'[w] = held[w]
  /\ \A w \in Thread : w[1] = 0 => \A a \in DOMAIN held'[w] :
       held'[w][a] = scan[a] \/ (a \in DOMAIN held[w] /\ held'[w][a] = held[w][a])

\* An account is with a local thread after the step, or on its way to a scanner,
\* or the dealing left it out, or a connection has ended.
GivenTo(a) ==
  \/ a \in left'
  \/ \E w \in Thread : w[1] = 0 /\ a \in DOMAIN held'[w]
  \/ \E c \in remote' : srv'[c] # "open" \/ (a \in given'[c] /\ InWire(a, wire'[c]))

\* Accounts that were pushed come to those that threads and scanners have.
Pushing ==
  /\ listed' = active /\ \A a \in NewUsers : GivenTo(a)
  /\ left \subseteq left' /\ \A c \in Conn : given[c] \subseteq given'[c]
  /\ \A w \in Thread : DOMAIN held[w] \subseteq DOMAIN held'[w]
  /\ \A c \in Conn : srv'[c] = "open" =>
       /\ \A a : InWire(a, wire[c]) => InWire(a, wire'[c])
       /\ Lasts(wire[c], 0) => Lasts(wire'[c], 0)

\* A sum with a number that counts.
LEMMA SumPositive ==
  ASSUME NEW d \in Seq(Nat), NEW i \in 1..Len(d), d[i] > 0
  PROVE  ThreadsOf(d) > 0
<1>1. Len(d) \in Nat /\ d[i] \in Nat
  BY ElementOfSeq, LenProperties
<1>2. i \in 0..Len(d) /\ Len(d) \in i..Len(d) /\ i - 1 \in 0..Len(d) /\ Len(d) \in 0..Len(d)
  BY <1>1
<1>3. SumTo(d, i) <= SumTo(d, Len(d))
  BY <1>2, SumBetween
<1>4. SumTo(d, i) = SumTo(d, i - 1) + d[i]
  BY SumFacts
<1>5. SumTo(d, i) \in Nat /\ SumTo(d, i - 1) \in Nat /\ SumTo(d, Len(d)) \in Nat
  BY <1>2, SumFacts
<1>6. QED
  BY <1>1, <1>3, <1>4, <1>5 DEF ThreadsOf

\* With a thread to deal to, the number of all threads is not zero.
LEMMA AnyTotal ==
  ASSUME NEW S \in SUBSET Conn, NEW th \in [Conn -> Nat], AnyThread(S, th)
  PROVE  /\ Locals + ThreadsOf(WeightsOf(S, th)) > 0
         /\ \A R \in Ordered(S) : Locals + ThreadsOf(ThreadsIn(R, th)) > 0
<1>1. Locals \in Nat /\ Conns \in Nat
  BY RemoteAssumption
<1>2. \A d \in Seq(Nat) : ThreadsOf(d) \in Nat
  <2> TAKE d \in Seq(Nat)
  <2>1. Len(d) \in 0..Len(d)
    BY LenProperties
  <2>2. QED
    BY <2>1, SumFacts DEF ThreadsOf
<1>3. WeightsOf(S, th) \in Seq(Nat) /\ Len(WeightsOf(S, th)) = Conns
  <2> DEFINE W == WeightsOf(S, th)
  <2>1. W \in [1..Conns -> Nat]
    BY DEF WeightsOf, Conn
  <2> HIDE DEF W
  <2>2. W \in Seq(Nat)
    BY <1>1, <2>1
  <2>3. QED
    BY <1>1, <2>1, <2>2, LenProperties DEF W
<1>4. Locals + ThreadsOf(WeightsOf(S, th)) > 0
  <2>1. CASE Locals > 0
    BY <1>1, <1>2, <1>3, <2>1
  <2>2. ASSUME NEW c \in S, th[c] > 0 PROVE Locals + ThreadsOf(WeightsOf(S, th)) > 0
    <3>1. c \in 1..Conns /\ WeightsOf(S, th)[c] = th[c]
      BY DEF WeightsOf, Conn
    <3> DEFINE W == WeightsOf(S, th)
    <3> HIDE DEF W
    <3>2. W \in Seq(Nat) /\ c \in 1..Len(W) /\ W[c] > 0
      BY <1>3, <2>2, <3>1 DEF W
    <3>3. ThreadsOf(W) > 0 /\ ThreadsOf(W) \in Nat
      BY <1>2, <3>2, SumPositive
    <3>4. QED
      BY <1>1, <3>3 DEF W
  <2>3. QED
    BY <2>1, <2>2 DEF AnyThread
<1>5. ASSUME NEW R \in Ordered(S) PROVE Locals + ThreadsOf(ThreadsIn(R, th)) > 0
  <2> DEFINE T == ThreadsIn(R, th)
  <2>1. T \in Seq(Nat) /\ Len(T) = Len(R) /\ \A i \in 1..Len(R) : T[i] = th[R[i]]
    BY OrderedSums
  <2> HIDE DEF T
  <2>2. CASE Locals > 0
    BY <1>1, <1>2, <2>1, <2>2 DEF T
  <2>3. ASSUME NEW c \in S, th[c] > 0 PROVE Locals + ThreadsOf(T) > 0
    <3>1. PICK i \in 1..Len(R) : R[i] = c
      BY OrderedFacts
    <3>2. i \in 1..Len(T) /\ T[i] > 0
      BY <2>1, <2>3, <3>1
    <3>3. ThreadsOf(T) > 0 /\ ThreadsOf(T) \in Nat
      BY <1>2, <2>1, <3>2, SumPositive
    <3>4. QED
      BY <1>1, <3>3
  <2>4. QED
    BY <2>2, <2>3 DEF AnyThread, T
<1>6. QED
  BY <1>4, <1>5

\* do_replace_users deals, and starts the turns over.
LEMMA ReplaceDeals ==
  ASSUME RemoteTypes, NEW th \in [Conn -> Nat], do_replace_users(th)
  PROVE  /\ Dealing /\ remote' = Alive(remote)
         /\ AnyThread(remote', th) => next' = 0 /\ \A a \in listed' : GivenTo(a)
<1>1. remote' = Alive(remote) /\ Alive(remote) \in SUBSET Conn
  BY DEF do_replace_users, Alive, RemoteTypes
<1>2. CASE ~ AnyThread(Alive(remote), th)
  <2>1. UNCHANGED <<wire, srv, next, listed, left, given, held>>
    BY <1>2 DEF do_replace_users
  <2>2. Dealing
    BY <2>1 DEF Dealing, RemoteTypes
  <2>3. QED
    BY <1>1, <1>2, <2>2
<1>3. CASE AnyThread(Alive(remote), th)
  <2>1. PICK R \in Ordered(Alive(remote)), s \in ByHeight(active) :
          \E part \in {Shares(s, Locals, ThreadsIn(R, th), RemoteThreshold)} :
            LET ms == [c \in Conn |-> IF c \in Alive(remote)
                                      THEN <<ReplaceAccounts(Sent(part[Locals + Position(R, c)]))>>
                                      ELSE << >>]
            IN  /\ held' = [w \in Thread |-> IF w[1] = 0 THEN Copies(ToSet(part[w[2]])) ELSE held[w]]
                /\ wire' = Written(ms)
                /\ srv' = Closing(ms)
                /\ listed' = active
                /\ left' = active \ UNION {ToSet(part[i]) : i \in DOMAIN part}
                /\ given' = [c \in Conn |-> IF c \in Alive(remote)
                                            THEN ToSet(part[Locals + Position(R, c)]) ELSE {}]
                /\ next' = 0
    BY <1>3, Zenon DEF do_replace_users
  <2>2. PICK part \in {Shares(s, Locals, ThreadsIn(R, th), RemoteThreshold)} :
            LET ms == [c \in Conn |-> IF c \in Alive(remote)
                                      THEN <<ReplaceAccounts(Sent(part[Locals + Position(R, c)]))>>
                                      ELSE << >>]
            IN  /\ held' = [w \in Thread |-> IF w[1] = 0 THEN Copies(ToSet(part[w[2]])) ELSE held[w]]
                /\ wire' = Written(ms)
                /\ srv' = Closing(ms)
                /\ listed' = active
                /\ left' = active \ UNION {ToSet(part[i]) : i \in DOMAIN part}
                /\ given' = [c \in Conn |-> IF c \in Alive(remote)
                                            THEN ToSet(part[Locals + Position(R, c)]) ELSE {}]
                /\ next' = 0
    BY <2>1
  <2> DEFINE rem == ThreadsIn(R, th)
             ms == [c \in Conn |-> IF c \in Alive(remote)
                                   THEN <<ReplaceAccounts(Sent(part[Locals + Position(R, c)]))>>
                                   ELSE << >>]
  <2>3. /\ held' = [w \in Thread |-> IF w[1] = 0 THEN Copies(ToSet(part[w[2]])) ELSE held[w]]
        /\ wire' = Written(ms) /\ srv' = Closing(ms) /\ listed' = active /\ next' = 0
        /\ left' = active \ UNION {ToSet(part[i]) : i \in DOMAIN part}
        /\ given' = [c \in Conn |-> IF c \in Alive(remote)
                                    THEN ToSet(part[Locals + Position(R, c)]) ELSE {}]
    BY <2>2
  <2>4. /\ scan \in [Account -> Nat] /\ active \in SUBSET Account
        /\ held \in [Thread -> UserMap]
    BY DEF RemoteTypes
  <2>5. s \in Seq(Account)
    BY <2>4, OrderTypes DEF ByHeight
  <2>6. Locals \in Nat /\ RemoteThreshold \in Nat
    BY RemoteAssumption
  <2>7. rem \in Seq(Nat) /\ Len(rem) = Len(R) /\ Len(R) \in Nat
    BY <1>1, OrderedSums, OrderedFacts
  <2>8. part = Shares(s, Locals, rem, RemoteThreshold)
    BY <2>2
  <2> HIDE DEF rem
  <2>9. /\ DOMAIN part = 1..Locals + Len(R)
        /\ \A i \in 1..Locals + Len(R) : part[i] \in Seq(Account)
    <3>1. /\ DOMAIN part = 1..Locals + Len(rem)
          /\ \A i \in 1..Locals + Len(rem) : part[i] \in Seq(Account)
      <4>1. /\ DOMAIN Shares(s, Locals, rem, RemoteThreshold) = 1..Locals + Len(rem)
            /\ \A i \in 1..Locals + Len(rem) :
                 Shares(s, Locals, rem, RemoteThreshold)[i] \in Seq(Account)
        BY <2>6, <2>7, <2>5, SharesOf, Zenon
      <4>2. QED
        BY <2>8, <4>1, Zenon
    <3>2. QED
      BY <2>7, <3>1
  <2>10. ms \in [Conn -> Seq(Fresh)]
    <3>1. ASSUME NEW c \in Alive(remote)
          PROVE  <<ReplaceAccounts(Sent(part[Locals + Position(R, c)]))>> \in Seq(Fresh)
      <4>1. Position(R, c) \in 1..Len(R)
        BY <1>1, PositionFacts
      <4>2. Locals + Position(R, c) \in 1..Locals + Len(R)
        BY <2>6, <2>7, <4>1
      <4>3. ReplaceAccounts(Sent(part[Locals + Position(R, c)])) \in Fresh
        BY <2>4, <2>9, <4>2, SentFacts
      <4>4. QED
        BY <4>3
    <3>2. << >> \in Seq(Fresh)
      BY EmptySeq
    <3>3. QED
      BY <3>1, <3>2
  <2>0. \A c \in Alive(remote) : ms[c] = <<ReplaceAccounts(Sent(part[Locals + Position(R, c)]))>>
    BY <1>1
  <2> HIDE DEF ms
  <2>12. ASSUME NEW w \in Thread, w[1] = 0
        PROVE  /\ held'[w] \in UserMap
               /\ \A a \in DOMAIN held'[w] : held'[w][a] = scan[a]
    <3>1. w[2] \in 1..Locals + Len(R)
      BY <2>6, <2>7, <2>12, ThreadFacts
    <3>2. ToSet(part[w[2]]) \in SUBSET Account
      BY <2>9, <3>1, LenProperties, ElementOfSeq DEF ToSet
    <3>3. held'[w] = Copies(ToSet(part[w[2]]))
      BY <2>3, <2>12
    <3>4. QED
      BY <2>4, <3>2, <3>3, CopiesFacts
  <2>11. given' \in [Conn -> SUBSET Account]
    <3>1. ASSUME NEW c \in Alive(remote)
          PROVE  ToSet(part[Locals + Position(R, c)]) \in SUBSET Account
      <4>1. Position(R, c) \in 1..Len(R)
        BY <1>1, PositionFacts
      <4> DEFINE i == Locals + Position(R, c)
      <4>2. i \in 1..Locals + Len(R)
        BY <2>6, <2>7, <4>1
      <4> HIDE DEF i
      <4>3. ToSet(part[i]) \in SUBSET Account
        BY <2>9, <4>2, LenProperties, ElementOfSeq DEF ToSet
      <4>4. QED
        BY <4>3 DEF i
    <3>2. QED
      BY <2>3, <3>1
  <2>13. \A w \in Thread : w[1] # 0 => held'[w] = held[w]
    BY <2>3
  <2>14. held' \in [Thread -> UserMap]
    <3>1. held' = [w \in Thread |-> held'[w]]
      BY <2>3
    <3>2. \A w \in Thread : held'[w] \in UserMap
      BY <2>4, <2>12, <2>13
    <3> HIDE DEF UserMap
    <3>3. QED
      BY <3>1, <3>2
  <2>15. Dealing
    <3>1. /\ srv' \in [Conn -> {"open", "closing", "gone"}]
          /\ \A c \in Conn : srv'[c] = "open" => srv[c] = "open"
          /\ wire' \in [Conn -> Seq(Command)]
          /\ \A c \in Conn : \A k \in DOMAIN wire'[c] :
               wire'[c][k] \in Fresh \/ (k \in DOMAIN wire[c] /\ wire'[c][k] = wire[c][k])
      BY <2>10, <2>3, WrittenFacts, ZenonT(60)
    <3>2. listed' \in SUBSET Account /\ next' \in Nat
      BY <2>4, <2>3
    <3>3. QED
      BY <2>11, <2>12, <2>13, <2>14, <3>1, <3>2, Zenon DEF Dealing
  <2>16. ASSUME NEW a \in listed' PROVE GivenTo(a)
    <3>1. SUFFICES ASSUME a \notin left' PROVE GivenTo(a)
      BY DEF GivenTo
    <3>2. PICK i \in 1..Locals + Len(R) : a \in ToSet(part[i])
      BY <2>9, <2>3, <3>1
    <3>3. CASE i <= Locals
      <4>1. <<0, i>> \in Thread
        BY <2>6, <2>7, <3>3 DEF Thread
      <4>2. held'[<<0, i>>] = Copies(ToSet(part[i]))
        BY <2>3, <4>1
      <4>3. ToSet(part[i]) \in SUBSET Account
        BY <2>9, LenProperties, ElementOfSeq DEF ToSet
      <4>4. a \in DOMAIN held'[<<0, i>>]
        BY <2>4, <3>2, <4>2, <4>3, CopiesFacts
      <4>5. QED
        BY <4>1, <4>4 DEF GivenTo
    <3>4. CASE ~ i <= Locals
      <4> DEFINE j == i - Locals
                 c == R[j]
      <4>1. j \in 1..Len(R) /\ Locals + j = i
        BY <2>6, <2>7, <3>4
      <4>2. c \in Alive(remote)
        BY <1>1, <4>1, OrderedFacts
      <4> HIDE DEF j
      <4>3. Position(R, c) = j
        BY <1>1, <4>1, PlaceFacts
      <4> HIDE DEF c
      <4>12. a \in given'[c]
        BY <1>1, <2>3, <3>2, <4>1, <4>2, <4>3
      <4>4. SUFFICES ASSUME srv'[c] = "open" PROVE InWire(a, wire'[c])
        BY <1>1, <4>2, <4>12 DEF GivenTo
      <4>5. c \in Conn /\ srv[c] = "open"
        BY <1>1, <4>2, <4>4, <2>15 DEF Dealing
      <4>6. wire'[c] = wire[c] \o ms[c]
        BY <2>3, <4>5 DEF Written
      <4> DEFINE m == ReplaceAccounts(Sent(part[i]))
      <4>7. ms[c] = <<m>>
        BY <2>0, <4>1, <4>2, <4>3
      <4>8. a \in Names(m)
        BY <2>9, <3>2, SentNames
      <4> HIDE DEF m
      <4>9. InWire(a, <<m>>)
        BY <4>8 DEF InWire, Lasts
      <4>10. wire[c] \in Seq(Command) /\ ms[c] \in Seq(Command)
        <5>1. ms[c] \in Seq(Fresh) /\ Fresh \subseteq Command
          BY <2>10, <4>5 DEF Fresh
        <5>2. QED
          BY <4>5, <5>1, LenProperties, ElementOfSeq DEF RemoteTypes
      <4>11. QED
        BY <4>6, <4>7, <4>9, <4>10, ConcatWires
    <3>5. QED
      BY <3>3, <3>4
  <2>17. QED
    BY <1>1, <2>3, <2>15, <2>16
<1>4. QED
  BY <1>2, <1>3

\* check_users deals the new accounts, unless one of them was moved from, and
\* stops at a turn.
LEMMA PushDeals ==
  ASSUME RemoteTypes, TurnInv, check_users_push
  PROVE  /\ Dealing /\ dead' \in BOOLEAN
         /\ ~ dead' => TurnAt(next', Locals, WeightsOf(remote, threads)) /\ Pushing
<1>1. /\ scan \in [Account -> Nat] /\ active \in SUBSET Account /\ listed \in SUBSET Account
      /\ held \in [Thread -> UserMap] /\ remote \in SUBSET Conn /\ threads \in [Conn -> Nat]
      /\ next \in Nat
  BY DEF RemoteTypes
<1>2. Up /\ AnyThread(remote, threads) /\ TurnAt(next, Locals, WeightsOf(remote, threads))
  BY DEF check_users_push, TurnInv
<1>3. PICK R \in Ordered(remote), s \in Ordered(NewUsers) :
        \E dealt \in {RoundRobin(s, next, Locals, ThreadsIn(R, threads))} :
          LET users(i) == UNION {ToSet(us) : us \in ToSet(dealt.out[i])}
              all == UNION {users(i) : i \in 1..Locals + Len(R)}
              ms == [c \in Conn |->
                      IF c \in remote
                      THEN LET mine == dealt.out[Locals + Position(R, c)]
                           IN  [k \in DOMAIN mine |-> PushAccounts(Sent(mine[k]))]
                      ELSE << >>]
          IN  IF Hollow \in all
              THEN /\ dead' = TRUE
                   /\ UNCHANGED <<listed, left, given, next, held, wire, srv>>
              ELSE /\ listed' = active
                   /\ left' = left \cup (NewUsers \ all)
                   /\ given' = [c \in Conn |-> IF c \in remote
                                               THEN given[c] \cup users(Locals + Position(R, c))
                                               ELSE given[c]]
                   /\ next' = dealt.next
                   /\ held' = [w \in Thread |-> IF w[1] = 0
                                                THEN Merge(held[w], Copies(users(w[2])))
                                                ELSE held[w]]
                   /\ wire' = Written(ms)
                   /\ srv' = Closing(ms)
                   /\ UNCHANGED dead
  BY DEF check_users_push
<1>4. PICK dealt \in {RoundRobin(s, next, Locals, ThreadsIn(R, threads))} :
          LET users(i) == UNION {ToSet(us) : us \in ToSet(dealt.out[i])}
              all == UNION {users(i) : i \in 1..Locals + Len(R)}
              ms == [c \in Conn |->
                      IF c \in remote
                      THEN LET mine == dealt.out[Locals + Position(R, c)]
                           IN  [k \in DOMAIN mine |-> PushAccounts(Sent(mine[k]))]
                      ELSE << >>]
          IN  IF Hollow \in all
              THEN /\ dead' = TRUE
                   /\ UNCHANGED <<listed, left, given, next, held, wire, srv>>
              ELSE /\ listed' = active
                   /\ left' = left \cup (NewUsers \ all)
                   /\ given' = [c \in Conn |-> IF c \in remote
                                               THEN given[c] \cup users(Locals + Position(R, c))
                                               ELSE given[c]]
                   /\ next' = dealt.next
                   /\ held' = [w \in Thread |-> IF w[1] = 0
                                                THEN Merge(held[w], Copies(users(w[2])))
                                                ELSE held[w]]
                   /\ wire' = Written(ms)
                   /\ srv' = Closing(ms)
                   /\ UNCHANGED dead
  BY <1>3
<1> DEFINE rem == ThreadsIn(R, threads)
           M == Account \cup {Hollow}
           users(i) == UNION {ToSet(us) : us \in ToSet(dealt.out[i])}
           all == UNION {users(i) : i \in 1..Locals + Len(R)}
           mine(c) == dealt.out[Locals + Position(R, c)]
           ms == [c \in Conn |-> IF c \in remote
                                 THEN [k \in DOMAIN mine(c) |-> PushAccounts(Sent(mine(c)[k]))]
                                 ELSE << >>]
<1>5. IF Hollow \in all
      THEN dead' = TRUE /\ UNCHANGED <<listed, given, next, held, wire, srv>>
      ELSE /\ listed' = active
           /\ left' = left \cup (NewUsers \ all)
           /\ given' = [c \in Conn |-> IF c \in remote
                                       THEN given[c] \cup users(Locals + Position(R, c))
                                       ELSE given[c]]
           /\ next' = dealt.next
           /\ held' = [w \in Thread |-> IF w[1] = 0 THEN Merge(held[w], Copies(users(w[2])))
                                        ELSE held[w]]
           /\ wire' = Written(ms)
           /\ srv' = Closing(ms)
           /\ UNCHANGED dead
  BY <1>4
<1>6. Locals \in Nat /\ rem \in Seq(Nat) /\ Len(rem) = Len(R) /\ Len(R) \in Nat
  BY <1>1, OrderedSums, OrderedFacts, RemoteAssumption
<1>7. Locals + ThreadsOf(rem) > 0
  BY <1>1, <1>2, AnyTotal
<1>8. TurnAt(next, Locals, rem)
  BY <1>1, <1>2, TurnsAgree
<1>9. s \in Seq(M)
  <2>1. NewUsers \in SUBSET Account
    BY <1>1 DEF NewUsers
  <2>2. s \in Seq(Account)
    BY <2>1, OrderTypes DEF Ordered
  <2>3. QED
    BY <2>2, LenProperties, ElementOfSeq
<1>10. dealt = RoundRobin(s, next, Locals, rem)
  BY <1>4
<1> HIDE DEF rem
<1>11. dealt \in [new : Seq(M), next : {k \in Nat : TurnAt(k, Locals, rem)},
                 out : [1..Locals + Len(rem) -> Seq(Seq(M))]]
  <2>1. Hollow \in M
    OBVIOUS
  <2> HIDE DEF M
  <2>2. QED
    BY <1>1, <1>6, <1>7, <1>8, <1>9, <2>1, <1>10, RoundRobinTypes
<1>12. /\ dealt.next \in Nat /\ TurnAt(dealt.next, Locals, rem)
       /\ \A i \in 1..Locals + Len(R) : dealt.out[i] \in Seq(Seq(M))
  <2> HIDE DEF M
  <2>1. QED
    BY <1>6, <1>11
<1>13. CASE Hollow \in all
  <2>1. dead' = TRUE /\ UNCHANGED <<listed, given, next, held, wire, srv>>
    <3> HIDE DEF all, users, ms
    <3> QED BY <1>5, <1>13
  <2>2. Dealing
    BY <2>1 DEF Dealing, RemoteTypes
  <2>3. QED
    BY <2>1, <2>2
<1>14. CASE Hollow \notin all
  <2>1. /\ listed' = active /\ next' = dealt.next
        /\ left' = left \cup (NewUsers \ all)
        /\ given' = [c \in Conn |-> IF c \in remote
                                    THEN given[c] \cup users(Locals + Position(R, c))
                                    ELSE given[c]]
        /\ held' = [w \in Thread |-> IF w[1] = 0 THEN Merge(held[w], Copies(users(w[2])))
                                     ELSE held[w]]
        /\ wire' = Written(ms) /\ srv' = Closing(ms) /\ UNCHANGED dead
    <3> HIDE DEF all, users, ms
    <3> QED BY <1>5, <1>14
  <2>2. ASSUME NEW i \in 1..Locals + Len(R), NEW k \in DOMAIN dealt.out[i]
        PROVE  dealt.out[i][k] \in Seq(Account)
    <3> DEFINE us == dealt.out[i][k]
    <3>1. us \in Seq(M)
      <4> HIDE DEF M
      <4> QED BY <1>12, LenProperties, ElementOfSeq
    <3>2. us \in ToSet(dealt.out[i])
      BY DEF ToSet
    <3>3. \A x \in ToSet(us) : x \in all
      <4> HIDE DEF us
      <4> QED BY <3>2
    <3> HIDE DEF us, all, users
    <3>4. \A x \in DOMAIN us : us[x] \in all /\ us[x] \in M
      BY <3>1, <3>3, LenProperties, ElementOfSeq DEF ToSet
    <3>5. Len(us) \in Nat /\ us = [x \in 1..Len(us) |-> us[x]] /\ DOMAIN us = 1..Len(us)
      BY <3>1, LenProperties
    <3>6. \A x \in 1..Len(us) : us[x] \in Account
      BY <1>14, <3>4, <3>5
    <3>7. us \in [1..Len(us) -> Account]
      BY <3>5, <3>6
    <3>8. us \in Seq(Account)
      BY <3>5, <3>7
    <3>9. QED
      BY <3>8 DEF us
  <2>3. \A i \in 1..Locals + Len(R) : users(i) \in SUBSET Account
    <3> TAKE i \in 1..Locals + Len(R)
    <3>1. ASSUME NEW us \in ToSet(dealt.out[i]) PROVE ToSet(us) \in SUBSET Account
      BY <2>2, LenProperties, ElementOfSeq DEF ToSet
    <3>2. QED
      BY <3>1
  <2>4. /\ \A i \in 1..Locals + Len(R) : \A x \in users(i) :
             \E k \in DOMAIN dealt.out[i] : x \in ToSet(dealt.out[i][k])
        /\ \A x \in all : \E i \in 1..Locals + Len(R) : x \in users(i)
    BY DEF ToSet
  <2> HIDE DEF users, all
  <2>5. ms \in [Conn -> Seq(Fresh)]
    <3>1. ASSUME NEW c \in remote
          PROVE  [k \in DOMAIN mine(c) |-> PushAccounts(Sent(mine(c)[k]))] \in Seq(Fresh)
      <4> DEFINE i == Locals + Position(R, c)
                 q == dealt.out[i]
      <4>1. i \in 1..Locals + Len(R)
        <5>1. Position(R, c) \in 1..Len(R)
          BY <1>1, PositionFacts
        <5>2. QED
          BY <1>6, <5>1
      <4> HIDE DEF i
      <4>2. Len(q) \in Nat /\ DOMAIN q = 1..Len(q)
        <5> HIDE DEF M
        <5> QED BY <1>12, <4>1, LenProperties
      <4>3. \A k \in DOMAIN q : PushAccounts(Sent(q[k])) \in Fresh
        BY <1>1, <2>2, <4>1, SentFacts
      <4>4. [k \in DOMAIN q |-> PushAccounts(Sent(q[k]))] \in [1..Len(q) -> Fresh]
        <5> HIDE DEF q
        <5> QED BY <4>2, <4>3
      <4>5. [k \in DOMAIN q |-> PushAccounts(Sent(q[k]))] \in Seq(Fresh)
        <5> HIDE DEF q
        <5> QED BY <4>2, <4>4
      <4>6. QED
        BY <4>5 DEF i
    <3>2. << >> \in Seq(Fresh)
      BY EmptySeq
    <3> HIDE DEF mine
    <3>3. QED
      BY <3>1, <3>2
  <2>6. \A c \in remote :
          /\ DOMAIN ms[c] = DOMAIN mine(c)
          /\ \A k \in DOMAIN mine(c) : ms[c][k] = PushAccounts(Sent(mine(c)[k]))
    <3> HIDE DEF mine
    <3> QED BY <1>1
  <2>7. \A c \in Conn : \A k \in DOMAIN ms[c] : ms[c][k].op = "push"
    <3> HIDE DEF mine
    <3> QED BY DEF PushAccounts
  <2> HIDE DEF ms
  <2>8. ASSUME NEW w \in Thread, w[1] = 0
        PROVE  /\ held'[w] \in UserMap
               /\ \A a \in DOMAIN held'[w] :
                    held'[w][a] = scan[a] \/ (a \in DOMAIN held[w] /\ held'[w][a] = held[w][a])
               /\ DOMAIN held'[w] = DOMAIN held[w] \cup users(w[2])
    <3>1. w[2] \in 1..Locals + Len(R)
      BY <1>6, <2>8, ThreadFacts
    <3>2. held'[w] = Merge(held[w], Copies(users(w[2])))
      BY <2>1, <2>8
    <3> DEFINE S == users(w[2])
    <3>3. S \in SUBSET Account
      BY <2>3, <3>1
    <3> HIDE DEF S
    <3>4. /\ Copies(S) \in UserMap /\ DOMAIN Copies(S) = S /\ held[w] \in UserMap
          /\ \A a \in S : Copies(S)[a] = scan[a]
      BY <1>1, <3>3, CopiesFacts
    <3>5. held'[w] = Merge(held[w], Copies(S))
      BY <3>2 DEF S
    <3>6. DOMAIN Merge(held[w], Copies(S)) = DOMAIN held[w] \cup S
      BY <3>4 DEF Merge
    <3>7. DOMAIN held'[w] = DOMAIN held[w] \cup users(w[2])
      BY <3>5, <3>6 DEF S
    <3>8. QED
      BY <3>4, <3>5, <3>7, MergeFacts
  <2>9. \A w \in Thread : w[1] # 0 => held'[w] = held[w]
    BY <2>1
  <2>10. held' \in [Thread -> UserMap]
    <3>1. held' = [w \in Thread |-> held'[w]]
      BY <2>1
    <3>2. \A w \in Thread : held'[w] \in UserMap
      BY <1>1, <2>8, <2>9
    <3> HIDE DEF UserMap
    <3>3. QED
      BY <3>1, <3>2
  <2>21. given' \in [Conn -> SUBSET Account] /\ \A c \in Conn : given[c] \subseteq given'[c]
    <3>1. ASSUME NEW c \in remote PROVE users(Locals + Position(R, c)) \in SUBSET Account
      <4>1. Position(R, c) \in 1..Len(R)
        BY <1>1, PositionFacts
      <4>2. Locals + Position(R, c) \in 1..Locals + Len(R)
        BY <1>6, <4>1
      <4>3. QED
        BY <2>3, <4>2
    <3>2. given \in [Conn -> SUBSET Account]
      BY DEF RemoteTypes
    <3>3. QED
      BY <2>1, <3>1, <3>2
  <2>11. Dealing
    <3>1. /\ srv' \in [Conn -> {"open", "closing", "gone"}]
          /\ \A c \in Conn : srv'[c] = "open" => srv[c] = "open"
          /\ wire' \in [Conn -> Seq(Command)]
          /\ \A c \in Conn : \A k \in DOMAIN wire'[c] :
               wire'[c][k] \in Fresh \/ (k \in DOMAIN wire[c] /\ wire'[c][k] = wire[c][k])
      BY <2>1, <2>5, WrittenFacts, ZenonT(60)
    <3>2. listed' \in SUBSET Account /\ next' \in Nat
      BY <1>1, <1>12, <2>1
    <3>3. QED
      BY <2>8, <2>9, <2>10, <2>21, <3>1, <3>2, Zenon DEF Dealing
  <2>12. TurnAt(next', Locals, WeightsOf(remote, threads))
    <3>1. TurnAt(next', Locals, ThreadsIn(R, threads))
      BY <1>12, <2>1 DEF rem
    <3>2. QED
      BY <1>1, <3>1, TurnsAgree
  <2>13. dead' \in BOOLEAN
    BY <2>1 DEF RemoteTypes
  <2>14. \A c \in Conn : srv'[c] = "open" => wire'[c] = wire[c] \o ms[c]
    BY <2>1, <2>11 DEF Written, Dealing
  <2>15. \A c \in Conn : wire[c] \in Seq(Command) /\ ms[c] \in Seq(Command)
    <3>1. \A c \in Conn : ms[c] \in Seq(Fresh)
      BY <2>5
    <3>2. Fresh \subseteq Command
      BY DEF Fresh
    <3>3. wire \in [Conn -> Seq(Command)]
      BY DEF RemoteTypes
    <3> HIDE DEF Fresh, Command
    <3>4. QED
      BY <3>1, <3>2, <3>3, LenProperties, ElementOfSeq
  <2>16. ASSUME NEW a \in NewUsers PROVE GivenTo(a)
    <3>1. CASE a \notin all
      <4>1. left' = left \cup (NewUsers \ all)
        BY <2>1, Zenon
      <4>2. a \in left'
        BY <3>1, <4>1
      <4>3. QED
        BY <4>2 DEF GivenTo
    <3> SUFFICES ASSUME a \in all PROVE GivenTo(a)
      BY <3>1
    <3>2. PICK i \in 1..Locals + Len(R) : a \in users(i)
      BY <2>4
    <3>3. CASE i <= Locals
      <4> DEFINE w == <<0, i>>
      <4>1. w \in Thread /\ w[1] = 0 /\ w[2] = i
        BY <1>6, <3>3 DEF Thread
      <4> HIDE DEF w
      <4>2. a \in DOMAIN held'[w]
        BY <2>8, <3>2, <4>1
      <4>3. QED
        BY <4>1, <4>2 DEF GivenTo
    <3>4. CASE ~ i <= Locals
      <4> DEFINE j == i - Locals
                 c == R[j]
      <4>1. j \in 1..Len(R) /\ Locals + j = i
        BY <1>6, <3>4
      <4> HIDE DEF j
      <4>2. c \in remote /\ Position(R, c) = j
        BY <1>1, <4>1, PlaceFacts
      <4> HIDE DEF c
      <4>3. SUFFICES ASSUME srv'[c] = "open" PROVE InWire(a, wire'[c])
        <5>1. remote' = remote
          BY DEF check_users_push
        <5>2. a \in given'[c]
          BY <1>1, <2>1, <3>2, <4>1, <4>2
        <5>3. QED
          BY <4>2, <5>1, <5>2 DEF GivenTo
      <4>4. PICK k \in DOMAIN dealt.out[i] : a \in ToSet(dealt.out[i][k])
        BY <2>4, <3>2
      <4> DEFINE m == PushAccounts(Sent(dealt.out[i][k]))
      <4>5. k \in DOMAIN ms[c] /\ ms[c][k] = m
        BY <2>6, <4>1, <4>2, <4>4
      <4>6. a \in Names(m)
        BY <2>2, <4>4, SentNames
      <4> HIDE DEF m
      <4>7. InWire(a, ms[c])
        <5>1. c \in Conn
          BY <1>1, <4>2
        <5>2. QED
          BY <2>7, <4>5, <4>6, <5>1 DEF InWire, Lasts
      <4>8. QED
        BY <1>1, <2>14, <2>15, <4>2, <4>3, <4>7, ConcatWires
    <3>5. QED
      BY <3>3, <3>4
  <2>17. ASSUME NEW c \in Conn, srv'[c] = "open"
         PROVE  /\ \A a : InWire(a, wire[c]) => InWire(a, wire'[c])
                /\ Lasts(wire[c], 0) => Lasts(wire'[c], 0)
    <3> HIDE DEF Command
    <3> QED BY <2>7, <2>14, <2>15, <2>17, ConcatWires
  <2>18. \A w \in Thread : DOMAIN held[w] \subseteq DOMAIN held'[w]
    <3>1. \A w \in Thread : w[1] = 0 => DOMAIN held[w] \subseteq DOMAIN held'[w]
      BY <2>8
    <3>2. QED
      BY <2>9, <3>1
  <2>19. Pushing
    <3>1. listed' = active /\ left \subseteq left'
      BY <2>1
    <3>2. QED
      BY <2>16, <2>17, <2>18, <2>21, <3>1 DEF Pushing
  <2>20. QED
    BY <2>11, <2>12, <2>13, <2>19
<1>15. QED
  BY <1>13, <1>14

-----------------------------------------------------------------------------
(* The types.                                                              *)

\* What is left of the commands and the updates.
LEMMA TailTypes ==
  ASSUME NEW X, NEW f \in [Conn -> Seq(X)], NEW c \in Conn, f[c] # << >>
  PROVE  /\ Head(f[c]) \in X /\ Head(f[c]) = f[c][1] /\ 1 \in DOMAIN f[c]
         /\ [f EXCEPT ![c] = Tail(@)] \in [Conn -> Seq(X)]
         /\ Len(f[c]) \in Nat /\ Len(Tail(f[c])) = Len(f[c]) - 1
         /\ DOMAIN f[c] = 1..Len(f[c]) /\ DOMAIN Tail(f[c]) = 1..Len(f[c]) - 1
         /\ \A k \in 1..Len(f[c]) - 1 : Tail(f[c])[k] = f[c][k + 1]
<1> DEFINE q == f[c]
<1>1. q \in Seq(X) /\ q # << >>
  OBVIOUS
<1> HIDE DEF q
<1>2. /\ Head(q) \in X /\ Head(q) = q[1] /\ Tail(q) \in Seq(X) /\ Len(Tail(q)) = Len(q) - 1
      /\ \A k \in 1..Len(Tail(q)) : Tail(q)[k] = q[k + 1]
  BY <1>1, HeadTailProperties
<1>3. Len(q) \in Nat /\ Len(q) # 0 /\ DOMAIN q = 1..Len(q) /\ DOMAIN Tail(q) = 1..Len(Tail(q))
  BY <1>1, <1>2, LenProperties, EmptySeq
<1>4. 1 \in DOMAIN q
  BY <1>3
<1>5. [f EXCEPT ![c] = Tail(q)] \in [Conn -> Seq(X)]
  BY <1>2
<1>6. QED
  BY <1>2, <1>3, <1>4, <1>5 DEF q

\* What is sent up.
LEMMA ReportTypes ==
  /\ \A ok \in BOOLEAN : Initialize(ok) \in Report
  /\ \A u \in UserMap, last \in Nat : UpdateAccounts(u, last) \in Report
  /\ \A m \in Report : m.users \in UserMap /\ m.last \in Nat
  /\ \A m \in Report : m.op = "initialize" => m.users = NoUsers
<1>1. \A ok \in BOOLEAN : Initialize(ok) \in Report
  <2> TAKE ok \in BOOLEAN
  <2>1. [op |-> "initialize", ok |-> ok, users |-> NoUsers, last |-> 0]
          \in [op : {"initialize"}, ok : BOOLEAN, users : {NoUsers}, last : {0}]
    BY Zenon
  <2>2. QED
    BY <2>1, Zenon DEF Initialize, Report
<1>2. \A u \in UserMap, last \in Nat : UpdateAccounts(u, last) \in Report
  BY DEF UpdateAccounts, Report
<1> DEFINE I == [op : {"initialize"}, ok : BOOLEAN, users : {NoUsers}, last : {0}]
           U == [op : {"update"}, ok : {TRUE}, users : UserMap, last : Nat]
<1>3. ASSUME NEW m \in I
      PROVE  m.users \in UserMap /\ m.last \in Nat /\ m.users = NoUsers
  <2>1. m.users \in {NoUsers} /\ m.last \in {0}
    BY Zenon
  <2>2. QED
    BY <2>1, NoUsersFacts
<1>4. ASSUME NEW m \in U
      PROVE  m.users \in UserMap /\ m.last \in Nat /\ m.op # "initialize"
  <2>1. m.users \in UserMap /\ m.last \in Nat /\ m.op \in {"update"}
    BY Zenon
  <2>2. QED
    BY <2>1
<1>5. Report = I \cup U
  BY Zenon DEF Report
<1> HIDE DEF I, U
<1>6. \A m \in Report : /\ m.users \in UserMap /\ m.last \in Nat
                        /\ m.op = "initialize" => m.users = NoUsers
  BY <1>3, <1>4, <1>5
<1>7. QED
  BY <1>1, <1>2, <1>6

\* What comes down.
LEMMA CommandTypes ==
  \A m \in Command : /\ m.users \in Seq([id : Account, height : Nat])
                     /\ \A i \in DOMAIN m.users : m.users[i].id \in Account /\ m.users[i].height \in Nat
<1>1. ASSUME NEW m \in Command PROVE m.users \in Seq([id : Account, height : Nat])
  BY DEF Command
<1>2. ASSUME NEW q \in Seq([id : Account, height : Nat]), NEW i \in DOMAIN q
      PROVE  q[i].id \in Account /\ q[i].height \in Nat
  <2>1. q[i] \in [id : Account, height : Nat]
    BY LenProperties, ElementOfSeq
  <2>2. QED
    BY <2>1
<1>3. QED
  BY <1>1, <1>2

\* A scanner's threads: each account of a command goes to one of them.
LEMMA DealtPositions ==
  ASSUME NEW n \in Nat, NEW t \in Nat, NEW i \in 1..t
  PROVE  ByCount(n, t)[i] \in SUBSET (1..n)
<1>1. t \in Nat \ {0}
  OBVIOUS
<1>2. UNION {ByCount(n, t)[k] : k \in 1..t} = 1..n
  BY <1>1, CountAlwaysDealt DEF CountDealt
<1>3. QED
  BY <1>2

\* The threads of a scanner's process go, with their accounts.
LEMMA DropTypes ==
  ASSUME RemoteTypes, NEW c \in Conn
  PROVE  /\ Dropped(c) \in [Thread -> UserMap]
         /\ \A w \in Thread : Dropped(c)[w] = IF w[1] # 0 /\ Process[w[1]] = Process[c]
                                              THEN NoUsers ELSE held[w]
<1>1. held \in [Thread -> UserMap] /\ NoUsers \in UserMap
  BY NoUsersFacts DEF RemoteTypes
<1> HIDE DEF UserMap
<1>2. QED
  BY <1>1 DEF Dropped

\* The io_context of a process stops: its clients end, are left behind, or had
\* no threads; those of other processes have nothing to do with it.
Stopped(c) ==
  /\ held' = Dropped(c)
  /\ \A d \in Conn :
       \/ cli'[d] \in {"down", "late"} /\ wire'[d] = << >> /\ (cli[d] = "up" => Process[d] = Process[c])
       \/ /\ cli'[d] = "orphan" /\ cli[d] \in {"up", "orphan"}
          /\ wire'[d] = wire[d] /\ (cli[d] = "up" => Process[d] = Process[c])
       \/ /\ cli'[d] = cli[d] /\ wire'[d] = wire[d]
          /\ cli[d] = "up" => Process[d] # Process[c]

LEMMA ClientsStop ==
  ASSUME RemoteTypes, NEW c \in Conn, cleanup(c) \/ soft_stop(c) \/ exit(c)
  PROVE  /\ Stopped(c)
         /\ cli' \in [Conn -> {"up", "orphan", "late", "down"}]
         /\ wire' \in [Conn -> Seq(Command)] /\ held' \in [Thread -> UserMap]
<1>1. /\ cli \in [Conn -> {"up", "orphan", "late", "down"}] /\ wire \in [Conn -> Seq(Command)]
      /\ << >> \in Seq(Command)
  BY EmptySeq DEF RemoteTypes
<1> HIDE DEF Command
<1>2. held' = Dropped(c)
  BY DEF cleanup, soft_stop, exit
<1>3. /\ LeftBehind(c) \in [Conn -> {"up", "orphan", "late", "down"}]
      /\ \A d \in Conn : LeftBehind(c)[d] = IF Process[d] = Process[c] /\ cli[d] = "up"
                                           THEN "orphan" ELSE cli[d]
  BY <1>1 DEF LeftBehind
<1>4. CASE cleanup(c)
  <2>1. PICK end \in {"down", "late"} : cli' = [LeftBehind(c) EXCEPT ![c] = end]
    BY <1>4 DEF cleanup
  <2>2. wire' = [wire EXCEPT ![c] = << >>]
    BY <1>4 DEF cleanup
  <2>3. ASSUME NEW d \in Conn, d # c
        PROVE  wire'[d] = wire[d] /\ cli'[d] = LeftBehind(c)[d]
    BY <1>1, <1>3, <2>1, <2>2, <2>3
  <2>4. cli'[c] \in {"down", "late"} /\ wire'[c] = << >>
    BY <1>1, <1>3, <2>1, <2>2
  <2>5. /\ cli' \in [Conn -> {"up", "orphan", "late", "down"}]
        /\ wire' \in [Conn -> Seq(Command)]
    BY <1>1, <1>3, <2>1, <2>2
  <2>6. Stopped(c)
    BY <1>2, <1>3, <2>3, <2>4 DEF Stopped
  <2>7. QED
    BY <1>2, <2>5, <2>6, DropTypes
<1>5. CASE soft_stop(c)
  <2>1. cli' = LeftBehind(c) /\ wire' = wire
    BY <1>5 DEF soft_stop
  <2>2. Stopped(c)
    BY <1>2, <1>3, <2>1 DEF Stopped
  <2>3. QED
    BY <1>1, <1>2, <1>3, <2>1, <2>2, DropTypes
<1>6. CASE exit(c)
  <2>1. /\ cli' = [d \in Conn |-> IF Process[d] = Process[c] THEN "down" ELSE cli[d]]
        /\ wire' = [d \in Conn |-> IF Process[d] = Process[c] THEN << >> ELSE wire[d]]
    BY <1>6 DEF exit
  <2>2. Stopped(c)
    BY <1>2, <2>1 DEF Stopped
  <2>3. QED
    BY <1>1, <1>2, <2>1, <2>2, DropTypes
<1>7. QED
  BY <1>4, <1>5, <1>6

\* Everything is closed.
LEMMA StopTypes ==
  ASSUME RemoteTypes, do_stop
  PROVE  /\ running' = FALSE /\ remote' = {} /\ srv' = [c \in Conn |-> "gone"]
         /\ srv' \in [Conn -> {"open", "closing", "gone"}]
         /\ held' \in [Thread -> UserMap]
         /\ UNCHANGED <<dead, listed, next, threads, given>>
         /\ \A w \in Thread : held'[w] = IF w[1] = 0 THEN NoUsers ELSE held[w]
<1>1. held \in [Thread -> UserMap] /\ NoUsers \in UserMap
  BY NoUsersFacts DEF RemoteTypes
<1> HIDE DEF UserMap
<1>2. QED
  BY <1>1 DEF do_stop

\* The positions of a thread of a scanner in a command for all of them.
LEMMA ScannerThread ==
  ASSUME NEW c \in Conn, NEW w \in Thread, w[1] = c, NEW X, NEW s \in Seq(X)
  PROVE  ByCount(Len(s), RemoteThreads[c])[w[2]] \in SUBSET DOMAIN s
<1>1. Len(s) \in Nat /\ DOMAIN s = 1..Len(s)
  BY LenProperties
<1>2. RemoteThreads[c] \in Nat /\ c # 0
  BY RemoteAssumption DEF Conn
<1>3. w[2] \in 1..RemoteThreads[c]
  BY <1>2, ThreadFacts
<1>4. QED
  BY <1>1, <1>2, <1>3, DealtPositions

\* The accounts of a local thread when the scanner starts.
LEMMA LocalThread ==
  ASSUME active \in SUBSET Account, NEW s \in ByHeight(active), NEW w \in Thread, w[1] = 0
  PROVE  {s[p] : p \in ByCount(Len(s), Locals)[w[2]]} \in SUBSET Account
<1>1. s \in Seq(Account)
  BY OrderTypes DEF ByHeight
<1>2. Len(s) \in Nat /\ \A p \in 1..Len(s) : s[p] \in Account
  BY <1>1, LenProperties, ElementOfSeq
<1>3. w[2] \in 1..Locals /\ Locals \in Nat
  BY ThreadFacts, RemoteAssumption
<1>4. ByCount(Len(s), Locals)[w[2]] \in SUBSET (1..Len(s))
  BY <1>2, <1>3, DealtPositions
<1>5. QED
  BY <1>2, <1>4

\* Each operation keeps the types.
LEMMA TypesKept ==
  ASSUME RemoteTypes, TurnInv, Next \/ UNCHANGED vars
  PROVE  RemoteTypes'
<1>0. /\ active \in SUBSET Account /\ listed \in SUBSET Account
      /\ scan \in [Account -> Nat] /\ tip \in Nat /\ ops \in Nat /\ rescans \in BOOLEAN
      /\ running \in BOOLEAN /\ dead \in BOOLEAN
      /\ remote \in SUBSET Conn /\ next \in Nat
      /\ srv \in [Conn -> {"open", "closing", "gone"}]
      /\ cli \in [Conn -> {"up", "orphan", "late", "down"}] /\ given \in [Conn -> SUBSET Account]
      /\ threads \in [Conn -> Nat] /\ push_to \in [Conn -> Nat]
      /\ wire \in [Conn -> Seq(Command)] /\ up \in [Conn -> Seq(Report)]
      /\ held \in [Thread -> UserMap]
  BY DEF RemoteTypes
<1>1. CASE Mine
  BY <1>0, <1>1 DEF Mine, RemoteTypes, server_vars, client_vars
<1>2. ASSUME NEW a \in Account, activate(a) PROVE RemoteTypes'
  BY <1>0, <1>2 DEF activate, Op, RemoteTypes, server_vars, client_vars
<1>3. ASSUME NEW a \in Account, deactivate(a) PROVE RemoteTypes'
  BY <1>0, <1>3 DEF deactivate, Op, RemoteTypes, server_vars, client_vars
<1>4. ASSUME NEW a \in Account, rescan(a) PROVE RemoteTypes'
  BY <1>0, <1>4 DEF rescan, Op, RemoteTypes, server_vars, client_vars
<1>5. CASE check_users_replace
  <2>1. do_replace_users(threads) /\ UNCHANGED <<db_vars, running, dead, threads, client_vars, up>>
    BY <1>5 DEF check_users_replace
  <2>2. Dealing /\ remote' = Alive(remote)
    BY <1>0, <2>1, ReplaceDeals
  <2>3. remote' \in SUBSET Conn
    BY <1>0, <2>2 DEF Alive
  <2>4. QED
    BY <1>0, <2>1, <2>2, <2>3 DEF Dealing, RemoteTypes, db_vars, client_vars
<1>6. CASE check_users_push
  <2>1. UNCHANGED <<db_vars, running, remote, threads, client_vars, up>>
    BY <1>6 DEF check_users_push
  <2>2. Dealing /\ dead' \in BOOLEAN
    BY <1>6, PushDeals
  <2>3. QED
    BY <1>0, <2>1, <2>2 DEF Dealing, RemoteTypes, db_vars, client_vars
<1>7. ASSUME NEW c \in Conn, connect(c) PROVE RemoteTypes'
  <2>1. PICK ok \in BOOLEAN : up' = [up EXCEPT ![c] = <<Initialize(ok)>>]
    BY <1>7 DEF connect
  <2>2. up' \in [Conn -> Seq(Report)]
    <3>1. Initialize(ok) \in Report
      BY ReportTypes
    <3>2. <<Initialize(ok)>> \in Seq(Report)
      BY <3>1
    <3>3. QED
      BY <1>0, <2>1, <3>2
  <2>3. wire' \in [Conn -> Seq(Command)]
    BY <1>0, <1>7, EmptySeq DEF connect
  <2>4. cli' \in [Conn -> {"up", "orphan", "late", "down"}] /\ given' \in [Conn -> SUBSET Account]
    BY <1>0, <1>7 DEF connect
  <2>5. QED
    BY <1>0, <1>7, <2>2, <2>3, <2>4 DEF connect, RemoteTypes, db_vars
<1>8. ASSUME NEW c \in Conn, initialize(c) PROVE RemoteTypes'
  <2>1. up' \in [Conn -> Seq(Report)]
    BY <1>0, <1>8, TailTypes DEF initialize, Reads
  <2>2. UNCHANGED <<db_vars, running, dead, client_vars>>
    BY <1>8 DEF initialize
  <2>3. CASE Head(up[c]).ok
    <3>1. threads' = [threads EXCEPT ![c] = RemoteThreads[c]]
          /\ do_replace_users([threads EXCEPT ![c] = RemoteThreads[c]])
      BY <1>8, <2>3 DEF initialize
    <3>2. [threads EXCEPT ![c] = RemoteThreads[c]] \in [Conn -> Nat]
      BY <1>0, RemoteAssumption DEF Conn
    <3>3. Dealing /\ remote' = Alive(remote)
      BY <3>1, <3>2, ReplaceDeals
    <3>4. remote' \in SUBSET Conn
      BY <1>0, <3>3 DEF Alive
    <3>5. QED
      BY <1>0, <2>1, <2>2, <3>1, <3>2, <3>3, <3>4 DEF Dealing, RemoteTypes, db_vars, client_vars
  <2>4. CASE ~ Head(up[c]).ok
    <3>1. /\ srv' = [srv EXCEPT ![c] = "gone"]
          /\ UNCHANGED <<threads, remote, wire, next, listed, left, given, held>>
      BY <1>8, <2>4 DEF initialize
    <3>2. QED
      BY <1>0, <2>1, <2>2, <3>1 DEF RemoteTypes, db_vars, client_vars
  <2>5. QED
    BY <2>3, <2>4
<1>9. ASSUME NEW c \in Conn, update_accounts(c) PROVE RemoteTypes'
  <2>1. up' \in [Conn -> Seq(Report)] /\ Head(up[c]) \in Report
    BY <1>0, <1>9, TailTypes DEF update_accounts, Reads
  <2>2. scan' \in [Account -> Nat]
    BY <1>0, <1>9, <2>1, ReportTypes, StoredFacts DEF update_accounts
  <2>3. UNCHANGED <<active, tip, ops, rescans, client_vars, wire>>
    BY <1>9 DEF update_accounts
  <2>4. CASE UNCHANGED <<server_vars, held>>
    BY <1>0, <2>1, <2>2, <2>3, <2>4 DEF RemoteTypes, server_vars, client_vars
  <2>5. CASE do_stop
    BY <1>0, <2>1, <2>2, <2>3, <2>5, StopTypes DEF RemoteTypes, client_vars
  <2>6. QED
    BY <1>9, <2>4, <2>5 DEF update_accounts
<1>10. ASSUME NEW c \in Conn, lost(c) PROVE RemoteTypes'
  BY <1>0, <1>10 DEF lost, Op, RemoteTypes, client_vars
<1>11. ASSUME NEW c \in Conn, end_of_stream(c) PROVE RemoteTypes'
  BY <1>0, <1>11 DEF end_of_stream, RemoteTypes, client_vars, db_vars
<1>12. ASSUME NEW c \in Conn, release(c) PROVE RemoteTypes'
  BY <1>0, <1>12, EmptySeq DEF release, RemoteTypes, client_vars, db_vars
<1>13. ASSUME NEW c \in Conn, push_accounts(c) PROVE RemoteTypes'
  <2> DEFINE s == Head(wire[c]).users
             mine(w) == {i \in DOMAIN s : ((push_to[c] + i - 1) % RemoteThreads[c]) + 1 = w[2]}
  <2>1. wire' \in [Conn -> Seq(Command)] /\ s \in Seq([id : Account, height : Nat])
    <3>1. Head(wire[c]) \in Command
      BY <1>0, <1>13, TailTypes DEF push_accounts
    <3>2. QED
      BY <1>0, <1>13, <3>1, TailTypes, CommandTypes DEF push_accounts
  <2>2. held' = [w \in Thread |-> IF w[1] = c /\ cli[c] = "up"
                                  THEN Merge(held[w], Users(s, mine(w))) ELSE held[w]]
    BY <1>13, Zenon DEF push_accounts
  <2>3. \A w \in Thread : mine(w) \in SUBSET DOMAIN s
    OBVIOUS
  <2>4. push_to' \in [Conn -> Nat]
    <3>1. Len(s) \in Nat /\ RemoteThreads[c] \in Nat \ {0} /\ push_to[c] \in Nat
      BY <1>0, <2>1, LenProperties, RemoteAssumption DEF Conn
    <3>2. push_to' = [push_to EXCEPT ![c] = (push_to[c] + Len(s)) % RemoteThreads[c]]
      BY <1>13 DEF push_accounts
    <3>3. (push_to[c] + Len(s)) % RemoteThreads[c] \in Nat
      <4> HIDE DEF s
      <4> QED BY <3>1
    <3> HIDE DEF s
    <3>4. QED
      BY <1>0, <3>2, <3>3
  <2> HIDE DEF s, mine
  <2>5. \A w \in Thread : Users(s, mine(w)) \in UserMap
    BY <2>1, <2>3, UsersFacts
  <2>6. held' \in [Thread -> UserMap]
    <3>1. \A w \in Thread : Merge(held[w], Users(s, mine(w))) \in UserMap
      BY <1>0, <2>5, MergeFacts
    <3> HIDE DEF UserMap
    <3>2. QED
      BY <1>0, <2>2, <3>1
  <2>7. QED
    BY <1>0, <1>13, <2>1, <2>4, <2>6 DEF push_accounts, RemoteTypes, db_vars, server_vars
<1>14. ASSUME NEW c \in Conn, replace_accounts(c) PROVE RemoteTypes'
  <2> DEFINE s == Head(wire[c]).users
             to == ByCount(Len(s), RemoteThreads[c])
  <2>1. wire' \in [Conn -> Seq(Command)] /\ s \in Seq([id : Account, height : Nat])
    <3>1. Head(wire[c]) \in Command
      BY <1>0, <1>14, TailTypes DEF replace_accounts
    <3>2. QED
      BY <1>0, <1>14, <3>1, TailTypes, CommandTypes DEF replace_accounts
  <2>2. /\ held' = [w \in Thread |-> IF w[1] = c /\ cli[c] = "up"
                                     THEN Users(s, to[w[2]]) ELSE held[w]]
        /\ push_to' = [push_to EXCEPT ![c] = 0]
    BY <1>14 DEF replace_accounts
  <2>3. ASSUME NEW w \in Thread, w[1] = c PROVE to[w[2]] \in SUBSET DOMAIN s
    BY <2>1, <2>3, ScannerThread
  <2> HIDE DEF s, to
  <2>4. \A w \in Thread : w[1] = c => Users(s, to[w[2]]) \in UserMap
    BY <2>1, <2>3, UsersFacts
  <2>5. held' \in [Thread -> UserMap]
    <3> HIDE DEF UserMap
    <3>1. QED
      BY <1>0, <2>2, <2>4
  <2>6. QED
    BY <1>0, <1>14, <2>1, <2>2, <2>5 DEF replace_accounts, RemoteTypes, db_vars, server_vars
<1>15. ASSUME NEW c \in Conn, send_update(c) PROVE RemoteTypes'
  <2>1. PICK w \in Thread, last \in 1..MaxTip :
          /\ w[1] = c
          /\ \/ cleanup(c) /\ UNCHANGED up
             \/ /\ up' = [up EXCEPT ![c] = Append(@, UpdateAccounts(held[w], last))]
                /\ held' = [held EXCEPT ![w] = Advanced(@, last)]
                /\ UNCHANGED <<cli, wire>>
    BY <1>15, Zenon DEF send_update
  <2>2. UNCHANGED <<db_vars, server_vars, push_to>>
    BY <1>15 DEF send_update
  <2>3. CASE cleanup(c) /\ UNCHANGED up
    BY <1>0, <2>2, <2>3, ClientsStop DEF RemoteTypes, db_vars, server_vars
  <2>4. CASE /\ up' = [up EXCEPT ![c] = Append(@, UpdateAccounts(held[w], last))]
             /\ held' = [held EXCEPT ![w] = Advanced(@, last)]
             /\ UNCHANGED <<cli, wire>>
    <3>1. last \in Nat
      BY RemoteAssumption
    <3>2. UpdateAccounts(held[w], last) \in Report
      BY <1>0, <3>1, ReportTypes
    <3>3. Append(up[c], UpdateAccounts(held[w], last)) \in Seq(Report)
      BY <1>0, <3>2, AppendProperties
    <3>4. up' \in [Conn -> Seq(Report)]
      BY <1>0, <2>4, <3>3
    <3>5. Advanced(held[w], last) \in UserMap
      BY <1>0, <3>1, AdvancedFacts
    <3>6. held' \in [Thread -> UserMap]
      <4> HIDE DEF UserMap
      <4>1. QED
        BY <1>0, <2>4, <3>5
    <3>7. QED
      BY <1>0, <2>2, <2>4, <3>4, <3>6 DEF RemoteTypes, db_vars, server_vars
  <2>5. QED
    BY <2>1, <2>3, <2>4
<1>16. ASSUME NEW c \in Conn, disconnect(c) \/ soft_stop(c) \/ exit(c) PROVE RemoteTypes'
  <2>1. ops' \in Nat
    BY <1>0, <1>16 DEF disconnect, soft_stop, exit, Op, db_vars
  <2>2. cleanup(c) \/ soft_stop(c) \/ exit(c)
    BY <1>16 DEF disconnect
  <2>3. /\ cli' \in [Conn -> {"up", "orphan", "late", "down"}]
        /\ wire' \in [Conn -> Seq(Command)] /\ held' \in [Thread -> UserMap]
    BY <2>2, ClientsStop
  <2>4. UNCHANGED <<active, scan, tip, rescans, server_vars, push_to, up>>
    BY <1>16 DEF disconnect, soft_stop, exit, db_vars
  <2>5. QED
    BY <1>0, <2>1, <2>3, <2>4 DEF RemoteTypes, server_vars
<1>17. ASSUME NEW i \in 1..Locals, local_scan(i) PROVE RemoteTypes'
  <2> DEFINE u == held[<<0, i>>]
  <2>1. <<0, i>> \in Thread
    BY DEF Thread
  <2>2. PICK last \in 1..MaxTip :
          /\ scan' = StoredHeights(u, last)
          /\ \/ held' = [held EXCEPT ![<<0, i>>] = Advanced(u, last)] /\ UNCHANGED server_vars
             \/ do_stop
    BY <1>17, Zenon DEF local_scan
  <2>3. UNCHANGED <<active, tip, ops, rescans, client_vars, wire, up>>
    BY <1>17 DEF local_scan
  <2>4. last \in Nat /\ u \in UserMap
    BY <1>0, <2>1, RemoteAssumption
  <2> HIDE DEF u
  <2>5. scan' \in [Account -> Nat] /\ Advanced(u, last) \in UserMap
    BY <1>0, <2>2, <2>4, StoredFacts, AdvancedFacts
  <2>6. CASE held' = [held EXCEPT ![<<0, i>>] = Advanced(u, last)] /\ UNCHANGED server_vars
    <3>1. held' \in [Thread -> UserMap]
      <4> HIDE DEF UserMap
      <4>1. QED
        BY <1>0, <2>5, <2>6
    <3>2. QED
      BY <1>0, <2>3, <2>5, <2>6, <3>1 DEF RemoteTypes, server_vars, client_vars
  <2>7. CASE do_stop
    BY <1>0, <2>3, <2>5, <2>7, StopTypes DEF RemoteTypes, client_vars
  <2>8. QED
    BY <2>2, <2>6, <2>7
<1>18. CASE check_loop
  <2>1. PICK s \in ByHeight(active) :
          held' = [w \in Thread |->
                    IF w[1] = 0 THEN Copies({s[p] : p \in ByCount(Len(s), Locals)[w[2]]}) ELSE held[w]]
    BY <1>18 DEF check_loop
  <2>2. \A w \in Thread : w[1] = 0 => {s[p] : p \in ByCount(Len(s), Locals)[w[2]]} \in SUBSET Account
    BY <1>0, LocalThread
  <2>3. held' \in [Thread -> UserMap]
    <3>1. \A w \in Thread : w[1] = 0 => Copies({s[p] : p \in ByCount(Len(s), Locals)[w[2]]}) \in UserMap
      BY <1>0, <2>2, CopiesFacts
    <3> HIDE DEF UserMap
    <3>2. QED
      BY <1>0, <2>1, <3>1
  <2>4. QED
    BY <1>0, <1>18, <2>3 DEF check_loop, RemoteTypes, db_vars, client_vars
<1>19. CASE UNCHANGED vars
  BY <1>0, <1>19 DEF RemoteTypes, vars, db_vars, server_vars, client_vars
<1>20. QED
  BY <1>1, <1>2, <1>3, <1>4, <1>5, <1>6, <1>7, <1>8, <1>9, <1>10, <1>11, <1>12, <1>13, <1>14,
     <1>15, <1>16, <1>17, <1>18, <1>19, Zenon DEF Next

-----------------------------------------------------------------------------
(* The turns.                                                              *)

\* Each operation leaves next_thread_ at a turn.
LEMMA TurnKept ==
  ASSUME RemoteTypes, TurnInv, Next \/ UNCHANGED vars
  PROVE  TurnInv'
<1>0. /\ remote \in SUBSET Conn /\ threads \in [Conn -> Nat] /\ next \in Nat
      /\ srv \in [Conn -> {"open", "closing", "gone"}] /\ running \in BOOLEAN
  BY DEF RemoteTypes
<1>1. /\ \A c \in Conn : srv[c] = "open" => c \in remote
      /\ ~ running => remote = {}
      /\ Up /\ AnyThread(remote, threads) => TurnAt(next, Locals, WeightsOf(remote, threads))
  BY DEF TurnInv
<1>2. ASSUME UNCHANGED <<running, dead, remote, next, threads>>,
             \A c \in Conn : srv'[c] = "open" => srv[c] = "open"
      PROVE  TurnInv'
  BY <1>1, <1>2 DEF TurnInv, Up, AnyThread, WeightsOf
\* Dealing everything anew starts the turns over.
<1>3. ASSUME NEW th \in [Conn -> Nat], do_replace_users(th), threads' = th, Up,
             UNCHANGED <<running, dead>>
      PROVE  TurnInv'
  <2>1. /\ remote' = Alive(remote) /\ (AnyThread(remote', th) => next' = 0)
        /\ \A c \in Conn : srv'[c] = "open" => srv[c] = "open"
    BY <1>3, ReplaceDeals DEF Dealing
  <2>2. remote' \in SUBSET Conn
    BY <1>0, <2>1 DEF Alive
  <2>3. \A c \in Conn : srv'[c] = "open" => c \in remote'
    BY <1>1, <2>1 DEF Alive
  <2>4. running'
    BY <1>3 DEF Up
  <2>5. ASSUME AnyThread(remote', th) PROVE TurnAt(next', Locals, WeightsOf(remote', th))
    <3> DEFINE S == remote'
               W == WeightsOf(S, th)
    <3>1. W \in Seq(Nat) /\ Locals + ThreadsOf(W) > 0
      <4>1. Locals + ThreadsOf(W) > 0
        BY <1>3, <2>2, <2>5, AnyTotal
      <4>2. W \in [1..Conns -> Nat] /\ Conns \in Nat
        BY <1>3, RemoteAssumption DEF WeightsOf, Conn
      <4> HIDE DEF W
      <4>3. QED
        BY <4>1, <4>2
    <3> HIDE DEF W
    <3>2. TurnAt(0, Locals, W)
      BY <3>1, TurnBounds, RemoteAssumption
    <3>3. QED
      BY <2>1, <2>5, <3>2 DEF W
  <2>6. (AnyThread(remote, threads) => TurnAt(next, Locals, WeightsOf(remote, threads)))'
    BY <1>3, <2>5 DEF AnyThread, WeightsOf
  <2>7. QED
    BY <2>3, <2>4, <2>6 DEF TurnInv
\* Everything is closed.
<1>4. ASSUME do_stop PROVE TurnInv'
  <2>1. running' = FALSE /\ remote' = {} /\ srv' = [c \in Conn |-> "gone"]
    BY <1>4 DEF do_stop
  <2>2. ~ Up' /\ \A c \in Conn : srv'[c] # "open"
    BY <2>1 DEF Up
  <2>3. QED
    BY <2>1, <2>2 DEF TurnInv
<1>5. CASE Mine
  BY <1>2, <1>5 DEF Mine, server_vars
<1>6. ASSUME NEW a \in Account, activate(a) \/ deactivate(a) \/ rescan(a) PROVE TurnInv'
  BY <1>2, <1>6 DEF activate, deactivate, rescan, server_vars
<1>7. CASE check_users_replace
  BY <1>0, <1>3, <1>7 DEF check_users_replace
<1>8. CASE check_users_push
  <2>1. /\ Dealing
        /\ ~ dead' => TurnAt(next', Locals, WeightsOf(remote, threads))
    BY <1>8, PushDeals
  <2>2. UNCHANGED <<running, remote, threads>> /\ Up
    BY <1>8 DEF check_users_push
  <2>3. \A c \in Conn : srv'[c] = "open" => c \in remote'
    BY <1>1, <2>1, <2>2 DEF Dealing
  <2>4. ~ running' => remote' = {}
    BY <1>1, <2>2
  <2>5. (Up /\ AnyThread(remote, threads) => TurnAt(next, Locals, WeightsOf(remote, threads)))'
    BY <2>1, <2>2 DEF Up, WeightsOf
  <2>6. QED
    BY <2>3, <2>4, <2>5 DEF TurnInv
<1>9. ASSUME NEW c \in Conn, connect(c) PROVE TurnInv'
  <2>1. /\ remote' = remote \cup {c} /\ srv' = [srv EXCEPT ![c] = "open"]
        /\ threads' = [threads EXCEPT ![c] = 0] /\ c \notin remote
        /\ UNCHANGED <<running, dead, next>> /\ Up
    BY <1>9 DEF connect
  <2>2. WeightsOf(remote', threads') = WeightsOf(remote, threads)
    <3>1. ASSUME NEW d \in Conn
          PROVE  (IF d \in remote' THEN threads'[d] ELSE 0) = (IF d \in remote THEN threads[d] ELSE 0)
      BY <1>0, <2>1
    <3>2. QED
      BY <3>1 DEF WeightsOf
  <2>3. AnyThread(remote', threads') => AnyThread(remote, threads)
    BY <1>0, <2>1 DEF AnyThread
  <2>4. \A d \in Conn : srv'[d] = "open" => d \in remote'
    BY <1>0, <1>1, <2>1
  <2>5. running'
    BY <2>1 DEF Up
  <2>6. (AnyThread(remote, threads) => TurnAt(next, Locals, WeightsOf(remote, threads)))'
    <3>1. AnyThread(remote', threads') => TurnAt(next', Locals, WeightsOf(remote', threads'))
      BY <1>1, <2>1, <2>2, <2>3
    <3>2. QED
      BY <3>1 DEF AnyThread, WeightsOf
  <2>7. QED
    BY <2>4, <2>5, <2>6 DEF TurnInv
<1>10. ASSUME NEW c \in Conn, initialize(c) PROVE TurnInv'
  <2>1. Up /\ UNCHANGED <<running, dead>>
    BY <1>10 DEF initialize, Reads
  <2>2. CASE Head(up[c]).ok
    <3> DEFINE th == [threads EXCEPT ![c] = RemoteThreads[c]]
    <3>1. threads' = th /\ do_replace_users(th)
      BY <1>10, <2>2 DEF initialize
    <3>2. th \in [Conn -> Nat]
      BY <1>0, RemoteAssumption DEF Conn
    <3> HIDE DEF th
    <3>3. QED
      BY <1>3, <2>1, <3>1, <3>2
  <2>3. CASE ~ Head(up[c]).ok
    BY <1>0, <1>2, <1>10, <2>3 DEF initialize
  <2>4. QED
    BY <2>2, <2>3
<1>11. ASSUME NEW c \in Conn, update_accounts(c) PROVE TurnInv'
  BY <1>2, <1>4, <1>11 DEF update_accounts, server_vars
<1>12. ASSUME NEW c \in Conn, lost(c) \/ end_of_stream(c) \/ release(c) PROVE TurnInv'
  BY <1>0, <1>2, <1>12 DEF lost, end_of_stream, release
<1>13. ASSUME NEW c \in Conn,
              \/ push_accounts(c) \/ replace_accounts(c) \/ send_update(c)
              \/ disconnect(c) \/ soft_stop(c) \/ exit(c)
       PROVE  TurnInv'
  <2>1. UNCHANGED server_vars
    BY <1>13, Zenon DEF push_accounts, replace_accounts, send_update, disconnect, soft_stop, exit
  <2>2. QED
    BY <1>2, <2>1 DEF server_vars
<1>14. ASSUME NEW i \in 1..Locals, local_scan(i) PROVE TurnInv'
  BY <1>2, <1>4, <1>14 DEF local_scan, server_vars
<1>15. CASE check_loop
  <2>1. running' = TRUE /\ next' = 0 /\ UNCHANGED <<remote, srv, threads>> /\ ~ running
    BY <1>15 DEF check_loop
  <2>2. remote = {} /\ Locals \in Nat
    BY <1>1, <2>1, RemoteAssumption
  <2>3. (AnyThread(remote, threads) => TurnAt(next, Locals, WeightsOf(remote, threads)))'
    BY <2>1, <2>2 DEF AnyThread, TurnAt
  <2>4. QED
    BY <1>1, <2>1, <2>3 DEF TurnInv
<1>16. CASE UNCHANGED vars
  BY <1>2, <1>16 DEF vars, server_vars
<1>17. QED
  BY <1>5, <1>6, <1>7, <1>8, <1>9, <1>10, <1>11, <1>12, <1>13, <1>14, <1>15, <1>16, Zenon DEF Next

\* The types and the turns, in the first state.
LEMMA TurnInit ==
  ASSUME Init
  PROVE  RemoteTypes /\ TurnInv
<1>1. /\ scan \in [Account -> Nat] /\ srv \in [Conn -> {"open", "closing", "gone"}]
      /\ cli \in [Conn -> {"up", "orphan", "late", "down"}] /\ threads \in [Conn -> Nat]
      /\ push_to \in [Conn -> Nat] /\ given \in [Conn -> SUBSET Account]
  BY DEF Init
<1>2. wire \in [Conn -> Seq(Command)] /\ up \in [Conn -> Seq(Report)]
  BY EmptySeq DEF Init
<1>3. held \in [Thread -> UserMap]
  BY NoUsersFacts DEF Init
<1>4. RemoteTypes
  BY <1>1, <1>2, <1>3 DEF Init, RemoteTypes
<1>5. TurnInv
  BY DEF Init, TurnInv, Up
<1>6. QED
  BY <1>4, <1>5

\* The types of the variables, and that the connections and the turns of the
\* account server agree, in every state.
THEOREM TypesHold == Spec => [](RemoteTypes /\ TurnInv)
<1>1. Init => RemoteTypes /\ TurnInv
  BY TurnInit
<1>2. RemoteTypes /\ TurnInv /\ [Next]_vars => (RemoteTypes /\ TurnInv)'
  <2> SUFFICES ASSUME RemoteTypes /\ TurnInv, Next \/ UNCHANGED vars
               PROVE  RemoteTypes' /\ TurnInv'
    OBVIOUS
  <2>1. QED
    BY TypesKept, TurnKept
<1>3. QED
  BY <1>1, <1>2, PTL DEF Spec

\* InTurn: check_users finds a scanner whose turn it is among those that are
\* connected, for any number of local threads, scanners and their threads.
THEOREM TurnsFound == Spec => []InTurn
<1>1. RemoteTypes /\ TurnInv => InTurn
  <2> SUFFICES ASSUME RemoteTypes, TurnInv, Up, AnyThread(remote, threads),
                      NEW R \in Ordered(remote)
               PROVE  TurnAt(next, Locals, ThreadsIn(R, threads))
    BY DEF InTurn
  <2>1. remote \in SUBSET Conn /\ threads \in [Conn -> Nat]
    BY DEF RemoteTypes
  <2>2. TurnAt(next, Locals, WeightsOf(remote, threads))
    BY DEF TurnInv
  <2>3. QED
    BY <2>1, <2>2, TurnsAgree
<1>2. QED
  BY <1>1, TypesHold, PTL

-----------------------------------------------------------------------------
(* The copies.                                                             *)

\* A command that is under way, as WireUnder has it.
LEMMA WireHeights ==
  ASSUME RemoteTypes, WireUnder, NEW c \in Conn, NEW k \in DOMAIN wire[c]
  PROVE  /\ wire[c][k].users \in Seq([id : Account, height : Nat])
         /\ \A i \in DOMAIN wire[c][k].users :
              /\ wire[c][k].users[i].id \in Account /\ wire[c][k].users[i].height \in Nat
              /\ wire[c][k].users[i].height <= scan[wire[c][k].users[i].id]
<1>1. wire[c][k] \in Command
  BY LenProperties, ElementOfSeq DEF RemoteTypes
<1>2. QED
  BY <1>1, CommandTypes DEF WireUnder

\* When the heights of the database rise, what was below them still is, and
\* what followed still does.
LEMMA FollowsOn ==
  ASSUME NEW u \in UserMap, NEW h \in [Account -> Nat], NEW h2 \in [Account -> Nat],
         \A a \in Account : h[a] <= h2[a], NEW q \in Seq(Report), NEW k \in 0..Len(q)
  PROVE  /\ Under(u, h) => Under(u, h2)
         /\ Follows(u, h, q, k) => Follows(u, h2, q, k)
<1>1. \A a \in DOMAIN u : a \in Account /\ u[a] \in Nat /\ h[a] \in Nat /\ h2[a] \in Nat
  BY MapFacts
<1>2. Under(u, h) => Under(u, h2)
  BY <1>1 DEF Under
<1>3. Follows(u, h, q, k) => Follows(u, h2, q, k)
  BY <1>1 DEF Follows
<1>4. QED
  BY <1>2, <1>3

\* With one more update under way, copies follow those that they followed.
LEMMA FollowsMore ==
  ASSUME NEW u, NEW h, NEW X, NEW q \in Seq(X), NEW k \in 0..Len(q), Follows(u, h, q, k), NEW m
  PROVE  Follows(u, h, Append(q, m), k)
<1>1. Len(q) \in Nat
  BY LenProperties
<1>2. \A j \in 1..k : j \in 1..Len(q)
  BY <1>1
<1>3. \A j \in 1..k : Append(q, m)[j] = q[j]
  BY <1>1, <1>2
<1>4. QED
  BY <1>3 DEF Follows

\* When the first update has been stored, what followed the first k updates
\* follows the others.
LEMMA FollowsTail ==
  ASSUME NEW u \in UserMap, NEW h \in [Account -> Nat], NEW h2 \in [Account -> Nat],
         \A a \in Account : h[a] <= h2[a], NEW q \in Seq(Report), q # << >>,
         NEW k \in 1..Len(q), Follows(u, h, q, k),
         \A a \in DOMAIN q[1].users : q[1].last <= h2[a]
  PROVE  Follows(u, h2, Tail(q), k - 1)
<1>1. \A a \in DOMAIN u : a \in Account /\ u[a] \in Nat /\ h[a] \in Nat /\ h2[a] \in Nat
  BY MapFacts
<1>2. /\ Len(q) \in Nat /\ Len(Tail(q)) = Len(q) - 1
      /\ \A j \in 1..Len(q) - 1 : Tail(q)[j] = q[j + 1]
  BY LenProperties, HeadTailProperties
<1>3. \A j \in 1..Len(q) : q[j].last \in Nat
  BY <1>2, ElementOfSeq, ReportTypes
<1>4. SUFFICES ASSUME NEW a \in DOMAIN u, ~ u[a] <= h2[a]
               PROVE  \E j \in 1..k - 1 : a \in DOMAIN Tail(q)[j].users /\ u[a] <= Tail(q)[j].last
  BY DEF Follows
<1>5. ~ u[a] <= h[a]
  BY <1>1, <1>4
<1>6. PICK j \in 1..k : a \in DOMAIN q[j].users /\ u[a] <= q[j].last
  BY <1>5 DEF Follows
<1>7. j # 1
  <2>1. ASSUME j = 1 PROVE FALSE
    <3>1. q[1].last <= h2[a] /\ u[a] <= q[1].last
      BY <1>6, <2>1
    <3>2. q[1].last \in Nat
      BY <1>2, <1>3
    <3>3. QED
      BY <1>1, <1>4, <3>1, <3>2
  <2>2. QED
    BY <2>1
<1>8. j - 1 \in 1..k - 1 /\ j - 1 \in 1..Len(q) - 1 /\ j - 1 + 1 = j
  BY <1>2, <1>6, <1>7
<1>9. Tail(q)[j - 1] = q[j]
  BY <1>2, <1>8
<1>10. QED
  BY <1>6, <1>8, <1>9

\* Each operation keeps the copies in their bounds, and only check_loop and
\* do_stop turn check_loop on and off.
LEMMA CopiesKept ==
  ASSUME RemoteTypes, TurnInv, CopiesInv, Next \/ UNCHANGED vars
  PROVE  CopiesInv' /\ (running /\ ~ rescans => running')
<1> DEFINE Good == CopiesInv' /\ (running /\ ~ rescans => running')
<1>0. /\ scan \in [Account -> Nat] /\ rescans \in BOOLEAN /\ remote \in SUBSET Conn
      /\ srv \in [Conn -> {"open", "closing", "gone"}]
      /\ cli \in [Conn -> {"up", "orphan", "late", "down"}] /\ threads \in [Conn -> Nat]
      /\ wire \in [Conn -> Seq(Command)] /\ up \in [Conn -> Seq(Report)]
      /\ held \in [Thread -> UserMap]
  BY DEF RemoteTypes
<1>1. /\ RemoteTypes' /\ scan' \in [Account -> Nat] /\ held' \in [Thread -> UserMap]
      /\ up' \in [Conn -> Seq(Report)]
  <2>1. RemoteTypes'
    BY TypesKept
  <2>2. QED
    BY <2>1 DEF RemoteTypes
<1>2. ASSUME NEW a \in Account, rescan(a) PROVE Good
  BY <1>2 DEF rescan, CopiesInv, server_vars
<1>3. CASE rescans
  <2>1. rescans'
    BY <1>3, ZenonT(60) DEF Next, vars, db_vars, server_vars, client_vars, Mine, activate, deactivate,
      rescan, check_users_replace, check_users_push, connect, initialize, update_accounts, lost,
      end_of_stream, release, push_accounts, replace_accounts, send_update, disconnect, soft_stop,
      exit, local_scan, check_loop
  <2>2. QED
    BY <1>3, <2>1 DEF CopiesInv
<1> DEFINE Parts == LocalUnder' /\ WireUnder' /\ DownEmpty' /\ UpFollows'
<1>4. ASSUME Parts, running => running' PROVE Good
  BY <1>4 DEF CopiesInv
<1>5. ASSUME ~ rescans PROVE LocalUnder /\ WireUnder /\ DownEmpty /\ UpFollows
  BY <1>5 DEF CopiesInv
<1>6. \A c \in Conn : c # 0
  BY RemoteAssumption DEF Conn
\* Nothing that the copies are about changes.
<1>7. ASSUME ~ rescans, UNCHANGED <<scan, wire, held, up, cli>>,
             \A c \in Conn : srv'[c] = "open" => srv[c] = "open"
      PROVE  Parts
  <2>1. LocalUnder' /\ WireUnder' /\ DownEmpty'
    BY <1>5, <1>7 DEF LocalUnder, WireUnder, DownEmpty
  <2>2. UpFollows'
    BY <1>5, <1>7 DEF UpFollows
  <2>3. QED
    BY <2>1, <2>2
\* Accounts are dealt: only fresh copies come in.
<1>8. ASSUME ~ rescans, Dealing, UNCHANGED <<scan, cli>>
      PROVE  LocalUnder' /\ WireUnder' /\ DownEmpty'
  <2>1. LocalUnder'
    <3>1. ASSUME NEW w \in Thread, w[1] = 0 PROVE Under(held'[w], scan')
      <4>1. \A a \in DOMAIN held'[w] :
              held'[w][a] = scan[a] \/ (a \in DOMAIN held[w] /\ held'[w][a] = held[w][a])
        BY <1>8, <3>1 DEF Dealing
      <4>2. Under(held[w], scan)
        BY <1>5, <1>8, <3>1 DEF LocalUnder
      <4>3. \A a \in DOMAIN held'[w] : scan[a] \in Nat
        BY <1>0, <1>1, MapFacts
      <4>4. QED
        BY <1>8, <4>1, <4>2, <4>3 DEF Under
    <3>2. QED
      BY <3>1 DEF LocalUnder
  <2>2. WireUnder'
    <3>1. ASSUME NEW c \in Conn, NEW k \in DOMAIN wire'[c], NEW i \in DOMAIN wire'[c][k].users
          PROVE  wire'[c][k].users[i].height <= scan'[wire'[c][k].users[i].id]
      <4>1. CASE wire'[c][k] \in Fresh
        <5> DEFINE m == wire'[c][k]
        <5>1. m \in Command /\ m.users[i].height = scan[m.users[i].id]
          BY <4>1 DEF Fresh
        <5>2. m.users[i].height \in Nat
          BY <5>1, CommandTypes
        <5> HIDE DEF m
        <5>3. m.users[i].height <= scan[m.users[i].id]
          BY <5>1, <5>2
        <5>4. QED
          BY <1>8, <5>3 DEF m
      <4>2. CASE k \in DOMAIN wire[c] /\ wire'[c][k] = wire[c][k]
        BY <1>5, <1>8, <4>2 DEF WireUnder
      <4>3. QED
        BY <1>8, <4>1, <4>2 DEF Dealing
    <3>2. QED
      BY <3>1 DEF WireUnder
  <2>3. DownEmpty'
    BY <1>5, <1>6, <1>8, SMTT(30) DEF Dealing, DownEmpty
  <2>4. QED
    BY <2>1, <2>2, <2>3
\* The heights of accounts only rise: what was below them still is.
<1>9. ASSUME ~ rescans, \A a \in Account : scan[a] <= scan'[a],
             \A c \in Conn : \A k \in DOMAIN wire'[c] :
               \E j \in DOMAIN wire[c] : wire'[c][k] = wire[c][j]
      PROVE  WireUnder'
  <2>1. ASSUME NEW c \in Conn, NEW k \in DOMAIN wire'[c], NEW i \in DOMAIN wire'[c][k].users
        PROVE  wire'[c][k].users[i].height <= scan'[wire'[c][k].users[i].id]
    <3>1. PICK j \in DOMAIN wire[c] : wire'[c][k] = wire[c][j]
      BY <1>9
    <3> DEFINE x == wire[c][j].users[i]
    <3>2. x.id \in Account /\ x.height \in Nat /\ x.height <= scan[x.id]
      BY <1>5, <1>9, <2>1, <3>1, WireHeights
    <3>3. wire'[c][k].users[i] = x
      BY <3>1
    <3> HIDE DEF x
    <3>4. x.height <= scan'[x.id]
      BY <1>0, <1>1, <1>9, <3>2
    <3>5. QED
      BY <3>3, <3>4
  <2>2. QED
    BY <2>1 DEF WireUnder
\* A command has been read.
<1>10. ASSUME NEW c \in Conn, wire[c] # << >>, wire' = [wire EXCEPT ![c] = Tail(@)]
       PROVE  \A d \in Conn : \A k \in DOMAIN wire'[d] :
                \E j \in DOMAIN wire[d] : wire'[d][k] = wire[d][j]
  <2> TAKE d \in Conn
  <2> TAKE k \in DOMAIN wire'[d]
  <2>1. CASE d = c
    <3>1. /\ wire'[c] = Tail(wire[c]) /\ Len(wire[c]) \in Nat
          /\ DOMAIN wire[c] = 1..Len(wire[c]) /\ DOMAIN Tail(wire[c]) = 1..Len(wire[c]) - 1
          /\ \A l \in 1..Len(wire[c]) - 1 : Tail(wire[c])[l] = wire[c][l + 1]
      BY <1>0, <1>10, TailTypes
    <3>2. k \in 1..Len(wire[c]) - 1
      BY <2>1, <3>1
    <3>3. k + 1 \in DOMAIN wire[c] /\ wire'[d][k] = wire[d][k + 1]
      BY <2>1, <3>1, <3>2
    <3>4. QED
      BY <2>1, <3>3
  <2>2. CASE d # c
    BY <1>0, <1>10, <2>2
  <2>3. QED
    BY <2>1, <2>2
<1>11. ASSUME NEW c \in Conn, wire' = [wire EXCEPT ![c] = << >>]
       PROVE  \A d \in Conn : \A k \in DOMAIN wire'[d] :
                \E j \in DOMAIN wire[d] : wire'[d][k] = wire[d][j]
  <2> TAKE d \in Conn
  <2> TAKE k \in DOMAIN wire'[d]
  <2>1. d # c
    <3>1. ASSUME d = c PROVE FALSE
      <4>1. wire'[d] = << >>
        BY <1>0, <1>11, <3>1
      <4>2. QED
        BY <4>1
    <3>2. QED
      BY <3>1
  <2>2. QED
    BY <1>0, <1>11, <2>1
\* An update has been stored, or the first command of a scanner has been read.
<1>12. ASSUME ~ rescans, NEW c \in Conn, srv[c] = "open", up[c] # << >>,
              up' = [up EXCEPT ![c] = Tail(@)], \A a \in Account : scan[a] <= scan'[a],
              \A a \in DOMAIN up[c][1].users : up[c][1].last <= scan'[a],
              \A w \in Thread : w[1] # 0 => held'[w] = held[w],
              \A d \in Conn : srv'[d] = "open" => srv[d] = "open"
       PROVE  UpFollows'
  <2>1. ASSUME NEW d \in Conn, srv'[d] = "open"
        PROVE  /\ \A k \in DOMAIN up'[d] : Follows(up'[d][k].users, scan', up'[d], k - 1)
               /\ \A w \in Thread : w[1] = d => Follows(held'[w], scan', up'[d], Len(up'[d]))
    <3>1. /\ \A k \in DOMAIN up[d] : Follows(up[d][k].users, scan, up[d], k - 1)
          /\ \A w \in Thread : w[1] = d => Follows(held[w], scan, up[d], Len(up[d]))
      BY <1>5, <1>12, <2>1 DEF UpFollows
    <3>2. /\ up[d] \in Seq(Report) /\ Len(up[d]) \in Nat /\ DOMAIN up[d] = 1..Len(up[d])
          /\ \A k \in DOMAIN up[d] : up[d][k] \in Report /\ up[d][k].users \in UserMap
      <4>1. up[d] \in Seq(Report)
        BY <1>0
      <4>2. Len(up[d]) \in Nat /\ DOMAIN up[d] = 1..Len(up[d]) /\ \A k \in DOMAIN up[d] : up[d][k] \in Report
        BY <4>1, LenProperties, ElementOfSeq
      <4>3. QED
        BY <4>1, <4>2, ReportTypes
    <3>3. \A w \in Thread : w[1] = d => held'[w] = held[w] /\ held[w] \in UserMap
      BY <1>0, <1>6, <1>12
    <3>4. CASE d = c
      <4> DEFINE q == up[c]
      <4>1. /\ up'[c] = Tail(q) /\ DOMAIN Tail(q) = 1..Len(q) - 1 /\ Len(Tail(q)) = Len(q) - 1
            /\ 1 \in DOMAIN q /\ \A l \in 1..Len(q) - 1 : Tail(q)[l] = q[l + 1]
        BY <1>0, <1>12, TailTypes
      <4>2. /\ q \in Seq(Report) /\ q # << >> /\ Len(q) \in Nat /\ DOMAIN q = 1..Len(q)
            /\ \A a \in DOMAIN q[1].users : q[1].last <= scan'[a]
            /\ \A k \in 1..Len(q) : q[k].users \in UserMap /\ Follows(q[k].users, scan, q, k - 1)
            /\ \A w \in Thread : w[1] = c => Follows(held[w], scan, q, Len(q))
        BY <1>12, <3>1, <3>2, <3>4
      <4> HIDE DEF q
      <4>3. ASSUME NEW k \in 1..Len(q) - 1
            PROVE  Follows(Tail(q)[k].users, scan', Tail(q), k - 1)
        <5>1. k + 1 \in 1..Len(q) /\ k \in 1..Len(q) /\ k + 1 - 1 = k
          BY <4>2
        <5>2. q[k + 1].users \in UserMap /\ Follows(q[k + 1].users, scan, q, k)
          <6>1. Follows(q[k + 1].users, scan, q, k + 1 - 1)
            BY <4>2, <5>1
          <6>2. QED
            BY <4>2, <5>1, <6>1
        <5>3. Follows(q[k + 1].users, scan', Tail(q), k - 1)
          BY <1>0, <1>1, <1>12, <4>2, <5>1, <5>2, FollowsTail
        <5>4. QED
          BY <4>1, <5>3
      <4>4. ASSUME NEW w \in Thread, w[1] = c
            PROVE  Follows(held[w], scan', Tail(q), Len(q) - 1)
        <5>1. Len(q) \in 1..Len(q)
          BY <4>1, <4>2
        <5>2. held[w] \in UserMap /\ Follows(held[w], scan, q, Len(q))
          BY <1>0, <4>2, <4>4
        <5>3. QED
          BY <1>0, <1>1, <1>12, <4>2, <5>1, <5>2, FollowsTail
      <4>5. QED
        BY <3>3, <3>4, <4>1, <4>3, <4>4
    <3>5. CASE d # c
      <4>1. up'[d] = up[d]
        BY <1>0, <1>12, <3>5
      <4>2. \A k \in DOMAIN up[d] : k - 1 \in 0..Len(up[d])
        BY <3>2
      <4>3. \A k \in DOMAIN up[d] : Follows(up[d][k].users, scan', up[d], k - 1)
        <5> TAKE k \in DOMAIN up[d]
        <5> DEFINE u == up[d][k].users
                   q == up[d]
                   n == k - 1
        <5>1. u \in UserMap /\ q \in Seq(Report) /\ n \in 0..Len(q) /\ Follows(u, scan, q, n)
          BY <3>1, <3>2, <4>2
        <5> HIDE DEF u, q, n
        <5>2. Follows(u, scan', q, n)
          BY <1>0, <1>1, <1>12, <5>1, FollowsOn
        <5>3. QED
          BY <5>2 DEF u, q, n
      <4>4. \A w \in Thread : w[1] = d => Follows(held[w], scan', up[d], Len(up[d]))
        <5> TAKE w \in Thread
        <5>1. Len(up[d]) \in 0..Len(up[d])
          BY <3>2
        <5>2. QED
          BY <1>0, <1>1, <1>12, <3>1, <3>2, <5>1, FollowsOn
      <4>5. QED
        BY <3>3, <4>1, <4>3, <4>4
    <3>6. QED
      BY <3>4, <3>5
  <2>2. QED
    BY <2>1 DEF UpFollows
\* The threads of a process go.
<1>13. ASSUME ~ rescans, NEW c \in Conn, UNCHANGED <<scan, srv, up>>, Stopped(c)
       PROVE  Parts
  <2>1. \A w \in Thread : held'[w] = IF w[1] # 0 /\ Process[w[1]] = Process[c]
                                    THEN NoUsers ELSE held[w]
    BY <1>13, DropTypes DEF Stopped
  <2>2. LocalUnder'
    BY <1>5, <1>6, <1>13, <2>1 DEF LocalUnder
  <2>3. WireUnder'
    <3>1. ASSUME NEW d \in Conn, NEW k \in DOMAIN wire'[d]
          PROVE  \E j \in DOMAIN wire[d] : wire'[d][k] = wire[d][j]
      <4>1. wire'[d] = << >> \/ wire'[d] = wire[d]
        BY <1>13, Zenon DEF Stopped
      <4>2. wire'[d] # << >>
        BY <3>1
      <4>3. QED
        BY <4>1, <4>2
    <3>2. \A a \in Account : scan[a] <= scan'[a]
      BY <1>0, <1>13
    <3>3. QED
      BY <1>9, <1>13, <3>1, <3>2
  <2>4. DownEmpty'
    <3>1. ASSUME NEW d \in Conn, cli'[d] # "up", NEW w \in Thread, w[1] = d
          PROVE  held'[w] = NoUsers
      <4>1. CASE cli[d] = "up"
        <5>1. Process[d] = Process[c]
          BY <1>13, <3>1, <4>1 DEF Stopped
        <5>2. QED
          BY <1>6, <2>1, <3>1, <5>1
      <4>2. CASE cli[d] # "up"
        <5>1. held[w] = NoUsers
          BY <1>5, <1>13, <3>1, <4>2 DEF DownEmpty
        <5>2. QED
          BY <2>1, <5>1
      <4>3. QED
        BY <4>1, <4>2
    <3>2. QED
      BY <3>1 DEF DownEmpty
  <2>5. UpFollows'
    <3>1. ASSUME NEW d \in Conn, srv[d] = "open", NEW w \in Thread, w[1] = d
          PROVE  Follows(held'[w], scan, up[d], Len(up[d]))
      <4>1. Follows(held[w], scan, up[d], Len(up[d]))
        BY <1>5, <1>13, <3>1 DEF UpFollows
      <4>2. Follows(NoUsers, scan, up[d], Len(up[d]))
        BY NoUsersFacts DEF Follows
      <4>3. held'[w] = NoUsers \/ held'[w] = held[w]
        BY <2>1
      <4>4. QED
        BY <4>1, <4>2, <4>3
    <3>2. QED
      BY <1>5, <1>13, <3>1 DEF UpFollows
  <2>6. QED
    BY <2>2, <2>3, <2>4, <2>5
\* A scanner's threads get accounts from a command.
<1>14. ASSUME ~ rescans, NEW c \in Conn, wire[c] # << >>,
              UNCHANGED <<scan, srv, up, cli>>, wire' = [wire EXCEPT ![c] = Tail(@)],
              cli[c] # "up" => held' = held,
              \A w \in Thread : w[1] # c => held'[w] = held[w],
              \A w \in Thread : w[1] = c => \A a \in DOMAIN held'[w] :
                \/ a \in DOMAIN held[w] /\ held'[w][a] = held[w][a]
                \/ \E i \in DOMAIN wire[c][1].users :
                     wire[c][1].users[i].id = a /\ held'[w][a] = wire[c][1].users[i].height
       PROVE  Parts
  <2>1. LocalUnder'
    BY <1>5, <1>6, <1>14 DEF LocalUnder
  <2>2. WireUnder'
    <3>1. \A a \in Account : scan[a] <= scan'[a]
      BY <1>0, <1>14
    <3>2. QED
      BY <1>9, <1>10, <1>14, <3>1
  <2>3. DownEmpty'
    BY <1>0, <1>5, <1>14 DEF DownEmpty
  <2>4. UpFollows'
    <3>1. ASSUME NEW d \in Conn, srv[d] = "open", NEW w \in Thread, w[1] = d
          PROVE  Follows(held'[w], scan, up[d], Len(up[d]))
      <4>1. Follows(held[w], scan, up[d], Len(up[d]))
        BY <1>5, <1>14, <3>1 DEF UpFollows
      <4>2. CASE d = c
        <5>1. ASSUME NEW a \in DOMAIN held'[w], ~ held'[w][a] <= scan[a]
              PROVE  \E j \in 1..Len(up[d]) :
                       a \in DOMAIN up[d][j].users /\ held'[w][a] <= up[d][j].last
          <6>1. ASSUME NEW i \in DOMAIN wire[c][1].users,
                       wire[c][1].users[i].id = a, held'[w][a] = wire[c][1].users[i].height
                PROVE  FALSE
            <7>1. 1 \in DOMAIN wire[c]
              BY <1>0, <1>14, TailTypes
            <7>2. wire[c][1].users[i].height <= scan[wire[c][1].users[i].id]
              BY <1>5, <1>14, <7>1, WireHeights
            <7>3. QED
              BY <5>1, <6>1, <7>2
          <6>2. a \in DOMAIN held[w] /\ held'[w][a] = held[w][a]
            BY <1>14, <3>1, <4>2, <6>1
          <6>3. QED
            BY <4>1, <5>1, <6>2 DEF Follows
        <5>2. QED
          BY <5>1 DEF Follows
      <4>3. CASE d # c
        BY <1>14, <3>1, <4>1, <4>3
      <4>4. QED
        BY <4>2, <4>3
    <3>2. QED
      BY <1>5, <1>14, <3>1 DEF UpFollows
  <2>5. QED
    BY <2>1, <2>2, <2>3, <2>4
<1>15. CASE ~ rescans /\ Mine
  BY <1>4, <1>7, <1>15 DEF Mine, server_vars, client_vars
<1>16. ASSUME ~ rescans, NEW a \in Account, activate(a) \/ deactivate(a) PROVE Good
  BY <1>4, <1>7, <1>16 DEF activate, deactivate, server_vars, client_vars
<1>17. CASE ~ rescans /\ check_users_replace
  <2>1. Dealing /\ UNCHANGED <<scan, cli, up, running>>
    BY <1>0, <1>17, ReplaceDeals DEF check_users_replace, db_vars, client_vars
  <2>2. UpFollows'
    <3>1. ASSUME NEW c \in Conn, srv'[c] = "open"
          PROVE  srv[c] = "open" /\ \A w \in Thread : w[1] = c => held'[w] = held[w]
      BY <1>6, <2>1, <3>1 DEF Dealing
    <3>2. QED
      BY <1>5, <1>17, <2>1, <3>1 DEF UpFollows
  <2>3. QED
    BY <1>4, <1>8, <1>17, <2>1, <2>2
<1>18. CASE ~ rescans /\ check_users_push
  <2>1. Dealing /\ UNCHANGED <<scan, cli, up, running>>
    BY <1>18, PushDeals DEF check_users_push, db_vars, client_vars
  <2>2. UpFollows'
    <3>1. ASSUME NEW c \in Conn, srv'[c] = "open"
          PROVE  srv[c] = "open" /\ \A w \in Thread : w[1] = c => held'[w] = held[w]
      BY <1>6, <2>1, <3>1 DEF Dealing
    <3>2. QED
      BY <1>5, <1>18, <2>1, <3>1 DEF UpFollows
  <2>3. QED
    BY <1>4, <1>8, <1>18, <2>1, <2>2
<1>19. ASSUME ~ rescans, NEW c \in Conn, connect(c) PROVE Good
  <2>1. /\ cli[c] # "up" /\ srv' = [srv EXCEPT ![c] = "open"]
        /\ cli' = [cli EXCEPT ![c] = IF @ = "late" THEN "orphan" ELSE "up"] /\ wire' = [wire EXCEPT ![c] = << >>]
        /\ \E ok \in BOOLEAN : up' = [up EXCEPT ![c] = <<Initialize(ok)>>]
        /\ UNCHANGED <<scan, held, running>>
    BY <1>19 DEF connect, db_vars
  <2>2. LocalUnder' /\ DownEmpty'
    BY <1>0, <1>5, <1>19, <2>1 DEF LocalUnder, DownEmpty
  <2>3. WireUnder'
    BY <1>0, <1>9, <1>11, <1>19, <2>1
  <2>4. UpFollows'
    <3>1. ASSUME NEW d \in Conn, srv'[d] = "open"
          PROVE  /\ \A k \in DOMAIN up'[d] : Follows(up'[d][k].users, scan, up'[d], k - 1)
                 /\ \A w \in Thread : w[1] = d => Follows(held[w], scan, up'[d], Len(up'[d]))
      <4>1. CASE d = c
        <5>1. \A k \in DOMAIN up'[d] : up'[d][k].users = NoUsers
          <6>1. PICK ok \in BOOLEAN : up'[c] = <<Initialize(ok)>>
            BY <1>0, <2>1
          <6>2. Initialize(ok).users = NoUsers
            BY DEF Initialize
          <6> DEFINE m == Initialize(ok)
          <6> HIDE DEF m
          <6>3. \A k \in DOMAIN <<m>> : <<m>>[k] = m
            OBVIOUS
          <6>4. QED
            BY <4>1, <6>1, <6>2, <6>3 DEF m
        <5>2. \A w \in Thread : w[1] = d => held[w] = NoUsers
          BY <1>5, <1>19, <2>1, <4>1 DEF DownEmpty
        <5>3. QED
          BY <5>1, <5>2, NoUsersFacts DEF Follows
      <4>2. CASE d # c
        <5>1. srv[d] = "open" /\ up'[d] = up[d]
          BY <1>0, <2>1, <3>1, <4>2
        <5>2. QED
          BY <1>5, <1>19, <5>1 DEF UpFollows
      <4>3. QED
        BY <4>1, <4>2
    <3>2. QED
      BY <2>1, <3>1 DEF UpFollows
  <2>5. QED
    BY <1>4, <2>1, <2>2, <2>3, <2>4
<1>20. ASSUME ~ rescans, NEW c \in Conn, initialize(c) PROVE Good
  <2>1. /\ srv[c] = "open" /\ up[c] # << >> /\ Head(up[c]).op = "initialize"
        /\ up' = [up EXCEPT ![c] = Tail(@)] /\ UNCHANGED <<scan, running, cli>>
    BY <1>20 DEF initialize, Reads, db_vars, client_vars
  <2>2. DOMAIN up[c][1].users = {}
    BY <1>0, <2>1, TailTypes, ReportTypes, NoUsersFacts
  <2>3. ASSUME \A w \in Thread : w[1] # 0 => held'[w] = held[w],
               \A d \in Conn : srv'[d] = "open" => srv[d] = "open"
        PROVE  UpFollows'
    <3>1. \A a \in Account : scan[a] <= scan'[a]
      BY <1>0, <2>1
    <3>2. QED
      BY <1>12, <1>20, <2>1, <2>2, <2>3, <3>1
  <2>4. CASE Head(up[c]).ok
    <3> DEFINE th == [threads EXCEPT ![c] = RemoteThreads[c]]
    <3>1. do_replace_users(th) /\ th \in [Conn -> Nat]
      BY <1>0, <1>20, <2>4, RemoteAssumption DEF initialize, Conn
    <3> HIDE DEF th
    <3>2. Dealing
      BY <3>1, ReplaceDeals
    <3>3. UpFollows'
      BY <2>3, <3>2 DEF Dealing
    <3>4. QED
      BY <1>4, <1>8, <1>20, <2>1, <3>2, <3>3
  <2>5. CASE ~ Head(up[c]).ok
    <3>1. srv' = [srv EXCEPT ![c] = "gone"] /\ UNCHANGED <<wire, held>>
      BY <1>20, <2>5 DEF initialize
    <3>2. UpFollows'
      BY <1>0, <2>3, <3>1
    <3>3. LocalUnder' /\ WireUnder' /\ DownEmpty'
      BY <1>5, <1>20, <2>1, <3>1 DEF LocalUnder, WireUnder, DownEmpty
    <3>4. QED
      BY <1>4, <2>1, <3>2, <3>3
  <2>6. QED
    BY <2>4, <2>5
\* The first update under way is not above the database, so that it is stored.
<1>21. ASSUME ~ rescans, NEW c \in Conn, update_accounts(c) PROVE Good
  <2> DEFINE u == Head(up[c]).users
             last == Head(up[c]).last
  <2>1. /\ srv[c] = "open" /\ up[c] # << >> /\ up' = [up EXCEPT ![c] = Tail(@)]
        /\ scan' = StoredHeights(u, last) /\ UNCHANGED <<wire, cli>>
        /\ Fits(u) => UNCHANGED <<server_vars, held>>
    BY <1>21 DEF update_accounts, Reads, client_vars
  <2>2. u \in UserMap /\ last \in Nat /\ Head(up[c]) = up[c][1] /\ 1 \in DOMAIN up[c]
    BY <1>0, <2>1, TailTypes, ReportTypes
  <2>3. Fits(u)
    <3>1. Follows(up[c][1].users, scan, up[c], 1 - 1)
      BY <1>5, <1>21, <2>1, <2>2 DEF UpFollows
    <3>2. \A a \in DOMAIN u : u[a] <= scan[a]
      BY <2>2, <3>1 DEF Follows
    <3>3. QED
      BY <3>2 DEF Fits
  <2>4. UNCHANGED <<held, srv, running>>
    BY <2>1, <2>3 DEF server_vars
  <2>5. /\ \A a \in Account : scan[a] <= scan'[a]
        /\ \A a \in DOMAIN u : Larger(scan[a], last) = scan'[a]
    BY <1>0, <2>1, <2>2, <2>3, StoredFacts
  <2>6. \A a \in DOMAIN u : last <= scan'[a]
    <3> HIDE DEF last, u
    <3>1. \A a \in DOMAIN u : scan[a] \in Nat
      BY <1>0, <2>2, MapFacts
    <3>2. QED
      BY <2>2, <2>5, <3>1 DEF Larger
  <2>7. UpFollows'
    BY <1>12, <1>21, <2>1, <2>2, <2>4, <2>5, <2>6
  <2>8. WireUnder'
    BY <1>9, <1>21, <2>1, <2>5
  <2>9. LocalUnder'
    <3>1. ASSUME NEW w \in Thread, w[1] = 0 PROVE Under(held'[w], scan')
      <4>1. Under(held[w], scan) /\ held[w] \in UserMap
        BY <1>0, <1>5, <1>21, <3>1 DEF LocalUnder
      <4>2. << >> \in Seq(Report) /\ 0 \in 0..Len(<< >>)
        BY EmptySeq
      <4>3. Under(held[w], scan')
        BY <1>0, <1>1, <2>5, <4>1, <4>2, FollowsOn
      <4>4. QED
        BY <2>4, <4>3
    <3>2. QED
      BY <3>1 DEF LocalUnder
  <2>10. DownEmpty'
    BY <1>5, <1>21, <2>1, <2>4 DEF DownEmpty
  <2>11. QED
    BY <1>4, <2>4, <2>7, <2>8, <2>9, <2>10
<1>22. ASSUME ~ rescans, NEW c \in Conn, lost(c) \/ end_of_stream(c) PROVE Good
  BY <1>0, <1>4, <1>7, <1>22 DEF lost, end_of_stream, client_vars, db_vars
<1>23. ASSUME ~ rescans, NEW c \in Conn, release(c) PROVE Good
  <2>1. /\ srv' = [srv EXCEPT ![c] = "gone"] /\ up' = [up EXCEPT ![c] = << >>]
        /\ UNCHANGED <<scan, wire, held, cli, running>>
    BY <1>23 DEF release, client_vars, db_vars
  <2>2. LocalUnder' /\ WireUnder' /\ DownEmpty'
    BY <1>5, <1>23, <2>1 DEF LocalUnder, WireUnder, DownEmpty
  <2>3. UpFollows'
    <3>1. \A d \in Conn : srv'[d] = "open" => srv[d] = "open" /\ up'[d] = up[d]
      BY <1>0, <2>1
    <3>2. QED
      BY <1>5, <1>23, <2>1, <3>1 DEF UpFollows
  <2>4. QED
    BY <1>4, <2>1, <2>2, <2>3
<1>24. ASSUME ~ rescans, NEW c \in Conn, push_accounts(c) PROVE Good
  <2> DEFINE s == Head(wire[c]).users
             mine(w) == {i \in DOMAIN s : ((push_to[c] + i - 1) % RemoteThreads[c]) + 1 = w[2]}
  <2>1. /\ wire[c] # << >> /\ wire' = [wire EXCEPT ![c] = Tail(@)]
        /\ held' = [w \in Thread |-> IF w[1] = c /\ cli[c] = "up"
                                     THEN Merge(held[w], Users(s, mine(w))) ELSE held[w]]
        /\ UNCHANGED <<scan, srv, up, cli, running>>
    BY <1>24, Zenon DEF push_accounts, db_vars, server_vars
  <2>2. Head(wire[c]) = wire[c][1] /\ Head(wire[c]) \in Command
    BY <1>0, <2>1, TailTypes
  <2>3. s \in Seq([id : Account, height : Nat]) /\ \A w \in Thread : mine(w) \in SUBSET DOMAIN s
    BY <2>2, CommandTypes
  <2> HIDE DEF s, mine
  <2>4. ASSUME NEW w \in Thread, w[1] = c, NEW a \in DOMAIN held'[w]
        PROVE  \/ a \in DOMAIN held[w] /\ held'[w][a] = held[w][a]
               \/ \E i \in DOMAIN s : s[i].id = a /\ held'[w][a] = s[i].height
    <3> DEFINE v == Users(s, mine(w))
    <3> SUFFICES ASSUME cli[c] = "up"
                 PROVE  \/ a \in DOMAIN held[w] /\ held'[w][a] = held[w][a]
                        \/ \E i \in DOMAIN s : s[i].id = a /\ held'[w][a] = s[i].height
      BY <2>1, <2>4
    <3>1. held'[w] = Merge(held[w], v)
      BY <2>1, <2>4
    <3>2. v \in UserMap /\ \A b \in DOMAIN v : \E i \in mine(w) : s[i].id = b /\ v[b] = s[i].height
      BY <2>3, UsersFacts
    <3> HIDE DEF v
    <3>3. \/ a \in DOMAIN held[w] /\ held'[w][a] = held[w][a]
          \/ a \in DOMAIN v /\ held'[w][a] = v[a]
      BY <1>0, <2>4, <3>1, <3>2, MergeFacts
    <3>4. QED
      BY <2>3, <3>2, <3>3
  <2>5. \A w \in Thread : w[1] # c => held'[w] = held[w]
    BY <2>1
  <2>6. s = wire[c][1].users
    BY <2>2 DEF s
  <2>7. Parts
    <3>1. \A w \in Thread : w[1] = c => \A a \in DOMAIN held'[w] :
            \/ a \in DOMAIN held[w] /\ held'[w][a] = held[w][a]
            \/ \E i \in DOMAIN wire[c][1].users :
                 wire[c][1].users[i].id = a /\ held'[w][a] = wire[c][1].users[i].height
      BY <2>4, <2>6
    <3>3. cli[c] # "up" => held' = held
      BY <1>0, <2>1
    <3> HIDE DEF Parts
    <3>2. QED
      BY <1>14, <1>24, <2>1, <2>5, <3>1, <3>3, ZenonT(60)
  <2>8. QED
    BY <1>4, <2>1, <2>7
<1>25. ASSUME ~ rescans, NEW c \in Conn, replace_accounts(c) PROVE Good
  <2> DEFINE s == Head(wire[c]).users
             to == ByCount(Len(s), RemoteThreads[c])
  <2>1. /\ wire[c] # << >> /\ wire' = [wire EXCEPT ![c] = Tail(@)]
        /\ held' = [w \in Thread |-> IF w[1] = c /\ cli[c] = "up"
                                     THEN Users(s, to[w[2]]) ELSE held[w]]
        /\ UNCHANGED <<scan, srv, up, cli, running>>
    BY <1>25, Zenon DEF replace_accounts, db_vars, server_vars
  <2>2. Head(wire[c]) = wire[c][1] /\ Head(wire[c]) \in Command
    BY <1>0, <2>1, TailTypes
  <2>3. s \in Seq([id : Account, height : Nat])
    BY <2>2, CommandTypes
  <2>4. \A w \in Thread : w[1] = c => to[w[2]] \in SUBSET DOMAIN s
    BY <2>3, ScannerThread
  <2> HIDE DEF s, to
  <2>5. ASSUME NEW w \in Thread, w[1] = c, NEW a \in DOMAIN held'[w]
        PROVE  \/ a \in DOMAIN held[w] /\ held'[w][a] = held[w][a]
               \/ \E i \in DOMAIN s : s[i].id = a /\ held'[w][a] = s[i].height
    <3> SUFFICES ASSUME cli[c] = "up"
                 PROVE  \E i \in DOMAIN s : s[i].id = a /\ held'[w][a] = s[i].height
      BY <2>1, <2>5
    <3> DEFINE S == to[w[2]]
    <3>1. held'[w] = Users(s, S) /\ S \in SUBSET DOMAIN s
      BY <2>1, <2>4, <2>5
    <3> HIDE DEF S
    <3>2. \A b \in DOMAIN Users(s, S) : \E i \in S : s[i].id = b /\ Users(s, S)[b] = s[i].height
      BY <2>3, <3>1, UsersFacts
    <3>3. QED
      BY <2>5, <3>1, <3>2
  <2>6. \A w \in Thread : w[1] # c => held'[w] = held[w]
    BY <2>1
  <2>7. s = wire[c][1].users
    BY <2>2 DEF s
  <2>8. Parts
    <3>1. \A w \in Thread : w[1] = c => \A a \in DOMAIN held'[w] :
            \/ a \in DOMAIN held[w] /\ held'[w][a] = held[w][a]
            \/ \E i \in DOMAIN wire[c][1].users :
                 wire[c][1].users[i].id = a /\ held'[w][a] = wire[c][1].users[i].height
      BY <2>5, <2>7
    <3>3. cli[c] # "up" => held' = held
      BY <1>0, <2>1
    <3> HIDE DEF Parts
    <3>2. QED
      BY <1>14, <1>25, <2>1, <2>6, <3>1, <3>3, ZenonT(60)
  <2>9. QED
    BY <1>4, <2>1, <2>8
\* A thread's own update is the last one that its copies follow.
<1>26. ASSUME ~ rescans, NEW c \in Conn, send_update(c) PROVE Good
  <2>1. PICK w \in Thread, last \in 1..MaxTip :
          /\ w[1] = c
          /\ \/ cleanup(c) /\ UNCHANGED up
             \/ /\ up' = [up EXCEPT ![c] = Append(@, UpdateAccounts(held[w], last))]
                /\ held' = [held EXCEPT ![w] = Advanced(@, last)]
                /\ UNCHANGED <<cli, wire>>
    BY <1>26, Zenon DEF send_update
  <2>2. cli[c] = "up" /\ UNCHANGED <<scan, srv, running>>
    BY <1>26 DEF send_update, db_vars, server_vars
  <2>3. CASE cleanup(c) /\ UNCHANGED up
    BY <1>4, <1>13, <1>26, <2>2, <2>3, ClientsStop
  <2>4. CASE /\ up' = [up EXCEPT ![c] = Append(@, UpdateAccounts(held[w], last))]
             /\ held' = [held EXCEPT ![w] = Advanced(@, last)]
             /\ UNCHANGED <<cli, wire>>
    <3> DEFINE m == UpdateAccounts(held[w], last)
               q == up[c]
    <3>1. last \in Nat /\ held[w] \in UserMap
      BY <1>0, RemoteAssumption
    <3>2. m \in Report /\ m.users = held[w] /\ m.last = last
      <4>1. m \in Report
        BY <3>1, ReportTypes
      <4>2. QED
        BY <4>1 DEF UpdateAccounts
    <3>3. q \in Seq(Report) /\ up' = [up EXCEPT ![c] = Append(q, m)]
      BY <1>0, <2>4
    <3>4. /\ held'[w] = Advanced(held[w], last)
          /\ \A v \in Thread : v # w => held'[v] = held[v]
      BY <1>0, <2>4
    <3> HIDE DEF m, q
    <3>5. /\ Len(q) \in Nat /\ Append(q, m) \in Seq(Report) /\ Len(Append(q, m)) = Len(q) + 1
          /\ \A k \in 1..Len(q) : Append(q, m)[k] = q[k]
          /\ Append(q, m)[Len(q) + 1] = m
          /\ DOMAIN q = 1..Len(q) /\ DOMAIN Append(q, m) = 1..Len(q) + 1
      <4>1. /\ Append(q, m) \in Seq(Report) /\ Len(Append(q, m)) = Len(q) + 1
            /\ \A k \in 1..Len(q) : Append(q, m)[k] = q[k]
            /\ Append(q, m)[Len(q) + 1] = m
        BY <3>2, <3>3, AppendProperties
      <4>2. QED
        BY <3>3, <4>1, LenProperties
    <3>6. LocalUnder'
      BY <1>5, <1>6, <1>26, <2>1, <2>2, <3>4 DEF LocalUnder
    <3>7. WireUnder' /\ DownEmpty'
      BY <1>5, <1>26, <2>1, <2>2, <2>4, <3>4 DEF WireUnder, DownEmpty
    \* What followed before still does, and so do the copies that advance.
    <3>8. ASSUME srv[c] = "open"
          PROVE  /\ \A k \in 1..Len(q) + 1 :
                      Follows(Append(q, m)[k].users, scan, Append(q, m), k - 1)
                 /\ \A v \in Thread : v[1] = c =>
                      Follows(held'[v], scan, Append(q, m), Len(q) + 1)
      <4>1. /\ \A k \in 1..Len(q) : Follows(q[k].users, scan, q, k - 1)
            /\ \A v \in Thread : v[1] = c => Follows(held[v], scan, q, Len(q))
        BY <1>5, <1>26, <3>5, <3>8 DEF UpFollows, q
      <4>2. ASSUME NEW k \in 1..Len(q)
            PROVE  Follows(Append(q, m)[k].users, scan, Append(q, m), k - 1)
        <5> DEFINE u == q[k].users
                   n == k - 1
        <5>1. u \in UserMap
          BY <3>3, <3>5, ElementOfSeq, ReportTypes
        <5>2. n \in 0..Len(q) /\ Follows(u, scan, q, n)
          BY <3>5, <4>1
        <5> HIDE DEF u, n
        <5>3. Follows(u, scan, Append(q, m), n)
          BY <1>0, <3>3, <5>1, <5>2, FollowsMore
        <5>4. QED
          BY <3>5, <5>3 DEF u, n
      <4>3. ASSUME NEW v \in Thread, v[1] = c
            PROVE  Follows(held[v], scan, Append(q, m), Len(q))
        <5> DEFINE u == held[v]
                   n == Len(q)
        <5>1. u \in UserMap /\ n \in 0..Len(q) /\ Follows(u, scan, q, n)
          BY <1>0, <3>5, <4>1, <4>3
        <5> HIDE DEF u, n
        <5>2. Follows(u, scan, Append(q, m), n)
          BY <1>0, <3>3, <5>1, FollowsMore
        <5>3. QED
          BY <5>2 DEF u, n
      <4>4. Follows(Append(q, m)[Len(q) + 1].users, scan, Append(q, m), Len(q))
        BY <2>1, <3>2, <3>5, <4>3
      <4>5. ASSUME NEW k \in 1..Len(q) + 1
            PROVE  Follows(Append(q, m)[k].users, scan, Append(q, m), k - 1)
        <5>1. k \in 1..Len(q) \/ (k = Len(q) + 1 /\ k - 1 = Len(q))
          BY <3>5
        <5>2. QED
          BY <4>2, <4>4, <5>1
      <4>6. \A u : Follows(u, scan, Append(q, m), Len(q)) => Follows(u, scan, Append(q, m), Len(q) + 1)
        <5>1. \A j \in 1..Len(q) : j \in 1..Len(q) + 1
          BY <3>5
        <5>2. QED
          BY <5>1 DEF Follows
      <4>7. Follows(held'[w], scan, Append(q, m), Len(q) + 1)
        <5> DEFINE u == held[w]
        <5>1. u \in UserMap /\ m.users = u /\ m.last = last /\ held'[w] = Advanced(u, last)
          BY <3>1, <3>2, <3>4
        <5>2. Follows(u, scan, Append(q, m), Len(q) + 1)
          BY <2>1, <4>3, <4>6
        <5> HIDE DEF u
        <5>3. /\ DOMAIN Advanced(u, last) = DOMAIN u
              /\ \A a \in DOMAIN u : Advanced(u, last)[a] = Larger(u[a], last) /\ u[a] \in Nat
          BY <3>1, <5>1, AdvancedFacts, MapFacts
        <5>4. ASSUME NEW a \in DOMAIN u
              PROVE  \/ Advanced(u, last)[a] <= scan[a]
                     \/ \E j \in 1..Len(q) + 1 : /\ a \in DOMAIN Append(q, m)[j].users
                                                 /\ Advanced(u, last)[a] <= Append(q, m)[j].last
          <6>1. CASE u[a] < last
            <7>1. Advanced(u, last)[a] = last /\ Len(q) + 1 \in 1..Len(q) + 1
              BY <3>5, <5>3, <6>1 DEF Larger
            <7>2. a \in DOMAIN m.users /\ last <= m.last
              BY <3>1, <5>1
            <7>3. QED
              BY <3>5, <7>1, <7>2
          <6>2. CASE ~ u[a] < last
            <7>1. Advanced(u, last)[a] = u[a]
              BY <5>3, <6>2 DEF Larger
            <7>2. QED
              BY <5>2, <7>1 DEF Follows
          <6>3. QED
            BY <6>1, <6>2
        <5>5. Follows(Advanced(u, last), scan, Append(q, m), Len(q) + 1)
          BY <5>3, <5>4 DEF Follows
        <5>6. QED
          BY <5>1, <5>5
      <4>8. QED
        BY <3>4, <4>3, <4>5, <4>6, <4>7
    <3>9. UpFollows'
      <4>1. ASSUME NEW d \in Conn, srv[d] = "open"
            PROVE  /\ \A k \in DOMAIN up'[d] : Follows(up'[d][k].users, scan, up'[d], k - 1)
                   /\ \A v \in Thread : v[1] = d => Follows(held'[v], scan, up'[d], Len(up'[d]))
        <5>1. CASE d = c
          <6>1. up'[d] = Append(q, m)
            BY <1>0, <3>3, <5>1
          <6>2. QED
            BY <3>5, <3>8, <4>1, <5>1, <6>1
        <5>2. CASE d # c
          <6>1. up'[d] = up[d] /\ \A v \in Thread : v[1] = d => held'[v] = held[v]
            BY <1>0, <2>1, <3>3, <3>4, <5>2
          <6>2. QED
            BY <1>5, <1>26, <4>1, <6>1 DEF UpFollows
        <5>3. QED
          BY <5>1, <5>2
      <4>2. QED
        BY <2>2, <4>1 DEF UpFollows
    <3>10. QED
      BY <1>4, <2>2, <3>6, <3>7, <3>9
  <2>5. QED
    BY <2>1, <2>3, <2>4
<1>27. ASSUME ~ rescans, NEW c \in Conn, disconnect(c) \/ soft_stop(c) \/ exit(c) PROVE Good
  <2>1. Stopped(c)
    BY <1>27, ClientsStop DEF disconnect
  <2>2. UNCHANGED <<scan, srv, up, running>>
    BY <1>27 DEF disconnect, soft_stop, exit, db_vars, server_vars
  <2>3. QED
    BY <1>4, <1>13, <1>27, <2>1, <2>2
<1>28. ASSUME ~ rescans, NEW i \in 1..Locals, local_scan(i) PROVE Good
  <2> DEFINE w == <<0, i>>
             u == held[w]
  <2>1. w \in Thread /\ w[1] = 0
    BY DEF Thread
  <2>2. PICK last \in 1..MaxTip :
          /\ scan' = StoredHeights(u, last)
          /\ Fits(u) => held' = [held EXCEPT ![w] = Advanced(u, last)] /\ UNCHANGED server_vars
    BY <1>28, Zenon DEF local_scan
  <2>3. UNCHANGED <<cli, wire, up>>
    BY <1>28 DEF local_scan, client_vars
  <2> HIDE DEF w
  <2>4. u \in UserMap /\ last \in Nat /\ Fits(u)
    BY <1>0, <1>5, <1>28, <2>1, RemoteAssumption DEF LocalUnder, Under, Fits
  <2>5. /\ held'[w] = Advanced(u, last) /\ UNCHANGED <<srv, running>>
        /\ \A v \in Thread : v # w => held'[v] = held[v]
    BY <1>0, <2>1, <2>2, <2>4 DEF server_vars
  <2>6. /\ \A a \in Account : scan[a] <= scan'[a]
        /\ \A a \in DOMAIN u : Larger(scan[a], last) = scan'[a]
    BY <1>0, <2>2, <2>4, StoredFacts
  <2>7. LocalUnder'
    <3>1. ASSUME NEW v \in Thread, v[1] = 0, v # w PROVE Under(held'[v], scan')
      <4>1. Under(held[v], scan) /\ held[v] \in UserMap
        BY <1>0, <1>5, <1>28, <3>1 DEF LocalUnder
      <4>2. << >> \in Seq(Report) /\ 0 \in 0..Len(<< >>)
        BY EmptySeq
      <4>3. Under(held[v], scan')
        BY <1>0, <1>1, <2>6, <4>1, <4>2, FollowsOn
      <4>4. QED
        BY <2>5, <3>1, <4>3
    <3>2. Under(held'[w], scan')
      <4>1. Under(u, scan)
        BY <1>5, <1>28, <2>1 DEF LocalUnder
      <4> HIDE DEF u
      <4>2. /\ DOMAIN Advanced(u, last) = DOMAIN u
            /\ \A a \in DOMAIN u : Advanced(u, last)[a] = Larger(u[a], last)
            /\ \A a \in DOMAIN u : u[a] \in Nat /\ scan[a] \in Nat
        BY <1>0, <2>4, AdvancedFacts, MapFacts
      <4>3. \A a \in DOMAIN u : Larger(u[a], last) <= Larger(scan[a], last)
        BY <2>4, <4>1, <4>2 DEF Under, Larger
      <4>4. QED
        BY <2>5, <2>6, <4>2, <4>3 DEF Under
    <3>3. QED
      BY <3>1, <3>2 DEF LocalUnder
  <2>8. \A v \in Thread : v[1] # 0 => held'[v] = held[v]
    BY <2>1, <2>5
  <2>9. WireUnder' /\ DownEmpty'
    <3>1. WireUnder'
      BY <1>9, <1>28, <2>3, <2>6
    <3>2. QED
      BY <1>5, <1>6, <1>28, <2>3, <2>8, <3>1 DEF DownEmpty
  <2>10. UpFollows'
    <3>1. ASSUME NEW d \in Conn, srv[d] = "open", NEW x \in UserMap, NEW k \in 0..Len(up[d]),
                 Follows(x, scan, up[d], k)
          PROVE  Follows(x, scan', up[d], k)
      BY <1>0, <1>1, <2>6, <3>1, FollowsOn
    <3>2. ASSUME NEW d \in Conn, srv[d] = "open"
          PROVE  /\ \A k \in DOMAIN up[d] : Follows(up[d][k].users, scan', up[d], k - 1)
                 /\ \A v \in Thread : v[1] = d => Follows(held[v], scan', up[d], Len(up[d]))
      <4>1. /\ \A k \in DOMAIN up[d] : Follows(up[d][k].users, scan, up[d], k - 1)
            /\ \A v \in Thread : v[1] = d => Follows(held[v], scan, up[d], Len(up[d]))
        BY <1>5, <1>28, <3>2 DEF UpFollows
      <4>2. /\ up[d] \in Seq(Report) /\ Len(up[d]) \in Nat /\ DOMAIN up[d] = 1..Len(up[d])
            /\ \A k \in DOMAIN up[d] : up[d][k] \in Report
        BY <1>0, LenProperties, ElementOfSeq
      <4>3. \A k \in DOMAIN up[d] : up[d][k].users \in UserMap /\ k - 1 \in 0..Len(up[d])
        BY <4>2, ReportTypes
      <4>4. \A k \in DOMAIN up[d] : Follows(up[d][k].users, scan', up[d], k - 1)
        BY <3>1, <3>2, <4>1, <4>3
      <4>5. \A v \in Thread : v[1] = d => Follows(held[v], scan', up[d], Len(up[d]))
        <5>1. Len(up[d]) \in 0..Len(up[d])
          BY <4>2
        <5>2. QED
          BY <1>0, <3>1, <3>2, <4>1, <5>1
      <4>6. QED
        BY <4>4, <4>5
    <3>3. QED
      BY <1>6, <2>3, <2>5, <2>8, <3>2 DEF UpFollows
  <2>11. QED
    BY <1>4, <2>5, <2>7, <2>9, <2>10
<1>29. CASE ~ rescans /\ check_loop
  <2>1. /\ running' = TRUE /\ UNCHANGED <<scan, srv, cli, wire, up>>
        /\ \E s \in ByHeight(active) :
             held' = [w \in Thread |->
                       IF w[1] = 0 THEN Copies({s[p] : p \in ByCount(Len(s), Locals)[w[2]]})
                       ELSE held[w]]
    BY <1>29 DEF check_loop, db_vars, client_vars
  <2>2. PICK s \in ByHeight(active) :
          held' = [w \in Thread |->
                    IF w[1] = 0 THEN Copies({s[p] : p \in ByCount(Len(s), Locals)[w[2]]})
                    ELSE held[w]]
    BY <2>1
  <2>3. active \in SUBSET Account
    BY DEF RemoteTypes
  <2>4. LocalUnder'
    <3>1. ASSUME NEW w \in Thread, w[1] = 0 PROVE Under(held'[w], scan)
      <4> DEFINE S == {s[p] : p \in ByCount(Len(s), Locals)[w[2]]}
      <4>1. held'[w] = Copies(S)
        BY <2>2, <3>1
      <4>2. S \in SUBSET Account
        BY <2>3, <3>1, LocalThread
      <4> HIDE DEF S
      <4>3. DOMAIN Copies(S) = S /\ \A a \in S : Copies(S)[a] = scan[a] /\ scan[a] \in Nat
        BY <1>0, <4>2, CopiesFacts
      <4>4. QED
        BY <4>1, <4>3 DEF Under
    <3>2. QED
      BY <2>1, <3>1 DEF LocalUnder
  <2>5. \A w \in Thread : w[1] # 0 => held'[w] = held[w]
    BY <2>2
  <2>6. WireUnder' /\ DownEmpty' /\ UpFollows'
    BY <1>5, <1>6, <1>29, <2>1, <2>5 DEF WireUnder, DownEmpty, UpFollows
  <2>7. QED
    BY <1>4, <2>1, <2>4, <2>6
<1>30. CASE ~ rescans /\ UNCHANGED vars
  BY <1>4, <1>7, <1>30 DEF vars, server_vars, client_vars, db_vars
<1>31. CASE ~ rescans
  BY <1>2, <1>15, <1>16, <1>17, <1>18, <1>19, <1>20, <1>21, <1>22, <1>23, <1>24, <1>25, <1>26,
     <1>27, <1>28, <1>29, <1>30, <1>31, Zenon DEF Next
<1>32. QED
  BY <1>3, <1>31

\* NoReset: as long as no account is set back by hand, every update that comes
\* fits what the database has, and nothing makes the server start over, for any
\* number of accounts, scanners, threads and lost connections.
THEOREM NeverReset == Spec => NoReset
<1>1. Init => RemoteTypes /\ TurnInv /\ CopiesInv
  <2> SUFFICES ASSUME Init PROVE RemoteTypes /\ TurnInv /\ CopiesInv
    OBVIOUS
  <2>1. RemoteTypes /\ TurnInv
    BY TurnInit
  <2>2. \A w \in Thread : held[w] = NoUsers
    BY DEF Init
  <2>3. LocalUnder /\ DownEmpty
    BY <2>2, NoUsersFacts DEF LocalUnder, DownEmpty, Under
  <2>4. WireUnder
    BY DEF Init, WireUnder
  <2>5. UpFollows
    BY DEF Init, UpFollows
  <2>6. QED
    BY <2>1, <2>3, <2>4, <2>5 DEF CopiesInv
<1>2. RemoteTypes /\ TurnInv /\ CopiesInv /\ [Next]_vars
        => (RemoteTypes /\ TurnInv /\ CopiesInv)' /\ [running /\ ~ rescans => running']_vars
  <2> SUFFICES ASSUME RemoteTypes, TurnInv, CopiesInv, Next \/ UNCHANGED vars
               PROVE  RemoteTypes' /\ TurnInv' /\ CopiesInv' /\ (running /\ ~ rescans => running')
    OBVIOUS
  <2>1. QED
    BY TypesKept, TurnKept, CopiesKept
<1>3. QED
  BY <1>1, <1>2, PTL DEF Spec, NoReset


-----------------------------------------------------------------------------
(* The accounts that are listed.                                           *)

\* A scanner keeps what it has and what is on its way; a connection keeps what
\* was dealt to it, or it is gone.
Carries(c) == \A a : WithScanner(a, c) => WithScanner(a, c)'
Keeps(c) == \A a : Kept(a, c) => Kept(a, c)'
Gone(c) == srv[c] # "open" \/ ~ Connected(c)

\* No account comes to the list; local threads and scanners keep theirs.
Covering ==
  /\ Up' /\ AnyThread(remote', threads') => Up /\ AnyThread(remote, threads)
  /\ listed' = listed /\ left' = left /\ remote \subseteq remote'
  /\ \A w \in Thread : w[1] = 0 => DOMAIN held[w] \subseteq DOMAIN held'[w]
  /\ \A c \in remote : Gone(c) => Gone(c)'
  /\ \A c \in remote : Gone(c)' \/ Keeps(c)

\* Then the list stays covered.
LEMMA CoverFrame ==
  ASSUME CoverInv, Covering
  PROVE  CoverInv'
<1> SUFFICES ASSUME Up', AnyThread(remote', threads'), NEW a \in listed'
             PROVE  \/ a \in left' \/ Unnoticed' \/ WithLocal(a)'
                    \/ \E c \in remote' : Kept(a, c)'
  BY DEF CoverInv
<1>1. Up /\ AnyThread(remote, threads) /\ a \in listed
  BY DEF Covering
<1>2. a \in left \/ Unnoticed \/ WithLocal(a) \/ \E c \in remote : Kept(a, c)
  BY <1>1 DEF CoverInv
<1>3. CASE a \in left
  BY <1>3 DEF Covering
<1>4. ASSUME NEW c \in remote, Gone(c)' PROVE Unnoticed'
  BY <1>4 DEF Covering, Gone, Unnoticed
<1>5. CASE Unnoticed
  <2>1. PICK c \in remote : Gone(c)
    BY <1>5 DEF Unnoticed, Gone
  <2>2. QED
    BY <1>4, <2>1 DEF Covering
<1>6. CASE WithLocal(a)
  BY <1>6 DEF Covering, WithLocal
<1>7. ASSUME NEW c \in remote, Kept(a, c)
      PROVE  Unnoticed' \/ \E d \in remote' : Kept(a, d)'
  <2>1. c \in remote' /\ (Gone(c)' \/ Keeps(c))
    BY DEF Covering
  <2>2. CASE Gone(c)'
    BY <1>4, <2>2
  <2>3. CASE Keeps(c)
    <3>1. Kept(a, c)'
      BY <1>7, <2>3 DEF Keeps
    <3>2. QED
      BY <2>1, <3>1
  <2>4. QED
    BY <2>1, <2>2, <2>3
<1>8. QED
  BY <1>2, <1>3, <1>5, <1>6, <1>7

\* Nothing happens to the commands of a scanner, and no account of its threads
\* goes.
LEMMA WireStays ==
  ASSUME NEW c, wire'[c] = wire[c],
         \A w \in Thread : w[1] = c => DOMAIN held[w] \subseteq DOMAIN held'[w]
  PROVE  Carries(c)
BY DEF Carries, WithScanner

\* A connection whose client has no threads keeps what was dealt to it, and so
\* does one whose scanner keeps what it has.
LEMMA KeepsDealt ==
  ASSUME NEW c, given'[c] = given[c],
         cli'[c] = "orphan" \/ (cli'[c] = cli[c] /\ Carries(c))
  PROVE  Keeps(c)
BY DEF Keeps, Kept, Carries

\* The accounts of a command go to the threads of the scanner that reads it, and
\* pushed ones come to those that it has.
LEMMA CommandRead ==
  ASSUME RemoteTypes, NEW c \in Conn, wire[c] # << >>, wire'[c] = Tail(wire[c]),
         \A a \in Names(Head(wire[c])) : \E w \in Thread : w[1] = c /\ a \in DOMAIN held'[w],
         Head(wire[c]).op = "push" =>
           \A w \in Thread : w[1] = c => DOMAIN held[w] \subseteq DOMAIN held'[w]
  PROVE  Carries(c)
<1> DEFINE q == wire[c]
           n == Len(wire[c])
           x == wire'[c]
<1>1. /\ Head(q) = q[1] /\ 1 \in DOMAIN q
      /\ n \in Nat /\ DOMAIN q = 1..n /\ DOMAIN x = 1..n - 1
      /\ \A k \in 1..n - 1 : x[k] = q[k + 1]
  <2>1. wire \in [Conn -> Seq(Command)]
    BY DEF RemoteTypes
  <2> HIDE DEF Command
  <2>2. QED
    BY <2>1, TailTypes
<1> HIDE DEF q, n, x
<1>2. ASSUME NEW k \in Nat, Lasts(q, k + 1) PROVE Lasts(x, k)
  <2>1. ASSUME NEW j \in DOMAIN x, k < j PROVE x[j].op = "push"
    <3>1. j + 1 \in DOMAIN q /\ k + 1 < j + 1 /\ x[j] = q[j + 1]
      BY <1>1, <2>1
    <3>2. QED
      BY <1>2, <3>1 DEF Lasts
  <2>2. QED
    BY <2>1 DEF Lasts
<1>3. ASSUME NEW a, WithScanner(a, c) PROVE WithScanner(a, c)'
  <2>1. ASSUME NEW k \in DOMAIN q, a \in Names(q[k]), Lasts(q, k)
        PROVE  WithScanner(a, c)'
    <3>1. CASE k = 1
      <4>1. Lasts(x, 0)
        BY <1>2, <2>1, <3>1
      <4>2. \E w \in Thread : w[1] = c /\ a \in DOMAIN held'[w]
        BY <1>1, <2>1, <3>1 DEF q
      <4>3. QED
        BY <4>1, <4>2 DEF WithScanner, x
    <3>2. CASE k # 1
      <4> DEFINE j == k - 1
      <4>1. j \in DOMAIN x /\ x[j] = q[k] /\ j \in Nat /\ j + 1 = k
        BY <1>1, <3>2
      <4> HIDE DEF j
      <4>2. Lasts(x, j)
        BY <1>2, <2>1, <4>1
      <4>3. InWire(a, x)
        BY <2>1, <4>1, <4>2 DEF InWire
      <4>4. QED
        BY <4>3 DEF WithScanner, x
    <3>3. QED
      BY <3>1, <3>2
  <2>2. ASSUME Lasts(q, 0), NEW w \in Thread, w[1] = c, a \in DOMAIN held[w]
        PROVE  WithScanner(a, c)'
    <3>1. Head(wire[c]).op = "push"
      BY <1>1, <2>2, SMTT(30) DEF Lasts, q
    <3>2. a \in DOMAIN held'[w]
      BY <2>2, <3>1
    <3>3. Lasts(q, 1)
      BY <2>2, <1>1 DEF Lasts
    <3>4. Lasts(x, 0)
      BY <1>2, <3>3
    <3>5. QED
      BY <2>2, <3>2, <3>4 DEF WithScanner, x
  <2>3. QED
    BY <1>3, <2>1, <2>2 DEF WithScanner, InWire, q
<1>4. QED
  BY <1>3 DEF Carries

\* A thread of a scanner has what it received.
LEMMA ReceivedDomain ==
  ASSUME NEW s, NEW S
  PROVE  DOMAIN Users(s, S) = {s[i].id : i \in S}
BY DEF Users, Received

\* push_accounts takes every account that the command names to a thread.
LEMMA PushRead ==
  ASSUME RemoteTypes, NEW c \in Conn, push_accounts(c), cli[c] = "up"
  PROVE  /\ \A a \in Names(Head(wire[c])) : \E w \in Thread : w[1] = c /\ a \in DOMAIN held'[w]
         /\ \A w \in Thread : DOMAIN held[w] \subseteq DOMAIN held'[w]
<1> DEFINE s == Head(wire[c]).users
           N == RemoteThreads[c]
           thread(i) == ((push_to[c] + i - 1) % N) + 1
           mine(w) == {i \in DOMAIN s : thread(i) = w[2]}
<1>1. held' = [w \in Thread |-> IF w[1] = c THEN Merge(held[w], Users(s, mine(w))) ELSE held[w]]
  BY Zenon DEF push_accounts
<1>2. wire \in [Conn -> Seq(Command)] /\ held \in [Thread -> UserMap] /\ push_to[c] \in Nat
  BY DEF RemoteTypes
<1>3. DOMAIN s = 1..Len(s) /\ Len(s) \in Nat
  <2>1. Head(wire[c]) \in Command
    BY <1>2, TailTypes DEF push_accounts
  <2>2. s \in Seq([id : Account, height : Nat])
    BY <2>1, CommandTypes
  <2>3. QED
    BY <2>2, LenProperties
<1>4. N \in Nat \ {0}
  BY RemoteAssumption DEF Conn
<1>5. \A i \in DOMAIN s : thread(i) \in 1..N
  <2> HIDE DEF s, N
  <2>1. ASSUME NEW i \in DOMAIN s PROVE thread(i) \in 1..N
    <3>1. push_to[c] + i - 1 \in Nat
      BY <1>2, <1>3
    <3>2. QED
      BY <1>4, <3>1
  <2>2. QED
    BY <2>1
<1> HIDE DEF s, N, thread
<1>6. \A w \in Thread : w[1] = c =>
        DOMAIN held'[w] = DOMAIN held[w] \cup {s[i].id : i \in mine(w)}
  <2> HIDE DEF mine
  <2>1. QED
    BY <1>1, ReceivedDomain DEF Merge
<1>7. ASSUME NEW a \in Names(Head(wire[c]))
      PROVE  \E w \in Thread : w[1] = c /\ a \in DOMAIN held'[w]
  <2>1. PICK i \in DOMAIN s : s[i].id = a
    BY DEF Names, s
  <2> DEFINE w == <<c, thread(i)>>
  <2>2. w \in Thread /\ w[1] = c /\ i \in mine(w)
    BY <1>5, <2>1 DEF Thread, N
  <2> HIDE DEF w, mine
  <2>3. a \in DOMAIN held'[w]
    BY <1>6, <2>1, <2>2
  <2>4. QED
    BY <2>2, <2>3
<1>8. QED
  <2> HIDE DEF mine
  <2>1. \A w \in Thread : w[1] # c => held'[w] = held[w]
    BY <1>1
  <2>2. QED
    BY <1>6, <1>7, <2>1

\* replace_accounts takes every account that the command names to a thread.
LEMMA ReplaceRead ==
  ASSUME RemoteTypes, NEW c \in Conn, replace_accounts(c), cli[c] = "up"
  PROVE  /\ \A a \in Names(Head(wire[c])) : \E w \in Thread : w[1] = c /\ a \in DOMAIN held'[w]
         /\ \A w \in Thread : w[1] # c => held'[w] = held[w]
<1> DEFINE s == Head(wire[c]).users
           N == RemoteThreads[c]
           to == ByCount(Len(s), N)
<1>1. held' = [w \in Thread |-> IF w[1] = c THEN Users(s, to[w[2]]) ELSE held[w]]
  BY DEF replace_accounts
<1>2. wire \in [Conn -> Seq(Command)]
  BY DEF RemoteTypes
<1>3. DOMAIN s = 1..Len(s) /\ Len(s) \in Nat
  <2>1. Head(wire[c]) \in Command
    BY <1>2, TailTypes DEF replace_accounts
  <2>2. s \in Seq([id : Account, height : Nat])
    BY <2>1, CommandTypes
  <2>3. QED
    BY <2>2, LenProperties
<1>4. N \in Nat \ {0}
  BY RemoteAssumption DEF Conn
<1> HIDE DEF s, N
<1>5. UNION {to[i] : i \in 1..N} = 1..Len(s)
  BY <1>3, <1>4, CountAlwaysDealt DEF CountDealt
<1> HIDE DEF to
<1>6. ASSUME NEW a \in Names(Head(wire[c]))
      PROVE  \E w \in Thread : w[1] = c /\ a \in DOMAIN held'[w]
  <2>1. PICK p \in DOMAIN s : s[p].id = a
    BY DEF Names, s
  <2>2. PICK i \in 1..N : p \in to[i]
    BY <1>3, <1>5, <2>1
  <2> DEFINE w == <<c, i>>
  <2>3. w \in Thread /\ w[1] = c /\ w[2] = i
    BY DEF Thread, N
  <2> HIDE DEF w
  <2>4. held'[w] = Users(s, to[i])
    BY <1>1, <2>3
  <2>5. DOMAIN Users(s, to[i]) = {s[j].id : j \in to[i]}
    BY ReceivedDomain, Zenon
  <2>6. a \in DOMAIN Users(s, to[i])
    BY <2>1, <2>2, <2>5
  <2>7. QED
    BY <2>3, <2>4, <2>6
<1>7. QED
  BY <1>1, <1>6

\* check_loop gives every active account to a local thread.
LEMMA StartCovers ==
  ASSUME RemoteTypes, check_loop, NEW a \in listed'
  PROVE  WithLocal(a)'
<1>1. Locals \in Nat \ {0} /\ a \in active
  BY RemoteAssumption DEF check_loop
<1>2. PICK s \in ByHeight(active) :
        held' = [w \in Thread |->
                  IF w[1] = 0 THEN Copies({s[p] : p \in ByCount(Len(s), Locals)[w[2]]}) ELSE held[w]]
  BY DEF check_loop
<1>3. Len(s) \in Nat /\ \E p \in 1..Len(s) : s[p] = a
  <2>1. active \in SUBSET Account /\ s \in SetToSeqs(active)
    BY DEF RemoteTypes, ByHeight
  <2>2. IsFiniteSet(active)
    <3>1. IsFiniteSet(Account)
      BY FS_Interval, RemoteAssumption DEF Account
    <3>2. QED
      BY <2>1, <3>1, FS_Subset
  <2>3. QED
    BY <1>1, <2>1, <2>2, SomeOrder
<1>4. PICK p \in 1..Len(s) : s[p] = a
  BY <1>3
<1>5. PICK i \in 1..Locals : p \in ByCount(Len(s), Locals)[i]
  <2> DEFINE n == Len(s)
             to == ByCount(n, Locals)
  <2>1. n \in Nat /\ p \in 1..n
    BY <1>3
  <2> HIDE DEF n
  <2>2. UNION {to[k] : k \in 1..Locals} = 1..n
    BY <1>1, <2>1, CountAlwaysDealt DEF CountDealt
  <2> HIDE DEF to
  <2>3. \E k \in 1..Locals : p \in to[k]
    BY <2>1, <2>2
  <2>4. QED
    BY <2>3 DEF to, n
<1> DEFINE w == <<0, i>>
           S == {s[k] : k \in ByCount(Len(s), Locals)[i]}
<1>6. w \in Thread /\ w[1] = 0 /\ w[2] = i
  BY DEF Thread
<1>7. a \in S
  BY <1>4, <1>5
<1>8. held'[w] = Copies(S)
  <2> HIDE DEF w
  <2> QED BY <1>2, <1>6
<1> HIDE DEF w, S
<1>9. a \in DOMAIN held'[w]
  BY <1>7, <1>8 DEF Copies
<1>10. QED
  BY <1>6, <1>9 DEF WithLocal

\* Each operation keeps the list covered.
LEMMA CoverKept ==
  ASSUME RemoteTypes, TurnInv, CoverInv, Next \/ UNCHANGED vars
  PROVE  CoverInv'
<1>1. /\ remote \in SUBSET Conn /\ threads \in [Conn -> Nat] /\ listed \in SUBSET Account
      /\ srv \in [Conn -> {"open", "closing", "gone"}]
      /\ cli \in [Conn -> {"up", "orphan", "late", "down"}] /\ given \in [Conn -> SUBSET Account]
      /\ wire \in [Conn -> Seq(Command)] /\ held \in [Thread -> UserMap]
  BY DEF RemoteTypes
<1>2. \A c \in Conn : c # 0
  BY RemoteAssumption DEF Conn
<1>3. ASSUME NEW c \in Conn, UNCHANGED <<wire, held, cli, given>> PROVE Keeps(c)
  BY <1>3, WireStays, KeepsDealt
\* The threads and the list stay, and connections only end.
<1>4. ASSUME UNCHANGED <<running, dead, threads, listed, left, given, remote, wire, held, cli>>,
             \A c \in remote : srv[c] # "open" => srv'[c] # "open"
      PROVE  CoverInv'
  <2>1. Covering
    BY <1>1, <1>3, <1>4 DEF Covering, Up, AnyThread, Gone, Connected
  <2>2. QED
    BY <2>1, CoverFrame
\* do_replace_users gives every account that is listed then.
<1>5. ASSUME NEW th \in [Conn -> Nat], do_replace_users(th), threads' = th
      PROVE  CoverInv'
  <2> SUFFICES ASSUME Up', AnyThread(remote', threads'), NEW a \in listed'
               PROVE  \/ a \in left' \/ Unnoticed' \/ WithLocal(a)'
                      \/ \E c \in remote' : Kept(a, c)'
    BY DEF CoverInv
  <2>1. GivenTo(a)
    BY <1>5, ReplaceDeals
  <2>2. QED
    BY <2>1 DEF GivenTo, Unnoticed, WithLocal, WithScanner, Kept
<1>6. ASSUME ~ Up' PROVE CoverInv'
  BY <1>6 DEF CoverInv
<1>7. CASE Mine
  BY <1>4, <1>7 DEF Mine, server_vars, client_vars
<1>8. ASSUME NEW a \in Account, activate(a) \/ deactivate(a) \/ rescan(a) PROVE CoverInv'
  BY <1>4, <1>8 DEF activate, deactivate, rescan, server_vars, client_vars
<1>9. CASE check_users_replace
  BY <1>1, <1>5, <1>9 DEF check_users_replace
<1>10. CASE check_users_push
  <2>1. CASE dead'
    BY <1>6, <2>1 DEF Up
  <2>2. CASE ~ dead'
    <3>1. Pushing /\ Dealing
      BY <1>10, <2>2, PushDeals
    <3>2. /\ Up /\ AnyThread(remote, threads) /\ listed \subseteq active
          /\ UNCHANGED <<running, remote, threads, cli>>
      BY <1>10 DEF check_users_push, Shrunk, client_vars
    <3>3. SUFFICES ASSUME NEW a \in listed'
                   PROVE  \/ a \in left' \/ Unnoticed' \/ WithLocal(a)'
                          \/ \E c \in remote' : Kept(a, c)'
      BY DEF CoverInv
    <3>4. CASE a \in NewUsers
      <4>1. GivenTo(a)
        BY <3>1, <3>4 DEF Pushing
      <4>2. QED
        BY <4>1 DEF GivenTo, Unnoticed, WithLocal, WithScanner, Kept
    <3>5. CASE a \notin NewUsers
      <4>1. a \in listed
        BY <3>1, <3>5 DEF Pushing, NewUsers
      <4>2. a \in left \/ Unnoticed \/ WithLocal(a) \/ \E c \in remote : Kept(a, c)
        BY <3>2, <4>1 DEF CoverInv
      <4>3. CASE a \in left
        BY <3>1, <4>3 DEF Pushing
      <4>4. CASE Unnoticed
        BY <1>1, <3>1, <3>2, <4>4 DEF Dealing, Unnoticed, Connected
      <4>5. CASE WithLocal(a)
        BY <3>1, <4>5 DEF Pushing, WithLocal
      <4>6. ASSUME NEW c \in remote, Kept(a, c), srv'[c] = "open"
            PROVE  Kept(a, c)'
        <5>1. /\ given[c] \subseteq given'[c]
              /\ InWire(a, wire[c]) => InWire(a, wire'[c])
              /\ Lasts(wire[c], 0) => Lasts(wire'[c], 0)
              /\ \A w \in Thread : DOMAIN held[w] \subseteq DOMAIN held'[w]
          BY <1>1, <3>1, <4>6 DEF Pushing
        <5>2. cli'[c] = cli[c]
          BY <3>2
        <5>3. QED
          BY <4>6, <5>1, <5>2 DEF WithScanner, Kept
      <4>7. QED
        BY <3>2, <4>2, <4>3, <4>4, <4>5, <4>6 DEF Unnoticed
    <3>6. QED
      BY <3>4, <3>5
  <2>3. QED
    BY <2>1, <2>2
<1>11. ASSUME NEW c \in Conn, connect(c) PROVE CoverInv'
  <2>1. /\ c \notin remote /\ remote' = remote \cup {c}
        /\ threads' = [threads EXCEPT ![c] = 0]
        /\ srv' = [srv EXCEPT ![c] = "open"]
        /\ cli' = [cli EXCEPT ![c] = IF @ = "late" THEN "orphan" ELSE "up"]
        /\ given' = [given EXCEPT ![c] = {}] /\ wire' = [wire EXCEPT ![c] = << >>]
        /\ UNCHANGED <<running, dead, listed, left, held>>
    BY <1>11 DEF connect
  <2>2. AnyThread(remote', threads') => AnyThread(remote, threads)
    BY <1>1, <2>1 DEF AnyThread
  <2>3. ASSUME NEW d \in remote PROVE Keeps(d) /\ (Gone(d) => Gone(d)')
    <3>1. wire'[d] = wire[d] /\ srv'[d] = srv[d] /\ cli'[d] = cli[d] /\ given'[d] = given[d]
      BY <1>1, <2>1
    <3>2. Keeps(d)
      BY <2>1, <3>1, WireStays, KeepsDealt
    <3>3. QED
      BY <3>1, <3>2 DEF Gone, Connected
  <2>4. Covering
    BY <2>1, <2>2, <2>3 DEF Covering, Up
  <2>5. QED
    BY <2>4, CoverFrame
<1>12. ASSUME NEW c \in Conn, initialize(c) PROVE CoverInv'
  <2>1. CASE Head(up[c]).ok
    <3>1. /\ threads' = [threads EXCEPT ![c] = RemoteThreads[c]]
          /\ do_replace_users([threads EXCEPT ![c] = RemoteThreads[c]])
      BY <1>12, <2>1 DEF initialize
    <3>2. [threads EXCEPT ![c] = RemoteThreads[c]] \in [Conn -> Nat]
      BY <1>1, RemoteAssumption DEF Conn
    <3>3. QED
      BY <1>5, <3>1, <3>2
  <2>2. CASE ~ Head(up[c]).ok
    <3>1. /\ srv' = [srv EXCEPT ![c] = "gone"]
          /\ UNCHANGED <<threads, remote, wire, listed, left, given, held, running, dead, cli>>
      BY <1>12, <2>2 DEF initialize, client_vars
    <3>2. \A d \in remote : srv[d] # "open" => srv'[d] # "open"
      BY <1>1, <3>1
    <3>3. QED
      BY <1>4, <3>1, <3>2
  <2>3. QED
    BY <2>1, <2>2
<1>13. ASSUME NEW c \in Conn, update_accounts(c) PROVE CoverInv'
  <2>1. CASE UNCHANGED <<server_vars, held>>
    BY <1>4, <1>13, <2>1 DEF update_accounts, server_vars, client_vars
  <2>2. CASE do_stop
    BY <1>6, <2>2 DEF do_stop, Up
  <2>3. QED
    BY <1>13, <2>1, <2>2 DEF update_accounts
<1>14. ASSUME NEW c \in Conn, lost(c) \/ end_of_stream(c) \/ release(c) PROVE CoverInv'
  <2>1. /\ UNCHANGED <<running, dead, threads, listed, left, given, remote, wire, held, cli>>
        /\ srv' = [srv EXCEPT ![c] = "closing"] \/ srv' = [srv EXCEPT ![c] = "gone"]
    BY <1>14 DEF lost, end_of_stream, release, client_vars
  <2>2. \A d \in remote : srv[d] # "open" => srv'[d] # "open"
    BY <1>1, <2>1
  <2>3. QED
    BY <1>4, <2>1, <2>2
\* A command is read: the other scanners have nothing to do with it.
<1>15. ASSUME NEW c \in Conn, UNCHANGED server_vars, UNCHANGED cli,
              wire' = [wire EXCEPT ![c] = Tail(@)],
              \A w \in Thread : w[1] # c => held'[w] = held[w], Keeps(c)
       PROVE  CoverInv'
  <2>1. UNCHANGED <<running, dead, threads, listed, left, given, remote, srv>>
    BY <1>15 DEF server_vars
  <2>2. ASSUME NEW d \in remote PROVE Keeps(d)
    <3>1. CASE d = c
      BY <1>15, <3>1
    <3>2. CASE d # c
      <4>1. wire'[d] = wire[d] /\ \A w \in Thread : w[1] = d => held'[w] = held[w]
        BY <1>1, <1>15, <3>2
      <4>2. given'[d] = given[d] /\ cli'[d] = cli[d]
        BY <1>15, <2>1
      <4>3. QED
        BY <4>1, <4>2, WireStays, KeepsDealt
    <3>3. QED
      BY <3>1, <3>2
  <2>3. \A w \in Thread : w[1] = 0 => held'[w] = held[w]
    BY <1>2, <1>15
  <2>4. Covering
    BY <1>15, <2>1, <2>2, <2>3 DEF Covering, Up, AnyThread, Gone, Connected
  <2>5. QED
    BY <2>4, CoverFrame
\* A process stops its clients: what one that is left behind was dealt is
\* still its own, and other processes have nothing to do with it.
<1>16. ASSUME NEW c \in Conn, UNCHANGED server_vars, Stopped(c)
       PROVE  CoverInv'
  <2>1. UNCHANGED <<running, dead, threads, listed, left, given, remote, srv>>
    BY <1>16 DEF server_vars
  <2>2. \A w \in Thread : held'[w] = IF w[1] # 0 /\ Process[w[1]] = Process[c]
                                    THEN NoUsers ELSE held[w]
    BY <1>16, DropTypes DEF Stopped
  <2>3. ASSUME NEW d \in remote PROVE (Gone(d) => Gone(d)') /\ (Gone(d)' \/ Keeps(d))
    <3>1. CASE cli'[d] \in {"down", "late"}
      BY <3>1 DEF Gone, Connected
    <3>2. CASE cli'[d] = "orphan" /\ cli[d] \in {"up", "orphan"}
      <4>1. Keeps(d)
        BY <2>1, <3>2, KeepsDealt
      <4>2. QED
        BY <2>1, <3>2, <4>1 DEF Gone, Connected
    <3>3. CASE cli'[d] = cli[d] /\ wire'[d] = wire[d] /\ (cli[d] = "up" => Process[d] # Process[c])
      <4>1. CASE cli[d] = "up"
        <5>1. \A w \in Thread : w[1] = d => held'[w] = held[w]
          BY <2>2, <3>3, <4>1
        <5>2. Keeps(d)
          BY <2>1, <3>3, <5>1, WireStays, KeepsDealt
        <5>3. QED
          BY <2>1, <3>3, <5>2 DEF Gone, Connected
      <4>2. CASE cli[d] = "orphan"
        <5>1. Keeps(d)
          BY <2>1, <3>3, <4>2, KeepsDealt
        <5>2. QED
          BY <2>1, <3>3, <5>1 DEF Gone, Connected
      <4>3. CASE cli[d] \in {"late", "down"}
        BY <3>3, <4>3 DEF Gone, Connected
      <4>4. QED
        BY <1>1, <4>1, <4>2, <4>3
    <3>4. QED
      BY <1>1, <1>16, <3>1, <3>2, <3>3 DEF Stopped
  <2>4. \A w \in Thread : w[1] = 0 => held'[w] = held[w]
    BY <1>2, <2>2
  <2>5. Covering
    BY <2>1, <2>3, <2>4 DEF Covering, Up, AnyThread
  <2>6. QED
    BY <2>5, CoverFrame
\* The copies of a thread advance.
<1>17. ASSUME NEW w \in Thread, NEW last, held' = [held EXCEPT ![w] = Advanced(held[w], last)],
              UNCHANGED <<server_vars, cli, wire>>
       PROVE  CoverInv'
  <2>1. UNCHANGED <<running, dead, threads, listed, left, given, remote, srv, cli, wire>>
    BY <1>17 DEF server_vars
  <2>2. \A v \in Thread : DOMAIN held'[v] = DOMAIN held[v]
    BY <1>1, <1>17 DEF Advanced
  <2>3. \A d \in remote : Keeps(d)
    BY <2>1, <2>2, WireStays, KeepsDealt
  <2>4. Covering
    BY <2>1, <2>2, <2>3 DEF Covering, Up, AnyThread, Gone, Connected
  <2>5. QED
    BY <2>4, CoverFrame
<1>18. ASSUME NEW c \in Conn, push_accounts(c) PROVE CoverInv'
  <2>1. /\ UNCHANGED server_vars /\ UNCHANGED cli
        /\ wire[c] # << >> /\ wire' = [wire EXCEPT ![c] = Tail(@)]
        /\ \A w \in Thread : w[1] # c => held'[w] = held[w]
    BY <1>18 DEF push_accounts
  <2>2. wire'[c] = Tail(wire[c])
    BY <1>1, <2>1
  <2>3. Keeps(c)
    <3>1. given'[c] = given[c] /\ cli'[c] = cli[c] /\ cli[c] \in {"up", "orphan"}
      BY <1>18, <2>1 DEF push_accounts, Connected, server_vars
    <3>2. CASE cli[c] = "up"
      <4>1. Carries(c)
        BY <1>18, <2>1, <2>2, <3>2, PushRead, CommandRead
      <4>2. QED
        BY <3>1, <4>1, KeepsDealt
    <3>3. QED
      BY <3>1, <3>2, KeepsDealt
  <2>4. QED
    BY <1>15, <2>1, <2>3
<1>19. ASSUME NEW c \in Conn, replace_accounts(c) PROVE CoverInv'
  <2>1. /\ UNCHANGED server_vars /\ UNCHANGED cli
        /\ wire[c] # << >> /\ wire' = [wire EXCEPT ![c] = Tail(@)]
        /\ Head(wire[c]).op = "replace"
    BY <1>19 DEF replace_accounts
  <2>2. wire'[c] = Tail(wire[c])
    BY <1>1, <2>1
  <2>3. Keeps(c)
    <3>1. given'[c] = given[c] /\ cli'[c] = cli[c] /\ cli[c] \in {"up", "orphan"}
      BY <1>19, <2>1 DEF replace_accounts, Connected, server_vars
    <3>2. CASE cli[c] = "up"
      <4>1. Carries(c)
        BY <1>19, <2>1, <2>2, <3>2, ReplaceRead, CommandRead
      <4>2. QED
        BY <3>1, <4>1, KeepsDealt
    <3>3. QED
      BY <3>1, <3>2, KeepsDealt
  <2>4. \A w \in Thread : w[1] # c => held'[w] = held[w]
    BY <1>19 DEF replace_accounts
  <2>5. QED
    BY <1>15, <2>1, <2>3, <2>4
<1>20. ASSUME NEW c \in Conn, send_update(c) PROVE CoverInv'
  <2>1. PICK w \in Thread, last \in 1..MaxTip :
          \/ cleanup(c)
          \/ /\ held' = [held EXCEPT ![w] = Advanced(@, last)]
             /\ UNCHANGED <<cli, wire>>
    BY <1>20, Zenon DEF send_update
  <2>2. UNCHANGED server_vars
    BY <1>20 DEF send_update
  <2>3. QED
    BY <1>16, <1>17, <2>1, <2>2, ClientsStop
<1>21. ASSUME NEW c \in Conn, disconnect(c) \/ soft_stop(c) \/ exit(c) PROVE CoverInv'
  <2>1. Stopped(c)
    BY <1>21, ClientsStop DEF disconnect
  <2>2. UNCHANGED server_vars
    BY <1>21, Zenon DEF disconnect, soft_stop, exit
  <2>3. QED
    BY <1>16, <2>1, <2>2
<1>22. ASSUME NEW i \in 1..Locals, local_scan(i) PROVE CoverInv'
  <2> DEFINE w == <<0, i>>
  <2>1. w \in Thread
    BY DEF Thread
  <2>2. PICK last \in 1..MaxTip :
          \/ held' = [held EXCEPT ![<<0, i>>] = Advanced(held[<<0, i>>], last)] /\ UNCHANGED server_vars
          \/ do_stop
    BY <1>22, Zenon DEF local_scan
  <2>3. UNCHANGED <<cli, wire>>
    BY <1>22 DEF local_scan, client_vars
  <2>4. CASE do_stop
    BY <1>6, <2>4 DEF do_stop, Up
  <2>5. CASE held' = [held EXCEPT ![w] = Advanced(held[w], last)] /\ UNCHANGED server_vars
    <3> HIDE DEF w
    <3>1. QED
      BY <1>17, <2>1, <2>3, <2>5
  <2>6. QED
    BY <2>2, <2>4, <2>5
<1>23. CASE check_loop
  <2>1. \A a \in listed' : WithLocal(a)'
    BY <1>23, StartCovers
  <2>2. QED
    BY <2>1 DEF CoverInv
<1>24. CASE UNCHANGED vars
  BY <1>4, <1>24 DEF vars, server_vars, client_vars
<1>25. QED
  BY <1>7, <1>8, <1>9, <1>10, <1>11, <1>12, <1>13, <1>14, <1>18, <1>19, <1>20, <1>21, <1>22, <1>23,
     <1>24, Zenon DEF Next

\* Covered: an account that the server lists is with a thread, or on its way to
\* one in a command that its scanner reads, or the next check deals everything
\* again, or the dealing left it out, or it was dealt to a connection that its
\* process has left behind without threads, however commands, lost connections,
\* soft errors, reconnections and restarts mix.
THEOREM ListedCovered == Spec => []Covered
<1>1. Init => RemoteTypes /\ TurnInv /\ CoverInv
  <2>1. Init => CoverInv
    BY DEF Init, CoverInv
  <2>2. QED
    BY <2>1, TurnInit
<1>2. RemoteTypes /\ TurnInv /\ CoverInv /\ [Next]_vars => (RemoteTypes /\ TurnInv /\ CoverInv)'
  <2> SUFFICES ASSUME RemoteTypes, TurnInv, CoverInv, Next \/ UNCHANGED vars
               PROVE  RemoteTypes' /\ TurnInv' /\ CoverInv'
    OBVIOUS
  <2>1. QED
    BY TypesKept, TurnKept, CoverKept
<1>3. RemoteTypes /\ CoverInv => Covered
  <2> SUFFICES ASSUME RemoteTypes, CoverInv, Up, AnyThread(remote, threads), NEW a \in listed
               PROVE  a \in left \/ Unnoticed \/ Stranded(a) \/ InHands(a)
    BY DEF Covered
  <2>1. a \in left \/ Unnoticed \/ WithLocal(a) \/ \E c \in remote : Kept(a, c)
    BY DEF CoverInv
  <2>2. ASSUME NEW c \in remote, InWire(a, wire[c]), cli[c] = "up" PROVE InFlight(a)
    <3>1. PICK k \in DOMAIN wire[c] : a \in Names(wire[c][k])
      BY <2>2 DEF InWire
    <3>2. PICK i \in DOMAIN wire[c][k].users : wire[c][k].users[i].id = a
      BY <3>1 DEF Names
    <3>3. wire[c][k] \in Range(wire[c]) /\ wire[c][k].users[i] \in Range(wire[c][k].users)
      BY DEF Range
    <3>4. QED
      BY <2>2, <3>2, <3>3 DEF InFlight
  <2>3. ASSUME NEW c \in remote, Kept(a, c), ~ Unnoticed PROVE Stranded(a) \/ InHands(a)
    <3>1. cli[c] \in {"up", "orphan"} /\ a \in given[c]
      BY <2>3 DEF Unnoticed, Connected, Kept
    <3>2. CASE cli[c] = "orphan"
      BY <3>1, <3>2 DEF Stranded
    <3>3. CASE cli[c] = "up"
      BY <2>2, <2>3, <3>3 DEF Kept, WithScanner, InHands
    <3>4. QED
      BY <3>1, <3>2, <3>3
  <2>4. QED
    BY <2>1, <2>3 DEF WithLocal, InHands
<1>4. QED
  BY <1>1, <1>2, <1>3, PTL DEF Spec

=============================================================================
