------------------------------ MODULE MCRemote ------------------------------
(***************************************************************************)
(* Instances of Remote and Assignment for TLC.  The focus splits the run   *)
(* into parts that are explored side by side: one scanner with two threads *)
(* and two accounts, the same with a third account for the turns, two      *)
(* scanners and one account, one scanner that stops by itself and connects *)
(* again, and the algorithms of Assignment on every small input.           *)
(***************************************************************************)
EXTENDS Remote

VARIABLES focus, input

RemoteThreadsMC == <<1, 2, 1>>
ProcessMC == <<1, 2, 1>>

\* Sorted sequences of up to n values.
Sorted(S, n) ==
  UNION {{s \in [1..k -> S] : \A i \in 1..k - 1 : s[i] <= s[i + 1]} : k \in 0..n}

Inputs ==
  [kind : {"count"}, n : 0..8, threads : 1..5]
  \cup [kind : {"replace"}, n : 0..7, locals : 0..2, threshold : {0, 2},
        remotes : UNION {[1..k -> 0..3] : k \in 0..2}]
  \cup [kind : {"depth"}, depths : Sorted(1..5, 5) \ {<< >>}, threads : 1..4]
  \cup [kind : {"split"}, raw : Sorted(0..3, 4), synced : 1..3, threads : 1..3]
  \cup UNION {[kind : {"best"}, h : 0..3, heights : [1..k -> 0..3], counts : [1..k -> 0..2]]
              : k \in 1..3}

NoInput == [kind |-> "none"]

MCInit ==
  /\ Init
  /\ \/ focus = "one" /\ input = NoInput /\ active \in SUBSET {1, 2}
     \/ focus = "turns" /\ input = NoInput /\ active = {1}
     \/ focus = "two" /\ input = NoInput /\ active = {1}
     \/ focus = "again" /\ input = NoInput /\ active \in {{1}, {1, 2}}
     \/ focus = "deal" /\ input \in Inputs /\ active = {}

\* No scanner has a wrong password.
Welcome == \A c \in Conn : \A u \in Range(up[c]) : u.ok

MCNext ==
  /\ focus # "deal"
  /\ Next
  /\ focus = "one" => remote' \subseteq {2} /\ active' \subseteq {1, 2}
  /\ focus = "turns" => remote' \subseteq {2} /\ tip' = 1 /\ ~ rescans' /\ active \subseteq active'
  /\ focus = "two" => /\ remote' \subseteq {1, 2} /\ active' = {1} /\ tip' = 1 /\ ~ rescans'
                      /\ ops' <= 1 /\ Welcome'
  /\ focus = "again" => /\ remote' \subseteq {1, 3} /\ active' = active /\ tip' = 1 /\ ~ rescans'
                        /\ ops' + Cardinality(active') <= 2 /\ Welcome'
  /\ UNCHANGED <<focus, input>>

MCSpec == MCInit /\ [][MCNext]_<<vars, focus, input>> /\ Fairness

\* The dealing algorithms on every small input.  By count, over local threads
\* and scanners, and with synced threads: no account twice and none forgotten,
\* with the exceptions that the operators of Assignment name.  By block depth,
\* and for the thread of a new account: the load targets that check_loop and
\* check_users are after are met as well.
Dealt ==
  CASE input.kind = "count" -> CountDealt(input.n, input.threads)
    [] input.kind = "replace" ->
         input.locals + ThreadsOf(input.remotes) > 0 =>
           ReplaceDealt(input.n, input.locals, input.remotes, input.threshold)
    [] input.kind = "split" ->
         input.synced <= input.threads => SplitDealt(input.raw, 1, 1, input.synced, input.threads)
    [] input.kind = "depth" -> DepthDealt(input.depths, input.threads)
    [] input.kind = "best" -> BestFits(input.h, input.heights, input.counts)
    [] OTHER -> TRUE

============================================================================
