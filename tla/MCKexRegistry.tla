--------------------------- MODULE MCKexRegistry ---------------------------
(***************************************************************************)
(* Instances of KexRegistry, and of the MultisigStore it extends, for TLC. *)
(* MultisigSpec explores two parts side by side, told apart by the focus:  *)
(* the store alone, with failed and torn saves, crashes and the limits of  *)
(* its reader, and two threads that submit and finalise wallets.           *)
(***************************************************************************)
EXTENDS KexRegistry, TLC

VARIABLE focus

Symmetry == Permutations(Thread) \cup Permutations(Hash)

Submit(w, c, p, i, n, k) ==
  [wallet |-> w, context |-> c, participant |-> p, info |-> i, round |-> n, total |-> k]

\* Two wallets of two participants; on the first, one of them goes on to a
\* second round.  One request has the wrong context.
TwoWallets ==
  {Submit("w1", "miner_stake", "m1", "i", 1, 2), Submit("w1", "miner_stake", "m1", "i", 2, 2),
   Submit("w1", "miner_stake", "oracle", "i", 1, 2),
   Submit("w2", "miner_stake", "m2", "i", 1, 2), Submit("w2", "task_payment", "m2", "i", 1, 2)}

KexInit == Init /\ focus = "kex"

KexSpec == KexInit /\ [][Next /\ UNCHANGED focus]_<<vars, focus>>

\* More wallets than the registry takes.
ThreeWallets == {Submit(w, "miner_stake", "m1", "i", 1, 2) : w \in {"w1", "w2", "w3"}}

\* Only the store: two wallets, one failed save.
StoreOnly ==
  /\ kexVars' = kexVars
  /\ failures' <= 1
  /\ \A w \in wallets' : w.id # "w3"

\* Only the registry, and wallets that finalisations register under one address;
\* the process keeps running.
Threads ==
  /\ crashes' + torn' = 0
  /\ data' = data
  /\ wallets' # wallets => fin' # fin
  /\ \A t \in Thread : fin'[t].step # "free" => fin'[t].wallet.address = "a1"

MultisigInit == Init /\ focus \in {"store", "threads"}

MultisigNext ==
  /\ Next
  /\ focus = "store" => StoreOnly
  /\ focus = "threads" => Threads
  /\ UNCHANGED focus

MultisigSpec == MultisigInit /\ [][MultisigNext]_<<vars, focus>>

============================================================================
