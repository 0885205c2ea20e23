---------------------------- MODULE KexRegistry ----------------------------
(***************************************************************************)
(* The registry of multisig key exchanges (src/src/rest_server.cpp): the   *)
(* participants of a wallet submit their key exchange messages, round by   *)
(* round, and one of them finalises the wallet, which also registers it in *)
(* the multisig store.  Every handler runs on one of the REST threads and  *)
(* holds lws_multisig_kex_mutex, except that multisig_kex_finalize lets go *)
(* of it before the store is called and takes it again to undo its change. *)
(*                                                                         *)
(* Thresholds and a record's address decide nothing and are left out.      *)
(* Requests that are refused before the mutex is taken are stuttering.     *)
(***************************************************************************)
EXTENDS MultisigStore, Sequences

CONSTANTS
  Thread,           \* the REST threads (--rest-threads)
  Submission,       \* submit requests: wallet, context, participant, info, round, total
  Stamp,            \* created_at of submit requests, in seconds; 0 is "not given"
  FinalStatus,      \* statuses of finalize requests
  KexMaxEntries, KexTtl,
  KexMaxPeers,      \* limit of the reader on participants and peers
  KexMaxRecords,    \* limit of the reader on records
  MaxNow            \* bound: the clock

ASSUME KexAssumption ==
  /\ {KexMaxEntries, KexTtl, KexMaxPeers, KexMaxRecords, MaxNow} \subseteq Nat
  /\ \A q \in Submission : q.wallet \in WalletId /\ q.round \in Nat \ {0} /\ q.total \in 1..8
  /\ Stamp \subseteq Nat

VARIABLES
  kex,        \* lws_multisig_kex_records
  kexFile,    \* the registry file; it is replaced by rename, never torn
  fin,        \* per thread: a finalize request between its two critical sections
  now,        \* txset_unix_now
  stored      \* history: submissions answered with success and still due

kexVars == <<kex, kexFile, fin, now, stored>>
vars == <<storeVars, kexVars>>

Free == [step |-> "free"]
Idle(t) == phase = "up" /\ fin[t].step = "free"

Ids(S) == {r.wallet_id : r \in S}
Of(S, w) == CHOOSE r \in S : r.wallet_id = w
With(S, r) == {x \in S : x.wallet_id # r.wallet_id} \cup {r}

\* Submissions of records that are gone are no longer due.
Due(S) == {s \in stored : s.wallet \in Ids(S)}

-----------------------------------------------------------------------------
(* Expiry and eviction.                                                    *)

Final(r) == r.state \in {"active", "finalized"}

multisig_kex_is_expired(r) ==
  ~Final(r) /\ now > Max({r.created_at, r.updated_at}) + KexTtl

\* The outcomes of prune_lws_multisig_kex_locked: expired records go, then the
\* least recently updated ones until there is room for one more.  The order of
\* an unordered_map decides between equals.
Pruned ==
  LET live == {r \in kex : ~multisig_kex_is_expired(r)}
      loose == {r \in live : ~Final(r)}
      excess == Max({0, Cardinality(live) - KexMaxEntries + 1})
  IN  {live \ gone : gone \in
        {g \in SUBSET loose :
           /\ Cardinality(g) = Min({excess, Cardinality(loose)})
           /\ \A r \in g, s \in loose \ g : r.updated_at <= s.updated_at}}

\* save_lws_multisig_kex_registry_locked; n counts failed saves so far.
KexSave(S, f, n) ==
  {<<S, n>>} \cup IF n < MaxFailures THEN {<<f, n + 1>>} ELSE {}

\* prune saves only when it changed something, and ignores the result.
PruneSave(S) ==
  IF S = kex THEN {<<kexFile, failures>>} ELSE KexSave(S, kexFile, failures)

-----------------------------------------------------------------------------
(* multisig_kex_submit                                                     *)

participants_for_kex(c, p) ==
  <<p, "oracle", IF c = "task_payment" THEN "pool" ELSE "dao">>

Joined(list, p) == IF \E i \in 1..Len(list) : list[i] = p THEN list ELSE Append(list, p)

NewRecord(q, c) ==
  [wallet_id |-> q.wallet, context |-> q.context, total |-> q.total,
   participants |-> participants_for_kex(q.context, q.participant), peers |-> {},
   state |-> "pending_peers", created_at |-> IF c = 0 THEN now ELSE c, updated_at |-> 0]

\* Mutant: peers of every round count.
PeersOfAnyRound(r, p, n) == {x \in r.peers : x.participant # p}

\* peer_infos_for_round
PeersOfRound(r, p, n) == {x \in r.peers : x.participant # p /\ x.round = n}

\* Mutant: the new message replaces those of the others.
SubmittedAlone(r, q) ==
  [r EXCEPT !.total = q.total, !.updated_at = now,
            !.peers = {[participant |-> q.participant, info |-> q.info, round |-> q.round]}]

Submitted(r, q) ==
  LET peer == [participant |-> q.participant, info |-> q.info, round |-> q.round]
      next == [r EXCEPT !.total = q.total, !.updated_at = now,
                        !.participants = Joined(@, q.participant),
                        !.peers = {x \in @ : x.participant # q.participant} \cup {peer}]
      all == Cardinality(PeersOfRound(next, q.participant, q.round)) >= q.total - 1
  IN  [next EXCEPT !.state = IF @ = "active" THEN @
                             ELSE IF all THEN "ready_to_make" ELSE "pending_peers"]

\* The registry is full of finalised wallets, or the id is in use.
SubmitRefused(S, q) ==
  IF q.wallet \in Ids(S) THEN Of(S, q.wallet).context # q.context
  ELSE Cardinality(S) >= KexMaxEntries

SubmittedTo(S, q, c) ==
  With(S, Submitted(IF q.wallet \in Ids(S) THEN Of(S, q.wallet) ELSE NewRecord(q, c), q))

Receipt(q) == [wallet |-> q.wallet, participant |-> q.participant,
               info |-> q.info, round |-> q.round]

\* A submission counts until its participant submits again.
Acknowledge(S, q) ==
  {s \in Due(S) : s.wallet # q.wallet \/ s.participant # q.participant} \cup {Receipt(q)}

multisig_kex_submit(t, q, c) ==
  /\ Idle(t)
  /\ \E S \in Pruned : \E p \in PruneSave(S) :
       \/ /\ ~SubmitRefused(S, q)
          /\ kex' = SubmittedTo(S, q, c)
          /\ kexFile' = kex' /\ failures' = p[2]
          /\ stored' = Acknowledge(S, q)
       \/ /\ ~SubmitRefused(S, q)       \* the save fails: the record is put back
          /\ p[2] < MaxFailures
          /\ kex' = S
          /\ kexFile' = p[1] /\ failures' = p[2] + 1
          /\ stored' = Due(S)
       \/ /\ SubmitRefused(S, q)
          /\ kex' = S
          /\ kexFile' = p[1] /\ failures' = p[2]
          /\ stored' = Due(S)
  /\ UNCHANGED <<fin, now, data, wallets, file, phase, torn, crashes, acked, spoiled>>

\* A status request prunes as well.
multisig_kex_status(t) ==
  /\ Idle(t)
  /\ \E S \in Pruned : \E p \in PruneSave(S) :
       kex' = S /\ kexFile' = p[1] /\ failures' = p[2] /\ stored' = Due(S)
  /\ UNCHANGED <<fin, now, data, wallets, file, phase, torn, crashes, acked, spoiled>>

-----------------------------------------------------------------------------
(* multisig_kex_finalize: update the record, register the wallet, and put  *)
(* the old record back when the wallet could not be saved.  When the first *)
(* save fails, the record is put back under the same lock: stuttering.     *)

multisig_kex_finalize(t, w, a, s) ==
  /\ Idle(t)
  /\ w \in Ids(kex)
  /\ LET next == [Of(kex, w) EXCEPT !.state = s, !.updated_at = now]
     IN  /\ kex' = With(kex, next)
         /\ kexFile' = kex'
         /\ fin' = [fin EXCEPT ![t] =
              [step |-> "register", previous |-> Of(kex, w),
               wallet |-> [id |-> w, address |-> a,
                           members |-> Len(next.participants)]]]
  /\ UNCHANGED <<now, stored, storeVars>>

finalize_register(t) ==
  /\ phase = "up" /\ fin[t].step = "register"
  /\ \E ok \in BOOLEAN :
       /\ register_wallet(fin[t].wallet, ok)
       /\ fin' = [fin EXCEPT ![t] = IF ok THEN Free ELSE [@ EXCEPT !.step = "undo"]]
  /\ UNCHANGED <<kex, kexFile, now, stored>>

\* The result of the save is ignored.
finalize_undo(t) ==
  /\ phase = "up" /\ fin[t].step = "undo"
  /\ kex' = With(kex, fin[t].previous)
  /\ \E p \in KexSave(kex', kexFile, failures) : kexFile' = p[1] /\ failures' = p[2]
  /\ fin' = [fin EXCEPT ![t] = Free]
  /\ UNCHANGED <<now, stored, data, wallets, file, phase, torn, crashes, acked, spoiled>>

-----------------------------------------------------------------------------
(* The process.                                                            *)

Loadable(S) ==
  /\ Cardinality(S) <= KexMaxRecords
  /\ \A r \in S : Len(r.participants) <= KexMaxPeers /\ Cardinality(r.peers) <= KexMaxPeers

\* The registry is read after the store; a file that cannot be read is ignored.
restart ==
  /\ load
  /\ kex' = IF phase' = "up" /\ Loadable(kexFile) THEN kexFile ELSE {}
  /\ UNCHANGED <<kexFile, fin, now, stored>>

process_ends ==
  /\ crash \/ crash_saving
  /\ kex' = {} /\ fin' = [t \in Thread |-> Free]
  /\ UNCHANGED <<kexFile, now, stored>>

\* The other handlers of the store, on any free thread.
store_handler(t) ==
  /\ Idle(t)
  /\ \/ \E a \in Address, h \in Hash :
          (\E m \in Amount : register_tx_ex(a, h, m)) \/ register_duplicate(a, h)
     \/ multisig_register_wallet
  /\ UNCHANGED kexVars

Tick == now < MaxNow /\ now' = now + 1 /\ UNCHANGED <<kex, kexFile, fin, stored, storeVars>>

Init ==
  /\ StoreInit
  /\ kex = {} /\ kexFile = {} /\ fin = [t \in Thread |-> Free]
  /\ now = KexTtl + 1 /\ stored = {}

Next ==
  \/ \E t \in Thread :
       \/ \E q \in Submission, c \in Stamp : multisig_kex_submit(t, q, c)
       \/ multisig_kex_status(t)
       \/ \E w \in WalletId, a \in Address, s \in FinalStatus : multisig_kex_finalize(t, w, a, s)
       \/ finalize_register(t) \/ finalize_undo(t)
       \/ store_handler(t)
  \/ restart \/ process_ends \/ Tick

Spec == Init /\ [][Next]_vars

-----------------------------------------------------------------------------
\* multisig_kex_submit answered "LWS KEX peer info stored": the registry has
\* it until the participant replaces it or the record expires or is evicted,
\* also after a restart.
KexAcked ==
  phase = "up" =>
    \A s \in stored : \E r \in kex :
      /\ r.wallet_id = s.wallet
      /\ [participant |-> s.participant, info |-> s.info, round |-> s.round] \in r.peers

\* "ready_to_make" means that as many participants as the wallet has are in
\* the same round, in memory and in the file, through resubmissions, changed
\* totals and undone finalisations.
ReadyMeansAll ==
  \A r \in kex \cup kexFile :
    r.state = "ready_to_make" =>
      \E p \in r.peers : Cardinality({x \in r.peers : x.round = p.round}) >= r.total

\* An active record whose finalisation is over is a wallet of the store, unless
\* the process ended between the two files.
ActiveListed ==
  phase = "up" /\ crashes + torn = 0 =>
    \A r \in kex :
      r.state = "active" /\ (\A t \in Thread : fin[t].step # "free" => fin[t].wallet.id # r.wallet_id)
        => \E w \in wallets : w.id = r.wallet_id

============================================================================
