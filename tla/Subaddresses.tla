---------------------------- MODULE Subaddresses ----------------------------
(***************************************************************************)
(* Subaddresses and lookahead.  An account watches the subaddresses in the *)
(* table subaddress_indexes; the table subaddress_ranges holds the same    *)
(* indices as ranges per major index, which is what a wallet is told.      *)
(* do_upsert merges requested ranges into both tables.  It is called for a *)
(* wallet (upsert_subaddrs, provision_subaddrs), for an accepted creation  *)
(* or import request (do_lookahead), and by a scan thread that found an    *)
(* output of a watched subaddress (update_lookahead).  The last two keep   *)
(* what do_upsert had written when it ran into max_subaddresses.           *)
(*                                                                         *)
(* The chain is fixed: block h pays the main address, one subaddress or    *)
(* nothing of the account PayTo.  Rows of a table are keyed by account id; *)
(* an index row also says whose subaddress it is.                          *)
(***************************************************************************)
EXTENDS Integers, Sequences, FiniteSets, SequencesExt

CONSTANTS
  Addresses,     \* account addresses
  PayTo,         \* the one that the chain pays
  Top,           \* height of the chain
  Payments,      \* what a block may pay: Main, Nothing or <<major, minor>>
  Lookaheads,    \* lookaheads <<major, minor>> that wallets ask for
  Requests,      \* what upsert_subaddrs is asked for: sequences of entries
  MaxSubaddresses,
  MajorTop,      \* largest major index of the model
  MaxOps         \* requests of wallets and of the administrator

Main == "main"
Nothing == "nothing"
Majors == 0..MajorTop
Ids == 1..Cardinality(Addresses) + 1
NoLookahead == <<0, 0>>
NoAccount == [id |-> 0, start |-> 0, scan |-> 0, lookahead |-> NoLookahead, fail |-> 0]
NoRequest == [height |-> -1, lookahead |-> NoLookahead]
NoBatch == [from |-> -1, next |-> 0, snapshot |-> {}, found |-> {}, raced |-> FALSE]

\* MajorTop is above every major index that a request or a lookahead reaches.
ASSUME SubAssumption ==
  /\ IsFiniteSet(Addresses) /\ PayTo \in Addresses
  /\ {Top, MaxSubaddresses, MajorTop, MaxOps} \subseteq Nat
  /\ MaxSubaddresses <= MajorTop /\ 2 <= MajorTop
  /\ Lookaheads \subseteq Nat \X Nat
  /\ \A p \in Payments :
       \/ p = Main \/ p = Nothing
       \/ p \in Nat \X Nat /\ \A l \in Lookaheads : p[1] + l[1] <= MajorTop + 1
  /\ Requests \subseteq Seq([major : Majors, ranges : Seq(Nat \X Nat)])

VARIABLES
  pays,       \* pays[h]: what block h pays to PayTo
  account,    \* the accounts table
  creation,   \* requests::create
  importing,  \* requests::import_scan
  ranges,     \* subaddress_ranges: [id -> [major -> sequence of <<first, last>>]]
  indexes,    \* subaddress_indexes: [id -> set of <<address, major, minor>>]
  outputs,    \* outputs of PayTo: records [height, to, clean]
  batch,      \* blocks in the hands of the scan thread of PayTo
  hung,       \* a write transaction that never ends
  torn,       \* ghost: <<id, major>> whose range row an over-full lookahead deleted
  ops         \* requests made

subVars == <<pays, account, creation, importing, ranges, indexes, outputs, batch, hung, torn, ops>>

-----------------------------------------------------------------------------
(* Ranges                                                                  *)

Members(rs) == UNION {r[1]..r[2] : r \in ToSet(rs)}

Size(rs) ==
  LET size[k \in 0..Len(rs)] == IF k = 0 THEN 0 ELSE size[k - 1] + rs[k][2] - rs[k][1] + 1
  IN  size[Len(rs)]

\* check_subaddress_dict: increasing ranges with a gap between any two.
Valid(rs) ==
  /\ \A i \in DOMAIN rs : rs[i][1] <= rs[i][2]
  /\ \A i \in 1..Len(rs) - 1 : rs[i][2] + 1 < rs[i + 1][1]

\* Mutant: a new range that touches a stored one is dropped.
MergeRoundKeepsFirst(p) ==
  LET o == Head(p.old)
      n == Head(p.new)
  IN CASE n[2] + 1 < o[1] ->
            [p EXCEPT !.new = Tail(@), !.rows = Append(@, n), !.out = Append(@, n)]
       [] o[2] + 1 < n[1] -> [p EXCEPT !.old = Tail(@), !.rows = Append(@, o)]
       [] OTHER -> [p EXCEPT !.new = Tail(@)]

\* One round of the merge loop of do_upsert.  A new range that touches the first
\* stored one extends it in place and is then done with, so that it may come to
\* overlap the stored ranges after it.
MergeRound(p) ==
  LET o == Head(p.old)
      n == Head(p.new)
      before == IF n[1] < o[1] THEN <<<<n[1], o[1] - 1>>>> ELSE << >>
      after == IF o[2] < n[2] THEN <<<<o[2] + 1, n[2]>>>> ELSE << >>
      wider == <<IF n[1] < o[1] THEN n[1] ELSE o[1], IF o[2] < n[2] THEN n[2] ELSE o[2]>>
  IN CASE n[2] + 1 < o[1] ->
            [p EXCEPT !.new = Tail(@), !.rows = Append(@, n), !.out = Append(@, n)]
       [] o[2] + 1 < n[1] -> [p EXCEPT !.old = Tail(@), !.rows = Append(@, o)]
       [] OTHER -> [p EXCEPT !.old = <<wider>> \o Tail(@), !.new = Tail(@),
                             !.out = @ \o before \o after]

\* The whole loop: new ranges into the stored ranges of a major index, until one
\* of the two is used up; what is left of the other follows.
Merge(old, new) ==
  LET rounds == Len(old) + Len(new)
      after[k \in 0..rounds] ==
        IF k = 0 THEN [old |-> old, new |-> new, rows |-> << >>, out |-> << >>]
        ELSE IF after[k - 1].old = << >> \/ after[k - 1].new = << >> THEN after[k - 1]
        ELSE MergeRound(after[k - 1])
      last == after[rounds]
  IN [rows |-> last.rows \o last.old \o last.new, out |-> last.out \o last.new]

-----------------------------------------------------------------------------
(* The two tables of one account                                           *)

\* Mutant: one more than the limit.
RoomInclusive(count, rs) == count + Size(rs) <= MaxSubaddresses + 1

\* check_max_range over the ranges of one entry: room for all of them.
Room(count, rs) == count + Size(rs) <= MaxSubaddresses

\* Mutant: ranges are taken for half-open.
IndexRowsOpen(a, major, rs) ==
  {<<a, major, minor>> : minor \in UNION {r[1]..r[2] - 1 : r \in ToSet(rs)}}

\* The index rows that the ranges of a major index stand for.
IndexRows(a, major, rs) == {<<a, major, minor>> : minor \in Members(rs)}

Entry(major, first, last) == [major |-> major, ranges |-> <<<<first, last>>>>]

\* One entry of do_upsert on the tables t of an account of address a.  The old
\* range row is deleted before there is known to be room for the new one.
UpsertEntry(a, t, e) ==
  LET m == Merge(t.ranges[e.major], e.ranges)
  IN CASE t.result # "ok" -> t
       [] t.result = "ok" /\ ~ Valid(e.ranges) -> [t EXCEPT !.result = "schema"]
       [] t.result = "ok" /\ Valid(e.ranges) /\ ~ Room(t.count, m.out) ->
            [t EXCEPT !.result = "max", !.ranges[e.major] = << >>, !.torn = {e.major}]
       [] OTHER ->
            [t EXCEPT !.ranges[e.major] = m.rows, !.count = @ + Size(m.out),
                      !.indexes = @ \cup IndexRows(a, e.major, m.rows),
                      !.out = IF m.out = << >> THEN @ ELSE Append(@, e.major)]

do_upsert(a, id, entries) ==
  LET t == [ranges |-> ranges[id], indexes |-> indexes[id], out |-> << >>, torn |-> {},
            count |-> Cardinality(indexes[id]), result |-> "ok"]
  IN IF MaxSubaddresses < t.count
     THEN [t EXCEPT !.result = "max"]
     ELSE LET after[k \in 0..Len(entries)] ==
                IF k = 0 THEN t ELSE UpsertEntry(a, after[k - 1], entries[k])
          IN  after[Len(entries)]

\* Commit what do_upsert left in the tables.
Write(id, t) ==
  /\ ranges' = [ranges EXCEPT ![id] = t.ranges]
  /\ indexes' = [indexes EXCEPT ![id] = t.indexes]
  /\ torn' = torn \cup {<<id, major>> : major \in {k \in t.torn : ranges[id][k] # << >>}}

KeepTables == UNCHANGED <<ranges, indexes, torn>>

-----------------------------------------------------------------------------
(* Lookahead                                                               *)

Subs(outs) == {o \in outs : o.to # Main}

\* Highest minor index to watch in a major index, given the outputs received.
HighestMinor(outs, major, minor) ==
  LET mine == {o.to[2] : o \in {s \in Subs(outs) : s.to[1] = major}}
  IN IF mine = {} THEN minor - 1 ELSE Max(mine) + minor - 1

\* do_lookahead's count, one short per major index that received something.
Estimate(outs, major, minor) ==
  IF \E o \in Subs(outs) : o.to[1] = major
  THEN HighestMinor(outs, major, minor)
  ELSE minor

\* The walk over the outputs of an account, in order of height: it gives up at an
\* output beyond the limit, and stays at the first output of the main address.
Walk(outs, lookahead) ==
  LET beyond(o) == o.to # Main /\ (o.to[1] + lookahead[1]) * lookahead[2] > MaxSubaddresses
      stops == {o \in outs : o.to = Main \/ beyond(o)}
  IN IF stops = {}
     THEN "ok"
     ELSE LET first == CHOOSE o \in stops : \A p \in stops : o.height <= p.height
          IN IF first.to = Main THEN "hang" ELSE "max"

\* do_lookahead: the tables it leaves, with result ok, max or hang.
do_lookahead(a, id, outs, lookahead) ==
  LET major == lookahead[1]
      minor == lookahead[2]
      same == [ranges |-> ranges[id], indexes |-> indexes[id], torn |-> {}, result |-> "ok"]
      needed == Max({major} \cup {o.to[1] + major : o \in Subs(outs)})
      entries == [i \in 1..needed |-> Entry(i - 1, 0, HighestMinor(outs, i - 1, minor))]
      total == SumFunction([i \in 0..needed - 1 |-> Estimate(outs, i, minor)])
  IN CASE major = 0 \/ minor = 0 -> same
       [] major # 0 /\ minor # 0 /\ major * minor > MaxSubaddresses ->
            [same EXCEPT !.result = "max"]
       [] major # 0 /\ minor # 0 /\ major * minor <= MaxSubaddresses ->
            IF Walk(outs, lookahead) # "ok"
            THEN [same EXCEPT !.result = Walk(outs, lookahead)]
            ELSE IF total > MaxSubaddresses
                 THEN [same EXCEPT !.result = "max"]
                 ELSE do_upsert(a, id, entries)

\* The wrapper of do_lookahead that an accepted request goes through: being over
\* the limit is recorded in the account and is no error.
WithLookahead(user, lookahead, result) ==
  IF lookahead = NoLookahead
  THEN user
  ELSE [user EXCEPT !.lookahead = lookahead,
                    !.fail = IF result = "max" THEN Max({1, user.start}) ELSE @]

-----------------------------------------------------------------------------
(* Requests of wallets and of the administrator                            *)

Exists(a) == account[a] # NoAccount
NextId == 1 + Cardinality({a \in Addresses : Exists(a)})

Asked == ~ hung /\ ops < MaxOps /\ ops' = ops + 1

\* check_lookahead of the REST server.
check_lookahead(lookahead) == lookahead[1] * lookahead[2] <= MaxSubaddresses

\* login: storage::creation_request with the lookahead of the wallet.
creation_request(a, lookahead) ==
  /\ Asked
  /\ check_lookahead(lookahead)
  /\ ~ Exists(a) /\ creation[a] = NoRequest
  /\ creation' = [creation EXCEPT ![a] = [height |-> 1, lookahead |-> lookahead]]
  /\ KeepTables /\ UNCHANGED <<pays, account, importing, outputs, batch, hung>>

\* storage::add_account of the administrator: no lookahead.
add_account(a) ==
  /\ Asked
  /\ ~ Exists(a)
  /\ account' = [account EXCEPT ![a] = [NoAccount EXCEPT !.id = NextId, !.start = 1, !.scan = 1]]
  /\ KeepTables /\ UNCHANGED <<pays, creation, importing, outputs, batch, hung>>

\* create_accounts: the lookahead is written under the next id before it is
\* known whether the account exists already.
accept_creation(a) ==
  /\ ~ hung
  /\ creation[a] # NoRequest
  /\ creation' = [creation EXCEPT ![a] = NoRequest]
  /\ LET user == [NoAccount EXCEPT !.id = NextId, !.start = creation[a].height,
                                   !.scan = creation[a].height]
         t == do_lookahead(a, NextId, {}, creation[a].lookahead)
     IN /\ Write(NextId, t)
        /\ account' = IF Exists(a)
                      THEN account
                      ELSE [account EXCEPT ![a] = WithLookahead(user, creation[a].lookahead, t.result)]
  /\ UNCHANGED <<pays, importing, outputs, batch, hung, ops>>

\* storage::shrink_lookahead and storage::import_request.
shrink_lookahead(a, lookahead) == [account EXCEPT ![a].lookahead = lookahead]
Requested(a, height, lookahead) ==
  [importing EXCEPT ![a] = [height |-> height, lookahead |-> lookahead]]

\* REST import_request: ask for older blocks or for another lookahead, or shrink
\* the lookahead at once when both parts get smaller.  Its read and its write
\* transaction are one step here; Scanner takes them apart.
import_request(a, height, lookahead) ==
  LET user == account[a]
      deeper == height < user.start
      fits == user.fail = 0 /\ lookahead[1] <= user.lookahead[1] /\ lookahead[2] <= user.lookahead[2]
      shrinks == /\ lookahead[1] # user.lookahead[1]
                 /\ lookahead[2] # user.lookahead[2]
  IN /\ Asked
     /\ Exists(a) /\ check_lookahead(lookahead)
     /\ importing[a] = NoRequest
     /\ deeper \/ lookahead # user.lookahead \/ user.fail # 0
     /\ account' = IF fits /\ shrinks THEN shrink_lookahead(a, lookahead) ELSE account
     /\ importing' = IF fits /\ ~ deeper THEN importing ELSE Requested(a, height, lookahead)
     /\ KeepTables /\ UNCHANGED <<pays, creation, outputs, batch, hung>>

\* Mutant: any recorded lookahead failure is forgotten.
LoweredForgets(user, height) ==
  [user EXCEPT !.scan = IF height < @ THEN height ELSE @,
               !.start = IF height < @ THEN height ELSE @, !.fail = 0]

\* change_height: scan and start go back, a recorded lookahead failure at or
\* after the height is forgotten.
Lowered(user, height) ==
  [user EXCEPT !.scan = IF height < @ THEN height ELSE @,
               !.start = IF height < @ THEN height ELSE @,
               !.fail = IF height <= @ THEN 0 ELSE @]

\* Outputs from the height on are deleted.
Kept(a, height) == IF a = PayTo THEN {o \in outputs : o.height < height} ELSE {}

\* A batch that is being scanned does not see the change.
Race(a) == batch' = IF a = PayTo /\ batch # NoBatch THEN [batch EXCEPT !.raced = TRUE] ELSE batch

Regrown(outs) == {[o EXCEPT !.clean = TRUE] : o \in outs}

\* import_accounts: change_height, then the lookahead over what is left.
accept_import(a) ==
  LET req == importing[a]
      user == Lowered(account[a], req.height)
      outs == Kept(a, req.height)
      t == do_lookahead(a, user.id, outs, req.lookahead)
  IN /\ ~ hung
     /\ req # NoRequest
     /\ Exists(a)
     /\ IF t.result = "hang"
        THEN /\ hung' = TRUE
             /\ KeepTables /\ UNCHANGED <<account, importing, outputs, batch>>
        ELSE /\ account' = [account EXCEPT ![a] = WithLookahead(user, req.lookahead, t.result)]
             /\ importing' = [importing EXCEPT ![a] = NoRequest]
             /\ Write(user.id, t)
             /\ outputs' = IF a # PayTo
                           THEN outputs
                           ELSE IF t.result = "ok" /\ req.lookahead # NoLookahead
                                THEN Regrown(outs)
                                ELSE outs
             /\ Race(a)
             /\ UNCHANGED hung
     /\ UNCHANGED <<pays, creation, ops>>

\* storage::rescan of the administrator: change_height without a lookahead.
rescan(a, height) ==
  /\ Asked
  /\ Exists(a)
  /\ account' = [account EXCEPT ![a] = Lowered(@, height)]
  /\ outputs' = IF a = PayTo THEN Kept(a, height) ELSE outputs
  /\ Race(a)
  /\ KeepTables /\ UNCHANGED <<pays, creation, importing, hung>>

\* The orders that sorting by the major index can leave entries in.
ByMajor(entries) ==
  {s \in SetToSeqs(DOMAIN entries) : \A i \in 1..Len(s) - 1 : entries[s[i]].major <= entries[s[i + 1]].major}

\* upsert_subaddrs, and provision_subaddrs with its one range per major index:
\* all of the request, in order of the major index, or nothing.
upsert_subaddresses(a, entries) ==
  /\ Asked
  /\ Exists(a)
  /\ \E s \in ByMajor(entries) :
       LET t == do_upsert(a, account[a].id, [i \in DOMAIN s |-> entries[s[i]]])
       IN  IF t.result = "ok" THEN Write(account[a].id, t) ELSE KeepTables
  /\ UNCHANGED <<pays, account, creation, importing, outputs, batch, hung>>

provision_subaddrs(a, major, minor, nMajor, nMinor) ==
  /\ nMajor * nMinor <= MaxSubaddresses
  /\ upsert_subaddresses(a, [i \in 1..nMajor |-> Entry(major + i - 1, minor, minor + nMinor - 1)])

-----------------------------------------------------------------------------
(* The scan thread                                                         *)

\* A batch begins at the scan height; the reader sees the index rows of now.
BeginBatch ==
  /\ Exists(PayTo) /\ batch = NoBatch /\ account[PayTo].scan < Top
  /\ batch' = [from |-> account[PayTo].scan, next |-> account[PayTo].scan + 1,
               snapshot |-> indexes[account[PayTo].id], found |-> {}, raced |-> FALSE]
  /\ KeepTables /\ UNCHANGED <<pays, account, creation, importing, outputs, hung, ops>>

\* The window that storage::update_lookahead makes sure of after a match.
Window(match, lookahead) ==
  LET end == match[1] + lookahead[1]
  IN [i \in 1..end |->
       Entry(i - 1, 0, IF i - 1 = match[1] THEN match[2] + lookahead[2] - 1 ELSE lookahead[2] - 1)]

Earlier(fail, height) == Max({1, IF fail = 0 \/ height < fail THEN height ELSE fail})

\* The reader of the thread is only renewed when rows were added.
Renewed(t) == IF t.out = << >> THEN batch.snapshot ELSE t.indexes

\* storage::update_lookahead in a transaction of its own; what do_upsert wrote
\* before it ran into the limit stays.
update_lookahead(match, height) ==
  LET user == account[PayTo]
      id == user.id
      small == user.lookahead[1] * user.lookahead[2] <= MaxSubaddresses
      t == do_upsert(PayTo, id, Window(match, user.lookahead))
  IN CASE user.lookahead[1] = 0 \/ user.lookahead[2] = 0 ->
            /\ KeepTables /\ UNCHANGED account
            /\ batch' = [batch EXCEPT !.next = height + 1,
                                      !.found = @ \cup {[height |-> height, to |-> match]}]
       [] user.lookahead[1] # 0 /\ user.lookahead[2] # 0 /\ small /\ t.result = "ok" ->
            /\ Write(id, t) /\ UNCHANGED account
            /\ batch' = [batch EXCEPT !.next = height + 1, !.snapshot = Renewed(t),
                                      !.found = @ \cup {[height |-> height, to |-> match]}]
       [] OTHER ->
            /\ IF small THEN Write(id, t) ELSE KeepTables
            /\ account' = [account EXCEPT ![PayTo].fail = Earlier(@, height)]
            /\ batch' = [batch EXCEPT !.next = height + 1,
                                      !.found = @ \cup {[height |-> height, to |-> match]}]

\* scan_transaction_base on block batch.next.
ScanBlock ==
  LET height == batch.next
      to == pays[height]
  IN /\ ~ hung
     /\ batch # NoBatch /\ height <= Top
     /\ CASE to # Main /\ to # Nothing /\ <<PayTo, to[1], to[2]>> \in batch.snapshot ->
               update_lookahead(to, height)
          [] to = Main ->
               /\ batch' = [batch EXCEPT !.next = height + 1,
                                         !.found = @ \cup {[height |-> height, to |-> to]}]
               /\ KeepTables /\ UNCHANGED account
          [] OTHER ->
               /\ batch' = [batch EXCEPT !.next = height + 1]
               /\ KeepTables /\ UNCHANGED account
     /\ UNCHANGED <<pays, creation, importing, outputs, hung, ops>>

\* storage::update: outputs are stored unless the account went back meanwhile.
Update ==
  LET user == account[PayTo]
      last == batch.next - 1
      applies == batch.from <= user.scan /\ user.scan < last
  IN /\ ~ hung
     /\ batch # NoBatch /\ batch.from < last
     /\ account' = IF applies THEN [account EXCEPT ![PayTo].scan = last] ELSE account
     /\ outputs' = IF applies
                   THEN outputs \cup {[height |-> o.height, to |-> o.to, clean |-> ~ batch.raced]
                                      : o \in {f \in batch.found :
                                          \A p \in outputs : p.height # f.height}}
                   ELSE outputs
     /\ batch' = NoBatch
     /\ KeepTables /\ UNCHANGED <<pays, creation, importing, hung, ops>>

-----------------------------------------------------------------------------
SubInit ==
  /\ pays \in [2..Top -> Payments]
  /\ account = [a \in Addresses |-> NoAccount]
  /\ creation = [a \in Addresses |-> NoRequest]
  /\ importing = [a \in Addresses |-> NoRequest]
  /\ ranges = [id \in Ids |-> [major \in Majors |-> << >>]]
  /\ indexes = [id \in Ids |-> {}]
  /\ outputs = {}
  /\ batch = NoBatch
  /\ hung = FALSE
  /\ torn = {}
  /\ ops = 0

SubNext ==
  \/ \E a \in Addresses :
       \/ \E l \in Lookaheads : creation_request(a, l)
       \/ add_account(a)
       \/ accept_creation(a)
       \/ \E h \in 1..Top, l \in Lookaheads : import_request(a, h, l)
       \/ accept_import(a)
       \/ \E h \in 1..Top : rescan(a, h)
       \/ \E entries \in Requests : upsert_subaddresses(a, entries)
       \/ \E major \in 0..1, n \in 1..2 : provision_subaddrs(a, major, 1, n, 1)
  \/ BeginBatch
  \/ ScanBlock
  \/ Update

-----------------------------------------------------------------------------
(* Properties                                                              *)

\* Ids with rows that were written for another address (an accepted creation
\* request of an account that existed already).
Adopted == {id \in Ids : \E r \in indexes[id] : ~ Exists(r[1]) \/ account[r[1]].id # id}

\* What a wallet is told it watches it does watch, and the other way round: the
\* ranges and the index rows of an account are the same indices, whatever order
\* wallets, accepted requests and the scan thread changed them in.  Two cases
\* are left out: rows of an id that the rows of another address were left under,
\* and major indices whose range row a lookahead beyond the limit deleted.  And
\* no account has more rows than max_subaddresses allows.
TablesAgree ==
  \A a \in Addresses :
    Exists(a) /\ account[a].id \notin Adopted =>
      /\ Cardinality(indexes[account[a].id]) <= MaxSubaddresses
      /\ \A major \in Majors :
           <<account[a].id, major>> \in torn
           \/ Members(ranges[account[a].id][major])
                = {r[3] : r \in {s \in indexes[account[a].id] : s[1] = a /\ s[2] = major}}

\* As long as no lookahead failure is recorded, the subaddresses ahead of every
\* stored output are watched: all that update_lookahead or do_lookahead promise
\* for the lookahead of the account.  A rescan from the recorded height or below
\* is therefore enough to repair a failure.  Left out are outputs of a batch
\* during which the account was imported or rescanned.
Windows ==
  LET user == account[PayTo]
  IN Exists(PayTo) /\ user.fail = 0 /\ user.lookahead[1] # 0 /\ user.lookahead[2] # 0 =>
       \A o \in Subs(outputs) :
         o.clean =>
           \A major \in 0..o.to[1] + user.lookahead[1] - 1 :
             LET ahead == IF major = o.to[1] THEN o.to[2] + user.lookahead[2] ELSE user.lookahead[2]
             IN \A minor \in 0..ahead - 1 : <<PayTo, major, minor>> \in indexes[user.id]

\* A new range that touches at most one stored range.
Simple(old, new) ==
  \A n \in ToSet(new) :
    Cardinality({i \in DOMAIN old : old[i][1] <= n[2] + 1 /\ n[1] <= old[i][2] + 1}) <= 1

\* What do_upsert stores for a major index and what it reports as added: stored
\* is the union; reported is at least what was added and at most what was asked
\* for.  When no new range touches two stored ones and no two new ones touch the
\* same gap, reported is exactly what was added.
MergeExact(old, new) ==
  LET m == Merge(old, new)
  IN /\ Members(m.rows) = Members(old) \cup Members(new)
     /\ Members(new) \ Members(old) \subseteq Members(m.out)
     /\ Members(m.out) \subseteq Members(new)
     /\ Simple(old, new) => /\ Size(m.out) = Cardinality(Members(new) \ Members(old))
                            /\ Members(m.out) = Members(new) \ Members(old)

\* Stored ranges keep the form that check_subaddress_dict asks for whenever a
\* dictionary of them is written: "Invalid subaddress_range (overlapping with
\* previous)" is an error of the writer too, and get_subaddrs answers with the
\* stored ranges.
RowsWritable == \A id \in Ids, major \in Majors : Valid(ranges[id][major])

============================================================================
