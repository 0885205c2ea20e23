------------------------------- MODULE Remote -------------------------------
(***************************************************************************)
(* The account server of the daemon and its remote scanners: accounts are  *)
(* dealt to local threads and to remote processes over connections that    *)
(* may be lost; remote processes scan on their own copies and send what    *)
(* they found without waiting for an answer.                               *)
(*                                                                         *)
(* The io_context is run by one thread, so that what a handler dispatches  *)
(* to another strand is part of the handler.  A scan thread and its queue  *)
(* are one set of copies here; Scanner has them apart.  A connection is    *)
(* named by a slot that is used again once the server has forgotten it.  A  *)
(* scanner's process can have more than one: it makes a new client whenever *)
(* its io_context was stopped, and only cleanup() closes an old one.        *)
(***************************************************************************)
EXTENDS Assignment, SequencesExt

CONSTANTS
  Accounts,         \* how many accounts there are: 1..Accounts
  Locals,           \* scan threads of the daemon
  Conns,            \* how many connections there are: 1..Conns
  RemoteThreads,    \* threads of the scanner at each connection
  Process,          \* the scanner's process that a connection is of
  RemoteThreshold,  \* remote_threshold
  ReplaceThreshold, \* replace_threshold
  MaxBuffers,       \* max_write_buffers
  MaxTip,           \* bound: the height of the chain
  MaxOps            \* bound: account operations and lost connections

ASSUME RemoteAssumption ==
  /\ {Accounts, Locals, Conns, RemoteThreshold, MaxBuffers, MaxTip, MaxOps} \subseteq Nat
  /\ ReplaceThreshold \in Nat
  /\ RemoteThreads \in [1..Conns -> Nat \ {0}] /\ Process \in [1..Conns -> Nat]

VARIABLES
  active,   \* accounts with status active in the database
  scan,     \* scan_height of each account in the database
  tip,      \* height of the daemon's chain
  running,  \* check_loop runs, with its account server
  dead,     \* the process ended with an exception
  listed,   \* server::active_
  remote,   \* server::remote_
  next,     \* server::next_thread_
  srv,      \* the server's end of each connection
  threads,  \* server_connection::threads_
  cli,      \* the scanner's end of each connection
  push_to,  \* client::next_push_
  wire,     \* commands from the server to the scanner
  up,       \* commands from the scanner to the server
  held,     \* each thread's copies: account -> scan height
  ops,
  left,     \* history: accounts that the server listed and gave to no thread
  given,    \* history: accounts that the server dealt to each connection
  rescans   \* history: accounts were set back

db_vars == <<active, scan, tip, ops, rescans>>
server_vars == <<running, dead, listed, remote, next, srv, threads, left, given>>
client_vars == <<cli, push_to>>
vars == <<db_vars, server_vars, client_vars, wire, up, held>>

Account == 1..Accounts
Conn == 1..Conns
Thread == {<<0, i>> : i \in 1..Locals}
          \cup UNION {{<<c, i>> : i \in 1..RemoteThreads[c]} : c \in Conn}

NoUsers == [a \in {} |-> 0]
Copies(S) == [a \in S |-> scan[a]]

\* Mutant: pushed accounts take the place of the old ones.
MergeNew(u, v) == v

\* The accounts of a thread and those pushed to it.
Merge(u, v) == [a \in DOMAIN u \cup DOMAIN v |-> IF a \in DOMAIN v THEN v[a] ELSE u[a]]

\* Commands.
Initialize(ok) == [op |-> "initialize", ok |-> ok, users |-> NoUsers, last |-> 0]
UpdateAccounts(u, last) == [op |-> "update", ok |-> TRUE, users |-> u, last |-> last]
PushAccounts(s) == [op |-> "push", users |-> s]
ReplaceAccounts(s) == [op |-> "replace", users |-> s]

\* A sequence of copies, which is how accounts are sent.
Sent(s) == [i \in DOMAIN s |-> [id |-> s[i], height |-> scan[s[i]]]]
Received(s, S) == [a \in {s[i].id : i \in S} |-> (CHOOSE i \in S : s[i].id = a)]
Users(s, S) == [a \in DOMAIN Received(s, S) |-> s[Received(s, S)[a]].height]

Up == running /\ ~ dead

\* The scanner's end of the connection is open.
Connected(c) == cli[c] \in {"up", "orphan"}

----------------------------------------------------------------------------
(* The database.                                                           *)

Op == ops < MaxOps /\ ops' = ops + 1

Mine ==
  /\ tip < MaxTip
  /\ tip' = tip + 1
  /\ UNCHANGED <<active, scan, ops, rescans, server_vars, client_vars, wire, up, held>>

activate(a) ==
  /\ Op
  /\ a \notin active
  /\ active' = active \cup {a}
  /\ UNCHANGED <<scan, tip, rescans, server_vars, client_vars, wire, up, held>>

deactivate(a) ==
  /\ Op
  /\ a \in active
  /\ active' = active \ {a}
  /\ UNCHANGED <<scan, tip, rescans, server_vars, client_vars, wire, up, held>>

rescan(a) ==
  /\ Op
  /\ scan[a] > 0
  /\ scan' = [scan EXCEPT ![a] = 0]
  /\ rescans' = TRUE
  /\ UNCHANGED <<active, tip, server_vars, client_vars, wire, up, held>>

----------------------------------------------------------------------------
(* Dealing accounts.                                                       *)

\* write_command for each connection; nothing is sent on a closed one.
Written(ms) == [c \in Conn |-> IF srv[c] = "open" THEN wire[c] \o ms[c] ELSE wire[c]]

\* Too many buffers close the connection.
Overflow(ms, c) ==
  /\ srv[c] = "open" /\ ms[c] # << >>
  /\ Len(wire[c] \o ms[c]) > 1 /\ Len(wire[c] \o ms[c]) >= MaxBuffers

Closing(ms) == [c \in Conn |-> IF Overflow(ms, c) THEN "closing" ELSE srv[c]]

\* The scanners of the connections that lock() finds, in the order of remote_.
Alive(R) == {c \in R : srv[c] # "gone"}
Ordered(S) == {s \in SetToSeqs(S) : \A i, j \in DOMAIN s : i < j => s[i] < s[j]}
Position(R, c) == CHOOSE i \in DOMAIN R : R[i] = c
ThreadsIn(R, th) == [i \in DOMAIN R |-> th[R[i]]]

\* The orders that sorting by height can leave accounts in.
ByHeight(S) == {s \in SetToSeqs(S) : \A i \in 1..Len(s) - 1 : scan[s[i]] <= scan[s[i + 1]]}

\* There is a thread to deal to: total_threads is not zero.
AnyThread(R, th) == Locals > 0 \/ \E c \in R : th[c] > 0

\* do_replace_users, with the threads of each connection.
do_replace_users(th) ==
  /\ remote' = Alive(remote)
  /\ IF ~ AnyThread(Alive(remote), th)
     THEN UNCHANGED <<wire, srv, next, listed, left, given, held>>
     ELSE \E R \in Ordered(Alive(remote)), s \in ByHeight(active) :
          \E part \in {Shares(s, Locals, ThreadsIn(R, th), RemoteThreshold)} :
            LET ms == [c \in Conn |-> IF c \in Alive(remote)
                                      THEN <<ReplaceAccounts(Sent(part[Locals + Position(R, c)]))>>
                                      ELSE << >>]
            IN  /\ held' = [w \in Thread |-> IF w[1] = 0 THEN Copies(ToSet(part[w[2]])) ELSE held[w]]
                /\ wire' = Written(ms)
                /\ srv' = Closing(ms)
                /\ listed' = active
                /\ left' = active \ UNION {ToSet(part[i]) : i \in DOMAIN part}
                /\ given' = [c \in Conn |-> IF c \in Alive(remote)
                                            THEN ToSet(part[Locals + Position(R, c)]) ELSE {}]
                /\ next' = 0

\* check_users: the timer of the account server.

\* Mutant: nobody looks at the connections.
ExpiredNever == FALSE

Expired == remote # Alive(remote)
NewUsers == active \ listed
Shrunk == Cardinality(active) < Cardinality(listed) \/ listed \ active # {}
                                                    \/ ReplaceThreshold < Cardinality(NewUsers)

\* A connection has expired, accounts have gone, or there are many new ones.
check_users_replace ==
  /\ Up
  /\ Expired \/ (Shrunk /\ AnyThread(remote, threads))
  /\ do_replace_users(threads)
  /\ UNCHANGED <<db_vars, running, dead, threads, client_vars, up>>

\* New accounts in turn.  One that was moved from throws when it is read.
check_users_push ==
  /\ Up
  /\ NewUsers # {}
  /\ ~ Expired /\ ~ Shrunk
  /\ AnyThread(remote, threads)
  /\ \E R \in Ordered(remote), s \in Ordered(NewUsers) :
     \E dealt \in {RoundRobin(s, next, Locals, ThreadsIn(R, threads))} :
       LET users(i) == UNION {ToSet(us) : us \in ToSet(dealt.out[i])}
           all == UNION {users(i) : i \in 1..Locals + Len(R)}
           ms == [c \in Conn |->
                   IF c \in remote
                   THEN LET mine == dealt.out[Locals + Position(R, c)]
                        IN  [k \in DOMAIN mine |-> PushAccounts(Sent(mine[k]))]
                   ELSE << >>]
       IN  IF Hollow \in all
           THEN /\ dead' = TRUE
                /\ UNCHANGED <<listed, left, given, next, held, wire, srv>>
           ELSE /\ listed' = active
                /\ left' = left \cup (NewUsers \ all)
                /\ given' = [c \in Conn |-> IF c \in remote
                                            THEN given[c] \cup users(Locals + Position(R, c))
                                            ELSE given[c]]
                /\ next' = dealt.next
                /\ held' = [w \in Thread |-> IF w[1] = 0 THEN Merge(held[w], Copies(users(w[2])))
                                             ELSE held[w]]
                /\ wire' = Written(ms)
                /\ srv' = Closing(ms)
                /\ UNCHANGED dead
  /\ UNCHANGED <<db_vars, running, remote, threads, client_vars, up>>

----------------------------------------------------------------------------
(* The server's end of a connection: "open"; "closing" once cleanup() has  *)
(* run; "gone" when no handler holds it any more.                          *)

\* A client connects and sends initialize; the acceptor adds the connection.  A
\* process has one client with threads; one that it has left behind keeps trying.
connect(c) ==
  /\ Up
  /\ c \notin remote
  /\ \/ cli[c] = "down" /\ ~ \E d \in Conn : Process[d] = Process[c] /\ cli[d] = "up"
     \/ cli[c] = "late"
  /\ remote' = remote \cup {c}
  /\ srv' = [srv EXCEPT ![c] = "open"]
  /\ threads' = [threads EXCEPT ![c] = 0]
  /\ cli' = [cli EXCEPT ![c] = IF @ = "late" THEN "orphan" ELSE "up"]
  /\ given' = [given EXCEPT ![c] = {}]
  /\ push_to' = [push_to EXCEPT ![c] = 0]
  /\ wire' = [wire EXCEPT ![c] = << >>]
  /\ \E ok \in BOOLEAN : up' = [up EXCEPT ![c] = <<Initialize(ok)>>]
  /\ UNCHANGED <<db_vars, running, dead, listed, next, left, held>>

Reads(c) == Up /\ srv[c] = "open" /\ up[c] # << >>

\* initialize_handler: the connection is closed for a wrong password.
initialize(c) ==
  /\ Reads(c)
  /\ Head(up[c]).op = "initialize"
  /\ up' = [up EXCEPT ![c] = Tail(@)]
  /\ IF Head(up[c]).ok
     THEN /\ threads' = [threads EXCEPT ![c] = RemoteThreads[c]]
          /\ do_replace_users([threads EXCEPT ![c] = RemoteThreads[c]])
     ELSE /\ srv' = [srv EXCEPT ![c] = "gone"]
          /\ UNCHANGED <<threads, remote, wire, next, listed, left, given, held>>
  /\ UNCHANGED <<db_vars, running, dead, client_vars>>

\* user_data::store: an account that the database has below the height of the
\* copy is skipped, and makes the server start again.
Fits(u) == \A a \in DOMAIN u : u[a] <= scan[a]

StoredHeights(u, last) ==
  [a \in Account |-> IF a \in DOMAIN u /\ u[a] <= scan[a] THEN Larger(scan[a], last) ELSE scan[a]]

\* do_stop: every connection is closed, threads are joined.
do_stop ==
  /\ running' = FALSE
  /\ remote' = {}
  /\ srv' = [c \in Conn |-> "gone"]
  /\ held' = [w \in Thread |-> IF w[1] = 0 THEN NoUsers ELSE held[w]]
  /\ UNCHANGED <<dead, listed, next, threads, left, given>>

\* update_accounts_handler and server::store.
update_accounts(c) ==
  /\ Reads(c)
  /\ Head(up[c]).op = "update"
  /\ up' = [up EXCEPT ![c] = Tail(@)]
  /\ scan' = StoredHeights(Head(up[c]).users, Head(up[c]).last)
  /\ IF Fits(Head(up[c]).users) THEN UNCHANGED <<server_vars, held>> ELSE do_stop
  /\ UNCHANGED <<active, tip, ops, rescans, client_vars, wire>>

\* The connection breaks: a read or write error, or the time-out of a write.
lost(c) ==
  /\ Op
  /\ srv[c] = "open"
  /\ srv' = [srv EXCEPT ![c] = "closing"]
  /\ UNCHANGED <<active, scan, tip, rescans, running, dead, listed, remote, next, threads, left,
                 given, client_vars, wire, up, held>>

\* The server has read everything and reaches the end of the stream.
end_of_stream(c) ==
  /\ Up
  /\ srv[c] = "open" /\ ~ Connected(c) /\ up[c] = << >>
  /\ srv' = [srv EXCEPT ![c] = "closing"]
  /\ UNCHANGED <<db_vars, running, dead, listed, remote, next, threads, left, given, client_vars, wire,
                 up, held>>

\* The last handler of a closed connection has returned.
release(c) ==
  /\ Up
  /\ srv[c] = "closing"
  /\ srv' = [srv EXCEPT ![c] = "gone"]
  /\ up' = [up EXCEPT ![c] = << >>]
  /\ UNCHANGED <<db_vars, running, dead, listed, remote, next, threads, left, given, client_vars, wire,
                 held>>

----------------------------------------------------------------------------
(* The scanner's process and its ends of connections: "up" with threads;   *)
(* "orphan" without, once the process has made another client; "late" when *)
(* it was left behind before it was connected; "down" when it is closed.   *)

\* Mutant: the threads keep their accounts when the io_context stops.
DroppedNone(c) == held

\* The process of c runs its loop again: threads are joined, with their accounts.
Dropped(c) == [w \in Thread |-> IF w[1] # 0 /\ Process[w[1]] = Process[c] THEN NoUsers ELSE held[w]]

\* It makes another client.  Nobody closes the old one, which its pending read
\* keeps alive in the io_context.
LeftBehind(c) ==
  [d \in Conn |-> IF Process[d] = Process[c] /\ cli[d] = "up" THEN "orphan" ELSE cli[d]]

\* cleanup() closes the socket and stops the io_context, of whatever client it
\* has.  When it is called for an older client, or again (a write that fails
\* after the read did, a command for buffers that are full), it leaves a client
\* behind that is not connected yet.
cleanup(c) ==
  /\ \E end \in {"down", "late"} : cli' = [LeftBehind(c) EXCEPT ![c] = end]
  /\ held' = Dropped(c)
  /\ wire' = [wire EXCEPT ![c] = << >>]

\* scanner::loop ends in a thread with a soft error (no blocks in time, blocks
\* that are wrong or cannot be read): run_thread stops the io_context.
soft_stop(c) ==
  /\ cli[c] = "up"
  /\ \E w \in Thread : w[1] = c /\ held[w] # NoUsers
  /\ cli' = LeftBehind(c)
  /\ held' = Dropped(c)
  /\ UNCHANGED <<db_vars, server_vars, push_to, wire, up>>

\* The process ends, and may be started again.
exit(c) ==
  /\ Op
  /\ cli[c] # "down"
  /\ cli' = [d \in Conn |-> IF Process[d] = Process[c] THEN "down" ELSE cli[d]]
  /\ held' = Dropped(c)
  /\ wire' = [d \in Conn |-> IF Process[d] = Process[c] THEN << >> ELSE wire[d]]
  /\ UNCHANGED <<active, scan, tip, rescans, server_vars, push_to, up>>

\* push_accounts: one account to each thread in turn.  The queues of an orphan
\* take what it reads, and no thread ever does.
push_accounts(c) ==
  LET s == Head(wire[c]).users
      thread(i) == ((push_to[c] + i - 1) % RemoteThreads[c]) + 1
  IN  /\ Connected(c) /\ wire[c] # << >>
      /\ Head(wire[c]).op = "push"
      /\ held' = [w \in Thread |->
                   IF w[1] = c /\ cli[c] = "up"
                   THEN Merge(held[w], Users(s, {i \in DOMAIN s : thread(i) = w[2]}))
                   ELSE held[w]]
      /\ push_to' = [push_to EXCEPT ![c] = (@ + Len(s)) % RemoteThreads[c]]
      /\ wire' = [wire EXCEPT ![c] = Tail(@)]
      /\ UNCHANGED <<db_vars, server_vars, cli, up>>

\* replace_accounts: all threads get a new workload, nobody included.
replace_accounts(c) ==
  LET s == Head(wire[c]).users
      to == ByCount(Len(s), RemoteThreads[c])
  IN  /\ Connected(c) /\ wire[c] # << >>
      /\ Head(wire[c]).op = "replace"
      /\ held' = [w \in Thread |-> IF w[1] = c /\ cli[c] = "up" THEN Users(s, to[w[2]]) ELSE held[w]]
      /\ push_to' = [push_to EXCEPT ![c] = 0]
      /\ wire' = [wire EXCEPT ![c] = Tail(@)]
      /\ UNCHANGED <<db_vars, server_vars, cli, up>>

\* A batch of blocks from the lowest copy up to last.
Lowest(u) == CHOOSE h \in {u[a] : a \in DOMAIN u} : \A a \in DOMAIN u : h <= u[a]
Scans(u, last) == DOMAIN u # {} /\ Lowest(u) < last /\ last <= tip
Advanced(u, last) == [a \in DOMAIN u |-> Larger(u[a], last)]

\* A thread of the scanner: send_users and send_update; the copies advance at
\* once.  With too many updates waiting the scanner closes the connection.
send_update(c) ==
  /\ cli[c] = "up"
  /\ \E w \in Thread, last \in 1..MaxTip :
       /\ w[1] = c
       /\ Scans(held[w], last)
       /\ IF up[c] # << >> /\ Len(up[c]) + 1 >= MaxBuffers
          THEN cleanup(c) /\ UNCHANGED up
          ELSE /\ up' = [up EXCEPT ![c] = Append(@, UpdateAccounts(held[w], last))]
               /\ held' = [held EXCEPT ![w] = Advanced(@, last)]
               /\ UNCHANGED <<cli, wire>>
  /\ UNCHANGED <<db_vars, server_vars, push_to>>

\* The client sees the end of the stream, or its connection breaks; what it has
\* sent can still arrive.
disconnect(c) ==
  /\ Connected(c)
  /\ IF srv[c] = "open" THEN Op ELSE UNCHANGED ops
  /\ cleanup(c)
  /\ UNCHANGED <<active, scan, tip, rescans, server_vars, push_to, up>>

----------------------------------------------------------------------------
(* The local threads and the main loop.                                    *)

local_scan(i) ==
  /\ Up
  /\ \E last \in 1..MaxTip :
       LET u == held[<<0, i>>] IN
       /\ Scans(u, last)
       /\ scan' = StoredHeights(u, last)
       /\ IF Fits(u)
          THEN held' = [held EXCEPT ![<<0, i>>] = Advanced(u, last)] /\ UNCHANGED server_vars
          ELSE do_stop
  /\ UNCHANGED <<active, tip, ops, rescans, client_vars, wire, up>>

\* scanner::run and check_loop; without local threads the list starts empty.
check_loop ==
  /\ ~ running /\ ~ dead
  /\ Locals > 0 => active # {}
  /\ running' = TRUE
  /\ listed' = IF Locals > 0 THEN active ELSE {}
  /\ left' = {}
  /\ next' = 0
  /\ \E s \in ByHeight(active) :
       held' = [w \in Thread |->
                 IF w[1] = 0 THEN Copies({s[p] : p \in ByCount(Len(s), Locals)[w[2]]}) ELSE held[w]]
  /\ UNCHANGED <<db_vars, dead, remote, srv, threads, given, client_vars, wire, up>>

Init ==
  /\ active \in SUBSET Account
  /\ scan = [a \in Account |-> 0] /\ tip = 1 /\ ops = 0 /\ rescans = FALSE
  /\ running = FALSE /\ dead = FALSE /\ listed = {} /\ left = {} /\ next = 0
  /\ given = [c \in Conn |-> {}]
  /\ remote = {} /\ srv = [c \in Conn |-> "gone"] /\ threads = [c \in Conn |-> 0]
  /\ cli = [c \in Conn |-> "down"] /\ push_to = [c \in Conn |-> 0]
  /\ wire = [c \in Conn |-> << >>] /\ up = [c \in Conn |-> << >>]
  /\ held = [w \in Thread |-> NoUsers]

Next ==
  \/ Mine
  \/ \E a \in Account : activate(a) \/ deactivate(a) \/ rescan(a)
  \/ check_users_replace \/ check_users_push
  \/ \E c \in Conn :
       \/ connect(c) \/ initialize(c) \/ update_accounts(c)
       \/ lost(c) \/ end_of_stream(c) \/ release(c)
       \/ push_accounts(c) \/ replace_accounts(c) \/ send_update(c)
       \/ disconnect(c) \/ soft_stop(c) \/ exit(c)
  \/ \E i \in 1..Locals : local_scan(i)
  \/ check_loop

\* The main loop and the timer of the account server, the handlers at both ends
\* of a connection and the threads run; a broken connection is noticed at both
\* ends.  Scanners reconnect, but need not.
Fairness ==
  /\ WF_vars(check_loop \/ check_users_replace \/ check_users_push)
  /\ \A c \in Conn :
       /\ WF_vars(initialize(c) \/ update_accounts(c) \/ end_of_stream(c) \/ release(c))
       /\ WF_vars(push_accounts(c) \/ replace_accounts(c) \/ (srv[c] # "open" /\ disconnect(c)))
       /\ WF_vars(send_update(c))
  /\ \A i \in 1..Locals : WF_vars(local_scan(i))

Spec == Init /\ [][Next]_vars /\ Fairness

----------------------------------------------------------------------------
(* Properties.                                                             *)

\* The account is in a command that its scanner will still read.
InFlight(a) ==
  \E c \in remote : cli[c] = "up" /\ \E m \in Range(wire[c]) : \E u \in Range(m.users) : u.id = a

\* A connection ended and the account server has not noticed yet.
Unnoticed == \E c \in remote : srv[c] # "open" \/ ~ Connected(c)

\* The account went to a client that its process has left behind: the server
\* cannot tell, and deals nothing again.
Stranded(a) == \E c \in remote : cli[c] = "orphan" /\ a \in given[c]

\* The account is with a thread, or on its way to one.
InHands(a) == InFlight(a) \/ \E w \in Thread : a \in DOMAIN held[w]

\* server::active_ is what the server believes is being scanned: while there is
\* a thread to deal to, an account on it is with a thread or on its way to one,
\* or a connection has just ended and the next check deals everything again, or
\* the dealing itself left it out, or it was dealt to a client that its process
\* has left behind.  Commands, lost connections, soft errors, reconnections and
\* restarts come in any order.
Covered ==
  Up /\ AnyThread(remote, threads) =>
    \A a \in listed : a \in left \/ Unnoticed \/ Stranded(a) \/ InHands(a)

\* next_thread_ is always the turn of a local thread or the first turn of a
\* scanner, whatever connections come and go meanwhile: the search for the
\* scanner stops there, or at one without threads just before it, and never
\* runs past the last one, which nothing guards against.
InTurn ==
  Up /\ AnyThread(remote, threads) =>
    \A R \in Ordered(remote) : TurnAt(next, Locals, ThreadsIn(R, threads))

\* A scanner never waits for its updates to be stored and the server never asks
\* for them again: unless an account is set back by hand, no update comes from
\* above what the database has, so nothing makes the server start over.
NoReset == [][running /\ ~ rescans => running']_vars

\* Every account that stays active is scanned up to the top, whichever threads
\* and scanners it passes through, but for the ones that dealing left out or
\* gave to a client without threads and those set back by hand, and unless
\* scanners keep reconnecting for ever.
Scanned ==
  \/ \A a \in Account :
       []<>(dead \/ rescans \/ a \notin active \/ a \in left \/ Stranded(a) \/ scan[a] = tip)
  \/ []<><<\E c \in Conn : connect(c)>>_vars

============================================================================
