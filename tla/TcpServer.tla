------------------------------ MODULE TcpServer ------------------------------
(***************************************************************************)
(* The TCP server's bookkeeping of connections: the listener               *)
(* (tcp_server/tcp_server.c), one receive task per client                  *)
(* (tcp_client_recv.c), the send task and the registry of clients          *)
(* (tcp_client_list.c), and the session pool's sockets (local_session.c).  *)
(*                                                                         *)
(* The pool has a mutex; the registry has none, so each element moved and  *)
(* the store of account_list_size are steps of their own, and where the    *)
(* code reads the size again the build may load it again or keep the value *)
(* it has (Sizes).  Every other step is a call that holds the pool's mutex *)
(* or a system call.  lwIP (external) gives a new connection the lowest    *)
(* free descriptor.                                                        *)
(*                                                                         *)
(* Receive tasks and the send task send through enc_frame_send(): send()   *)
(* at once to a client without a session key, and under s_tx_mutex to one  *)
(* with a key.  send() has no timeout; it returns when the phone reads or  *)
(* the socket is down.                                                     *)
(***************************************************************************)
EXTENDS Integers, Sequences, FiniteSets, FiniteSetsExt

CONSTANTS Conns,              \* connections, each of which is made at most once
          NoConn,
          Peer,               \* the address each connection comes from
          Fds,                \* bound: descriptors lwIP has
          TCP_CLIENT_MAX,
          LOCAL_SESSION_MAX,
          ACCOUNT_MAX,        \* entries of account_struct_list
          MaxReplies          \* bound: lines waiting to be sent

ASSUME ServerAssumption ==
    /\ IsFiniteSet(Conns) /\ NoConn \notin Conns
    /\ Fds \in Nat \ {0}
    /\ TCP_CLIENT_MAX \in Nat \ {0}
    /\ LOCAL_SESSION_MAX \in Nat \ {0}
    /\ ACCOUNT_MAX \in Nat \ {0}
    /\ MaxReplies \in Nat

VARIABLES
    pc,         \* per connection: where the listener or its receive task is with it
    fd,         \* per connection: its descriptor, 0 if it has none
    down,       \* connections that are shut down, from either side
    listener,   \* the connection the listener is busy with
    pool,       \* session slots: [sock, conn], sock 0 when free
    acct,       \* account_struct_list, from 1, and the memory before it
    size,       \* account_list_size
    i,          \* per connection: the index of remove_account's loops
    n,          \* per connection: the size its task loaded last
    queue,      \* lines for the send task: [sock, conn], for whom they were meant
    sending,    \* the line the send task has found a client for
    call,       \* per connection: what its receive task is in
    sendCall    \* what the send task is in

vars == <<pc, fd, down, listener, pool, acct, size, i, n, queue, sending, call, sendCall>>

calls == <<call, sendCall>>

FreeSlot == [sock |-> 0, conn |-> NoConn]

NoLine == [sock |-> 0, conn |-> NoConn]

Slots == 1..LOCAL_SESSION_MAX

\* The lowest size the lost updates can leave.
Below == -Cardinality(Conns)

Phases == {"out", "count", "replace", "add", "write", "grow", "acquire", "create",
           "run", "release", "scan", "shift", "shrink", "close", "gone"}

\* Waiting in recv() or for a line, for s_tx_mutex, in send() with the mutex
\* and in send() without it.
Calls == {"recv", "lock", "tx", "plain"}

Init ==
    /\ pc = [c \in Conns |-> "out"]
    /\ fd = [c \in Conns |-> 0]
    /\ down = {}
    /\ listener = NoConn
    /\ pool = [k \in Slots |-> FreeSlot]
    /\ acct = [k \in Below..ACCOUNT_MAX |-> 0]
    /\ size = 0
    /\ i = [c \in Conns |-> 0]
    /\ n = [c \in Conns |-> 0]
    /\ queue = <<>>
    /\ sending = NoLine
    /\ call = [c \in Conns |-> "recv"]
    /\ sendCall = "recv"

Free == (1..Fds) \ {fd[c] : c \in Conns}

\* local_session_count()
Count == Cardinality({k \in Slots : pool[k].sock # 0})

\* local_session_shutdown_peer(): whose sockets it shuts down.
OfPeer(p) == {pool[k].conn : k \in {m \in Slots : pool[m].sock # 0 /\ Peer[pool[m].conn] = p}}

\* is_client_connected()
Registered(sock) == \E k \in 1..size : acct[k] = sock

\* What a read of account_list_size can give the task of c.
Sizes(c) == {n[c], size}

\* s_tx_mutex is free.
TxFree == sendCall # "tx" /\ \A c \in Conns : call[c] # "tx"

Goto(c, p) == pc' = [pc EXCEPT ![c] = p]
-----------------------------------------------------------------------------
(* The listener *)

Accept(c) ==
    /\ listener = NoConn
    /\ pc[c] = "out"
    /\ Free # {}
    /\ fd' = [fd EXCEPT ![c] = Min(Free)]
    /\ listener' = c
    /\ Goto(c, "count")
    /\ UNCHANGED <<down, pool, acct, size, i, n, queue, sending, calls>>

\* Mutant of CheckCap: one connection more than the cap.
CheckCapLate(c) ==
    /\ pc[c] = "count"
    /\ Goto(c, IF Count > TCP_CLIENT_MAX THEN "replace" ELSE "add")
    /\ UNCHANGED <<fd, down, listener, pool, acct, size, i, n, queue, sending, calls>>

CheckCap(c) ==
    /\ pc[c] = "count"
    /\ Goto(c, IF Count >= TCP_CLIENT_MAX THEN "replace" ELSE "add")
    /\ UNCHANGED <<fd, down, listener, pool, acct, size, i, n, queue, sending, calls>>

\* At the cap: the peer's older connections make room, or the new one is refused.
ReplaceOwn(c) ==
    /\ pc[c] = "replace"
    /\ down' = down \cup OfPeer(Peer[c])
    /\ Goto(c, IF OfPeer(Peer[c]) = {} THEN "close" ELSE "add")
    /\ UNCHANGED <<fd, listener, pool, acct, size, i, n, queue, sending, calls>>

\* add_account(): load account_list_size ...
AddLoad(c) ==
    /\ pc[c] = "add"
    /\ n' = [n EXCEPT ![c] = size]
    /\ Goto(c, IF size >= ACCOUNT_MAX THEN "close" ELSE "write")
    /\ UNCHANGED <<fd, down, listener, pool, acct, size, i, queue, sending, calls>>

\* ... write the entry ...
AddWrite(c) ==
    /\ pc[c] = "write"
    /\ \E s \in Sizes(c) :
          /\ acct' = [acct EXCEPT ![s + 1] = fd[c]]
          /\ n' = [n EXCEPT ![c] = s]
    /\ Goto(c, "grow")
    /\ UNCHANGED <<fd, down, listener, pool, size, i, queue, sending, calls>>

\* ... and store the new size.
AddStore(c) ==
    /\ pc[c] = "grow"
    /\ \E s \in Sizes(c) : size' = s + 1
    /\ n' = [n EXCEPT ![c] = 0]
    /\ Goto(c, "acquire")
    /\ UNCHANGED <<fd, down, listener, pool, acct, i, queue, sending, calls>>

\* remove_account() begins: it loads account_list_size.
CallRemove(c) ==
    /\ Goto(c, "scan")
    /\ i' = [i EXCEPT ![c] = 1]
    /\ n' = [n EXCEPT ![c] = size]

\* local_session_acquire(): the first free slot.
Acquire(c) ==
    /\ pc[c] = "acquire"
    /\ IF \E k \in Slots : pool[k].sock = 0
       THEN /\ pool' = [pool EXCEPT ![Min({k \in Slots : pool[k].sock = 0})] =
                           [sock |-> fd[c], conn |-> c]]
            /\ Goto(c, "create")
            /\ UNCHANGED <<i, n>>
       ELSE /\ CallRemove(c)
            /\ UNCHANGED pool
    /\ UNCHANGED <<fd, down, listener, acct, size, queue, sending, calls>>

\* xTaskCreate(): the receive task runs, or there is no memory for it.
CreateTask(c) ==
    /\ pc[c] = "create"
    /\ Goto(c, "run")
    /\ listener' = NoConn
    /\ UNCHANGED <<fd, down, pool, acct, size, i, n, queue, sending, calls>>

CreateFails(c) ==
    /\ pc[c] = "create"
    /\ Goto(c, "release")
    /\ UNCHANGED <<fd, down, listener, pool, acct, size, i, n, queue, sending, calls>>
-----------------------------------------------------------------------------
(* The receive task, and the way out that it shares with the listener *)

\* The phone closes the connection, or keep-alive gives it up.
PeerCloses(c) ==
    /\ fd[c] # 0
    /\ c \notin down
    /\ down' = down \cup {c}
    /\ UNCHANGED <<pc, fd, listener, pool, acct, size, i, n, queue, sending, calls>>

\* A line is answered: send_raw_to_client() queues "<sock>:<text>".
Reply(c) ==
    /\ pc[c] = "run"
    /\ call[c] = "recv"
    /\ Len(queue) < MaxReplies
    /\ queue' = Append(queue, [sock |-> fd[c], conn |-> c])
    /\ UNCHANGED <<pc, fd, down, listener, pool, acct, size, i, n, sending, calls>>

\* A line is answered by the receive task itself: security_send_line(), to a
\* session with a key or without.
Answer(c) ==
    /\ pc[c] = "run"
    /\ call[c] = "recv"
    /\ \E k \in {"lock", "plain"} : call' = [call EXCEPT ![c] = k]
    /\ UNCHANGED <<pc, fd, down, listener, pool, acct, size, i, n, queue, sending, sendCall>>

\* enc_frame_send() has s_tx_mutex: the frame is sent, or the session has lost
\* its key by now.
TakeTx(c) ==
    /\ call[c] = "lock"
    /\ TxFree
    /\ \E k \in {"tx", "recv"} : call' = [call EXCEPT ![c] = k]
    /\ UNCHANGED <<pc, fd, down, listener, pool, acct, size, i, n, queue, sending, sendCall>>

\* send() returns, and s_tx_mutex is given.
Answered(c) ==
    /\ call[c] \in {"tx", "plain"}
    /\ call' = [call EXCEPT ![c] = "recv"]
    /\ UNCHANGED <<pc, fd, down, listener, pool, acct, size, i, n, queue, sending, sendCall>>

\* recv() returns 0 or fails: the loop ends.
RecvEnds(c) ==
    /\ pc[c] = "run"
    /\ call[c] = "recv"
    /\ c \in down
    /\ Goto(c, "release")
    /\ UNCHANGED <<fd, down, listener, pool, acct, size, i, n, queue, sending, calls>>

\* Mutant of Release: the slot is left to the connection.
ReleaseForgotten(c) ==
    /\ pc[c] = "release"
    /\ CallRemove(c)
    /\ UNCHANGED <<fd, down, listener, pool, acct, size, queue, sending, calls>>

\* local_session_release(): the first slot with the socket.
Release(c) ==
    LET mine == {k \in Slots : pool[k].sock = fd[c]}
    IN  /\ pc[c] = "release"
        /\ pool' = IF mine = {} THEN pool ELSE [pool EXCEPT ![Min(mine)] = FreeSlot]
        /\ CallRemove(c)
        /\ UNCHANGED <<fd, down, listener, acct, size, queue, sending, calls>>

\* remove_account() ends, and with it its locals.
ReturnFromRemove(c) ==
    /\ Goto(c, "close")
    /\ i' = [i EXCEPT ![c] = 0]
    /\ n' = [n EXCEPT ![c] = 0]

\* remove_account(): look for the socket.
RemoveScan(c) ==
    /\ pc[c] = "scan"
    /\ \E s \in Sizes(c) :
          \/ /\ i[c] > s
             /\ ReturnFromRemove(c)
          \/ /\ i[c] <= s
             /\ n' = [n EXCEPT ![c] = s]
             /\ IF acct[i[c]] = fd[c]
                THEN Goto(c, "shift") /\ UNCHANGED i
                ELSE i' = [i EXCEPT ![c] = @ + 1] /\ UNCHANGED pc
    /\ UNCHANGED <<fd, down, listener, pool, acct, size, queue, sending, calls>>

\* remove_account(): move the elements behind it down, one at a time.
RemoveShift(c) ==
    /\ pc[c] = "shift"
    /\ \E s \in Sizes(c) :
          /\ n' = [n EXCEPT ![c] = s]
          /\ \/ /\ i[c] < s
                /\ acct' = [acct EXCEPT ![i[c]] = acct[i[c] + 1]]
                /\ i' = [i EXCEPT ![c] = @ + 1]
                /\ UNCHANGED pc
             \/ i[c] >= s /\ Goto(c, "shrink") /\ UNCHANGED <<acct, i>>
    /\ UNCHANGED <<fd, down, listener, pool, size, queue, sending, calls>>

\* remove_account(): account_list_size--.
RemoveStore(c) ==
    /\ pc[c] = "shrink"
    /\ \E s \in Sizes(c) : size' = s - 1
    /\ ReturnFromRemove(c)
    /\ UNCHANGED <<fd, down, listener, pool, acct, queue, sending, calls>>

\* shutdown(), close(); the task ends, or the listener accepts again.
Close(c) ==
    /\ pc[c] = "close"
    /\ fd' = [fd EXCEPT ![c] = 0]
    /\ listener' = IF listener = c THEN NoConn ELSE listener
    /\ Goto(c, "gone")
    /\ UNCHANGED <<down, pool, acct, size, i, n, queue, sending, calls>>
-----------------------------------------------------------------------------
(* The send task *)

\* The line's socket is looked up in the registry; gone: the line is dropped.
Route ==
    /\ queue # <<>>
    /\ sending = NoLine
    /\ queue' = Tail(queue)
    /\ IF Registered(Head(queue).sock)
       THEN sending' = Head(queue) /\ sendCall' \in {"lock", "plain"}
       ELSE UNCHANGED <<sending, sendCall>>
    /\ UNCHANGED <<pc, fd, down, listener, pool, acct, size, i, n, call>>

\* enc_frame_send() has s_tx_mutex ...
SendTakesTx ==
    /\ sendCall = "lock"
    /\ TxFree
    /\ sendCall' = "tx"
    /\ UNCHANGED <<pc, fd, down, listener, pool, acct, size, i, n, queue, sending, call>>

\* ... and finds the session released or without its key.
SendDrops ==
    /\ sendCall = "lock"
    /\ TxFree
    /\ sendCall' = "recv"
    /\ sending' = NoLine
    /\ UNCHANGED <<pc, fd, down, listener, pool, acct, size, i, n, queue, call>>

\* send() returns: the line went to whoever has the descriptor now.
Send ==
    /\ sendCall \in {"tx", "plain"}
    /\ sendCall' = "recv"
    /\ sending' = NoLine
    /\ UNCHANGED <<pc, fd, down, listener, pool, acct, size, i, n, queue, call>>

Listening(c) ==
    \/ Accept(c) \/ CheckCap(c) \/ ReplaceOwn(c) \/ AddLoad(c) \/ AddWrite(c) \/ AddStore(c)
    \/ Acquire(c) \/ CreateTask(c) \/ CreateFails(c)

Leaving(c) ==
    \/ RecvEnds(c) \/ Release(c) \/ RemoveScan(c) \/ RemoveShift(c) \/ RemoveStore(c) \/ Close(c)

Answering(c) == Answer(c) \/ TakeTx(c) \/ Answered(c)

SendTask == Route \/ SendTakesTx \/ SendDrops \/ Send

Next ==
    \/ \E c \in Conns : Listening(c) \/ PeerCloses(c) \/ Reply(c) \/ Answering(c) \/ Leaving(c)
    \/ SendTask

SafeSpec == Init /\ [][Next]_vars

\* A send() to a socket that is down, or to none, returns.
NobodyUp(sock) == \A c \in Conns : fd[c] = sock => c \in down

\* The tasks run: a task or the listener that is not blocked in a call goes on.
\* A recv() on a socket that is down comes to its end, as what arrived before
\* is finite, and a send() to it returns.  A mutex that is given again and again
\* comes to each that waits for it, as FreeRTOS wakes them in turn.  Nobody has to
\* connect, close, talk or read.
Fairness ==
    /\ \A c \in Conns : WF_vars(Leaving(c)) /\ SF_vars(RecvEnds(c))
    /\ \A c \in Conns : WF_vars(pc[c] # "out" /\ Listening(c))
    /\ \A c \in Conns : SF_vars(TakeTx(c)) /\ WF_vars(c \in down /\ Answered(c))
    /\ WF_vars(Route \/ SendTakesTx \/ SendDrops)
    /\ WF_vars(NobodyUp(sending.sock) /\ Send)

Spec == SafeSpec /\ Fairness
-----------------------------------------------------------------------------
(* Properties *)

\* Connections, descriptors, slots and registry have their types: the size
\* never exceeds the array, whatever updates are lost.
TypeOK ==
    /\ pc \in [Conns -> Phases]
    /\ fd \in [Conns -> 0..Fds]
    /\ down \subseteq Conns
    /\ listener \in Conns \cup {NoConn}
    /\ pool \in [Slots -> [sock : 0..Fds, conn : Conns \cup {NoConn}]]
    /\ acct \in [Below..ACCOUNT_MAX -> 0..Fds]
    /\ size \in Below..ACCOUNT_MAX
    /\ i \in [Conns -> 0..ACCOUNT_MAX + 1]
    /\ n \in [Conns -> Below..ACCOUNT_MAX]
    /\ Len(queue) <= MaxReplies
    /\ \A k \in DOMAIN queue : queue[k].sock \in 1..Fds /\ queue[k].conn \in Conns
    /\ sending.sock \in 0..Fds
    /\ call \in [Conns -> Calls]
    /\ sendCall \in Calls

\* local_session_find(sock) gives a receive task its own slot and nobody
\* else's, although descriptors are reused: a slot is released before its
\* descriptor is closed, and a descriptor has one slot at most.
SlotOfTask ==
    /\ \A c \in Conns : pc[c] = "run" => \E k \in Slots : pool[k] = [sock |-> fd[c], conn |-> c]
    /\ \A k \in Slots : pool[k].sock # 0 => fd[pool[k].conn] = pool[k].sock
    /\ \A k, m \in Slots : pool[k].sock # 0 /\ pool[k].sock = pool[m].sock => k = m

\* The cap holds for connections that are up: the ones over it have been shut
\* down to make room and only wait for their tasks to clean up.  Counting,
\* shutting down and acquiring are three critical sections.
LiveCap ==
    Cardinality({c \in Conns : pc[c] = "run" /\ c \notin down}) <= TCP_CLIENT_MAX

\* The connection is closed, and its slot and descriptor are free.
HasLeft(c) == pc[c] = "gone" /\ fd[c] = 0 /\ \A k \in Slots : pool[k].conn # c

\* Another task has s_tx_mutex.
OtherSends(c) == sendCall = "tx" \/ \E d \in Conns \ {c} : call[d] = "tx"

\* A connection that is down gives its slot and its descriptor back, unless
\* another task has s_tx_mutex for ever.
DownLeaves ==
    \A c \in Conns : <>[]OtherSends(c) \/ ((pc[c] = "run" /\ c \in down) ~> HasLeft(c))

\* "Their receive tasks then see the connection end and release the slot
\* themselves" (local_session.h).  It does not hold: a receive task that waits
\* for s_tx_mutex waits for a phone that does not read what another task sends.
DownAlwaysLeaves == \A c \in Conns : (pc[c] = "run" /\ c \in down) ~> HasLeft(c)

\* "Registry of connected TCP clients": a client whose task runs is in it.
\* It does not hold: add_account() and remove_account() share no lock.
RunningIsRegistered == \A c \in Conns : pc[c] = "run" => Registered(fd[c])

\* A reply goes to the client it was for or is dropped, "the client may have
\* disconnected and lwIP may have reused the fd while the line was queued".
\* It does not hold: the registry only knows descriptors.
ReplyToItsClient ==
    [][sendCall # "lock" /\ sending # NoLine /\ sending' = NoLine =>
          \A c \in Conns : fd[c] = sending.sock => c = sending.conn]_vars
=============================================================================
