------------------------- MODULE LocalNetworkProofs -------------------------
(***************************************************************************)
(* What a device in station mode shows to its local network: how it is     *)
(* found (Discovery) and whom it serves (TcpServer).  The two              *)
(* specifications share no state, and each has its own theorems.           *)
(*                                                                         *)
(* For any number of connections, descriptors, slots and registry entries, *)
(* and any cap: a receive task finds its own session, the cap on live      *)
(* connections holds, and the registry's size stays within its array.      *)
(*                                                                         *)
(* Slots follow descriptors because a descriptor has one connection while  *)
(* it is open (FdInv) and a slot is held exactly between acquire and       *)
(* release (PoolInv).  The registry's updates may be lost, but each        *)
(* connection subtracts one at most, and the listener alone adds           *)
(* (SizeInv).                                                              *)
(*                                                                         *)
(* The cap is the subtle part: connections that were shut down keep their  *)
(* slots for a while, and a newcomer of their peer may take their place    *)
(* once more.  CapInv says why this is sound: at most TCP_CLIENT_MAX       *)
(* connections stand for everybody, that is, all that are up are among     *)
(* them and every connection with a slot has one of its own peer among     *)
(* them, so a newcomer that displaces its peer's connections displaces one *)
(* that stands for them.                                                   *)
(*                                                                         *)
(* What the device announces follows what it is, for every set of client   *)
(* tasks and of addresses.                                                 *)
(*                                                                         *)
(* The beacon's part needs how beacon.advertising, the beacon's address    *)
(* and what the controller has on the air hang together at every moment    *)
(* (BeaconInv).  The TXT record's part needs what the holder of s_lock has *)
(* read: its copy of "paired" is only old when some other task's change is *)
(* still to be announced (TxtInv).                                         *)
(***************************************************************************)
EXTENDS TcpServer, Discovery, FiniteSetTheorems, WellFoundedInduction, TLAPS

\* The phases in which a connection has a slot, is let in, and keeps the
\* listener busy.
Served == {"create", "run", "release"}

Admitted == {"add", "write", "grow", "acquire"} \cup Served

Busy == {"count", "replace", "add", "write", "grow", "acquire", "create"}

\* The connections that have removed themselves from the registry or will not.
Left == {c \in Conns : pc[c] \in {"close", "gone"}}

Members == {c \in Conns : pc[c] \in Admitted}

Up == {c \in Members : pc[c] # "release" /\ c \notin down}

Line == [sock : 1..Fds, conn : Conns]

TypeInv ==
    /\ pc \in [Conns -> Phases]
    /\ fd \in [Conns -> 0..Fds]
    /\ down \subseteq Conns
    /\ listener \in Conns \cup {NoConn}
    /\ pool \in [Slots -> [sock : 0..Fds, conn : Conns \cup {NoConn}]]
    /\ acct \in [Below..ACCOUNT_MAX -> 0..Fds]
    /\ size \in Int
    /\ i \in [Conns -> 0..ACCOUNT_MAX + 1]
    /\ n \in [Conns -> Int]
    /\ queue \in Seq(Line) /\ Len(queue) <= MaxReplies
    /\ sending \in Line \cup {NoLine}

SizeInv ==
    /\ size >= -Cardinality(Left) /\ size <= ACCOUNT_MAX
    /\ \A c \in Conns : n[c] >= -Cardinality(Left) /\ n[c] <= ACCOUNT_MAX
    /\ \A c \in Conns : pc[c] \in {"write", "grow"} => size < ACCOUNT_MAX /\ n[c] < ACCOUNT_MAX

FdInv ==
    /\ \A c \in Conns : fd[c] = 0 <=> pc[c] \in {"out", "gone"}
    /\ \A c, d \in Conns : fd[c] # 0 /\ fd[c] = fd[d] => c = d
    /\ \A c \in Conns : pc[c] \in Busy => listener = c

PoolInv ==
    /\ \A c \in Conns : pc[c] \in Served => \E k \in Slots : pool[k] = [sock |-> fd[c], conn |-> c]
    /\ \A k \in Slots : pool[k].sock # 0 =>
          /\ pool[k].conn \in Conns
          /\ pc[pool[k].conn] \in Served
          /\ fd[pool[k].conn] = pool[k].sock
    /\ \A k, m \in Slots : pool[k].sock # 0 /\ pool[k].sock = pool[m].sock => k = m

\* R stands for everybody.
StandsFor(R) ==
    /\ Up \subseteq R
    /\ \A c \in Members : \E r \in R : Peer[r] = Peer[c]
    /\ Cardinality(R) <= TCP_CLIENT_MAX

CapInv == \E R \in SUBSET Conns : StandsFor(R)

CallInv == call \in [Conns -> Calls] /\ sendCall \in Calls

ServerInv == TypeInv /\ CallInv /\ SizeInv /\ FdInv /\ PoolInv /\ CapInv
-----------------------------------------------------------------------------
(* Facts about the operators *)

\* Every non-empty set of numbers has a least one.
LEMMA LeastNumber ==
    ASSUME NEW T \in SUBSET Nat, T # {}
    PROVE  \E x \in T : \A y \in T : x <= y
<1> DEFINE R == OpToRel(<, Nat)
<1>1. IsWellFoundedOn(R, Nat)
  BY NatLessThanWellFounded
<1>2. R = {p \in Nat \X Nat : p[1] < p[2]}
  BY DEF OpToRel
<1>3. T \subseteq Nat
  OBVIOUS
<1> HIDE DEF R
<1>4. PICK x \in T : \A y \in T : ~(<<y, x>> \in R)
  BY <1>1, <1>3, WFMin, Zenon
<1>5. \A y \in T : ~(y < x)
  BY <1>2, <1>4
<1>6. QED
  BY <1>5

\* Min() chooses an element of a set of numbers.
LEMMA MinIn ==
    ASSUME NEW T \in SUBSET Nat, T # {}
    PROVE  Min(T) \in T
  BY LeastNumber DEF Min

\* A new connection gets a descriptor that nobody has.
LEMMA FreeIs ==
    ASSUME Free # {}
    PROVE  Min(Free) \in 1..Fds /\ \A c \in Conns : fd[c] # Min(Free)
<1>1. Fds \in Nat /\ Free \in SUBSET Nat
  BY ServerAssumption DEF Free
<1>2. Min(Free) \in Free
  BY <1>1, MinIn
<1>3. QED
  BY <1>2 DEF Free

\* A line has a descriptor; NoLine has none.
LEMMA LineIs == NoLine \notin Line
  BY ServerAssumption DEF Line, NoLine

LEMMA LeftIs ==
    /\ IsFiniteSet(Left) /\ Cardinality(Left) \in Nat /\ Cardinality(Conns) \in Nat
    /\ Cardinality(Left) <= Cardinality(Conns)
<1>1. IsFiniteSet(Conns) /\ Left \subseteq Conns
  BY ServerAssumption DEF Left
<1>2. QED
  BY <1>1, FS_Subset, FS_CardinalityType
-----------------------------------------------------------------------------
(* Types *)

LEMMA TypeInit == Init => TypeInv
<1>1. /\ Fds \in Nat /\ ACCOUNT_MAX \in Nat /\ MaxReplies \in Nat
      /\ Cardinality(Conns) \in Nat
  BY ServerAssumption, FS_CardinalityType
<1>2. ASSUME Init PROVE TypeInv
  <2>1. pool \in [Slots -> [sock : 0..Fds, conn : Conns \cup {NoConn}]]
    BY <1>1, <1>2 DEF Init, FreeSlot
  <2>2. acct \in [Below..ACCOUNT_MAX -> 0..Fds]
    BY <1>1, <1>2 DEF Init
  <2>3. queue \in Seq(Line) /\ Len(queue) = 0
    BY <1>2 DEF Init
  <2>4. pc \in [Conns -> Phases] /\ fd \in [Conns -> 0..Fds]
    BY <1>1, <1>2 DEF Init, Phases
  <2>5. size \in Int /\ i \in [Conns -> 0..ACCOUNT_MAX + 1] /\ n \in [Conns -> Int]
    BY <1>1, <1>2 DEF Init
  <2>6. down \subseteq Conns /\ listener \in Conns \cup {NoConn} /\ sending \in Line \cup {NoLine}
    BY <1>2 DEF Init
  <2>7. QED
    BY <1>1, <2>1, <2>2, <2>3, <2>4, <2>5, <2>6 DEF TypeInv
<1>3. QED
  BY <1>2

\* Tasks that send, or want to, change no connection, slot or registry entry.
LEMMA SendingIs ==
    ASSUME (\E c \in Conns : Answering(c)) \/ SendTask
    PROVE  UNCHANGED <<pc, fd, down, listener, pool, acct, size, i, n>>
  BY DEF Answering, Answer, TakeTx, Answered, SendTask, Route, SendTakesTx, SendDrops, Send

\* The calls that tasks are in have their types.
LEMMA CallNext ==
    ASSUME CallInv, [Next]_vars
    PROVE  CallInv'
<1>1. ASSUME NEW c \in Conns, Listening(c) PROVE UNCHANGED calls
  BY <1>1 DEF Listening, Accept, CheckCap, ReplaceOwn, AddLoad, AddWrite, AddStore, Acquire,
     CreateTask, CreateFails
<1>2. ASSUME NEW c \in Conns, Leaving(c) \/ PeerCloses(c) \/ Reply(c) PROVE UNCHANGED calls
  BY <1>2 DEF Leaving, RecvEnds, Release, RemoveScan, RemoveShift, RemoveStore, Close, PeerCloses,
     Reply
<1>3. ASSUME NEW c \in Conns, Answering(c) PROVE CallInv'
  BY <1>3 DEF Answering, Answer, TakeTx, Answered, CallInv, Calls
<1>4. CASE SendTask
  BY <1>4 DEF SendTask, Route, SendTakesTx, SendDrops, Send, CallInv, Calls
<1>5. CASE UNCHANGED vars
  BY <1>5 DEF vars, CallInv
<1>6. UNCHANGED calls => CallInv'
  BY DEF calls, CallInv
<1>7. QED
  BY <1>1, <1>2, <1>3, <1>4, <1>5, <1>6 DEF Next

LEMMA IndexIs ==
    ASSUME TypeInv, NEW c \in Conns, NEW v \in 0..ACCOUNT_MAX + 1,
           i' = i \/ i' = [i EXCEPT ![c] = v]
    PROVE  i' \in [Conns -> 0..ACCOUNT_MAX + 1]
<1>1. CASE i' = i
  BY <1>1 DEF TypeInv
<1>2. CASE i' = [i EXCEPT ![c] = v]
  BY <1>2 DEF TypeInv
<1>3. QED
  BY <1>1, <1>2

LEMMA TypeNext ==
    ASSUME TypeInv, SizeInv, FdInv, PoolInv, [Next]_vars
    PROVE  TypeInv'
<1>0. /\ Fds \in Nat \ {0} /\ ACCOUNT_MAX \in Nat \ {0} /\ MaxReplies \in Nat
      /\ Cardinality(Conns) \in Nat /\ NoConn \notin Conns
  BY ServerAssumption, FS_CardinalityType
<1>1. ASSUME NEW c \in Conns, Accept(c) PROVE TypeInv'
  BY <1>0, <1>1, FreeIs DEF TypeInv, Accept, Goto, Phases
<1>2. ASSUME NEW c \in Conns, CheckCap(c) \/ ReplaceOwn(c) PROVE TypeInv'
  <2>1. pc' \in [Conns -> Phases] /\ UNCHANGED <<fd, listener, pool, acct, size, i, n, queue, sending>>
    BY <1>2 DEF TypeInv, CheckCap, ReplaceOwn, Goto, Phases
  <2>2. down' \subseteq Conns
    BY <1>2 DEF TypeInv, PoolInv, CheckCap, ReplaceOwn, OfPeer
  <2>3. QED
    BY <2>1, <2>2 DEF TypeInv
<1>3. ASSUME NEW c \in Conns, AddLoad(c) \/ AddStore(c) \/ RemoveStore(c) PROVE TypeInv'
  <2>1. pc' \in [Conns -> Phases] /\ UNCHANGED <<fd, down, listener, pool, acct, queue, sending>>
    BY <1>3 DEF TypeInv, AddLoad, AddStore, RemoveStore, ReturnFromRemove, Goto, Phases
  <2>2. size' \in Int /\ n' \in [Conns -> Int]
    BY <1>3 DEF TypeInv, AddLoad, AddStore, RemoveStore, ReturnFromRemove, Sizes
  <2>3. i' \in [Conns -> 0..ACCOUNT_MAX + 1]
    <3>1. UNCHANGED i \/ i' = [i EXCEPT ![c] = 0]
      BY <1>3 DEF AddLoad, AddStore, RemoveStore, ReturnFromRemove
    <3>2. QED
      BY <1>0, <3>1, IndexIs
  <2>4. QED
    BY <2>1, <2>2, <2>3 DEF TypeInv
<1>4. ASSUME NEW c \in Conns, AddWrite(c) PROVE TypeInv'
  <2>1. pc' \in [Conns -> Phases] /\ UNCHANGED <<fd, down, listener, pool, size, i, queue, sending>>
    BY <1>4 DEF TypeInv, AddWrite, Goto, Phases
  <2>2. PICK s \in Sizes(c) : acct' = [acct EXCEPT ![s + 1] = fd[c]] /\ n' = [n EXCEPT ![c] = s]
    BY <1>4 DEF AddWrite
  <2>3. n' \in [Conns -> Int]
    BY <2>2 DEF TypeInv, Sizes
  <2>4. acct' \in [Below..ACCOUNT_MAX -> 0..Fds]
    BY <2>2 DEF TypeInv
  <2>5. QED
    BY <2>1, <2>3, <2>4 DEF TypeInv
<1>5. ASSUME NEW c \in Conns, Acquire(c) PROVE TypeInv'
  <2>1. pc' \in [Conns -> Phases] /\ UNCHANGED <<fd, down, listener, acct, size, queue, sending>>
    BY <1>5 DEF TypeInv, Acquire, CallRemove, Goto, Phases
  <2>2. i' \in [Conns -> 0..ACCOUNT_MAX + 1]
    <3>1. UNCHANGED i \/ i' = [i EXCEPT ![c] = 1]
      BY <1>5 DEF Acquire, CallRemove
    <3>2. QED
      BY <1>0, <3>1, IndexIs
  <2>3. n' \in [Conns -> Int]
    BY <1>5 DEF TypeInv, Acquire, CallRemove
  <2>4. pool' \in [Slots -> [sock : 0..Fds, conn : Conns \cup {NoConn}]]
    <3> DEFINE k == Min({m \in Slots : pool[m].sock = 0})
    <3>1. pool' = pool \/ pool' = [pool EXCEPT ![k] = [sock |-> fd[c], conn |-> c]]
      BY <1>5 DEF Acquire
    <3>2. [sock |-> fd[c], conn |-> c] \in [sock : 0..Fds, conn : Conns \cup {NoConn}]
      BY DEF TypeInv
    <3> HIDE DEF k
    <3>3. QED
      BY <3>1, <3>2 DEF TypeInv
  <2>5. QED
    BY <2>1, <2>2, <2>3, <2>4 DEF TypeInv
<1>6. ASSUME NEW c \in Conns, CreateTask(c) \/ CreateFails(c) \/ PeerCloses(c) \/ RecvEnds(c)
      PROVE  TypeInv'
  BY <1>6 DEF TypeInv, CreateTask, CreateFails, PeerCloses, RecvEnds, Goto, Phases
<1>7. ASSUME NEW c \in Conns, Reply(c) PROVE TypeInv'
  <2>1. /\ queue' = Append(queue, [sock |-> fd[c], conn |-> c]) /\ Len(queue) < MaxReplies
        /\ UNCHANGED <<pc, fd, down, listener, pool, acct, size, i, n, sending>>
    BY <1>7 DEF Reply
  <2>2. [sock |-> fd[c], conn |-> c] \in Line
    <3>1. fd[c] \in 1..Fds
      <4>1. fd[c] # 0
        BY <1>7 DEF Reply, FdInv
      <4>2. QED
        BY <1>0, <4>1 DEF TypeInv
    <3>2. QED
      BY <3>1 DEF Line
  <2>3. queue' \in Seq(Line) /\ Len(queue') <= MaxReplies
    BY <1>0, <2>1, <2>2 DEF TypeInv
  <2>4. QED
    BY <2>1, <2>3 DEF TypeInv
<1>8. ASSUME NEW c \in Conns, Release(c) PROVE TypeInv'
  <2>1. pc' \in [Conns -> Phases] /\ UNCHANGED <<fd, down, listener, acct, size, queue, sending>>
    BY <1>8 DEF TypeInv, Release, CallRemove, Goto, Phases
  <2>2. i' \in [Conns -> 0..ACCOUNT_MAX + 1] /\ n' \in [Conns -> Int]
    BY <1>0, <1>8 DEF TypeInv, Release, CallRemove
  <2>3. pool' \in [Slots -> [sock : 0..Fds, conn : Conns \cup {NoConn}]]
    <3> DEFINE k == Min({m \in Slots : pool[m].sock = fd[c]})
    <3>1. pool' = pool \/ pool' = [pool EXCEPT ![k] = FreeSlot]
      BY <1>8 DEF Release
    <3>2. FreeSlot \in [sock : 0..Fds, conn : Conns \cup {NoConn}]
      BY <1>0 DEF FreeSlot
    <3> HIDE DEF k
    <3>3. QED
      BY <3>1, <3>2 DEF TypeInv
  <2>4. QED
    BY <2>1, <2>2, <2>3 DEF TypeInv
<1>9. ASSUME NEW c \in Conns, RemoveScan(c) PROVE TypeInv'
  <2>1. /\ pc' \in [Conns -> Phases]
        /\ UNCHANGED <<fd, down, listener, pool, acct, size, queue, sending>>
    BY <1>9 DEF TypeInv, RemoveScan, ReturnFromRemove, Goto, Phases
  <2>2. PICK s \in Sizes(c) :
           \/ n' = [n EXCEPT ![c] = 0] /\ i' = [i EXCEPT ![c] = 0]
           \/ /\ i[c] <= s /\ n' = [n EXCEPT ![c] = s]
              /\ UNCHANGED i \/ i' = [i EXCEPT ![c] = @ + 1]
    BY <1>9 DEF RemoveScan, ReturnFromRemove
  <2>3. s \in Int /\ s <= ACCOUNT_MAX
    BY <2>2 DEF Sizes, TypeInv, SizeInv
  <2>4. n' \in [Conns -> Int]
    BY <2>2, <2>3 DEF TypeInv
  <2>5. i' \in [Conns -> 0..ACCOUNT_MAX + 1]
    <3>1. 0 \in 0..ACCOUNT_MAX + 1 /\ i[c] \in 0..ACCOUNT_MAX + 1
      BY <1>0 DEF TypeInv
    <3>2. CASE i' = [i EXCEPT ![c] = 0]
      BY <3>1, <3>2, IndexIs
    <3>3. CASE i[c] <= s /\ (UNCHANGED i \/ i' = [i EXCEPT ![c] = i[c] + 1])
      <4>1. i[c] + 1 \in 0..ACCOUNT_MAX + 1
        BY <1>0, <2>3, <3>1, <3>3
      <4>2. QED
        BY <3>3, <4>1, IndexIs
    <3>4. QED
      BY <2>2, <3>2, <3>3
  <2>6. QED
    BY <2>1, <2>4, <2>5 DEF TypeInv
<1>10. ASSUME NEW c \in Conns, RemoveShift(c) PROVE TypeInv'
  <2>1. pc' \in [Conns -> Phases] /\ UNCHANGED <<fd, down, listener, pool, size, queue, sending>>
    BY <1>10 DEF TypeInv, RemoveShift, Goto, Phases
  <2>2. PICK s \in Sizes(c) :
           /\ n' = [n EXCEPT ![c] = s]
           /\ \/ /\ i[c] < s /\ i' = [i EXCEPT ![c] = @ + 1]
                 /\ acct' = [acct EXCEPT ![i[c]] = acct[i[c] + 1]]
              \/ UNCHANGED <<acct, i>>
    BY <1>10 DEF RemoveShift
  <2>3. s \in Int /\ s <= ACCOUNT_MAX
    BY <2>2 DEF Sizes, TypeInv, SizeInv
  <2>4. n' \in [Conns -> Int]
    BY <2>2, <2>3 DEF TypeInv
  <2>5. i' \in [Conns -> 0..ACCOUNT_MAX + 1]
    <3>1. i \in [Conns -> 0..ACCOUNT_MAX + 1]
      BY DEF TypeInv
    <3>2. CASE i' = i
      BY <3>1, <3>2
    <3>3. CASE i[c] < s /\ i' = [i EXCEPT ![c] = @ + 1]
      <4>1. i[c] + 1 \in 0..ACCOUNT_MAX + 1
        BY <1>0, <2>3, <3>1, <3>3
      <4>2. QED
        BY <3>1, <3>3, <4>1
    <3>4. QED
      BY <2>2, <3>2, <3>3
  <2>6. acct' \in [Below..ACCOUNT_MAX -> 0..Fds]
    <3>1. CASE UNCHANGED acct
      BY <3>1 DEF TypeInv
    <3>2. CASE i[c] < s /\ acct' = [acct EXCEPT ![i[c]] = acct[i[c] + 1]]
      <4>1. i[c] + 1 \in Below..ACCOUNT_MAX
        BY <1>0, <2>3, <3>2 DEF TypeInv, Below
      <4>2. acct[i[c] + 1] \in 0..Fds
        BY <4>1 DEF TypeInv
      <4>3. QED
        BY <3>2, <4>2 DEF TypeInv
    <3>3. QED
      BY <2>2, <3>1, <3>2
  <2>7. QED
    BY <2>1, <2>4, <2>5, <2>6 DEF TypeInv
<1>11. ASSUME NEW c \in Conns, Close(c) PROVE TypeInv'
  BY <1>0, <1>11 DEF TypeInv, Close, Goto, Phases
<1>12. ASSUME (\E c \in Conns : Answering(c)) \/ SendTask PROVE TypeInv'
  <2>1. UNCHANGED <<pc, fd, down, listener, pool, acct, size, i, n>>
    BY <1>12, SendingIs
  <2>2. CASE \E c \in Conns : Answering(c)
    <3>1. UNCHANGED <<queue, sending>>
      BY <2>2 DEF Answering, Answer, TakeTx, Answered
    <3>2. QED
      BY <2>1, <3>1 DEF TypeInv
  <2>3. CASE Send \/ SendDrops \/ SendTakesTx
    <3>1. UNCHANGED queue /\ sending' \in {sending, NoLine}
      BY <2>3 DEF Send, SendDrops, SendTakesTx
    <3>2. QED
      BY <2>1, <3>1 DEF TypeInv
  <2>4. CASE Route
    <3>1. queue # <<>> /\ queue' = Tail(queue)
      BY <2>4 DEF Route
    <3>2. queue' \in Seq(Line) /\ Len(queue') <= MaxReplies
      BY <1>0, <3>1 DEF TypeInv
    <3>3. Head(queue) \in Line
      BY <3>1 DEF TypeInv
    <3>4. sending' \in Line \cup {NoLine}
      BY <2>4, <3>3 DEF Route, TypeInv
    <3>5. QED
      BY <2>1, <3>2, <3>4 DEF TypeInv
  <2>5. QED
    BY <1>12, <2>2, <2>3, <2>4 DEF SendTask
<1>13. CASE UNCHANGED vars
  BY <1>13 DEF vars, TypeInv
<1>14. QED
  BY <1>1, <1>2, <1>3, <1>4, <1>5, <1>6, <1>7, <1>8, <1>9, <1>10, <1>11, <1>12, <1>13
  DEF Next, Listening, Leaving
-----------------------------------------------------------------------------
(* The registry's size *)

LEMMA SizeInit == Init => SizeInv
  BY ServerAssumption, LeftIs DEF Init, SizeInv

\* A connection that has left does not come back.
LEMMA LeftStays ==
    ASSUME TypeInv, [Next]_vars
    PROVE  Left \subseteq Left' /\ Cardinality(Left) <= Cardinality(Left') /\ Cardinality(Left') \in Nat
<1>1. Left \subseteq Left'
  <2>1. ASSUME NEW c \in Conns, Listening(c) PROVE Left \subseteq Left'
    BY <2>1 DEF Listening, Accept, CheckCap, ReplaceOwn, AddLoad, AddWrite, AddStore, Acquire,
       CreateTask, CreateFails, CallRemove, Goto, TypeInv, Left
  <2>2. ASSUME NEW c \in Conns, Leaving(c) PROVE Left \subseteq Left'
    BY <2>2 DEF Leaving, RecvEnds, Release, RemoveScan, RemoveShift, RemoveStore, Close,
       CallRemove, ReturnFromRemove, Goto, TypeInv, Left
  <2>3. QED
    BY <2>1, <2>2, SendingIs DEF Next, PeerCloses, Reply, vars, Left
<1>2. IsFiniteSet(Left') /\ Cardinality(Left') \in Nat
  <2>1. IsFiniteSet(Conns) /\ Left' \subseteq Conns
    BY ServerAssumption DEF Left
  <2>2. QED
    BY <2>1, FS_Subset, FS_CardinalityType
<1>3. QED
  BY <1>1, <1>2, FS_Subset

LEMMA SizeNext ==
    ASSUME TypeInv, SizeInv, FdInv, [Next]_vars
    PROVE  SizeInv'
<1>0. /\ ACCOUNT_MAX \in Nat \ {0} /\ Cardinality(Left) \in Nat /\ Cardinality(Left') \in Nat
      /\ Cardinality(Left) <= Cardinality(Left') /\ size \in Int /\ \A d \in Conns : n[d] \in Int
  BY ServerAssumption, LeftIs, LeftStays DEF TypeInv
\* Steps that leave the size and the loaded sizes alone.
<1>1. ASSUME UNCHANGED <<size, n>>,
             \A d \in Conns : pc'[d] \in {"write", "grow"} => pc[d] \in {"write", "grow"}
      PROVE  SizeInv'
  BY <1>0, <1>1 DEF SizeInv
\* Steps that load the size, 0 when remove_account() returns.
<1>2. ASSUME NEW c \in Conns, NEW s \in Sizes(c) \cup {0},
             UNCHANGED size, n' = [n EXCEPT ![c] = s],
             \A d \in Conns \ {c} : pc'[d] = pc[d],
             pc'[c] \in {"write", "grow"} => size < ACCOUNT_MAX /\ s < ACCOUNT_MAX
      PROVE  SizeInv'
  <2>1. s \in Int /\ s >= -Cardinality(Left) /\ s <= ACCOUNT_MAX
    BY <1>0 DEF Sizes, SizeInv
  <2>2. n'[c] = s /\ \A d \in Conns \ {c} : n'[d] = n[d]
    BY <1>2 DEF TypeInv
  <2>3. QED
    BY <1>0, <1>2, <2>1, <2>2 DEF SizeInv
<1>3. ASSUME NEW c \in Conns, Accept(c) \/ CheckCap(c) \/ ReplaceOwn(c) \/ CreateTask(c) \/ CreateFails(c)
      PROVE  SizeInv'
  <2>1. UNCHANGED <<size, n>>
    BY <1>3 DEF Accept, CheckCap, ReplaceOwn, CreateTask, CreateFails
  <2>2. \A d \in Conns : pc'[d] \in {"write", "grow"} => pc[d] \in {"write", "grow"}
    BY <1>3 DEF Accept, CheckCap, ReplaceOwn, CreateTask, CreateFails, Goto, TypeInv
  <2>3. QED
    BY <1>1, <2>1, <2>2
<1>4. ASSUME NEW c \in Conns, PeerCloses(c) \/ Reply(c) \/ RecvEnds(c) \/ Close(c) PROVE SizeInv'
  <2>1. UNCHANGED <<size, n>>
    BY <1>4 DEF PeerCloses, Reply, RecvEnds, Close
  <2>2. \A d \in Conns : pc'[d] \in {"write", "grow"} => pc[d] \in {"write", "grow"}
    BY <1>4 DEF PeerCloses, Reply, RecvEnds, Close, Goto, TypeInv
  <2>3. QED
    BY <1>1, <2>1, <2>2
<1>5. ASSUME NEW c \in Conns, AddLoad(c) PROVE SizeInv'
  <2>1. UNCHANGED size /\ n' = [n EXCEPT ![c] = size] /\ \A d \in Conns \ {c} : pc'[d] = pc[d]
    BY <1>5 DEF AddLoad, Goto, TypeInv
  <2>2. pc'[c] \in {"write", "grow"} => size < ACCOUNT_MAX
    BY <1>0, <1>5 DEF AddLoad, Goto, TypeInv
  <2>3. size \in Sizes(c)
    BY DEF Sizes
  <2>4. QED
    BY <1>2, <2>1, <2>2, <2>3
<1>6. ASSUME NEW c \in Conns, AddWrite(c) PROVE SizeInv'
  <2>1. UNCHANGED size /\ pc[c] = "write" /\ \A d \in Conns \ {c} : pc'[d] = pc[d]
    BY <1>6 DEF AddWrite, Goto, TypeInv
  <2>2. PICK s \in Sizes(c) : n' = [n EXCEPT ![c] = s]
    BY <1>6 DEF AddWrite
  <2>3. size < ACCOUNT_MAX /\ s < ACCOUNT_MAX
    BY <2>1 DEF Sizes, SizeInv
  <2>4. QED
    BY <1>2, <2>1, <2>2, <2>3
<1>7. ASSUME NEW c \in Conns, AddStore(c) PROVE SizeInv'
  <2>1. /\ pc[c] = "grow" /\ pc'[c] = "acquire" /\ \A d \in Conns \ {c} : pc'[d] = pc[d]
        /\ n'[c] = 0 /\ \A d \in Conns \ {c} : n'[d] = n[d]
    BY <1>7 DEF AddStore, Goto, TypeInv
  <2>2. PICK s \in Sizes(c) : size' = s + 1
    BY <1>7 DEF AddStore
  <2>3. s \in Int /\ s < ACCOUNT_MAX /\ s >= -Cardinality(Left)
    BY <1>0, <2>1 DEF Sizes, SizeInv
  <2>4. \A d \in Conns : pc'[d] \notin {"write", "grow"}
    BY <2>1 DEF FdInv, Busy
  <2>5. size' >= -Cardinality(Left') /\ size' <= ACCOUNT_MAX
    BY <1>0, <2>2, <2>3
  <2>6. QED
    BY <1>0, <2>1, <2>4, <2>5 DEF SizeInv
<1>8. ASSUME NEW c \in Conns, Acquire(c) \/ Release(c) PROVE SizeInv'
  <2>1. /\ UNCHANGED size /\ pc'[c] \in {"create", "scan"}
        /\ \A d \in Conns \ {c} : pc'[d] = pc[d]
    BY <1>8 DEF Acquire, Release, CallRemove, Goto, TypeInv
  <2>2. UNCHANGED n \/ n' = [n EXCEPT ![c] = size]
    BY <1>8 DEF Acquire, Release, CallRemove
  <2>3. size \in Sizes(c)
    BY DEF Sizes
  <2>4. QED
    BY <1>1, <1>2, <2>1, <2>2, <2>3
<1>9. ASSUME NEW c \in Conns, RemoveScan(c) \/ RemoveShift(c) PROVE SizeInv'
  <2>1. /\ UNCHANGED size /\ pc'[c] \in {"scan", "shift", "shrink", "close"}
        /\ \A d \in Conns \ {c} : pc'[d] = pc[d]
    BY <1>9 DEF RemoveScan, RemoveShift, ReturnFromRemove, Goto, TypeInv
  <2>2. \E s \in Sizes(c) \cup {0} : n' = [n EXCEPT ![c] = s]
    BY <1>9 DEF RemoveScan, RemoveShift, ReturnFromRemove
  <2>3. QED
    BY <1>2, <2>1, <2>2
<1>10. ASSUME NEW c \in Conns, RemoveStore(c) PROVE SizeInv'
  <2>1. /\ pc[c] = "shrink" /\ pc'[c] = "close" /\ \A d \in Conns \ {c} : pc'[d] = pc[d]
        /\ n'[c] = 0 /\ \A d \in Conns \ {c} : n'[d] = n[d]
    BY <1>10 DEF RemoveStore, ReturnFromRemove, Goto, TypeInv
  <2>2. PICK s \in Sizes(c) : size' = s - 1
    BY <1>10 DEF RemoveStore
  <2>3. s \in Int /\ s <= ACCOUNT_MAX /\ s >= -Cardinality(Left)
    BY <1>0 DEF Sizes, SizeInv
  <2>4. Left' = Left \cup {c} /\ c \notin Left
    BY <2>1 DEF Left
  <2>5. Cardinality(Left') = Cardinality(Left) + 1
    BY <2>4, LeftIs, FS_AddElement
  <2>6. size' >= -Cardinality(Left') /\ size' < ACCOUNT_MAX
    BY <1>0, <2>2, <2>3, <2>5
  <2>7. \A d \in Conns : n'[d] >= -Cardinality(Left') /\ n'[d] <= ACCOUNT_MAX
    BY <1>0, <2>1 DEF SizeInv
  <2>8. \A d \in Conns : pc'[d] \in {"write", "grow"} => n'[d] < ACCOUNT_MAX
    BY <2>1 DEF SizeInv
  <2>9. size' <= ACCOUNT_MAX
    BY <1>0, <2>2, <2>3
  <2>10. QED
    BY <2>6, <2>7, <2>8, <2>9 DEF SizeInv
<1>11. CASE (\E c \in Conns : Answering(c)) \/ SendTask \/ UNCHANGED vars
  BY <1>1, <1>11, SendingIs DEF vars
<1>12. QED
  BY <1>3, <1>4, <1>5, <1>6, <1>7, <1>8, <1>9, <1>10, <1>11 DEF Next, Listening, Leaving
-----------------------------------------------------------------------------
(* Descriptors and the listener *)

LEMMA FdInit == Init => FdInv
  BY DEF Init, FdInv, Busy

LEMMA FdNext ==
    ASSUME TypeInv, FdInv, [Next]_vars
    PROVE  FdInv'
<1>0. NoConn \notin Conns
  BY ServerAssumption
\* Steps that only move a connection on, between accept() and close().
<1>1. ASSUME NEW c \in Conns, UNCHANGED <<fd, listener>>,
             pc[c] \notin {"out", "gone"}, pc'[c] \notin {"out", "gone"},
             \A d \in Conns \ {c} : pc'[d] = pc[d],
             pc'[c] \in Busy => pc[c] \in Busy
      PROVE  FdInv'
  BY <1>1 DEF FdInv
<1>2. ASSUME NEW c \in Conns, Accept(c) PROVE FdInv'
  <2>1. /\ listener = NoConn /\ listener' = c /\ pc'[c] = "count" /\ fd'[c] = Min(Free)
        /\ \A d \in Conns \ {c} : pc'[d] = pc[d] /\ fd'[d] = fd[d]
    BY <1>2 DEF Accept, Goto, TypeInv
  <2>2. Min(Free) # 0 /\ \A d \in Conns : fd[d] # Min(Free)
    BY <1>2, FreeIs, ServerAssumption DEF Accept
  <2>3. \A d \in Conns : pc[d] \notin Busy
    BY <1>0, <2>1 DEF FdInv
  <2>4. QED
    BY <2>1, <2>2, <2>3 DEF FdInv
<1>3. ASSUME NEW c \in Conns, CheckCap(c) \/ ReplaceOwn(c) \/ AddLoad(c) \/ AddWrite(c) \/ AddStore(c)
                              \/ Acquire(c) \/ CreateFails(c)
      PROVE  FdInv'
  <2>1. UNCHANGED <<fd, listener>> /\ pc[c] \in Busy
    BY <1>3 DEF CheckCap, ReplaceOwn, AddLoad, AddWrite, AddStore, Acquire, CreateFails, Busy
  <2>2. /\ pc'[c] \in Busy \cup {"close", "release", "scan"}
        /\ \A d \in Conns \ {c} : pc'[d] = pc[d]
    BY <1>3 DEF CheckCap, ReplaceOwn, AddLoad, AddWrite, AddStore, Acquire, CreateFails, CallRemove,
       Goto, TypeInv, Busy
  <2>3. QED
    BY <1>1, <2>1, <2>2 DEF Busy
<1>4. ASSUME NEW c \in Conns, RecvEnds(c) \/ Release(c) \/ RemoveScan(c) \/ RemoveShift(c) \/ RemoveStore(c)
      PROVE  FdInv'
  <2>1. UNCHANGED <<fd, listener>> /\ pc[c] \notin {"out", "gone"}
    BY <1>4 DEF RecvEnds, Release, RemoveScan, RemoveShift, RemoveStore
  <2>2. /\ pc'[c] \in {"release", "scan", "shift", "shrink", "close"}
        /\ \A d \in Conns \ {c} : pc'[d] = pc[d]
    BY <1>4 DEF RecvEnds, Release, RemoveScan, RemoveShift, RemoveStore, CallRemove, ReturnFromRemove,
       Goto, TypeInv
  <2>3. QED
    BY <1>1, <2>1, <2>2 DEF Busy
<1>5. ASSUME NEW c \in Conns, CreateTask(c) PROVE FdInv'
  <2>1. /\ pc[c] = "create" /\ pc'[c] = "run" /\ UNCHANGED fd
        /\ \A d \in Conns \ {c} : pc'[d] = pc[d]
    BY <1>5 DEF CreateTask, Goto, TypeInv
  <2>2. \A d \in Conns : pc'[d] \notin Busy
    BY <2>1 DEF FdInv, Busy
  <2>3. QED
    BY <2>1, <2>2 DEF FdInv
<1>6. ASSUME NEW c \in Conns, Close(c) PROVE FdInv'
  <2>1. /\ pc'[c] = "gone" /\ fd'[c] = 0
        /\ \A d \in Conns \ {c} : pc'[d] = pc[d] /\ fd'[d] = fd[d]
    BY <1>6 DEF Close, Goto, TypeInv
  <2>2. \A d \in Conns : pc'[d] \in Busy => listener' = d
    BY <1>6, <2>1 DEF Close, FdInv, Busy
  <2>3. QED
    BY <2>1, <2>2 DEF FdInv
<1>7. CASE \/ \E c \in Conns : PeerCloses(c) \/ Reply(c) \/ Answering(c)
           \/ SendTask \/ UNCHANGED vars
  BY <1>7, SendingIs DEF PeerCloses, Reply, vars, FdInv
<1>8. QED
  BY <1>2, <1>3, <1>4, <1>5, <1>6, <1>7 DEF Next, Listening, Leaving
-----------------------------------------------------------------------------
(* Slots *)

LEMMA PoolInit == Init => PoolInv
  BY DEF Init, PoolInv, Served, FreeSlot

LEMMA PoolNext ==
    ASSUME TypeInv, FdInv, PoolInv, [Next]_vars
    PROVE  PoolInv'
<1>0. LOCAL_SESSION_MAX \in Nat /\ Slots \subseteq Nat
  BY ServerAssumption DEF Slots
\* Steps that leave the slots alone, and their connections' descriptors.
<1>1. ASSUME NEW c \in Conns, UNCHANGED pool,
             \A d \in Conns \ {c} : pc'[d] = pc[d] /\ fd'[d] = fd[d],
             \/ pc[c] \notin Served /\ pc'[c] \notin Served
             \/ pc[c] \in Served /\ pc'[c] \in Served /\ fd'[c] = fd[c]
      PROVE  PoolInv'
  <2>1. \A d \in Conns : pc'[d] \in Served => pc[d] \in Served /\ fd'[d] = fd[d]
    BY <1>1
  <2>2. \A d \in Conns : pc[d] \in Served => pc'[d] \in Served /\ fd'[d] = fd[d]
    BY <1>1
  <2>3. QED
    BY <1>1, <2>1, <2>2 DEF PoolInv
<1>2. ASSUME NEW c \in Conns, Accept(c) \/ CheckCap(c) \/ ReplaceOwn(c) \/ AddLoad(c) \/ AddWrite(c)
                              \/ AddStore(c)
      PROVE  PoolInv'
  <2>1. UNCHANGED pool /\ \A d \in Conns \ {c} : pc'[d] = pc[d] /\ fd'[d] = fd[d]
    BY <1>2 DEF Accept, CheckCap, ReplaceOwn, AddLoad, AddWrite, AddStore, Goto, TypeInv
  <2>2. pc[c] \notin Served /\ pc'[c] \notin Served
    BY <1>2 DEF Accept, CheckCap, ReplaceOwn, AddLoad, AddWrite, AddStore, Goto, TypeInv, Served
  <2>3. QED
    BY <1>1, <2>1, <2>2
<1>3. ASSUME NEW c \in Conns, CreateTask(c) \/ CreateFails(c) \/ RecvEnds(c) PROVE PoolInv'
  <2>1. UNCHANGED <<pool, fd>> /\ \A d \in Conns \ {c} : pc'[d] = pc[d]
    BY <1>3 DEF CreateTask, CreateFails, RecvEnds, Goto, TypeInv
  <2>2. pc[c] \in Served /\ pc'[c] \in Served
    BY <1>3 DEF CreateTask, CreateFails, RecvEnds, Goto, TypeInv, Served
  <2>3. QED
    BY <1>1, <2>1, <2>2
<1>4. ASSUME NEW c \in Conns, RemoveScan(c) \/ RemoveShift(c) \/ RemoveStore(c) \/ Close(c) PROVE PoolInv'
  <2>1. UNCHANGED pool /\ \A d \in Conns \ {c} : pc'[d] = pc[d] /\ fd'[d] = fd[d]
    BY <1>4 DEF RemoveScan, RemoveShift, RemoveStore, ReturnFromRemove, Close, Goto, TypeInv
  <2>2. pc[c] \notin Served /\ pc'[c] \notin Served
    BY <1>4 DEF RemoveScan, RemoveShift, RemoveStore, ReturnFromRemove, Close, Goto, TypeInv, Served
  <2>3. QED
    BY <1>1, <2>1, <2>2
<1>5. ASSUME NEW c \in Conns, Acquire(c) PROVE PoolInv'
  <2>1. pc[c] = "acquire" /\ UNCHANGED fd /\ \A d \in Conns \ {c} : pc'[d] = pc[d]
    BY <1>5 DEF Acquire, CallRemove, Goto, TypeInv
  <2>2. CASE ~\E k \in Slots : pool[k].sock = 0
    <3>1. UNCHANGED pool /\ pc'[c] = "scan"
      BY <1>5, <2>2 DEF Acquire, CallRemove, Goto, TypeInv
    <3>2. QED
      BY <1>1, <2>1, <3>1 DEF Served
  <2>3. CASE \E k \in Slots : pool[k].sock = 0
    <3> DEFINE k == Min({m \in Slots : pool[m].sock = 0})
    <3>1. k \in Slots /\ pool[k].sock = 0
      <4>1. {m \in Slots : pool[m].sock = 0} \in SUBSET Nat
        BY <1>0
      <4>2. {m \in Slots : pool[m].sock = 0} # {}
        BY <2>3
      <4>3. k \in {m \in Slots : pool[m].sock = 0}
        BY <4>1, <4>2, MinIn
      <4>4. QED
        BY <4>3
    <3>2. pc'[c] = "create" /\ pool' = [pool EXCEPT ![k] = [sock |-> fd[c], conn |-> c]]
      BY <1>5, <2>3 DEF Acquire, Goto, TypeInv
    <3> HIDE DEF k
    <3>3. pool'[k] = [sock |-> fd[c], conn |-> c] /\ \A m \in Slots \ {k} : pool'[m] = pool[m]
      BY <3>1, <3>2 DEF TypeInv
    <3>4. fd[c] # 0 /\ \A m \in Slots : pool[m].sock # fd[c]
      BY <2>1 DEF FdInv, PoolInv, Served
    <3>5. \A d \in Conns : pc'[d] \in Served => \E m \in Slots : pool'[m] = [sock |-> fd'[d], conn |-> d]
      <4>1. TAKE d \in Conns
      <4>2. HAVE pc'[d] \in Served
      <4>3. CASE d = c
        BY <2>1, <3>1, <3>3, <4>3
      <4>4. CASE d # c
        <5>1. PICK m \in Slots : pool[m] = [sock |-> fd[d], conn |-> d]
          BY <2>1, <4>2, <4>4 DEF PoolInv
        <5>2. fd[d] # 0
          BY <2>1, <4>2, <4>4 DEF FdInv, Served
        <5>3. m # k
          BY <3>1, <5>1, <5>2
        <5>4. QED
          BY <2>1, <3>3, <5>1, <5>3
      <4>5. QED
        BY <4>3, <4>4
    <3>6. \A m \in Slots : pool'[m].sock # 0 =>
             /\ pool'[m].conn \in Conns
             /\ pc'[pool'[m].conn] \in Served
             /\ fd'[pool'[m].conn] = pool'[m].sock
      <4>1. TAKE m \in Slots
      <4>2. CASE m = k
        BY <2>1, <3>2, <3>3, <4>2 DEF Served
      <4>3. CASE m # k
        <5>1. pool'[m] = pool[m]
          BY <3>3, <4>3
        <5>2. pool[m].sock # 0 => pool[m].conn \in Conns \ {c}
          BY <3>4 DEF PoolInv
        <5>3. QED
          BY <2>1, <5>1, <5>2 DEF PoolInv
      <4>4. QED
        BY <4>2, <4>3
    <3>7. \A l, m \in Slots : pool'[l].sock # 0 /\ pool'[l].sock = pool'[m].sock => l = m
      BY <3>3, <3>4 DEF PoolInv
    <3>8. QED
      BY <3>5, <3>6, <3>7 DEF PoolInv
  <2>4. QED
    BY <2>2, <2>3
<1>6. ASSUME NEW c \in Conns, Release(c) PROVE PoolInv'
  <2> DEFINE mine == {m \in Slots : pool[m].sock = fd[c]}
             k == Min(mine)
  <2>1. pc[c] = "release" /\ pc'[c] = "scan" /\ UNCHANGED fd /\ \A d \in Conns \ {c} : pc'[d] = pc[d]
    BY <1>6 DEF Release, CallRemove, Goto, TypeInv
  <2>2. fd[c] # 0 /\ mine # {}
    <3>1. fd[c] # 0
      BY <2>1 DEF FdInv
    <3>2. PICK m \in Slots : pool[m] = [sock |-> fd[c], conn |-> c]
      BY <2>1 DEF PoolInv, Served
    <3>3. m \in mine
      BY <3>2
    <3>4. QED
      BY <3>1, <3>3
  <2>3. k \in Slots /\ pool[k].sock = fd[c]
    <3>1. mine \in SUBSET Nat
      BY <1>0
    <3>2. k \in mine
      BY <2>2, <3>1, MinIn
    <3>3. QED
      BY <3>2
  <2>4. pool' = [pool EXCEPT ![k] = FreeSlot]
    BY <1>6, <2>2 DEF Release
  <2> HIDE DEF mine, k
  <2>5. pool'[k].sock = 0 /\ \A m \in Slots \ {k} : pool'[m] = pool[m]
    BY <2>3, <2>4 DEF TypeInv, FreeSlot
  <2>6. \A m \in Slots \ {k} : pool[m].sock # fd[c]
    BY <2>2, <2>3 DEF PoolInv
  <2>7. \A d \in Conns : pc'[d] \in Served => \E m \in Slots : pool'[m] = [sock |-> fd'[d], conn |-> d]
    <3>1. TAKE d \in Conns
    <3>2. HAVE pc'[d] \in Served
    <3>3. d # c /\ pc[d] \in Served
      BY <2>1, <3>2 DEF Served
    <3>4. PICK m \in Slots : pool[m] = [sock |-> fd[d], conn |-> d]
      BY <3>3 DEF PoolInv
    <3>5. fd[d] # fd[c]
      BY <2>2, <3>3 DEF FdInv
    <3>6. m # k
      BY <2>3, <3>4, <3>5
    <3>7. QED
      BY <2>1, <2>5, <3>4, <3>6
  <2>8. \A m \in Slots : pool'[m].sock # 0 =>
           /\ pool'[m].conn \in Conns
           /\ pc'[pool'[m].conn] \in Served
           /\ fd'[pool'[m].conn] = pool'[m].sock
    <3>1. TAKE m \in Slots
    <3>2. HAVE pool'[m].sock # 0
    <3>3. m # k /\ pool'[m] = pool[m]
      BY <2>5, <3>2
    <3>4. pool[m].conn \in Conns /\ pc[pool[m].conn] \in Served /\ fd[pool[m].conn] = pool[m].sock
      BY <3>2, <3>3 DEF PoolInv
    <3>5. pool[m].conn # c
      BY <2>6, <3>3, <3>4
    <3>6. QED
      BY <2>1, <3>3, <3>4, <3>5
  <2>9. \A l, m \in Slots : pool'[l].sock # 0 /\ pool'[l].sock = pool'[m].sock => l = m
    BY <2>5 DEF PoolInv
  <2>10. QED
    BY <2>7, <2>8, <2>9 DEF PoolInv
<1>7. CASE \/ \E c \in Conns : PeerCloses(c) \/ Reply(c) \/ Answering(c)
           \/ SendTask \/ UNCHANGED vars
  <2>1. UNCHANGED <<pc, fd, pool>>
    BY <1>7, SendingIs DEF PeerCloses, Reply, vars
  <2>2. QED
    BY <2>1 DEF PoolInv
<1>8. QED
  BY <1>2, <1>3, <1>4, <1>5, <1>6, <1>7 DEF Next, Listening, Leaving
-----------------------------------------------------------------------------
(* The cap *)

LEMMA CapInit == Init => CapInv
<1>1. ASSUME Init PROVE CapInv
  <2>1. Members = {} /\ Up = {}
    BY <1>1 DEF Init, Members, Up, Admitted, Served
  <2>2. StandsFor({})
    BY <2>1, FS_EmptySet, ServerAssumption DEF StandsFor
  <2>3. QED
    BY <2>2 DEF CapInv
<1>2. QED
  BY <1>1

\* While the listener counts, the connections with a slot are all that are let in.
LEMMA CountIs ==
    ASSUME TypeInv, FdInv, PoolInv, NEW c \in Conns, pc[c] \in {"count", "replace"}
    PROVE  /\ Members = {pool[k].conn : k \in {m \in Slots : pool[m].sock # 0}}
           /\ IsFiniteSet(Members) /\ Cardinality(Members) <= Count
           /\ Cardinality(Members) \in Nat /\ Count \in Nat
<1> DEFINE K == {m \in Slots : pool[m].sock # 0}
<1>1. Members = {d \in Conns : pc[d] \in Served}
  BY DEF Members, Admitted, FdInv, Busy
<1>2. Members = {pool[k].conn : k \in K}
  <2>1. ASSUME NEW d \in Conns, pc[d] \in Served PROVE \E k \in K : pool[k].conn = d
    <3>1. PICK k \in Slots : pool[k] = [sock |-> fd[d], conn |-> d]
      BY <2>1 DEF PoolInv
    <3>2. fd[d] # 0
      BY <2>1 DEF FdInv, Served
    <3>3. k \in K /\ pool[k].conn = d
      BY <3>1, <3>2
    <3>4. QED
      BY <3>3
  <2>2. ASSUME NEW k \in K PROVE pool[k].conn \in Conns /\ pc[pool[k].conn] \in Served
    BY DEF PoolInv
  <2>3. QED
    BY <1>1, <2>1, <2>2
<1>3. IsFiniteSet(K) /\ Cardinality(K) \in Nat
  <2>1. IsFiniteSet(Slots) /\ K \subseteq Slots
    BY ServerAssumption, FS_Interval DEF Slots
  <2>2. QED
    BY <2>1, FS_Subset, FS_CardinalityType
<1>4. Count = Cardinality(K)
  BY DEF Count
<1>5. [k \in K |-> pool[k].conn] \in Surjection(K, Members)
  BY <1>2 DEF Surjection
<1> HIDE DEF K
<1>6. IsFiniteSet(Members) /\ Cardinality(Members) <= Cardinality(K)
  BY <1>3, <1>5, FS_Surjection
<1>7. QED
  BY <1>2, <1>3, <1>4, <1>6, FS_CardinalityType DEF K

\* Below the cap a newcomer stands for itself.
LEMMA CapAdmits ==
    ASSUME TypeInv, FdInv, PoolInv, CapInv, NEW c \in Conns, CheckCap(c), Count < TCP_CLIENT_MAX
    PROVE  CapInv'
<1>1. /\ pc[c] = "count" /\ pc'[c] = "add" /\ UNCHANGED down
      /\ \A d \in Conns \ {c} : pc'[d] = pc[d]
  <2>1. pc[c] = "count" /\ UNCHANGED down
    BY DEF CheckCap
  <2>2. Count \in Nat /\ TCP_CLIENT_MAX \in Nat
    BY <2>1, CountIs, ServerAssumption
  <2>3. pc' = [pc EXCEPT ![c] = "add"]
    <3>1. ~(Count >= TCP_CLIENT_MAX)
      BY <2>2
    <3>2. QED
      BY <3>1 DEF CheckCap, Goto
  <2>4. QED
    BY <2>1, <2>3 DEF TypeInv
<1>2. Members' = Members \cup {c} /\ Up' \subseteq Members' /\ Members' \subseteq Conns
  BY <1>1 DEF Members, Up, Admitted
<1>3. /\ IsFiniteSet(Members) /\ Cardinality(Members) <= Count
      /\ Cardinality(Members) \in Nat /\ Count \in Nat /\ TCP_CLIENT_MAX \in Nat
  BY <1>1, CountIs, ServerAssumption
<1>4. Cardinality(Members') <= TCP_CLIENT_MAX
  BY <1>2, <1>3, FS_AddElement
<1>5. StandsFor(Members)'
  BY <1>2, <1>4 DEF StandsFor
<1>6. QED
  BY <1>2, <1>5 DEF CapInv

\* At the cap it stands for its peer, in the place of whoever did.
LEMMA CapReplaces ==
    ASSUME TypeInv, FdInv, PoolInv, CapInv, NEW c \in Conns, ReplaceOwn(c), OfPeer(Peer[c]) # {}
    PROVE  CapInv'
<1>1. /\ pc[c] = "replace" /\ pc'[c] = "add" /\ down' = down \cup OfPeer(Peer[c])
      /\ \A d \in Conns \ {c} : pc'[d] = pc[d]
  BY DEF ReplaceOwn, Goto, TypeInv
<1>2. Members' = Members \cup {c} /\ c \notin Members
  BY <1>1 DEF Members, Admitted, Served
<1>3. OfPeer(Peer[c]) = {d \in Members : Peer[d] = Peer[c]}
  BY <1>1, CountIs DEF OfPeer
<1>4. PICK R \in SUBSET Conns : StandsFor(R)
  BY DEF CapInv
<1>5. PICK r \in R : Peer[r] = Peer[c]
  BY <1>3, <1>4 DEF StandsFor
<1> DEFINE others == {d \in R : Peer[d] # Peer[c]}
           Q == others \cup {c}
<1>6. Up' \subseteq Q
  <2>1. ASSUME NEW d \in Up' PROVE d \in Q
    <3>1. CASE d = c
      BY <3>1
    <3>2. CASE d # c
      <4>1. d \in Members /\ d \notin down /\ d \notin OfPeer(Peer[c]) /\ pc[d] # "release"
        BY <1>1, <1>2, <3>2 DEF Up, Members
      <4>2. d \in R /\ Peer[d] # Peer[c]
        BY <1>3, <1>4, <4>1 DEF Up, StandsFor
      <4>3. QED
        BY <4>2
    <3>3. QED
      BY <3>1, <3>2
  <2>2. QED
    BY <2>1
<1>7. \A d \in Members' : \E q \in Q : Peer[q] = Peer[d]
  <2>1. TAKE d \in Members'
  <2>2. CASE Peer[d] = Peer[c]
    BY <2>2
  <2>3. CASE Peer[d] # Peer[c]
    <3>1. d \in Members
      BY <1>2, <2>3
    <3>2. PICK q \in R : Peer[q] = Peer[d]
      BY <1>4, <3>1 DEF StandsFor
    <3>3. q \in Q
      BY <2>3, <3>2
    <3>4. QED
      BY <3>2, <3>3
  <2>4. QED
    BY <2>2, <2>3
<1>8. Cardinality(Q) <= TCP_CLIENT_MAX
  <2>1. IsFiniteSet(R) /\ Cardinality(R) \in Nat /\ Cardinality(R) <= TCP_CLIENT_MAX
    BY <1>4, ServerAssumption, FS_Subset, FS_CardinalityType DEF StandsFor
  <2>2. IsFiniteSet(R \ {r}) /\ Cardinality(R \ {r}) = Cardinality(R) - 1
    BY <1>5, <2>1, FS_RemoveElement
  <2>3. others \subseteq R \ {r}
    BY <1>5
  <2>4. IsFiniteSet(others) /\ Cardinality(others) <= Cardinality(R \ {r}) /\ Cardinality(others) \in Nat
    BY <2>2, <2>3, FS_Subset, FS_CardinalityType
  <2> HIDE DEF others
  <2>5. Cardinality(Q) <= Cardinality(others) + 1 /\ Cardinality(Q) \in Nat
    <3>1. /\ IsFiniteSet(others \cup {c})
          /\ \/ Cardinality(others \cup {c}) = Cardinality(others)
             \/ Cardinality(others \cup {c}) = Cardinality(others) + 1
      BY <2>4, FS_AddElement
    <3>2. QED
      BY <2>4, <3>1
  <2>6. QED
    BY <2>1, <2>2, <2>4, <2>5, ServerAssumption
<1>9. Q \in SUBSET Conns
  OBVIOUS
<1> HIDE DEF Q
<1>10. StandsFor(Q)'
  BY <1>6, <1>7, <1>8 DEF StandsFor
<1>11. QED
  BY <1>9, <1>10 DEF CapInv

LEMMA CapNext ==
    ASSUME TypeInv, FdInv, PoolInv, CapInv, [Next]_vars
    PROVE  CapInv'
\* Steps that let nobody in.
<1>1. ASSUME NEW c \in Conns, down \subseteq down',
             \A d \in Conns \ {c} : pc'[d] = pc[d],
             pc'[c] \in Admitted => pc[c] \in Admitted /\ (pc[c] = "release" => pc'[c] = "release")
      PROVE  CapInv'
  <2>1. Members' \subseteq Members /\ Up' \subseteq Up
    BY <1>1 DEF Members, Up
  <2>2. PICK R \in SUBSET Conns : StandsFor(R)
    BY DEF CapInv
  <2>3. StandsFor(R)'
    BY <2>1, <2>2 DEF StandsFor
  <2>4. QED
    BY <2>3 DEF CapInv
<1>2. ASSUME NEW c \in Conns, CheckCap(c) PROVE CapInv'
  <2>1. CASE Count < TCP_CLIENT_MAX
    BY <1>2, <2>1, CapAdmits
  <2>2. CASE ~(Count < TCP_CLIENT_MAX)
    <3>1. Count >= TCP_CLIENT_MAX
      BY <1>2, <2>2, CountIs, ServerAssumption DEF CheckCap
    <3>2. pc'[c] = "replace" /\ UNCHANGED down /\ \A d \in Conns \ {c} : pc'[d] = pc[d]
      BY <1>2, <3>1 DEF CheckCap, Goto, TypeInv
    <3>3. QED
      BY <1>1, <3>2 DEF Admitted, Served
  <2>3. QED
    BY <2>1, <2>2
<1>3. ASSUME NEW c \in Conns, ReplaceOwn(c) PROVE CapInv'
  <2>1. CASE OfPeer(Peer[c]) # {}
    BY <1>3, <2>1, CapReplaces
  <2>2. CASE OfPeer(Peer[c]) = {}
    <3>1. pc'[c] = "close" /\ down \subseteq down' /\ \A d \in Conns \ {c} : pc'[d] = pc[d]
      BY <1>3, <2>2 DEF ReplaceOwn, Goto, TypeInv
    <3>2. QED
      BY <1>1, <3>1 DEF Admitted, Served
  <2>3. QED
    BY <2>1, <2>2
<1>4. ASSUME NEW c \in Conns, Accept(c) \/ AddLoad(c) \/ AddWrite(c) \/ AddStore(c) \/ Acquire(c)
                              \/ CreateTask(c) \/ CreateFails(c)
      PROVE  CapInv'
  <2>1. UNCHANGED down /\ \A d \in Conns \ {c} : pc'[d] = pc[d]
    BY <1>4 DEF Accept, AddLoad, AddWrite, AddStore, Acquire, CreateTask, CreateFails, CallRemove,
       Goto, TypeInv
  <2>2. pc'[c] \in Admitted => pc[c] \in Admitted /\ pc[c] # "release"
    BY <1>4 DEF Accept, AddLoad, AddWrite, AddStore, Acquire, CreateTask, CreateFails, CallRemove,
       Goto, TypeInv, Admitted, Served
  <2>3. QED
    BY <1>1, <2>1, <2>2
<1>5. ASSUME NEW c \in Conns, RecvEnds(c) \/ Release(c) \/ RemoveScan(c) \/ RemoveShift(c)
                              \/ RemoveStore(c) \/ Close(c)
      PROVE  CapInv'
  <2>1. UNCHANGED down /\ \A d \in Conns \ {c} : pc'[d] = pc[d]
    BY <1>5 DEF RecvEnds, Release, RemoveScan, RemoveShift, RemoveStore, Close, CallRemove,
       ReturnFromRemove, Goto, TypeInv
  <2>2. pc'[c] \in Admitted => pc[c] \in Admitted /\ pc[c] # "release"
    BY <1>5 DEF RecvEnds, Release, RemoveScan, RemoveShift, RemoveStore, Close, CallRemove,
       ReturnFromRemove, Goto, TypeInv, Admitted, Served
  <2>3. QED
    BY <1>1, <2>1, <2>2
<1>6. ASSUME NEW c \in Conns, PeerCloses(c) \/ Reply(c) PROVE CapInv'
  BY <1>1, <1>6 DEF PeerCloses, Reply
<1>7. CASE (\E c \in Conns : Answering(c)) \/ SendTask \/ UNCHANGED vars
  BY <1>7, SendingIs DEF vars, CapInv, StandsFor, Up, Members
<1>8. QED
  BY <1>2, <1>3, <1>4, <1>5, <1>6, <1>7 DEF Next, Listening, Leaving
-----------------------------------------------------------------------------
LEMMA ServerInvariant == SafeSpec => []ServerInv
<1>1. Init => ServerInv
  <2>1. Init => CallInv
    BY DEF Init, CallInv, Calls
  <2>2. QED
    BY <2>1, TypeInit, SizeInit, FdInit, PoolInit, CapInit DEF ServerInv
<1>2. ServerInv /\ [Next]_vars => ServerInv'
  BY TypeNext, CallNext, SizeNext, FdNext, PoolNext, CapNext DEF ServerInv
<1>3. QED
  BY <1>1, <1>2, PTL DEF SafeSpec

\* Connections, descriptors, slots and the registry keep their types.
\* account_list_size stays within ACCOUNT_MAX although add_account() and
\* remove_account() take no lock, whatever updates are lost on the way.
THEOREM TypeCorrect == SafeSpec => []TypeOK
<1>1. ServerInv => TypeOK
  <2>1. ASSUME ServerInv PROVE TypeOK
    <3>0. /\ Fds \in Nat /\ Cardinality(Left) \in Nat /\ Cardinality(Conns) \in Nat
          /\ Cardinality(Left) <= Cardinality(Conns) /\ ACCOUNT_MAX \in Nat
      BY LeftIs, ServerAssumption
    <3>1. size \in Below..ACCOUNT_MAX
      BY <2>1, <3>0 DEF ServerInv, TypeInv, SizeInv, Below
    <3>2. n \in [Conns -> Below..ACCOUNT_MAX]
      BY <2>1, <3>0 DEF ServerInv, TypeInv, SizeInv, Below
    <3>3. \A k \in DOMAIN queue : queue[k].sock \in 1..Fds /\ queue[k].conn \in Conns
      <4>1. \A k \in DOMAIN queue : queue[k] \in Line
        BY <2>1 DEF ServerInv, TypeInv
      <4>2. QED
        BY <4>1 DEF Line
    <3>4. sending.sock \in 0..Fds
      <4>1. CASE sending = NoLine
        BY <3>0, <4>1 DEF NoLine
      <4>2. CASE sending \in Line
        BY <3>0, <4>2 DEF Line
      <4>3. QED
        BY <2>1, <4>1, <4>2 DEF ServerInv, TypeInv
    <3>5. QED
      BY <2>1, <3>1, <3>2, <3>3, <3>4 DEF ServerInv, TypeInv, CallInv, TypeOK
  <2>2. QED
    BY <2>1
<1>2. QED
  BY <1>1, ServerInvariant, PTL

\* A receive task's local_session_find(sock) gives its own slot and nobody
\* else's, however descriptors are reused.
THEOREM TaskFindsItsSlot == SafeSpec => []SlotOfTask
<1>1. ServerInv => SlotOfTask
  BY DEF ServerInv, PoolInv, SlotOfTask, Served
<1>2. QED
  BY <1>1, ServerInvariant, PTL

\* No more than TCP_CLIENT_MAX connections are up at any time, although the
\* listener counts, shuts down and acquires in three critical sections, and
\* connections that are down still hold slots.
THEOREM CapHolds == SafeSpec => []LiveCap
<1>1. ServerInv => LiveCap
  <2>1. ASSUME ServerInv PROVE LiveCap
    <3> DEFINE live == {c \in Conns : pc[c] = "run" /\ c \notin down}
    <3>1. PICK R \in SUBSET Conns : StandsFor(R)
      BY <2>1 DEF ServerInv, CapInv
    <3>2. IsFiniteSet(R) /\ Cardinality(R) \in Nat /\ Cardinality(R) <= TCP_CLIENT_MAX
      BY <3>1, ServerAssumption, FS_Subset, FS_CardinalityType DEF StandsFor
    <3>3. live \subseteq R
      BY <3>1 DEF StandsFor, Up, Members, Admitted, Served
    <3>4. Cardinality(live) <= Cardinality(R) /\ Cardinality(live) \in Nat
      BY <3>2, <3>3, FS_Subset, FS_CardinalityType
    <3>5. QED
      BY <3>2, <3>4, ServerAssumption DEF LiveCap
  <2>2. QED
    BY <2>1
<1>2. QED
  BY <1>1, ServerInvariant, PTL
-----------------------------------------------------------------------------
(* Discovery *)

\* Tasks that are between a change and its announcement.
Applying == {t \in Tasks : pending[t] = "apply"}

Refreshing == {t \in Tasks : pending[t] = "refresh"}

\* The controller advertises exactly what the beacon thinks it does; a beacon
\* that could run and does not, or should not and does, has a task that will
\* apply the mode.
BeaconInv ==
    /\ beacon.advertising => beacon.ready /\ beacon.ip # NoAddress
    /\ onAir = IF beacon.advertising THEN beacon.ip ELSE NoAddress
    /\ beacon.ready /\ beacon.ip # NoAddress /\ Applying = {}
          => (beacon.advertising <=> ShouldAdvertiseBle(mode))

\* Only the start of the responder and a refresh hold s_lock.  The flag that
\* the holder has read is the list's, and the record is the owner's, unless
\* another task's refresh is still to come.
TxtInv ==
    /\ mdns.lock = "start" => mdns.state = "off"
    /\ mdns.lock \in Tasks => mdns.state = "up" /\ pending[mdns.lock] = "refresh"
    /\ mdns.lock # "free" /\ Refreshing \subseteq {mdns.lock} => mdns.paired = owner.list
    /\ mdns.state = "up" /\ Refreshing = {} => txt = owner

DiscoveryInv == DiscoveryTypeOK /\ BeaconInv /\ TxtInv
-----------------------------------------------------------------------------
(* The beacon *)

\* start_advertising_locked() of a beacon of the right type gives one.
LEMMA StartAdvertisingType ==
    ASSUME DiscoveryTypeOK,
           NEW b \in [ready : BOOLEAN, ip : Addresses \cup {NoAddress}, advertising : BOOLEAN],
           StartAdvertising(b)
    PROVE  /\ beacon' \in [ready : BOOLEAN, ip : Addresses \cup {NoAddress}, advertising : BOOLEAN]
           /\ onAir' \in Addresses \cup {NoAddress}
<1> DEFINE should == ShouldAdvertiseBle(mode)
<1>1. should \in BOOLEAN
  BY DEF ShouldAdvertiseBle
<1>2. /\ beacon' = b \/ beacon' = [b EXCEPT !.advertising = should]
      /\ onAir' \in {onAir, NoAddress, b.ip}
  BY Zenon DEF StartAdvertising, Stopped
<1> HIDE DEF should
<1>3. QED
  BY <1>1, <1>2 DEF DiscoveryTypeOK

\* It leaves beacon and controller in agreement with each other and with the
\* mode, whatever the beacon did before: all it relies on is that a beacon that
\* cannot run does not.
LEMMA StartAdvertisingFollows ==
    ASSUME DiscoveryTypeOK, BeaconInv,
           NEW b \in [ready : BOOLEAN, ip : Addresses \cup {NoAddress}, advertising : BOOLEAN],
           StartAdvertising(b),
           ~b.ready \/ b.ip = NoAddress => ~beacon.advertising /\ ~b.advertising,
           mode' = mode
    PROVE  BeaconInv'
  BY DEF DiscoveryTypeOK, BeaconInv, StartAdvertising, Stopped, ShouldAdvertiseBle, Modes
-----------------------------------------------------------------------------
LEMMA DiscoveryInitHolds == DiscoveryInit => DiscoveryInv
<1> SUFFICES ASSUME DiscoveryInit PROVE DiscoveryInv
  OBVIOUS
<1>1. DiscoveryTypeOK
  BY DEF DiscoveryInit, DiscoveryTypeOK, Owners, Nobody, NoBeacon, NobodyPending
<1>2. BeaconInv
  BY DEF DiscoveryInit, BeaconInv, NoBeacon
<1>3. TxtInv
  BY TaskAssumption DEF DiscoveryInit, TxtInv
<1>4. QED
  BY <1>1, <1>2, <1>3 DEF DiscoveryInv

LEMMA BeaconSyncPreserves == DiscoveryInv /\ BeaconSync => DiscoveryInv'
<1> SUFFICES ASSUME DiscoveryInv, BeaconSync PROVE DiscoveryInv'
  OBVIOUS
<1> DEFINE b == [beacon EXCEPT !.ready = TRUE]
<1>1. /\ b \in [ready : BOOLEAN, ip : Addresses \cup {NoAddress}, advertising : BOOLEAN]
      /\ b.ready /\ b.ip = beacon.ip /\ b.advertising = beacon.advertising
  BY DEF DiscoveryInv, DiscoveryTypeOK
<1>2. StartAdvertising(b) /\ ~beacon.ready /\ UNCHANGED <<servers, mode, owner, mdns, txt, pending>>
  BY DEF BeaconSync
<1> HIDE DEF b
<1>3. DiscoveryTypeOK'
  BY <1>1, <1>2, StartAdvertisingType DEF DiscoveryInv, DiscoveryTypeOK
<1>4. BeaconInv'
  <2>1. ~beacon.advertising
    BY <1>2 DEF DiscoveryInv, BeaconInv
  <2>2. QED
    BY <1>1, <1>2, <2>1, StartAdvertisingFollows DEF DiscoveryInv
<1>5. TxtInv'
  BY <1>2 DEF DiscoveryInv, TxtInv, Refreshing
<1>6. QED
  BY <1>3, <1>4, <1>5 DEF DiscoveryInv

LEMMA BeaconResetPreserves == DiscoveryInv /\ BeaconReset => DiscoveryInv'
<1> SUFFICES ASSUME DiscoveryInv, BeaconReset PROVE DiscoveryInv'
  OBVIOUS
<1>1. DiscoveryTypeOK'
  BY DEF DiscoveryInv, BeaconReset, DiscoveryTypeOK, Stopped
<1>2. BeaconInv'
  BY DEF DiscoveryInv, BeaconReset, BeaconInv, Stopped, DiscoveryTypeOK
<1>3. TxtInv'
  BY DEF DiscoveryInv, BeaconReset, TxtInv, Refreshing
<1>4. QED
  BY <1>1, <1>2, <1>3 DEF DiscoveryInv

LEMMA AdvCompletePreserves == DiscoveryInv /\ AdvComplete => DiscoveryInv'
<1> SUFFICES ASSUME DiscoveryInv, AdvComplete PROVE DiscoveryInv'
  OBVIOUS
<1> DEFINE b == Stopped(beacon)
<1>1. /\ b \in [ready : BOOLEAN, ip : Addresses \cup {NoAddress}, advertising : BOOLEAN]
      /\ b.ready = beacon.ready /\ b.ip = beacon.ip
  BY DEF DiscoveryInv, DiscoveryTypeOK, Stopped
<1>2. /\ StartAdvertising(b) /\ beacon.advertising
      /\ UNCHANGED <<servers, mode, owner, mdns, txt, pending>>
  BY DEF AdvComplete
<1> HIDE DEF b
<1>3. DiscoveryTypeOK'
  BY <1>1, <1>2, StartAdvertisingType DEF DiscoveryInv, DiscoveryTypeOK
<1>4. BeaconInv'
  <2>1. b.ready /\ b.ip # NoAddress
    BY <1>1, <1>2 DEF DiscoveryInv, BeaconInv
  <2>2. QED
    BY <1>1, <1>2, <2>1, StartAdvertisingFollows DEF DiscoveryInv
<1>5. TxtInv'
  BY <1>2 DEF DiscoveryInv, TxtInv, Refreshing
<1>6. QED
  BY <1>3, <1>4, <1>5 DEF DiscoveryInv

LEMMA GotIpPreserves ==
    ASSUME DiscoveryInv, NEW a \in Addresses, GotIp(a)
    PROVE  DiscoveryInv'
<1> DEFINE b == [beacon EXCEPT !.ip = a]
<1>1. /\ b \in [ready : BOOLEAN, ip : Addresses \cup {NoAddress}, advertising : BOOLEAN]
      /\ b.ready = beacon.ready /\ b.ip # NoAddress /\ b.advertising = beacon.advertising
  BY AddressAssumption DEF DiscoveryInv, DiscoveryTypeOK
<1>2. StartAdvertising(b) /\ servers' = TRUE /\ UNCHANGED <<mode, owner, mdns, txt, pending>>
  BY DEF GotIp, OnIp
<1> HIDE DEF b
<1>3. DiscoveryTypeOK'
  BY <1>1, <1>2, StartAdvertisingType DEF DiscoveryInv, DiscoveryTypeOK
<1>4. BeaconInv'
  <2>1. ~b.ready => ~beacon.advertising /\ ~b.advertising
    BY <1>1 DEF DiscoveryInv, BeaconInv
  <2>2. QED
    BY <1>1, <1>2, <2>1, StartAdvertisingFollows DEF DiscoveryInv
<1>5. TxtInv'
  BY <1>2 DEF DiscoveryInv, TxtInv, Refreshing
<1>6. QED
  BY <1>3, <1>4, <1>5 DEF DiscoveryInv

LEMMA DisconnectedPreserves == DiscoveryInv /\ Disconnected => DiscoveryInv'
<1> SUFFICES ASSUME DiscoveryInv, Disconnected PROVE DiscoveryInv'
  OBVIOUS
<1>1. DiscoveryTypeOK'
  BY DEF DiscoveryInv, Disconnected, OnIpLost, DiscoveryTypeOK, Stopped
<1>2. BeaconInv'
  BY DEF DiscoveryInv, Disconnected, OnIpLost, BeaconInv, Stopped, DiscoveryTypeOK
<1>3. TxtInv'
  BY DEF DiscoveryInv, Disconnected, TxtInv, Refreshing
<1>4. QED
  BY <1>1, <1>2, <1>3 DEF DiscoveryInv
-----------------------------------------------------------------------------
(* The TXT record *)

LEMMA MdnsPreserves ==
    DiscoveryInv /\ (MdnsStart \/ MdnsStarted \/ MdnsStartFails) => DiscoveryInv'
<1> SUFFICES ASSUME DiscoveryInv, MdnsStart \/ MdnsStarted \/ MdnsStartFails
             PROVE  DiscoveryInv'
  OBVIOUS
<1>1. DiscoveryTypeOK'
  <2>1. owner.list \in BOOLEAN /\ BuildTxt \in Owners
    BY DEF DiscoveryInv, DiscoveryTypeOK, Owners, BuildTxt
  <2>2. CASE MdnsStart
    BY <2>1, <2>2 DEF DiscoveryInv, MdnsStart, DiscoveryTypeOK, ReadPaired
  <2>3. CASE MdnsStarted
    BY <2>1, <2>3 DEF DiscoveryInv, MdnsStarted, DiscoveryTypeOK
  <2>4. CASE MdnsStartFails
    BY <2>4 DEF DiscoveryInv, MdnsStartFails, DiscoveryTypeOK
  <2>5. QED
    BY <2>2, <2>3, <2>4
<1>2. BeaconInv'
  BY DEF DiscoveryInv, MdnsStart, MdnsStarted, MdnsStartFails, BeaconInv, Applying
<1>3. TxtInv'
  <2>1. CASE MdnsStart
    BY <2>1, TaskAssumption DEF DiscoveryInv, MdnsStart, ReadPaired, TxtInv, Refreshing, DiscoveryTypeOK, Owners
  <2>2. CASE MdnsStarted
    BY <2>2, TaskAssumption DEF DiscoveryInv, MdnsStarted, BuildTxt, TxtInv, Refreshing, DiscoveryTypeOK, Owners
  <2>3. CASE MdnsStartFails
    BY <2>3, TaskAssumption DEF DiscoveryInv, MdnsStartFails, TxtInv, Refreshing, DiscoveryTypeOK
  <2>4. QED
    BY <2>1, <2>2, <2>3
<1>4. QED
  BY <1>1, <1>2, <1>3 DEF DiscoveryInv
-----------------------------------------------------------------------------
(* The clients' commands *)

LEMMA SetModePreserves ==
    ASSUME DiscoveryInv, NEW t \in Tasks, NEW m \in Modes, SetMode(t, m)
    PROVE  DiscoveryInv'
<1>1. DiscoveryTypeOK'
  BY DEF DiscoveryInv, SetMode, DiscoveryTypeOK
<1>2. BeaconInv'
  <2>1. t \in Applying'
    BY DEF DiscoveryInv, SetMode, DiscoveryTypeOK, Applying
  <2>2. QED
    BY <2>1 DEF DiscoveryInv, SetMode, BeaconInv
<1>3. TxtInv'
  <2>1. Refreshing' = Refreshing /\ \A u \in Tasks : pending[u] = "refresh" => pending'[u] = "refresh"
    BY DEF DiscoveryInv, SetMode, DiscoveryTypeOK, Refreshing
  <2>2. QED
    BY <2>1 DEF DiscoveryInv, SetMode, TxtInv
<1>4. QED
  BY <1>1, <1>2, <1>3 DEF DiscoveryInv

\* The last command to apply the mode applies the mode that is stored.
LEMMA ApplyModePreserves ==
    ASSUME DiscoveryInv, NEW t \in Tasks, ApplyMode(t)
    PROVE  DiscoveryInv'
<1>1. /\ StartAdvertising(beacon) /\ pending' = [pending EXCEPT ![t] = "none"]
      /\ pending[t] = "apply" /\ UNCHANGED <<servers, mode, owner, mdns, txt>>
  BY DEF ApplyMode
<1>2. beacon \in [ready : BOOLEAN, ip : Addresses \cup {NoAddress}, advertising : BOOLEAN]
  BY DEF DiscoveryInv, DiscoveryTypeOK
<1>3. DiscoveryTypeOK'
  BY <1>1, <1>2, StartAdvertisingType DEF DiscoveryInv, DiscoveryTypeOK
<1>4. BeaconInv'
  <2>1. ~beacon.ready \/ beacon.ip = NoAddress => ~beacon.advertising
    BY DEF DiscoveryInv, BeaconInv
  <2>2. QED
    BY <1>1, <1>2, <2>1, StartAdvertisingFollows DEF DiscoveryInv
<1>5. TxtInv'
  <2>1. Refreshing' = Refreshing /\ \A u \in Tasks : pending[u] = "refresh" => pending'[u] = "refresh"
    BY <1>1 DEF DiscoveryInv, DiscoveryTypeOK, Refreshing
  <2>2. QED
    BY <1>1, <2>1 DEF DiscoveryInv, TxtInv
<1>6. QED
  BY <1>3, <1>4, <1>5 DEF DiscoveryInv

\* The task that changes the flags does not hold s_lock, so the holder's copy
\* may get old only together with a refresh that is not the holder's.
LEMMA ChangeOwnerPreserves ==
    ASSUME DiscoveryInv, NEW t \in Tasks, NEW o \in Owners, ChangeOwner(t, o)
    PROVE  DiscoveryInv'
<1>1. DiscoveryTypeOK'
  BY DEF DiscoveryInv, ChangeOwner, DiscoveryTypeOK
<1>2. BeaconInv'
  <2>1. Applying' = Applying
    BY DEF DiscoveryInv, ChangeOwner, DiscoveryTypeOK, Applying
  <2>2. QED
    BY <2>1 DEF DiscoveryInv, ChangeOwner, BeaconInv
<1>3. TxtInv'
  <2>1. t \in Refreshing' /\ t # mdns.lock
    BY TaskAssumption DEF DiscoveryInv, ChangeOwner, DiscoveryTypeOK, Refreshing, TxtInv
  <2>2. \A u \in Tasks : pending[u] = "refresh" => pending'[u] = "refresh"
    BY DEF DiscoveryInv, ChangeOwner, DiscoveryTypeOK
  <2>3. QED
    BY <2>1, <2>2 DEF DiscoveryInv, ChangeOwner, TxtInv
<1>4. QED
  BY <1>1, <1>2, <1>3 DEF DiscoveryInv

LEMMA RefreshReadsPreserves ==
    ASSUME DiscoveryInv, NEW t \in Tasks, RefreshReads(t)
    PROVE  DiscoveryInv'
<1>1. CASE mdns.state # "up"
  <2>1. /\ pending' = [pending EXCEPT ![t] = "none"] /\ pending[t] = "refresh"
        /\ mdns.lock = "free" /\ UNCHANGED <<servers, beacon, onAir, mode, owner, mdns, txt>>
    BY <1>1 DEF RefreshReads
  <2>2. DiscoveryTypeOK'
    BY <2>1 DEF DiscoveryInv, DiscoveryTypeOK
  <2>3. BeaconInv'
    BY <2>1 DEF DiscoveryInv, BeaconInv, Applying, DiscoveryTypeOK
  <2>4. TxtInv'
    BY <1>1, <2>1, TaskAssumption DEF DiscoveryInv, TxtInv
  <2>5. QED
    BY <2>2, <2>3, <2>4 DEF DiscoveryInv
<1>2. CASE mdns.state = "up"
  <2>1. /\ mdns' = [mdns EXCEPT !.lock = t, !.paired = owner.list] /\ pending[t] = "refresh"
        /\ UNCHANGED <<servers, beacon, onAir, mode, owner, txt, pending>>
    BY <1>2 DEF RefreshReads, ReadPaired
  <2>2. DiscoveryTypeOK'
    <3>1. owner.list \in BOOLEAN
      BY DEF DiscoveryInv, DiscoveryTypeOK, Owners
    <3>2. QED
      BY <2>1, <3>1 DEF DiscoveryInv, DiscoveryTypeOK
  <2>3. BeaconInv'
    BY <2>1 DEF DiscoveryInv, BeaconInv, Applying
  <2>4. TxtInv'
    BY <1>2, <2>1, TaskAssumption DEF DiscoveryInv, TxtInv, DiscoveryTypeOK, Refreshing
  <2>5. QED
    BY <2>2, <2>3, <2>4 DEF DiscoveryInv
<1>3. QED
  BY <1>1, <1>2

\* The last refresh to set the record sets the flags that are stored.
LEMMA RefreshSetsPreserves ==
    ASSUME DiscoveryInv, NEW t \in Tasks, RefreshSets(t)
    PROVE  DiscoveryInv'
<1>1. /\ mdns.lock = t /\ txt' = BuildTxt
      /\ mdns' = [mdns EXCEPT !.lock = "free"] /\ pending' = [pending EXCEPT ![t] = "none"]
      /\ UNCHANGED <<servers, beacon, onAir, mode, owner>>
  BY DEF RefreshSets
<1>2. DiscoveryTypeOK'
  <2>1. BuildTxt \in Owners
    BY DEF DiscoveryInv, DiscoveryTypeOK, Owners, BuildTxt
  <2>2. QED
    BY <1>1, <2>1 DEF DiscoveryInv, DiscoveryTypeOK
<1>3. BeaconInv'
  <2>1. Applying' = Applying
    BY <1>1 DEF DiscoveryInv, DiscoveryTypeOK, Applying, TxtInv
  <2>2. QED
    BY <1>1, <2>1 DEF DiscoveryInv, BeaconInv
<1>4. TxtInv'
  <2>1. Refreshing \subseteq Refreshing' \cup {t}
    BY <1>1 DEF DiscoveryInv, DiscoveryTypeOK, Refreshing
  <2>2. ASSUME Refreshing' = {} PROVE txt' = owner'
    <3>1. mdns.paired = owner.list
      BY <1>1, <2>1, <2>2, TaskAssumption DEF DiscoveryInv, TxtInv
    <3>2. QED
      BY <1>1, <3>1 DEF DiscoveryInv, DiscoveryTypeOK, Owners, BuildTxt
  <2>3. mdns'.lock = "free"
    BY <1>1 DEF DiscoveryInv, DiscoveryTypeOK
  <2>4. QED
    BY <2>2, <2>3, TaskAssumption DEF TxtInv
<1>5. QED
  BY <1>2, <1>3, <1>4 DEF DiscoveryInv
-----------------------------------------------------------------------------
LEMMA CommandPreserves ==
    ASSUME DiscoveryInv, NEW t \in Tasks, Command(t)
    PROVE  DiscoveryInv'
  BY SetModePreserves, ApplyModePreserves, ChangeOwnerPreserves, RefreshReadsPreserves,
     RefreshSetsPreserves DEF Command

LEMMA DiscoveryNextPreserves == DiscoveryInv /\ [DiscoveryNext]_discoveryVars => DiscoveryInv'
<1>1. DiscoveryInv /\ DiscoveryNext => DiscoveryInv'
  BY BeaconSyncPreserves, BeaconResetPreserves, AdvCompletePreserves, GotIpPreserves,
     DisconnectedPreserves, MdnsPreserves, CommandPreserves DEF DiscoveryNext
<1>2. DiscoveryInv /\ UNCHANGED discoveryVars => DiscoveryInv'
  BY DEF DiscoveryInv, DiscoveryTypeOK, BeaconInv, TxtInv, Applying, Refreshing, discoveryVars
<1>3. QED
  BY <1>1, <1>2

\* Every state of the device satisfies the inductive invariant.
LEMMA DiscoveryInvHolds == DiscoverySpec => []DiscoveryInv
  BY DiscoveryInitHolds, DiscoveryNextPreserves, PTL DEF DiscoverySpec

\* Type correctness of the announcements' state.
THEOREM DiscoveryTypeCorrect == DiscoverySpec => []DiscoveryTypeOK
<1>1. DiscoveryInv => DiscoveryTypeOK
  BY DEF DiscoveryInv
<1>2. QED
  BY <1>1, DiscoveryInvHolds, PTL

\* Once no command is between its change of the mode and its announcement,
\* the beacon is on the air exactly when host, address and mode allow it, with
\* the address of now (ble_beacon.c, discovery_mode.c).
THEOREM BeaconCorrect == DiscoverySpec => []BeaconFollows
<1>1. DiscoveryInv => BeaconFollows
  BY DEF DiscoveryInv, BeaconInv, BeaconFollows, Applying, DiscoveryTypeOK
<1>2. QED
  BY <1>1, DiscoveryInvHolds, PTL

\* Once no refresh is under way, the TXT record of a responder that is up says
\* what paired list and password are (mdns_discovery.c).
THEOREM TxtCorrect == DiscoverySpec => []TxtFollows
<1>1. DiscoveryInv => TxtFollows
  BY DEF DiscoveryInv, TxtInv, TxtFollows, Refreshing
<1>2. QED
  BY <1>1, DiscoveryInvHolds, PTL
=============================================================================
