---------------------------- MODULE ResponseFifo ----------------------------
(***************************************************************************)
(* The outgoing response FIFO (common/response_fifo.c) with its producers  *)
(* (any task that answers a client) and its one consumer, the local send   *)
(* task (tcp_response_send_task in tcp_server/tcp_client_list.c).          *)
(*                                                                         *)
(* Everything the code does between taking and giving f->mutex is one      *)
(* step; the data_ready semaphore is given in a later step, because push() *)
(* gives it after it has released the mutex.                               *)
(*                                                                         *)
(* A line is a number that tells it from the others.  end gives the        *)
(* absolute offset, in the stream of bytes ever stored, just after a       *)
(* line's newline, and base the absolute offset of f->buf[0]; so line l    *)
(* ends at buffer index end[l] - base, which is what memchr finds in       *)
(* discard_oldest().                                                       *)
(***************************************************************************)
EXTENDS Integers, Sequences

CONSTANTS Producers,           \* tasks that call response_fifo_push()
          Needs,               \* sizes of a line, its newline included
          RESPONSE_FIFO_SIZE,  \* bytes of f->buf
          OverwriteOldest,     \* RESPONSE_FIFO_ON_FULL == RESPONSE_FIFO_OVERWRITE_OLDEST
          MaxPushes            \* bound: how often push() is called

ASSUME FifoAssumption ==
    /\ Needs \subseteq Nat \ {0}
    /\ RESPONSE_FIFO_SIZE \in Nat \ {0}
    /\ OverwriteOldest \in BOOLEAN
    /\ MaxPushes \in Nat

VARIABLES
    fifo,        \* the lines in f->buf, oldest first
    end,         \* per line: absolute offset just after its newline
    base,        \* absolute offset of f->buf[0]
    len,         \* f->len
    dataReady,   \* the binary semaphore f->data_ready has been given
    producer,    \* per producer: "idle", or "unlocked" between the two gives of push()
    sender,      \* where tcp_response_send_task is
    staging,     \* lines drained and not yet sent
    sent,        \* lines handed to the sockets, in order
    pushes       \* push() calls so far

vars == <<fifo, end, base, len, dataReady, producer, sender, staging, sent, pushes>>

Line == 0..(MaxPushes - 1)

SenderStates == {"wait", "take", "drain", "send"}
-----------------------------------------------------------------------------
Init ==
    /\ fifo = <<>>
    /\ end = [l \in Line |-> 0]
    /\ base = 0
    /\ len = 0
    /\ dataReady = FALSE
    /\ producer = [p \in Producers |-> "idle"]
    /\ sender = "wait"
    /\ staging = <<>>
    /\ sent = <<>>
    /\ pushes = 0

\* Mutant of Overflows: one byte too many is accepted.
OverflowsLate(need) == len + need > RESPONSE_FIFO_SIZE + 1

Overflows(need) == len + need > RESPONSE_FIFO_SIZE

\* discard_oldest(): the first k lines go, the fewest that leave need bytes free.
Frees(k, need) == RESPONSE_FIFO_SIZE - (len - (end[fifo[k]] - base)) >= need

FewestToDiscard(k, need) ==
    /\ k \in 1..Len(fifo)
    /\ Frees(k, need)
    /\ \A j \in 1..(k - 1) : ~Frees(j, need)

\* push(): the line does not fit (or never will) and is refused.
PushRefused(p, need) ==
    /\ producer[p] = "idle"
    /\ pushes < MaxPushes
    /\ need > RESPONSE_FIFO_SIZE \/ (Overflows(need) /\ ~OverwriteOldest)
    /\ pushes' = pushes + 1
    /\ UNCHANGED <<fifo, end, base, len, dataReady, producer, sender, staging, sent>>

\* Mutant of PushFits: data_ready is not given.
PushFitsSilently(p, need) ==
    /\ producer[p] = "idle"
    /\ pushes < MaxPushes
    /\ need <= RESPONSE_FIFO_SIZE
    /\ ~Overflows(need)
    /\ fifo' = Append(fifo, pushes)
    /\ end' = [end EXCEPT ![pushes] = base + len + need]
    /\ len' = len + need
    /\ pushes' = pushes + 1
    /\ UNCHANGED <<base, dataReady, producer, sender, staging, sent>>

\* push(): the line fits as the buffer is.
PushFits(p, need) ==
    /\ producer[p] = "idle"
    /\ pushes < MaxPushes
    /\ need <= RESPONSE_FIFO_SIZE
    /\ ~Overflows(need)
    /\ fifo' = Append(fifo, pushes)
    /\ end' = [end EXCEPT ![pushes] = base + len + need]
    /\ len' = len + need
    /\ producer' = [producer EXCEPT ![p] = "unlocked"]
    /\ pushes' = pushes + 1
    /\ UNCHANGED <<base, dataReady, sender, staging, sent>>

\* push(), overwriting build: whole lines are discarded from the head first.
PushOverwrites(p, need) ==
    /\ producer[p] = "idle"
    /\ pushes < MaxPushes
    /\ need <= RESPONSE_FIFO_SIZE
    /\ Overflows(need)
    /\ OverwriteOldest
    /\ \E k \in 1..Len(fifo) :
          /\ FewestToDiscard(k, need)
          /\ fifo' = Append(SubSeq(fifo, k + 1, Len(fifo)), pushes)
          /\ len' = len - (end[fifo[k]] - base) + need
          /\ base' = end[fifo[k]]
    /\ end' = [end EXCEPT ![pushes] = base + len + need]
    /\ producer' = [producer EXCEPT ![p] = "unlocked"]
    /\ pushes' = pushes + 1
    /\ UNCHANGED <<dataReady, sender, staging, sent>>

\* push(), after the mutex: xSemaphoreGive(f->data_ready).
Give(p) ==
    /\ producer[p] = "unlocked"
    /\ producer' = [producer EXCEPT ![p] = "idle"]
    /\ dataReady' = TRUE
    /\ UNCHANGED <<fifo, end, base, len, sender, staging, sent, pushes>>

\* response_fifo_wait(): the check, under the mutex.
WaitCheck ==
    /\ sender = "wait"
    /\ sender' = IF fifo = <<>> THEN "take" ELSE "drain"
    /\ UNCHANGED <<fifo, end, base, len, dataReady, producer, staging, sent, pushes>>

\* response_fifo_wait(): xSemaphoreTake(f->data_ready, portMAX_DELAY) returns.
WaitTake ==
    /\ sender = "take"
    /\ dataReady
    /\ dataReady' = FALSE
    /\ sender' = "drain"
    /\ UNCHANGED <<fifo, end, base, len, producer, staging, sent, pushes>>

\* Mutant of Drain: the length of the buffer is not reset.
DrainKeepsLines ==
    /\ sender = "drain"
    /\ staging' = fifo
    /\ sender' = IF fifo = <<>> THEN "wait" ELSE "send"
    /\ UNCHANGED <<fifo, end, base, len, dataReady, producer, sent, pushes>>

\* Mutant of Drain: the capacity is subtracted instead of what was copied.
DrainSubtractsCapacity ==
    /\ sender = "drain"
    /\ staging' = fifo
    /\ fifo' = <<>>
    /\ base' = base + len
    /\ len' = len - RESPONSE_FIFO_SIZE
    /\ sender' = IF fifo = <<>> THEN "wait" ELSE "send"
    /\ UNCHANGED <<end, dataReady, producer, sent, pushes>>

\* response_fifo_drain() into a buffer of RESPONSE_FIFO_SIZE bytes: all of it.
Drain ==
    /\ sender = "drain"
    /\ staging' = fifo
    /\ fifo' = <<>>
    /\ base' = base + len
    /\ len' = 0
    /\ sender' = IF fifo = <<>> THEN "wait" ELSE "send"
    /\ UNCHANGED <<end, dataReady, producer, sent, pushes>>

\* tcp_response_send_task: route one line of the staging buffer.
SendLine ==
    /\ sender = "send"
    /\ staging # <<>>
    /\ sent' = Append(sent, Head(staging))
    /\ staging' = Tail(staging)
    /\ sender' = IF Len(staging) = 1 THEN "wait" ELSE "send"
    /\ UNCHANGED <<fifo, end, base, len, dataReady, producer, pushes>>

Push(p, need) == PushRefused(p, need) \/ PushFits(p, need) \/ PushOverwrites(p, need)

Sender == WaitCheck \/ WaitTake \/ Drain \/ SendLine

Next ==
    \/ \E p \in Producers, need \in Needs : Push(p, need)
    \/ \E p \in Producers : Give(p)
    \/ Sender

SafeSpec == Init /\ [][Next]_vars

\* A task that is ready to run is scheduled (FreeRTOS time-slices the tasks,
\* all of one priority, over two cores).  Nobody has to answer anything, so
\* starting a push is not fair.
Fairness ==
    /\ \A p \in Producers : WF_vars(Give(p))
    /\ WF_vars(Sender)

Spec == SafeSpec /\ Fairness
-----------------------------------------------------------------------------
(* Properties *)

\* The state of the FIFO, its producers and its consumer has the types of
\* response_fifo_t and of the send task's locals.
TypeOK ==
    /\ fifo \in Seq(Line)
    /\ end \in [Line -> Nat]
    /\ base \in Nat
    /\ len \in Nat
    /\ dataReady \in BOOLEAN
    /\ producer \in [Producers -> {"idle", "unlocked"}]
    /\ sender \in SenderStates
    /\ staging \in Seq(Line)
    /\ sent \in Seq(Line)
    /\ pushes \in Nat

\* f->buf never overflows, and f->len is exactly the end of the last line
\* whatever mix of appends, drains and discards ran before it: response_fifo_push()
\* would otherwise write past the array or glue two lines together.
LenInv ==
    /\ len <= RESPONSE_FIFO_SIZE
    /\ fifo = <<>> => len = 0
    /\ fifo # <<>> => end[fifo[Len(fifo)]] = base + len

\* The lines of the buffer lie one after the other between base and
\* base + len, none of them empty, and none of them will be numbered again.
LayoutInv ==
    /\ \A i \in 1..Len(fifo) : base < end[fifo[i]] /\ end[fifo[i]] <= base + len
    /\ \A i, j \in 1..Len(fifo) : i < j => end[fifo[i]] < end[fifo[j]]
    /\ \A i \in 1..Len(fifo) : fifo[i] < pushes

\* No wake-up is lost: whenever the send task sleeps on data_ready while the
\* FIFO holds a line, the semaphore has been given or a producer that has
\* released the mutex is about to give it.  response_fifo_wait() checks the
\* FIFO and takes the semaphore in two steps, and push() gives in two, so
\* this depends on the order of all four.
NoLostWakeup ==
    (sender = "take" /\ fifo # <<>>) =>
        (dataReady \/ \E p \in Producers : producer[p] = "unlocked")

\* Lines drained are on their way out: the staging buffer is empty except
\* while the send task walks it, so a drain never overwrites unsent lines.
StagingInv == staging # <<>> <=> sender = "send"

\* The response path is a FIFO channel: the lines queued are those drained
\* and not yet sent followed by those in the buffer.
Channel == INSTANCE LineChannel WITH
    MayDiscard <- OverwriteOldest,
    queue <- staging \o fifo,
    out <- sent

\* Producers, FIFO and send task implement the channel: every accepted line
\* leaves in the order it was accepted, once, and a queue that is not empty
\* is eventually served.
ImplementsChannel == Channel!Spec
=============================================================================
