---------------------------- MODULE BufferProofs ----------------------------
(***************************************************************************)
(* Theorems about the two buffers of bytes that are cut at the wrong       *)
(* place when their counters are wrong.                                    *)
(*                                                                         *)
(* ResponseFifo, the outgoing lines: for any number of producers, any line *)
(* sizes, any buffer size, both full policies and any number of pushes.    *)
(*                                                                         *)
(* MqttReceive, the incoming packets: for any radix of the remaining       *)
(* length, any lengths that four digits can say, any buffer of more than   *)
(* five bytes, any timeouts and any number of packets, however recv() cuts *)
(* the bytes.                                                              *)
(***************************************************************************)
EXTENDS ResponseFifo, MqttReceive, SequenceTheorems, WellFoundedInduction, TLAPS

-----------------------------------------------------------------------------
(* The response FIFO *)

\* The inductive invariant.  LenInv needs the layout of the buffer, because a
\* discard moves base to the end of a line; the type of len needs both.
BufferInv == TypeOK /\ LenInv /\ LayoutInv

\* The buffer is consistent before the first push.
LEMMA BufferInit == Init => BufferInv
<1> SUFFICES ASSUME Init PROVE BufferInv
  OBVIOUS
<1>1. fifo \in Seq(Line) /\ staging \in Seq(Line) /\ sent \in Seq(Line)
  BY DEF Init
<1>2. end \in [Line -> Nat] /\ producer \in [Producers -> {"idle", "unlocked"}]
  BY DEF Init
<1>3. TypeOK
  BY <1>1, <1>2 DEF Init, TypeOK, SenderStates
<1>4. Len(fifo) = 0
  BY EmptySeq DEF Init
<1> QED
  BY <1>3, <1>4, FifoAssumption DEF BufferInv, LenInv, LayoutInv, Init

\* The lines of the buffer are lines, and their ends are offsets.
LEMMA LinesOfFifo ==
  ASSUME TypeOK
  PROVE  /\ Len(fifo) \in Nat
         /\ \A i \in 1..Len(fifo) :
               fifo[i] \in Line /\ fifo[i] \in Nat /\ end[fifo[i]] \in Nat
<1>1. Len(fifo) \in Nat /\ \A i \in 1..Len(fifo) : fifo[i] \in Line
  BY LenProperties, ElementOfSeq DEF TypeOK
<1>2. \A l \in Line : l \in Nat /\ end[l] \in Nat
  BY FifoAssumption DEF TypeOK, Line
<1> QED
  BY <1>1, <1>2

\* push() of a line that fits keeps the buffer consistent.
LEMMA BufferPushFits ==
  ASSUME BufferInv, NEW p \in Producers, NEW need \in Needs, PushFits(p, need)
  PROVE  BufferInv'
<1>0. TypeOK /\ LenInv /\ LayoutInv
  BY DEF BufferInv
<1>1. /\ pushes \in Line /\ pushes \in Nat /\ need \in Nat /\ need > 0
      /\ base \in Nat /\ len \in Nat /\ RESPONSE_FIFO_SIZE \in Nat
  BY <1>0, FifoAssumption DEF PushFits, TypeOK, Line
<1>2. /\ fifo' \in Seq(Line)
      /\ Len(fifo) \in Nat /\ Len(fifo') = Len(fifo) + 1
      /\ \A i \in 1..Len(fifo) : fifo'[i] = fifo[i]
      /\ fifo'[Len(fifo) + 1] = pushes
  BY <1>0, <1>1, AppendProperties, LinesOfFifo DEF PushFits, TypeOK
<1>3. /\ end' \in [Line -> Nat]
      /\ end'[pushes] = base + len + need
      /\ \A i \in 1..Len(fifo) : end'[fifo[i]] = end[fifo[i]]
  <2>1. \A i \in 1..Len(fifo) : fifo[i] # pushes /\ fifo[i] \in Line
    BY <1>0, <1>1, LinesOfFifo DEF LayoutInv
  <2>2. end \in [Line -> Nat] /\ base + len + need \in Nat
    BY <1>0, <1>1 DEF TypeOK
  <2>3. end' = [end EXCEPT ![pushes] = base + len + need]
    BY DEF PushFits
  <2> QED
    BY <1>1, <2>1, <2>2, <2>3
<1>4. TypeOK'
  BY <1>0, <1>1, <1>2, <1>3 DEF PushFits, TypeOK, SenderStates
<1>5. /\ pushes' = pushes + 1 /\ base' = base /\ len' = len + need
      /\ len + need <= RESPONSE_FIFO_SIZE
  BY <1>1 DEF PushFits, Overflows
<1>6. LenInv'
  <2>1. fifo' # <<>> /\ end'[fifo'[Len(fifo')]] = base' + len'
    BY <1>1, <1>2, <1>3, <1>5
  <2> QED
    BY <1>5, <2>1 DEF LenInv
<1>7. LayoutInv'
  <2>1. \A i \in 1..Len(fifo) :
           /\ base < end[fifo[i]] /\ end[fifo[i]] <= base + len /\ fifo[i] < pushes
           /\ end[fifo[i]] \in Nat /\ fifo[i] \in Nat
    BY <1>0, LinesOfFifo DEF LayoutInv
  <2>2. ASSUME NEW i \in 1..Len(fifo')
        PROVE  \/ i \in 1..Len(fifo) /\ fifo'[i] = fifo[i] /\ end'[fifo'[i]] = end[fifo[i]]
               \/ i = Len(fifo) + 1 /\ fifo'[i] = pushes /\ end'[fifo'[i]] = base + len + need
    BY <1>2, <1>3
  <2>3. ASSUME NEW i \in 1..Len(fifo')
        PROVE  base' < end'[fifo'[i]] /\ end'[fifo'[i]] <= base' + len' /\ fifo'[i] < pushes'
    <3>1. CASE i \in 1..Len(fifo) /\ fifo'[i] = fifo[i] /\ end'[fifo'[i]] = end[fifo[i]]
      <4>1. PICK e \in Nat, f \in Nat :
               /\ e = end'[fifo'[i]] /\ f = fifo'[i]
               /\ base < e /\ e <= base + len /\ f < pushes
        BY <2>1, <3>1
      <4> QED
        BY <1>1, <1>5, <4>1
    <3>2. CASE fifo'[i] = pushes /\ end'[fifo'[i]] = base + len + need
      BY <1>1, <1>5, <3>2
    <3> QED
      BY <2>2, <3>1, <3>2
  <2>4. ASSUME NEW i \in 1..Len(fifo'), NEW j \in 1..Len(fifo'), i < j
        PROVE  end'[fifo'[i]] < end'[fifo'[j]]
    <3>1. i \in 1..Len(fifo) /\ end'[fifo'[i]] = end[fifo[i]]
      BY <1>2, <2>2, <2>4
    <3>2. CASE j \in 1..Len(fifo) /\ end'[fifo'[j]] = end[fifo[j]]
      BY <1>0, <2>4, <3>1, <3>2 DEF LayoutInv
    <3>3. CASE end'[fifo'[j]] = base + len + need
      <4>1. PICK e \in Nat : e = end'[fifo'[i]] /\ e <= base + len
        BY <2>1, <3>1
      <4>2. QED
        BY <1>1, <3>3, <4>1
    <3> QED
      BY <2>2, <3>2, <3>3
  <2> QED
    BY <2>3, <2>4 DEF LayoutInv
<1> QED
  BY <1>4, <1>6, <1>7 DEF BufferInv

\* push() that first discards the oldest lines keeps the buffer consistent.
LEMMA BufferPushOverwrites ==
  ASSUME BufferInv, NEW p \in Producers, NEW need \in Needs, PushOverwrites(p, need)
  PROVE  BufferInv'
<1>1. PICK k \in 1..Len(fifo) :
         /\ Frees(k, need)
         /\ fifo' = Append(SubSeq(fifo, k + 1, Len(fifo)), pushes)
         /\ len' = len - (end[fifo[k]] - base) + need
         /\ base' = end[fifo[k]]
  BY DEF PushOverwrites, FewestToDiscard
<1>2. pushes \in Line /\ need \in Nat /\ need > 0 /\ RESPONSE_FIFO_SIZE \in Nat
  BY FifoAssumption DEF BufferInv, PushOverwrites, TypeOK, Line
<1>3. /\ Len(fifo) \in Nat
      /\ \A i \in 1..Len(fifo) :
            fifo[i] \in Line /\ fifo[i] \in Nat /\ end[fifo[i]] \in Nat
      /\ base \in Nat /\ len \in Nat /\ pushes \in Nat
  BY LinesOfFifo DEF BufferInv, TypeOK
<1>4. PICK rest \in Seq(Line) :
        /\ rest = SubSeq(fifo, k + 1, Len(fifo))
        /\ Len(rest) = Len(fifo) - k
        /\ \A i \in 1..Len(rest) : rest[i] = fifo[k + i]
  <2>1. /\ fifo \in Seq(Line) /\ k + 1 \in Int /\ Len(fifo) \in Int
        /\ k + 1 <= Len(fifo) + 1 /\ k + 1 >= 1
        /\ \A i \in (k + 1)..Len(fifo) : i \in 1..Len(fifo) /\ fifo[i] \in Line
    BY <1>3 DEF BufferInv, TypeOK
  <2> DEFINE r == SubSeq(fifo, k + 1, Len(fifo))
  <2>2. r \in Seq(Line) /\ Len(r) = Len(fifo) - k /\ \A i \in 1..Len(r) : r[i] = fifo[k + i]
    BY <1>3, <2>1, SubSeqProperties
  <2> QED
    BY <2>2
<1>5. /\ fifo' \in Seq(Line)
      /\ Len(fifo') = Len(fifo) - k + 1
      /\ \A i \in 1..(Len(fifo) - k) : fifo'[i] = fifo[k + i]
      /\ fifo'[Len(fifo) - k + 1] = pushes
  <2>1. fifo' = Append(rest, pushes)
    BY <1>1, <1>4
  <2>2. /\ fifo' \in Seq(Line)
        /\ Len(fifo') = Len(rest) + 1
        /\ \A i \in 1..Len(rest) : fifo'[i] = rest[i]
        /\ fifo'[Len(rest) + 1] = pushes
    BY <2>1, <1>2, AppendProperties
  <2> QED
    BY <2>2, <1>3, <1>4
<1>6. /\ end' \in [Line -> Nat]
      /\ end'[pushes] = base + len + need
      /\ \A i \in 1..Len(fifo) : end'[fifo[i]] = end[fifo[i]]
  <2>1. end' = [end EXCEPT ![pushes] = base + len + need] /\ end \in [Line -> Nat]
    BY DEF PushOverwrites, BufferInv, TypeOK
  <2>2. \A i \in 1..Len(fifo) : fifo[i] # pushes
    BY <1>3 DEF BufferInv, LayoutInv
  <2> QED
    BY <1>2, <1>3, <2>1, <2>2
<1>7. /\ base' \in Nat /\ len' \in Nat /\ len' <= RESPONSE_FIFO_SIZE
      /\ base' + len' = base + len + need /\ base' <= base + len
  <2>1. PICK e \in Nat : e = end[fifo[k]]
    BY <1>3
  <2>2. base < e /\ e <= base + len
    BY <2>1 DEF BufferInv, LayoutInv
  <2>3. base' = e /\ len' = len - (e - base) + need
    BY <1>1, <2>1
  <2>4. RESPONSE_FIFO_SIZE - (len - (e - base)) >= need
    BY <1>1, <2>1 DEF Frees
  <2> QED
    BY <1>2, <1>3, <2>2, <2>3, <2>4
<1>8. pushes' = pushes + 1 /\ producer' \in [Producers -> {"idle", "unlocked"}]
  BY DEF BufferInv, PushOverwrites, TypeOK
<1>9. TypeOK'
  <2>1. UNCHANGED <<dataReady, sender, staging, sent>>
    BY DEF PushOverwrites
  <2>2. dataReady' \in BOOLEAN /\ sender' \in SenderStates /\ staging' \in Seq(Line) /\ sent' \in Seq(Line)
    BY <2>1 DEF BufferInv, TypeOK
  <2>3. pushes' \in Nat
    BY <1>3, <1>8
  <2> QED
    BY <1>5, <1>6, <1>7, <1>8, <2>2, <2>3 DEF TypeOK
<1>10. LenInv'
  <2>1. fifo' # <<>> /\ fifo'[Len(fifo')] = pushes
    BY <1>3, <1>5
  <2> QED
    BY <2>1, <1>6, <1>7 DEF LenInv
<1>11. LayoutInv'
  <2>1. \A i \in 1..Len(fifo') :
           \/ i \in 1..(Len(fifo) - k) /\ fifo'[i] = fifo[k + i]
              /\ k + i \in 1..Len(fifo) /\ k < k + i
           \/ i = Len(fifo) - k + 1 /\ fifo'[i] = pushes
    <3> TAKE i \in 1..Len(fifo')
    <3>1. k \in Nat /\ k > 0 /\ k <= Len(fifo) /\ Len(fifo) \in Nat /\ Len(fifo') = Len(fifo) - k + 1
      BY <1>3, <1>5
    <3>2. CASE i = Len(fifo) - k + 1
      BY <3>2, <1>5
    <3>3. CASE i # Len(fifo) - k + 1
      <4>1. i \in 1..(Len(fifo) - k) /\ k + i \in 1..Len(fifo) /\ k < k + i
        BY <3>1, <3>3
      <4> QED
        BY <4>1, <1>5
    <3> QED
      BY <3>2, <3>3
  <2>2. \A i \in 1..Len(fifo) :
           /\ end[fifo[i]] <= base + len
           /\ fifo[i] < pushes
           /\ \A j \in 1..Len(fifo) : i < j => end[fifo[i]] < end[fifo[j]]
    BY DEF BufferInv, LayoutInv
  <2>3. ASSUME NEW i \in 1..Len(fifo')
        PROVE  base' < end'[fifo'[i]] /\ end'[fifo'[i]] <= base' + len' /\ fifo'[i] < pushes'
    <3>1. CASE i = Len(fifo) - k + 1 /\ fifo'[i] = pushes
      <4>1. PICK e \in Nat : e = end'[fifo'[i]] /\ e = base + len + need
        BY <3>1, <1>2, <1>3, <1>6
      <4>2. base' < e /\ e <= base' + len'
        <5>1. e = base + len + need /\ need \in Nat /\ need > 0 /\ base \in Nat /\ len \in Nat
          BY <4>1, <1>2, <1>3
        <5>2. base' + len' = base + len + need /\ base' <= base + len /\ base' \in Nat
          BY <1>7
        <5> QED
          BY <5>1, <5>2
      <4>3. fifo'[i] < pushes'
        BY <3>1, <1>3, <1>8
      <4> QED
        BY <4>1, <4>2, <4>3
    <3>2. CASE fifo'[i] = fifo[k + i] /\ k + i \in 1..Len(fifo) /\ k < k + i
      <4>1. /\ end[fifo[k]] < end[fifo[k + i]] /\ end[fifo[k + i]] <= base + len
            /\ fifo[k + i] < pushes
            /\ end'[fifo[k + i]] = end[fifo[k + i]]
            /\ end[fifo[k + i]] \in Nat /\ fifo[k + i] \in Nat
        BY <3>2, <2>2, <1>6, <1>3
      <4>2. PICK e \in Nat, f \in Nat : e = end[fifo[k + i]] /\ f = fifo[k + i]
        BY <4>1
      <4>3. end'[fifo'[i]] = e /\ fifo'[i] = f
        BY <3>2, <4>1, <4>2
      <4>4. base' < e /\ e <= base + len /\ f < pushes
        BY <4>1, <4>2, <1>1
      <4>5. e <= base' + len' /\ f < pushes'
        <5>1. need \in Nat /\ base \in Nat /\ len \in Nat /\ pushes \in Nat
          BY <1>2, <1>3
        <5>2. base' + len' = base + len + need /\ pushes' = pushes + 1
          BY <1>7, <1>8
        <5> QED
          BY <4>4, <5>1, <5>2
      <4> QED
        BY <4>3, <4>4, <4>5
    <3> QED
      BY <3>1, <3>2, <2>1
  <2>4. ASSUME NEW i \in 1..Len(fifo'), NEW j \in 1..Len(fifo'), i < j
        PROVE  end'[fifo'[i]] < end'[fifo'[j]]
    <3>1. fifo'[i] = fifo[k + i] /\ k + i \in 1..Len(fifo)
      BY <2>1, <2>4, <1>3, <1>5
    <3>2. /\ end'[fifo'[i]] = end[fifo[k + i]] /\ end[fifo[k + i]] \in Nat
          /\ end[fifo[k + i]] <= base + len
      BY <3>1, <1>3, <1>6, <2>2
    <3>3. CASE j = Len(fifo) - k + 1 /\ fifo'[j] = pushes
      <4>1. PICK e \in Nat : e = end'[fifo'[i]] /\ e <= base + len
        BY <3>2
      <4>2. end'[fifo'[j]] = base + len + need
        BY <3>3, <1>6
      <4>3. e < base + len + need
        BY <4>1, <1>2, <1>3
      <4> QED
        BY <4>1, <4>2, <4>3
    <3>4. CASE fifo'[j] = fifo[k + j] /\ k + j \in 1..Len(fifo)
      <4>1. k + i < k + j
        BY <2>4, <1>3, <1>5
      <4> QED
        BY <3>1, <3>2, <3>4, <4>1, <1>6, <2>2
    <3> QED
      BY <3>3, <3>4, <2>1
  <2> QED
    BY <2>3, <2>4 DEF LayoutInv
<1> QED
  BY <1>9, <1>10, <1>11 DEF BufferInv

\* The buffer is consistent in every reachable state: right types, never more
\* than RESPONSE_FIFO_SIZE bytes, f->len at the end of the last line.
THEOREM BufferCorrect == SafeSpec => []BufferInv
<1>1. BufferInv /\ [Next]_vars => BufferInv'
  <2> SUFFICES ASSUME BufferInv, [Next]_vars PROVE BufferInv'
    OBVIOUS
  <2> USE FifoAssumption DEF BufferInv
  <2>1. ASSUME NEW p \in Producers, NEW need \in Needs, PushRefused(p, need)
        PROVE  BufferInv'
    BY <2>1, LinesOfFifo DEF PushRefused, TypeOK, LenInv, LayoutInv
  <2>2. ASSUME NEW p \in Producers, Give(p) PROVE BufferInv'
    BY <2>2 DEF Give, TypeOK, LenInv, LayoutInv
  <2>3. CASE WaitCheck
    BY <2>3 DEF WaitCheck, TypeOK, LenInv, LayoutInv, SenderStates
  <2>4. CASE WaitTake
    BY <2>4 DEF WaitTake, TypeOK, LenInv, LayoutInv, SenderStates
  <2>5. CASE Drain
    <3>1. fifo' = <<>> /\ fifo' \in Seq(Line) /\ Len(fifo') = 0
      BY <2>5, EmptySeq DEF Drain
    <3> QED
      BY <2>5, <3>1 DEF Drain, TypeOK, LenInv, LayoutInv, SenderStates
  <2>6. CASE SendLine
    <3>1. sent' \in Seq(Line) /\ staging' \in Seq(Line)
      BY <2>6, HeadTailProperties, AppendProperties DEF SendLine, TypeOK
    <3> QED
      BY <2>6, <3>1 DEF SendLine, TypeOK, LenInv, LayoutInv, SenderStates
  <2>7. CASE UNCHANGED vars
    BY <2>7 DEF vars, TypeOK, LenInv, LayoutInv
  <2> QED
    BY <2>1, <2>2, <2>3, <2>4, <2>5, <2>6, <2>7, BufferPushFits, BufferPushOverwrites
       DEF Next, Push, Sender
<1> QED
  BY <1>1, BufferInit, PTL DEF SafeSpec

\* The types of the FIFO, its producers and the send task, in every build.
THEOREM TypeCorrect == SafeSpec => []TypeOK
  BY BufferCorrect, PTL DEF BufferInv

\* f->buf never overflows and f->len is the end of the last line, for every
\* buffer size and every mix of line sizes.
THEOREM LenCorrect == SafeSpec => []LenInv
  BY BufferCorrect, PTL DEF BufferInv

\* No wake-up of the send task is lost and no drained line is overwritten,
\* for any number of producers.
THEOREM SenderCorrect == SafeSpec => [](NoLostWakeup /\ StagingInv)
<1>1. Init => NoLostWakeup /\ StagingInv
  BY DEF Init, NoLostWakeup, StagingInv
<1>2. TypeOK /\ NoLostWakeup /\ StagingInv /\ [Next]_vars => NoLostWakeup' /\ StagingInv'
  <2> SUFFICES ASSUME TypeOK, NoLostWakeup, StagingInv, [Next]_vars
               PROVE  NoLostWakeup' /\ StagingInv'
    OBVIOUS
  <2>1. ASSUME NEW p \in Producers, NEW need \in Needs, PushRefused(p, need)
        PROVE  NoLostWakeup' /\ StagingInv'
    BY <2>1 DEF PushRefused, NoLostWakeup, StagingInv
  <2>2. ASSUME NEW p \in Producers, NEW need \in Needs,
               PushFits(p, need) \/ PushOverwrites(p, need)
        PROVE  NoLostWakeup' /\ StagingInv'
    <3>1. producer'[p] = "unlocked" /\ UNCHANGED <<sender, staging>>
      BY <2>2 DEF PushFits, PushOverwrites, TypeOK
    <3> QED
      BY <3>1 DEF NoLostWakeup, StagingInv
  <2>3. ASSUME NEW p \in Producers, Give(p) PROVE NoLostWakeup' /\ StagingInv'
    BY <2>3 DEF Give, NoLostWakeup, StagingInv
  <2>4. CASE WaitCheck
    BY <2>4 DEF WaitCheck, NoLostWakeup, StagingInv
  <2>5. CASE WaitTake
    BY <2>5 DEF WaitTake, NoLostWakeup, StagingInv
  <2>6. CASE Drain
    BY <2>6 DEF Drain, NoLostWakeup, StagingInv
  <2>7. CASE SendLine
    <3>1. /\ staging \in Seq(Line) /\ staging # <<>>
          /\ staging' = Tail(staging) /\ fifo' = fifo /\ dataReady' = dataReady
          /\ sender' = IF Len(staging) = 1 THEN "wait" ELSE "send"
      BY <2>7 DEF SendLine, TypeOK
    <3>2. /\ Tail(staging) \in Seq(Line) /\ Len(Tail(staging)) = Len(staging) - 1
          /\ Len(staging) \in Nat
      BY <3>1, HeadTailProperties, LenProperties
    <3>3. Tail(staging) = <<>> <=> Len(Tail(staging)) = 0
      BY <3>2, EmptySeq
    <3>4. staging' = <<>> <=> Len(staging) = 1
      BY <3>1, <3>2, <3>3
    <3> QED
      BY <3>1, <3>4 DEF NoLostWakeup, StagingInv
  <2>8. CASE UNCHANGED vars
    BY <2>8 DEF vars, NoLostWakeup, StagingInv
  <2> QED
    BY <2>1, <2>2, <2>3, <2>4, <2>5, <2>6, <2>7, <2>8 DEF Next, Push, Sender
<1> QED
  BY <1>1, <1>2, TypeCorrect, PTL DEF SafeSpec

\* Dropping the first k elements of t from s \o t leaves s and the rest of t.
LEMMA DropInTheMiddle ==
  ASSUME NEW S, NEW s \in Seq(S), NEW t \in Seq(S), NEW k \in 1..Len(t)
  PROVE  SubSeq(s \o t, 1, Len(s)) \o SubSeq(s \o t, Len(s) + k + 1, Len(s \o t))
           = s \o SubSeq(t, k + 1, Len(t))
<1> DEFINE q == s \o t
           n == Len(s)
           m == Len(t)
<1>1. /\ n \in Nat /\ m \in Nat /\ k \in Nat /\ k <= m
      /\ \A i \in 1..n : s[i] \in S
      /\ \A i \in 1..m : t[i] \in S
  BY LenProperties, ElementOfSeq
<1>2. /\ q \in Seq(S) /\ Len(q) = n + m
      /\ \A i \in 1..(n + m) : q[i] = IF i <= n THEN s[i] ELSE t[i - n]
  BY ConcatProperties
<1> HIDE DEF q
<1>3. SubSeq(q, 1, n) = s
  <2> DEFINE a == SubSeq(q, 1, n)
  <2>1. \A i \in 1..n : i \in 1..(n + m) /\ q[i] = s[i] /\ q[i] \in S
    BY <1>1, <1>2
  <2>2. a \in Seq(S) /\ Len(a) = n /\ \A i \in 1..n : a[i] = q[i]
    BY <1>1, <1>2, <2>1, SubSeqProperties
  <2> HIDE DEF a
  <2>3. a = s
    BY <2>1, <2>2, SeqEqual
  <2> QED
    BY <2>3 DEF a
<1>4. SubSeq(q, n + k + 1, n + m) = SubSeq(t, k + 1, m)
  <2> DEFINE a == SubSeq(q, n + k + 1, n + m)
             b == SubSeq(t, k + 1, m)
  <2>1. \A i \in (k + 1)..m : i \in 1..m /\ t[i] \in S
    BY <1>1
  <2>2. \A i \in (n + k + 1)..(n + m) : q[i] = t[i - n] /\ q[i] \in S
    BY <1>1, <1>2
  <2>3. b \in Seq(S) /\ Len(b) = m - k /\ \A i \in 1..(m - k) : b[i] = t[k + i]
    BY <1>1, <2>1, SubSeqProperties
  <2>4. a \in Seq(S) /\ Len(a) = m - k /\ \A i \in 1..(m - k) : a[i] = q[n + k + i]
    BY <1>1, <1>2, <2>2, SubSeqProperties
  <2> HIDE DEF a, b
  <2>5. \A i \in 1..(m - k) : a[i] = b[i]
    <3> TAKE i \in 1..(m - k)
    <3>1. n + k + i \in (n + k + 1)..(n + m) /\ (n + k + i) - n = k + i
      BY <1>1
    <3> QED
      BY <3>1, <2>2, <2>3, <2>4
  <2>6. a = b
    BY <2>3, <2>4, <2>5, SeqEqual
  <2> QED
    BY <2>6 DEF a, b
<1> QED
  BY <1>2, <1>3, <1>4 DEF q

\* Taking the head of s \o t, for a non-empty s, takes the head of s.
LEMMA HeadTailOfConcat ==
  ASSUME NEW S, NEW s \in Seq(S), NEW t \in Seq(S), s # <<>>
  PROVE  /\ s \o t # <<>>
         /\ Head(s \o t) = Head(s)
         /\ Tail(s \o t) = Tail(s) \o t
<1>1. /\ Head(s) \in S /\ Tail(s) \in Seq(S) /\ Len(s) \in Nat /\ Len(s) > 0
      /\ Len(Tail(s)) = Len(s) - 1 /\ \A i \in 1..Len(Tail(s)) : Tail(s)[i] = s[i + 1]
  BY HeadTailProperties, LenProperties, EmptySeq
<1>2. /\ s \o t \in Seq(S) /\ Len(s \o t) = Len(s) + Len(t) /\ Len(t) \in Nat
      /\ \A i \in 1..(Len(s) + Len(t)) :
            (s \o t)[i] = IF i <= Len(s) THEN s[i] ELSE t[i - Len(s)]
  BY ConcatProperties, LenProperties
<1>3. s \o t # <<>>
  BY <1>1, ConcatEqualIffEmpty
<1> DEFINE q == s \o t
<1>4. q \in Seq(S) /\ q # <<>> /\ Len(q) = Len(s) + Len(t)
  BY <1>2, <1>3
<1>5. Head(q) = Head(s)
  BY <1>1, <1>2
<1>6. /\ Tail(q) \in Seq(S) /\ Len(Tail(q)) = Len(s) + Len(t) - 1
      /\ \A i \in 1..(Len(s) + Len(t) - 1) : Tail(q)[i] = q[i + 1]
  BY <1>1, <1>2, <1>4, HeadTailProperties
<1>7. /\ Tail(s) \o t \in Seq(S) /\ Len(Tail(s) \o t) = Len(s) + Len(t) - 1
      /\ \A i \in 1..(Len(s) + Len(t) - 1) :
            (Tail(s) \o t)[i] = IF i <= Len(s) - 1 THEN Tail(s)[i] ELSE t[i - (Len(s) - 1)]
  BY <1>1, <1>2, ConcatProperties
<1>8. \A i \in 1..(Len(s) + Len(t) - 1) : Tail(q)[i] = (Tail(s) \o t)[i]
  <2> TAKE i \in 1..(Len(s) + Len(t) - 1)
  <2>1. Tail(q)[i] = IF i + 1 <= Len(s) THEN s[i + 1] ELSE t[(i + 1) - Len(s)]
    BY <1>1, <1>2, <1>6
  <2>2. CASE i + 1 <= Len(s)
    BY <2>1, <2>2, <1>1, <1>2, <1>7
  <2>3. CASE ~(i + 1 <= Len(s))
    <3>1. (i + 1) - Len(s) = i - (Len(s) - 1) /\ ~(i <= Len(s) - 1)
      BY <2>3, <1>1, <1>2
    <3> QED
      BY <2>1, <2>3, <3>1, <1>7
  <2> QED
    BY <2>2, <2>3
<1> HIDE DEF q
<1>9. Tail(q) = Tail(s) \o t
  BY <1>6, <1>7, <1>8, SeqEqual
<1> QED
  BY <1>3, <1>5, <1>9 DEF q

\* The producers, the FIFO and the send task implement a FIFO channel: every
\* accepted line leaves once, in order, and only an overwriting build drops
\* accepted lines (the safety part of ImplementsChannel).
THEOREM Refinement == SafeSpec => Channel!SafeSpec
<1>1. Init => Channel!Init
  BY ConcatEmptySeq, EmptySeq DEF Init, Channel!Init
<1>2. BufferInv /\ StagingInv /\ [Next]_vars => [Channel!Next]_(Channel!vars)
  <2> SUFFICES ASSUME BufferInv, StagingInv, [Next]_vars
               PROVE  Channel!Next \/ UNCHANGED Channel!vars
    OBVIOUS
  <2>1. /\ fifo \in Seq(Line) /\ staging \in Seq(Line) /\ Len(staging) \in Nat
        /\ Len(fifo) \in Nat
    BY LenProperties DEF BufferInv, TypeOK
  <2>2. ASSUME NEW p \in Producers, NEW need \in Needs, PushRefused(p, need)
        PROVE  UNCHANGED Channel!vars
    BY <2>2 DEF PushRefused, Channel!vars
  <2>3. pushes < MaxPushes => pushes \in Line
    BY FifoAssumption DEF BufferInv, TypeOK, Line
  <2>4. \A s \in Seq(Line), l \in Line : staging \o Append(s, l) = Append(staging \o s, l)
    <3> TAKE s \in Seq(Line), l \in Line
    <3>1. <<l>> \in Seq(Line) /\ staging \o s \in Seq(Line)
      BY <2>1, ConcatProperties
    <3>2. Append(s, l) = s \o <<l>> /\ Append(staging \o s, l) = (staging \o s) \o <<l>>
      BY <3>1, AppendIsConcat
    <3> QED
      BY <2>1, <3>1, <3>2, ConcatAssociative
  <2>5. ASSUME NEW p \in Producers, NEW need \in Needs, PushFits(p, need)
        PROVE  Channel!Next
    <3>1. /\ pushes \in Line /\ fifo' = Append(fifo, pushes)
          /\ staging' = staging /\ sent' = sent
      BY <2>5, <2>3 DEF PushFits
    <3>2. Channel!Accept(pushes)
      BY <3>1, <2>1, <2>4 DEF Channel!Accept
    <3> QED
      BY <3>1, <3>2 DEF Channel!Next
  <2>6. ASSUME NEW p \in Producers, NEW need \in Needs, PushOverwrites(p, need)
        PROVE  Channel!Next
    <3>1. PICK k \in 1..Len(fifo) : fifo' = Append(SubSeq(fifo, k + 1, Len(fifo)), pushes)
      BY <2>6 DEF PushOverwrites
    <3>2. pushes \in Line /\ staging' = staging /\ sent' = sent /\ OverwriteOldest
      BY <2>6, <2>3 DEF PushOverwrites
    <3> DEFINE rest == SubSeq(fifo, k + 1, Len(fifo))
               q == staging \o fifo
    <3>3. rest \in Seq(Line)
      <4>1. \A i \in (k + 1)..Len(fifo) : fifo[i] \in Line
        BY <2>1, ElementOfSeq
      <4> QED
        BY <4>1, <2>1, SubSeqProperties
    <3>4. staging \o fifo' = Append(staging \o rest, pushes)
      BY <3>1, <3>2, <3>3, <2>4
    <3>5. staging \o rest = SubSeq(q, 1, Len(staging)) \o SubSeq(q, Len(staging) + k + 1, Len(q))
      BY <2>1, DropInTheMiddle
    <3>6. Len(q) = Len(staging) + Len(fifo)
      BY <2>1, ConcatProperties
    <3>7. Len(staging) + k \in 0..Len(q) /\ Len(staging) \in 0..(Len(staging) + k)
      BY <3>6, <2>1
    <3>8. Channel!AcceptDiscarding(pushes, Len(staging), Len(staging) + k)
      BY <3>2, <3>4, <3>5 DEF Channel!AcceptDiscarding
    <3> QED
      BY <3>2, <3>7, <3>8 DEF Channel!Next
  <2>7. ASSUME NEW p \in Producers, Give(p) PROVE UNCHANGED Channel!vars
    BY <2>7 DEF Give, Channel!vars
  <2>8. CASE WaitCheck
    BY <2>8 DEF WaitCheck, Channel!vars
  <2>9. CASE WaitTake
    BY <2>9 DEF WaitTake, Channel!vars
  <2>10. CASE Drain
    <3>1. staging = <<>> /\ staging' = fifo /\ fifo' = <<>> /\ sent' = sent
      BY <2>10 DEF Drain, StagingInv
    <3>2. fifo \o <<>> = fifo /\ <<>> \o fifo = fifo
      BY <2>1, ConcatEmptySeq
    <3> QED
      BY <3>1, <3>2 DEF Channel!vars
  <2>11. CASE SendLine
    <3>1. /\ staging # <<>> /\ sent' = Append(sent, Head(staging))
          /\ staging' = Tail(staging) /\ fifo' = fifo
      BY <2>11 DEF SendLine
    <3>2. Channel!Deliver
      BY <3>1, <2>1, HeadTailOfConcat DEF Channel!Deliver
    <3> QED
      BY <3>2 DEF Channel!Next
  <2>12. CASE UNCHANGED vars
    BY <2>12 DEF vars, Channel!vars
  <2> QED
    BY <2>2, <2>5, <2>6, <2>7, <2>8, <2>9, <2>10, <2>11, <2>12 DEF Next, Push, Sender
<1> QED
  BY <1>1, <1>2, BufferCorrect, SenderCorrect, PTL DEF SafeSpec, Channel!SafeSpec

-----------------------------------------------------------------------------
(* The receive buffer of coreMQTT *)

Byte == Names \X Nat

\* The bytes that the broker has sent and no handler has seen.
Stream == buf \o net

\* The types; nothing is parsed as BadResponse.
ReceiveTypeInv ==
    /\ net \in Seq(Byte) /\ buf \in Seq(Byte) /\ Len(buf) <= BufSize
    /\ phase \in {"connack", "loop", "failed"}
    /\ status \in {"Success", "NeedMoreBytes", "KeepAliveTimeout", "RecvFailed"}
    /\ now \in 0 .. TimeMod - 1 /\ lastTx \in 0 .. TimeMod - 1
    /\ ping \in [waiting : BOOLEAN, at : 0 .. TimeMod - 1]
    /\ asked \in BOOLEAN /\ closed \in BOOLEAN
    /\ lens \in Seq(Lengths) /\ Len(lens) <= MaxPackets
    /\ handed \in Seq(1 .. Len(lens))

\* Length, Size, Whole and InTurn for the lengths l of the packets sent and the
\* packets h handed over.
LengthIn(l, p) == IF p = PINGRESP THEN 0 ELSE IF p = CONNACK THEN 2 ELSE l[p]

SizeIn(l, p) == 1 + Len(Code[LengthIn(l, p)]) + LengthIn(l, p)

KnownIn(l) == {PINGRESP, CONNACK} \cup 1 .. Len(l)

WholeIn(l, s) ==
    /\ s # <<>> => s[1][2] = 1 /\ s[Len(s)][2] = SizeIn(l, s[Len(s)][1])
    /\ \A i \in 1 .. Len(s) - 1 :
          s[i + 1] = IF s[i][2] = SizeIn(l, s[i][1]) THEN <<s[i + 1][1], 1>>
                     ELSE <<s[i][1], s[i][2] + 1>>

NewBytes(l, q) == [i \in 1 .. SizeIn(l, q) |-> <<q, i>>]

\* Every byte is one of its packet.
BytesIn(l, s) == \A i \in DOMAIN s : s[i][1] \in KnownIn(l) /\ s[i][2] \in 1 .. SizeIn(l, s[i][1])

StartsIn(l, s) == {i \in DOMAIN s : s[i][2] = 1 /\ s[i][1] \in 1 .. Len(l)}

InTurnIn(l, h, s) ==
    /\ \A i, j \in DOMAIN h : i < j => h[i] < h[j]
    /\ \A i, j \in StartsIn(l, s) : i < j => s[i][1] < s[j][1]
    /\ \A i \in DOMAIN h : SizeIn(l, h[i]) <= BufSize /\ \A j \in StartsIn(l, s) : h[i] < s[j][1]
    /\ \A n \in 1 .. Len(l) : SizeIn(l, n) <= BufSize => n \in Range(h) \/ \E j \in StartsIn(l, s) : s[j][1] = n

Intact(l, h, s) == WholeIn(l, s) /\ BytesIn(l, s) /\ InTurnIn(l, h, s)

\* The CONNACK comes first and once; before it nothing is handed over or asked.
ConnackInv ==
    phase = "connack" =>
        /\ buf = <<>> /\ handed = <<>> /\ ~asked
        /\ net = <<>> => lens = <<>>
        /\ net # <<>> => net[1][1] = CONNACK
        /\ \A i \in DOMAIN net : net[i][1] = CONNACK => i <= SizeIn(lens, CONNACK)

\* After the CONNACK there is always room to receive, and no other CONNACK.
LoopInv ==
    phase = "loop" =>
        /\ Len(buf) < BufSize
        /\ \A i \in DOMAIN Stream : Stream[i][1] # CONNACK

\* The inductive invariant.
ReceiveInv ==
    /\ ReceiveTypeInv
    /\ phase # "failed" => Intact(lens, handed, Stream)
    /\ ConnackInv
    /\ LoopInv

\* Every non-empty set of numbers has a least one.
LEMMA LeastNumber ==
    ASSUME NEW T \in SUBSET Nat, T # {}
    PROVE  \E x \in T : \A y \in T : x <= y
<1> DEFINE R == OpToRel(<, Nat)
<1>1. IsWellFoundedOn(R, Nat)
  BY NatLessThanWellFounded
<1>2. R = {p \in Nat \X Nat : p[1] < p[2]}
  BY DEF OpToRel
<1>3. T \subseteq Nat
  OBVIOUS
<1> HIDE DEF R
<1>4. PICK x \in T : \A y \in T : ~(<<y, x>> \in R)
  BY <1>1, <1>3, WFMin, Zenon
<1>5. \A y \in T : ~(y < x)
  BY <1>2, <1>4
<1>6. QED
  BY <1>5

LEMMA MinIs ==
    ASSUME NEW T \in SUBSET Nat, T # {}
    PROVE  Min(T) \in T /\ \A y \in T : Min(T) <= y
<1>1. \E x \in T : \A y \in T : x <= y
  BY LeastNumber
<1>2. QED
  BY <1>1, Zenon DEF Min

LEMMA RadixIs == Radix \in Nat /\ Radix >= 2
  BY ReceiveAssumption

LEMMA DivIs ==
    ASSUME NEW x \in Nat
    PROVE  /\ x \div Radix \in Nat /\ x % Radix \in Nat /\ x % Radix < Radix
           /\ x = Radix * (x \div Radix) + (x % Radix)
<1> DEFINE R == Radix
<1>1. R \in Nat /\ R >= 2
  BY RadixIs
<1> HIDE DEF R
<1>2. x \div R \in Nat
  BY <1>1
<1>3. x % R \in 0 .. R - 1
  BY <1>1
<1>4. x = R * (x \div R) + (x % R)
  BY <1>1
<1>5. QED
  BY <1>1, <1>2, <1>3, <1>4 DEF R

\* A number and its digits, lowest first: when the quotients are 0 and how far
\* the number then reaches.
LEMMA Digits ==
    ASSUME NEW R \in Nat, R >= 2,
           NEW a \in Nat, NEW b \in Nat, NEW c \in Nat, NEW d \in Nat, NEW e \in Nat,
           NEW w \in Nat, NEW x \in Nat, NEW y \in Nat, NEW z \in Nat,
           w < R, x < R, y < R, z < R,
           a = R * b + w, b = R * c + x, c = R * d + y, d = R * e + z
    PROVE  /\ e >= 1 => a >= R * R * R * R
           /\ d >= 1 => a >= R * R * R
           /\ c >= 1 => a >= R * R
           /\ b >= 1 => a >= R
           /\ b = 0 => a < R /\ a = w
           /\ c = 0 => a < R * R /\ a = w + x * R
           /\ d = 0 => a < R * R * R /\ a = w + x * R + y * (R * R)
           /\ e = 0 => a = w + x * R + y * (R * R) + z * (R * R * R)
<1>1. \A u, v \in Nat : u <= v => R * u <= R * v
  OBVIOUS
<1>2. \A u \in Nat : R * u \in Nat
  OBVIOUS
<1>3. b >= 1 => a >= R
  OBVIOUS
<1>4. c >= 1 => a >= R * R
  <2> SUFFICES ASSUME c >= 1 PROVE a >= R * R
    OBVIOUS
  <2>1. b >= R
    OBVIOUS
  <2>2. R * b >= R * R
    BY <2>1, <1>1
  <2>3. QED
    BY <2>2, <1>2
<1>5. d >= 1 => a >= R * R * R
  <2> SUFFICES ASSUME d >= 1 PROVE a >= R * R * R
    OBVIOUS
  <2>1. c >= R
    OBVIOUS
  <2>2. R * c >= R * R /\ R * R \in Nat
    BY <2>1, <1>1, <1>2
  <2>3. b >= R * R
    BY <2>2, <1>2
  <2>4. R * b >= R * (R * R)
    BY <2>2, <2>3, <1>1
  <2>5. QED
    BY <2>4, <1>2
<1>6. e >= 1 => a >= R * R * R * R
  <2> SUFFICES ASSUME e >= 1 PROVE a >= R * R * R * R
    OBVIOUS
  <2>1. d >= R
    OBVIOUS
  <2>2. R * d >= R * R /\ R * R \in Nat
    BY <2>1, <1>1, <1>2
  <2>3. c >= R * R
    BY <2>2, <1>2
  <2>4. R * c >= R * (R * R) /\ R * (R * R) \in Nat
    BY <2>2, <2>3, <1>1, <1>2
  <2>5. b >= R * (R * R)
    BY <2>4, <1>2
  <2>6. R * b >= R * (R * (R * R))
    BY <2>4, <2>5, <1>1
  <2>7. QED
    BY <2>6, <1>2
<1>7. b = 0 => a < R /\ a = w
  OBVIOUS
<1>8. c = 0 => a < R * R /\ a = w + x * R
  <2> SUFFICES ASSUME c = 0 PROVE a < R * R /\ a = w + x * R
    OBVIOUS
  <2>1. b = x
    OBVIOUS
  <2>2. R * b <= R * (R - 1)
    BY <2>1, <1>1
  <2>3. R * (R - 1) = R * R - R
    OBVIOUS
  <2>4. QED
    BY <2>1, <2>2, <2>3, <1>2
<1>9. d = 0 => a < R * R * R /\ a = w + x * R + y * (R * R)
  <2> SUFFICES ASSUME d = 0 PROVE a < R * R * R /\ a = w + x * R + y * (R * R)
    OBVIOUS
  <2>1. c = y
    OBVIOUS
  <2>2. R * c <= R * (R - 1) /\ R * (R - 1) = R * R - R /\ R * R \in Nat
    BY <2>1, <1>1, <1>2
  <2>3. b <= R * R - 1
    BY <2>2, <1>2
  <2>4. R * b <= R * (R * R - 1) /\ R * (R * R - 1) = R * R * R - R
    BY <2>2, <2>3, <1>1
  <2>5. a < R * R * R
    BY <2>4, <1>2
  <2>6. a = w + x * R + y * (R * R)
    <3>1. a = R * (R * y + x) + w
      BY <2>1
    <3>2. R * (R * y + x) = y * (R * R) + x * R
      OBVIOUS
    <3>3. QED
      BY <3>1, <3>2, <1>2
  <2>7. QED
    BY <2>5, <2>6
<1>10. e = 0 => a = w + x * R + y * (R * R) + z * (R * R * R)
  <2> SUFFICES ASSUME e = 0 PROVE a = w + x * R + y * (R * R) + z * (R * R * R)
    OBVIOUS
  <2>1. a = R * (R * (R * z + y) + x) + w
    OBVIOUS
  <2>2. R * (R * (R * z + y) + x) = z * (R * R * R) + y * (R * R) + x * R
    OBVIOUS
  <2>3. QED
    BY <2>1, <2>2, <1>2
<1>11. QED
  BY <1>3, <1>4, <1>5, <1>6, <1>7, <1>8, <1>9, <1>10

\* The turns of encodeRemainingLength()'s loop, for a length that four digits can have.
LEMMA RestIs ==
    ASSUME NEW length \in Nat, length < Radix * Radix * Radix * Radix
    PROVE  /\ \A d \in 1..5 : Rest(length)[d] \in Nat
           /\ \A d \in 1..4 : Rest(length)[d] % Radix \in Nat
           /\ Rest(length)[5] = 0
           /\ \A d \in 1..4 : Rest(length)[d + 1] = 0 =>
                 /\ length = (Rest(length)[1] % Radix)
                              + (IF d > 1 THEN (Rest(length)[2] % Radix) * Radix ELSE 0)
                              + (IF d > 2 THEN (Rest(length)[3] % Radix) * (Radix * Radix) ELSE 0)
                              + (IF d > 3 THEN (Rest(length)[4] % Radix) * (Radix * Radix * Radix) ELSE 0)
                 /\ (\A c \in 1 .. d - 1 : Rest(length)[c + 1] > 0) => d = RemainingLengthEncodedSize(length)
<1> DEFINE R == Radix
           a == Rest(length)[1]
           b == Rest(length)[2]
           c == Rest(length)[3]
           d == Rest(length)[4]
           e == Rest(length)[5]
           w == a % R
           x == b % R
           y == c % R
           z == d % R
<1>0. R \in Nat /\ R >= 2
  BY RadixIs
<1>1. a = length /\ b = a \div R /\ c = b \div R /\ d = c \div R /\ e = d \div R
  BY DEF Rest
<1> HIDE DEF R, a, b, c, d, e
<1>2. a \in Nat /\ a = R * b + w /\ w \in Nat /\ w < R /\ b \in Nat
  BY <1>1, DivIs DEF R
<1>3. b = R * c + x /\ x \in Nat /\ x < R /\ c \in Nat
  BY <1>1, <1>2, DivIs DEF R
<1>4. c = R * d + y /\ y \in Nat /\ y < R /\ d \in Nat
  BY <1>1, <1>3, DivIs DEF R
<1>5. d = R * e + z /\ z \in Nat /\ z < R /\ e \in Nat
  BY <1>1, <1>4, DivIs DEF R
<1> HIDE DEF w, x, y, z
<1>6. /\ e >= 1 => a >= R * R * R * R
      /\ d >= 1 => a >= R * R * R
      /\ c >= 1 => a >= R * R
      /\ b >= 1 => a >= R
      /\ b = 0 => a < R /\ a = w
      /\ c = 0 => a < R * R /\ a = w + x * R
      /\ d = 0 => a < R * R * R /\ a = w + x * R + y * (R * R)
      /\ e = 0 => a = w + x * R + y * (R * R) + z * (R * R * R)
  BY <1>0, <1>2, <1>3, <1>4, <1>5, Digits
<1>7. e = 0
  BY <1>0, <1>1, <1>2, <1>5, <1>6 DEF R
<1>8. \A i \in 1..5 : Rest(length)[i] \in Nat
  BY <1>2, <1>3, <1>4, <1>5 DEF a, b, c, d, e
<1>9. \A i \in 1..4 : Rest(length)[i] % Radix \in Nat
  BY <1>2, <1>3, <1>4, <1>5 DEF a, b, c, d, w, x, y, z, R
<1>10. /\ b = 0 => length = w /\ RemainingLengthEncodedSize(length) = 1
       /\ b > 0 /\ c = 0 => length = w + x * R /\ RemainingLengthEncodedSize(length) = 2
       /\ c > 0 /\ d = 0 => length = w + x * R + y * (R * R) /\ RemainingLengthEncodedSize(length) = 3
       /\ d > 0 /\ e = 0 => length = w + x * R + y * (R * R) + z * (R * R * R) /\ RemainingLengthEncodedSize(length) = 4
  <2>1. Multiplier[2] = R /\ Multiplier[3] = R * R /\ Multiplier[4] = R * R * R
    BY DEF Multiplier, R
  <2>2. /\ length < R => RemainingLengthEncodedSize(length) = 1
        /\ length >= R /\ length < R * R => RemainingLengthEncodedSize(length) = 2
        /\ length >= R /\ length >= R * R /\ length < R * R * R => RemainingLengthEncodedSize(length) = 3
        /\ length >= R /\ length >= R * R /\ length >= R * R * R => RemainingLengthEncodedSize(length) = 4
    <3> DEFINE R2 == R * R
               R3 == R * R * R
    <3>1. R2 \in Int /\ R3 \in Int /\ R \in Int
      BY <1>0
    <3>2. Multiplier[3] = R2 /\ Multiplier[4] = R3
      BY <2>1
    <3> HIDE DEF R2, R3
    <3>3. /\ length < R => RemainingLengthEncodedSize(length) = 1
          /\ length >= R /\ length < R2 => RemainingLengthEncodedSize(length) = 2
          /\ length >= R /\ length >= R2 /\ length < R3 => RemainingLengthEncodedSize(length) = 3
          /\ length >= R /\ length >= R2 /\ length >= R3 => RemainingLengthEncodedSize(length) = 4
      BY <2>1, <3>1, <3>2 DEF RemainingLengthEncodedSize
    <3>4. QED
      BY <3>3 DEF R2, R3
  <2>3. c > 0 => b > 0
    BY <1>0, <1>2, <1>3, <1>4
  <2>4. d > 0 => c > 0
    BY <1>0, <1>3, <1>4, <1>5
  <2>5. QED
    BY <1>1, <1>2, <1>3, <1>4, <1>5, <1>6, <2>2, <2>3, <2>4
<1>11. ASSUME NEW i \in 1..4, Rest(length)[i + 1] = 0
       PROVE  /\ length = w + (IF i > 1 THEN x * R ELSE 0)
                            + (IF i > 2 THEN y * (R * R) ELSE 0)
                            + (IF i > 3 THEN z * (R * R * R) ELSE 0)
              /\ (\A j \in 1 .. i - 1 : Rest(length)[j + 1] > 0) => i = RemainingLengthEncodedSize(length)
  <2> DEFINE p == x * R
             q == y * (R * R)
             t == z * (R * R * R)
  <2>0. w \in Int /\ p \in Int /\ q \in Int /\ t \in Int
    BY <1>0, <1>2, <1>3, <1>4, <1>5
  <2>1. /\ b = 0 => length = w
        /\ c = 0 => length = w + p
        /\ d = 0 => length = w + p + q
        /\ e = 0 => length = w + p + q + t
    BY <1>1, <1>6
  <2> HIDE DEF p, q, t
  <2>2. CASE i = 1
    BY <1>10, <1>11, <2>0, <2>1, <2>2 DEF b
  <2>3. CASE i = 2
    <3>1. c = 0 /\ ((\A j \in 1 .. i - 1 : Rest(length)[j + 1] > 0) => b > 0)
      BY <1>11, <2>3 DEF b, c
    <3>2. QED
      BY <1>10, <2>0, <2>1, <2>3, <3>1 DEF p
  <2>4. CASE i = 3
    <3>1. d = 0 /\ ((\A j \in 1 .. i - 1 : Rest(length)[j + 1] > 0) => c > 0)
      BY <1>11, <2>4 DEF c, d
    <3>2. QED
      BY <1>10, <2>0, <2>1, <2>4, <3>1 DEF p, q
  <2>5. CASE i = 4
    <3>1. e = 0 /\ ((\A j \in 1 .. i - 1 : Rest(length)[j + 1] > 0) => d > 0)
      BY <1>11, <2>5 DEF d, e
    <3>2. QED
      BY <1>10, <2>0, <2>1, <2>5, <3>1 DEF p, q, t
  <2>6. QED
    BY <2>2, <2>3, <2>4, <2>5
<1>12. QED
  BY <1>7, <1>8, <1>9, <1>11 DEF w, x, y, z, a, b, c, d, e, R
-----------------------------------------------------------------------------
\* The lengths that occur are below the fourth power of the radix.
LEMMA LengthsAre ==
    ASSUME NEW length \in Lengths \cup {0, 2}
    PROVE  length \in Nat /\ length < Radix * Radix * Radix * Radix
<1> DEFINE R == Radix
<1>1. R \in Nat /\ R >= 2
  BY RadixIs
<1>2. Lengths \subseteq 0 .. R * R * R * R - 1
  BY ReceiveAssumption
<1> HIDE DEF R
<1>3. R * R >= 4 /\ R * R \in Nat
  BY <1>1
<1>4. (R * R) * R >= 8 /\ (R * R) * R \in Nat
  BY <1>1, <1>3
<1>5. R * R * R * R >= 16 /\ R * R * R * R \in Nat
  BY <1>1, <1>4
<1>6. CASE length \in Lengths
  BY <1>2, <1>5, <1>6 DEF R
<1>7. CASE length \in {0, 2}
  BY <1>5, <1>7 DEF R
<1>8. QED
  BY <1>6, <1>7

\* What is encoded is decoded again: the digits say where they end, as many as
\* processRemainingLength() expects, and their sum is the length.
LEMMA CodeIs ==
    ASSUME NEW length \in Lengths \cup {0, 2}
    PROVE  /\ length \in Nat
           /\ Code[length] \in Seq([digit : Nat, more : BOOLEAN])
           /\ Len(Code[length]) \in 1..4
           /\ Len(Code[length]) = RemainingLengthEncodedSize(length)
           /\ \A d \in 1 .. Len(Code[length]) :
                 Code[length][d].digit \in Nat /\ (Code[length][d].more <=> d < Len(Code[length]))
           /\ length = Code[length][1].digit
                       + (IF Len(Code[length]) > 1 THEN Code[length][2].digit * Multiplier[2] ELSE 0)
                       + (IF Len(Code[length]) > 2 THEN Code[length][3].digit * Multiplier[3] ELSE 0)
                       + (IF Len(Code[length]) > 3 THEN Code[length][4].digit * Multiplier[4] ELSE 0)
<1> DEFINE r == Rest(length)
           T == {c \in 1..4 : r[c + 1] = 0}
           k == Min(T)
           code == Code[length]
           R == Radix
<1>1. length \in Nat /\ length < Radix * Radix * Radix * Radix
  BY LengthsAre
<1>2. /\ \A d \in 1..5 : r[d] \in Nat
      /\ \A d \in 1..4 : r[d] % Radix \in Nat
      /\ r[5] = 0
      /\ \A d \in 1..4 : r[d + 1] = 0 =>
            /\ length = (r[1] % Radix)
                         + (IF d > 1 THEN (r[2] % Radix) * Radix ELSE 0)
                         + (IF d > 2 THEN (r[3] % Radix) * (Radix * Radix) ELSE 0)
                         + (IF d > 3 THEN (r[4] % Radix) * (Radix * Radix * Radix) ELSE 0)
            /\ (\A c \in 1 .. d - 1 : r[c + 1] > 0) => d = RemainingLengthEncodedSize(length)
  BY <1>1, RestIs
<1>3. code = [d \in 1..k |-> [digit |-> r[d] % Radix, more |-> r[d + 1] > 0]]
  BY DEF Code, EncodeRemainingLength
<1> HIDE DEF r, code
<1>4. k \in 1..4 /\ r[k + 1] = 0 /\ \A c \in 1 .. k - 1 : r[c + 1] > 0
  <2>1. T \in SUBSET Nat /\ 4 \in T
    BY <1>2
  <2>2. k \in T /\ \A c \in T : k <= c
    BY <2>1, MinIs
  <2>3. \A c \in 1 .. k - 1 : c \in 1..4 /\ c \notin T
    BY <2>2
  <2>4. QED
    BY <1>2, <2>2, <2>3
<1> HIDE DEF k
<1>5. Len(code) = k /\ code \in Seq([digit : Nat, more : BOOLEAN])
  <2> DEFINE S == [digit : Nat, more : BOOLEAN]
             f(d) == [digit |-> r[d] % Radix, more |-> r[d + 1] > 0]
  <2>1. \A d \in 1..k : r[d] % Radix \in Nat /\ (r[d + 1] > 0) \in BOOLEAN
    BY <1>2, <1>4
  <2>2. \A d \in 1..k : f(d) \in S
    BY <2>1
  <2> HIDE DEF S
  <2>3. code = [d \in 1..k |-> f(d)]
    BY <1>3
  <2> HIDE DEF f
  <2>4. code \in [1..k -> S] /\ k \in Nat
    BY <1>4, <2>2, <2>3
  <2>5. Len(code) = k /\ code \in Seq(S)
    BY <2>4
  <2>6. QED
    BY <2>5 DEF S
<1>6. \A d \in 1..k : code[d].digit = r[d] % Radix /\ (code[d].more <=> r[d + 1] > 0)
  BY <1>3
<1>7. \A d \in 1..k : code[d].digit \in Nat /\ (code[d].more <=> d < k)
  BY <1>2, <1>4, <1>6
<1>8. length = (r[1] % Radix)
               + (IF k > 1 THEN (r[2] % Radix) * Radix ELSE 0)
               + (IF k > 2 THEN (r[3] % Radix) * (Radix * Radix) ELSE 0)
               + (IF k > 3 THEN (r[4] % Radix) * (Radix * Radix * Radix) ELSE 0)
  BY <1>2, <1>4
<1>9. length = code[1].digit
               + (IF k > 1 THEN code[2].digit * Multiplier[2] ELSE 0)
               + (IF k > 2 THEN code[3].digit * Multiplier[3] ELSE 0)
               + (IF k > 3 THEN code[4].digit * Multiplier[4] ELSE 0)
  <2>1. Multiplier[2] = Radix /\ Multiplier[3] = Radix * Radix /\ Multiplier[4] = Radix * Radix * Radix
    BY DEF Multiplier
  <2>2. /\ code[1].digit = r[1] % Radix
        /\ k > 1 => code[2].digit = r[2] % Radix
        /\ k > 2 => code[3].digit = r[3] % Radix
        /\ k > 3 => code[4].digit = r[4] % Radix
    BY <1>4, <1>6
  <2>3. QED
    BY <1>8, <2>1, <2>2
<1>10. k = RemainingLengthEncodedSize(length)
  BY <1>2, <1>4
<1>11. QED
  BY <1>1, <1>4, <1>5, <1>7, <1>9, <1>10 DEF code
-----------------------------------------------------------------------------
(* Packets in a stream of bytes *)

LEMMA ByteIs ==
    ASSUME NEW s \in Seq(Byte), NEW i \in DOMAIN s
    PROVE  s[i][1] \in Names /\ s[i][2] \in Nat /\ s[i] = <<s[i][1], s[i][2]>>
<1>1. s[i] \in Names \X Nat
  BY DEF Byte
<1>2. QED
  BY <1>1

LEMMA SizeIs ==
    ASSUME NEW l \in Seq(Lengths), Len(l) <= MaxPackets, NEW p \in KnownIn(l)
    PROVE  /\ LengthIn(l, p) \in Lengths \cup {0, 2} /\ LengthIn(l, p) \in Nat
           /\ Len(Code[LengthIn(l, p)]) \in 1..4
           /\ SizeIn(l, p) = 1 + Len(Code[LengthIn(l, p)]) + LengthIn(l, p)
           /\ SizeIn(l, p) \in Nat /\ SizeIn(l, p) >= 2
<1>1. LengthIn(l, p) \in Lengths \cup {0, 2}
  BY DEF LengthIn, KnownIn
<1>2. LengthIn(l, p) \in Nat /\ Len(Code[LengthIn(l, p)]) \in 1..4
  BY <1>1, CodeIs
<1> DEFINE k == Len(Code[LengthIn(l, p)])
           m == LengthIn(l, p)
<1>3. SizeIn(l, p) = 1 + k + m
  BY DEF SizeIn
<1>4. k \in 1..4 /\ m \in Nat
  BY <1>2
<1> HIDE DEF k, m
<1>5. SizeIn(l, p) \in Nat /\ SizeIn(l, p) >= 2
  BY <1>3, <1>4
<1>6. QED
  BY <1>1, <1>3, <1>4, <1>5 DEF k, m

\* A stream of whole packets begins with all bytes of its first packet.
LEMMA HeadPacket ==
    ASSUME NEW l \in Seq(Lengths), Len(l) <= MaxPackets, NEW s \in Seq(Byte), s # <<>>, WholeIn(l, s), BytesIn(l, s)
    PROVE  /\ s[1][1] \in KnownIn(l)
           /\ SizeIn(l, s[1][1]) \in Nat /\ SizeIn(l, s[1][1]) >= 2 /\ SizeIn(l, s[1][1]) <= Len(s)
           /\ \A i \in 1 .. SizeIn(l, s[1][1]) : s[i][1] = s[1][1] /\ s[i][2] = i
<1> DEFINE p == s[1][1]
           n == SizeIn(l, p)
           Fine(i) == i <= Len(s) /\ s[i][1] = p /\ s[i][2] = i
           T == {i \in 1..n : ~Fine(i)}
<1>1. Len(s) \in Nat /\ Len(s) >= 1 /\ DOMAIN s = 1 .. Len(s)
  OBVIOUS
<1>2. p \in KnownIn(l)
  BY <1>1 DEF BytesIn
<1>3. n \in Nat /\ n >= 2
  BY <1>2, SizeIs
<1>4. Fine(1)
  BY <1>1 DEF WholeIn
<1>5. s[Len(s)][2] = SizeIn(l, s[Len(s)][1])
  BY DEF WholeIn
<1>6. \A i \in 1 .. Len(s) - 1 : s[i][2] # SizeIn(l, s[i][1]) => s[i + 1] = <<s[i][1], s[i][2] + 1>>
  BY DEF WholeIn
<1> HIDE DEF n, p
<1>7. ASSUME NEW i \in 1..n, i > 1, Fine(i - 1)
      PROVE  Fine(i)
  <2>1. i - 1 # n /\ i - 1 \in 1 .. Len(s)
    BY <1>1, <1>3, <1>7
  <2>2. s[i - 1][2] = i - 1 /\ s[i - 1][1] = p
    BY <1>7
  <2>3. s[i - 1][2] # SizeIn(l, s[i - 1][1])
    BY <2>1, <2>2 DEF n
  <2>4. i - 1 # Len(s)
    BY <1>5, <2>3
  <2>5. i - 1 \in 1 .. Len(s) - 1 /\ (i - 1) + 1 = i
    BY <1>1, <2>1, <2>4
  <2>6. s[i] = <<p, i>>
    BY <1>6, <2>2, <2>3, <2>5
  <2>7. QED
    BY <2>5, <2>6, <1>1
<1>8. T = {}
  <2> SUFFICES ASSUME T # {} PROVE FALSE
    OBVIOUS
  <2>1. T \in SUBSET Nat
    BY <1>3
  <2>2. PICK i \in T : \A j \in T : i <= j
    BY <2>1, LeastNumber
  <2>3. i \in 1..n /\ ~Fine(i)
    BY <2>2
  <2>4. i > 1
    BY <1>4, <2>3
  <2>5. i - 1 \in 1..n /\ i - 1 \notin T
    BY <1>3, <2>2, <2>3, <2>4
  <2>6. Fine(i - 1)
    BY <2>5
  <2>7. QED
    BY <1>7, <2>3, <2>4, <2>6
<1>9. \A i \in 1..n : Fine(i)
  BY <1>8
<1>10. n <= Len(s)
  BY <1>3, <1>9
<1>11. QED
  BY <1>2, <1>3, <1>9, <1>10 DEF n, p

\* Whatever recv() has returned of such a stream so far, the length of its first
\* packet is decoded as soon as its digits are there, and never refused.
LEMMA ParseIs ==
    ASSUME lens \in Seq(Lengths), Len(lens) <= MaxPackets, NEW s \in Seq(Byte), WholeIn(lens, s), BytesIn(lens, s),
           NEW b \in Seq(Byte), b # <<>>, Len(b) <= Len(s), \A i \in 1 .. Len(b) : b[i] = s[i]
    PROVE  ProcessIncomingPacket(b) =
              IF Len(b) > Len(Code[LengthIn(lens, b[1][1])])
              THEN [status |-> "Success", total |-> SizeIn(lens, b[1][1])]
              ELSE [status |-> "NeedMoreBytes"]
<1> DEFINE p == s[1][1]
           code == Code[LengthIn(lens, p)]
           k == Len(code)
<1>1. Len(b) \in Nat /\ Len(b) >= 1 /\ Len(s) \in Nat /\ b[1] = s[1] /\ s # <<>>
  OBVIOUS
<1>2. /\ p \in KnownIn(lens) /\ SizeIn(lens, p) \in Nat
      /\ \A i \in 1 .. SizeIn(lens, p) : s[i][1] = p /\ s[i][2] = i
  BY <1>1, HeadPacket
<1>3. LengthIn(lens, p) \in Lengths \cup {0, 2} /\ LengthIn(lens, p) \in Nat /\ k \in 1..4 /\ SizeIn(lens, p) = 1 + k + LengthIn(lens, p)
  BY <1>2, SizeIs
<1>4. /\ code \in Seq([digit : Nat, more : BOOLEAN])
      /\ k = RemainingLengthEncodedSize(LengthIn(lens, p))
      /\ \A d \in 1..k : code[d].digit \in Nat /\ (code[d].more <=> d < k)
      /\ LengthIn(lens, p) = code[1].digit
                     + (IF k > 1 THEN code[2].digit * Multiplier[2] ELSE 0)
                     + (IF k > 2 THEN code[3].digit * Multiplier[3] ELSE 0)
                     + (IF k > 3 THEN code[4].digit * Multiplier[4] ELSE 0)
  BY <1>3, CodeIs
<1>5. DOMAIN code = 1..k
  BY <1>4
<1> HIDE DEF p, code, k
<1>6. ASSUME NEW d \in 1..k, d < Len(b)
      PROVE  Digit(b, d) = code[d]
  <2>1. d + 1 \in 1 .. SizeIn(lens, p) /\ d + 1 \in 1 .. Len(b)
    BY <1>1, <1>3, <1>6
  <2>2. b[d + 1][1] = p /\ b[d + 1][2] = d + 1
    BY <1>2, <2>1
  <2>3. (d + 1) - 1 = d /\ d \in DOMAIN code
    BY <1>5, <1>3
  <2>4. QED
    BY <2>2, <2>3, Zenon DEF Digit, LengthByte, code, Length, LengthIn
<1>7. IncomingPacketValid(b[1])
  BY <1>1 DEF IncomingPacketValid, WholeIn
<1>8. ProcessIncomingPacket(b) = ProcessRemainingLength(b)
  BY <1>7 DEF ProcessIncomingPacket
<1>9. CASE Len(b) > k
  <2>1. LastDigit(b) = {k}
    <3>1. ASSUME NEW d \in LastDigit(b) PROVE d = k
      <4>1. d \in 1..4 /\ d < Len(b) /\ ~Digit(b, d).more /\ \A c \in 1 .. d - 1 : Digit(b, c).more
        BY DEF LastDigit
      <4>2. ~(d < k)
        <5> SUFFICES ASSUME d < k PROVE FALSE
          OBVIOUS
        <5>1. d \in 1..k
          BY <1>3, <4>1
        <5>2. Digit(b, d) = code[d] /\ code[d].more
          BY <1>4, <1>6, <4>1, <5>1
        <5>3. QED
          BY <4>1, <5>2
      <4>3. ~(d > k)
        <5> SUFFICES ASSUME d > k PROVE FALSE
          OBVIOUS
        <5>1. k \in 1 .. d - 1
          BY <1>3, <4>1
        <5>2. Digit(b, k).more /\ Digit(b, k) = code[k] /\ ~code[k].more
          <6>1. k \in 1..k /\ ~(k < k)
            BY <1>3
          <6>2. Digit(b, k).more
            BY <4>1, <5>1
          <6>3. Digit(b, k) = code[k]
            BY <1>6, <1>9, <6>1
          <6>4. ~code[k].more
            BY <1>4, <6>1, Zenon
          <6>5. QED
            BY <6>2, <6>3, <6>4
        <5>3. QED
          BY <5>2
      <4>4. QED
        BY <1>3, <4>1, <4>2, <4>3
    <3>2. k \in LastDigit(b)
      <4>1. ~Digit(b, k).more
        <5>1. k \in 1..k /\ ~(k < k)
          BY <1>3
        <5>2. Digit(b, k) = code[k] /\ ~code[k].more
          BY <1>4, <1>6, <1>9, <5>1
        <5>3. QED
          BY <5>2
      <4>2. ASSUME NEW c \in 1 .. k - 1 PROVE Digit(b, c).more
        <5>1. c \in 1..k /\ c < k /\ c < Len(b)
          BY <1>1, <1>3, <1>9
        <5>2. QED
          BY <1>4, <1>6, <5>1
      <4>3. QED
        BY <1>3, <1>9, <4>1, <4>2 DEF LastDigit
    <3>3. QED
      BY <3>1, <3>2
  <2>2. Min(LastDigit(b)) = k
    <3>1. {k} \in SUBSET Nat /\ {k} # {}
      BY <1>3
    <3>2. Min({k}) \in {k}
      BY <3>1, MinIs
    <3>3. QED
      BY <2>1, <3>2
  <2>3. Worth(b, k) = LengthIn(lens, p)
    <3>1. /\ Digit(b, 1) = code[1] /\ Multiplier[1] = 1
          /\ k > 1 => Digit(b, 2) = code[2]
          /\ k > 2 => Digit(b, 3) = code[3]
          /\ k > 3 => Digit(b, 4) = code[4]
      BY <1>1, <1>3, <1>6, <1>9 DEF Multiplier
    <3>2. code[1].digit \in Nat
      <4>1. 1 \in 1..k
        BY <1>3
      <4>2. QED
        BY <1>4, <4>1, Zenon
    <3>3. Worth(b, k) = code[1].digit * 1
                        + (IF k > 1 THEN code[2].digit * Multiplier[2] ELSE 0)
                        + (IF k > 2 THEN code[3].digit * Multiplier[3] ELSE 0)
                        + (IF k > 3 THEN code[4].digit * Multiplier[4] ELSE 0)
      <4>1. (1 <= k) /\ (2 <= k <=> k > 1) /\ (3 <= k <=> k > 2) /\ (4 <= k <=> k > 3)
        BY <1>3
      <4>2. QED
        BY <3>1, <4>1, Zenon DEF Worth
    <3>4. code[1].digit * 1 = code[1].digit
      BY <3>2
    <3>5. QED
      BY <1>4, <3>3, <3>4
  <2>4. ProcessRemainingLength(b) = [status |-> "Success", total |-> LengthIn(lens, p) + k + 1]
    BY <1>4, <2>1, <2>2, <2>3 DEF ProcessRemainingLength
  <2>5. LengthIn(lens, p) + k + 1 = SizeIn(lens, p)
    BY <1>3
  <2>6. QED
    BY <1>1, <1>8, <1>9, <2>4, <2>5 DEF code, k, p
<1>10. CASE ~(Len(b) > k)
  <2>1. LastDigit(b) = {}
    <3> SUFFICES ASSUME NEW d \in LastDigit(b) PROVE FALSE
      OBVIOUS
    <3>1. d \in 1..4 /\ d < Len(b) /\ ~Digit(b, d).more
      BY DEF LastDigit
    <3>2. d \in 1..k /\ d < k
      BY <1>1, <1>3, <1>10, <3>1
    <3>3. QED
      BY <1>4, <1>6, <3>1, <3>2
  <2>2. Len(b) <= 4
    BY <1>1, <1>3, <1>10
  <2>3. ProcessRemainingLength(b) = [status |-> "NeedMoreBytes"]
    BY <1>1, <2>1, <2>2 DEF ProcessRemainingLength
  <2>4. QED
    BY <1>1, <1>8, <1>10, <2>3 DEF code, k, p
<1>11. QED
  BY <1>9, <1>10
-----------------------------------------------------------------------------
(* What a stream keeps when packets leave it and join it *)

LEMMA SkipIs ==
    ASSUME NEW S, NEW s \in Seq(S), NEW n \in 0 .. Len(s)
    PROVE  /\ Skip(s, n) \in Seq(S) /\ Len(Skip(s, n)) = Len(s) - n
           /\ \A i \in 1 .. Len(s) - n : Skip(s, n)[i] = s[i + n]
  BY DEF Skip

LEMMA TakeIs ==
    ASSUME NEW S, NEW s \in Seq(S), NEW n \in 0 .. Len(s)
    PROVE  /\ Take(s, n) \in Seq(S) /\ Len(Take(s, n)) = n
           /\ \A i \in 1 .. n : Take(s, n)[i] = s[i]
  BY DEF Take

LEMMA ConcatIs ==
    ASSUME NEW S, NEW s \in Seq(S), NEW t \in Seq(S)
    PROVE  /\ s \o t \in Seq(S) /\ Len(s \o t) = Len(s) + Len(t)
           /\ \A i \in 1 .. Len(s) : (s \o t)[i] = s[i]
           /\ \A i \in 1 .. Len(t) : (s \o t)[Len(s) + i] = t[i]
  OBVIOUS

\* recv() moves bytes from one end of the stream to the other.
LEMMA StreamMoves ==
    ASSUME NEW S, NEW s \in Seq(S), NEW t \in Seq(S), NEW n \in 0 .. Len(t)
    PROVE  (s \o Take(t, n)) \o Skip(t, n) = s \o t
<1> DEFINE v == Take(t, n)
           w == Skip(t, n)
           u == s \o v
           m == Len(s)
<1>0. \A x, y \in Seq(S) :
         /\ x \o y \in Seq(S) /\ Len(x \o y) = Len(x) + Len(y)
         /\ \A i \in 1 .. Len(x) : (x \o y)[i] = x[i]
         /\ \A i \in 1 .. Len(y) : (x \o y)[Len(x) + i] = y[i]
  BY ConcatIs
<1>1. v \in Seq(S) /\ Len(v) = n /\ \A i \in 1..n : v[i] = t[i]
  BY TakeIs
<1>2. w \in Seq(S) /\ Len(w) = Len(t) - n /\ \A i \in 1 .. Len(t) - n : w[i] = t[i + n]
  BY SkipIs
<1> HIDE DEF v, w
<1>3. /\ u \in Seq(S) /\ Len(u) = m + n
      /\ \A i \in 1..m : u[i] = s[i]
      /\ \A i \in 1..n : u[m + i] = v[i]
  <2>1. /\ u \in Seq(S) /\ Len(u) = m + Len(v)
        /\ \A i \in 1..m : u[i] = s[i]
        /\ \A i \in 1 .. Len(v) : u[m + i] = v[i]
    BY <1>0, <1>1, Zenon
  <2>2. QED
    BY <1>1, <2>1, Zenon
<1> HIDE DEF u
<1>4. /\ u \o w \in Seq(S) /\ Len(u \o w) = Len(u) + Len(w)
      /\ \A i \in 1 .. Len(u) : (u \o w)[i] = u[i]
      /\ \A i \in 1 .. Len(w) : (u \o w)[Len(u) + i] = w[i]
  BY <1>0, <1>2, <1>3, Zenon
<1>5. /\ s \o t \in Seq(S) /\ Len(s \o t) = m + Len(t)
      /\ \A i \in 1..m : (s \o t)[i] = s[i]
      /\ \A i \in 1 .. Len(t) : (s \o t)[m + i] = t[i]
  BY ConcatIs
<1>6. m \in Nat /\ Len(t) \in Nat /\ n \in Nat /\ n <= Len(t)
  OBVIOUS
<1> HIDE DEF m
<1>7. ASSUME NEW i \in 1 .. m + Len(t)
      PROVE  (u \o w)[i] = (s \o t)[i]
  <2>1. CASE i <= m
    <3>1. i \in 1..m /\ i \in 1 .. Len(u)
      BY <1>3, <1>6, <2>1
    <3>2. QED
      BY <1>3, <1>4, <1>5, <3>1
  <2>2. CASE i > m /\ i <= m + n
    <3>1. i - m \in 1..n /\ m + (i - m) = i /\ i \in 1 .. Len(u) /\ i - m \in 1 .. Len(t)
      BY <1>3, <1>6, <2>2
    <3>2. (u \o w)[i] = u[i] /\ u[i] = v[i - m] /\ v[i - m] = t[i - m]
      BY <1>1, <1>3, <1>4, <3>1
    <3>3. (s \o t)[i] = t[i - m]
      BY <1>5, <3>1
    <3>4. QED
      BY <3>2, <3>3
  <2>3. CASE i > m + n
    <3> DEFINE j == i - (m + n)
    <3>0. i \in Int /\ i <= m + Len(t) /\ j = i - (m + n)
      BY <1>6
    <3> HIDE DEF j
    <3>1. /\ j \in 1 .. Len(t) - n /\ j \in 1 .. Len(w) /\ Len(u) + j = i
          /\ j + n \in 1 .. Len(t) /\ m + (j + n) = i
      BY <1>2, <1>3, <1>6, <2>3, <3>0
    <3>2. (u \o w)[i] = w[j] /\ w[j] = t[j + n]
      BY <1>2, <1>4, <3>1
    <3>3. (s \o t)[i] = t[j + n]
      BY <1>5, <3>1
    <3>4. QED
      BY <3>2, <3>3
  <2>4. i <= m \/ (i > m /\ i <= m + n) \/ i > m + n
    BY <1>6
  <2>5. QED
    BY <2>1, <2>2, <2>3, <2>4, Zenon
<1>8. Len(u \o w) = m + Len(t)
  BY <1>2, <1>3, <1>4, <1>6
<1>9. QED
  BY <1>4, <1>5, <1>7, <1>8, SeqEqual DEF u, v, w

\* The packet at the head leaves the stream: handed over, or not one to hand over.
LEMMA HeadLeaves ==
    ASSUME NEW l \in Seq(Lengths), Len(l) <= MaxPackets,
           NEW s \in Seq(Byte), s # <<>>, NEW h \in Seq(1 .. Len(l)), Intact(l, h, s),
           NEW g \in Seq(1 .. Len(l)),
           \/ (s[1][1] \notin 1 .. Len(l) \/ SizeIn(l, s[1][1]) > BufSize) /\ g = h
           \/ s[1][1] \in 1 .. Len(l) /\ SizeIn(l, s[1][1]) <= BufSize /\ g = Append(h, s[1][1])
    PROVE  /\ SizeIn(l, s[1][1]) \in 0 .. Len(s)
           /\ Intact(l, g, Skip(s, SizeIn(l, s[1][1])))
           /\ \A i \in 1 .. Len(s) - SizeIn(l, s[1][1]) :
                 Skip(s, SizeIn(l, s[1][1]))[i] = s[i + SizeIn(l, s[1][1])]
<1> DEFINE p == s[1][1]
           n == SizeIn(l, p)
           t == Skip(s, n)
<1>1. WholeIn(l, s) /\ BytesIn(l, s) /\ InTurnIn(l, h, s)
  BY DEF Intact
<1>2. p \in KnownIn(l) /\ n \in Nat /\ n >= 2 /\ n <= Len(s) /\ \A i \in 1..n : s[i][1] = p /\ s[i][2] = i
  BY <1>1, HeadPacket
<1>3. DOMAIN s = 1 .. Len(s) /\ Len(s) \in Nat
  OBVIOUS
<1>4. n \in 0 .. Len(s)
  BY <1>2, <1>3
<1>5. t \in Seq(Byte) /\ Len(t) = Len(s) - n /\ \A i \in 1 .. Len(s) - n : t[i] = s[i + n]
  BY <1>4, SkipIs
<1> HIDE DEF t, n, p
<1>6. DOMAIN t = 1 .. Len(s) - n
  BY <1>5
<1>7. \A i \in 1 .. Len(s) - n : i + n \in 1 .. Len(s) /\ i + n > n
  BY <1>2, <1>3
<1>8. WholeIn(l, t)
  <2>1. ASSUME t # <<>> PROVE t[1][2] = 1 /\ t[Len(t)][2] = SizeIn(l, t[Len(t)][1])
    <3>1. Len(t) # 0 /\ Len(t) \in Nat
      BY <1>5, <2>1
    <3>2. 1 \in 1 .. Len(s) - n /\ Len(s) - n \in 1 .. Len(s) - n /\ 1 + n = n + 1 /\ (Len(s) - n) + n = Len(s)
      <4> DEFINE L == Len(s)
                 m == Len(t)
      <4>1. m = L - n /\ m # 0 /\ m \in Nat
        BY <1>5, <3>1
      <4>2. L \in Nat /\ n \in Nat
        BY <1>2, <1>3
      <4> HIDE DEF L, m
      <4>3. 1 \in 1 .. L - n /\ L - n \in 1 .. L - n /\ 1 + n = n + 1 /\ (L - n) + n = L
        BY <4>1, <4>2
      <4>4. QED
        BY <4>3 DEF L
    <3>3. t[1] = s[n + 1] /\ t[Len(t)] = s[Len(s)]
      BY <1>5, <3>2
    <3>4. n \in 1 .. Len(s) - 1 /\ n \in 1..n
      BY <1>2, <1>3, <3>2
    <3>5. s[n][2] = SizeIn(l, s[n][1])
      BY <1>2, <3>4 DEF n
    <3>6. s[n + 1] = <<s[n + 1][1], 1>>
      BY <1>1, <3>4, <3>5 DEF WholeIn
    <3>7. s[Len(s)][2] = SizeIn(l, s[Len(s)][1])
      BY <1>1 DEF WholeIn
    <3>8. QED
      BY <3>3, <3>6, <3>7
  <2>2. ASSUME NEW i \in 1 .. Len(t) - 1
        PROVE  t[i + 1] = IF t[i][2] = SizeIn(l, t[i][1]) THEN <<t[i + 1][1], 1>> ELSE <<t[i][1], t[i][2] + 1>>
    <3>1. /\ i \in 1 .. Len(s) - n /\ i + 1 \in 1 .. Len(s) - n
          /\ i + n \in 1 .. Len(s) - 1 /\ (i + 1) + n = (i + n) + 1
      BY <1>2, <1>3, <1>5
    <3>2. t[i] = s[i + n] /\ t[i + 1] = s[(i + n) + 1]
      BY <1>5, <3>1
    <3> DEFINE j == i + n
    <3> HIDE DEF j
    <3>3. s[j + 1] = IF s[j][2] = SizeIn(l, s[j][1]) THEN <<s[j + 1][1], 1>> ELSE <<s[j][1], s[j][2] + 1>>
      BY <1>1, <3>1 DEF WholeIn, j
    <3>4. QED
      BY <3>2, <3>3 DEF j
  <2>3. QED
    BY <2>1, <2>2 DEF WholeIn
<1>9. BytesIn(l, t)
  BY <1>1, <1>3, <1>5, <1>6, <1>7 DEF BytesIn
<1>10. \A i \in StartsIn(l, t) : i \in Nat /\ i + n \in StartsIn(l, s) /\ t[i] = s[i + n] /\ i + n > n
  BY <1>3, <1>5, <1>6, <1>7 DEF StartsIn
<1>11. ASSUME NEW j \in StartsIn(l, s), s[j][1] # p
       PROVE  \E i \in StartsIn(l, t) : t[i] = s[j]
  <2>1. j \in 1 .. Len(s) /\ s[j][2] = 1 /\ s[j][1] \in 1 .. Len(l)
    BY <1>3 DEF StartsIn
  <2>2. j > n
    BY <1>2, <1>11, <2>1
  <2>3. j - n \in 1 .. Len(s) - n /\ (j - n) + n = j
    BY <1>2, <1>3, <2>1, <2>2
  <2>4. t[j - n] = s[j]
    BY <1>5, <2>3
  <2>5. j - n \in StartsIn(l, t)
    BY <1>6, <2>1, <2>3, <2>4 DEF StartsIn
  <2>6. QED
    BY <2>4, <2>5
<1>12. \A i, j \in StartsIn(l, t) : i < j => t[i][1] < t[j][1]
  <2> SUFFICES ASSUME NEW i \in StartsIn(l, t), NEW j \in StartsIn(l, t), i < j PROVE t[i][1] < t[j][1]
    OBVIOUS
  <2>1. i + n \in StartsIn(l, s) /\ j + n \in StartsIn(l, s) /\ i + n < j + n
    BY <1>2, <1>10
  <2>2. s[i + n][1] < s[j + n][1]
    BY <1>1, <2>1 DEF InTurnIn
  <2>3. QED
    BY <1>10, <2>2
<1>13. CASE g = h /\ (p \notin 1 .. Len(l) \/ SizeIn(l, p) > BufSize)
  <2>1. \A i \in DOMAIN g : SizeIn(l, g[i]) <= BufSize /\ \A j \in StartsIn(l, t) : g[i] < t[j][1]
    BY <1>1, <1>10, <1>13 DEF InTurnIn
  <2>2. ASSUME NEW k \in 1 .. Len(l), SizeIn(l, k) <= BufSize
        PROVE  k \in Range(g) \/ \E j \in StartsIn(l, t) : t[j][1] = k
    <3>1. k # p
      <4>1. SizeIn(l, k) \in Nat /\ BufSize \in Nat
        BY SizeIs, ReceiveAssumption DEF KnownIn
      <4>2. QED
        BY <1>13, <2>2, <4>1
    <3>2. k \in Range(h) \/ \E j \in StartsIn(l, s) : s[j][1] = k
      BY <1>1, <2>2 DEF InTurnIn
    <3>3. QED
      BY <1>11, <1>13, <3>1, <3>2
  <2>3. \A i, j \in DOMAIN g : i < j => g[i] < g[j]
    BY <1>1, <1>13 DEF InTurnIn
  <2>4. InTurnIn(l, g, t)
    BY <1>12, <2>1, <2>2, <2>3 DEF InTurnIn
  <2>5. QED
    BY <1>4, <1>5, <1>8, <1>9, <2>4 DEF Intact, t, n, p
<1>14. CASE g = Append(h, p) /\ p \in 1 .. Len(l) /\ SizeIn(l, p) <= BufSize
  <2>1. /\ Len(h) \in Nat /\ DOMAIN h = 1 .. Len(h) /\ DOMAIN g = 1 .. Len(h) + 1
        /\ g[Len(h) + 1] = p /\ \A i \in 1 .. Len(h) : g[i] = h[i]
    BY <1>14
  <2>2. 1 \in StartsIn(l, s) /\ s[1][1] = p
    BY <1>2, <1>3, <1>14 DEF StartsIn, p
  <2>3. \A i \in 1 .. Len(h) : SizeIn(l, h[i]) <= BufSize /\ h[i] < p /\ \A j \in StartsIn(l, s) : h[i] < s[j][1]
    <3>1. \A i \in 1 .. Len(h) : SizeIn(l, h[i]) <= BufSize /\ \A j \in StartsIn(l, s) : h[i] < s[j][1]
      BY <1>1, <2>1, Zenon DEF InTurnIn
    <3>2. QED
      BY <2>2, <3>1, Zenon
  <2>4. \A j \in StartsIn(l, t) : p < t[j][1]
    <3> SUFFICES ASSUME NEW j \in StartsIn(l, t) PROVE p < t[j][1]
      OBVIOUS
    <3>1. 1 < j + n /\ j + n \in StartsIn(l, s)
      BY <1>2, <1>10
    <3>2. s[1][1] < s[j + n][1]
      BY <1>1, <2>2, <3>1 DEF InTurnIn
    <3>3. QED
      BY <1>10, <2>2, <3>2
  <2>5. \A i \in DOMAIN g : SizeIn(l, g[i]) <= BufSize /\ \A j \in StartsIn(l, t) : g[i] < t[j][1]
    <3> SUFFICES ASSUME NEW i \in DOMAIN g
                 PROVE  SizeIn(l, g[i]) <= BufSize /\ \A j \in StartsIn(l, t) : g[i] < t[j][1]
      OBVIOUS
    <3>1. CASE i = Len(h) + 1
      BY <1>14, <2>1, <2>4, <3>1
    <3>2. CASE i # Len(h) + 1
      <4>1. i \in 1 .. Len(h)
        BY <2>1, <3>2
      <4>2. QED
        BY <1>10, <2>1, <2>3, <4>1
    <3>3. QED
      BY <3>1, <3>2
  <2>6. \A i, j \in DOMAIN g : i < j => g[i] < g[j]
    <3> SUFFICES ASSUME NEW i \in DOMAIN g, NEW j \in DOMAIN g, i < j PROVE g[i] < g[j]
      OBVIOUS
    <3>1. i \in 1 .. Len(h)
      BY <2>1
    <3>2. CASE j = Len(h) + 1
      BY <2>1, <2>3, <3>1, <3>2
    <3>3. CASE j # Len(h) + 1
      <4>1. j \in 1 .. Len(h)
        BY <2>1, <3>3
      <4>2. QED
        BY <1>1, <2>1, <3>1, <4>1 DEF InTurnIn
    <3>4. QED
      BY <3>2, <3>3
  <2>7. ASSUME NEW k \in 1 .. Len(l), SizeIn(l, k) <= BufSize
        PROVE  k \in Range(g) \/ \E j \in StartsIn(l, t) : t[j][1] = k
    <3>1. CASE k = p
      <4>1. Len(h) + 1 \in DOMAIN g
        BY <2>1
      <4>2. QED
        BY <2>1, <3>1, <4>1 DEF Range
    <3>2. CASE k # p
      <4>1. k \in Range(h) \/ \E j \in StartsIn(l, s) : s[j][1] = k
        BY <1>1, <2>7 DEF InTurnIn
      <4>2. k \in Range(h) => k \in Range(g)
        BY <2>1 DEF Range
      <4>3. QED
        BY <1>11, <3>2, <4>1, <4>2
    <3>3. QED
      BY <3>1, <3>2
  <2>8. InTurnIn(l, g, t)
    BY <1>12, <2>5, <2>6, <2>7 DEF InTurnIn
  <2>9. QED
    BY <1>4, <1>5, <1>8, <1>9, <2>8 DEF Intact, t, n, p
<1>15. QED
  BY <1>13, <1>14 DEF p

LEMMA ConstantsAre ==
    /\ MaxPackets \in Nat /\ CONNACK = MaxPackets + 1 /\ PINGRESP = 0 /\ Names = 0 .. MaxPackets + 1
    /\ BufSize \in Nat /\ BufSize > 5 /\ TimeMod \in Nat /\ TimeMod > 1
  BY ReceiveAssumption DEF CONNACK, PINGRESP, Names

\* The broker's next packet, or one without a number, joins the stream.
LEMMA PacketJoins ==
    ASSUME NEW l \in Seq(Lengths), Len(l) <= MaxPackets, NEW m \in Seq(Lengths), Len(m) <= MaxPackets,
           NEW s \in Seq(Byte), NEW h \in Seq(1 .. Len(l)), Intact(l, h, s), NEW q,
           \/ q \in {PINGRESP, CONNACK} /\ m = l
           \/ q = Len(l) + 1 /\ \E length \in Lengths : m = Append(l, length)
    PROVE  /\ NewBytes(m, q) \in Seq(Byte) /\ Len(NewBytes(m, q)) >= 2 /\ Intact(m, h, s \o NewBytes(m, q))
           /\ \A p \in KnownIn(l) : SizeIn(m, p) = SizeIn(l, p)
<1> DEFINE n == SizeIn(m, q)
           e == [i \in 1..n |-> <<q, i>>]
           t == s \o e
           L == Len(s)
<1>1. WholeIn(l, s) /\ BytesIn(l, s) /\ InTurnIn(l, h, s)
  BY DEF Intact
<1>2. L \in Nat /\ DOMAIN s = 1..L /\ (s = <<>> <=> L = 0)
  OBVIOUS
<1>3. Len(l) \in Nat /\ Len(m) \in Nat
  OBVIOUS
<1>4. /\ Len(l) <= Len(m) /\ Len(m) <= Len(l) + 1
      /\ \A p \in 1 .. Len(l) : m[p] = l[p]
      /\ q \in KnownIn(m) /\ q \in Names
      /\ q \in 1 .. Len(m) => q = Len(l) + 1
      /\ \A p \in 1 .. Len(m) : p \in 1 .. Len(l) \/ p = q
  <2>1. CASE q \in {PINGRESP, CONNACK} /\ m = l
    <3>1. q \notin 1 .. Len(m) /\ q \in Names
      BY <1>3, <2>1, ConstantsAre
    <3>2. q \in KnownIn(m)
      BY <2>1 DEF KnownIn
    <3>3. QED
      BY <1>3, <2>1, <3>1, <3>2
  <2>2. CASE q = Len(l) + 1 /\ \E length \in Lengths : m = Append(l, length)
    <3>1. Len(m) = Len(l) + 1 /\ \A p \in 1 .. Len(l) : m[p] = l[p]
      BY <2>2
    <3>2. q \in 1 .. Len(m) /\ q \in Names
      BY <1>3, <2>2, <3>1, ConstantsAre
    <3>3. q \in KnownIn(m)
      BY <3>2 DEF KnownIn
    <3>4. \A p \in 1 .. Len(m) : p \in 1 .. Len(l) \/ p = q
      BY <1>3, <2>2, <3>1
    <3>5. QED
      BY <1>3, <2>2, <3>1, <3>2, <3>3, <3>4
  <2>3. QED
    BY <2>1, <2>2
<1>5. ASSUME NEW p \in KnownIn(l)
      PROVE  p \in KnownIn(m) /\ SizeIn(m, p) = SizeIn(l, p) /\ (p \in 1 .. Len(m) => p \in 1 .. Len(l))
  <2>1. p \in KnownIn(m)
    BY <1>3, <1>4 DEF KnownIn
  <2>2. LengthIn(m, p) = LengthIn(l, p)
    BY <1>4 DEF KnownIn, LengthIn
  <2>3. SizeIn(m, p) = SizeIn(l, p)
    BY <2>2 DEF SizeIn
  <2>4. p \in 1 .. Len(m) => p \in 1 .. Len(l)
    BY <1>3, ConstantsAre DEF KnownIn
  <2>5. QED
    BY <2>1, <2>3, <2>4
<1>6. n \in Nat /\ n >= 2
  BY <1>4, SizeIs
<1> HIDE DEF n
<1>7. e \in Seq(Byte) /\ Len(e) = n /\ \A i \in 1..n : e[i] = <<q, i>>
  BY <1>4, <1>6 DEF Byte
<1> HIDE DEF e
<1>8. t \in Seq(Byte) /\ Len(t) = L + n /\ (\A i \in 1..L : t[i] = s[i]) /\ (\A i \in 1..n : t[L + i] = <<q, i>>)
  <2>1. /\ t \in Seq(Byte) /\ Len(t) = L + Len(e)
        /\ \A i \in 1..L : t[i] = s[i]
        /\ \A i \in 1 .. Len(e) : t[L + i] = e[i]
    <3>1. \A x, y \in Seq(Byte) :
             /\ x \o y \in Seq(Byte) /\ Len(x \o y) = Len(x) + Len(y)
             /\ \A i \in 1 .. Len(x) : (x \o y)[i] = x[i]
             /\ \A i \in 1 .. Len(y) : (x \o y)[Len(x) + i] = y[i]
      BY ConcatIs
    <3>2. QED
      BY <1>7, <3>1, Zenon
  <2>2. QED
    BY <1>7, <2>1
<1> HIDE DEF t, L
<1>9. DOMAIN t = 1 .. L + n
  BY <1>8
<1>10. \A i \in 1..L : s[i][1] \in KnownIn(l) /\ s[i][2] \in 1 .. SizeIn(l, s[i][1])
  BY <1>1, <1>2 DEF BytesIn
<1>11. WholeIn(m, t)
  <2>1. t # <<>> /\ t[1][2] = 1 /\ t[Len(t)][2] = SizeIn(m, t[Len(t)][1])
    <3>1. n \in 1..n /\ 1 \in 1..n /\ t # <<>>
      BY <1>2, <1>6, <1>8
    <3>2. t[Len(t)] = <<q, n>>
      BY <1>8, <3>1
    <3>3. CASE L = 0
      <4>1. t[0 + 1] = <<q, 1>>
        BY <1>8, <3>1, <3>3
      <4>2. QED
        BY <3>1, <3>2, <4>1 DEF n
    <3>4. CASE L # 0
      <4>1. 1 \in 1..L /\ s # <<>>
        BY <1>2, <3>4
      <4>2. t[1] = s[1] /\ s[1][2] = 1
        BY <1>1, <1>8, <4>1 DEF WholeIn
      <4>3. QED
        BY <3>1, <3>2, <4>2 DEF n
    <3>5. QED
      BY <3>3, <3>4
  <2>2. ASSUME NEW i \in 1 .. Len(t) - 1
        PROVE  t[i + 1] = IF t[i][2] = SizeIn(m, t[i][1]) THEN <<t[i + 1][1], 1>> ELSE <<t[i][1], t[i][2] + 1>>
    <3>0. i \in Nat /\ i >= 1 /\ i < L + n
      BY <1>2, <1>6, <1>8
    <3>1. CASE i < L
      <4>1. i \in 1..L /\ i + 1 \in 1..L /\ i \in 1 .. L - 1
        BY <1>2, <3>0, <3>1
      <4>2. t[i] = s[i] /\ t[i + 1] = s[i + 1] /\ SizeIn(m, s[i][1]) = SizeIn(l, s[i][1])
        BY <1>5, <1>8, <1>10, <4>1
      <4>3. s[i + 1] = IF s[i][2] = SizeIn(l, s[i][1]) THEN <<s[i + 1][1], 1>> ELSE <<s[i][1], s[i][2] + 1>>
        BY <1>1, <4>1 DEF WholeIn, L
      <4>4. QED
        BY <4>2, <4>3
    <3>2. CASE i = L
      <4>1. L \in 1..L /\ s # <<>> /\ 1 \in 1..n
        BY <1>2, <1>6, <3>0, <3>2
      <4>2. s[L][2] = SizeIn(l, s[L][1])
        BY <1>1, <4>1 DEF WholeIn, L
      <4>3. t[i][2] = SizeIn(m, t[i][1])
        BY <1>5, <1>8, <1>10, <3>2, <4>1, <4>2
      <4>4. t[i + 1] = <<q, 1>>
        BY <1>8, <3>2, <4>1
      <4>5. QED
        BY <4>3, <4>4
    <3>3. CASE i > L
      <4> DEFINE j == i - L
      <4>1. j \in 1..n /\ j + 1 \in 1..n /\ j # n /\ L + j = i /\ L + (j + 1) = i + 1
        BY <1>2, <1>6, <3>0, <3>3
      <4> HIDE DEF j
      <4>2. t[i] = <<q, j>> /\ t[i + 1] = <<q, j + 1>>
        BY <1>8, <4>1
      <4>3. QED
        BY <4>1, <4>2 DEF n
    <3>4. QED
      BY <1>2, <3>0, <3>1, <3>2, <3>3
  <2>3. QED
    BY <2>1, <2>2 DEF WholeIn
<1>12. BytesIn(m, t)
  <2> SUFFICES ASSUME NEW i \in 1 .. L + n PROVE t[i][1] \in KnownIn(m) /\ t[i][2] \in 1 .. SizeIn(m, t[i][1])
    BY <1>9 DEF BytesIn
  <2>1. CASE i \in 1..L
    BY <1>5, <1>8, <1>10, <2>1
  <2>2. CASE i \notin 1..L
    <3>1. i - L \in 1..n /\ L + (i - L) = i
      BY <1>2, <1>6, <2>2
    <3>2. t[i] = <<q, i - L>>
      BY <1>8, <3>1
    <3>3. QED
      BY <1>4, <3>1, <3>2 DEF n
  <2>3. QED
    BY <2>1, <2>2
<1>13. ASSUME NEW i \in StartsIn(l, s)
       PROVE  i \in 1..L /\ i \in StartsIn(m, t) /\ t[i] = s[i] /\ s[i][1] \in 1 .. Len(l)
  <2>1. i \in 1..L /\ s[i][2] = 1 /\ s[i][1] \in 1 .. Len(l)
    BY <1>2 DEF StartsIn
  <2>2. i \in 1 .. L + n /\ t[i] = s[i] /\ s[i][1] \in 1 .. Len(m)
    BY <1>2, <1>3, <1>4, <1>6, <1>8, <2>1
  <2>3. QED
    BY <1>9, <2>1, <2>2 DEF StartsIn
<1>14. ASSUME NEW i \in StartsIn(m, t)
       PROVE  \/ i \in StartsIn(l, s) /\ t[i] = s[i]
              \/ i = L + 1 /\ t[i][1] = q /\ q = Len(l) + 1
  <2>1. i \in 1 .. L + n /\ t[i][2] = 1 /\ t[i][1] \in 1 .. Len(m)
    BY <1>9 DEF StartsIn
  <2>2. CASE i \in 1..L
    <3>1. t[i] = s[i] /\ s[i][1] \in 1 .. Len(l)
      BY <1>5, <1>8, <1>10, <2>1, <2>2
    <3>2. QED
      BY <1>2, <2>1, <2>2, <3>1 DEF StartsIn
  <2>3. CASE i \notin 1..L
    <3>1. i - L \in 1..n /\ L + (i - L) = i
      BY <1>2, <1>6, <2>1, <2>3
    <3>2. t[i] = <<q, i - L>>
      BY <1>8, <3>1
    <3>3. i - L = 1 /\ t[i][1] = q
      BY <2>1, <3>2
    <3>4. QED
      BY <1>2, <1>4, <2>1, <3>1, <3>3
  <2>4. QED
    BY <2>2, <2>3
<1>15. InTurnIn(m, h, t)
  <2>1. \A i, j \in DOMAIN h : i < j => h[i] < h[j]
    BY <1>1 DEF InTurnIn
  <2>2. ASSUME NEW i \in StartsIn(m, t), NEW j \in StartsIn(m, t), i < j PROVE t[i][1] < t[j][1]
    <3>1. CASE i \in StartsIn(l, s) /\ t[i] = s[i]
      <4>1. CASE j \in StartsIn(l, s) /\ t[j] = s[j]
        BY <1>1, <2>2, <3>1, <4>1 DEF InTurnIn
      <4>2. CASE t[j][1] = q /\ q = Len(l) + 1
        BY <1>3, <1>13, <3>1, <4>2
      <4>3. QED
        BY <1>14, <4>1, <4>2
    <3>2. CASE i = L + 1
      BY <1>2, <1>13, <1>14, <2>2, <3>2
    <3>3. QED
      BY <1>14, <3>1, <3>2
  <2>3. ASSUME NEW i \in DOMAIN h
        PROVE  SizeIn(m, h[i]) <= BufSize /\ \A j \in StartsIn(m, t) : h[i] < t[j][1]
    <3>1. h[i] \in 1 .. Len(l) /\ SizeIn(l, h[i]) <= BufSize /\ \A j \in StartsIn(l, s) : h[i] < s[j][1]
      BY <1>1 DEF InTurnIn
    <3>2. SizeIn(m, h[i]) = SizeIn(l, h[i])
      BY <1>5, <3>1 DEF KnownIn
    <3>3. QED
      BY <1>3, <1>14, <3>1, <3>2
  <2>4. ASSUME NEW k \in 1 .. Len(m), SizeIn(m, k) <= BufSize
        PROVE  k \in Range(h) \/ \E j \in StartsIn(m, t) : t[j][1] = k
    <3>1. CASE k \in 1 .. Len(l)
      <4>1. SizeIn(l, k) <= BufSize
        BY <1>5, <2>4, <3>1 DEF KnownIn
      <4>2. k \in Range(h) \/ \E j \in StartsIn(l, s) : s[j][1] = k
        BY <1>1, <3>1, <4>1 DEF InTurnIn
      <4>3. QED
        BY <1>13, <4>2
    <3>2. CASE k = q
      <4>1. 1 \in 1..n /\ L + 1 \in 1 .. L + n
        BY <1>2, <1>6
      <4>2. t[L + 1] = <<q, 1>>
        BY <1>8, <4>1
      <4>3. L + 1 \in StartsIn(m, t)
        BY <1>9, <3>2, <4>1, <4>2 DEF StartsIn
      <4>4. QED
        BY <3>2, <4>2, <4>3
    <3>3. QED
      BY <1>4, <3>1, <3>2
  <2>5. QED
    BY <2>1, <2>2, <2>3, <2>4 DEF InTurnIn
<1>16. QED
  <2>1. e = NewBytes(m, q)
    BY DEF e, n, NewBytes
  <2>2. Intact(m, h, s \o e)
    BY <1>11, <1>12, <1>15 DEF Intact, t
  <2>3. e \in Seq(Byte) /\ Len(e) >= 2
    BY <1>6, <1>7
  <2>4. QED
    BY <1>5, <2>1, <2>2, <2>3

LEMMA SkipBeyond ==
    ASSUME NEW S, NEW s \in Seq(S), NEW t \in Seq(S), NEW n \in Nat, n >= Len(s), n <= Len(s) + Len(t)
    PROVE  Skip(s \o t, n) = Skip(t, n - Len(s))
<1> DEFINE u == s \o t
           m == Len(s)
           j == n - m
<1>1. /\ u \in Seq(S) /\ Len(u) = m + Len(t)
      /\ \A i \in 1 .. Len(t) : u[m + i] = t[i]
  BY ConcatIs
<1>2. m \in Nat /\ Len(t) \in Nat /\ n \in 0 .. m + Len(t) /\ j \in 0 .. Len(t) /\ m + j = n
  <2> DEFINE k == Len(t)
  <2>1. m \in Nat /\ k \in Nat /\ n >= m /\ n <= m + k
    OBVIOUS
  <2> HIDE DEF m, k
  <2>2. QED
    BY <2>1 DEF k
<1> HIDE DEF u, m, j
<1>3. /\ Skip(u, n) \in Seq(S) /\ Len(Skip(u, n)) = Len(u) - n
      /\ \A i \in 1 .. Len(u) - n : Skip(u, n)[i] = u[i + n]
  <2>1. n \in 0 .. Len(u)
    BY <1>1, <1>2, Zenon
  <2>2. QED
    BY <1>1, <2>1, SkipIs
<1>4. /\ Skip(t, j) \in Seq(S) /\ Len(Skip(t, j)) = Len(t) - j
      /\ \A i \in 1 .. Len(t) - j : Skip(t, j)[i] = t[i + j]
  BY <1>2, SkipIs
<1>5. Len(u) - n = Len(t) - j
  <2>1. Len(u) = m + Len(t) /\ n = m + j
    BY <1>1, <1>2
  <2>2. m \in Int /\ Len(t) \in Int /\ j \in Int
    BY <1>2
  <2>3. QED
    BY <2>1, <2>2
<1>6. ASSUME NEW i \in 1 .. Len(t) - j
      PROVE  Skip(u, n)[i] = Skip(t, j)[i]
  <2>1. i + j \in 1 .. Len(t) /\ m + (i + j) = i + n
    BY <1>2
  <2>2. u[i + n] = t[i + j]
    BY <1>1, <2>1
  <2>3. QED
    BY <1>3, <1>4, <1>5, <2>2
<1>7. QED
  BY <1>3, <1>4, <1>5, <1>6, SeqEqual DEF u, j, m

LEMMA SkipWithin ==
    ASSUME NEW S, NEW s \in Seq(S), NEW t \in Seq(S), NEW n \in 0 .. Len(s)
    PROVE  Skip(s, n) \o t = Skip(s \o t, n)
<1> DEFINE u == s \o t
           v == Skip(s, n)
           w == v \o t
           m == Len(s)
<1>0. \A x, y \in Seq(S) :
         /\ x \o y \in Seq(S) /\ Len(x \o y) = Len(x) + Len(y)
         /\ \A i \in 1 .. Len(x) : (x \o y)[i] = x[i]
         /\ \A i \in 1 .. Len(y) : (x \o y)[Len(x) + i] = y[i]
  BY ConcatIs
<1>1. /\ u \in Seq(S) /\ Len(u) = m + Len(t)
      /\ \A i \in 1..m : u[i] = s[i]
      /\ \A i \in 1 .. Len(t) : u[m + i] = t[i]
  BY <1>0
<1>2. m \in Nat /\ Len(t) \in Nat /\ n \in Nat /\ n <= m
  OBVIOUS
<1>3. v \in Seq(S) /\ Len(v) = m - n /\ \A i \in 1 .. m - n : v[i] = s[i + n]
  BY SkipIs
<1> HIDE DEF u, v, m
<1>4. /\ w \in Seq(S) /\ Len(w) = Len(v) + Len(t)
      /\ \A i \in 1 .. Len(v) : w[i] = v[i]
      /\ \A i \in 1 .. Len(t) : w[Len(v) + i] = t[i]
  BY <1>0, <1>3, Zenon
<1> HIDE DEF w
<1>5. /\ Skip(u, n) \in Seq(S) /\ Len(Skip(u, n)) = Len(u) - n
      /\ \A i \in 1 .. Len(u) - n : Skip(u, n)[i] = u[i + n]
  <2>1. n \in 0 .. Len(u)
    BY <1>1, <1>2
  <2>2. QED
    BY <1>1, <2>1, SkipIs
<1>6. Len(w) = Len(u) - n /\ Len(u) - n = (m - n) + Len(t)
  BY <1>1, <1>2, <1>3, <1>4
<1>7. ASSUME NEW i \in 1 .. Len(w)
      PROVE  w[i] = Skip(u, n)[i]
  <2>0. Skip(u, n)[i] = u[i + n]
    BY <1>5, <1>6
  <2>1. CASE i <= m - n
    <3>1. i \in 1 .. Len(v) /\ i \in 1 .. m - n /\ i + n \in 1..m
      BY <1>2, <1>3, <2>1
    <3>2. QED
      BY <1>1, <1>3, <1>4, <2>0, <3>1
  <2>2. CASE i > m - n
    <3> DEFINE j == i - (m - n)
    <3>1. i \in Int /\ i <= (m - n) + Len(t)
      BY <1>2, <1>6
    <3>2. j \in 1 .. Len(t) /\ Len(v) + j = i /\ m + j = i + n
      <4> DEFINE z == Len(t)
      <4>1. m \in Nat /\ n \in Nat /\ z \in Nat /\ Len(v) = m - n
        BY <1>2, <1>3
      <4>2. i \in Int /\ i <= (m - n) + z /\ i > m - n
        BY <2>2, <3>1
      <4> HIDE DEF z
      <4>3. QED
        BY <4>1, <4>2 DEF z
    <3> HIDE DEF j
    <3>3. w[i] = t[j] /\ u[i + n] = t[j]
      BY <1>1, <1>4, <3>2
    <3>4. QED
      BY <2>0, <3>3
  <2>3. i <= m - n \/ i > m - n
    BY <1>2, <1>6
  <2>4. QED
    BY <2>1, <2>2, <2>3
<1>8. QED
  BY <1>4, <1>5, <1>6, <1>7, SeqEqual DEF u, w, v
-----------------------------------------------------------------------------
(* Time *)

LEMMA ElapsedIs ==
    ASSUME ReceiveTypeInv, NEW n \in Nat
    PROVE  /\ KeepAlive(n).ping \in [waiting : BOOLEAN, at : 0 .. TimeMod - 1]
           /\ KeepAlive(n).lastTx \in 0 .. TimeMod - 1
           /\ KeepAlive(n).asked \in BOOLEAN
           /\ KeepAlive(n).overdue => n = 0
<1> DEFINE idle == Elapsed(lastTx) >= PACKET_TX_TIMEOUT_MS \/ Elapsed(0) >= PACKET_RX_TIMEOUT_MS
           late == n = 0 /\ ping.waiting /\ Elapsed(ping.at) > MQTT_PINGRESP_TIMEOUT_MS
<1>1. CASE n = 0 /\ ~ping.waiting /\ idle
  <2>1. KeepAlive(n) = Pinged
    BY <1>1, Zenon DEF KeepAlive
  <2>2. QED
    BY <2>1, <1>1 DEF Pinged, ReceiveTypeInv
<1>2. CASE ~(n = 0 /\ ~ping.waiting /\ idle)
  <2>1. KeepAlive(n) = [overdue |-> late, ping |-> ping, lastTx |-> lastTx, asked |-> asked]
    BY <1>2, Zenon DEF KeepAlive
  <2>2. late => n = 0
    OBVIOUS
  <2> HIDE DEF late
  <2>3. QED
    BY <2>1, <2>2 DEF ReceiveTypeInv
<1>3. QED
  BY <1>1, <1>2
-----------------------------------------------------------------------------
(* Every step keeps the invariant *)

\* While the connection is up, the stream is intact.
LEMMA StreamIs ==
    ASSUME ReceiveInv
    PROVE  /\ Stream \in Seq(Byte) /\ Len(Stream) = Len(buf) + Len(net)
           /\ buf \in Seq(Byte) /\ net \in Seq(Byte) /\ Len(buf) \in Nat /\ Len(net) \in Nat
           /\ lens \in Seq(Lengths) /\ Len(lens) <= MaxPackets /\ Len(lens) \in Nat
           /\ handed \in Seq(1 .. Len(lens))
           /\ phase # "failed" => Intact(lens, handed, Stream) /\ WholeIn(lens, Stream) /\ BytesIn(lens, Stream)
           /\ phase = "connack" => Stream = net
<1>1. buf \in Seq(Byte) /\ net \in Seq(Byte)
  BY DEF ReceiveInv, ReceiveTypeInv
<1>2. Stream \in Seq(Byte) /\ Len(Stream) = Len(buf) + Len(net)
  BY <1>1, ConcatIs DEF Stream
<1>3. lens \in Seq(Lengths) /\ Len(lens) <= MaxPackets /\ handed \in Seq(1 .. Len(lens))
  BY DEF ReceiveInv, ReceiveTypeInv
<1>4. phase # "failed" => Intact(lens, handed, Stream) /\ WholeIn(lens, Stream) /\ BytesIn(lens, Stream)
  BY DEF ReceiveInv, Intact
<1>5. phase = "connack" => Stream = net
  <2> SUFFICES ASSUME phase = "connack" PROVE Stream = net
    OBVIOUS
  <2>1. buf = <<>>
    BY DEF ReceiveInv, ConnackInv
  <2>2. QED
    BY <1>1, <2>1 DEF Stream
<1>6. QED
  BY <1>1, <1>2, <1>3, <1>4, <1>5

LEMMA ReceiveInitIs == ReceiveInit => ReceiveInv
<1> SUFFICES ASSUME ReceiveInit PROVE ReceiveInv
  OBVIOUS
<1>1. /\ net = <<>> /\ buf = <<>> /\ phase = "connack" /\ status = "Success" /\ now = 0 /\ lastTx = 0
      /\ ping = [waiting |-> FALSE, at |-> 0] /\ asked = FALSE /\ closed = FALSE /\ lens = <<>> /\ handed = <<>>
  BY DEF ReceiveInit
<1>2. 0 \in 0 .. TimeMod - 1 /\ Len(<<>>) = 0 /\ 0 <= BufSize /\ 0 <= MaxPackets
  BY ConstantsAre
<1>3. ReceiveTypeInv
  <2>1. <<>> \in Seq(Byte) /\ <<>> \in Seq(Lengths) /\ <<>> \in Seq(1 .. Len(lens))
    OBVIOUS
  <2>2. ping \in [waiting : BOOLEAN, at : 0 .. TimeMod - 1]
    BY <1>1, <1>2
  <2>3. QED
    BY <1>1, <1>2, <2>1, <2>2 DEF ReceiveTypeInv
<1>4. Stream = <<>>
  BY <1>1 DEF Stream
<1>5. Intact(lens, handed, Stream)
  <2>1. WholeIn(<<>>, <<>>)
    BY DEF WholeIn
  <2>2. BytesIn(<<>>, <<>>)
    BY DEF BytesIn
  <2>3. InTurnIn(<<>>, <<>>, <<>>)
    BY DEF InTurnIn, StartsIn
  <2>4. QED
    BY <1>1, <1>4, <2>1, <2>2, <2>3 DEF Intact
<1>6. ConnackInv /\ LoopInv
  BY <1>1 DEF ConnackInv, LoopInv
<1>7. QED
  BY <1>3, <1>5, <1>6 DEF ReceiveInv

\* Once the connection has failed, only the types are left.
LEMMA FailedKeeps ==
    ASSUME ReceiveTypeInv', phase' = "failed"
    PROVE  ReceiveInv'
  BY DEF ReceiveInv, ConnackInv, LoopInv

\* Steps that leave the stream alone.
LEMMA StreamUntouched ==
    ASSUME ReceiveInv, ReceiveTypeInv', UNCHANGED <<net, buf, phase, lens, handed, asked>>
    PROVE  ReceiveInv'
<1>1. Stream' = Stream
  BY DEF Stream
<1>2. phase' # "failed" => Intact(lens', handed', Stream')
  BY <1>1 DEF ReceiveInv
<1>3. ConnackInv'
  BY DEF ReceiveInv, ConnackInv
<1>4. LoopInv'
  BY <1>1 DEF ReceiveInv, LoopInv
<1>5. QED
  BY <1>2, <1>3, <1>4 DEF ReceiveInv

LEMMA ReceiveConnackKeeps ==
    ASSUME ReceiveInv, ReceiveConnack
    PROVE  ReceiveInv'
<1> DEFINE n == SizeIn(lens, CONNACK)
<1>1. /\ phase = "connack" /\ IncomingPacket.status = "Success" /\ net[1][1] = CONNACK
      /\ net' = Skip(net, IncomingPacket.total) /\ buf' = <<>> /\ phase' = "loop"
      /\ ping' = [waiting |-> FALSE, at |-> 0]
      /\ UNCHANGED <<status, now, lastTx, asked, closed, lens, handed>>
  BY DEF ReceiveConnack
<1>2. Stream = net /\ net \in Seq(Byte) /\ Intact(lens, handed, net) /\ WholeIn(lens, net) /\ BytesIn(lens, net)
  BY <1>1, StreamIs
<1>3. net # <<>>
  <2> SUFFICES ASSUME net = <<>> PROVE FALSE
    OBVIOUS
  <2>1. IncomingPacket = [status |-> "NoDataAvailable"]
    BY DEF IncomingPacket, ProcessIncomingPacket
  <2>2. QED
    BY <1>1, <2>1
<1>4. IncomingPacket.total = n
  <2>1. IncomingPacket =
           IF Len(net) > Len(Code[LengthIn(lens, net[1][1])])
           THEN [status |-> "Success", total |-> SizeIn(lens, net[1][1])]
           ELSE [status |-> "NeedMoreBytes"]
    BY <1>2, <1>3, StreamIs, ParseIs DEF IncomingPacket
  <2>2. QED
    BY <1>1, <2>1
<1>5. CONNACK \notin 1 .. Len(lens)
  BY StreamIs, ConstantsAre
<1>6. /\ n \in 0 .. Len(net)
      /\ Intact(lens, handed, Skip(net, n))
      /\ \A i \in 1 .. Len(net) - n : Skip(net, n)[i] = net[i + n]
  BY <1>1, <1>2, <1>3, <1>5, StreamIs, HeadLeaves
<1>7. net' \in Seq(Byte) /\ Len(net') = Len(net) - n
  BY <1>1, <1>2, <1>4, <1>6, SkipIs
<1>8. Stream' = net'
  BY <1>1, <1>7 DEF Stream
<1>9. ReceiveTypeInv'
  <2>1. 0 \in 0 .. TimeMod - 1 /\ 0 <= BufSize
    BY ConstantsAre
  <2>2. ping' \in [waiting : BOOLEAN, at : 0 .. TimeMod - 1]
    BY <1>1, <2>1
  <2>3. QED
    BY <1>1, <1>7, <2>1, <2>2 DEF ReceiveInv, ReceiveTypeInv
<1>10. ASSUME NEW i \in DOMAIN Stream'
       PROVE  Stream'[i][1] # CONNACK
  <2> HIDE DEF n
  <2>0. Len(net) \in Nat /\ n \in Nat /\ DOMAIN net = 1 .. Len(net)
    BY <1>2, <1>6
  <2>1. i \in 1 .. Len(net) - n
    BY <1>7, <1>8, <1>10
  <2>2. i + n \in DOMAIN net /\ ~(i + n <= n)
    BY <2>0, <2>1
  <2>3. net[i + n][1] # CONNACK
    BY <1>1, <2>2 DEF ReceiveInv, ConnackInv, n
  <2>4. Stream'[i] = net[i + n]
    BY <1>1, <1>4, <1>6, <1>8, <2>1
  <2>5. QED
    BY <2>3, <2>4
<1>11. LoopInv'
  <2>1. Len(buf') < BufSize
    BY <1>1, ConstantsAre
  <2>2. QED
    BY <1>10, <2>1 DEF LoopInv
<1>12. ConnackInv'
  BY <1>1 DEF ConnackInv
<1>13. Intact(lens', handed', Stream')
  BY <1>1, <1>4, <1>6, <1>8
<1>14. QED
  BY <1>9, <1>11, <1>12, <1>13 DEF ReceiveInv

LEMMA ConnackFailsKeeps ==
    ASSUME ReceiveInv, ConnackFails
    PROVE  ReceiveInv'
<1>1. ReceiveTypeInv'
  BY DEF ReceiveInv, ReceiveTypeInv, ConnackFails
<1>2. QED
  BY <1>1, FailedKeeps DEF ConnackFails

LEMMA RecvFailsKeeps ==
    ASSUME ReceiveInv, RecvFails
    PROVE  ReceiveInv'
<1>1. ReceiveTypeInv'
  BY DEF ReceiveInv, ReceiveTypeInv, RecvFails
<1>2. QED
  BY <1>1, FailedKeeps DEF RecvFails

LEMMA BrokerClosesKeeps ==
    ASSUME ReceiveInv, BrokerCloses
    PROVE  ReceiveInv'
<1>1. ReceiveTypeInv'
  BY DEF ReceiveInv, ReceiveTypeInv, BrokerCloses
<1>2. QED
  BY <1>1, StreamUntouched DEF BrokerCloses

LEMMA TickKeeps ==
    ASSUME ReceiveInv, Tick
    PROVE  ReceiveInv'
<1>1. now' \in 0 .. TimeMod - 1
  <2>1. now \in Nat /\ now' = (now + 1) % TimeMod
    BY ConstantsAre DEF ReceiveInv, ReceiveTypeInv, Tick
  <2>2. QED
    BY <2>1, ConstantsAre
<1>2. ReceiveTypeInv'
  BY <1>1 DEF ReceiveInv, ReceiveTypeInv, Tick
<1>3. QED
  BY <1>2, StreamUntouched DEF Tick

LEMMA NothingKeeps ==
    ASSUME ReceiveInv, UNCHANGED receiveVars
    PROVE  ReceiveInv'
<1>1. ReceiveTypeInv'
  BY DEF ReceiveInv, ReceiveTypeInv, receiveVars
<1>2. QED
  BY <1>1, StreamUntouched DEF receiveVars

\* The bytes of packet q.
LEMMA NewBytesAre ==
    ASSUME NEW l \in Seq(Lengths), Len(l) <= MaxPackets, NEW q \in KnownIn(l)
    PROVE  /\ NewBytes(l, q) \in Seq(Byte) /\ Len(NewBytes(l, q)) = SizeIn(l, q)
           /\ SizeIn(l, q) \in Nat /\ SizeIn(l, q) >= 2
           /\ \A i \in 1 .. SizeIn(l, q) : NewBytes(l, q)[i] = <<q, i>>
<1> DEFINE n == SizeIn(l, q)
<1>1. n \in Nat /\ n >= 2
  BY SizeIs
<1>2. q \in Names
  BY ConstantsAre DEF KnownIn
<1> HIDE DEF n
<1>3. NewBytes(l, q) = [i \in 1..n |-> <<q, i>>]
  BY DEF NewBytes, n
<1>4. \A i \in 1..n : <<q, i>> \in Byte
  BY <1>1, <1>2 DEF Byte
<1>5. NewBytes(l, q) \in Seq(Byte) /\ Len(NewBytes(l, q)) = n
  BY <1>1, <1>3, <1>4
<1>6. QED
  BY <1>1, <1>3, <1>5 DEF n

\* A packet joins behind what is under way: the CONNACK as the first one, one
\* with a number or a PINGRESP behind others.
LEMMA JoinKeeps ==
    ASSUME ReceiveInv, NEW q,
           net' = net \o NewBytes(lens', q),
           \/ q = CONNACK /\ phase = "connack" /\ net = <<>> /\ lens' = lens
           \/ q = PINGRESP /\ phase # "connack" /\ lens' = lens
           \/ /\ q = Len(lens) + 1 /\ Len(lens) < MaxPackets
              /\ phase # "connack" \/ net # <<>>
              /\ \E length \in Lengths : lens' = Append(lens, length),
           asked' \in BOOLEAN, asked' => asked,
           UNCHANGED <<buf, phase, status, now, lastTx, ping, closed, handed>>
    PROVE  ReceiveInv'
<1> DEFINE e == NewBytes(lens', q)
           n == SizeIn(lens', q)
<1>1. /\ buf \in Seq(Byte) /\ net \in Seq(Byte) /\ lens \in Seq(Lengths) /\ Len(lens) <= MaxPackets
      /\ handed \in Seq(1 .. Len(lens)) /\ Len(lens) \in Nat
      /\ Stream \in Seq(Byte) /\ Len(Stream) \in Nat
  BY StreamIs
<1>2. /\ lens' \in Seq(Lengths) /\ Len(lens') <= MaxPackets /\ q \in KnownIn(lens')
      /\ Len(lens') \in Nat /\ Len(lens) <= Len(lens')
  <2>1. CASE lens' = lens /\ q \in {CONNACK, PINGRESP}
    BY <1>1, <2>1 DEF KnownIn
  <2>2. CASE /\ q = Len(lens) + 1 /\ Len(lens) < MaxPackets
             /\ \E length \in Lengths : lens' = Append(lens, length)
    <3>1. lens' \in Seq(Lengths) /\ Len(lens') = Len(lens) + 1
      BY <1>1, <2>2
    <3>2. q \in 1 .. Len(lens') /\ Len(lens') <= MaxPackets /\ Len(lens) <= Len(lens')
      BY <1>1, <2>2, <3>1, ConstantsAre
    <3>3. QED
      BY <3>1, <3>2 DEF KnownIn
  <2>3. QED
    BY <2>1, <2>2
<1>3. /\ e \in Seq(Byte) /\ Len(e) = n /\ n \in Nat /\ n >= 2
      /\ \A i \in 1..n : e[i] = <<q, i>>
  BY <1>2, NewBytesAre
<1> HIDE DEF e
<1>4. net' \in Seq(Byte) /\ Len(net') = Len(net) + n
      /\ (\A i \in 1 .. Len(net) : net'[i] = net[i])
      /\ (\A i \in 1 .. Len(e) : net'[Len(net) + i] = e[i])
  <2>1. net' = net \o e
    BY DEF e
  <2>2. \A x, y \in Seq(Byte) :
           /\ x \o y \in Seq(Byte) /\ Len(x \o y) = Len(x) + Len(y)
           /\ \A i \in 1 .. Len(x) : (x \o y)[i] = x[i]
           /\ \A i \in 1 .. Len(y) : (x \o y)[Len(x) + i] = y[i]
    BY ConcatIs
  <2>3. /\ net \o e \in Seq(Byte) /\ Len(net \o e) = Len(net) + Len(e)
        /\ \A i \in 1 .. Len(net) : (net \o e)[i] = net[i]
        /\ \A i \in 1 .. Len(e) : (net \o e)[Len(net) + i] = e[i]
    BY <1>1, <1>3, <2>2, Zenon
  <2>4. QED
    BY <1>3, <2>1, <2>3, Zenon
<1>5. ReceiveTypeInv'
  <2>1. handed' \in Seq(1 .. Len(lens'))
    <3>1. \A i \in 1 .. Len(lens) : i \in 1 .. Len(lens')
      BY <1>1, <1>2
    <3>2. handed' = handed
      OBVIOUS
    <3>3. QED
      BY <1>1, <3>1, <3>2
  <2>2. QED
    BY <1>2, <1>4, <2>1 DEF ReceiveInv, ReceiveTypeInv
<1>6. CASE phase = "failed"
  BY <1>5, <1>6, FailedKeeps
<1>7. CASE phase # "failed"
  <2>1. Intact(lens, handed, Stream)
    BY <1>7, StreamIs
  <2>2. \/ q \in {PINGRESP, CONNACK} /\ lens' = lens
        \/ q = Len(lens) + 1 /\ \E length \in Lengths : lens' = Append(lens, length)
    OBVIOUS
  <2>3. Intact(lens', handed, Stream \o e) /\ \A p \in KnownIn(lens) : SizeIn(lens', p) = SizeIn(lens, p)
    BY <1>1, <1>2, <2>1, <2>2, PacketJoins DEF e
  <2>4. Stream' = Stream \o e
    <3>1. Stream' = buf \o (net \o e)
      BY DEF Stream, e
    <3>2. \A x, y, z \in Seq(Byte) : (x \o y) \o z = x \o (y \o z)
      BY ConcatAssociative
    <3>3. (buf \o net) \o e = buf \o (net \o e)
      BY <1>1, <1>3, <3>2, Zenon
    <3>4. QED
      BY <3>1, <3>3 DEF Stream
  <2>5. SizeIn(lens', CONNACK) = SizeIn(lens, CONNACK)
    BY <2>3 DEF KnownIn
  <2>6. ConnackInv'
    <3> SUFFICES ASSUME phase = "connack"
                 PROVE  /\ buf' = <<>> /\ handed' = <<>> /\ ~asked'
                        /\ net' = <<>> => lens' = <<>>
                        /\ net' # <<>> => net'[1][1] = CONNACK
                        /\ \A i \in DOMAIN net' : net'[i][1] = CONNACK => i <= SizeIn(lens', CONNACK)
      BY DEF ConnackInv
    <3>1. buf = <<>> /\ handed = <<>> /\ ~asked
      BY DEF ReceiveInv, ConnackInv
    <3>2. Len(net) \in Nat /\ DOMAIN net' = 1 .. Len(net) + n /\ net' # <<>>
      BY <1>1, <1>3, <1>4
    <3>3. CASE q = CONNACK /\ net = <<>> /\ lens' = lens
      <4>1. Len(net) = 0 /\ 1 \in 1 .. Len(e) /\ 0 + 1 = 1
        BY <1>3, <3>3
      <4>2. net'[1] = e[1] /\ e[1] = <<q, 1>>
        BY <1>3, <1>4, <4>1
      <4>3. DOMAIN net' = 1..n
        BY <3>2, <4>1, <1>3
      <4>4. n = SizeIn(lens', CONNACK)
        BY <3>3
      <4> HIDE DEF n
      <4>5. \A i \in DOMAIN net' : i <= n
        BY <4>3
      <4>6. net'[1][1] = CONNACK
        BY <3>3, <4>2
      <4>7. buf' = buf /\ handed' = handed /\ ~asked'
        BY <3>1
      <4>8. QED
        BY <3>1, <3>2, <4>4, <4>5, <4>6, <4>7
    <3>4. CASE q # CONNACK /\ net # <<>>
      <4>1. 1 \in 1 .. Len(net) /\ net'[1] = net[1]
        BY <1>1, <1>4, <3>4
      <4>2. net[1][1] = CONNACK
        BY <3>4 DEF ReceiveInv, ConnackInv
      <4>3. ASSUME NEW i \in DOMAIN net', net'[i][1] = CONNACK
            PROVE  i <= SizeIn(lens', CONNACK)
        <5>1. i \in 1 .. Len(net)
          <6> SUFFICES ASSUME i \notin 1 .. Len(net) PROVE FALSE
            OBVIOUS
          <6>1. i - Len(net) \in 1..n /\ Len(net) + (i - Len(net)) = i
            <7> DEFINE m == Len(net)
            <7>1. m \in Nat /\ n \in Nat /\ i \in 1 .. m + n /\ i \notin 1..m
              BY <1>3, <3>2
            <7> HIDE DEF m, n
            <7>2. i - m \in 1..n /\ m + (i - m) = i
              BY <7>1
            <7>3. QED
              BY <7>2 DEF m
          <6>2. net'[i] = <<q, i - Len(net)>>
            BY <1>3, <1>4, <6>1
          <6>3. QED
            BY <3>4, <4>3, <6>2
        <5>2. net[i][1] = CONNACK /\ i \in DOMAIN net
          BY <1>1, <1>4, <4>3, <5>1
        <5>3. QED
          BY <2>5, <5>2 DEF ReceiveInv, ConnackInv
      <4>4. QED
        BY <3>1, <3>2, <4>1, <4>2, <4>3
    <3>5. CONNACK # Len(lens) + 1 \/ ~(Len(lens) < MaxPackets)
      BY <1>1, ConstantsAre
    <3>6. QED
      BY <3>3, <3>4, <3>5
  <2>7. LoopInv'
    <3> SUFFICES ASSUME phase = "loop"
                 PROVE  Len(buf') < BufSize /\ \A i \in DOMAIN Stream' : Stream'[i][1] # CONNACK
      BY DEF LoopInv
    <3>1. Len(buf) < BufSize /\ \A i \in DOMAIN Stream : Stream[i][1] # CONNACK
      BY DEF ReceiveInv, LoopInv
    <3>2. q # CONNACK
      BY <1>1, ConstantsAre
    <3>3. /\ DOMAIN Stream' = 1 .. Len(Stream) + n /\ DOMAIN Stream = 1 .. Len(Stream)
          /\ \A i \in 1 .. Len(Stream) : Stream'[i] = Stream[i]
          /\ \A i \in 1 .. Len(e) : Stream'[Len(Stream) + i] = e[i]
      BY <1>1, <1>3, <2>4, ConcatIs
    <3>4. ASSUME NEW i \in DOMAIN Stream'
          PROVE  Stream'[i][1] # CONNACK
      <4>1. CASE i \in 1 .. Len(Stream)
        BY <3>1, <3>3, <4>1
      <4>2. CASE i \notin 1 .. Len(Stream)
        <5>1. i - Len(Stream) \in 1..n /\ Len(Stream) + (i - Len(Stream)) = i
          BY <1>1, <1>3, <3>3, <4>2
        <5>2. Stream'[i] = <<q, i - Len(Stream)>>
          BY <1>3, <3>3, <5>1
        <5>3. QED
          BY <3>2, <5>2
      <4>3. QED
        BY <4>1, <4>2
    <3>5. QED
      BY <3>1, <3>4
  <2>8. QED
    BY <1>5, <2>3, <2>4, <2>6, <2>7 DEF ReceiveInv
<1>8. QED
  BY <1>6, <1>7

LEMMA BrokerAcceptsKeeps ==
    ASSUME ReceiveInv, BrokerAccepts
    PROVE  ReceiveInv'
<1>1. /\ phase = "connack" /\ net = <<>> /\ net' = Encode(CONNACK)
      /\ UNCHANGED <<buf, phase, status, now, lastTx, ping, asked, closed, lens, handed>>
  BY DEF BrokerAccepts
<1>2. Encode(CONNACK) = NewBytes(lens', CONNACK)
  BY <1>1 DEF Encode, NewBytes, Size, SizeIn, Length, LengthIn
<1>3. NewBytes(lens', CONNACK) \in Seq(Byte)
  <2>1. lens' \in Seq(Lengths) /\ Len(lens') <= MaxPackets /\ CONNACK \in KnownIn(lens')
    BY <1>1, StreamIs DEF KnownIn
  <2>2. QED
    BY <2>1, NewBytesAre
<1>4. net' = net \o NewBytes(lens', CONNACK)
  BY <1>1, <1>2, <1>3
<1>5. asked' \in BOOLEAN /\ asked' = asked
  BY <1>1 DEF ReceiveInv, ReceiveTypeInv
<1>6. QED
  BY <1>1, <1>4, <1>5, JoinKeeps

LEMMA BrokerSendsKeeps ==
    ASSUME ReceiveInv, NEW length \in Lengths, BrokerSends(length)
    PROVE  ReceiveInv'
<1> DEFINE q == Len(lens) + 1
<1>1. /\ phase = "loop" \/ net # <<>>
      /\ Len(lens) < MaxPackets /\ lens' = Append(lens, length)
      /\ net' = net \o [i \in 1 .. 1 + Len(Code[length]) + length |-> <<q, i>>]
      /\ UNCHANGED <<buf, phase, status, now, lastTx, ping, asked, closed, handed>>
  BY DEF BrokerSends
<1>2. lens \in Seq(Lengths) /\ Len(lens) \in Nat
  BY StreamIs
<1>3. lens'[q] = length
  BY <1>1, <1>2
<1>4. q # PINGRESP /\ q # CONNACK
  BY <1>1, <1>2, ConstantsAre
<1> HIDE DEF q
<1>5. LengthIn(lens', q) = length
  BY <1>3, <1>4 DEF LengthIn
<1>6. NewBytes(lens', q) = [i \in 1 .. 1 + Len(Code[length]) + length |-> <<q, i>>]
  BY <1>5 DEF NewBytes, SizeIn
<1>7. asked' \in BOOLEAN /\ asked' = asked
  BY <1>1 DEF ReceiveInv, ReceiveTypeInv
<1>8. net' = net \o NewBytes(lens', q)
  BY <1>1, <1>6
<1>9. /\ q = Len(lens) + 1 /\ Len(lens) < MaxPackets
      /\ phase # "connack" \/ net # <<>>
      /\ \E z \in Lengths : lens' = Append(lens, z)
  BY <1>1 DEF q
<1>10. UNCHANGED <<buf, phase, status, now, lastTx, ping, closed, handed>>
  BY <1>1
<1>11. QED
  BY <1>7, <1>8, <1>9, <1>10, JoinKeeps, Zenon

LEMMA BrokerAnswersPingKeeps ==
    ASSUME ReceiveInv, BrokerAnswersPing
    PROVE  ReceiveInv'
<1>1. /\ asked /\ asked' = FALSE /\ net' = net \o Encode(PINGRESP)
      /\ UNCHANGED <<buf, phase, status, now, lastTx, ping, closed, lens, handed>>
  BY DEF BrokerAnswersPing
<1>2. Encode(PINGRESP) = NewBytes(lens', PINGRESP)
  BY <1>1 DEF Encode, NewBytes, Size, SizeIn, Length, LengthIn
<1>3. phase # "connack"
  BY <1>1 DEF ReceiveInv, ConnackInv
<1>4. QED
  BY <1>1, <1>2, <1>3, JoinKeeps

\* The iteration leaves the stream as it is: the bytes that came stay in the buffer.
LEMMA BytesStay ==
    ASSUME ReceiveInv, phase = "loop", phase' = "loop", UNCHANGED <<lens, handed>>,
           Stream' = Stream, Len(buf') < BufSize, ReceiveTypeInv'
    PROVE  ReceiveInv'
<1>1. Intact(lens', handed', Stream')
  BY DEF ReceiveInv
<1>2. ConnackInv'
  BY DEF ConnackInv
<1>3. LoopInv'
  BY DEF ReceiveInv, LoopInv
<1>4. QED
  BY <1>1, <1>2, <1>3 DEF ReceiveInv

\* The iteration takes the first packet off the stream.
LEMMA PacketGoes ==
    ASSUME ReceiveInv, phase = "loop", phase' = "loop", UNCHANGED lens, Stream # <<>>,
           \/ (Stream[1][1] \notin 1 .. Len(lens) \/ SizeIn(lens, Stream[1][1]) > BufSize) /\ handed' = handed
           \/ /\ Stream[1][1] \in 1 .. Len(lens) /\ SizeIn(lens, Stream[1][1]) <= BufSize
              /\ handed' = Append(handed, Stream[1][1]),
           Stream' = Skip(Stream, SizeIn(lens, Stream[1][1])), Len(buf') < BufSize, ReceiveTypeInv'
    PROVE  ReceiveInv'
<1> DEFINE n == SizeIn(lens, Stream[1][1])
<1>1. /\ Stream \in Seq(Byte) /\ lens \in Seq(Lengths) /\ Len(lens) <= MaxPackets
      /\ handed \in Seq(1 .. Len(lens)) /\ Intact(lens, handed, Stream)
  BY StreamIs
<1>2. handed' \in Seq(1 .. Len(lens))
  BY DEF ReceiveTypeInv
<1>3. /\ n \in 0 .. Len(Stream) /\ Intact(lens, handed', Skip(Stream, n))
      /\ \A i \in 1 .. Len(Stream) - n : Skip(Stream, n)[i] = Stream[i + n]
  BY <1>1, <1>2, HeadLeaves
<1>4. Intact(lens', handed', Stream')
  BY <1>3
<1>5. Len(Stream') = Len(Stream) - n /\ Stream' \in Seq(Byte)
  BY <1>1, <1>3, SkipIs
<1>6. ASSUME NEW i \in DOMAIN Stream'
      PROVE  Stream'[i][1] # CONNACK
  <2>1. Stream'[i] = Stream[i + n] /\ i \in 1 .. Len(Stream) - n
    BY <1>3, <1>5
  <2> HIDE DEF n
  <2>2. i + n \in DOMAIN Stream
    BY <1>1, <1>3, <2>1
  <2>3. QED
    BY <2>1, <2>2 DEF ReceiveInv, LoopInv
<1>7. LoopInv' /\ ConnackInv'
  BY <1>6 DEF LoopInv, ConnackInv
<1>8. QED
  BY <1>4, <1>7 DEF ReceiveInv

\* What recv() has brought: a beginning of the stream, and what is parsed from it.
Received(n, b) ==
    /\ b \in Seq(Byte) /\ Len(b) = Len(buf) + n /\ Len(b) \in Nat
    /\ Skip(net, n) \in Seq(Byte) /\ b \o Skip(net, n) = Stream
    /\ b = <<>> => ProcessIncomingPacket(b) = [status |-> "NoDataAvailable"]
    /\ b # <<>> =>
          /\ Stream # <<>> /\ b[1] = Stream[1]
          /\ SizeIn(lens, Stream[1][1]) \in 0 .. Len(Stream) /\ SizeIn(lens, Stream[1][1]) >= 2
          /\ Len(Code[LengthIn(lens, Stream[1][1])]) \in 1..4
          /\ ProcessIncomingPacket(b) =
                IF Len(b) > Len(Code[LengthIn(lens, Stream[1][1])])
                THEN [status |-> "Success", total |-> SizeIn(lens, Stream[1][1])]
                ELSE [status |-> "NeedMoreBytes"]

LEMMA BufferIs ==
    ASSUME ReceiveInv, phase = "loop", NEW n \in 0 .. Len(net), NEW b, b = buf \o Take(net, n)
    PROVE  Received(n, b)
<1> DEFINE v == Take(net, n)
           w == Skip(net, n)
<1>1. /\ Stream \in Seq(Byte) /\ lens \in Seq(Lengths) /\ Len(lens) <= MaxPackets
      /\ buf \in Seq(Byte) /\ net \in Seq(Byte) /\ Len(buf) \in Nat /\ Len(net) \in Nat
      /\ WholeIn(lens, Stream) /\ BytesIn(lens, Stream)
  BY StreamIs
<1>2. v \in Seq(Byte) /\ Len(v) = n
  BY <1>1, TakeIs
<1>3. w \in Seq(Byte) /\ Len(w) = Len(net) - n
  BY <1>1, SkipIs
<1>4. b \o w = Stream
  <2>1. (buf \o v) \o w = buf \o net
    BY <1>1, StreamMoves
  <2>2. QED
    BY <2>1 DEF Stream
<1> HIDE DEF v, w
<1>5. \A x, y \in Seq(Byte) :
         /\ x \o y \in Seq(Byte) /\ Len(x \o y) = Len(x) + Len(y)
         /\ \A i \in 1 .. Len(x) : (x \o y)[i] = x[i]
  BY ConcatIs
<1>6. b \in Seq(Byte) /\ Len(b) = Len(buf) + Len(v)
  <2>1. b = buf \o v
    BY DEF v
  <2>2. QED
    BY <1>1, <1>2, <1>5, <2>1, Zenon
<1>7. Len(b) = Len(buf) + n /\ Len(b) \in Nat
  BY <1>1, <1>2, <1>6
<1>8. Len(Stream) = Len(b) + Len(w) /\ \A i \in 1 .. Len(b) : Stream[i] = b[i]
  BY <1>3, <1>4, <1>5, <1>6, Zenon
<1>9. Len(b) <= Len(Stream)
  <2>1. Len(w) \in Nat
    BY <1>3
  <2>2. QED
    BY <1>7, <1>8, <2>1
<1>10. ASSUME b = <<>> PROVE ProcessIncomingPacket(b) = [status |-> "NoDataAvailable"]
  BY <1>10 DEF ProcessIncomingPacket
<1>11. ASSUME b # <<>>
       PROVE  /\ Stream # <<>> /\ b[1] = Stream[1]
              /\ SizeIn(lens, Stream[1][1]) \in 0 .. Len(Stream) /\ SizeIn(lens, Stream[1][1]) >= 2
              /\ Len(Code[LengthIn(lens, Stream[1][1])]) \in 1..4
              /\ ProcessIncomingPacket(b) =
                       IF Len(b) > Len(Code[LengthIn(lens, Stream[1][1])])
                       THEN [status |-> "Success", total |-> SizeIn(lens, Stream[1][1])]
                       ELSE [status |-> "NeedMoreBytes"]
  <2>1. Len(b) >= 1
    BY <1>6, <1>7, <1>11
  <2>2. Stream # <<>> /\ b[1] = Stream[1]
    <3>1. 1 \in 1 .. Len(b) /\ Len(Stream) >= 1
      BY <1>7, <1>9, <2>1, <1>1
    <3>2. QED
      BY <1>1, <1>8, <3>1
  <2>3. /\ Stream[1][1] \in KnownIn(lens) /\ SizeIn(lens, Stream[1][1]) \in Nat
        /\ SizeIn(lens, Stream[1][1]) >= 2 /\ SizeIn(lens, Stream[1][1]) <= Len(Stream)
    BY <1>1, <2>2, HeadPacket
  <2>4. Len(Code[LengthIn(lens, Stream[1][1])]) \in 1..4
    BY <1>1, <2>3, SizeIs
  <2>5. ProcessIncomingPacket(b) =
              IF Len(b) > Len(Code[LengthIn(lens, b[1][1])])
              THEN [status |-> "Success", total |-> SizeIn(lens, b[1][1])]
              ELSE [status |-> "NeedMoreBytes"]
    BY <1>1, <1>6, <1>8, <1>9, <1>11, ParseIs
  <2>6. SizeIn(lens, Stream[1][1]) \in 0 .. Len(Stream)
    BY <1>1, <2>3
  <2>7. QED
    BY <2>2, <2>3, <2>4, <2>5, <2>6
<1>12. QED
  BY <1>3, <1>4, <1>6, <1>7, <1>10, <1>11 DEF w, Received

\* receiveSingleIteration(), whatever recv() returns.
LEMMA IterationKeeps ==
    ASSUME ReceiveInv, NEW n \in 0 .. Len(net), ReceiveSingleIteration(n)
    PROVE  ReceiveInv'
<1> DEFINE p == Stream[1][1]
           total == SizeIn(lens, p)
<1>1. /\ phase = "loop" /\ n <= BufSize - Len(buf) /\ (n = 0 => Len(buf) < BufSize)
      /\ UNCHANGED <<now, closed, lens>>
  BY DEF ReceiveSingleIteration
<1>2. PICK b \in {buf \o Take(net, n)}, k \in {KeepAlive(n)} : \E parsed \in {ProcessIncomingPacket(b)} :
          /\ lastTx' = k.lastTx /\ asked' = k.asked
          /\ \/ /\ k.overdue \/ parsed.status # "Success"
                /\ status' = IF k.overdue THEN "KeepAliveTimeout"
                             ELSE IF parsed.status = "NoDataAvailable" THEN "Success"
                             ELSE parsed.status
                /\ buf' = b /\ net' = Skip(net, n) /\ ping' = k.ping
                /\ UNCHANGED <<phase, handed>>
             \/ /\ ~k.overdue /\ parsed.status = "Success" /\ Oversized(parsed.total)
                /\ Discard(n, parsed.total - Len(b))
                /\ ping' = k.ping
                /\ UNCHANGED handed
             \/ /\ ~k.overdue /\ parsed.status = "Success" /\ ~Oversized(parsed.total)
                /\ ~Complete(parsed.total, b)
                /\ status' = "NeedMoreBytes"
                /\ buf' = b /\ net' = Skip(net, n) /\ ping' = k.ping
                /\ UNCHANGED <<phase, handed>>
             \/ /\ ~k.overdue /\ parsed.status = "Success" /\ ~Oversized(parsed.total)
                /\ Complete(parsed.total, b)
                /\ HandOver(b, parsed.total, k)
                /\ net' = Skip(net, n)
                /\ UNCHANGED phase
  BY DEF ReceiveSingleIteration
<1>3. PICK parsed \in {ProcessIncomingPacket(b)} :
          /\ lastTx' = k.lastTx /\ asked' = k.asked
          /\ \/ /\ k.overdue \/ parsed.status # "Success"
                /\ status' = IF k.overdue THEN "KeepAliveTimeout"
                             ELSE IF parsed.status = "NoDataAvailable" THEN "Success"
                             ELSE parsed.status
                /\ buf' = b /\ net' = Skip(net, n) /\ ping' = k.ping
                /\ UNCHANGED <<phase, handed>>
             \/ /\ ~k.overdue /\ parsed.status = "Success" /\ Oversized(parsed.total)
                /\ Discard(n, parsed.total - Len(b))
                /\ ping' = k.ping
                /\ UNCHANGED handed
             \/ /\ ~k.overdue /\ parsed.status = "Success" /\ ~Oversized(parsed.total)
                /\ ~Complete(parsed.total, b)
                /\ status' = "NeedMoreBytes"
                /\ buf' = b /\ net' = Skip(net, n) /\ ping' = k.ping
                /\ UNCHANGED <<phase, handed>>
             \/ /\ ~k.overdue /\ parsed.status = "Success" /\ ~Oversized(parsed.total)
                /\ Complete(parsed.total, b)
                /\ HandOver(b, parsed.total, k)
                /\ net' = Skip(net, n)
                /\ UNCHANGED phase
  BY <1>2
<1>4. /\ b \in Seq(Byte) /\ Len(b) = Len(buf) + n /\ Len(b) \in Nat
      /\ Skip(net, n) \in Seq(Byte) /\ b \o Skip(net, n) = Stream
      /\ b = <<>> => parsed = [status |-> "NoDataAvailable"]
      /\ b # <<>> =>
            /\ Stream # <<>> /\ b[1] = Stream[1] /\ total \in 0 .. Len(Stream) /\ total >= 2
            /\ Len(Code[LengthIn(lens, p)]) \in 1..4
            /\ parsed = IF Len(b) > Len(Code[LengthIn(lens, p)])
                        THEN [status |-> "Success", total |-> total]
                        ELSE [status |-> "NeedMoreBytes"]
  <2>1. b = buf \o Take(net, n) /\ parsed = ProcessIncomingPacket(b)
    OBVIOUS
  <2>0. Received(n, b)
    BY <1>1, <2>1, BufferIs
  <2>2. /\ b \in Seq(Byte) /\ Len(b) = Len(buf) + n /\ Len(b) \in Nat
        /\ Skip(net, n) \in Seq(Byte) /\ b \o Skip(net, n) = Stream
        /\ b = <<>> => ProcessIncomingPacket(b) = [status |-> "NoDataAvailable"]
        /\ b # <<>> =>
              /\ Stream # <<>> /\ b[1] = Stream[1] /\ total \in 0 .. Len(Stream) /\ total >= 2
              /\ Len(Code[LengthIn(lens, p)]) \in 1..4
              /\ ProcessIncomingPacket(b) =
                    IF Len(b) > Len(Code[LengthIn(lens, p)])
                    THEN [status |-> "Success", total |-> total]
                    ELSE [status |-> "NeedMoreBytes"]
    BY <2>0, Zenon DEF Received
  <2> HIDE DEF p, total
  <2>3. QED
    BY <2>1, <2>2, Zenon
<1>5. /\ k.ping \in [waiting : BOOLEAN, at : 0 .. TimeMod - 1]
      /\ k.lastTx \in 0 .. TimeMod - 1 /\ k.asked \in BOOLEAN /\ (k.overdue => n = 0)
  <2>1. ReceiveTypeInv /\ n \in Nat /\ k = KeepAlive(n)
    BY DEF ReceiveInv
  <2>2. QED
    BY <2>1, ElapsedIs
<1>6. /\ BufSize \in Nat /\ BufSize > 5 /\ Len(buf) \in Nat /\ n \in Nat /\ Len(b) <= BufSize
      /\ Len(lens) \in Nat /\ handed \in Seq(1 .. Len(lens)) /\ net \in Seq(Byte) /\ buf \in Seq(Byte)
      /\ Len(net) \in Nat /\ Len(Stream) = Len(buf) + Len(net) /\ Stream \in Seq(Byte)
  <2>1. /\ Len(buf) \in Nat /\ Len(lens) \in Nat /\ handed \in Seq(1 .. Len(lens)) /\ net \in Seq(Byte) /\ buf \in Seq(Byte)
        /\ Len(net) \in Nat /\ Len(Stream) = Len(buf) + Len(net) /\ Stream \in Seq(Byte)
    BY StreamIs
  <2>2. n \in Nat /\ BufSize \in Nat /\ BufSize > 5
    BY ConstantsAre, <2>1
  <2>3. Len(b) <= BufSize
    BY <1>1, <1>4, <2>1, <2>2
  <2>4. QED
    BY <2>1, <2>2, <2>3
<1>7. lastTx' \in 0 .. TimeMod - 1 /\ asked' \in BOOLEAN
  BY <1>3, <1>5
\* The types, once the stream's are known.
<1>8. ASSUME net' \in Seq(Byte), buf' \in Seq(Byte), Len(buf') <= BufSize, phase' \in {"loop", "failed"},
             status' \in {"Success", "NeedMoreBytes", "KeepAliveTimeout", "RecvFailed"},
             ping' \in [waiting : BOOLEAN, at : 0 .. TimeMod - 1], handed' \in Seq(1 .. Len(lens))
      PROVE  ReceiveTypeInv'
  BY <1>1, <1>7, <1>8 DEF ReceiveInv, ReceiveTypeInv
<1> HIDE DEF p, total
<1>9. CASE /\ buf' = b /\ net' = Skip(net, n) /\ ping' = k.ping /\ UNCHANGED <<phase, handed>>
           /\ Len(b) < BufSize
           /\ status' \in {"Success", "NeedMoreBytes", "KeepAliveTimeout"}
  <2>1. Stream' = Stream
    BY <1>4, <1>9 DEF Stream
  <2>2. ReceiveTypeInv'
    BY <1>1, <1>4, <1>5, <1>6, <1>8, <1>9
  <2>3. QED
    BY <1>1, <1>9, <2>1, <2>2, BytesStay
<1>10. CASE k.overdue \/ parsed.status # "Success"
  <2>1. status' \in {"Success", "NeedMoreBytes", "KeepAliveTimeout"} /\ Len(b) < BufSize
    <3>1. CASE k.overdue
      BY <1>1, <1>3, <1>4, <1>5, <1>6, <3>1
    <3>2. CASE ~k.overdue /\ b = <<>>
      <4>1. Len(b) = 0 /\ parsed.status = "NoDataAvailable"
        BY <1>4, <3>2
      <4>2. QED
        BY <1>3, <1>6, <3>2, <4>1
    <3>3. CASE ~k.overdue /\ b # <<>>
      <4>1. ~(Len(b) > Len(Code[LengthIn(lens, p)])) /\ parsed.status = "NeedMoreBytes"
        BY <1>4, <1>10, <3>3
      <4>2. Len(b) < BufSize
        <5> DEFINE c == Len(Code[LengthIn(lens, p)])
        <5>1. c \in 1..4 /\ ~(Len(b) > c)
          BY <1>4, <3>3, <4>1
        <5>2. Len(b) \in Nat /\ BufSize \in Nat /\ BufSize > 5
          BY <1>4, <1>6
        <5> HIDE DEF c
        <5>3. QED
          BY <5>1, <5>2
      <4>3. QED
        BY <1>3, <3>3, <4>1, <4>2
    <3>4. QED
      BY <3>1, <3>2, <3>3
  <2>2. buf' = b /\ net' = Skip(net, n) /\ ping' = k.ping /\ UNCHANGED <<phase, handed>>
    BY <1>3, <1>10
  <2>3. QED
    BY <1>9, <2>1, <2>2
<1>11. CASE ~k.overdue /\ parsed.status = "Success"
  <2>1. b # <<>> /\ parsed.total = total
    <3>1. b # <<>>
      BY <1>4, <1>11
    <3>2. QED
      BY <1>4, <1>11, <3>1
  <2>2. /\ Stream # <<>> /\ b[1] = Stream[1] /\ total \in 0 .. Len(Stream) /\ total >= 2
    BY <1>4, <2>1
  <2>3. CASE Oversized(total)
    <3>1. Discard(n, total - Len(b)) /\ ping' = k.ping /\ handed' = handed
      BY <1>3, <1>11, <2>1, <2>3
    <3>2. total > BufSize
      BY <2>3 DEF Oversized
    <3> DEFINE m == n + (total - Len(b))
    <3>3. m = total - Len(buf) /\ m \in 0 .. Len(net) /\ total >= Len(buf) /\ total <= Len(buf) + Len(net) /\ total \in Nat
      BY <1>4, <1>6, <2>2, <3>2
    <3> HIDE DEF m
    <3>4. CASE net' = Skip(net, m) /\ buf' = <<>> /\ status' = "Success" /\ phase' = phase
      <4>1. net' \in Seq(Byte)
        BY <1>6, <3>3, <3>4, SkipIs
      <4>2. Stream' = net'
        BY <3>4, <4>1 DEF Stream
      <4>3. Skip(buf \o net, total) = Skip(net, total - Len(buf))
        BY <1>6, <3>3, SkipBeyond
      <4>4. Stream' = Skip(Stream, total)
        BY <3>3, <3>4, <4>2, <4>3 DEF Stream
      <4>5. Len(buf') < BufSize /\ buf' \in Seq(Byte) /\ Len(buf') <= BufSize
        BY <1>6, <3>4
      <4>6. ReceiveTypeInv'
        BY <1>1, <1>5, <1>6, <1>8, <3>1, <3>4, <4>1, <4>5
      <4>7. QED
        BY <1>1, <2>2, <3>1, <3>2, <3>4, <4>4, <4>5, <4>6, PacketGoes DEF total, p
    <3>5. CASE net' = Skip(net, n) /\ buf' = <<>> /\ status' = "RecvFailed" /\ phase' = "failed"
      <4>1. buf' \in Seq(Byte) /\ Len(buf') <= BufSize
        BY <1>6, <3>5
      <4>2. ReceiveTypeInv'
        BY <1>4, <1>5, <1>6, <1>8, <3>1, <3>5, <4>1
      <4>3. QED
        BY <3>5, <4>2, FailedKeeps
    <3>6. QED
      BY <3>1, <3>4, <3>5 DEF Discard, m
  <2>4. CASE ~Oversized(total) /\ ~Complete(total, b)
    <3>1. /\ buf' = b /\ net' = Skip(net, n) /\ ping' = k.ping /\ UNCHANGED <<phase, handed>>
          /\ status' = "NeedMoreBytes"
      BY <1>3, <1>11, <2>1, <2>4
    <3>2. Len(b) < BufSize
      BY <1>4, <1>6, <2>2, <2>4 DEF Oversized, Complete
    <3>3. QED
      BY <1>9, <3>1, <3>2
  <2>5. CASE ~Oversized(total) /\ Complete(total, b)
    <3>1. HandOver(b, total, k) /\ net' = Skip(net, n) /\ phase' = phase
      BY <1>3, <1>11, <2>1, <2>5
    <3>2. total <= BufSize /\ total <= Len(b) /\ total \in 0 .. Len(b)
      BY <1>4, <1>6, <2>2, <2>5 DEF Oversized, Complete
    <3>3. /\ buf' = Skip(b, total) /\ status' = "Success"
          /\ p = PINGRESP => ping' = [k.ping EXCEPT !.waiting = FALSE] /\ handed' = handed
          /\ p # PINGRESP => ping' = k.ping /\ handed' = Append(handed, p)
      BY <2>2, <3>1 DEF HandOver, p
    <3>4. buf' \in Seq(Byte) /\ Len(buf') = Len(b) - total
      BY <1>4, <3>2, <3>3, SkipIs
    <3>5. Len(buf') < BufSize /\ Len(buf') <= BufSize
      <4>1. Len(b) \in Nat /\ total \in Nat /\ total >= 2 /\ total <= Len(b) /\ Len(b) <= BufSize /\ BufSize \in Nat
        BY <1>4, <1>6, <2>2, <3>2
      <4>2. QED
        BY <3>4, <4>1
    <3>6. Stream' = Skip(Stream, total)
      <4>1. Skip(b, total) \o Skip(net, n) = Skip(b \o Skip(net, n), total)
        BY <1>4, <3>2, SkipWithin
      <4>2. QED
        BY <1>4, <3>1, <3>3, <4>1 DEF Stream
    <3>7. p \in KnownIn(lens) /\ p # CONNACK
      <4>1. BytesIn(lens, Stream) /\ 1 \in DOMAIN Stream
        BY <1>1, <1>6, <2>2, StreamIs
      <4>2. QED
        BY <1>1, <4>1 DEF BytesIn, ReceiveInv, LoopInv, p
    <3>8. \/ p = PINGRESP /\ p \notin 1 .. Len(lens)
          \/ p # PINGRESP /\ p \in 1 .. Len(lens)
      BY <3>7, <1>6, ConstantsAre DEF KnownIn
    <3>9. handed' \in Seq(1 .. Len(lens)) /\ ping' \in [waiting : BOOLEAN, at : 0 .. TimeMod - 1]
      <4>1. CASE p = PINGRESP
        BY <1>5, <1>6, <3>3, <4>1
      <4>2. CASE p # PINGRESP
        <5>1. p \in 1 .. Len(lens) /\ handed' = Append(handed, p) /\ ping' = k.ping
          BY <3>3, <3>8, <4>2
        <5>2. Append(handed, p) \in Seq(1 .. Len(lens))
          BY <1>6, <5>1
        <5>3. QED
          BY <1>5, <5>1, <5>2
      <4>3. QED
        BY <4>1, <4>2
    <3>10. ReceiveTypeInv'
      BY <1>1, <1>4, <1>8, <3>1, <3>3, <3>4, <3>5, <3>9
    <3>11. \/ (p \notin 1 .. Len(lens) \/ total > BufSize) /\ handed' = handed
           \/ p \in 1 .. Len(lens) /\ total <= BufSize /\ handed' = Append(handed, p)
      BY <3>2, <3>3, <3>8
    <3>12. QED
      BY <1>1, <2>2, <3>1, <3>5, <3>6, <3>10, <3>11, PacketGoes DEF total, p
  <2>6. QED
    BY <2>3, <2>4, <2>5
<1>12. QED
  BY <1>10, <1>11

LEMMA ReceiveNextKeeps ==
    ASSUME ReceiveInv, [ReceiveNext]_receiveVars
    PROVE  ReceiveInv'
<1>1. CASE ReceiveConnack
  BY <1>1, ReceiveConnackKeeps
<1>2. CASE ConnackFails
  BY <1>2, ConnackFailsKeeps
<1>3. CASE ReceiveNothing
  <2>1. 0 \in 0 .. Len(net)
    BY StreamIs
  <2>2. QED
    BY <1>3, <2>1, IterationKeeps DEF ReceiveNothing
<1>4. CASE ReceiveBytes
  <2>1. PICK n \in 1 .. Min({Len(net), BufSize}) : ReceiveSingleIteration(n)
    BY <1>4 DEF ReceiveBytes
  <2>2. Len(net) \in Nat /\ {Len(net), BufSize} \in SUBSET Nat
    BY StreamIs, ConstantsAre
  <2>3. Min({Len(net), BufSize}) \in Nat /\ Min({Len(net), BufSize}) <= Len(net)
    BY <2>2, MinIs
  <2>4. n \in 0 .. Len(net)
    BY <2>2, <2>3
  <2>5. QED
    BY <2>1, <2>4, IterationKeeps
<1>5. CASE RecvFails
  BY <1>5, RecvFailsKeeps
<1>6. CASE BrokerAccepts
  BY <1>6, BrokerAcceptsKeeps
<1>7. ASSUME NEW length \in Lengths, BrokerSends(length) PROVE ReceiveInv'
  BY <1>7, BrokerSendsKeeps
<1>8. CASE BrokerAnswersPing
  BY <1>8, BrokerAnswersPingKeeps
<1>9. CASE BrokerCloses
  BY <1>9, BrokerClosesKeeps
<1>10. CASE Tick
  BY <1>10, TickKeeps
<1>11. CASE UNCHANGED receiveVars
  BY <1>11, NothingKeeps
<1>12. QED
  BY <1>1, <1>2, <1>3, <1>4, <1>5, <1>6, <1>7, <1>8, <1>9, <1>10, <1>11
  DEF ReceiveNext, Client, Broker, Over

\* What StreamIntact says of the stream, in the operators of the invariant.
LEMMA IntactIs ==
    ASSUME ReceiveInv, phase = "loop"
    PROVE  Whole(buf \o net) /\ InTurn(buf \o net)
<1>1. Intact(lens, handed, buf \o net)
  BY DEF ReceiveInv, Stream
<1>2. \A p : Size(p) = SizeIn(lens, p)
  BY DEF Size, SizeIn, Length, LengthIn
<1>3. Whole(buf \o net)
  <2> DEFINE s == buf \o net
  <2>1. WholeIn(lens, s)
    BY <1>1 DEF Intact
  <2> HIDE DEF s
  <2>2. Whole(s)
    BY <1>2, <2>1, Zenon DEF Whole, WholeIn
  <2>3. QED
    BY <2>2 DEF s
<1>4. InTurn(buf \o net)
  <2> DEFINE s == buf \o net
  <2>1. InTurnIn(lens, handed, s)
    BY <1>1 DEF Intact
  <2> HIDE DEF s
  <2>2. Starts(s) = StartsIn(lens, s)
    BY DEF Starts, StartsIn, Packets
  <2>3. \A n : Fits(n) <=> SizeIn(lens, n) <= BufSize
    BY <1>2 DEF Fits
  <2>4. InTurn(s)
    BY <2>1, <2>2, <2>3, Zenon DEF InTurn, InTurnIn, Packets
  <2>5. QED
    BY <2>4 DEF s
<1>5. QED
  BY <1>3, <1>4

\* The inductive invariant: while the connection is up, the buffer and what is
\* under way are whole packets in turn, before a CONNACK nothing is handled,
\* and after it none comes.
THEOREM ReceiveInvariant == ReceiveSpec => []ReceiveInv
  BY ReceiveInitIs, ReceiveNextKeeps, PTL DEF ReceiveSpec

\* Types of the receiving end.  The status is never BadResponse: whatever part
\* of the stream recv() has returned, its head is read as the beginning of a
\* packet, and the length that processRemainingLength() decodes is the one that
\* encodeRemainingLength() encoded.
THEOREM ReceiveTypeCorrect == ReceiveSpec => []ReceiveTypeOK
<1>1. ASSUME ReceiveInv PROVE ReceiveTypeOK
  <2>1. /\ net \in Seq(Byte) /\ buf \in Seq(Byte) /\ Len(buf) <= BufSize
        /\ phase \in {"connack", "loop", "failed"}
        /\ status \in {"Success", "NeedMoreBytes", "KeepAliveTimeout", "RecvFailed"}
        /\ now \in 0 .. TimeMod - 1 /\ lastTx \in 0 .. TimeMod - 1
        /\ ping \in [waiting : BOOLEAN, at : 0 .. TimeMod - 1]
        /\ asked \in BOOLEAN /\ closed \in BOOLEAN
        /\ lens \in Seq(Lengths) /\ handed \in Seq(1 .. Len(lens))
    BY <1>1 DEF ReceiveInv, ReceiveTypeInv
  <2>2. \A s \in {net, buf} : \A i \in DOMAIN s : s[i][1] \in Names /\ s[i][2] \in Nat
    <3> SUFFICES ASSUME NEW s \in {net, buf}, NEW i \in DOMAIN s PROVE s[i][1] \in Names /\ s[i][2] \in Nat
      OBVIOUS
    <3>1. s \in Seq(Byte)
      BY <2>1
    <3>2. QED
      BY <3>1, ByteIs
  <2>3. ping.waiting \in BOOLEAN /\ ping.at \in 0 .. TimeMod - 1
    BY <2>1
  <2>4. QED
    BY <2>1, <2>2, <2>3 DEF ReceiveTypeOK, Packets
<1>2. QED
  BY <1>1, ReceiveInvariant, PTL

\* However recv() cuts the bytes, and whatever is thrown away by
\* discardStoredPacket(), the packets stay whole, and each that fits is handed
\* over once, in turn.
THEOREM StreamCorrect == ReceiveSpec => []StreamIntact
<1>1. ASSUME ReceiveInv PROVE StreamIntact
  BY <1>1, IntactIs DEF StreamIntact
<1>2. QED
  BY <1>1, ReceiveInvariant, PTL

\* receiveSingleIteration() always asks recv() for at least one byte.
THEOREM RoomCorrect == ReceiveSpec => []RoomToReceive
<1>1. ASSUME ReceiveInv PROVE RoomToReceive
  BY <1>1 DEF ReceiveInv, LoopInv, RoomToReceive
<1>2. QED
  BY <1>1, ReceiveInvariant, PTL
=============================================================================
