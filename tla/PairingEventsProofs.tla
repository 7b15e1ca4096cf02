------------------------- MODULE PairingEventsProofs -------------------------
(***************************************************************************)
(* For any queue length, any number of slots and any number of faults:     *)
(* only an overflow costs an event, the backend sees events in order, and  *)
(* an event twice only for a power loss or a send that failed and went     *)
(* through after all.                                                      *)
(*                                                                         *)
(* Without failed NVS writes the queue and its copy in NVS are the events  *)
(* behind Dropped (QueueInv).  An overflow between peek and pop makes pop  *)
(* take an event that was never published; LossInv is why the count still  *)
(* holds: the overflow that took the peeked event cost nothing if that     *)
(* event gets published, so one overflow is left to pay for the pop.       *)
(* OrderInv relates what the backend has, what is on the wire and what may *)
(* be published next, and RepeatInv counts what the backend has or will    *)
(* get from the wire: whatever could be published once more has a power    *)
(* loss or a failed send left to account for it.                           *)
(***************************************************************************)
EXTENDS PairingEvents, FiniteSetTheorems, SequenceTheorems, WellFoundedInduction, TLAPS

Usage ==
    [events : 0..MaxEvents, overflows : Nat, others : Nat, losses : Nat, fails : Nat, boots : Nat]

Message == [slot : Slots \cup {NoSlot}, msg : Events \cup {Other}]

\* Every NVS write worked so far.
Kept == used.fails = 0

\* aws_iot_task has an event in pairing_event_buf and has not popped it.
Holding == task \in {"publish", "pop"}

\* The events that have left the queue, by a pop or by an overflow, are 1..Dropped.
Dropped == used.events - Len(queue)

TypeInv ==
    /\ TypeOK
    /\ used \in Usage
    /\ Holding => buf \in Events

QueueInv ==
    Kept => /\ nvs = queue
            /\ Len(queue) <= used.events
            /\ \A k \in DOMAIN queue : queue[k] = Dropped + k

BufInv ==
    Kept /\ Holding =>
        /\ buf <= Dropped + 1
        /\ buf <= used.events
        /\ task = "pop" => buf \in published

LossInv ==
    Kept => /\ Cardinality(Unpublished) <= used.overflows
            /\ Holding /\ buf <= Dropped => Cardinality(Unpublished \ {buf}) + 1 <= used.overflows

\* The event is on the wire.
Wired(e) == \E j \in DOMAIN wire : wire[j].msg = e /\ e \in Events

\* No event behind this one has reached the backend, or is on its way there.
SeenBound == IF Holding THEN buf ELSE Dropped + 1

\* Events on the wire are in order.
WireInOrder ==
    \A i, j \in DOMAIN wire :
        i < j /\ wire[i].msg \in Events /\ wire[j].msg \in Events => wire[i].msg <= wire[j].msg

OrderInv ==
    Kept => /\ \A i, j \in DOMAIN seen : i < j => seen[i] <= seen[j]
            /\ WireInOrder
            /\ \A e \in Range(seen), f \in Events : Wired(f) => e <= f
            /\ \A e \in Range(seen) : e <= SeenBound
            /\ \A e \in Events : Wired(e) => e <= SeenBound

\* Where the events of a wire are, what they are, and the events that the backend has or will get.
Spots(w) == {j \in DOMAIN w : w[j].msg \in Events}

Carried(w) == {w[j].msg : j \in Spots(w)}

Sent == Range(seen) \cup Carried(wire)

\* How often they were sent, and how often that may have been twice.
Sendings == Len(seen) + Cardinality(Spots(wire))

Excuses == used.boots + refused

\* What was sent and may be published once more.
Repeatable ==
    {e \in Sent : (task # "pop" /\ e > Dropped) \/ (task = "publish" /\ e = buf)}

RepeatInv ==
    Kept => /\ Sendings <= Cardinality(Sent) + Excuses
            /\ Repeatable # {} => Sendings + 1 <= Cardinality(Sent) + Excuses

EventsInv == TypeInv /\ QueueInv /\ BufInv /\ LossInv /\ OrderInv /\ RepeatInv
-----------------------------------------------------------------------------
(* Facts about the operators *)

\* Every non-empty set of numbers has a least one.
LEMMA LeastNumber ==
    ASSUME NEW T \in SUBSET Nat, T # {}
    PROVE  \E x \in T : \A y \in T : x <= y
<1> DEFINE R == OpToRel(<, Nat)
<1>1. IsWellFoundedOn(R, Nat)
  BY NatLessThanWellFounded
<1>2. R = {p \in Nat \X Nat : p[1] < p[2]}
  BY DEF OpToRel
<1>3. T \subseteq Nat
  OBVIOUS
<1> HIDE DEF R
<1>4. PICK x \in T : \A y \in T : ~(<<y, x>> \in R)
  BY <1>1, <1>3, WFMin, Zenon
<1>5. \A y \in T : ~(y < x)
  BY <1>2, <1>4
<1>6. QED
  BY <1>5

\* getNextFreeIndexForOutgoingPublishes() gives an index of the array.
LEMMA FreeIndexIs ==
    ASSUME FreeIndex # {}
    PROVE  Min(FreeIndex) \in Slots
<1>1. FreeIndex \in SUBSET Nat /\ FreeIndex \subseteq Slots
  BY EventsAssumption DEF FreeIndex, Slots
<1>2. Min(FreeIndex) \in FreeIndex
  BY <1>1, LeastNumber DEF Min
<1>3. QED
  BY <1>1, <1>2

\* Numbers that are events, and the one that is not.
LEMMA EventsAre ==
    /\ MaxEvents \in Nat /\ PAIRING_EVENTS_MAX \in Nat \ {0}
    /\ Events \subseteq Nat \ {0} /\ Other \notin Events /\ NoMsg \notin Events
    /\ \A e \in Nat : e # 0 /\ e <= MaxEvents => e \in Events
  BY EventsAssumption DEF Events, Other, NoMsg

\* The counters one by one.
LEMMA UsageIs ==
    ASSUME used \in Usage
    PROVE  /\ used.events \in Nat /\ used.events <= MaxEvents /\ used.overflows \in Nat
           /\ used.fails \in Nat /\ used.boots \in Nat
           /\ used.others \in Nat /\ used.losses \in Nat
  BY EventsAssumption DEF Usage

\* One event more goes in behind the others, and the queue stays within its length.
LEMMA EnqueueIs ==
    ASSUME NEW q \in Seq(Events), Len(q) <= PAIRING_EVENTS_MAX, NEW e \in Events
    PROVE  /\ Enqueue(q, e) \in Seq(Events)
           /\ Len(Enqueue(q, e)) <= PAIRING_EVENTS_MAX
           /\ Len(q) >= PAIRING_EVENTS_MAX =>
                 /\ Len(Enqueue(q, e)) = Len(q)
                 /\ \A k \in 1..Len(q) : Enqueue(q, e)[k] = IF k = Len(q) THEN e ELSE q[k + 1]
           /\ Len(q) < PAIRING_EVENTS_MAX =>
                 /\ Len(Enqueue(q, e)) = Len(q) + 1
                 /\ \A k \in 1..Len(q) + 1 : Enqueue(q, e)[k] = IF k = Len(q) + 1 THEN e ELSE q[k]
<1>0. PAIRING_EVENTS_MAX \in Nat \ {0} /\ Len(q) \in Nat
  BY EventsAre
<1>1. CASE Len(q) >= PAIRING_EVENTS_MAX
  <2>1. Enqueue(q, e) = Append(Tail(q), e) /\ q # <<>>
    BY <1>0, <1>1 DEF Enqueue
  <2>2. Tail(q) \in Seq(Events) /\ Len(Tail(q)) = Len(q) - 1
    BY <2>1
  <2>3. \A k \in 1..Len(q) - 1 : Tail(q)[k] = q[k + 1]
    BY <2>1
  <2>4. Enqueue(q, e) \in Seq(Events) /\ Len(Enqueue(q, e)) = Len(q)
    BY <1>0, <2>1, <2>2
  <2>5. \A k \in 1..Len(q) - 1 : Enqueue(q, e)[k] = q[k + 1]
    BY <1>0, <2>1, <2>2, <2>3
  <2>6. Enqueue(q, e)[Len(q)] = e
    BY <1>0, <2>1, <2>2
  <2>7. QED
    BY <1>0, <1>1, <2>4, <2>5, <2>6
<1>2. CASE Len(q) < PAIRING_EVENTS_MAX
  <2>1. Enqueue(q, e) = Append(q, e)
    BY <1>0, <1>2 DEF Enqueue
  <2>2. QED
    BY <1>0, <1>2, <2>1
<1>3. QED
  BY <1>0, <1>1, <1>2
-----------------------------------------------------------------------------
(* Types *)

LEMMA TypeInit == Init => TypeInv
<1>1. ASSUME Init PROVE TypeInv
  <2>1. used \in Usage
    BY <1>1, EventsAssumption DEF Init, Usage
  <2>2. DOMAIN used = {"events", "overflows", "others", "losses", "fails", "boots"}
    BY <1>1 DEF Init
  <2>3. task \in Places /\ ~Holding /\ link \in BOOLEAN /\ buf \in Events \cup {NoMsg}
    BY <1>1 DEF Init, Places, Holding
  <2>4. outgoing \in [Slots -> Events \cup {NoMsg, Other}]
    BY <1>1 DEF Init, NoPublishes
  <2>8. leaked \in 0..OUTGOING_PUBLISH_RECORD_LEN /\ refused \in Nat
    BY <1>1, EventsAssumption DEF Init
  <2>5. /\ queue \in Seq(Events) /\ nvs \in Seq(Events) /\ seen \in Seq(Events)
        /\ wire \in Seq([slot : Slots \cup {NoSlot}, msg : Events \cup {Other}])
        /\ Len(queue) <= PAIRING_EVENTS_MAX /\ Len(nvs) <= PAIRING_EVENTS_MAX
    BY <1>1, EventsAre DEF Init
  <2>6. acks \subseteq Slots /\ published \subseteq Events
    BY <1>1 DEF Init
  <2>7. QED
    BY <2>1, <2>2, <2>3, <2>4, <2>5, <2>6, <2>8 DEF TypeInv, TypeOK
<1>2. QED
  BY <1>1

\* Counters that move on.
LEMMA Counted ==
    ASSUME NEW u \in Usage
    PROVE  /\ [u EXCEPT !.fails = @ + 1] \in Usage
           /\ [u EXCEPT !.others = @ + 1] \in Usage
           /\ [u EXCEPT !.losses = @ + 1] \in Usage
           /\ [u EXCEPT !.boots = @ + 1] \in Usage
           /\ \A e \in 0..MaxEvents : [u EXCEPT !.events = e] \in Usage
           /\ \A o \in Nat : [u EXCEPT !.overflows = o] \in Usage
  BY DEF Usage

LEMMA UsageDomain == \A u \in Usage : DOMAIN u = {"events", "overflows", "others", "losses", "fails", "boots"}
  BY DEF Usage

\* Nothing on the wire, and nothing waiting.
LEMMA NothingIs == <<>> \in Seq(Message) /\ NoPublishes \in [Slots -> Events \cup {NoMsg, Other}]
  BY DEF NoPublishes

\* publishToTopic() with a message keeps the types of what it changes.
LEMMA AcceptedIs ==
    ASSUME TypeOK, NEW m \in Events \cup {Other}, Accepted(m)
    PROVE  /\ outgoing' \in [Slots -> Events \cup {NoMsg, Other}]
           /\ wire' \in Seq(Message)
           /\ wire' = wire \/ \E p \in Message : p.msg = m /\ wire' = Append(wire, p)
           /\ UNCHANGED <<leaked, refused>>
<1>1. Min(FreeIndex) \in Slots
  BY FreeIndexIs DEF Accepted
<1> DEFINE p == [slot |-> Min(FreeIndex), msg |-> m]
<1>2. p \in Message /\ p.msg = m
  BY <1>1 DEF Message
<1>3. wire' = wire \/ wire' = Append(wire, p)
  BY DEF Accepted
<1>4. wire \in Seq(Message)
  BY DEF TypeOK, Message
<1>5. outgoing' \in [Slots -> Events \cup {NoMsg, Other}]
  BY <1>1 DEF Accepted, TypeOK
<1> HIDE DEF p
<1>6. UNCHANGED <<leaked, refused>>
  BY DEF Accepted
<1>7. QED
  BY <1>2, <1>3, <1>4, <1>5, <1>6

\* publishToTopic() that fails: at most one send more has failed, and if the
\* packet goes through nevertheless, one has.
LEMMA RefusedIs ==
    ASSUME TypeOK, NEW m \in Events \cup {Other}, Refused(m)
    PROVE  /\ outgoing' = outgoing
           /\ leaked' \in 0..OUTGOING_PUBLISH_RECORD_LEN
           /\ refused' \in Nat /\ wire' \in Seq(Message)
           /\ \/ wire' = wire /\ refused <= refused'
              \/ refused' = refused + 1 /\ \E p \in Message : p.msg = m /\ wire' = Append(wire, p)
<1> DEFINE p == [slot |-> NoSlot, msg |-> m]
           kept == Cardinality({k \in Slots : outgoing[k] # NoMsg})
<1>0. /\ wire \in Seq(Message) /\ leaked \in 0..OUTGOING_PUBLISH_RECORD_LEN /\ refused \in Nat
      /\ OUTGOING_PUBLISH_RECORD_LEN \in Nat
  BY EventsAssumption DEF TypeOK, Message
<1>1. p \in Message /\ p.msg = m
  BY DEF Message
<1>2. kept \in Nat
  <2>1. IsFiniteSet(Slots)
    BY EventsAssumption, FS_Interval DEF Slots
  <2>2. IsFiniteSet({k \in Slots : outgoing[k] # NoMsg})
    BY <2>1, FS_Subset
  <2>3. QED
    BY <2>2, FS_CardinalityType
<1>3. outgoing' = outgoing /\ (NoRoom \/ SendFails(m))
  BY DEF Refused
<1>4. CASE NoRoom
  BY <1>0, <1>3, <1>4 DEF NoRoom
<1>5. CASE SendFails(m)
  <2>1. leaked' = leaked + 1 /\ kept + leaked < OUTGOING_PUBLISH_RECORD_LEN
    BY <1>5 DEF SendFails, FreeRecord
  <2>2. (wire' = wire /\ refused' = refused) \/ (refused' = refused + 1 /\ wire' \in {wire, Append(wire, p)})
    BY <1>5 DEF SendFails
  <2> HIDE DEF p, kept
  <2>3. leaked' \in 0..OUTGOING_PUBLISH_RECORD_LEN
    BY <1>0, <1>2, <2>1
  <2>4. QED
    BY <1>0, <1>1, <1>3, <2>2, <2>3
<1>6. QED
  BY <1>3, <1>4, <1>5

LEMMA TypeNext ==
    ASSUME TypeInv, [Next]_vars
    PROVE  TypeInv'
<1>0. /\ TypeOK /\ used \in Usage /\ (Holding => buf \in Events)
      /\ wire \in Seq(Message) /\ task \in Places /\ link \in BOOLEAN
  BY DEF TypeInv, TypeOK, Message
\* What makes the types of the next state.
<1>1. ASSUME queue' \in Seq(Events), Len(queue') <= PAIRING_EVENTS_MAX,
             nvs' \in Seq(Events), Len(nvs') <= PAIRING_EVENTS_MAX,
             buf' \in Events \cup {NoMsg}, task' \in Places, link' \in BOOLEAN,
             outgoing' \in [Slots -> Events \cup {NoMsg, Other}], wire' \in Seq(Message),
             leaked' \in 0..OUTGOING_PUBLISH_RECORD_LEN, refused' \in Nat,
             acks' \subseteq Slots, seen' \in Seq(Events), published' \subseteq Events,
             used' \in Usage, Holding' => buf' \in Events
      PROVE  TypeInv'
  BY <1>1, UsageDomain DEF TypeInv, TypeOK, Message
<1>2. CASE Push
  <2>1. /\ queue' = Enqueue(queue, used.events + 1)
        /\ UNCHANGED <<buf, task, link, outgoing, leaked, wire, acks, seen, published, refused>>
        /\ nvs' = queue' \/ nvs' = nvs
    BY <1>2 DEF Push
  <2>2. used.events + 1 \in Events /\ used.events + 1 \in 0..MaxEvents
    BY <1>0, <1>2, UsageIs, EventsAre DEF Push
  <2>3. queue' \in Seq(Events) /\ Len(queue') <= PAIRING_EVENTS_MAX
    BY <1>0, <2>1, <2>2, EnqueueIs DEF TypeOK
  <2>4. used' \in Usage
    <3> DEFINE full == IF Len(queue) >= PAIRING_EVENTS_MAX THEN 1 ELSE 0
               counted == [used EXCEPT !.events = @ + 1, !.overflows = @ + full]
    <3>1. full \in Nat
      OBVIOUS
    <3>2. used' = counted \/ used' = [counted EXCEPT !.fails = @ + 1]
      BY <1>2 DEF Push
    <3> HIDE DEF full
    <3>3. counted \in Usage
      <4> DEFINE moved == [used EXCEPT !.events = used.events + 1]
      <4>1. moved \in Usage
        BY <1>0, <2>2, Counted
      <4>2. used.overflows + full \in Nat
        BY <1>0, <3>1, UsageIs
      <4>3. [moved EXCEPT !.overflows = used.overflows + full] \in Usage
        BY <4>1, <4>2, Counted
      <4>4. counted = [moved EXCEPT !.overflows = used.overflows + full]
        BY <1>0 DEF Usage
      <4>5. QED
        BY <4>3, <4>4
    <3> HIDE DEF counted
    <3>4. [counted EXCEPT !.fails = @ + 1] \in Usage
      BY <3>3, Counted
    <3>5. QED
      BY <3>2, <3>3, <3>4
  <2>5. nvs' \in Seq(Events) /\ Len(nvs') <= PAIRING_EVENTS_MAX
    BY <1>0, <2>1, <2>3 DEF TypeOK
  <2>6. Holding' => buf' \in Events
    BY <1>0, <2>1 DEF Holding
  <2>7. QED
    BY <1>0, <1>1, <2>1, <2>3, <2>4, <2>5, <2>6 DEF TypeOK
<1>3. CASE Peek
  <2>1. buf' = Head(queue) /\ queue # <<>> /\ task' = "publish"
        /\ UNCHANGED <<queue, nvs, link, outgoing, leaked, wire, acks, seen, published, refused, used>>
    BY <1>3 DEF Peek
  <2>2. buf' \in Events
    BY <1>0, <2>1 DEF TypeOK
  <2>3. QED
    BY <1>0, <1>1, <2>1, <2>2 DEF TypeOK, Places
<1>4. CASE Pop
  <2>1. task' = "loop" /\ UNCHANGED <<buf, link, outgoing, leaked, wire, acks, seen, published, refused>>
    BY <1>4 DEF Pop
  <2>2. \/ UNCHANGED <<queue, nvs, used>>
        \/ /\ queue # <<>> /\ queue' = Tail(queue)
           /\ nvs' = Tail(queue) \/ nvs' = nvs
           /\ used' = used \/ used' = [used EXCEPT !.fails = @ + 1]
    BY <1>4 DEF Pop, NvsStore
  <2>3. queue' \in Seq(Events) /\ Len(queue') <= PAIRING_EVENTS_MAX
    <3>1. queue \in Seq(Events) /\ Len(queue) <= PAIRING_EVENTS_MAX /\ PAIRING_EVENTS_MAX \in Nat
      BY <1>0, EventsAre DEF TypeOK
    <3>2. queue # <<>> => Tail(queue) \in Seq(Events) /\ Len(Tail(queue)) = Len(queue) - 1
      BY <3>1
    <3>3. QED
      BY <2>2, <3>1, <3>2
  <2>4. nvs' \in Seq(Events) /\ Len(nvs') <= PAIRING_EVENTS_MAX
    BY <1>0, <2>2, <2>3 DEF TypeOK
  <2>5. used' \in Usage
    BY <1>0, <2>2, Counted
  <2>6. QED
    BY <1>0, <1>1, <2>1, <2>3, <2>4, <2>5 DEF TypeOK, Places, Holding
<1>5. CASE PublishEvent
  <2>1. /\ Accepted(buf) /\ task = "publish" /\ published' = published \cup {buf} /\ task' = "pop"
        /\ UNCHANGED <<queue, nvs, buf, link, acks, seen, used>>
    BY <1>5 DEF PublishEvent
  <2>2. buf \in Events
    BY <1>0, <2>1 DEF Holding
  <2>3. /\ outgoing' \in [Slots -> Events \cup {NoMsg, Other}] /\ wire' \in Seq(Message)
        /\ UNCHANGED <<leaked, refused>>
    BY <1>0, <2>1, <2>2, AcceptedIs
  <2>4. QED
    BY <1>0, <1>1, <2>1, <2>2, <2>3 DEF TypeOK, Places
<1>6. CASE PublishFails
  <2>1. /\ Refused(buf) /\ task = "publish" /\ task' = "loop"
        /\ UNCHANGED <<queue, nvs, buf, link, acks, seen, published, used>>
    BY <1>6 DEF PublishFails
  <2>2. buf \in Events
    BY <1>0, <2>1 DEF Holding
  <2>3. /\ outgoing' = outgoing /\ leaked' \in 0..OUTGOING_PUBLISH_RECORD_LEN
        /\ refused' \in Nat /\ wire' \in Seq(Message)
    BY <1>0, <2>1, <2>2, RefusedIs
  <2>4. QED
    BY <1>0, <1>1, <2>1, <2>2, <2>3 DEF TypeOK, Places
<1>7. CASE PublishOther
  <2>1. /\ used' = [used EXCEPT !.others = @ + 1] /\ (Accepted(Other) \/ Refused(Other))
        /\ UNCHANGED <<queue, nvs, buf, task, link, acks, seen, published>>
    BY <1>7 DEF PublishOther
  <2>2. /\ outgoing' \in [Slots -> Events \cup {NoMsg, Other}] /\ wire' \in Seq(Message)
        /\ leaked' \in 0..OUTGOING_PUBLISH_RECORD_LEN /\ refused' \in Nat
    <3>1. CASE Accepted(Other)
      BY <1>0, <3>1, AcceptedIs DEF TypeOK
    <3>2. CASE Refused(Other)
      BY <1>0, <3>2, RefusedIs DEF TypeOK
    <3>3. QED
      BY <2>1, <3>1, <3>2
  <2>3. used' \in Usage
    BY <1>0, <2>1, Counted
  <2>4. Holding' => buf' \in Events
    BY <1>0, <2>1 DEF Holding
  <2>5. QED
    BY <1>0, <1>1, <2>1, <2>2, <2>3, <2>4 DEF TypeOK
<1>8. CASE PubAck
  <2>1. /\ UNCHANGED <<queue, nvs, buf, task, link, leaked, wire, seen, published, refused, used>>
        /\ acks' \subseteq acks
    BY <1>8 DEF PubAck
  <2>2. outgoing' \in [Slots -> Events \cup {NoMsg, Other}]
    BY <1>0, <1>8 DEF PubAck, Cleanup, TypeOK
  <2>3. Holding' => buf' \in Events
    BY <1>0, <2>1 DEF Holding
  <2>4. QED
    BY <1>0, <1>1, <2>1, <2>2, <2>3 DEF TypeOK
<1>9. CASE Restart \/ Connect \/ Subscribe \/ SubAckGranted \/ SubAckRejected \/ SubscribeFails \/ RecvFails
  <2>1. /\ UNCHANGED <<queue, nvs, buf, seen, published, refused, used>>
        /\ task' \in Places \ {"publish", "pop"} /\ (wire' = wire \/ wire' = <<>>)
        /\ acks' \subseteq acks
    BY <1>9 DEF Restart, Connect, Subscribe, SubAckGranted, SubAckRejected, SubscribeFails, RecvFails, Places
  <2>2. (outgoing' = outgoing \/ outgoing' = NoPublishes) /\ (leaked' = leaked \/ leaked' = 0)
    BY <1>9 DEF Restart, Connect, Subscribe, SubAckGranted, SubAckRejected, SubscribeFails, RecvFails
  <2>3. link' \in BOOLEAN
    BY <1>0, <1>9 DEF Restart, Connect, Subscribe, SubAckGranted, SubAckRejected, SubscribeFails, RecvFails
  <2>4. wire' \in Seq(Message) /\ outgoing' \in [Slots -> Events \cup {NoMsg, Other}]
    BY <1>0, <2>1, <2>2, NothingIs DEF TypeOK
  <2>6. leaked' \in 0..OUTGOING_PUBLISH_RECORD_LEN
    BY <1>0, <2>2, EventsAssumption DEF TypeOK
  <2>5. QED
    BY <1>0, <1>1, <2>1, <2>3, <2>4, <2>6 DEF TypeOK, Holding
<1>10. CASE BrokerTakes
  <2>1. /\ wire # <<>> /\ wire' = Tail(wire) /\ acks' = acks \cup ({Head(wire).slot} \ {NoSlot})
        /\ seen' = IF Head(wire).msg \in Events THEN Append(seen, Head(wire).msg) ELSE seen
        /\ UNCHANGED <<queue, nvs, buf, task, link, outgoing, leaked, published, refused, used>>
    BY <1>10 DEF BrokerTakes
  <2>2. Head(wire) \in Message /\ wire' \in Seq(Message)
    BY <1>0, <2>1
  <2>3. acks' \subseteq Slots /\ seen' \in Seq(Events)
    BY <1>0, <2>1, <2>2 DEF TypeOK, Message
  <2>4. Holding' => buf' \in Events
    BY <1>0, <2>1 DEF Holding
  <2>5. QED
    BY <1>0, <1>1, <2>1, <2>2, <2>3, <2>4 DEF TypeOK
<1>11. CASE LinkBreaks
  <2>1. /\ used' = [used EXCEPT !.losses = @ + 1] /\ link' = FALSE /\ wire' = <<>> /\ acks' = {}
        /\ UNCHANGED <<queue, nvs, buf, task, outgoing, leaked, seen, published, refused>>
    BY <1>11 DEF LinkBreaks
  <2>2. used' \in Usage /\ wire' \in Seq(Message)
    BY <1>0, <2>1, Counted, NothingIs
  <2>3. Holding' => buf' \in Events
    BY <1>0, <2>1 DEF Holding
  <2>4. QED
    BY <1>0, <1>1, <2>1, <2>2, <2>3 DEF TypeOK
<1>12. CASE Reboot
  <2>1. /\ used' = [used EXCEPT !.boots = @ + 1] /\ queue' = nvs /\ UNCHANGED <<nvs, seen, published, refused>>
        /\ leaked' = 0 /\ buf' = NoMsg /\ task' = "start" /\ link' = FALSE
        /\ outgoing' = NoPublishes /\ wire' = <<>> /\ acks' = {}
    BY <1>12 DEF Reboot
  <2>2. used' \in Usage /\ wire' \in Seq(Message) /\ outgoing' \in [Slots -> Events \cup {NoMsg, Other}]
    BY <1>0, <2>1, Counted, NothingIs
  <2>3. leaked' \in 0..OUTGOING_PUBLISH_RECORD_LEN
    BY <2>1, EventsAssumption
  <2>4. QED
    BY <1>0, <1>1, <2>1, <2>2, <2>3 DEF TypeOK, Places, Holding
<1>13. CASE UNCHANGED vars
  BY <1>0, <1>1, <1>13 DEF vars, TypeOK, Holding
<1>14. QED
  BY <1>2, <1>3, <1>4, <1>5, <1>6, <1>7, <1>8, <1>9, <1>10, <1>11, <1>12, <1>13 DEF Next, AwsIotTask
-----------------------------------------------------------------------------
(* What the steps have in common *)

\* A step that leaves the queue and the backend alone: at most the connection
\* is given up, something else is published, or an event is put off.
Quiet ==
    /\ UNCHANGED <<queue, nvs, buf, seen, published>>
    /\ used'.events = used.events /\ used'.overflows = used.overflows
    /\ used'.fails = used.fails /\ used'.boots = used.boots
    /\ refused' \in Nat /\ refused <= refused'
    /\ \/ wire' = wire \/ wire' = <<>>
       \/ \E p \in Message : p.msg = Other /\ wire' = Append(wire, p)
    /\ task' = task \/ (task # "pop" /\ ~Holding')

\* An event whose publish failed and that goes through nevertheless.
Late ==
    /\ task = "publish" /\ task' = "loop"
    /\ UNCHANGED <<queue, nvs, buf, seen, published, used>>
    /\ refused' = refused + 1
    /\ \E p \in Message : p.msg = buf /\ wire' = Append(wire, p)

LEMMA StepIs ==
    ASSUME TypeInv, [Next]_vars
    PROVE  Quiet \/ Late \/ Push \/ Peek \/ PublishEvent \/ Pop \/ BrokerTakes \/ Reboot
<1>0. used \in Usage /\ TypeOK /\ refused \in Nat
  BY DEF TypeInv, TypeOK
<1>1. CASE Restart \/ Connect \/ Subscribe \/ SubAckGranted \/ SubAckRejected \/ SubscribeFails \/ RecvFails
  <2>1. UNCHANGED <<queue, nvs, buf, seen, published, refused, used>> /\ (wire' = wire \/ wire' = <<>>)
    BY <1>1 DEF Restart, Connect, Subscribe, SubAckGranted, SubAckRejected, SubscribeFails, RecvFails
  <2>2. task # "pop" /\ ~Holding'
    BY <1>1 DEF Restart, Connect, Subscribe, SubAckGranted, SubAckRejected, SubscribeFails, RecvFails, Holding
  <2>3. refused' \in Nat /\ refused <= refused'
    BY <1>0, <2>1
  <2>4. QED
    BY <2>1, <2>2, <2>3 DEF Quiet
<1>2. CASE PublishOther
  <2>1. /\ UNCHANGED <<queue, nvs, buf, seen, published, task>>
        /\ used' = [used EXCEPT !.others = @ + 1] /\ (Accepted(Other) \/ Refused(Other))
    BY <1>2 DEF PublishOther
  <2>2. /\ wire' = wire \/ \E p \in Message : p.msg = Other /\ wire' = Append(wire, p)
        /\ refused' \in Nat /\ refused <= refused'
    <3>1. CASE Accepted(Other)
      BY <1>0, <3>1, AcceptedIs
    <3>2. CASE Refused(Other)
      BY <1>0, <3>2, RefusedIs
    <3>3. QED
      BY <2>1, <3>1, <3>2
  <2>3. /\ used'.events = used.events /\ used'.overflows = used.overflows
        /\ used'.fails = used.fails /\ used'.boots = used.boots
    BY <1>0, <2>1 DEF Usage
  <2>4. QED
    BY <2>1, <2>2, <2>3 DEF Quiet
<1>3. CASE LinkBreaks
  <2>1. /\ UNCHANGED <<queue, nvs, buf, seen, published, refused, task>>
        /\ used' = [used EXCEPT !.losses = @ + 1] /\ wire' = <<>>
    BY <1>3 DEF LinkBreaks
  <2>2. /\ used'.events = used.events /\ used'.overflows = used.overflows
        /\ used'.fails = used.fails /\ used'.boots = used.boots
    BY <1>0, <2>1 DEF Usage
  <2>3. refused' \in Nat /\ refused <= refused'
    BY <1>0, <2>1
  <2>4. QED
    BY <2>1, <2>2, <2>3 DEF Quiet
<1>4. CASE PubAck \/ UNCHANGED vars
  BY <1>0, <1>4 DEF PubAck, vars, Quiet
<1>5. CASE PublishFails
  <2>1. /\ task = "publish" /\ Refused(buf) /\ task' = "loop"
        /\ UNCHANGED <<queue, nvs, buf, seen, published, used>>
    BY <1>5 DEF PublishFails
  <2>2. buf \in Events /\ ~Holding'
    BY <2>1 DEF TypeInv, Holding
  <2>3. /\ refused' \in Nat
        /\ \/ wire' = wire /\ refused <= refused'
           \/ refused' = refused + 1 /\ \E p \in Message : p.msg = buf /\ wire' = Append(wire, p)
    BY <1>0, <2>1, <2>2, RefusedIs
  <2>4. QED
    BY <2>1, <2>2, <2>3 DEF Quiet, Late
<1>6. QED
  BY <1>1, <1>2, <1>3, <1>4, <1>5 DEF Next, AwsIotTask

\* The queue's numbers.
LEMMA QueueIs ==
    ASSUME TypeInv, QueueInv, Kept
    PROVE  /\ queue \in Seq(Events) /\ Len(queue) \in Nat /\ Len(queue) <= PAIRING_EVENTS_MAX
           /\ Dropped \in Nat /\ Dropped + Len(queue) = used.events /\ Dropped <= used.events
           /\ queue # <<>> => Head(queue) = Dropped + 1
           /\ Range(queue) = Dropped + 1 .. used.events
           /\ Unpublished = {e \in 1..Dropped : e \notin published}
           /\ IsFiniteSet(Unpublished) /\ Cardinality(Unpublished) \in Nat
<1>1. /\ queue \in Seq(Events) /\ Len(queue) \in Nat /\ Len(queue) <= PAIRING_EVENTS_MAX
      /\ used.events \in Nat
  BY UsageIs DEF TypeInv, TypeOK
<1>2. /\ Len(queue) <= used.events /\ \A k \in 1..Len(queue) : queue[k] = Dropped + k
  BY <1>1 DEF QueueInv
<1>3. Dropped \in Nat /\ Dropped + Len(queue) = used.events /\ Dropped <= used.events
  BY <1>1, <1>2 DEF Dropped
<1> HIDE DEF Dropped
<1>4. queue # <<>> => Head(queue) = Dropped + 1
  BY <1>1, <1>2
<1>5. Range(queue) = Dropped + 1 .. used.events
  <2>1. Range(queue) = {queue[k] : k \in 1..Len(queue)}
    BY <1>1 DEF Range
  <2>2. \A k \in 1..Len(queue) : queue[k] \in Dropped + 1 .. used.events
    BY <1>1, <1>2, <1>3
  <2>3. \A e \in Dropped + 1 .. used.events : e - Dropped \in 1..Len(queue) /\ queue[e - Dropped] = e
    BY <1>1, <1>2, <1>3
  <2>4. QED
    BY <2>1, <2>2, <2>3
<1>6. Unpublished = {e \in 1..Dropped : e \notin published}
  BY <1>1, <1>3, <1>5 DEF Unpublished
<1>7. IsFiniteSet(Unpublished) /\ Cardinality(Unpublished) \in Nat
  <2>1. IsFiniteSet(1..Dropped) /\ Unpublished \subseteq 1..Dropped
    BY <1>3, <1>6, FS_Interval
  <2>2. QED
    BY <2>1, FS_Subset, FS_CardinalityType
<1>8. QED
  BY <1>1, <1>3, <1>4, <1>5, <1>6, <1>7

\* A push that is stored: with room nothing leaves, without room one event.
LEMMA PushIs ==
    ASSUME TypeInv, QueueInv, Push, Kept'
    PROVE  /\ Kept /\ nvs' = queue' /\ UNCHANGED <<buf, task, wire, seen, published, refused>>
           /\ used'.events = used.events + 1 /\ used'.boots = used.boots
           /\ Len(queue') <= used'.events
           /\ \A k \in DOMAIN queue' : queue'[k] = Dropped' + k
           /\ \/ Dropped' = Dropped /\ used'.overflows = used.overflows
              \/ Dropped' = Dropped + 1 /\ used'.overflows = used.overflows + 1
<1> DEFINE full == IF Len(queue) >= PAIRING_EVENTS_MAX THEN 1 ELSE 0
           counted == [used EXCEPT !.events = @ + 1, !.overflows = @ + full]
           failed == [counted EXCEPT !.fails = @ + 1]
<1>0. used \in Usage /\ used.fails \in Nat /\ used.events \in Nat /\ used.overflows \in Nat
  BY UsageIs DEF TypeInv
<1>1. /\ counted.fails = used.fails /\ counted.events = used.events + 1
      /\ counted.overflows = used.overflows + full /\ counted.boots = used.boots
      /\ failed.fails = used.fails + 1
  BY <1>0 DEF Usage
<1>2. \/ nvs' = queue' /\ used' = counted
      \/ used' = failed
  BY DEF Push
<1>3. /\ queue' = Enqueue(queue, used.events + 1) /\ used.events < MaxEvents
      /\ UNCHANGED <<buf, task, wire, seen, published, refused>>
  BY DEF Push
<1> HIDE DEF counted, failed
<1>4. nvs' = queue' /\ used' = counted
  <2>1. used'.fails = 0
    BY DEF Kept
  <2>2. failed.fails # 0
    BY <1>0, <1>1
  <2>3. used' # failed
    BY <2>1, <2>2
  <2>4. QED
    BY <1>2, <2>3
<1>5. Kept
  <2>1. used'.fails = 0
    BY DEF Kept
  <2>2. QED
    BY <1>1, <1>4, <2>1 DEF Kept
<1>6. /\ queue \in Seq(Events) /\ Len(queue) \in Nat /\ Len(queue) <= PAIRING_EVENTS_MAX
      /\ Dropped \in Nat /\ Dropped + Len(queue) = used.events /\ PAIRING_EVENTS_MAX \in Nat \ {0}
  BY <1>5, QueueIs, EventsAre
<1>7. \A k \in 1..Len(queue) : queue[k] = Dropped + k
  BY <1>5, <1>6 DEF QueueInv
<1>8. used.events + 1 \in Events
  BY <1>0, <1>3, EventsAre
<1>9. used'.events = used.events + 1 /\ Dropped' = used'.events - Len(queue')
  BY <1>1, <1>4 DEF Dropped
<1>10. CASE Len(queue) >= PAIRING_EVENTS_MAX
  <2>1. /\ Len(queue') = Len(queue) /\ queue' \in Seq(Events)
        /\ \A k \in 1..Len(queue) : queue'[k] = IF k = Len(queue) THEN used.events + 1 ELSE queue[k + 1]
    <3>1. /\ Len(Enqueue(queue, used.events + 1)) = Len(queue)
          /\ Enqueue(queue, used.events + 1) \in Seq(Events)
          /\ \A k \in 1..Len(queue) :
                Enqueue(queue, used.events + 1)[k] = IF k = Len(queue) THEN used.events + 1 ELSE queue[k + 1]
      BY <1>6, <1>8, <1>10, EnqueueIs
    <3>2. QED
      BY <1>3, <3>1, Zenon
  <2>2. Dropped' = Dropped + 1 /\ used'.overflows = used.overflows + 1
    <3>1. Len(queue') = Len(queue)
      BY <2>1
    <3>2. Dropped' = Dropped + 1
      BY <1>0, <1>6, <1>9, <3>1
    <3>3. full = 1
      BY <1>10
    <3>4. used'.overflows = used.overflows + full
      BY <1>1, <1>4
    <3>5. QED
      BY <3>2, <3>3, <3>4
  <2>3. \A k \in 1..Len(queue) : queue'[k] = Dropped + 1 + k
    <3>1. TAKE k \in 1..Len(queue)
    <3>2. CASE k = Len(queue)
      BY <1>6, <2>1, <3>2
    <3>3. CASE k # Len(queue)
      <4>1. k + 1 \in 1..Len(queue) /\ queue[k + 1] = Dropped + (k + 1)
        BY <1>6, <1>7, <3>3
      <4>2. QED
        BY <1>6, <2>1, <3>3, <4>1
    <3>4. QED
      BY <3>2, <3>3
  <2>4. Len(queue') <= used'.events
    BY <1>0, <1>6, <1>9, <2>1
  <2>5. \A k \in DOMAIN queue' : queue'[k] = Dropped' + k
    <3>1. DOMAIN queue' = 1..Len(queue)
      BY <2>1
    <3>2. QED
      BY <2>2, <2>3, <3>1, Zenon
  <2>6. used'.boots = used.boots
    BY <1>1, <1>4
  <2>7. QED
    BY <1>3, <1>4, <1>5, <1>9, <2>2, <2>4, <2>5, <2>6
<1>11. CASE Len(queue) < PAIRING_EVENTS_MAX
  <2>1. /\ Len(queue') = Len(queue) + 1 /\ queue' \in Seq(Events)
        /\ \A k \in 1..Len(queue) + 1 : queue'[k] = IF k = Len(queue) + 1 THEN used.events + 1 ELSE queue[k]
    <3>1. /\ Len(Enqueue(queue, used.events + 1)) = Len(queue) + 1
          /\ Enqueue(queue, used.events + 1) \in Seq(Events)
          /\ \A k \in 1..Len(queue) + 1 :
                Enqueue(queue, used.events + 1)[k] = IF k = Len(queue) + 1 THEN used.events + 1 ELSE queue[k]
      BY <1>6, <1>8, <1>11, EnqueueIs
    <3>2. QED
      BY <1>3, <3>1, Zenon
  <2>2. Dropped' = Dropped /\ used'.overflows = used.overflows
    <3>1. Len(queue') = Len(queue) + 1
      BY <2>1
    <3>2. Dropped' = Dropped
      BY <1>0, <1>6, <1>9, <3>1
    <3>3. full = 0
      BY <1>6, <1>11
    <3>4. used'.overflows = used.overflows + full
      BY <1>1, <1>4
    <3>5. QED
      BY <1>0, <3>2, <3>3, <3>4
  <2>3. \A k \in 1..Len(queue) + 1 : queue'[k] = Dropped + k
    BY <1>6, <1>7, <2>1
  <2>4. Len(queue') <= used'.events
    BY <1>0, <1>6, <1>9, <2>1
  <2>5. QED
    BY <1>1, <1>3, <1>4, <1>5, <1>9, <2>1, <2>2, <2>3, <2>4
<1>12. QED
  BY <1>6, <1>10, <1>11

\* A pop that is stored: the oldest event leaves, if there is one.
LEMMA PopIs ==
    ASSUME TypeInv, QueueInv, Pop, Kept'
    PROVE  /\ Kept /\ nvs' = queue' /\ UNCHANGED <<buf, wire, seen, published, refused, used>>
           /\ task = "pop" /\ task' = "loop"
           /\ Len(queue') <= used'.events
           /\ \A k \in DOMAIN queue' : queue'[k] = Dropped' + k
           /\ \/ Dropped' = Dropped /\ Dropped = used.events
              \/ Dropped' = Dropped + 1
<1>0. used \in Usage /\ used.fails \in Nat /\ used.events \in Nat
  BY UsageIs DEF TypeInv
<1>1. task = "pop" /\ task' = "loop" /\ UNCHANGED <<buf, wire, seen, published, refused>>
  BY DEF Pop
<1>2. [used EXCEPT !.fails = @ + 1].fails = used.fails + 1
  BY <1>0 DEF Usage
<1>3. \/ queue = <<>> /\ UNCHANGED <<queue, nvs, used>>
      \/ queue # <<>> /\ queue' = Tail(queue) /\ nvs' = Tail(queue) /\ used' = used
  <2>1. \/ queue = <<>> /\ UNCHANGED <<queue, nvs, used>>
        \/ /\ queue # <<>> /\ queue' = Tail(queue)
           /\ (nvs' = Tail(queue) /\ used' = used) \/ used' = [used EXCEPT !.fails = @ + 1]
    BY DEF Pop, NvsStore
  <2>2. used' # [used EXCEPT !.fails = @ + 1]
    <3>1. used'.fails = 0
      BY DEF Kept
    <3>2. used.fails + 1 # 0
      BY <1>0
    <3>3. QED
      BY <1>2, <3>1, <3>2
  <2>3. QED
    BY <2>1, <2>2
<1>4. Kept
  BY <1>3 DEF Kept
<1>5. /\ queue \in Seq(Events) /\ Len(queue) \in Nat /\ Dropped \in Nat /\ Dropped + Len(queue) = used.events
  BY <1>4, QueueIs
<1>6. nvs = queue /\ \A k \in 1..Len(queue) : queue[k] = Dropped + k
  BY <1>4, <1>5 DEF QueueInv
<1>7. CASE queue = <<>>
  <2>1. UNCHANGED <<queue, nvs, used>> /\ Dropped' = Dropped /\ Dropped = used.events
    BY <1>3, <1>5, <1>7 DEF Dropped
  <2>2. QED
    BY <1>1, <1>4, <1>5, <1>6, <2>1
<1>8. CASE queue # <<>>
  <2>1. queue' = Tail(queue) /\ nvs' = queue' /\ used' = used
    BY <1>3, <1>8
  <2>2. /\ queue' \in Seq(Events) /\ Len(queue') = Len(queue) - 1
        /\ \A k \in 1..Len(queue') : queue'[k] = queue[k + 1]
    BY <1>5, <1>8, <2>1
  <2>3. Dropped' = Dropped + 1
    BY <1>0, <1>5, <2>1, <2>2 DEF Dropped
  <2>4. \A k \in 1..Len(queue') : queue'[k] = Dropped + 1 + k
    BY <1>5, <1>6, <2>2
  <2>5. Len(queue') <= used'.events
    BY <1>5, <2>1, <2>2
  <2>6. QED
    BY <1>1, <1>4, <2>1, <2>2, <2>3, <2>4, <2>5
<1>9. QED
  BY <1>7, <1>8

\* A power loss: pairing_events_init() gets the queue back as it was.
LEMMA RebootIs ==
    ASSUME TypeInv, QueueInv, Reboot, Kept'
    PROVE  /\ Kept /\ UNCHANGED <<queue, nvs, seen, published, refused>> /\ wire' = <<>> /\ task' = "start"
           /\ used'.events = used.events /\ used'.overflows = used.overflows
           /\ used'.boots = used.boots + 1
           /\ Dropped' = Dropped
<1>0. used \in Usage
  BY DEF TypeInv
<1>1. used' = [used EXCEPT !.boots = @ + 1]
  BY DEF Reboot
<1>2. /\ used'.events = used.events /\ used'.overflows = used.overflows /\ used'.fails = used.fails
      /\ used'.boots = used.boots + 1
  BY <1>0, <1>1 DEF Usage
<1>3. Kept
  BY <1>2 DEF Kept
<1>4. UNCHANGED <<queue, nvs, seen, published, refused>> /\ wire' = <<>> /\ task' = "start"
  BY <1>3 DEF Reboot, QueueInv
<1>5. QED
  BY <1>2, <1>3, <1>4 DEF Dropped
-----------------------------------------------------------------------------
(* The queue and the buffer *)

LEMMA QueueInit == Init => QueueInv /\ BufInv
  BY DEF Init, QueueInv, BufInv, Holding

LEMMA QueueNext ==
    ASSUME TypeInv, QueueInv, [Next]_vars
    PROVE  QueueInv'
<1>1. CASE Push
  BY <1>1, PushIs DEF QueueInv
<1>2. CASE Pop
  BY <1>2, PopIs DEF QueueInv
<1>3. CASE Reboot
  BY <1>3, RebootIs DEF QueueInv
<1>4. CASE Quiet
  BY <1>4 DEF Quiet, QueueInv, Kept, Dropped
<1>5. CASE Peek \/ PublishEvent \/ BrokerTakes \/ Late
  BY <1>5 DEF Peek, PublishEvent, BrokerTakes, Late, QueueInv, Kept, Dropped
<1>6. QED
  BY <1>1, <1>2, <1>3, <1>4, <1>5, StepIs

LEMMA BufNext ==
    ASSUME TypeInv, QueueInv, BufInv, [Next]_vars
    PROVE  BufInv'
<1>0. /\ used.events \in Nat /\ (Kept => Dropped \in Nat)
      /\ Holding => buf \in Nat
  BY UsageIs, QueueIs, EventsAre DEF TypeInv
<1>1. CASE Push
  <2>1. SUFFICES ASSUME Kept', Holding' PROVE BufInv'
    BY DEF BufInv
  <2>2. /\ Kept /\ UNCHANGED <<buf, task, published>> /\ used'.events = used.events + 1
        /\ Dropped' = Dropped \/ Dropped' = Dropped + 1
    BY <1>1, <2>1, PushIs
  <2>3. Holding /\ buf <= Dropped + 1 /\ buf <= used.events /\ (task = "pop" => buf \in published)
    BY <2>1, <2>2 DEF BufInv, Holding
  <2>4. buf <= Dropped' + 1 /\ buf <= used'.events
    BY <1>0, <2>2, <2>3
  <2>5. QED
    BY <2>2, <2>3, <2>4 DEF BufInv
<1>2. CASE Pop \/ Reboot \/ Late
  BY <1>2 DEF Pop, Reboot, Late, BufInv, Holding
<1>3. CASE Quiet
  BY <1>3 DEF Quiet, BufInv, Kept, Dropped, Holding
<1>4. CASE Peek
  <2>1. /\ buf' = Head(queue) /\ queue # <<>> /\ task' = "publish" /\ UNCHANGED <<queue, used, published>>
    BY <1>4 DEF Peek
  <2>2. Kept => buf' = Dropped + 1 /\ Dropped + 1 <= used.events
    BY <1>0, <2>1, QueueIs
  <2>3. Dropped' = Dropped
    BY <2>1 DEF Dropped
  <2>4. QED
    BY <1>0, <2>1, <2>2, <2>3 DEF BufInv, Kept
<1>5. CASE PublishEvent
  BY <1>5 DEF PublishEvent, BufInv, Kept, Dropped, Holding
<1>6. CASE BrokerTakes
  BY <1>6 DEF BrokerTakes, BufInv, Kept, Dropped, Holding
<1>7. QED
  BY <1>1, <1>2, <1>3, <1>4, <1>5, <1>6, StepIs
-----------------------------------------------------------------------------
(* Losses *)

\* A queue of the events behind d: what is neither published nor queued is
\* among the first d.
LEMMA Behind ==
    ASSUME NEW q \in Seq(Events), NEW m \in Nat, NEW d \in Nat, d + Len(q) = m,
           \A k \in DOMAIN q : q[k] = d + k, NEW P
    PROVE  {e \in 1..m : e \notin P /\ e \notin Range(q)} = {e \in 1..d : e \notin P}
<1>1. Range(q) = {q[k] : k \in 1..Len(q)} /\ Len(q) \in Nat
  BY DEF Range
<1>2. \A k \in 1..Len(q) : q[k] \in d + 1 .. m
  BY <1>1
<1>3. \A e \in d + 1 .. m : e - d \in 1..Len(q) /\ q[e - d] = e
  BY <1>1
<1>4. Range(q) = d + 1 .. m
  BY <1>1, <1>2, <1>3
<1>5. QED
  BY <1>1, <1>4

LEMMA UnpublishedNext ==
    ASSUME TypeInv, QueueInv, [Next]_vars, Kept'
    PROVE  Dropped' \in Nat /\ Unpublished' = {e \in 1..Dropped' : e \notin published'}
<1>1. TypeInv' /\ QueueInv'
  BY TypeNext, QueueNext
<1>2. queue' \in Seq(Events) /\ Len(queue') \in Nat /\ used'.events \in Nat
  BY <1>1, EventsAre DEF TypeInv, TypeOK, Usage
<1>3. Len(queue') <= used'.events /\ \A k \in DOMAIN queue' : queue'[k] = Dropped' + k
  BY <1>1 DEF QueueInv
<1>4. Dropped' = used'.events - Len(queue')
  BY DEF Dropped
<1>5. Dropped' \in Nat /\ Dropped' + Len(queue') = used'.events
  BY <1>2, <1>3, <1>4
<1>6. Unpublished' = {e \in 1..used'.events : e \notin published' /\ e \notin Range(queue')}
  BY DEF Unpublished
<1> DEFINE q == queue'
           m == used'.events
           d == Dropped'
           P == published'
<1>7. /\ q \in Seq(Events) /\ m \in Nat /\ d \in Nat /\ d + Len(q) = m
      /\ \A k \in DOMAIN q : q[k] = d + k
  BY <1>2, <1>3, <1>5
<1>8. Unpublished' = {e \in 1..m : e \notin P /\ e \notin Range(q)}
  BY <1>6
<1> HIDE DEF q, m, d, P
<1>9. Unpublished' = {e \in 1..d : e \notin P}
  BY <1>7, <1>8, Behind
<1>10. QED
  BY <1>5, <1>9 DEF d, P

\* One element more.
LEMMA OneMore ==
    ASSUME NEW S, IsFiniteSet(S), NEW T, NEW x, T \subseteq S \cup {x}
    PROVE  /\ Cardinality(S) \in Nat /\ Cardinality(T) \in Nat
           /\ Cardinality(T) <= Cardinality(S) + 1
           /\ x \notin T => Cardinality(T) <= Cardinality(S)
<1>1. /\ IsFiniteSet(S \cup {x}) /\ Cardinality(S) \in Nat
      /\ \/ Cardinality(S \cup {x}) = Cardinality(S)
         \/ Cardinality(S \cup {x}) = Cardinality(S) + 1
  BY FS_AddElement, FS_CardinalityType
<1>2. IsFiniteSet(T) /\ Cardinality(T) <= Cardinality(S \cup {x}) /\ Cardinality(T) \in Nat
  BY <1>1, FS_Subset, FS_CardinalityType
<1>3. x \notin T => Cardinality(T) <= Cardinality(S)
  BY FS_Subset
<1>4. QED
  BY <1>1, <1>2, <1>3

LEMMA LossInit == Init => LossInv
<1>1. ASSUME Init PROVE LossInv
  <2>1. Unpublished = {} /\ used.overflows = 0 /\ ~Holding
    BY <1>1 DEF Init, Unpublished, Holding
  <2>2. QED
    BY <2>1, FS_EmptySet DEF LossInv
<1>2. QED
  BY <1>1

LEMMA LossNext ==
    ASSUME TypeInv, QueueInv, BufInv, LossInv, [Next]_vars
    PROVE  LossInv'
<1> SUFFICES ASSUME Kept' PROVE LossInv'
  BY DEF LossInv
<1>0. /\ used.events \in Nat /\ used.overflows \in Nat /\ (Holding => buf \in Nat)
  BY UsageIs, EventsAre DEF TypeInv
<1>u. Dropped' \in Nat /\ Unpublished' = {e \in 1..Dropped' : e \notin published'}
  BY UnpublishedNext
<1>k. ASSUME Kept
      PROVE  /\ Dropped \in Nat /\ Unpublished = {e \in 1..Dropped : e \notin published}
             /\ IsFiniteSet(Unpublished) /\ Cardinality(Unpublished) \in Nat
             /\ IsFiniteSet(Unpublished \ {buf}) /\ Cardinality(Unpublished \ {buf}) \in Nat
             /\ Cardinality(Unpublished \ {buf}) <= Cardinality(Unpublished)
             /\ Cardinality(Unpublished) <= used.overflows
             /\ Holding /\ buf <= Dropped => Cardinality(Unpublished \ {buf}) + 1 <= used.overflows
  <2>1. Dropped \in Nat /\ Unpublished = {e \in 1..Dropped : e \notin published}
        /\ IsFiniteSet(Unpublished) /\ Cardinality(Unpublished) \in Nat
    BY <1>k, QueueIs
  <2>2. /\ IsFiniteSet(Unpublished \ {buf}) /\ Cardinality(Unpublished \ {buf}) \in Nat
        /\ Cardinality(Unpublished \ {buf}) <= Cardinality(Unpublished)
    BY <2>1, FS_Subset, FS_CardinalityType
  <2>3. QED
    BY <1>k, <2>1, <2>2 DEF LossInv
\* Steps by which no event leaves the queue.
<1>s. ASSUME Kept, Dropped' = Dropped, UNCHANGED published, used'.overflows = used.overflows,
             Holding' => (Holding /\ buf' = buf) \/ buf' > Dropped'
      PROVE  LossInv'
  <2>1. Unpublished' = Unpublished
    BY <1>s, <1>u, <1>k
  <2>2. Holding' /\ buf' <= Dropped' => Holding /\ buf' = buf
    <3>1. SUFFICES ASSUME Holding', buf' <= Dropped' PROVE Holding /\ buf' = buf
      OBVIOUS
    <3>2. buf' \in Nat
      BY <3>1, TypeNext, EventsAre DEF TypeInv
    <3>3. QED
      BY <1>s, <1>u, <3>1, <3>2
  <2>3. QED
    BY <1>s, <1>k, <2>1, <2>2 DEF LossInv
<1>1. CASE Push
  <2>1. Kept /\ UNCHANGED <<buf, task, published>>
    BY <1>1, PushIs
  <2>2. CASE Dropped' = Dropped /\ used'.overflows = used.overflows
    BY <1>s, <2>1, <2>2 DEF Holding
  <2>3. CASE Dropped' = Dropped + 1 /\ used'.overflows = used.overflows + 1
    <3>1. Unpublished' \subseteq Unpublished \cup {Dropped + 1}
      BY <1>u, <1>k, <2>1, <2>3
    <3>2. Cardinality(Unpublished') <= used'.overflows
      <4>1. Cardinality(Unpublished') <= Cardinality(Unpublished) + 1 /\ Cardinality(Unpublished') \in Nat
        BY <1>k, <2>1, <3>1, OneMore
      <4>2. QED
        BY <1>0, <1>k, <2>1, <2>3, <4>1
    <3>3. ASSUME Holding', buf' <= Dropped'
          PROVE  Cardinality(Unpublished' \ {buf'}) + 1 <= used'.overflows
      <4>1. Holding /\ buf' = buf /\ buf \in Nat /\ buf <= Dropped + 1
        BY <1>0, <2>1, <2>3, <3>3 DEF Holding
      <4>2. CASE buf <= Dropped
        <5>1. Unpublished' \ {buf} \subseteq (Unpublished \ {buf}) \cup {Dropped + 1}
          BY <3>1
        <5>2. /\ Cardinality(Unpublished' \ {buf}) <= Cardinality(Unpublished \ {buf}) + 1
              /\ Cardinality(Unpublished' \ {buf}) \in Nat
          BY <1>k, <2>1, <5>1, OneMore
        <5>3. Cardinality(Unpublished \ {buf}) + 1 <= used.overflows
          BY <1>k, <2>1, <4>1, <4>2
        <5>4. QED
          BY <1>0, <1>k, <2>1, <2>3, <4>1, <5>2, <5>3
      <4>3. CASE buf = Dropped + 1
        <5>1. Unpublished' \ {buf} \subseteq Unpublished
          BY <3>1, <4>3
        <5>2. Cardinality(Unpublished' \ {buf}) <= Cardinality(Unpublished) /\ Cardinality(Unpublished' \ {buf}) \in Nat
          BY <1>k, <2>1, <5>1, FS_Subset, FS_CardinalityType
        <5>3. QED
          BY <1>0, <1>k, <2>1, <2>3, <4>1, <5>2
      <4>4. QED
        BY <1>k, <2>1, <4>1, <4>2, <4>3
    <3>4. QED
      BY <3>2, <3>3 DEF LossInv
  <2>4. QED
    BY <1>1, <2>2, <2>3, PushIs
<1>2. CASE Pop
  <2>1. /\ Kept /\ UNCHANGED <<published, used>> /\ task = "pop" /\ task' = "loop"
        /\ Dropped' = Dropped \/ Dropped' = Dropped + 1
    BY <1>2, PopIs
  <2>2. Holding /\ ~Holding' /\ buf <= Dropped + 1 /\ buf \in published /\ buf \in Nat
    BY <1>0, <2>1 DEF BufInv, Holding
  <2>3. CASE Dropped' = Dropped
    BY <1>s, <2>1, <2>2, <2>3
  <2>4. CASE Dropped' = Dropped + 1
    <3>1. Unpublished' \subseteq Unpublished \cup {Dropped + 1}
      BY <1>u, <1>k, <2>1, <2>4
    <3>2. CASE buf <= Dropped
      <4>1. Unpublished \ {buf} = Unpublished
        BY <1>k, <2>1, <2>2
      <4>2. Cardinality(Unpublished) + 1 <= used.overflows
        BY <1>k, <2>1, <2>2, <3>2, <4>1
      <4>3. Cardinality(Unpublished') <= Cardinality(Unpublished) + 1 /\ Cardinality(Unpublished') \in Nat
        BY <1>k, <2>1, <3>1, OneMore
      <4>4. Cardinality(Unpublished') <= used'.overflows
        BY <1>0, <1>k, <2>1, <4>2, <4>3
      <4>5. QED
        BY <2>2, <4>4 DEF LossInv
    <3>3. CASE buf = Dropped + 1
      <4>1. Dropped + 1 \notin Unpublished'
        BY <1>u, <2>1, <2>2, <3>3
      <4>2. Cardinality(Unpublished') <= Cardinality(Unpublished) /\ Cardinality(Unpublished') \in Nat
        BY <1>k, <2>1, <3>1, <4>1, OneMore
      <4>3. Cardinality(Unpublished') <= used'.overflows
        BY <1>0, <1>k, <2>1, <4>2
      <4>4. QED
        BY <2>2, <4>3 DEF LossInv
    <3>4. QED
      BY <1>k, <2>1, <2>2, <3>2, <3>3
  <2>5. QED
    BY <2>1, <2>3, <2>4
<1>3. CASE Reboot
  <2>1. Kept /\ UNCHANGED published /\ used'.overflows = used.overflows /\ Dropped' = Dropped /\ ~Holding'
    BY <1>3, RebootIs DEF Holding
  <2>2. QED
    BY <1>s, <2>1
<1>4. CASE Quiet \/ Late
  <2>1. Kept /\ UNCHANGED <<published, buf>> /\ used'.overflows = used.overflows /\ Dropped' = Dropped
    BY <1>4 DEF Quiet, Late, Kept, Dropped
  <2>2. Holding' => Holding
    BY <1>4 DEF Quiet, Late, Holding
  <2>3. QED
    BY <1>s, <2>1, <2>2
<1>5. CASE Peek
  <2>1. buf' = Head(queue) /\ queue # <<>> /\ UNCHANGED <<queue, used, published>>
    BY <1>5 DEF Peek
  <2>2. Kept /\ Dropped' = Dropped
    BY <2>1 DEF Kept, Dropped
  <2>3. buf' > Dropped'
    BY <1>k, <2>1, <2>2, QueueIs
  <2>4. QED
    BY <1>s, <2>1, <2>2, <2>3
<1>6. CASE PublishEvent
  <2>1. /\ task = "publish" /\ published' = published \cup {buf} /\ UNCHANGED <<queue, used, buf>>
    BY <1>6 DEF PublishEvent
  <2>2. Kept /\ Dropped' = Dropped /\ Holding /\ used'.overflows = used.overflows
    BY <2>1 DEF Kept, Dropped, Holding
  <2>3. Unpublished' = Unpublished \ {buf} /\ Unpublished' \ {buf'} = Unpublished \ {buf}
    BY <1>u, <1>k, <2>1, <2>2
  <2>4. Cardinality(Unpublished') <= used'.overflows
    BY <1>0, <1>k, <2>2, <2>3
  <2>5. buf' <= Dropped' => Cardinality(Unpublished' \ {buf'}) + 1 <= used'.overflows
    BY <1>k, <2>1, <2>2, <2>3
  <2>6. QED
    BY <2>4, <2>5 DEF LossInv
<1>7. CASE BrokerTakes
  <2>1. UNCHANGED <<queue, used, published, buf, task>>
    BY <1>7 DEF BrokerTakes
  <2>2. Kept /\ Dropped' = Dropped /\ (Holding' => Holding)
    BY <2>1 DEF Kept, Dropped, Holding
  <2>3. QED
    BY <1>s, <2>1, <2>2
<1>8. QED
  BY <1>1, <1>2, <1>3, <1>4, <1>5, <1>6, <1>7, StepIs
-----------------------------------------------------------------------------
(* Order *)

LEMMA AppendIs ==
    ASSUME NEW S, NEW s \in Seq(S), NEW x \in S
    PROVE  /\ Len(s) \in Nat /\ DOMAIN s = 1..Len(s)
           /\ Append(s, x) \in Seq(S) /\ Len(Append(s, x)) = Len(s) + 1
           /\ DOMAIN Append(s, x) = 1..Len(s) + 1
           /\ \A j \in 1..Len(s) : Append(s, x)[j] = s[j]
           /\ Append(s, x)[Len(s) + 1] = x
  OBVIOUS

LEMMA TailIs ==
    ASSUME NEW S, NEW s \in Seq(S), s # <<>>
    PROVE  /\ Len(s) \in Nat /\ DOMAIN s = 1..Len(s) /\ 1 \in DOMAIN s /\ Head(s) = s[1] /\ Head(s) \in S
           /\ Tail(s) \in Seq(S) /\ DOMAIN Tail(s) = 1..Len(s) - 1
           /\ \A j \in 1..Len(s) - 1 : Tail(s)[j] = s[j + 1] /\ j + 1 \in DOMAIN s
  OBVIOUS

\* One more is still above.
LEMMA OneAbove ==
    ASSUME NEW a \in Nat, NEW b \in Nat, a <= b
    PROVE  a <= b + 1
  OBVIOUS

\* The elements of a sequence of numbers are numbers.
LEMMA RangeOfNumbers ==
    ASSUME NEW S \in SUBSET Nat, NEW s \in Seq(S)
    PROVE  Range(s) \subseteq Nat
<1>1. \A k \in DOMAIN s : s[k] \in S
  OBVIOUS
<1>2. QED
  BY <1>1 DEF Range

\* The bound only moves up.
LEMMA BoundGrows ==
    ASSUME TypeInv, QueueInv, BufInv, [Next]_vars, Kept'
    PROVE  /\ Kept /\ SeenBound \in Int /\ SeenBound' \in Int
           /\ SeenBound <= SeenBound'
<1>t. TypeInv' /\ QueueInv'
  BY TypeNext, QueueNext
<1>1. /\ Holding => buf \in Nat
      /\ Holding' => buf' \in Nat
      /\ used.events \in Nat /\ Dropped' \in Nat
  BY <1>t, UsageIs, EventsAre, UnpublishedNext DEF TypeInv
<1>2. Kept
  BY PushIs, PopIs, RebootIs, StepIs DEF Quiet, Late, Peek, PublishEvent, BrokerTakes, Kept
<1>3. Dropped \in Nat /\ (Holding => buf <= Dropped + 1 /\ buf <= used.events)
  BY <1>2, QueueIs DEF BufInv
<1> HIDE DEF Dropped
<1>4. SeenBound \in Int /\ SeenBound <= Dropped + 1
  BY <1>1, <1>3 DEF SeenBound
<1>5. SeenBound' \in Int
  BY <1>1 DEF SeenBound
<1>6. CASE Push
  <2>1. UNCHANGED <<buf, task>> /\ (Dropped' = Dropped \/ Dropped' = Dropped + 1)
    BY <1>6, PushIs
  <2>2. SeenBound <= SeenBound'
    <3>1. CASE Holding
      <4>1. SeenBound' = SeenBound
        BY <2>1, <3>1 DEF SeenBound, Holding
      <4>2. QED
        BY <1>4, <4>1
    <3>2. CASE ~Holding
      <4>1. SeenBound = Dropped + 1 /\ SeenBound' = Dropped' + 1
        BY <2>1, <3>2 DEF SeenBound, Holding
      <4>2. QED
        BY <1>3, <2>1, <4>1
    <3>3. QED
      BY <3>1, <3>2
  <2>3. QED
    BY <1>2, <1>4, <1>5, <2>2
<1>7. CASE Pop
  <2>1. /\ task = "pop" /\ task' = "loop"
        /\ \/ Dropped' = Dropped /\ Dropped = used.events
           \/ Dropped' = Dropped + 1
    BY <1>7, PopIs
  <2>2. buf <= Dropped' /\ buf \in Nat
    BY <1>1, <1>3, <2>1 DEF Holding
  <2>3. SeenBound = buf /\ SeenBound' = Dropped' + 1 /\ Dropped' \in Nat
    BY <1>1, <2>1 DEF SeenBound, Holding
  <2>4. buf <= Dropped' + 1
    BY <2>2, <2>3, OneAbove
  <2>5. QED
    BY <1>2, <1>4, <1>5, <2>3, <2>4
<1>8. CASE Reboot \/ Late
  <2>1. task' \in {"start", "loop"} /\ Dropped' = Dropped
    BY <1>8, RebootIs DEF Late, Dropped
  <2>2. SeenBound' = Dropped + 1
    BY <2>1 DEF SeenBound, Holding
  <2>3. QED
    BY <1>2, <1>4, <1>5, <2>2
<1>9. CASE Quiet
  <2>1. UNCHANGED buf /\ Dropped' = Dropped /\ (task' = task \/ (task # "pop" /\ ~Holding'))
    BY <1>9 DEF Quiet, Dropped
  <2>2. CASE task' = task
    <3>1. SeenBound' = SeenBound
      BY <2>1, <2>2 DEF SeenBound, Holding
    <3>2. QED
      BY <1>2, <1>4, <1>5, <3>1
  <2>3. CASE task # "pop" /\ ~Holding'
    <3>1. SeenBound' = Dropped + 1
      BY <2>1, <2>3 DEF SeenBound
    <3>2. QED
      BY <1>2, <1>4, <1>5, <3>1
  <2>4. QED
    BY <2>1, <2>2, <2>3
<1>10. CASE Peek
  <2>1. task = "loop" /\ task' = "publish" /\ buf' = Head(queue) /\ queue # <<>> /\ Dropped' = Dropped
    BY <1>10 DEF Peek, Dropped
  <2>2. buf' = Dropped + 1
    BY <1>2, <2>1, QueueIs
  <2>3. SeenBound' = SeenBound
    BY <1>3, <2>1, <2>2 DEF SeenBound, Holding
  <2>4. QED
    BY <1>2, <1>4, <1>5, <2>3
<1>11. CASE PublishEvent
  <2>1. task = "publish" /\ task' = "pop" /\ UNCHANGED buf
    BY <1>11 DEF PublishEvent
  <2>2. SeenBound' = SeenBound
    BY <1>1, <2>1 DEF SeenBound, Holding
  <2>3. QED
    BY <1>2, <1>4, <1>5, <2>2
<1>12. CASE BrokerTakes
  <2>1. UNCHANGED <<task, buf>> /\ Dropped' = Dropped
    BY <1>12 DEF BrokerTakes, Dropped
  <2>2. SeenBound' = SeenBound
    BY <2>1 DEF SeenBound, Holding
  <2>3. QED
    BY <1>2, <1>4, <1>5, <2>2
<1>13. QED
  BY <1>6, <1>7, <1>8, <1>9, <1>10, <1>11, <1>12, StepIs

\* The broker takes an event: everything it has is not newer, and nothing
\* that follows on the wire is older.
LEMMA TakesIs ==
    ASSUME TypeInv, OrderInv, Kept, BrokerTakes
    PROVE  /\ \A e \in Events : Wired(e)' => Wired(e)
           /\ WireInOrder'
           /\ \/ seen' = seen
              \/ \E h \in Events :
                    /\ Wired(h) /\ seen' = Append(seen, h)
                    /\ Range(seen') = Range(seen) \cup {h}
                    /\ \A e \in Range(seen) : e <= h
                    /\ \A e \in Events : Wired(e)' => h <= e
<1> DEFINE h == Head(wire).msg
<1>1. /\ wire # <<>> /\ wire' = Tail(wire) /\ seen' = IF h \in Events THEN Append(seen, h) ELSE seen
  BY DEF BrokerTakes
<1>2. wire \in Seq(Message) /\ seen \in Seq(Events)
  BY DEF TypeInv, TypeOK, Message
<1>3. /\ Len(wire) \in Nat /\ DOMAIN wire = 1..Len(wire) /\ 1 \in DOMAIN wire /\ h = wire[1].msg
      /\ DOMAIN wire' = 1..Len(wire) - 1
      /\ \A j \in 1..Len(wire) - 1 : wire'[j] = wire[j + 1] /\ j + 1 \in DOMAIN wire
  BY <1>1, <1>2, TailIs
<1>4. WireInOrder
  BY DEF OrderInv
<1> HIDE DEF h
<1>5. \A e \in Events : Wired(e)' => Wired(e) /\ (h \in Events => h <= e)
  <2>1. TAKE e \in Events
  <2>2. HAVE Wired(e)'
  <2>3. PICK j \in DOMAIN wire' : wire'[j].msg = e
    BY <2>2 DEF Wired
  <2>4. j + 1 \in DOMAIN wire /\ wire[j + 1].msg = e /\ 1 < j + 1
    BY <1>3, <2>3
  <2>5. Wired(e)
    BY <2>1, <2>4 DEF Wired
  <2>6. h \in Events => h <= e
    BY <1>3, <1>4, <2>1, <2>4 DEF WireInOrder
  <2>7. QED
    BY <2>5, <2>6
<1>6. WireInOrder'
  <2>1. SUFFICES ASSUME NEW i \in DOMAIN wire', NEW j \in DOMAIN wire', i < j,
                        wire'[i].msg \in Events, wire'[j].msg \in Events
                 PROVE  wire'[i].msg <= wire'[j].msg
    BY DEF WireInOrder
  <2>2. i + 1 \in DOMAIN wire /\ j + 1 \in DOMAIN wire /\ i + 1 < j + 1
    BY <1>3, <2>1
  <2>3. wire[i + 1].msg <= wire[j + 1].msg
    BY <1>3, <1>4, <2>1, <2>2 DEF WireInOrder
  <2>4. QED
    BY <1>3, <2>1, <2>3
<1>7. CASE h \in Events
  <2>1. seen' = Append(seen, h) /\ Wired(h)
    BY <1>1, <1>3, <1>7 DEF Wired
  <2>2. Range(seen') = Range(seen) \cup {h}
    <3>1. /\ DOMAIN seen = 1..Len(seen) /\ Len(seen) \in Nat /\ DOMAIN seen' = 1..Len(seen) + 1
          /\ \A j \in 1..Len(seen) : seen'[j] = seen[j]
          /\ seen'[Len(seen) + 1] = h
      BY <1>2, <1>7, <2>1, AppendIs
    <3>2. QED
      BY <3>1 DEF Range
  <2>3. \A e \in Range(seen) : e <= h
    BY <1>7, <2>1 DEF OrderInv
  <2>4. QED
    BY <1>5, <1>6, <1>7, <2>1, <2>2, <2>3
<1>8. CASE h \notin Events
  BY <1>1, <1>5, <1>6, <1>8
<1>9. QED
  BY <1>7, <1>8

\* A packet more on the wire: if it is an event, it is not older than the others.
LEMMA WireGrows ==
    ASSUME TypeInv, WireInOrder, NEW p \in Message, wire' = Append(wire, p),
           p.msg \in Events => \A f \in Events : Wired(f) => f <= p.msg
    PROVE  /\ \A e \in Events : Wired(e)' => Wired(e) \/ e = p.msg
           /\ WireInOrder'
<1>1. wire \in Seq(Message)
  BY DEF TypeInv, TypeOK, Message
<1>2. /\ Len(wire) \in Nat /\ DOMAIN wire = 1..Len(wire) /\ DOMAIN wire' = 1..Len(wire) + 1
      /\ \A j \in 1..Len(wire) : wire'[j] = wire[j]
      /\ wire'[Len(wire) + 1] = p
  BY <1>1, AppendIs
<1>3. \A e \in Events : Wired(e)' => Wired(e) \/ e = p.msg
  <2>1. TAKE e \in Events
  <2>2. HAVE Wired(e)'
  <2>3. PICK j \in DOMAIN wire' : wire'[j].msg = e
    BY <2>2 DEF Wired
  <2>4. CASE j \in 1..Len(wire)
    BY <1>2, <2>1, <2>3, <2>4 DEF Wired
  <2>5. CASE j = Len(wire) + 1
    BY <1>2, <2>3, <2>5
  <2>6. QED
    BY <1>2, <2>3, <2>4, <2>5
<1>4. WireInOrder'
  <2>1. SUFFICES ASSUME NEW i \in DOMAIN wire', NEW j \in DOMAIN wire', i < j,
                        wire'[i].msg \in Events, wire'[j].msg \in Events
                 PROVE  wire'[i].msg <= wire'[j].msg
    BY DEF WireInOrder
  <2>2. i \in 1..Len(wire) /\ wire'[i] = wire[i] /\ i \in DOMAIN wire
    BY <1>2, <2>1
  <2>3. CASE j \in 1..Len(wire)
    BY <1>2, <2>1, <2>2, <2>3 DEF WireInOrder
  <2>4. CASE j = Len(wire) + 1
    <3>1. wire'[j] = p
      BY <1>2, <2>4
    <3>2. Wired(wire[i].msg)
      BY <2>1, <2>2 DEF Wired
    <3>3. QED
      BY <2>1, <2>2, <3>1, <3>2
  <2>5. QED
    BY <1>2, <2>1, <2>3, <2>4
<1>5. QED
  BY <1>3, <1>4

LEMMA OrderInit == Init => OrderInv
  BY DEF Init, OrderInv, WireInOrder, Wired, Range

LEMMA OrderNext ==
    ASSUME TypeInv, QueueInv, BufInv, OrderInv, [Next]_vars
    PROVE  OrderInv'
<1> SUFFICES ASSUME Kept' PROVE OrderInv'
  BY DEF OrderInv
<1>0. /\ Kept /\ SeenBound \in Int /\ SeenBound' \in Int /\ SeenBound <= SeenBound'
  BY BoundGrows
<1>1. /\ \A i, j \in DOMAIN seen : i < j => seen[i] <= seen[j]
      /\ WireInOrder
      /\ \A e \in Range(seen), f \in Events : Wired(f) => e <= f
      /\ \A e \in Range(seen) : e <= SeenBound
      /\ \A e \in Events : Wired(e) => e <= SeenBound
  BY <1>0 DEF OrderInv
<1>2. Range(seen) \subseteq Nat /\ Events \subseteq Nat /\ seen \in Seq(Events)
  <2>1. seen \in Seq(Events) /\ Events \subseteq Nat
    BY EventsAre DEF TypeInv, TypeOK
  <2>2. QED
    BY <2>1, RangeOfNumbers
<1>b. \A e \in Nat : e <= SeenBound => e <= SeenBound'
  BY <1>0
\* Steps that leave the backend alone and put nothing on the wire that is
\* older than what is there.
<1>3. ASSUME UNCHANGED seen, WireInOrder',
             \A f \in Events : Wired(f)' => f <= SeenBound /\ \A e \in Range(seen) : e <= f
      PROVE  OrderInv'
  <2>1. \A e \in Range(seen') : e <= SeenBound'
    BY <1>b, <1>1, <1>2, <1>3
  <2>2. \A f \in Events : Wired(f)' => f <= SeenBound'
    BY <1>b, <1>2, <1>3
  <2>3. QED
    BY <1>1, <1>3, <2>1, <2>2 DEF OrderInv
<1>4. ASSUME UNCHANGED <<seen, wire>> PROVE OrderInv'
  <2>1. WireInOrder' /\ \A f \in Events : Wired(f)' => Wired(f)
    BY <1>1, <1>4 DEF Wired, WireInOrder
  <2>2. QED
    BY <1>1, <1>3, <1>4, <2>1
<1>5. ASSUME UNCHANGED seen, wire' = <<>> PROVE OrderInv'
  BY <1>3, <1>5 DEF Wired, WireInOrder
<1>6. CASE Reboot
  BY <1>5, <1>6, RebootIs
<1>7. CASE Push \/ Pop \/ Peek
  BY <1>4, <1>7 DEF Push, Pop, Peek
<1>8. CASE Quiet
  <2>1. CASE wire' = wire \/ wire' = <<>>
    BY <1>4, <1>5, <1>8, <2>1 DEF Quiet
  <2>2. ASSUME NEW p \in Message, p.msg = Other, wire' = Append(wire, p) PROVE OrderInv'
    <3>1. p.msg \notin Events
      BY <2>2, EventsAre
    <3>2. WireInOrder' /\ \A e \in Events : Wired(e)' => Wired(e)
      BY <1>1, <2>2, <3>1, WireGrows
    <3>3. UNCHANGED seen
      BY <1>8 DEF Quiet
    <3>4. QED
      BY <1>1, <1>3, <3>2, <3>3
  <2>3. QED
    BY <1>8, <2>1, <2>2 DEF Quiet
<1>9. CASE PublishEvent \/ Late
  <2>1. task = "publish" /\ UNCHANGED <<seen, buf>>
    BY <1>9 DEF PublishEvent, Late
  <2>2. buf \in Events /\ TypeOK /\ SeenBound = buf
    BY <2>1 DEF TypeInv, Holding, SeenBound
  <2>3. wire' = wire \/ \E p \in Message : p.msg = buf /\ wire' = Append(wire, p)
    BY <1>9, <2>2, AcceptedIs DEF PublishEvent, Late
  <2>4. CASE wire' = wire
    BY <1>4, <2>1, <2>4
  <2>5. ASSUME NEW p \in Message, p.msg = buf, wire' = Append(wire, p) PROVE OrderInv'
    <3>1. WireInOrder' /\ \A e \in Events : Wired(e)' => Wired(e) \/ e = buf
      BY <1>1, <2>2, <2>5, WireGrows
    <3>2. buf <= SeenBound /\ \A e \in Range(seen) : e <= buf
      BY <1>1, <1>2, <2>2
    <3>3. QED
      BY <1>1, <1>3, <2>1, <3>1, <3>2
  <2>6. QED
    BY <2>3, <2>4, <2>5
<1>10. CASE BrokerTakes
  <2>1. WireInOrder' /\ \A e \in Events : Wired(e)' => Wired(e)
    BY <1>0, <1>10, TakesIs
  <2>2. \A f \in Events : Wired(f)' => f <= SeenBound /\ \A e \in Range(seen) : e <= f
    BY <1>1, <2>1
  <2>3. CASE seen' = seen
    BY <1>3, <2>1, <2>2, <2>3
  <2>4. ASSUME NEW h \in Events, Wired(h), seen' = Append(seen, h),
               Range(seen') = Range(seen) \cup {h},
               \A e \in Range(seen) : e <= h,
               \A e \in Events : Wired(e)' => h <= e
        PROVE  OrderInv'
    <3>1. \A i, j \in DOMAIN seen' : i < j => seen'[i] <= seen'[j]
      <4>1. /\ DOMAIN seen = 1..Len(seen) /\ Len(seen) \in Nat /\ DOMAIN seen' = 1..Len(seen) + 1
            /\ \A j \in 1..Len(seen) : seen'[j] = seen[j]
            /\ seen'[Len(seen) + 1] = h
        BY <1>2, <2>4, AppendIs
      <4>2. \A k \in 1..Len(seen) : seen[k] <= h
        BY <2>4, <4>1 DEF Range
      <4>3. TAKE i, j \in DOMAIN seen'
      <4>4. HAVE i < j
      <4>5. CASE j \in 1..Len(seen)
        <5>1. i \in 1..Len(seen)
          BY <4>1, <4>4, <4>5
        <5>2. QED
          BY <1>1, <4>1, <4>4, <4>5, <5>1
      <4>6. CASE j = Len(seen) + 1
        <5>1. i \in 1..Len(seen)
          BY <4>1, <4>4, <4>6
        <5>2. QED
          BY <4>1, <4>2, <4>6, <5>1
      <4>7. QED
        BY <4>1, <4>5, <4>6
    <3>2. \A e \in Range(seen'), f \in Events : Wired(f)' => e <= f
      BY <2>2, <2>4
    <3>3. \A e \in Range(seen') : e <= SeenBound'
      BY <1>b, <1>1, <1>2, <2>4
    <3>4. \A f \in Events : Wired(f)' => f <= SeenBound'
      BY <1>b, <1>2, <2>2
    <3>5. QED
      BY <2>1, <3>1, <3>2, <3>3, <3>4 DEF OrderInv
  <2>5. QED
    BY <1>0, <1>10, <2>3, <2>4, TakesIs
<1>11. QED
  BY <1>6, <1>7, <1>8, <1>9, <1>10, StepIs
-----------------------------------------------------------------------------
(* Repetition *)

LEMMA SeenIs ==
    ASSUME TypeInv
    PROVE  /\ seen \in Seq(Events) /\ Len(seen) \in Nat /\ Range(seen) \subseteq Events
           /\ IsFiniteSet(Range(seen)) /\ Cardinality(Range(seen)) \in Nat
           /\ used.boots \in Nat /\ refused \in Nat /\ wire \in Seq(Message)
<1>1. /\ seen \in Seq(Events) /\ Len(seen) \in Nat /\ used.boots \in Nat /\ refused \in Nat
      /\ wire \in Seq(Message)
  BY UsageIs DEF TypeInv, TypeOK, Message
<1>2. Range(seen) \subseteq Events
  BY <1>1 DEF Range
<1>3. IsFiniteSet(1..Len(seen))
  BY <1>1, FS_Interval
<1>4. seen \in Surjection(1..Len(seen), Range(seen))
  BY <1>1 DEF Surjection, Range
<1>5. IsFiniteSet(Range(seen))
  BY <1>3, <1>4, FS_Surjection
<1>6. QED
  BY <1>1, <1>2, <1>5, FS_CardinalityType

\* There are finitely many events on the wire, no more than places for them.
LEMMA SpotsAre ==
    ASSUME NEW w \in Seq(Message)
    PROVE  /\ IsFiniteSet(Spots(w)) /\ Cardinality(Spots(w)) \in Nat
           /\ IsFiniteSet(Carried(w)) /\ Cardinality(Carried(w)) \in Nat
           /\ Cardinality(Carried(w)) <= Cardinality(Spots(w))
           /\ Carried(w) \subseteq Events
<1>1. IsFiniteSet(1..Len(w)) /\ Spots(w) \subseteq 1..Len(w)
  BY FS_Interval DEF Spots
<1>2. IsFiniteSet(Spots(w))
  BY <1>1, FS_Subset
<1> DEFINE f == [j \in Spots(w) |-> w[j].msg]
<1>3. f \in Surjection(Spots(w), Carried(w))
  BY DEF Surjection, Carried
<1> HIDE DEF f
<1>4. IsFiniteSet(Carried(w)) /\ Cardinality(Carried(w)) <= Cardinality(Spots(w))
  BY <1>2, <1>3, FS_Surjection
<1>5. Carried(w) \subseteq Events
  BY DEF Carried, Spots
<1>6. QED
  BY <1>2, <1>4, <1>5, FS_CardinalityType

\* A packet more on the wire.
LEMMA SpotsAppend ==
    ASSUME NEW w \in Seq(Message), NEW p \in Message
    PROVE  /\ p.msg \in Events =>
                 /\ Cardinality(Spots(Append(w, p))) = Cardinality(Spots(w)) + 1
                 /\ Carried(Append(w, p)) = Carried(w) \cup {p.msg}
           /\ p.msg \notin Events =>
                 /\ Spots(Append(w, p)) = Spots(w)
                 /\ Carried(Append(w, p)) = Carried(w)
<1> DEFINE v == Append(w, p)
           n == Len(w)
<1>1. /\ n \in Nat /\ DOMAIN w = 1..n /\ DOMAIN v = 1..n + 1
      /\ \A j \in 1..n : v[j] = w[j]
      /\ v[n + 1] = p
  BY AppendIs
<1> HIDE DEF v, n
<1>2. Spots(v) = Spots(w) \cup {j \in {n + 1} : p.msg \in Events}
  BY <1>1 DEF Spots
<1>3. \A j \in Spots(w) : j \in 1..n /\ v[j] = w[j]
  BY <1>1 DEF Spots
<1>4. n + 1 \notin Spots(w)
  BY <1>1, <1>3
<1>5. CASE p.msg \in Events
  <2>1. Spots(v) = Spots(w) \cup {n + 1}
    BY <1>2, <1>5
  <2>2. Cardinality(Spots(v)) = Cardinality(Spots(w)) + 1
    BY <1>4, <2>1, SpotsAre, FS_AddElement
  <2>3. Carried(v) = Carried(w) \cup {p.msg}
    BY <1>1, <1>3, <2>1 DEF Carried
  <2>4. QED
    BY <1>5, <2>2, <2>3 DEF v
<1>6. CASE p.msg \notin Events
  <2>1. Spots(v) = Spots(w)
    BY <1>2, <1>6
  <2>2. Carried(v) = Carried(w)
    BY <1>3, <2>1 DEF Carried
  <2>3. QED
    BY <1>6, <2>1, <2>2 DEF v
<1>7. QED
  BY <1>5, <1>6

\* A packet less on the wire.
LEMMA SpotsTail ==
    ASSUME NEW w \in Seq(Message), w # <<>>
    PROVE  /\ Head(w).msg \in Events =>
                 /\ Cardinality(Spots(w)) = Cardinality(Spots(Tail(w))) + 1
                 /\ Carried(w) = Carried(Tail(w)) \cup {Head(w).msg}
           /\ Head(w).msg \notin Events =>
                 /\ Cardinality(Spots(w)) = Cardinality(Spots(Tail(w)))
                 /\ Carried(w) = Carried(Tail(w))
<1> DEFINE v == Tail(w)
           n == Len(w)
           m == Head(w).msg
<1>1. /\ n \in Nat /\ DOMAIN w = 1..n /\ 1 \in 1..n /\ w[1].msg = m
      /\ v \in Seq(Message) /\ DOMAIN v = 1..n - 1
      /\ \A j \in 1..n - 1 : v[j] = w[j + 1] /\ j + 1 \in 1..n
  BY TailIs
<1> HIDE DEF v, n, m
<1>2. /\ \A j \in Spots(v) : j \in 1..n - 1 /\ j + 1 \in Spots(w) \ {1} /\ v[j] = w[j + 1]
      /\ \A k \in Spots(w) \ {1} : k - 1 \in Spots(v) /\ (k - 1) + 1 = k /\ w[k] = v[k - 1]
  BY <1>1 DEF Spots
<1> DEFINE f == [j \in Spots(v) |-> j + 1]
<1>3. f \in Bijection(Spots(v), Spots(w) \ {1})
  <2>1. f \in [Spots(v) -> Spots(w) \ {1}]
    BY <1>2
  <2>2. \A i, j \in Spots(v) : f[i] = f[j] => i = j
    BY <1>1, <1>2
  <2>3. \A k \in Spots(w) \ {1} : \E j \in Spots(v) : f[j] = k
    BY <1>2
  <2> HIDE DEF f
  <2>4. f \in Injection(Spots(v), Spots(w) \ {1}) /\ f \in Surjection(Spots(v), Spots(w) \ {1})
    BY <2>1, <2>2, <2>3 DEF Injection, IsInjective, Surjection
  <2>5. QED
    BY <2>4 DEF Bijection
<1>4. Cardinality(Spots(w) \ {1}) = Cardinality(Spots(v))
  BY <1>1, <1>3, SpotsAre, FS_Bijection DEF ExistsBijection
<1>5. Cardinality(Spots(w) \ {1}) = IF 1 \in Spots(w) THEN Cardinality(Spots(w)) - 1 ELSE Cardinality(Spots(w))
  BY SpotsAre, FS_RemoveElement
<1>6. 1 \in Spots(w) <=> m \in Events
  BY <1>1 DEF Spots
<1>7. Carried(v) = {w[k].msg : k \in Spots(w) \ {1}}
  BY <1>2 DEF Carried
<1>8. CASE m \in Events
  <2>1. Carried(w) = Carried(v) \cup {m}
    BY <1>1, <1>6, <1>7, <1>8 DEF Carried
  <2>2. Cardinality(Spots(w)) = Cardinality(Spots(v)) + 1
    BY <1>1, <1>4, <1>5, <1>6, <1>8, SpotsAre
  <2>3. QED
    BY <1>8, <2>1, <2>2 DEF v, m
<1>9. CASE m \notin Events
  <2>1. Carried(w) = Carried(v)
    BY <1>6, <1>7, <1>9 DEF Carried
  <2>2. Cardinality(Spots(w)) = Cardinality(Spots(v))
    BY <1>4, <1>5, <1>6, <1>9
  <2>3. QED
    BY <1>9, <2>1, <2>2 DEF v, m
<1>10. QED
  BY <1>8, <1>9

\* What was sent, in numbers.
LEMMA SentIs ==
    ASSUME TypeInv
    PROVE  /\ IsFiniteSet(Sent) /\ Cardinality(Sent) \in Nat /\ Sent \subseteq Events
           /\ Sendings \in Nat /\ Excuses \in Nat
           /\ Cardinality(Sent) <= Cardinality(Range(seen)) + Cardinality(Spots(wire))
<1>1. /\ wire \in Seq(Message) /\ Len(seen) \in Nat /\ Range(seen) \subseteq Events
      /\ IsFiniteSet(Range(seen)) /\ Cardinality(Range(seen)) \in Nat
      /\ used.boots \in Nat /\ refused \in Nat
  BY SeenIs
<1>2. /\ Cardinality(Spots(wire)) \in Nat /\ IsFiniteSet(Carried(wire)) /\ Cardinality(Carried(wire)) \in Nat
      /\ Cardinality(Carried(wire)) <= Cardinality(Spots(wire)) /\ Carried(wire) \subseteq Events
  BY <1>1, SpotsAre
<1>3. IsFiniteSet(Sent) /\ Sent \subseteq Events
  BY <1>1, <1>2, FS_Union DEF Sent
<1>4. Cardinality(Sent) = Cardinality(Range(seen)) + Cardinality(Carried(wire))
                            - Cardinality(Range(seen) \cap Carried(wire))
  BY <1>1, <1>2, FS_Union DEF Sent
<1>5. Cardinality(Range(seen) \cap Carried(wire)) \in Nat
  BY <1>1, FS_Intersection, FS_CardinalityType
<1>6. Cardinality(Sent) \in Nat
  BY <1>3, FS_CardinalityType
<1>7. Cardinality(Sent) <= Cardinality(Range(seen)) + Cardinality(Spots(wire))
  BY <1>1, <1>2, <1>4, <1>5
<1>8. Sendings \in Nat /\ Excuses \in Nat
  BY <1>1, <1>2 DEF Sendings, Excuses
<1>9. QED
  BY <1>3, <1>6, <1>7, <1>8

\* An empty wire.
LEMMA NothingSent == Spots(<<>>) = {} /\ Carried(<<>>) = {} /\ Cardinality({}) = 0
  BY FS_EmptySet DEF Spots, Carried

LEMMA RepeatInit == Init => RepeatInv
<1>1. ASSUME Init PROVE RepeatInv
  <2>1. seen = <<>> /\ Range(seen) = {} /\ used.boots = 0 /\ refused = 0 /\ wire = <<>>
    BY <1>1 DEF Init, Range
  <2>2. Sent = {} /\ Repeatable = {}
    BY <2>1, NothingSent DEF Sent, Repeatable
  <2>4. Sendings = 0 /\ Excuses = 0
    <3>1. Len(seen) = 0 /\ Cardinality(Spots(wire)) = 0
      BY <2>1, NothingSent
    <3>2. QED
      BY <2>1, <3>1 DEF Sendings, Excuses
  <2>3. QED
    BY <2>2, <2>4, FS_EmptySet DEF RepeatInv
<1>2. QED
  BY <1>1

\* One packet with an event more.
LEMMA SendsOne ==
    ASSUME TypeInv, NEW p \in Message, p.msg \in Events, wire' = Append(wire, p), UNCHANGED seen
    PROVE  /\ Sendings' = Sendings + 1
           /\ Sent' = Sent \cup {p.msg}
           /\ Cardinality(Sent') = IF p.msg \in Sent THEN Cardinality(Sent) ELSE Cardinality(Sent) + 1
<1>1. wire \in Seq(Message) /\ Len(seen) \in Nat
  BY SeenIs
<1>2. /\ Cardinality(Spots(wire')) = Cardinality(Spots(wire)) + 1
      /\ Carried(wire') = Carried(wire) \cup {p.msg}
  BY <1>1, SpotsAppend
<1>3. Cardinality(Spots(wire)) \in Nat
  BY <1>1, SpotsAre
<1>4. Sendings' = Sendings + 1
  BY <1>1, <1>2, <1>3 DEF Sendings
<1>5. Sent' = Sent \cup {p.msg}
  BY <1>2 DEF Sent
<1>6. QED
  BY <1>4, <1>5, SentIs, FS_AddElement

LEMMA RepeatNext ==
    ASSUME TypeInv, QueueInv, BufInv, OrderInv, RepeatInv, [Next]_vars
    PROVE  RepeatInv'
<1> SUFFICES ASSUME Kept' PROVE RepeatInv'
  BY DEF RepeatInv
<1>0. /\ Kept /\ Events \subseteq Nat /\ Dropped \in Nat
      /\ IsFiniteSet(Sent) /\ Cardinality(Sent) \in Nat /\ Sent \subseteq Nat
      /\ Sendings \in Nat /\ Excuses \in Nat
      /\ used.boots \in Nat /\ refused \in Nat /\ wire \in Seq(Message)
  BY BoundGrows, SentIs, SeenIs, QueueIs, EventsAre
<1>1. /\ Sendings <= Cardinality(Sent) + Excuses
      /\ Repeatable # {} => Sendings + 1 <= Cardinality(Sent) + Excuses
  BY <1>0 DEF RepeatInv
\* Steps that send nothing.
<1>2. ASSUME Sent' = Sent, Sendings' = Sendings, Excuses' \in Nat, Excuses <= Excuses',
             Repeatable' \subseteq Repeatable
      PROVE  RepeatInv'
  <2>1. Sendings' <= Cardinality(Sent') + Excuses'
    BY <1>0, <1>1, <1>2
  <2>2. Repeatable' # {} => Sendings' + 1 <= Cardinality(Sent') + Excuses'
    BY <1>0, <1>1, <1>2
  <2>3. QED
    BY <2>1, <2>2 DEF RepeatInv
<1>u. ASSUME UNCHANGED <<seen, wire>> PROVE Sent' = Sent /\ Sendings' = Sendings
  BY <1>u DEF Sent, Sendings
\* Steps by which what is on the wire is lost.
<1>l. ASSUME UNCHANGED seen, wire' = <<>>
      PROVE  /\ Sent' \subseteq Sent /\ Cardinality(Sent') \in Nat /\ Sendings' \in Nat
             /\ Sendings' + Cardinality(Sent) <= Cardinality(Sent') + Sendings
  <2>1. Sent' = Range(seen) /\ Sendings' = Len(seen) + 0
    BY <1>l, NothingSent DEF Sent, Sendings
  <2>2. /\ Len(seen) \in Nat /\ Cardinality(Range(seen)) \in Nat /\ Cardinality(Spots(wire)) \in Nat
    BY <1>0, SeenIs, SpotsAre
  <2>3. Cardinality(Sent) <= Cardinality(Range(seen)) + Cardinality(Spots(wire))
    BY SentIs
  <2>4. Sendings = Len(seen) + Cardinality(Spots(wire))
    BY DEF Sendings
  <2>5. Sent' \subseteq Sent
    BY <2>1 DEF Sent
  <2>6. QED
    BY <1>0, <2>1, <2>2, <2>3, <2>4, <2>5
<1>3. CASE Push
  <2>1. /\ UNCHANGED <<buf, task, wire, seen, refused>> /\ used'.boots = used.boots
        /\ Dropped' = Dropped \/ Dropped' = Dropped + 1
    BY <1>3, PushIs
  <2>2. Sent' = Sent /\ Sendings' = Sendings
    BY <1>u, <2>1
  <2>3. Repeatable' \subseteq Repeatable
    <3>1. \A e \in Sent : e > Dropped' => e > Dropped
      BY <1>0, <2>1
    <3>2. QED
      BY <2>1, <2>2, <3>1 DEF Repeatable
  <2>4. Excuses' \in Nat /\ Excuses <= Excuses'
    BY <1>0, <2>1 DEF Excuses
  <2>5. QED
    BY <1>2, <2>2, <2>3, <2>4
<1>4. CASE Pop
  <2>1. /\ UNCHANGED <<buf, wire, seen, refused, used>> /\ task = "pop" /\ task' = "loop"
        /\ \/ Dropped' = Dropped /\ Dropped = used.events
           \/ Dropped' = Dropped + 1
    BY <1>4, PopIs
  <2>2. buf \in Nat /\ buf <= Dropped + 1 /\ buf <= used.events /\ used.events \in Nat
    BY <1>0, <2>1, UsageIs, EventsAre DEF BufInv, Holding, TypeInv
  <2>3. buf <= Dropped' /\ Dropped' \in Nat
    BY <1>0, <2>1, <2>2
  <2>4. \A e \in Sent : e <= buf
    <3>1. SeenBound = buf
      BY <2>1 DEF SeenBound, Holding
    <3>2. \A e \in Carried(wire) : e \in Events /\ Wired(e)
      BY DEF Carried, Spots, Wired
    <3>3. QED
      BY <1>0, <3>1, <3>2 DEF OrderInv, Sent
  <2>5. Sent' = Sent /\ Sendings' = Sendings
    BY <1>u, <2>1
  <2>6. Repeatable' = {}
    <3>1. \A e \in Sent : ~(e > Dropped')
      BY <1>0, <2>2, <2>3, <2>4
    <3>2. QED
      BY <2>1, <2>5, <3>1 DEF Repeatable
  <2>7. Excuses' = Excuses
    BY <2>1 DEF Excuses
  <2>8. QED
    BY <1>0, <1>2, <2>5, <2>6, <2>7
<1>5. CASE Reboot
  <2>1. UNCHANGED <<seen, refused>> /\ used'.boots = used.boots + 1 /\ wire' = <<>>
    BY <1>5, RebootIs
  <2>2. Excuses' = Excuses + 1
    BY <1>0, <2>1 DEF Excuses
  <2>3. Sendings' + 1 <= Cardinality(Sent') + Excuses'
    BY <1>0, <1>1, <1>l, <2>1, <2>2
  <2>4. Sendings' <= Cardinality(Sent') + Excuses'
    BY <1>0, <1>1, <1>l, <2>1, <2>2
  <2>5. QED
    BY <2>3, <2>4 DEF RepeatInv
<1>6. CASE Quiet
  <2>1. /\ UNCHANGED <<buf, seen>> /\ used'.boots = used.boots /\ Dropped' = Dropped
        /\ task' = task \/ (task # "pop" /\ ~Holding')
        /\ refused' \in Nat /\ refused <= refused'
    BY <1>6 DEF Quiet, Dropped
  <2>2. Excuses' \in Nat /\ Excuses <= Excuses'
    BY <1>0, <2>1 DEF Excuses
  <2>3. Sent' \subseteq Sent => Repeatable' \subseteq Repeatable
    BY <2>1 DEF Repeatable, Holding
  <2>4. CASE wire' = wire
    BY <1>2, <1>u, <2>1, <2>2, <2>3, <2>4
  <2>5. CASE wire' = <<>>
    <3>l. /\ Repeatable' \subseteq Repeatable /\ Cardinality(Sent') \in Nat /\ Sendings' \in Nat
          /\ Sendings' + Cardinality(Sent) <= Cardinality(Sent') + Sendings
      BY <1>l, <2>1, <2>3, <2>5
    <3>1. Sendings' <= Cardinality(Sent') + Excuses'
      BY <1>0, <1>1, <2>2, <3>l
    <3>2. Repeatable' # {} => Sendings' + 1 <= Cardinality(Sent') + Excuses'
      <4>1. SUFFICES ASSUME Repeatable' # {} PROVE Sendings' + 1 <= Cardinality(Sent') + Excuses'
        OBVIOUS
      <4>2. Sendings + 1 <= Cardinality(Sent) + Excuses
        BY <1>1, <3>l, <4>1
      <4>3. QED
        BY <1>0, <2>2, <3>l, <4>2
    <3>3. QED
      BY <3>1, <3>2 DEF RepeatInv
  <2>6. ASSUME NEW p \in Message, p.msg = Other, wire' = Append(wire, p) PROVE RepeatInv'
    <3>1. Spots(wire') = Spots(wire) /\ Carried(wire') = Carried(wire)
      BY <1>0, <2>6, SpotsAppend, EventsAre
    <3>2. Sent' = Sent /\ Sendings' = Sendings
      BY <2>1, <3>1 DEF Sent, Sendings
    <3>3. QED
      BY <1>2, <2>2, <2>3, <3>2
  <2>7. QED
    BY <1>6, <2>4, <2>5, <2>6 DEF Quiet
<1>7. CASE Peek
  <2>1. /\ task = "loop" /\ task' = "publish" /\ buf' = Head(queue) /\ queue # <<>>
        /\ UNCHANGED <<wire, seen, used, refused>> /\ Dropped' = Dropped
    BY <1>7 DEF Peek, Dropped
  <2>2. buf' = Dropped + 1
    BY <1>0, <2>1, QueueIs
  <2>3. Sent' = Sent /\ Sendings' = Sendings /\ Excuses' = Excuses
    BY <1>u, <2>1 DEF Excuses
  <2>4. Repeatable' \subseteq Repeatable
    BY <1>0, <2>1, <2>2, <2>3 DEF Repeatable
  <2>5. QED
    BY <1>0, <1>2, <2>3, <2>4
<1>8. CASE PublishEvent
  <2>1. /\ task = "publish" /\ task' = "pop" /\ UNCHANGED <<seen, buf, used>> /\ Accepted(buf)
    BY <1>8 DEF PublishEvent
  <2>2. buf \in Events /\ TypeOK
    BY <2>1 DEF TypeInv, Holding
  <2>3. /\ wire' = wire \/ \E p \in Message : p.msg = buf /\ wire' = Append(wire, p)
        /\ UNCHANGED refused
    BY <2>1, <2>2, AcceptedIs
  <2>4. Excuses' = Excuses /\ Repeatable' = {}
    BY <2>1, <2>3 DEF Excuses, Repeatable
  <2>5. CASE wire' = wire
    BY <1>0, <1>2, <1>u, <2>1, <2>4, <2>5
  <2>6. ASSUME NEW p \in Message, p.msg = buf, wire' = Append(wire, p) PROVE RepeatInv'
    <3>1. /\ Sendings' = Sendings + 1
          /\ Cardinality(Sent') = IF buf \in Sent THEN Cardinality(Sent) ELSE Cardinality(Sent) + 1
      BY <2>1, <2>2, <2>6, SendsOne
    <3>2. buf \in Sent => buf \in Repeatable
      BY <2>1 DEF Repeatable
    <3>3. Sendings' <= Cardinality(Sent') + Excuses'
      BY <1>0, <1>1, <2>4, <3>1, <3>2
    <3>4. QED
      BY <2>4, <3>3 DEF RepeatInv
  <2>7. QED
    BY <2>3, <2>5, <2>6
<1>9. CASE Late
  <2>1. task = "publish" /\ UNCHANGED <<buf, seen, used>> /\ refused' = refused + 1
    BY <1>9 DEF Late
  <2>2. PICK p \in Message : p.msg = buf /\ wire' = Append(wire, p)
    BY <1>9 DEF Late
  <2>3. buf \in Events
    BY <2>1 DEF TypeInv, Holding
  <2>4. /\ Sendings' = Sendings + 1
        /\ Cardinality(Sent') = IF buf \in Sent THEN Cardinality(Sent) ELSE Cardinality(Sent) + 1
    BY <2>1, <2>2, <2>3, SendsOne
  <2>5. Excuses' = Excuses + 1
    BY <1>0, <2>1 DEF Excuses
  <2>6. buf \in Sent => buf \in Repeatable
    BY <2>1 DEF Repeatable
  <2>7. Sendings' + 1 <= Cardinality(Sent') + Excuses' /\ Sendings' <= Cardinality(Sent') + Excuses'
    BY <1>0, <1>1, <2>4, <2>5, <2>6
  <2>8. QED
    BY <2>7 DEF RepeatInv
<1>10. CASE BrokerTakes
  <2>1. /\ UNCHANGED <<task, buf, used, refused>> /\ Dropped' = Dropped
        /\ wire # <<>> /\ wire' = Tail(wire)
        /\ seen' = IF Head(wire).msg \in Events THEN Append(seen, Head(wire).msg) ELSE seen
    BY <1>10 DEF BrokerTakes, Dropped
  <2>2. Sent' = Sent /\ Sendings' = Sendings
    <3>0. /\ seen \in Seq(Events) /\ Len(seen) \in Nat /\ wire' \in Seq(Message)
          /\ Cardinality(Spots(wire')) \in Nat
      BY <1>0, <2>1, SeenIs, SpotsAre, TailIs
    <3>1. CASE Head(wire).msg \in Events
      <4>1. /\ Cardinality(Spots(wire)) = Cardinality(Spots(wire')) + 1
            /\ Carried(wire) = Carried(wire') \cup {Head(wire).msg}
        BY <1>0, <2>1, <3>1, SpotsTail
      <4>2. seen' = Append(seen, Head(wire).msg)
        BY <2>1, <3>1
      <4>3. Len(seen') = Len(seen) + 1 /\ Range(seen') = Range(seen) \cup {Head(wire).msg}
        <5>1. /\ DOMAIN seen = 1..Len(seen) /\ DOMAIN seen' = 1..Len(seen) + 1
              /\ Len(seen') = Len(seen) + 1
              /\ \A j \in 1..Len(seen) : seen'[j] = seen[j]
              /\ seen'[Len(seen) + 1] = Head(wire).msg
          BY <3>0, <3>1, <4>2, AppendIs
        <5>2. QED
          BY <3>0, <5>1 DEF Range
      <4>4. Sent' = Sent
        BY <4>1, <4>3 DEF Sent
      <4>5. Sendings' = Sendings
        BY <3>0, <4>1, <4>3 DEF Sendings
      <4>6. QED
        BY <4>4, <4>5
    <3>2. CASE Head(wire).msg \notin Events
      <4>1. Cardinality(Spots(wire)) = Cardinality(Spots(wire')) /\ Carried(wire) = Carried(wire')
        BY <1>0, <2>1, <3>2, SpotsTail
      <4>2. QED
        BY <2>1, <3>2, <4>1 DEF Sent, Sendings
    <3>3. QED
      BY <3>1, <3>2
  <2>3. Repeatable' = Repeatable /\ Excuses' = Excuses
    BY <2>1, <2>2 DEF Repeatable, Excuses
  <2>4. QED
    BY <1>0, <1>2, <2>2, <2>3
<1>11. QED
  BY <1>3, <1>4, <1>5, <1>6, <1>7, <1>8, <1>9, <1>10, StepIs
-----------------------------------------------------------------------------
LEMMA EventsInvariant == Init /\ [][Next]_vars => []EventsInv
<1>1. Init => EventsInv
  BY TypeInit, QueueInit, LossInit, OrderInit, RepeatInit DEF EventsInv
<1>2. EventsInv /\ [Next]_vars => EventsInv'
  BY TypeNext, QueueNext, BufNext, LossNext, OrderNext, RepeatNext DEF EventsInv
<1>3. QED
  BY <1>1, <1>2, PTL

\* The queue and its copy in NVS never exceed PAIRING_EVENTS_MAX, and what is
\* published, on the wire or received are events and other messages.
THEOREM TypeCorrect == Spec => []TypeOK
<1>1. EventsInv => TypeOK
  BY DEF EventsInv, TypeInv
<1>2. QED
  BY <1>1, EventsInvariant, PTL DEF Spec

\* pairing_events_push() that finds the queue full is the only way to lose an
\* event before coreMQTT accepts it, and costs one event at most, wherever it
\* falls between pairing_events_peek() and pairing_events_pop().
THEOREM LossCorrect == Spec => []LossBounded
<1>1. EventsInv => LossBounded
  BY DEF EventsInv, LossInv, LossBounded, Kept
<1>2. QED
  BY <1>1, EventsInvariant, PTL DEF Spec

\* The backend gets events in the order of their pushes, and no more events
\* twice than there were power losses and sends that failed on a live connection.
THEOREM OrderCorrect == Spec => []OrderKept
<1>1. EventsInv => OrderKept
  <2>1. SUFFICES ASSUME EventsInv, Kept
                 PROVE  /\ \A i, j \in DOMAIN seen : i < j => seen[i] <= seen[j]
                        /\ Len(seen) <= Cardinality(Range(seen)) + used.boots + refused
    BY DEF OrderKept, Kept
  <2>2. TypeInv /\ OrderInv /\ RepeatInv
    BY <2>1 DEF EventsInv
  <2>3. /\ Len(seen) \in Nat /\ Cardinality(Range(seen)) \in Nat
        /\ used.boots \in Nat /\ refused \in Nat /\ Cardinality(Spots(wire)) \in Nat
    BY <2>2, SeenIs, SpotsAre
  <2>4. /\ Cardinality(Sent) \in Nat
        /\ Cardinality(Sent) <= Cardinality(Range(seen)) + Cardinality(Spots(wire))
    BY <2>2, SentIs
  <2>5. Len(seen) + Cardinality(Spots(wire)) <= Cardinality(Sent) + (used.boots + refused)
    BY <2>1, <2>2 DEF RepeatInv, Sendings, Excuses
  <2>6. Len(seen) <= Cardinality(Range(seen)) + used.boots + refused
    BY <2>3, <2>4, <2>5
  <2>7. QED
    BY <2>1, <2>2, <2>6 DEF OrderInv
<1>2. QED
  BY <1>1, EventsInvariant, PTL DEF Spec
=============================================================================
