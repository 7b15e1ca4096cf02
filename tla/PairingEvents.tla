---------------------------- MODULE PairingEvents ----------------------------
(***************************************************************************)
(* How pairing events reach the backend: the queue in NVS                  *)
(* (security/pairing_events.c), filled by the TCP tasks, and aws_iot_task  *)
(* (aws/aws_iot_handler.c), which connects, subscribes and then publishes  *)
(* one event after the other from its process loop.                        *)
(*                                                                         *)
(* An event is its number in the order of the pushes.  push, peek and pop  *)
(* hold the queue's mutex and are steps; the publish between peek and pop  *)
(* is one more.  TLS and the broker are external: what is sent on a        *)
(* connection is on the wire until the broker takes it, and is lost with   *)
(* the connection; the broker acknowledges what it has taken.  A send may  *)
(* fail although the connection lives: the socket has a timeout of one     *)
(* second, and TLS keeps what it could not send for the next write.  The   *)
(* packet then arrives nevertheless, or none of it does; a packet that is  *)
(* cut off makes the broker close the connection (LinkBreaks).             *)
(***************************************************************************)
EXTENDS Naturals, Sequences, FiniteSets, FiniteSetsExt, SequencesExt

CONSTANTS PAIRING_EVENTS_MAX,
          MAX_OUTGOING_PUBLISHES,
          OUTGOING_PUBLISH_RECORD_LEN,
          MaxEvents,     \* bound: events pushed
          MaxOthers,     \* bound: other messages published
          MaxLosses,     \* bound: connections that break
          MaxRefused,    \* bound: sends that fail on a connection that lives
          MaxFails,      \* bound: NVS writes that fail
          MaxBoots       \* bound: power losses

ASSUME EventsAssumption ==
    /\ PAIRING_EVENTS_MAX \in Nat \ {0}
    /\ MAX_OUTGOING_PUBLISHES \in Nat \ {0}
    /\ OUTGOING_PUBLISH_RECORD_LEN \in Nat \ {0}
    /\ {MaxEvents, MaxOthers, MaxLosses, MaxRefused, MaxFails, MaxBoots} \subseteq Nat

VARIABLES
    queue,      \* s_q: the events not yet handed to coreMQTT, oldest first
    nvs,        \* the blob "pevents"
    buf,        \* pairing_event_buf, 0 before the first peek
    task,       \* where aws_iot_task is
    link,       \* whether the connection carries anything
    outgoing,   \* outgoingPublishPackets: publishes that wait for their PUBACK
    leaked,     \* records that coreMQTT keeps for publishes it could not send
    wire,       \* [slot, msg] sent and not yet taken by the broker
    acks,       \* slots whose PUBACK is on its way
    seen,       \* history: the events the backend has got, in order
    published,  \* history: the events coreMQTT has accepted
    refused,    \* history: sends that failed on a connection that lives
    used        \* history: pushes, overflows and the bounded faults so far

vars ==
    <<queue, nvs, buf, task, link, outgoing, leaked, wire, acks, seen, published, refused, used>>

Events == 1..MaxEvents

NoMsg == 0

\* Anything published that is not an event: drained responses, replies.
Other == MaxEvents + 1

Slots == 1..MAX_OUTGOING_PUBLISHES

\* The slot of a packet whose publish was given up.
NoSlot == 0

NoPublishes == [k \in Slots |-> NoMsg]

Places == {"start", "connect", "subscribe", "suback", "loop", "publish", "pop"}

Init ==
    /\ queue = <<>> /\ nvs = <<>>
    /\ buf = NoMsg
    /\ task = "start"
    /\ link = FALSE
    /\ outgoing = NoPublishes /\ leaked = 0
    /\ wire = <<>> /\ acks = {}
    /\ seen = <<>> /\ published = {} /\ refused = 0
    /\ used = [events |-> 0, overflows |-> 0, others |-> 0, losses |-> 0, fails |-> 0, boots |-> 0]
-----------------------------------------------------------------------------
(* The queue *)

\* nvs_store() of the queue q: a write that fails is only logged.
NvsStore(q) ==
    \/ nvs' = q /\ used' = used
    \/ used.fails < MaxFails /\ nvs' = nvs /\ used' = [used EXCEPT !.fails = @ + 1]

\* The queue after a push: the oldest event makes room.
Enqueue(q, e) ==
    IF Len(q) >= PAIRING_EVENTS_MAX THEN Append(Tail(q), e) ELSE Append(q, e)

\* pairing_events_push(), by any TCP task.
Push ==
    /\ used.events < MaxEvents
    /\ queue' = Enqueue(queue, used.events + 1)
    /\ LET full == IF Len(queue) >= PAIRING_EVENTS_MAX THEN 1 ELSE 0
           counted == [used EXCEPT !.events = @ + 1, !.overflows = @ + full]
       IN  \/ nvs' = queue' /\ used' = counted
           \/ /\ used.fails < MaxFails
              /\ used' = [counted EXCEPT !.fails = @ + 1]
              /\ UNCHANGED nvs
    /\ UNCHANGED <<buf, task, link, outgoing, leaked, wire, acks, seen, published, refused>>

\* pairing_events_peek()
Peek ==
    /\ task = "loop"
    /\ queue # <<>>
    /\ buf' = Head(queue)
    /\ task' = "publish"
    /\ UNCHANGED <<queue, nvs, link, outgoing, leaked, wire, acks, seen, published, refused, used>>

\* Mutant of Pop: the queue in NVS is left as it was.
PopInRam ==
    /\ task = "pop"
    /\ task' = "loop"
    /\ queue' = IF queue = <<>> THEN queue ELSE Tail(queue)
    /\ UNCHANGED <<nvs, buf, link, outgoing, leaked, wire, acks, seen, published, refused, used>>

\* pairing_events_pop(): whatever is the oldest event by now.
Pop ==
    /\ task = "pop"
    /\ task' = "loop"
    /\ IF queue = <<>> THEN UNCHANGED <<queue, nvs, used>>
       ELSE queue' = Tail(queue) /\ NvsStore(Tail(queue))
    /\ UNCHANGED <<buf, link, outgoing, leaked, wire, acks, seen, published, refused>>
-----------------------------------------------------------------------------
(* Publishing *)

\* MQTT_ProcessLoop() is called, and with it eventCallback().
Processing == task \in {"suback", "loop"}

\* getNextFreeIndexForOutgoingPublishes()
FreeIndex == {k \in Slots : outgoing[k] = NoMsg}

\* MQTT_ReserveState() finds a record: a publish that waits for its PUBACK has
\* one, and so has one that could not be sent.
FreeRecord ==
    Cardinality({k \in Slots : outgoing[k] # NoMsg}) + leaked < OUTGOING_PUBLISH_RECORD_LEN

\* publishToTopic() that succeeds: the publish has a slot and is sent.  A
\* connection that is broken, unnoticed, still takes it.
Accepted(m) ==
    /\ FreeIndex # {} /\ FreeRecord
    /\ outgoing' = [outgoing EXCEPT ![Min(FreeIndex)] = m]
    /\ UNCHANGED <<leaked, refused>>
    /\ wire' = IF link THEN Append(wire, [slot |-> Min(FreeIndex), msg |-> m]) ELSE wire

\* publishToTopic() that fails for want of a slot or of a record.
NoRoom ==
    /\ FreeIndex = {} \/ ~FreeRecord
    /\ UNCHANGED <<leaked, wire, refused>>

\* publishToTopic() that fails because the transport does: it cleans its slot,
\* and coreMQTT keeps the record that it has reserved.
SendFails(m) ==
    /\ FreeIndex # {} /\ FreeRecord
    /\ leaked' = leaked + 1
    /\ \/ ~link /\ UNCHANGED <<wire, refused>>
       \/ /\ link
          /\ refused < MaxRefused
          /\ refused' = refused + 1
          /\ wire' \in {wire, Append(wire, [slot |-> NoSlot, msg |-> m])}

Refused(m) == (NoRoom \/ SendFails(m)) /\ UNCHANGED outgoing

PublishEvent ==
    /\ task = "publish"
    /\ Accepted(buf)
    /\ published' = published \cup {buf}
    /\ task' = "pop"
    /\ UNCHANGED <<queue, nvs, buf, link, acks, seen, used>>

\* Mutant of PublishFails: the result is not looked at.
PublishFailsPopped ==
    /\ task = "publish"
    /\ Refused(buf)
    /\ task' = "pop"
    /\ UNCHANGED <<queue, nvs, buf, link, acks, seen, published, used>>

\* The event stays in the queue for the next round.
PublishFails ==
    /\ task = "publish"
    /\ Refused(buf)
    /\ task' = "loop"
    /\ UNCHANGED <<queue, nvs, buf, link, acks, seen, published, used>>

\* The drained MQTT FIFO or the reply to a command is published; the result
\* is not looked at.
PublishOther ==
    /\ Processing
    /\ used.others < MaxOthers
    /\ used' = [used EXCEPT !.others = @ + 1]
    /\ Accepted(Other) \/ Refused(Other)
    /\ UNCHANGED <<queue, nvs, buf, task, link, acks, seen, published>>

\* cleanupOutgoingPublishWithPacketID(): a slot holds one publish, so the
\* packet id of an acknowledgement is its slot.
Cleanup(k) == outgoing' = [outgoing EXCEPT ![k] = NoMsg]

\* Mutant of PubAck: the slot is not cleaned up.
PubAckIgnored ==
    /\ Processing /\ link
    /\ \E k \in acks : acks' = acks \ {k}
    /\ UNCHANGED <<queue, nvs, buf, task, link, outgoing, leaked, wire, seen, published, refused, used>>

\* eventCallback() with a PUBACK.
PubAck ==
    /\ Processing /\ link
    /\ \E k \in acks :
          /\ acks' = acks \ {k}
          /\ Cleanup(k)
    /\ UNCHANGED <<queue, nvs, buf, task, link, leaked, wire, seen, published, refused, used>>
-----------------------------------------------------------------------------
(* aws_iot_task: one connection after the other *)

\* The loop's body begins: every trace of the last connection is cleared.
Restart ==
    /\ task = "start"
    /\ outgoing' = NoPublishes /\ leaked' = 0
    /\ task' = "connect"
    /\ UNCHANGED <<queue, nvs, buf, link, wire, acks, seen, published, refused, used>>

\* connectToServerWithBackoffRetries() succeeds.  The client never claims an
\* older session, so the session is clean, and there is nothing to resend:
\* cleanupOutgoingPublishes().  A failed attempt changes nothing.
Connect ==
    /\ task = "connect"
    /\ link' = TRUE
    /\ outgoing' = NoPublishes
    /\ wire' = <<>> /\ acks' = {}
    /\ task' = "subscribe"
    /\ UNCHANGED <<queue, nvs, buf, leaked, seen, published, refused, used>>

\* subscribeToTopics(): the SUBSCRIBE packet leaves.
Subscribe ==
    /\ task = "subscribe"
    /\ task' = "suback"
    /\ UNCHANGED <<queue, nvs, buf, link, outgoing, leaked, wire, acks, seen, published, refused, used>>

\* waitForPacketAck() gets the SUBACK, and the broker grants the topics.
SubAckGranted ==
    /\ task = "suback" /\ link
    /\ task' = "loop"
    /\ UNCHANGED <<queue, nvs, buf, link, outgoing, leaked, wire, acks, seen, published, refused, used>>

\* The broker rejects them: handleResubscribe() sends SUBSCRIBE again.
SubAckRejected ==
    /\ task = "suback" /\ link
    /\ task' = "subscribe"
    /\ UNCHANGED <<queue, nvs, buf, link, outgoing, leaked, wire, acks, seen, published, refused, used>>

\* SUBSCRIBE cannot be sent, its SUBACK does not come in time, all attempts
\* are exhausted: xTlsDisconnect() and another connection.
SubscribeFails ==
    /\ task = "suback" \/ (task = "subscribe" /\ ~link)
    /\ link' = FALSE
    /\ wire' = <<>> /\ acks' = {}
    /\ task' = "start"
    /\ UNCHANGED <<queue, nvs, buf, outgoing, leaked, seen, published, refused, used>>

\* processLoopWithTimeout() returns MQTTRecvFailed, the one status that ends
\* the loop.
RecvFails ==
    /\ task = "loop" /\ ~link
    /\ task' = "start"
    /\ UNCHANGED <<queue, nvs, buf, link, outgoing, leaked, wire, acks, seen, published, refused, used>>
-----------------------------------------------------------------------------
(* The world *)

\* coreMQTT discards the acknowledgement of a publish that it could not send:
\* its record is not in a state for one.
BrokerTakes ==
    /\ link /\ wire # <<>>
    /\ wire' = Tail(wire)
    /\ acks' = acks \cup ({Head(wire).slot} \ {NoSlot})
    /\ seen' = IF Head(wire).msg \in Events THEN Append(seen, Head(wire).msg) ELSE seen
    /\ UNCHANGED <<queue, nvs, buf, task, link, outgoing, leaked, published, refused, used>>

LinkBreaks ==
    /\ link
    /\ used.losses < MaxLosses
    /\ used' = [used EXCEPT !.losses = @ + 1]
    /\ link' = FALSE
    /\ wire' = <<>> /\ acks' = {}
    /\ UNCHANGED <<queue, nvs, buf, task, outgoing, leaked, seen, published, refused>>

\* Power is lost; pairing_events_init() loads the queue.
Reboot ==
    /\ used.boots < MaxBoots
    /\ used' = [used EXCEPT !.boots = @ + 1]
    /\ queue' = nvs
    /\ buf' = NoMsg /\ task' = "start" /\ link' = FALSE
    /\ outgoing' = NoPublishes /\ leaked' = 0 /\ wire' = <<>> /\ acks' = {}
    /\ UNCHANGED <<nvs, seen, published, refused>>

AwsIotTask ==
    \/ Restart \/ Connect \/ Subscribe \/ SubAckGranted \/ SubAckRejected \/ SubscribeFails
    \/ Peek \/ PublishEvent \/ PublishFails \/ Pop \/ PubAck \/ PublishOther \/ RecvFails

Next == Push \/ AwsIotTask \/ BrokerTakes \/ LinkBreaks \/ Reboot

\* aws_iot_task is scheduled, and its loop asks both for events and for
\* packets in every round.  The world is not forever against it: an attempt
\* to connect succeeds in the end, so does a subscription, and a broker that is
\* connected takes what it is sent.
Fairness ==
    /\ WF_vars(Restart) /\ WF_vars(Connect) /\ WF_vars(Subscribe)
    /\ SF_vars(SubAckGranted) /\ WF_vars(SubAckGranted \/ SubscribeFails)
    /\ SF_vars(Peek) /\ WF_vars(PublishEvent \/ PublishFails) /\ WF_vars(Pop)
    /\ SF_vars(PubAck) /\ SF_vars(RecvFails)
    /\ WF_vars(BrokerTakes)

Spec == Init /\ [][Next]_vars /\ Fairness
-----------------------------------------------------------------------------
(* Properties *)

TypeOK ==
    /\ queue \in Seq(Events) /\ Len(queue) <= PAIRING_EVENTS_MAX
    /\ nvs \in Seq(Events) /\ Len(nvs) <= PAIRING_EVENTS_MAX
    /\ buf \in Events \cup {NoMsg}
    /\ task \in Places
    /\ link \in BOOLEAN
    /\ outgoing \in [Slots -> Events \cup {NoMsg, Other}]
    /\ leaked \in 0..OUTGOING_PUBLISH_RECORD_LEN
    /\ wire \in Seq([slot : Slots \cup {NoSlot}, msg : Events \cup {Other}])
    /\ acks \subseteq Slots
    /\ seen \in Seq(Events)
    /\ published \subseteq Events
    /\ refused \in Nat
    /\ DOMAIN used = {"events", "overflows", "others", "losses", "fails", "boots"}

\* The events that were pushed, are not queued any more and that coreMQTT
\* never got.
Unpublished == {e \in 1..used.events : e \notin published /\ e \notin Range(queue)}

\* An overflow costs one event and nothing else does: also when the push that
\* overflows comes between peek and pop, so that pop takes an event that was not
\* the one published, and when power is lost between any two steps.
LossBounded == used.fails = 0 => Cardinality(Unpublished) <= used.overflows

\* The backend sees events in the order in which they happened, whatever
\* breaks in between; an event comes twice only for a power loss between its
\* publish and its pop, or for a send that failed and went through after all, and
\* then twice in a row.
OrderKept ==
    used.fails = 0 =>
        /\ \A i, j \in DOMAIN seen : i < j => seen[i] <= seen[j]
        /\ Len(seen) <= Cardinality(Range(seen)) + used.boots + refused

\* Every record is kept for a publish that could not be sent: no publish can
\* succeed on this connection any more.
Clogged == link /\ leaked = OUTGOING_PUBLISH_RECORD_LEN

\* The queue is emptied, however often the connection broke before and sends
\* failed, unless a connection stays up whose records are used up.
EventsLeave == []<>(queue = <<>>) \/ <>[]Clogged

\* "Events are queued in NVS until the device is connected, so a pairing done
\* while offline reaches the cloud on the next connect".  It does not hold: a
\* connection with no record left stays up and publishes nothing.
ConnectedEventsLeave == \A e \in Events : e \in Range(queue) ~> e \notin Range(queue)

\* The queue forgets an event when the broker has it or will get it: "popped
\* once the publish is accepted by coreMQTT (QoS1, resent by it on reconnect)".
\* In the process loop, after any number of connections, an event that was
\* published is still queued, at the broker, on the wire, or among the publishes
\* that are kept for a resend.  Violated: every connection starts by clearing
\* those, and with a clean session.
PublishedArrives ==
    task = "loop" => \A e \in published :
        e \in Range(queue) \cup Range(seen) \cup Range(outgoing) \cup {wire[i].msg : i \in DOMAIN wire}
=============================================================================
