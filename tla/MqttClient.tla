----------------------------- MODULE MqttClient -----------------------------
(***************************************************************************)
(* A coreMQTT client (coreMQTT/core_mqtt.c over core_mqtt_state.c), the    *)
(* application's table of publishes (aws/aws_iot_handler.c), a broker and  *)
(* connections that break.                                                 *)
(*                                                                         *)
(* One task runs the client, so a handler is one step: the packet taken    *)
(* from the receive buffer, the state engine, the callback and the         *)
(* acknowledgement that goes out.  Sending on a connection that is broken, *)
(* unnoticed, may seem to succeed.  Resuming a session sends one packet    *)
(* per step, as the connection may break again in between.                 *)
(*                                                                         *)
(* The firmware itself publishes with QoS 1, gives a copy back with its    *)
(* PUBACK and asks for a clean session on every connection: OutQos = {1},  *)
(* Releases = {"PUBACK"}, CleanSessions = {TRUE}.  The other values are    *)
(* the use that core_mqtt_state.h documents, for which                     *)
(* handleSessionResumption() and handlePublishResend() are written.  The   *)
(* broker is external.                                                     *)
(***************************************************************************)
EXTENDS MqttState, SequencesExt

CONSTANTS MAX_OUTGOING_PUBLISHES,  \* slots of outgoingPublishPackets
          OUTGOING_COUNT,          \* MQTT_OUTGOING_PUBLISH_RECORD_COUNT
          INCOMING_COUNT,          \* MQTT_INCOMING_PUBLISH_RECORD_COUNT
          MaxId,                   \* the last packet id, UINT16_MAX in the code
          CleanSessions,           \* the values of cleanSession in use
          OutQos,                  \* the QoS that the application publishes with
          Releases,                \* the packets for which eventCallback() frees a copy
          MaxOut,                  \* bound: publishes by the application
          MaxIn,                   \* bound: publishes by the broker
          MaxMsgs,                 \* bound: publishes by both
          MaxBreaks                \* bound: connections that break

ASSUME MqttAssumption ==
    /\ {MAX_OUTGOING_PUBLISHES, OUTGOING_COUNT, INCOMING_COUNT, MaxId} \subseteq Nat \ {0}
    /\ CleanSessions \subseteq BOOLEAN /\ CleanSessions # {}
    /\ OutQos \subseteq {1, 2}
    /\ Releases \subseteq {"PUBACK", "PUBREC"} /\ "PUBACK" \in Releases
    /\ 2 \in OutQos => "PUBREC" \in Releases
    /\ {MaxOut, MaxIn, MaxMsgs, MaxBreaks} \subseteq Nat

VARIABLES
    ctx,        \* the records of the MQTTContext_t
    nextId,     \* nextPacketId
    copies,     \* outgoingPublishPackets: the message kept under a packet id
    phase,      \* what the task is doing
    resume,     \* the cursor of the resumption, and whether every send worked
    link,       \* whether the connection carries anything
    toB, toC,   \* packets under way to the broker and to the client
    broker,     \* the broker's session
    qos,        \* the QoS of every message, 0 before it is published
    owed,       \* history: accepted publishes of the session
    got,        \* history: messages at the broker, in the order of arrival
    delivered,  \* history: messages handed to the application's callback
    again,      \* history: QoS 2 messages that arrived twice at either end
    acked,      \* history: messages that the broker counts as received
    used        \* history: bounded steps so far

client == <<ctx, nextId, copies, phase, resume>>

history == <<owed, got, delivered, again, acked>>

vars == <<ctx, nextId, copies, phase, resume, link, toB, toC, broker, qos,
          owed, got, delivered, again, acked, used>>

Ids == 1..MaxId

OutMsgs == 1..MaxOut

InMsgs == MaxOut + 1 .. MaxOut + MaxIn

NoMsg == 0

Phases == {"down", "pubrel", "resend", "up"}

Packet(type, id, msg) == [type |-> type, id |-> id, msg |-> msg]

NoSession == [kept |-> FALSE, rel |-> {}, sent |-> <<>>]

NoCopies == [i \in Ids |-> NoMsg]

\* MQTT_InitStatefulQoS() on zeroed records.
FreshContext == [out |-> NoRecords(OUTGOING_COUNT), in |-> NoRecords(INCOMING_COUNT)]

\* Where a resumption begins: MQTT_STATE_CURSOR_INITIALIZER.
FromTheStart == [cursor |-> 1, ok |-> TRUE]

Init ==
    /\ ctx = FreshContext /\ nextId = 1 /\ copies = NoCopies
    /\ phase = "down" /\ resume = FromTheStart
    /\ link = FALSE /\ toB = <<>> /\ toC = <<>>
    /\ broker = NoSession
    /\ qos = [m \in OutMsgs \cup InMsgs |-> 0]
    /\ owed = {} /\ got = <<>> /\ delivered = {} /\ again = {} /\ acked = {}
    /\ used = [out |-> 0, in |-> 0, breaks |-> 0, skipped |-> {}]
-----------------------------------------------------------------------------
(* Sending *)

\* sendBuffer() and sendMessageVector(): whether all bytes were taken.  A send
\* may also time out on a connection that carries on.
SendResults == BOOLEAN

\* What is under way to the broker once packet p was taken.
Sent(p) == IF link THEN Append(toB, p) ELSE toB

\* getAckTypeToSend(): the packet that a state asks for.
AckTypeToSend(state) ==
    CASE state = "PubAckSend" -> {"PUBACK"}
      [] state = "PubRecSend" -> {"PUBREC"}
      [] state = "PubRelSend" -> {"PUBREL"}
      [] state = "PubCompSend" -> {"PUBCOMP"}
      [] OTHER -> {}

\* sendPublishAcks() in context c: a record only moves on once its packet
\* was taken.
SendPublishAcks(c, id, state, ok) ==
    IF AckTypeToSend(state) = {} \/ ~ok THEN ctx' = c /\ toB' = toB
    ELSE \E type \in AckTypeToSend(state) :
            /\ toB' = Sent(Packet(type, id, NoMsg))
            /\ ctx' = UpdateStateAck(c, id, type, "SEND").ctx

\* Mutant of NextPacketId: the counter wraps to 0.
NextPacketIdWraps(id) == IF id = MaxId THEN 0 ELSE id + 1

\* MQTT_GetPacketId(): ids go round and never are 0.
NextPacketId(id) == IF id = MaxId THEN 1 ELSE id + 1

\* getNextFreeIndexForOutgoingPublishes()
HasFreeIndex == Cardinality({i \in Ids : copies[i] # NoMsg}) < MAX_OUTGOING_PUBLISHES

\* sendPublishWithoutCopy()
SendPublish(id, m, ok) == toB' = IF ok THEN Sent(Packet("PUBLISH", id, m)) ELSE toB

\* MQTT_Publish() with result ok.  A packet id whose exchange is still open,
\* unless it is a duplicate, or no room for a record, refuses the publish; so
\* does a send that fails, and then the record stays as it was reserved.
MqttPublish(id, q, m, dup, ok) ==
    \E reserved \in {ReserveState(ctx, id, q)} :
        LET reserves == reserved.status = "Success" \/ (dup /\ reserved.status = "StateCollision")
        IN  /\ ok \in SendResults /\ (ok => reserves)
            /\ SendPublish(id, m, ok)
            /\ ctx' = IF ok THEN UpdateStatePublish(reserved.ctx, id, "SEND", q).ctx ELSE reserved.ctx

\* publishToTopic(): without a free index nothing is tried; the copy is given
\* up when MQTT_Publish() fails.
Publish(q) ==
    LET m == used.out + 1
        Refused == UNCHANGED <<copies, qos, owed>>
    IN  /\ phase = "up"
        /\ used.out < MaxOut /\ used.out + used.in < MaxMsgs
        /\ used' = [used EXCEPT !.out = m]
        /\ nextId' = IF HasFreeIndex THEN NextPacketId(nextId) ELSE nextId
        /\ \/ ~HasFreeIndex /\ Refused /\ UNCHANGED <<ctx, toB>>
           \/ HasFreeIndex /\ MqttPublish(nextId, q, m, FALSE, FALSE) /\ Refused
           \/ /\ HasFreeIndex /\ MqttPublish(nextId, q, m, FALSE, TRUE)
              /\ copies' = [copies EXCEPT ![nextId] = m]
              /\ qos' = [qos EXCEPT ![m] = q]
              /\ owed' = owed \cup {m}
        /\ UNCHANGED <<phase, resume, link, toC, broker, got, delivered, again, acked>>
-----------------------------------------------------------------------------
(* Receiving: MQTT_ProcessLoop() with one packet *)

\* The packet is consumed whatever its handler returns.
Consume ==
    /\ phase = "up"
    /\ toC # <<>>
    /\ toC' = Tail(toC)

\* The application's callback gets message m.
Deliver(m) ==
    /\ delivered' = delivered \cup {m}
    /\ again' = IF m \in delivered /\ qos[m] = 2 THEN again \cup {m} ELSE again

\* Mutant of ReceivePublish: a duplicate is delivered as well.
ReceivePublishDelivers ==
    /\ Consume
    /\ LET p == Head(toC)
           updated == UpdateStatePublish(ctx, p.id, "RECEIVE", qos[p.msg])
       IN  /\ p.type = "PUBLISH"
           /\ IF updated.status \in {"Success", "StateCollision"}
              THEN /\ Deliver(p.msg)
                   /\ \E ok \in SendResults :
                         SendPublishAcks(updated.ctx, p.id, CalculateStatePublish("RECEIVE", qos[p.msg]), ok)
              ELSE ctx' = updated.ctx /\ UNCHANGED <<toB, delivered, again>>
    /\ UNCHANGED <<nextId, copies, phase, resume, link, broker, qos, owed, got, acked, used>>

\* Mutant of ReceivePublish: a publish without a record is acknowledged.
ReceivePublishAcksAll ==
    /\ Consume
    /\ LET p == Head(toC)
           updated == UpdateStatePublish(ctx, p.id, "RECEIVE", qos[p.msg])
       IN  /\ p.type = "PUBLISH"
           /\ IF updated.status = "Success" THEN Deliver(p.msg) ELSE UNCHANGED <<delivered, again>>
           /\ \E ok \in SendResults :
                 SendPublishAcks(updated.ctx, p.id, CalculateStatePublish("RECEIVE", qos[p.msg]), ok)
    /\ UNCHANGED <<nextId, copies, phase, resume, link, broker, qos, owed, got, acked, used>>

\* handleIncomingPublish(): a packet id that has a record is a duplicate,
\* acknowledged and not delivered; without room for a record the publish is
\* dropped and not acknowledged.
ReceivePublish ==
    /\ Consume
    /\ LET p == Head(toC)
           updated == UpdateStatePublish(ctx, p.id, "RECEIVE", qos[p.msg])
           state == CalculateStatePublish("RECEIVE", qos[p.msg])
       IN  /\ p.type = "PUBLISH"
           /\ IF updated.status = "Success" THEN Deliver(p.msg) ELSE UNCHANGED <<delivered, again>>
           /\ IF updated.status \in {"Success", "StateCollision"}
              THEN \E ok \in SendResults : SendPublishAcks(updated.ctx, p.id, state, ok)
              ELSE ctx' = updated.ctx /\ UNCHANGED toB
    /\ UNCHANGED <<nextId, copies, phase, resume, link, broker, qos, owed, got, acked, used>>

\* Mutant of CopiesAfter: the first slot in use is freed.
CopiesAfterFirst(type, id) ==
    IF type \in Releases /\ copies # NoCopies
    THEN [copies EXCEPT ![Min({i \in Ids : copies[i] # NoMsg})] = NoMsg]
    ELSE copies

\* cleanupOutgoingPublishWithPacketID()
CopiesWithout(id) == [copies EXCEPT ![id] = NoMsg]

\* eventCallback().
CopiesAfter(type, id) == IF type \in Releases THEN CopiesWithout(id) ELSE copies

\* handlePublishAcks(), from handleIncomingAck(): an acknowledgement without
\* a record, or one that does not fit its state, changes nothing.
ReceiveAck ==
    /\ Consume
    /\ LET p == Head(toC)
           updated == UpdateStateAck(ctx, p.id, p.type, "RECEIVE")
       IN  /\ p.type \in PubAckTypes
           /\ IF updated.status = "Success"
              THEN /\ copies' = CopiesAfter(p.type, p.id)
                   /\ \E ok \in SendResults : SendPublishAcks(updated.ctx, p.id, updated.state, ok)
              ELSE ctx' = updated.ctx /\ UNCHANGED <<copies, toB>>
    /\ UNCHANGED <<nextId, phase, resume, link, broker, qos, history, used>>

\* recvExact() fails on a broken connection once all that had arrived is read.
RecvFails ==
    /\ phase = "up"
    /\ ~link /\ toC = <<>>
    /\ phase' = "down"
    /\ UNCHANGED <<ctx, nextId, copies, resume, link, toB, toC, broker, qos, history, used>>
-----------------------------------------------------------------------------
(* Connecting and resuming a session *)

\* What a broker sends again when a session is resumed, in its order.
Redelivery ==
    [i \in DOMAIN broker.sent |->
        LET s == broker.sent[i]
        IN  IF s.rel THEN Packet("PUBREL", s.id, NoMsg) ELSE Packet("PUBLISH", s.id, s.msg)]

\* MQTT_Connect() when the broker has the session: CONNECT and CONNACK, and
\* handleSessionResumption() is to follow.
SessionKept ==
    /\ phase' = "pubrel"
    /\ toC' = Redelivery
    /\ UNCHANGED <<ctx, nextId, copies, broker, owed>>

\* establishMqttSession() when the broker has none or has dropped it: records
\* and copies are cleared.
SessionFresh(clean) ==
    /\ phase' = "up"
    /\ toC' = <<>>
    /\ ctx' = FreshContext /\ copies' = NoCopies
    /\ nextId' = IF clean THEN 1 ELSE nextId
    /\ broker' = [NoSession EXCEPT !.kept = ~clean]
    /\ owed' = {}

\* aws_iot_task(): a connection is there again.  With a clean session the task
\* has started its loop again, and initialised the context, before.
Connect ==
    /\ phase = "down"
    /\ link' = TRUE /\ toB' = <<>>
    /\ resume' = FromTheStart
    /\ \E clean \in CleanSessions, present \in {FALSE, broker.kept} :
          IF ~clean /\ present THEN SessionKept ELSE SessionFresh(clean)
    /\ UNCHANGED <<qos, got, delivered, again, acked, used>>

\* handleSessionResumption(): the next PUBREL; MQTT_Connect() fails with the
\* first that cannot be sent.
ResumePubrel ==
    /\ phase = "pubrel"
    /\ LET i == PubrelToResend(ctx, resume.cursor)
       IN  IF i = 0 THEN /\ phase' = "resend"
                         /\ resume' = FromTheStart
                         /\ UNCHANGED <<ctx, toB>>
           ELSE \E ok \in SendResults :
                   /\ SendPublishAcks(ctx, ctx.out[i].id, "PubRelSend", ok)
                   /\ resume' = [resume EXCEPT !.cursor = i + 1]
                   /\ phase' = IF ok THEN phase ELSE "down"
    /\ UNCHANGED <<nextId, copies, link, toC, broker, qos, history, used>>

\* The publishes at or behind the cursor, and those that the cursor misses.
Unsent(c, cursor) ==
    {c.out[i].id : i \in {j \in DOMAIN c.out :
        j >= cursor /\ c.out[j].state \in {"PublishSend", "PubAckPending", "PubRecPending"}}}

\* The ids that the resumption passes over with entry i, when the records are c
\* then.
PassedOver(c, i, ok) ==
    (Unsent(ctx, i + 1) \ Unsent(c, i + 1)) \cup {id \in {ctx.out[i].id} : link /\ ~ok}

\* handlePublishResend(): the next PUBLISH, with MQTT_Publish() and dup.  Its
\* MQTT_ReserveState() collides, as it should, but may compact the records
\* under the cursor.  A send that fails does not end the loop, and what follows
\* may overtake it; an id without a copy does, and either way the task connects
\* again.
ResumePublish ==
    /\ phase = "resend"
    /\ \E i \in {PublishToResend(ctx, resume.cursor)} :
           IF i = 0 THEN /\ phase' = IF resume.ok THEN "up" ELSE "down"
                         /\ UNCHANGED <<ctx, resume, toB, used>>
           ELSE LET id == ctx.out[i].id
                    m == copies[id]
                IN  IF m = NoMsg THEN phase' = "down" /\ UNCHANGED <<ctx, resume, toB, used>>
                    ELSE \E c \in {ReserveState(ctx, id, qos[m]).ctx}, ok \in BOOLEAN :
                           /\ phase' = phase
                           /\ resume' = [cursor |-> i + 1, ok |-> resume.ok /\ ok]
                           /\ MqttPublish(id, qos[m], m, TRUE, ok)
                           /\ used' = [used EXCEPT !.skipped = @ \cup PassedOver(c, i, ok)]
    /\ UNCHANGED <<nextId, copies, link, toC, broker, qos, history>>
-----------------------------------------------------------------------------
(* The broker and the network *)

\* A message arrives from the client.
Arrives(m) ==
    /\ got' = IF m \in Range(got) THEN got ELSE Append(got, m)
    /\ again' = IF m \in Range(got) /\ qos[m] = 2 THEN again \cup {m} ELSE again

\* The position of an open exchange with packet id i.
SentAt(i) == SelectInSeq(broker.sent, LAMBDA s : s.id = i)

BrokerTakes ==
    /\ link /\ toB # <<>>
    /\ toB' = Tail(toB)
    /\ LET p == Head(toB)
           k == SentAt(p.id)
           Reply(type) == toC' = Append(toC, Packet(type, p.id, NoMsg))
       IN  \/ /\ p.type = "PUBLISH" /\ qos[p.msg] = 1
              /\ Arrives(p.msg) /\ Reply("PUBACK")
              /\ UNCHANGED <<broker, acked>>
           \/ /\ p.type = "PUBLISH" /\ qos[p.msg] = 2
              /\ IF p.id \in broker.rel THEN UNCHANGED <<got, again>> ELSE Arrives(p.msg)
              /\ broker' = [broker EXCEPT !.rel = @ \cup {p.id}]
              /\ Reply("PUBREC")
              /\ UNCHANGED acked
           \/ /\ p.type = "PUBREL"
              /\ broker' = [broker EXCEPT !.rel = @ \ {p.id}]
              /\ Reply("PUBCOMP")
              /\ UNCHANGED <<got, again, acked>>
           \/ /\ p.type = "PUBREC"
              /\ Reply("PUBREL")
              /\ IF k = 0 THEN UNCHANGED <<broker, acked>>
                 ELSE /\ broker' = [broker EXCEPT !.sent[k].rel = TRUE]
                      /\ acked' = acked \cup {broker.sent[k].msg}
              /\ UNCHANGED <<got, again>>
           \/ /\ p.type \in {"PUBACK", "PUBCOMP"}
              /\ IF k = 0 THEN UNCHANGED <<broker, acked>>
                 ELSE /\ broker' = [broker EXCEPT !.sent = RemoveAt(@, k)]
                      /\ acked' = acked \cup {broker.sent[k].msg}
              /\ UNCHANGED <<toC, got, again>>
    /\ UNCHANGED <<client, link, qos, owed, delivered, used>>

\* The broker publishes, with the first packet id that is not in use.
BrokerPublishes(q) ==
    /\ link
    /\ used.in < MaxIn /\ used.out + used.in < MaxMsgs
    /\ LET m == MaxOut + used.in + 1
           id == Min({i \in 1..MaxIn : SentAt(i) = 0})
       IN  /\ broker' = [broker EXCEPT !.sent = Append(@, [id |-> id, msg |-> m, rel |-> FALSE])]
           /\ toC' = Append(toC, Packet("PUBLISH", id, m))
           /\ qos' = [qos EXCEPT ![m] = q]
    /\ used' = [used EXCEPT !.in = @ + 1]
    /\ UNCHANGED <<client, link, toB, history>>

\* What the client has not read yet may still be read.
LinkBreaks ==
    /\ link
    /\ used.breaks < MaxBreaks
    /\ link' = FALSE /\ toB' = <<>>
    /\ toC' \in {SubSeq(toC, 1, n) : n \in 0..Len(toC)}
    /\ used' = [used EXCEPT !.breaks = @ + 1]
    /\ UNCHANGED <<client, broker, qos, history>>

Client == (\E q \in OutQos : Publish(q)) \/ ReceivePublish \/ ReceiveAck \/ RecvFails \/ Connect \/ ResumePubrel \/ ResumePublish

Next == Client \/ BrokerTakes \/ (\E q \in {1, 2} : BrokerPublishes(q)) \/ LinkBreaks

Spec == Init /\ [][Next]_vars
-----------------------------------------------------------------------------
(* Properties *)

Records(n) == [1..n -> [id : Nat, qos : 0..2, state : PublishStates]]

TypeOK ==
    /\ ctx.out \in Records(OUTGOING_COUNT) /\ ctx.in \in Records(INCOMING_COUNT)
    /\ nextId \in Ids
    /\ copies \in [Ids -> OutMsgs \cup {NoMsg}]
    /\ Cardinality({i \in Ids : copies[i] # NoMsg}) <= MAX_OUTGOING_PUBLISHES
    /\ phase \in Phases
    /\ resume \in [cursor : 1..OUTGOING_COUNT + 1, ok : BOOLEAN]
    /\ broker.rel \subseteq Ids
    /\ owed \subseteq OutMsgs /\ Range(got) \subseteq OutMsgs
    /\ acked \cup delivered \subseteq InMsgs

\* A QoS 2 message arrives once at most, in either direction, whatever breaks
\* during the exchange and however often parts of it are sent again.
AtMostOnce == again = {}

\* Messages first arrive at the broker in the order in which they were
\* published, also those that only a resumed session brings.
InOrder ==
    used.skipped = {} => \A i, j \in DOMAIN got : i < j => got[i] < got[j]

\* An accepted publish that the broker does not have can be sent again: its
\* record says so and its copy is there, until the broker drops the session.
KeptUntilReceived ==
    \A m \in owed \ Range(got) :
        \E i \in DOMAIN ctx.out :
            /\ ctx.out[i].state \in {"PubAckPending", "PubRecPending"}
            /\ copies[ctx.out[i].id] = m

\* What the broker counts as received has been handed to the application: a
\* publish that is dropped for want of a record is never acknowledged.
AckedWasDelivered == acked \subseteq delivered

\* "Calling this function repeatedly until packet id is 0 will give all the
\* packets for which a publish need to be resent in the correct order."
\* A step of the resumption moves no record that is to be resent under the
\* cursor.  It does not hold: addRecord() may compact the records meanwhile.
ResendsAll ==
    [][phase = "resend" /\ phase' = "resend" =>
          Unsent(ctx, resume'.cursor) \subseteq Unsent(ctx', resume'.cursor)]_vars
=============================================================================
