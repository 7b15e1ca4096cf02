----------------------------- MODULE MqttState -----------------------------
(***************************************************************************)
(* The state engine of coreMQTT (coreMQTT/core_mqtt_state.c): what the     *)
(* library remembers of every QoS 1 and QoS 2 publish whose exchange of    *)
(* acknowledgements is open.                                               *)
(*                                                                         *)
(* A context is [out |-> records, in |-> records].  Records are an array   *)
(* of fixed length whose order is the order in which the publishes were    *)
(* first sent; an entry with packet id 0 is free.  An operation returns    *)
(* [status, ctx, state]: the MQTTStatus_t, the context after it and the    *)
(* new state that the C function stores through pNewState.                 *)
(***************************************************************************)
EXTENDS Naturals, Sequences, FiniteSets, FiniteSetsExt

MQTT_PACKET_ID_INVALID == 0

PubAckTypes == {"PUBACK", "PUBREC", "PUBREL", "PUBCOMP"}

\* MQTTPublishState_t
PublishStates ==
    {"Null", "PublishSend", "PubAckSend", "PubRecSend", "PubRelSend", "PubCompSend",
     "PubAckPending", "PubRecPending", "PubRelPending", "PubCompPending", "PublishDone"}

FreeRecord == [id |-> MQTT_PACKET_ID_INVALID, qos |-> 0, state |-> "Null"]

Result(status, ctx, state) == [status |-> status, ctx |-> ctx, state |-> state]
-----------------------------------------------------------------------------
(* Which transitions are legal *)

\* validateTransitionPublish()
ValidTransitionPublish(current, new, op, qos) ==
    CASE current = "Null"          -> op = "RECEIVE" /\ new \in {"PubAckSend", "PubRecSend"}
      [] current = "PublishSend"   -> new = IF qos = 1 THEN "PubAckPending" ELSE "PubRecPending"
      [] current \in {"PubAckPending", "PubRecPending"} -> new = current
      [] OTHER -> FALSE

\* validateTransitionAck()
ValidTransitionAck(current, new) ==
    new \in CASE current \in {"PubAckSend", "PubAckPending"} -> {"PublishDone"}
              [] current = "PubRecSend"     -> {"PubRelPending"}
              [] current = "PubRelPending"  -> {"PubCompSend", "PubRelPending"}
              [] current = "PubCompSend"    -> {"PublishDone", "PubCompSend"}
              [] current = "PubRecPending"  -> {"PubRelSend"}
              [] current = "PubRelSend"     -> {"PubCompPending"}
              [] current = "PubCompPending" -> {"PublishDone", "PubCompPending"}
              [] OTHER -> {}

\* MQTT_CalculateStatePublish()
CalculateStatePublish(op, qos) ==
    CASE qos = 0 -> "PublishDone"
      [] qos = 1 -> IF op = "SEND" THEN "PubAckPending" ELSE "PubAckSend"
      [] qos = 2 -> IF op = "SEND" THEN "PubRecPending" ELSE "PubRecSend"

\* MQTT_CalculateStateAck()
CalculateStateAck(type, op, qos) ==
    IF qos # (IF type = "PUBACK" THEN 1 ELSE 2) THEN "Null"
    ELSE CASE type = "PUBREC" -> IF op = "SEND" THEN "PubRelPending" ELSE "PubRelSend"
           [] type = "PUBREL" -> IF op = "SEND" THEN "PubCompPending" ELSE "PubCompSend"
           [] OTHER -> "PublishDone"

\* isPublishOutgoing(): whose publish an acknowledgement is about.
IsPublishOutgoing(type, op) == op = IF type = "PUBREL" THEN "SEND" ELSE "RECEIVE"
-----------------------------------------------------------------------------
(* The record arrays *)

NoRecords(n) == [i \in 1..n |-> FreeRecord]

Used(records) == {i \in DOMAIN records : records[i].id # MQTT_PACKET_ID_INVALID}

\* findInRecord(): the first index, 0 for MQTT_INVALID_STATE_COUNT.
FindInRecord(records, id) ==
    LET found == {i \in DOMAIN records : records[i].id = id}
    IN  IF found = {} THEN 0 ELSE Min(found)

\* How many entries up to place i are used.
UsedUpTo(records, i) == Cardinality({j \in Used(records) : j <= i})

\* compactRecords(): the used entries move to the front, in their order, so
\* that the i-th of them is at place i.
CompactRecords(records) ==
    LET ith(i) == {j \in Used(records) : UsedUpTo(records, j) = i}
    IN  [i \in DOMAIN records |->
            IF ith(i) = {} THEN FreeRecord ELSE records[CHOOSE j \in ith(i) : TRUE]]

\* Mutant of AddRecord: the first free entry is taken.
AddRecordFirstFree(records, id, qos, state) ==
    LET free == DOMAIN records \ Used(records)
    IN  IF FindInRecord(records, id) # 0 THEN [status |-> "StateCollision", records |-> records]
        ELSE IF free = {} THEN [status |-> "NoMemory", records |-> records]
        ELSE [status |-> "Success",
              records |-> [records EXCEPT ![Min(free)] = [id |-> id, qos |-> qos, state |-> state]]]

\* addRecord(): the entry behind the last used one, after a compaction when
\* there is none.
AddRecord(records, id, qos, state) ==
    LET n == Len(records)
        tidy == IF records[n].id # MQTT_PACKET_ID_INVALID THEN CompactRecords(records) ELSE records
        last == IF Used(tidy) = {} THEN 0 ELSE Max(Used(tidy))
    IN  IF FindInRecord(tidy, id) # 0 THEN [status |-> "StateCollision", records |-> tidy]
        ELSE IF last = n THEN [status |-> "NoMemory", records |-> tidy]
        ELSE [status |-> "Success",
              records |-> [tidy EXCEPT ![last + 1] = [id |-> id, qos |-> qos, state |-> state]]]

\* updateRecord()
UpdateRecord(records, i, new, delete) ==
    IF delete THEN [records EXCEPT ![i] = FreeRecord] ELSE [records EXCEPT ![i].state = new]

\* stateSelect(): the next index at or behind the cursor in one of the
\* states, 0 when there is none.
StateSelect(records, states, cursor) ==
    LET found == {i \in DOMAIN records : i >= cursor /\ records[i].state \in states}
    IN  IF found = {} THEN 0 ELSE Min(found)
-----------------------------------------------------------------------------
(* The operations *)

\* MQTT_ReserveState() for QoS 1 and 2: a record before the packet is sent.
ReserveState(ctx, id, qos) ==
    IF id = MQTT_PACKET_ID_INVALID THEN Result("BadParameter", ctx, "Null")
    ELSE LET added == AddRecord(ctx.out, id, qos, "PublishSend")
         IN  Result(added.status, [ctx EXCEPT !.out = added.records], "PublishSend")

\* updateStatePublish()
UpdatePublish(ctx, i, id, op, qos, current, new) ==
    IF ~ValidTransitionPublish(current, new, op, qos) THEN Result("IllegalState", ctx, "Null")
    ELSE IF op = "RECEIVE"
         THEN LET added == AddRecord(ctx.in, id, qos, new)
              IN  Result(added.status, [ctx EXCEPT !.in = added.records], new)
         ELSE Result("Success", [ctx EXCEPT !.out = UpdateRecord(@, i, new, FALSE)], new)

\* MQTT_UpdateStatePublish()
UpdateStatePublish(ctx, id, op, qos) ==
    LET i == FindInRecord(ctx.out, id)
    IN  CASE qos = 0 -> Result("Success", ctx, "Null")
          [] qos > 0 /\ id = MQTT_PACKET_ID_INVALID -> Result("BadParameter", ctx, "Null")
          [] qos > 0 /\ id # MQTT_PACKET_ID_INVALID /\ op = "SEND" ->
                IF i = 0 \/ (i # 0 /\ ctx.out[i].qos # qos) THEN Result("BadParameter", ctx, "Null")
                ELSE UpdatePublish(ctx, i, id, op, qos, ctx.out[i].state, CalculateStatePublish(op, qos))
          [] OTHER -> UpdatePublish(ctx, 0, id, op, qos, "Null", CalculateStatePublish(op, qos))

\* updateStateAck(): a publish that reaches PUBREL goes to the end, behind
\* those sent since: PUBRELs are resent in the order of the PUBRECs.
UpdateAck(records, i, id, new) ==
    LET current == records[i].state
        delete == new \in {"PublishDone", "PubRelSend"}
        updated == UpdateRecord(records, i, new, delete)
    IN  CASE ~ValidTransitionAck(current, new) -> [status |-> "IllegalState", records |-> records]
          [] ValidTransitionAck(current, new) /\ current = new -> [status |-> "Success", records |-> records]
          [] ValidTransitionAck(current, new) /\ current # new ->
                IF new = "PubRelSend" THEN AddRecord(updated, id, 2, "PubRelSend")
                ELSE [status |-> "Success", records |-> updated]

\* MQTT_UpdateStateAck()
UpdateStateAck(ctx, id, type, op) ==
    LET outgoing == IsPublishOutgoing(type, op)
        records == IF outgoing THEN ctx.out ELSE ctx.in
        i == FindInRecord(records, id)
    IN  IF id = MQTT_PACKET_ID_INVALID THEN Result("BadParameter", ctx, "Null")
        ELSE IF i = 0 THEN Result("BadResponse", ctx, "Null")
        ELSE LET new == CalculateStateAck(type, op, records[i].qos)
                 done == UpdateAck(records, i, id, new)
             IN  Result(done.status,
                        IF outgoing THEN [ctx EXCEPT !.out = done.records]
                                    ELSE [ctx EXCEPT !.in = done.records],
                        new)

\* MQTT_PubrelToResend(): the index of the next PUBREL.
PubrelToResend(ctx, cursor) == StateSelect(ctx.out, {"PubCompPending", "PubRelSend"}, cursor)

\* MQTT_PublishToResend(): the index of the next PUBLISH.
PublishToResend(ctx, cursor) ==
    StateSelect(ctx.out, {"PublishSend", "PubAckPending", "PubRecPending"}, cursor)
=============================================================================
