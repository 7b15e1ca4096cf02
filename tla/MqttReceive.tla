---------------------------- MODULE MqttReceive ----------------------------
(***************************************************************************)
(* How coreMQTT cuts the bytes of a connection into packets, and how it    *)
(* notices that the broker is gone: receiveConnack(), then                 *)
(* receiveSingleIteration() over and over, with handleKeepAlive() whenever *)
(* no bytes came (coreMQTT/core_mqtt.c, core_mqtt_serializer.c).           *)
(*                                                                         *)
(* A byte is <<packet, offset>>.  What the code reads from a byte is what  *)
(* that packet has there: its type at offset 1, then the digits of its     *)
(* remaining length, then its body.  The radix of the length is a          *)
(* parameter, so that lengths of several digits occur in short packets.    *)
(* recv() returns as many of the bytes under way as it likes.  Time is     *)
(* counted modulo TimeMod, as the code's milliseconds are modulo 2^32, and *)
(* passes between any two iterations: the callback, a publish or another   *)
(* task may take long.                                                     *)
(***************************************************************************)
EXTENDS Integers, Sequences, FiniteSets, FiniteSetsExt, SequencesExt

CONSTANTS Radix,                     \* 128 in the code
          BufSize,                   \* networkBuffer.size
          Lengths,                   \* remaining lengths of the broker's packets
          MQTT_PINGRESP_TIMEOUT_MS,
          PACKET_TX_TIMEOUT_MS,      \* the shorter of it and the keep-alive interval
          PACKET_RX_TIMEOUT_MS,
          TimeMod,                   \* 2^32 in the code
          MaxPackets                 \* bound: packets that the broker sends of itself

ASSUME ReceiveAssumption ==
    /\ Radix \in Nat \ {0, 1}
    /\ BufSize \in Nat /\ BufSize > 5
    /\ Lengths \subseteq 0 .. Radix * Radix * Radix * Radix - 1
    /\ TimeMod \in Nat
    /\ {MQTT_PINGRESP_TIMEOUT_MS, PACKET_TX_TIMEOUT_MS, PACKET_RX_TIMEOUT_MS} \subseteq 1 .. TimeMod - 1
    /\ MaxPackets \in Nat

VARIABLES
    net,      \* bytes that the broker has sent and recv() has not returned
    buf,      \* networkBuffer up to index
    phase,    \* connack, loop, failed
    status,   \* what MQTT_ProcessLoop() returned last
    now,      \* getTime()
    lastTx,   \* lastPacketTxTime
    ping,     \* waitingForPingResp and pingReqSendTimeMs
    asked,    \* whether a PINGREQ is under way to the broker
    closed,   \* whether the broker has ended the connection
    lens,     \* the remaining lengths of the packets sent so far
    handed    \* history: packets given to their handler, in order

receiveVars == <<net, buf, phase, status, now, lastTx, ping, asked, closed, lens, handed>>

\* The broker's own packets are numbered from 1; a PINGRESP and a CONNACK are
\* packets as well.
PINGRESP == 0

CONNACK == MaxPackets + 1

Length(p) == IF p = PINGRESP THEN 0 ELSE IF p = CONNACK THEN 2 ELSE lens[p]
-----------------------------------------------------------------------------
(* The remaining length *)

\* The multiplier in processRemainingLength(), turn by turn.
Multiplier == <<1, Radix, Radix * Radix, Radix * Radix * Radix>>

\* remainingLengthEncodedSize()
RemainingLengthEncodedSize(length) ==
    CASE length < Multiplier[2] -> 1
      [] length >= Multiplier[2] /\ length < Multiplier[3] -> 2
      [] length >= Multiplier[3] /\ length < Multiplier[4] -> 3
      [] OTHER -> 4

\* What encodeRemainingLength() has still to encode, turn by turn.
Rest(length) ==
    LET second == length \div Radix
        third == second \div Radix
        fourth == third \div Radix
    IN  <<length, second, third, fourth, fourth \div Radix>>

\* encodeRemainingLength(): the lowest digit first; more stands for bit 7.
EncodeRemainingLength(length) ==
    LET rest == Rest(length)
    IN  [d \in 1 .. Min({c \in 1..4 : rest[c + 1] = 0}) |->
            [digit |-> rest[d] % Radix, more |-> rest[d + 1] > 0]]

\* The lengths that occur, encoded: 0 of a PINGRESP, 2 of a CONNACK.
Code == [length \in Lengths \cup {0, 2} |-> EncodeRemainingLength(length)]

\* The bytes of packet p.
Size(p) == 1 + Len(Code[Length(p)]) + Length(p)

Encode(p) == [i \in 1 .. Size(p) |-> <<p, i>>]

\* Byte b read as part of a remaining length.
LengthByte(b) ==
    LET code == Code[Length(b[1])]
    IN  IF b[2] - 1 \in DOMAIN code THEN code[b[2] - 1] ELSE [digit |-> 0, more |-> FALSE]

\* Digit d of the length at the head of the bytes b, and what the first d of
\* them are worth.
Digit(b, d) == LengthByte(b[d + 1])

Worth(b, d) ==
    LET part(c) == IF c <= d THEN Digit(b, c).digit * Multiplier[c] ELSE 0
    IN  part(1) + part(2) + part(3) + part(4)

\* The digit with which the length ends, of four at most, if it is there.
LastDigit(b) ==
    {d \in 1 .. 4 : d < Len(b) /\ ~Digit(b, d).more /\ \A c \in 1 .. d - 1 : Digit(b, c).more}

\* processRemainingLength() of the bytes b: the length and how many bytes the
\* fixed header has, once its last digit is there.
ProcessRemainingLength(b) ==
    LET d == Min(LastDigit(b))
    IN  CASE LastDigit(b) = {} /\ Len(b) > 4 -> [status |-> "BadResponse"]
          [] LastDigit(b) = {} /\ Len(b) <= 4 -> [status |-> "NeedMoreBytes"]
          [] LastDigit(b) # {} /\ d # RemainingLengthEncodedSize(Worth(b, d)) -> [status |-> "BadResponse"]
          [] OTHER -> [status |-> "Success", total |-> Worth(b, d) + d + 1]

\* incomingPacketValid(): only a type byte is one.
IncomingPacketValid(b) == b[2] = 1

\* MQTT_ProcessIncomingPacketTypeAndLength()
ProcessIncomingPacket(b) ==
    IF b = <<>> THEN [status |-> "NoDataAvailable"]
    ELSE IF ~IncomingPacketValid(b[1]) THEN [status |-> "BadResponse"]
    ELSE ProcessRemainingLength(b)
-----------------------------------------------------------------------------
ReceiveInit ==
    /\ net = <<>> /\ buf = <<>>
    /\ phase = "connack" /\ status = "Success"
    /\ now = 0 /\ lastTx = 0
    /\ ping = [waiting |-> FALSE, at |-> 0]
    /\ asked = FALSE /\ closed = FALSE
    /\ lens = <<>> /\ handed = <<>>

Skip(s, n) == SubSeq(s, n + 1, Len(s))

Take(s, n) == SubSeq(s, 1, n)

\* recvExact(): n bytes are there in time.
RecvExact(n) == n <= Len(net)

\* MQTT_GetIncomingPacketTypeAndLength() takes type and length off the connection.
IncomingPacket == ProcessIncomingPacket(net)

\* receiveConnack() up to handleSessionResumption(), which empties the
\* buffer: type, length and body are read one after the other.
ReceiveConnack ==
    /\ phase = "connack"
    /\ IncomingPacket.status = "Success" /\ net[1][1] = CONNACK
    /\ RecvExact(IncomingPacket.total)
    /\ net' = Skip(net, IncomingPacket.total)
    /\ buf' = <<>>
    /\ phase' = "loop"
    /\ ping' = [waiting |-> FALSE, at |-> 0]
    /\ UNCHANGED <<status, now, lastTx, asked, closed, lens, handed>>

\* CONNACK does not come in time or, in the middle of its length, is not there
\* at once: MQTT_Connect() fails and the connection is given up.
ConnackFails ==
    /\ phase = "connack"
    /\ phase' = "failed"
    /\ UNCHANGED <<net, buf, status, now, lastTx, ping, asked, closed, lens, handed>>

\* calculateElapsedTime()
Elapsed(since) == (now - since + TimeMod) % TimeMod

\* MQTT_Ping(): the PINGREQ is under way.
Pinged == [overdue |-> FALSE, ping |-> [waiting |-> TRUE, at |-> now], lastTx |-> now, asked |-> TRUE]

\* handleKeepAlive(), when recv() returned n = 0 bytes: the
\* PINGRESP is overdue, or a PINGREQ leaves after some time without sending or
\* receiving.  lastPacketRxTime is never written and stays 0.
KeepAlive(n) ==
    LET idle == Elapsed(lastTx) >= PACKET_TX_TIMEOUT_MS \/ Elapsed(0) >= PACKET_RX_TIMEOUT_MS
    IN  IF n = 0 /\ ~ping.waiting /\ idle
        THEN Pinged
        ELSE [overdue |-> n = 0 /\ ping.waiting /\ Elapsed(ping.at) > MQTT_PINGRESP_TIMEOUT_MS,
              ping |-> ping, lastTx |-> lastTx, asked |-> asked]

\* Mutant of Oversized: the fixed header is not counted.
OversizedBody(total) == total > BufSize + 2

\* The packet will never fit into the buffer.
Oversized(total) == total > BufSize

\* Mutant of Complete: the last byte is not enough.
CompleteLate(total, b) == total < Len(b)

\* All bytes of the packet at the head of b are there.
Complete(total, b) == total <= Len(b)

\* Mutant of Discard: the bytes that are in the buffer are read once more.
DiscardWhole(n, missing) ==
    /\ buf' = <<>>
    /\ \/ /\ n + missing + Len(buf) <= Len(net)
          /\ net' = Skip(net, n + missing + Len(buf))
          /\ status' = "Success"
          /\ UNCHANGED phase
       \/ /\ net' = Skip(net, n)
          /\ status' = "RecvFailed"
          /\ phase' = "failed"

\* discardStoredPacket(): the rest of a packet that is too long is read and
\* thrown away, if recvExact() gets it in time.
Discard(n, missing) ==
    /\ buf' = <<>>
    /\ \/ /\ RecvExact(n + missing)
          /\ net' = Skip(net, n + missing)
          /\ status' = "Success"
          /\ UNCHANGED phase
       \/ /\ net' = Skip(net, n)
          /\ status' = "RecvFailed"
          /\ phase' = "failed"

\* handleIncomingPublish() or handleIncomingAck() with the packet at the head
\* of b, which leaves the buffer whatever they return.
HandOver(b, total, k) ==
    /\ buf' = Skip(b, total)
    /\ status' = "Success"
    /\ IF b[1][1] = PINGRESP
       THEN ping' = [k.ping EXCEPT !.waiting = FALSE] /\ UNCHANGED handed
       ELSE ping' = k.ping /\ handed' = Append(handed, b[1][1])

\* receiveSingleIteration() when recv() returns n bytes.  Without bytes the
\* keep-alive comes first, also before a packet that is already in the buffer.
ReceiveSingleIteration(n) ==
    /\ phase = "loop"
    /\ n <= BufSize - Len(buf)
    /\ n = 0 => ~closed /\ Len(buf) < BufSize
    /\ \E b \in {buf \o Take(net, n)}, k \in {KeepAlive(n)} : \E parsed \in {ProcessIncomingPacket(b)} :
          /\ lastTx' = k.lastTx /\ asked' = k.asked
          /\ \/ /\ k.overdue \/ parsed.status # "Success"
                /\ status' = IF k.overdue THEN "KeepAliveTimeout"
                             ELSE IF parsed.status = "NoDataAvailable" THEN "Success"
                             ELSE parsed.status
                /\ buf' = b /\ net' = Skip(net, n) /\ ping' = k.ping
                /\ UNCHANGED <<phase, handed>>
             \/ /\ ~k.overdue /\ parsed.status = "Success" /\ Oversized(parsed.total)
                /\ Discard(n, parsed.total - Len(b))
                /\ ping' = k.ping
                /\ UNCHANGED handed
             \/ /\ ~k.overdue /\ parsed.status = "Success" /\ ~Oversized(parsed.total)
                /\ ~Complete(parsed.total, b)
                /\ status' = "NeedMoreBytes"
                /\ buf' = b /\ net' = Skip(net, n) /\ ping' = k.ping
                /\ UNCHANGED <<phase, handed>>
             \/ /\ ~k.overdue /\ parsed.status = "Success" /\ ~Oversized(parsed.total)
                /\ Complete(parsed.total, b)
                /\ HandOver(b, parsed.total, k)
                /\ net' = Skip(net, n)
                /\ UNCHANGED phase
    /\ UNCHANGED <<now, closed, lens>>

ReceiveNothing == ReceiveSingleIteration(0)

ReceiveBytes == \E n \in 1 .. Min({Len(net), BufSize}) : ReceiveSingleIteration(n)

\* recv() fails: the connection is closed and read to its end, or there is no
\* room for even one byte (espTlsTransportRecv() takes that for an error).
RecvFails ==
    /\ phase = "loop"
    /\ (closed /\ net = <<>>) \/ Len(buf) = BufSize
    /\ status' = "RecvFailed"
    /\ phase' = "failed"
    /\ UNCHANGED <<net, buf, now, lastTx, ping, asked, closed, lens, handed>>
-----------------------------------------------------------------------------
(* The broker and time *)

BrokerAccepts ==
    /\ phase = "connack" /\ net = <<>> /\ lens = <<>> /\ ~closed
    /\ net' = Encode(CONNACK)
    /\ UNCHANGED <<buf, phase, status, now, lastTx, ping, asked, closed, lens, handed>>

\* A packet follows, possibly right behind the CONNACK.
BrokerSends(length) ==
    /\ ~closed
    /\ phase = "loop" \/ net # <<>>
    /\ Len(lens) < MaxPackets
    /\ lens' = Append(lens, length)
    /\ net' = net \o [i \in 1 .. 1 + Len(Code[length]) + length |-> <<Len(lens) + 1, i>>]
    /\ UNCHANGED <<buf, phase, status, now, lastTx, ping, asked, closed, handed>>

BrokerAnswersPing ==
    /\ asked /\ ~closed
    /\ asked' = FALSE
    /\ net' = net \o Encode(PINGRESP)
    /\ UNCHANGED <<buf, phase, status, now, lastTx, ping, closed, lens, handed>>

BrokerCloses ==
    /\ phase = "loop"
    /\ ~closed
    /\ closed' = TRUE
    /\ UNCHANGED <<net, buf, phase, status, now, lastTx, ping, asked, lens, handed>>

Tick ==
    /\ phase # "failed"
    /\ now' = (now + 1) % TimeMod
    /\ UNCHANGED <<net, buf, phase, status, lastTx, ping, asked, closed, lens, handed>>

\* The connection is over; MQTT_Connect() begins another one.
Over == phase = "failed" /\ UNCHANGED receiveVars

Client == ReceiveConnack \/ ConnackFails \/ ReceiveNothing \/ ReceiveBytes \/ RecvFails

Broker == BrokerAccepts \/ (\E length \in Lengths : BrokerSends(length)) \/ BrokerAnswersPing \/ BrokerCloses

ReceiveNext == Client \/ Broker \/ Tick \/ Over

\* The client whose PINGRESP is overdue sends no PINGREQ any more, and
\* a broker closes a connection that is silent for too long.
GivesUp == status = "KeepAliveTimeout" /\ BrokerCloses

\* The process loop runs, and recv() does not withhold bytes forever.
ReceiveFairness ==
    /\ WF_receiveVars(ReceiveConnack \/ ConnackFails)
    /\ WF_receiveVars(ReceiveNothing) /\ SF_receiveVars(ReceiveBytes) /\ WF_receiveVars(RecvFails)
    /\ WF_receiveVars(GivesUp)

ReceiveSpec == ReceiveInit /\ [][ReceiveNext]_receiveVars /\ ReceiveFairness
-----------------------------------------------------------------------------
(* Properties *)

Packets == 1 .. Len(lens)

Names == 0 .. CONNACK

ReceiveTypeOK ==
    /\ \A s \in {net, buf} : \A i \in DOMAIN s : s[i][1] \in Names /\ s[i][2] \in Nat
    /\ Len(buf) <= BufSize
    /\ phase \in {"connack", "loop", "failed"}
    /\ status \in {"Success", "NeedMoreBytes", "KeepAliveTimeout", "RecvFailed"}
    /\ {now, lastTx, ping.at} \subseteq 0 .. TimeMod - 1
    /\ {ping.waiting, asked, closed} \subseteq BOOLEAN
    /\ lens \in Seq(Lengths)
    /\ handed \in Seq(Packets)

\* The packets that fit into the buffer.
Fits(n) == Size(n) <= BufSize

\* The bytes s are whole packets, one after the other.
Whole(s) ==
    /\ s # <<>> => s[1][2] = 1 /\ s[Len(s)][2] = Size(s[Len(s)][1])
    /\ \A i \in 1 .. Len(s) - 1 :
          s[i + 1] = IF s[i][2] = Size(s[i][1]) THEN <<s[i + 1][1], 1>>
                     ELSE <<s[i][1], s[i][2] + 1>>

\* Where the broker's own packets begin in s.
Starts(s) == {i \in DOMAIN s : s[i][2] = 1 /\ s[i][1] \in Packets}

\* What was handed over and what is to come in s: the packets that were sent,
\* each once, in their order, but for those that never fit.
InTurn(s) ==
    /\ \A i, j \in DOMAIN handed : i < j => handed[i] < handed[j]
    /\ \A i, j \in Starts(s) : i < j => s[i][1] < s[j][1]
    /\ \A i \in DOMAIN handed : Fits(handed[i]) /\ \A j \in Starts(s) : handed[i] < s[j][1]
    /\ \A n \in Packets : Fits(n) => n \in Range(handed) \/ \E j \in Starts(s) : s[j][1] = n

\* However recv() cuts the stream, the buffer and what is under way are whole
\* packets, and none is lost, repeated, or handed over out of turn.
StreamIntact == phase = "loop" => Whole(buf \o net) /\ InTurn(buf \o net)

\* recv() is never asked for 0 bytes: no stream of packets fills the buffer
\* without a packet in it that can be handled or thrown away.
RoomToReceive == phase = "loop" => Len(buf) < BufSize

\* Every packet that fits is handed over unless the connection ends, also
\* when the keep-alive fails meanwhile.
EveryPacketHanded ==
    \A n \in 1..MaxPackets :
        (n \in Packets /\ Fits(n)) ~> (phase = "failed" \/ \E i \in DOMAIN handed : handed[i] = n)

\* "MQTTKeepAliveTimeout if the server has not sent a PINGRESP before
\* MQTT_PINGRESP_TIMEOUT_MS milliseconds": none is waiting in the buffer.
\* It does not hold: receiveSingleIteration() handles one packet per call, and
\* the keep-alive comes before the packets that are in the buffer.
TimeoutMeansSilence ==
    status = "KeepAliveTimeout" => <<PINGRESP, 2>> \notin Range(buf)
=============================================================================
