----------------------------- MODULE MqttProofs -----------------------------
(***************************************************************************)
(* For any number of records, slots, packet ids and messages, and however  *)
(* often the connection breaks: a QoS 2 message arrives once at most in    *)
(* either direction, an accepted publish is kept until the broker has it,  *)
(* messages first arrive in the order in which they were published, and    *)
(* what the broker counts as received was delivered.                       *)
(*                                                                         *)
(* The argument is the same for both directions.  Of every exchange one    *)
(* packet at most is under way (OneUnderWay), and that packet says in      *)
(* which state both ends are: OutPackets and InPackets.  Without a packet  *)
(* under way, the records and the broker's session agree as CopyInv,       *)
(* RelInv and InRecords say, and this is what a resumed session starts     *)
(* from; ResumeInv says that it sends nothing twice.  The order of arrival *)
(* needs that the records are in the order of the publishes, and that a    *)
(* message the broker misses is under way with or before every later one   *)
(* (OrderInv).                                                             *)
(*                                                                         *)
(* The proofs see an array of records as the set of its used entries; the  *)
(* lemmas about addRecord() and compactRecords() say what happens to this  *)
(* set, and that entries only move to the front and never past each other. *)
(***************************************************************************)
EXTENDS MqttClient, FiniteSetTheorems, SequenceTheorems, WellFoundedInduction, TLAPS

\* The used entries of an array of records, whatever their places.
Contents(records) == {records[i] : i \in Used(records)}

Rec(id, q, state) == [id |-> id, qos |-> q, state |-> state]

\* A free entry is zeroed, and a packet id has one entry.
RecordsInv(records, n) ==
    /\ records \in Records(n)
    /\ \A i \in 1..n : records[i].id = MQTT_PACKET_ID_INVALID => records[i] = FreeRecord
    /\ \A i, j \in Used(records) : records[i].id = records[j].id => i = j

\* Every entry of new is in old as well, at its place or behind, and no two have
\* changed their order.
MovedUp(new, old) ==
    /\ \A k \in Used(new) : \E j \in Used(old) : j >= k /\ old[j] = new[k]
    /\ \A k, l \in Used(new) : k < l =>
          \E i, j \in Used(old) : i < j /\ old[i] = new[k] /\ old[j] = new[l]

\* The state of an accepted publish that is not acknowledged.
Pending(q) == IF q = 1 THEN "PubAckPending" ELSE "PubRecPending"

ToPublish == {"PublishSend", "PubAckPending", "PubRecPending"}

ToRelease == {"PubRelSend", "PubCompPending"}
-----------------------------------------------------------------------------
(* What is under way *)

FromSender == {"PUBLISH", "PUBREL"}

FromReceiver == {"PUBACK", "PUBREC", "PUBCOMP"}

Packets == [type : FromSender \cup FromReceiver, id : Nat, msg : Nat]

\* Of the packets of these types, one at most has a given id.
Single(s, types) ==
    \A a, b \in DOMAIN s : s[a].type \in types /\ s[b].type \in types /\ s[a].id = s[b].id => a = b

\* Of the exchange with packet id nothing is under way.
Quiet(there, back, id) ==
    /\ \A p \in Range(there) : p.type \in FromSender => p.id # id
    /\ \A p \in Range(back) : p.type \in FromReceiver => p.id # id

\* Of every exchange one packet at most is under way.
OneUnderWay(there, back) ==
    /\ Single(there, FromSender)
    /\ Single(back, FromReceiver)
    /\ \A p \in Range(there), q \in Range(back) :
          p.type \in FromSender /\ q.type \in FromReceiver => p.id # q.id

Usage == [out : 0..MaxOut, in : 0..MaxIn, breaks : Nat, skipped : SUBSET Nat]

Entry == [id : Nat \ {0}, msg : InMsgs, rel : BOOLEAN]

TypeInv ==
    /\ ctx \in [out : Records(OUTGOING_COUNT), in : Records(INCOMING_COUNT)]
    /\ RecordsInv(ctx.out, OUTGOING_COUNT) /\ RecordsInv(ctx.in, INCOMING_COUNT)
    /\ nextId \in Ids
    /\ copies \in [Ids -> OutMsgs \cup {NoMsg}]
    /\ Cardinality({i \in Ids : copies[i] # NoMsg}) <= MAX_OUTGOING_PUBLISHES
    /\ phase \in Phases
    /\ resume \in [cursor : 1..OUTGOING_COUNT + 1, ok : BOOLEAN]
    /\ link \in BOOLEAN
    /\ toB \in Seq(Packets) /\ toC \in Seq(Packets)
    /\ ~link => toB = <<>>
    /\ broker \in [kept : BOOLEAN, rel : SUBSET Ids, sent : Seq(Entry)]
    /\ qos \in [OutMsgs \cup InMsgs -> 0..2]
    /\ \A m \in OutMsgs : qos[m] \in OutQos \cup {0}
    /\ owed \subseteq OutMsgs /\ got \in Seq(OutMsgs)
    /\ delivered \subseteq InMsgs /\ acked \subseteq InMsgs
    /\ used \in Usage
-----------------------------------------------------------------------------
(* The exchanges that the client began *)

OutRecords ==
    \A r \in Contents(ctx.out) :
        /\ r.id \in Ids
        /\ \/ r.qos = 1 /\ r.state \in {"PublishSend", "PubAckPending"}
           \/ r.qos = 2 /\ r.state \in {"PublishSend", "PubRecPending", "PubRelSend", "PubCompPending"}

\* The copies are those of the publishes that wait for their PUBACK or PUBREC,
\* and they include all accepted publishes that the broker does not have.
CopyInv ==
    /\ \A i \in Ids : copies[i] # NoMsg =>
          /\ copies[i] <= used.out
          /\ qos[copies[i]] \in {1, 2}
          /\ Rec(i, qos[copies[i]], Pending(qos[copies[i]])) \in Contents(ctx.out)
    /\ \A i, j \in Ids : copies[i] # NoMsg /\ copies[i] = copies[j] => i = j
    /\ \A r \in Contents(ctx.out) : r.state = Pending(r.qos) => copies[r.id] # NoMsg
    /\ \A m \in owed \cup Range(got) : m <= used.out
    /\ \A m \in owed \ Range(got) : \E i \in Ids : copies[i] = m

\* QoS 2 publish i is at the broker, and its PUBREC not yet at the client.
Reached(i) == copies[i] \in Range(got) /\ qos[copies[i]] = 2

\* The broker remembers a packet id exactly as long as its PUBLISH may come again,
\* and at most until the PUBREL.
RelInv ==
    /\ \A i \in broker.rel : Reached(i) \/ \E state \in ToRelease : Rec(i, 2, state) \in Contents(ctx.out)
    /\ \A i \in Ids : Reached(i) => i \in broker.rel

OutPackets ==
    /\ \A p \in Range(toB) : p.type = "PUBLISH" =>
          p.id \in Ids /\ p.msg # NoMsg /\ copies[p.id] = p.msg
    /\ \A p \in Range(toB) : p.type = "PUBREL" => Rec(p.id, 2, "PubCompPending") \in Contents(ctx.out)
    /\ \A p \in Range(toC) : p.type = "PUBACK" =>
          p.id \in Ids /\ copies[p.id] \in Range(got) /\ qos[copies[p.id]] = 1
    /\ \A p \in Range(toC) : p.type = "PUBREC" => p.id \in Ids /\ Reached(p.id)
    /\ \A p \in Range(toC) : p.type = "PUBCOMP" =>
          Rec(p.id, 2, "PubCompPending") \in Contents(ctx.out) /\ p.id \notin broker.rel
    /\ OneUnderWay(toB, toC)

\* The entries that the resumption of the session has still to send.
ToResend(j) ==
    \/ phase = "pubrel" /\ ctx.out[j].state \in ToPublish
    \/ phase = "pubrel" /\ ctx.out[j].state \in ToRelease /\ j >= resume.cursor
    \/ phase = "resend" /\ ctx.out[j].state \in ToPublish /\ j >= resume.cursor

ResumeInv == \A j \in 1..OUTGOING_COUNT : ToResend(j) => Quiet(toB, toC, ctx.out[j].id)

OutInv == OutRecords /\ CopyInv /\ RelInv /\ OutPackets /\ ResumeInv
-----------------------------------------------------------------------------
(* The exchanges that the broker began *)

Entries == Range(broker.sent)

SentInv ==
    /\ Len(broker.sent) <= used.in
    /\ \A e \in Entries :
          /\ e.msg <= MaxOut + used.in
          /\ qos[e.msg] \in {1, 2}
          /\ e.rel => qos[e.msg] = 2 /\ e.msg \in delivered
    /\ \A k, l \in DOMAIN broker.sent : broker.sent[k].id = broker.sent[l].id => k = l
    /\ \A e, f \in Entries : e.msg = f.msg => e = f
    /\ \A m \in delivered : m <= MaxOut + used.in

\* A record belongs to an open exchange whose message was delivered.
InRecord(r, e) ==
    /\ r.id = e.id /\ e.msg \in delivered /\ r.qos = qos[e.msg]
    /\ r.state \in IF r.qos = 1 THEN {"PubAckSend"}
                   ELSE IF e.rel THEN {"PubRelPending", "PubCompSend"} ELSE {"PubRecSend", "PubRelPending"}

NoRecord(id) == \A r \in Contents(ctx.in) : r.id # id

\* A QoS 2 message that was delivered and may be sent again has a record.
InRecords ==
    /\ \A r \in Contents(ctx.in) : \E e \in Entries : InRecord(r, e)
    /\ \A e \in Entries : e.msg \in delivered /\ qos[e.msg] = 2 /\ ~e.rel => ~NoRecord(e.id)

InPackets ==
    /\ \A p \in Range(toC) : p.type = "PUBLISH" => [id |-> p.id, msg |-> p.msg, rel |-> FALSE] \in Entries
    /\ \A p \in Range(toC) : p.type = "PUBREL" => \E e \in Entries : e.id = p.id /\ e.rel
    /\ \A p \in Range(toB) : p.type = "PUBACK" =>
          /\ NoRecord(p.id)
          /\ \E e \in Entries : e.id = p.id /\ ~e.rel /\ qos[e.msg] = 1 /\ e.msg \in delivered
    /\ \A p \in Range(toB) : p.type = "PUBREC" =>
          /\ Rec(p.id, 2, "PubRelPending") \in Contents(ctx.in)
          /\ \E e \in Entries : e.id = p.id /\ ~e.rel
    /\ \A p \in Range(toB) : p.type = "PUBCOMP" =>
          /\ NoRecord(p.id)
          /\ \E e \in Entries : e.id = p.id /\ e.rel
    /\ OneUnderWay(toC, toB)

InInv == SentInv /\ InRecords /\ InPackets /\ acked \subseteq delivered /\ again = {}
-----------------------------------------------------------------------------
(* The order of arrival *)

\* The entries are in the order of the publishes that they have a copy of.
RecordsInOrder ==
    \A i, j \in Used(ctx.out) :
        i < j /\ copies[ctx.out[i].id] # NoMsg /\ copies[ctx.out[j].id] # NoMsg
        => copies[ctx.out[i].id] < copies[ctx.out[j].id]

UnderWay(m) == \E p \in Range(toB) : p.type = "PUBLISH" /\ p.msg = m

\* An accepted publish that the broker does not have.
Missing(i) == copies[i] # NoMsg /\ copies[i] \notin Range(got)

\* Messages are under way in the order of their publishes.
Rising(s) ==
    \A a, b \in DOMAIN s : a < b /\ s[a].type = "PUBLISH" /\ s[b].type = "PUBLISH" => s[a].msg < s[b].msg

ArrivalInv ==
    /\ \A i, j \in DOMAIN got : i < j => got[i] < got[j]
    /\ \A i \in Ids : Missing(i) => \A m \in Range(got) : m < copies[i]
    /\ Rising(toB)
    /\ \A i \in Ids : \A p \in Range(toB) :
          Missing(i) /\ p.type = "PUBLISH" /\ copies[i] < p.msg => UnderWay(copies[i])
    /\ phase = "up" /\ link => \A i \in Ids : Missing(i) => UnderWay(copies[i])
    /\ phase = "resend" /\ link =>
          \A j \in Used(ctx.out) :
              j < resume.cursor /\ Missing(ctx.out[j].id) => UnderWay(copies[ctx.out[j].id])

OrderInv == RecordsInOrder /\ (used.skipped = {} => ArrivalInv)

MqttInv == TypeInv /\ OutInv /\ InInv /\ OrderInv
-----------------------------------------------------------------------------
(* Numbers and sequences *)

\* Every non-empty set of numbers has a least one.
LEMMA LeastNumber ==
    ASSUME NEW T \in SUBSET Nat, T # {}
    PROVE  \E x \in T : \A y \in T : x <= y
<1> DEFINE R == OpToRel(<, Nat)
<1>1. IsWellFoundedOn(R, Nat)
  BY NatLessThanWellFounded
<1>2. R = {p \in Nat \X Nat : p[1] < p[2]}
  BY DEF OpToRel
<1>3. T \subseteq Nat
  OBVIOUS
<1> HIDE DEF R
<1>4. PICK x \in T : \A y \in T : ~(<<y, x>> \in R)
  BY <1>1, <1>3, WFMin, Zenon
<1>5. \A y \in T : ~(y < x)
  BY <1>2, <1>4
<1>6. QED
  BY <1>5

LEMMA MinIs ==
    ASSUME NEW T \in SUBSET Nat, T # {}
    PROVE  Min(T) \in T /\ \A y \in T : Min(T) <= y
  BY LeastNumber DEF Min

\* Every non-empty set of numbers up to n has a greatest one.
LEMMA MaxIs ==
    ASSUME NEW n \in Nat, NEW T \in SUBSET (0..n), T # {}
    PROVE  Max(T) \in T /\ \A y \in T : y <= Max(T)
<1> DEFINE D == {n - x : x \in T}
<1>0. \A x \in T : x \in Int /\ n - x \in Nat
  OBVIOUS
<1>1. D \in SUBSET Nat /\ D # {}
  BY <1>0
<1>2. PICK d \in D : \A y \in D : d <= y
  BY <1>1, LeastNumber
<1>3. PICK x \in T : d = n - x
  BY <1>2
<1>4. \A y \in T : n - x <= n - y
  BY <1>2, <1>3
<1>5. \A y \in T : y <= x
  BY <1>3, <1>4
<1>6. QED
  BY <1>5 DEF Max

LEMMA RangeAppend ==
    ASSUME NEW S, NEW s \in Seq(S), NEW p \in S
    PROVE  Append(s, p) \in Seq(S) /\ Range(Append(s, p)) = Range(s) \cup {p}
<1>1. /\ Append(s, p) \in Seq(S) /\ Len(Append(s, p)) = Len(s) + 1 /\ Len(s) \in Nat
      /\ DOMAIN s = 1..Len(s) /\ DOMAIN Append(s, p) = 1..Len(s) + 1
  OBVIOUS
<1>2. \A i \in 1..Len(s) : Append(s, p)[i] = s[i]
  OBVIOUS
<1>3. Append(s, p)[Len(s) + 1] = p
  OBVIOUS
<1>4. \A i \in 1..Len(s) + 1 : i \in 1..Len(s) \/ i = Len(s) + 1
  BY <1>1
<1>5. 1..Len(s) \subseteq 1..Len(s) + 1 /\ Len(s) + 1 \in 1..Len(s) + 1
  BY <1>1
<1>6. QED
  BY <1>1, <1>2, <1>3, <1>4, <1>5 DEF Range

LEMMA RangeTail ==
    ASSUME NEW S, NEW s \in Seq(S), s # <<>>
    PROVE  /\ Tail(s) \in Seq(S) /\ Head(s) \in S
           /\ Range(s) = Range(Tail(s)) \cup {Head(s)}
<1>1. /\ Tail(s) \in Seq(S) /\ Len(s) \in Nat \ {0} /\ Len(Tail(s)) = Len(s) - 1
      /\ DOMAIN s = 1..Len(s) /\ DOMAIN Tail(s) = 1..Len(s) - 1 /\ Head(s) = s[1]
  OBVIOUS
<1>2. \A i \in 1..Len(s) - 1 : Tail(s)[i] = s[i + 1]
  OBVIOUS
<1>3. \A i \in 1..Len(s) : i = 1 \/ (i - 1 \in 1..Len(s) - 1 /\ s[i] = Tail(s)[i - 1])
  <2> SUFFICES ASSUME NEW i \in 1..Len(s), i # 1
               PROVE  i - 1 \in 1..Len(s) - 1 /\ s[i] = Tail(s)[i - 1]
    OBVIOUS
  <2>1. i - 1 \in 1..Len(s) - 1 /\ (i - 1) + 1 = i
    BY <1>1
  <2>2. QED
    BY <1>2, <2>1
<1>4. \A i \in 1..Len(s) - 1 : i + 1 \in 1..Len(s)
  BY <1>1
<1>5. 1 \in 1..Len(s) /\ Head(s) \in S
  BY <1>1
<1>6. ASSUME NEW x \in Range(s) PROVE x \in Range(Tail(s)) \cup {Head(s)}
  <2>1. PICK i \in 1..Len(s) : x = s[i]
    BY <1>1, <1>6 DEF Range
  <2>2. CASE i = 1
    BY <1>1, <2>1, <2>2
  <2>3. CASE i # 1
    <3>1. i - 1 \in DOMAIN Tail(s) /\ x = Tail(s)[i - 1]
      BY <1>1, <1>3, <2>1, <2>3
    <3>2. QED
      BY <3>1 DEF Range
  <2>4. QED
    BY <2>2, <2>3
<1>7. Range(Tail(s)) \cup {Head(s)} \subseteq Range(s)
  BY <1>1, <1>2, <1>4, <1>5 DEF Range
<1>8. QED
  BY <1>1, <1>5, <1>6, <1>7

LEMMA RangePrefix ==
    ASSUME NEW S, NEW s \in Seq(S), NEW n \in 0..Len(s)
    PROVE  /\ SubSeq(s, 1, n) \in Seq(S) /\ Len(SubSeq(s, 1, n)) = n
           /\ \A i \in 1..n : SubSeq(s, 1, n)[i] = s[i]
           /\ Range(SubSeq(s, 1, n)) \subseteq Range(s)
<1>1. /\ SubSeq(s, 1, n) \in Seq(S) /\ Len(SubSeq(s, 1, n)) = n
      /\ \A i \in 1..n : SubSeq(s, 1, n)[i] = s[i]
  OBVIOUS
<1>2. DOMAIN SubSeq(s, 1, n) = 1..n /\ 1..n \subseteq DOMAIN s
  BY <1>1
<1>3. QED
  BY <1>1, <1>2 DEF Range

LEMMA RangeEmpty == Range(<<>>) = {}
  BY DEF Range
-----------------------------------------------------------------------------
(* The record arrays *)

LEMMA ConstantsAre ==
    /\ OUTGOING_COUNT \in Nat \ {0} /\ INCOMING_COUNT \in Nat \ {0}
    /\ MaxId \in Nat \ {0} /\ MAX_OUTGOING_PUBLISHES \in Nat \ {0}
    /\ MaxOut \in Nat /\ MaxIn \in Nat
    /\ Ids \subseteq Nat \ {0} /\ OutMsgs \subseteq Nat \ {0} /\ InMsgs \subseteq Nat \ {0}
    /\ NoMsg \notin OutMsgs /\ OutMsgs \cap InMsgs = {}
  BY MqttAssumption DEF Ids, OutMsgs, InMsgs, NoMsg

LEMMA RecIs ==
    ASSUME NEW id \in Nat, NEW q \in 0..2, NEW state \in PublishStates
    PROVE  /\ Rec(id, q, state) \in [id : Nat, qos : 0..2, state : PublishStates]
           /\ Rec(id, q, state).id = id /\ Rec(id, q, state).qos = q /\ Rec(id, q, state).state = state
  BY DEF Rec

\* What RecordsInv says of the places and of the entries.
LEMMA RecordsAre ==
    ASSUME NEW n \in Nat \ {0}, NEW records, RecordsInv(records, n)
    PROVE  /\ DOMAIN records = 1..n /\ Used(records) \subseteq 1..n
           /\ \A i \in 1..n : /\ records[i].id \in Nat /\ records[i].qos \in 0..2 /\ records[i].state \in PublishStates
                              /\ records[i] = Rec(records[i].id, records[i].qos, records[i].state)
                              /\ i \notin Used(records) => records[i] = FreeRecord
           /\ \A i \in Used(records) : records[i].id # 0
           /\ \A r \in Contents(records) :
                 /\ r.id \in Nat \ {0} /\ r.qos \in 0..2 /\ r.state \in PublishStates
                 /\ r = Rec(r.id, r.qos, r.state)
           /\ \A r, s \in Contents(records) : r.id = s.id => r = s
<1>1. records \in [1..n -> [id : Nat, qos : 0..2, state : PublishStates]]
  BY DEF RecordsInv, Records
<1>2. DOMAIN records = 1..n /\ Used(records) \subseteq 1..n
  BY <1>1 DEF Used
<1>3. \A i \in 1..n : /\ records[i].id \in Nat /\ records[i].qos \in 0..2 /\ records[i].state \in PublishStates
                      /\ records[i] = Rec(records[i].id, records[i].qos, records[i].state)
  BY <1>1 DEF Rec
<1>4. \A i \in 1..n : i \notin Used(records) => records[i] = FreeRecord
  BY <1>2 DEF RecordsInv, Used
<1>5. \A i \in Used(records) : records[i].id # 0
  BY DEF Used, MQTT_PACKET_ID_INVALID
<1>6. ASSUME NEW r \in Contents(records)
      PROVE  /\ r.id \in Nat \ {0} /\ r.qos \in 0..2 /\ r.state \in PublishStates
             /\ r = Rec(r.id, r.qos, r.state)
  BY <1>2, <1>3, <1>5 DEF Contents
<1>7. ASSUME NEW r \in Contents(records), NEW s \in Contents(records), r.id = s.id PROVE r = s
  BY <1>7 DEF Contents, RecordsInv
<1>8. QED
  BY <1>2, <1>3, <1>4, <1>5, <1>6, <1>7

LEMMA FindIs ==
    ASSUME NEW n \in Nat \ {0}, NEW records, RecordsInv(records, n), NEW id \in Nat \ {0}
    PROVE  /\ FindInRecord(records, id) = 0 <=> \A r \in Contents(records) : r.id # id
           /\ FindInRecord(records, id) # 0 =>
                 FindInRecord(records, id) \in Used(records) /\ records[FindInRecord(records, id)].id = id
<1> DEFINE found == {i \in DOMAIN records : records[i].id = id}
<1>1. DOMAIN records = 1..n
  BY RecordsAre
<1>2. found \in SUBSET Nat /\ 0 \notin found
  BY <1>1
<1>3. found \subseteq Used(records)
  BY DEF Used, MQTT_PACKET_ID_INVALID
<1>4. found = {} <=> \A r \in Contents(records) : r.id # id
  BY <1>1, <1>3 DEF Contents, Used
<1>5. CASE found = {}
  BY <1>4, <1>5 DEF FindInRecord
<1>6. CASE found # {}
  <2>1. FindInRecord(records, id) = Min(found)
    BY <1>6 DEF FindInRecord
  <2>2. Min(found) \in found
    BY <1>2, <1>6, MinIs
  <2>3. QED
    BY <1>2, <1>3, <1>4, <1>6, <2>1, <2>2
<1>7. QED
  BY <1>5, <1>6

\* updateRecord() with and without deletion.
Freed(records, i) == [records EXCEPT ![i] = FreeRecord]

Changed(records, i, state) == [records EXCEPT ![i].state = state]

\* A used entry changes its state.
LEMMA UpdateIs ==
    ASSUME NEW n \in Nat \ {0}, NEW records, RecordsInv(records, n), NEW i \in Used(records),
           NEW state \in PublishStates
    PROVE  LET new == Changed(records, i, state)
               r == Rec(records[i].id, records[i].qos, state)
           IN  /\ RecordsInv(new, n) /\ Used(new) = Used(records)
               /\ new[i] = r /\ \A j \in 1..n : j # i => new[j] = records[j]
               /\ Contents(new) = (Contents(records) \ {records[i]}) \cup {r}
<1> DEFINE new == Changed(records, i, state)
           r == Rec(records[i].id, records[i].qos, state)
<1>1. records \in [1..n -> [id : Nat, qos : 0..2, state : PublishStates]] /\ i \in 1..n
  BY RecordsAre DEF RecordsInv, Records
<1>2. new = [records EXCEPT ![i].state = state]
  BY DEF Changed
<1>3. new \in [1..n -> [id : Nat, qos : 0..2, state : PublishStates]]
  BY <1>1, <1>2
<1>4. new[i] = r /\ \A j \in 1..n : j # i => new[j] = records[j]
  BY <1>1, <1>2 DEF Rec
<1>5. r.id = records[i].id
  BY DEF Rec
<1> HIDE DEF new, r
<1>6. Used(new) = Used(records)
  BY <1>1, <1>3, <1>4, <1>5 DEF Used
<1>7. \A j \in 1..n : new[j].id = records[j].id
  BY <1>4, <1>5
<1>8. RecordsInv(new, n)
  <2>1. \A j \in 1..n : new[j].id = MQTT_PACKET_ID_INVALID => new[j] = FreeRecord
    BY <1>1, <1>4, <1>7 DEF RecordsInv, Used
  <2>2. \A j, k \in Used(new) : new[j].id = new[k].id => j = k
    BY <1>6, <1>7, RecordsAre DEF RecordsInv
  <2>3. QED
    BY <1>3, <2>1, <2>2 DEF RecordsInv, Records
<1>9. Contents(new) = (Contents(records) \ {records[i]}) \cup {r}
  <2>1. \A j \in Used(records) : j # i => records[j] # records[i]
    BY DEF RecordsInv
  <2>2. Used(records) \subseteq 1..n
    BY RecordsAre
  <2>3. QED
    BY <1>4, <1>6, <2>1, <2>2 DEF Contents
<1>10. QED
  BY <1>4, <1>6, <1>8, <1>9 DEF new, r

\* A used entry is given back.
LEMMA DeleteIs ==
    ASSUME NEW n \in Nat \ {0}, NEW records, RecordsInv(records, n), NEW i \in Used(records)
    PROVE  LET new == Freed(records, i)
           IN  /\ RecordsInv(new, n) /\ Used(new) = Used(records) \ {i}
               /\ new[i].id = 0 /\ \A j \in 1..n : j # i => new[j] = records[j]
               /\ Contents(new) = Contents(records) \ {records[i]}
               /\ MovedUp(new, records)
<1> DEFINE new == Freed(records, i)
<1>1. records \in [1..n -> [id : Nat, qos : 0..2, state : PublishStates]] /\ i \in 1..n
  BY RecordsAre DEF RecordsInv, Records
<1>2. new = [records EXCEPT ![i] = FreeRecord]
  BY DEF Freed
<1>3. FreeRecord \in [id : Nat, qos : 0..2, state : PublishStates] /\ FreeRecord.id = 0
  BY DEF FreeRecord, MQTT_PACKET_ID_INVALID, PublishStates
<1>4. new \in [1..n -> [id : Nat, qos : 0..2, state : PublishStates]]
  BY <1>1, <1>2, <1>3
<1>5. new[i] = FreeRecord /\ \A j \in 1..n : j # i => new[j] = records[j]
  BY <1>1, <1>2
<1> HIDE DEF new
<1>6. Used(new) = Used(records) \ {i} /\ Used(records) \subseteq 1..n
  BY <1>1, <1>3, <1>4, <1>5 DEF Used, MQTT_PACKET_ID_INVALID
<1>7. RecordsInv(new, n)
  <2>1. \A j \in 1..n : new[j].id = MQTT_PACKET_ID_INVALID => new[j] = FreeRecord
    BY <1>5 DEF RecordsInv
  <2>2. \A j, k \in Used(new) : new[j].id = new[k].id => j = k
    BY <1>5, <1>6 DEF RecordsInv
  <2>3. QED
    BY <1>4, <2>1, <2>2 DEF RecordsInv, Records
<1>8. Contents(new) = Contents(records) \ {records[i]}
  <2>1. \A j \in Used(records) : j # i => records[j] # records[i]
    BY DEF RecordsInv
  <2>2. QED
    BY <1>5, <1>6, <2>1 DEF Contents
<1>9. MovedUp(new, records)
  BY <1>5, <1>6 DEF MovedUp
<1>10. QED
  BY <1>3, <1>5, <1>6, <1>7, <1>8, <1>9 DEF new

\* The place that a used entry gets, counted from the front.
LEMMA UsedUpToIs ==
    ASSUME NEW n \in Nat \ {0}, NEW records, Used(records) \subseteq 1..n
    PROVE  /\ \A j \in Used(records) : UsedUpTo(records, j) \in 1..j
           /\ \A i, j \in Used(records) : i < j => UsedUpTo(records, i) < UsedUpTo(records, j)
           /\ (\E f \in 1..n : f \notin Used(records)) => \A j \in Used(records) : UsedUpTo(records, j) < n
<1> DEFINE upTo(j) == {k \in Used(records) : k <= j}
<1>0. IsFiniteSet(1..n) /\ Cardinality(1..n) = n
  BY FS_Interval
<1>1. \A j \in 1..n : IsFiniteSet(1..j) /\ Cardinality(1..j) = j
  BY FS_Interval
<1>2. ASSUME NEW j \in Used(records)
      PROVE  IsFiniteSet(upTo(j)) /\ Cardinality(upTo(j)) \in Nat /\ Cardinality(upTo(j)) <= j /\ Cardinality(upTo(j)) # 0
  <2>1. upTo(j) \in SUBSET (1..j) /\ j \in 1..n
    OBVIOUS
  <2>2. IsFiniteSet(upTo(j)) /\ Cardinality(upTo(j)) <= j
    BY <1>1, <2>1, FS_Subset
  <2>3. j \in upTo(j)
    BY <2>1
  <2>4. Cardinality(upTo(j)) \in Nat /\ Cardinality(upTo(j)) # 0
    BY <2>2, <2>3, FS_CardinalityType, FS_EmptySet
  <2>5. QED
    BY <2>2, <2>4
<1>3. ASSUME NEW i \in Used(records), NEW j \in Used(records), i < j
      PROVE  Cardinality(upTo(i)) < Cardinality(upTo(j))
  <2>1. upTo(i) \in SUBSET upTo(j) /\ j \in upTo(j) /\ j \notin upTo(i)
    BY <1>3
  <2>2. Cardinality(upTo(i)) <= Cardinality(upTo(j)) /\ Cardinality(upTo(i)) # Cardinality(upTo(j))
    BY <1>2, <2>1, FS_Subset
  <2>3. QED
    BY <1>2, <2>2
<1>4. ASSUME NEW f \in 1..n, f \notin Used(records), NEW j \in Used(records)
      PROVE  Cardinality(upTo(j)) < n
  <2>1. upTo(j) \in SUBSET (1..n) /\ upTo(j) # 1..n
    BY <1>4
  <2>2. Cardinality(upTo(j)) <= n /\ Cardinality(upTo(j)) # n
    BY <1>0, <2>1, FS_Subset
  <2>3. QED
    BY <1>2, <2>2
<1>5. \A j : UsedUpTo(records, j) = Cardinality(upTo(j))
  BY DEF UsedUpTo
<1> HIDE DEF upTo
<1>6. \A j \in Used(records) : UsedUpTo(records, j) \in 1..j
  BY <1>2, <1>5
<1>7. QED
  BY <1>3, <1>4, <1>5, <1>6

\* compactRecords() keeps the entries, and gives all free places to the end.
LEMMA CompactIs ==
    ASSUME NEW n \in Nat \ {0}, NEW records, RecordsInv(records, n)
    PROVE  LET new == CompactRecords(records)
           IN  /\ RecordsInv(new, n) /\ Contents(new) = Contents(records) /\ MovedUp(new, records)
               /\ (\E f \in 1..n : f \notin Used(records)) => n \notin Used(new)
<1> DEFINE new == CompactRecords(records)
           place(j) == UsedUpTo(records, j)
           ith(i) == {j \in Used(records) : place(j) = i}
           from(i) == CHOOSE j \in ith(i) : TRUE
<1>0. /\ records \in [1..n -> [id : Nat, qos : 0..2, state : PublishStates]] /\ DOMAIN records = 1..n
      /\ Used(records) \subseteq 1..n
  BY RecordsAre DEF RecordsInv, Records
<1>1. FreeRecord \in [id : Nat, qos : 0..2, state : PublishStates] /\ FreeRecord.id = 0
  BY DEF FreeRecord, MQTT_PACKET_ID_INVALID, PublishStates
<1>2. new = [i \in 1..n |-> IF ith(i) = {} THEN FreeRecord ELSE records[from(i)]]
  BY <1>0 DEF CompactRecords
<1>3. \A i \in 1..n : ith(i) # {} => from(i) \in Used(records) /\ place(from(i)) = i
  OBVIOUS
<1>4. /\ \A j \in Used(records) : place(j) \in 1..j
      /\ \A i, j \in Used(records) : i < j => place(i) < place(j)
      /\ (\E f \in 1..n : f \notin Used(records)) => \A j \in Used(records) : place(j) < n
  BY <1>0, UsedUpToIs
<1>5. \A j \in Used(records) : place(j) \in 1..n /\ place(j) \in Nat /\ j \in Nat
  BY <1>0, <1>4
<1>6. \A i, j \in Used(records) : place(i) = place(j) => i = j
  BY <1>4, <1>5
<1>7. \A j \in Used(records) : ith(place(j)) # {} /\ from(place(j)) = j
  BY <1>6
<1> HIDE DEF place, from, ith, new
<1>8. new \in [1..n -> [id : Nat, qos : 0..2, state : PublishStates]]
  BY <1>0, <1>1, <1>2, <1>3
<1>9. \A i \in 1..n : IF ith(i) = {} THEN new[i] = FreeRecord ELSE new[i] = records[from(i)]
  BY <1>2
<1>10. Used(new) = {i \in 1..n : ith(i) # {}}
  <2>1. \A i \in 1..n : ith(i) = {} <=> new[i].id = 0
    BY <1>1, <1>3, <1>9 DEF Used, MQTT_PACKET_ID_INVALID
  <2>2. QED
    BY <1>8, <2>1 DEF Used, MQTT_PACKET_ID_INVALID
<1>11. \A k \in Used(new) : from(k) \in Used(records) /\ new[k] = records[from(k)] /\ place(from(k)) = k
  BY <1>3, <1>9, <1>10
<1>12. RecordsInv(new, n)
  <2>1. \A i \in 1..n : new[i].id = MQTT_PACKET_ID_INVALID => new[i] = FreeRecord
    BY <1>3, <1>9 DEF Used
  <2>2. \A k, l \in Used(new) : new[k].id = new[l].id => k = l
    BY <1>11 DEF RecordsInv
  <2>3. QED
    BY <1>8, <2>1, <2>2 DEF RecordsInv, Records
<1>13. Contents(new) = Contents(records)
  <2>1. \A k \in Used(new) : new[k] \in Contents(records)
    BY <1>11 DEF Contents
  <2>2. \A j \in Used(records) : place(j) \in Used(new) /\ new[place(j)] = records[j]
    BY <1>5, <1>7, <1>9, <1>10
  <2>3. QED
    BY <2>1, <2>2 DEF Contents
<1>14. MovedUp(new, records)
  <2>1. \A k \in Used(new) : from(k) >= k
    BY <1>4, <1>5, <1>11
  <2>2. ASSUME NEW k \in Used(new), NEW l \in Used(new), k < l PROVE from(k) < from(l)
    <3>1. from(k) \in Nat /\ from(l) \in Nat /\ k \in Nat /\ l \in Nat
      BY <1>5, <1>10, <1>11
    <3>2. ~(from(l) < from(k)) /\ from(l) # from(k)
      BY <1>4, <1>11, <2>2, <3>1
    <3>3. QED
      BY <3>1, <3>2
  <2>3. \A k, l \in Used(new) : k < l =>
          \E i, j \in Used(records) : i < j /\ records[i] = new[k] /\ records[j] = new[l]
    BY <1>11, <2>2
  <2>4. QED
    BY <1>11, <2>1, <2>3 DEF MovedUp
<1>15. (\E f \in 1..n : f \notin Used(records)) => n \notin Used(new)
  BY <1>4, <1>5, <1>11
<1>16. QED
  BY <1>12, <1>13, <1>14, <1>15 DEF new

LEMMA NotMoved ==
    ASSUME NEW n \in Nat \ {0}, NEW records, RecordsInv(records, n)
    PROVE  MovedUp(records, records)
<1>1. \A i \in Used(records) : i \in Nat
  BY RecordsAre
<1>2. QED
  BY <1>1 DEF MovedUp

\* Every entry of new but r has moved up, and r is behind them.
MovedBefore(new, old, r) ==
    /\ \A k \in Used(new) : new[k] # r => \E j \in Used(old) : j >= k /\ old[j] = new[k]
    /\ \A k, l \in Used(new) : k < l =>
          /\ new[k] # r
          /\ new[l] = r \/ \E i, j \in Used(old) : i < j /\ old[i] = new[k] /\ old[j] = new[l]

\* What addRecord() does to the entries.
AddedTo(new, old, r) ==
    /\ r \notin Contents(old) /\ Contents(new) = Contents(old) \cup {r}
    /\ MovedBefore(new, old, r)

HasId(records, id) == \E r \in Contents(records) : r.id = id

HasFree(records, n) == \E f \in 1..n : f \notin Used(records)

LEMMA AddIs ==
    ASSUME NEW n \in Nat \ {0}, NEW records, RecordsInv(records, n), NEW id \in Nat \ {0},
           NEW q \in 0..2, NEW state \in PublishStates
    PROVE  LET added == AddRecord(records, id, q, state)
           IN  /\ RecordsInv(added.records, n)
               /\ added.status \in {"Success", "StateCollision", "NoMemory"}
               /\ added.status = "StateCollision" <=> HasId(records, id)
               /\ added.status # "Success" =>
                     Contents(added.records) = Contents(records) /\ MovedUp(added.records, records)
               /\ added.status = "Success" => AddedTo(added.records, records, Rec(id, q, state))
               /\ HasFree(records, n) /\ ~HasId(records, id) => added.status = "Success"
<1> DEFINE tidy == IF records[n].id # MQTT_PACKET_ID_INVALID THEN CompactRecords(records) ELSE records
           last == IF Used(tidy) = {} THEN 0 ELSE Max(Used(tidy))
           added == AddRecord(records, id, q, state)
           collides == HasId(records, id)
           free == HasFree(records, n)
           r == Rec(id, q, state)
<1>0. Len(records) = n
  BY DEF RecordsInv, Records
<1>1. /\ RecordsInv(tidy, n) /\ Contents(tidy) = Contents(records) /\ MovedUp(tidy, records)
      /\ free => n \notin Used(tidy)
  <2>1. CASE records[n].id # MQTT_PACKET_ID_INVALID
    BY <2>1, CompactIs DEF HasFree
  <2>2. CASE records[n].id = MQTT_PACKET_ID_INVALID
    BY <2>2, NotMoved DEF Used, HasFree
  <2>3. QED
    BY <2>1, <2>2
<1>2. added = IF FindInRecord(tidy, id) # 0 THEN [status |-> "StateCollision", records |-> tidy]
              ELSE IF last = n THEN [status |-> "NoMemory", records |-> tidy]
              ELSE [status |-> "Success", records |-> [tidy EXCEPT ![last + 1] = r]]
  BY <1>0 DEF AddRecord, Rec
<1> HIDE DEF tidy, added
<1>3. FindInRecord(tidy, id) # 0 <=> collides
  BY <1>1, FindIs DEF HasId
<1>4. Used(tidy) \subseteq 1..n /\ Used(tidy) \in SUBSET (0..n)
  BY <1>1, RecordsAre
<1>5. last \in 0..n /\ \A i \in Used(tidy) : i <= last
  <2>1. CASE Used(tidy) = {}
    BY <2>1
  <2>2. CASE Used(tidy) # {}
    <3>1. last = Max(Used(tidy))
      BY <2>2
    <3>2. Max(Used(tidy)) \in Used(tidy) /\ \A i \in Used(tidy) : i <= Max(Used(tidy))
      BY <1>4, <2>2, MaxIs
    <3>3. QED
      BY <1>4, <3>1, <3>2
  <2>3. QED
    BY <2>1, <2>2
<1>6. last = n => n \in Used(tidy)
  BY <1>4, MaxIs
<1> HIDE DEF last, r
<1>7. CASE collides
  <2>1. added = [status |-> "StateCollision", records |-> tidy]
    BY <1>2, <1>3, <1>7
  <2>2. added.status = "StateCollision" /\ added.records = tidy
    BY <2>1
  <2>3. QED
    BY <1>1, <1>7, <2>2 DEF added
<1>8. CASE ~collides /\ last = n
  <2>1. added = [status |-> "NoMemory", records |-> tidy]
    BY <1>2, <1>3, <1>8
  <2>2. ~free
    BY <1>1, <1>6, <1>8
  <2>3. added.status = "NoMemory" /\ added.records = tidy
    BY <2>1
  <2>4. QED
    BY <1>1, <1>8, <2>2, <2>3 DEF added
<1>9. CASE ~collides /\ last # n
  <2> DEFINE new == [tidy EXCEPT ![last + 1] = r]
  <2>1. added = [status |-> "Success", records |-> new]
    BY <1>2, <1>3, <1>9
  <2>2. last + 1 \in 1..n /\ last + 1 \notin Used(tidy)
    BY <1>5, <1>9
  <2>3. r \in [id : Nat, qos : 0..2, state : PublishStates] /\ r.id = id
    BY RecIs DEF r
  <2>4. tidy \in [1..n -> [id : Nat, qos : 0..2, state : PublishStates]]
    BY <1>1 DEF RecordsInv, Records
  <2>5. new \in [1..n -> [id : Nat, qos : 0..2, state : PublishStates]]
    BY <2>2, <2>3, <2>4
  <2>6. new[last + 1] = r /\ \A j \in 1..n : j # last + 1 => new[j] = tidy[j]
    BY <2>2, <2>4
  <2> HIDE DEF new
  <2>7. Used(new) = Used(tidy) \cup {last + 1}
    BY <1>4, <2>2, <2>3, <2>4, <2>5, <2>6 DEF Used, MQTT_PACKET_ID_INVALID
  <2>8. \A s \in Contents(tidy) : s.id # id
    BY <1>1, <1>9 DEF HasId
  <2>9. \A j \in Used(tidy) : new[j] = tidy[j] /\ tidy[j] \in Contents(tidy) /\ tidy[j].id # id /\ tidy[j] # r
    BY <1>4, <2>2, <2>3, <2>6, <2>8 DEF Contents
  <2>10. RecordsInv(new, n)
    <3>1. \A j \in 1..n : new[j].id = MQTT_PACKET_ID_INVALID => new[j] = FreeRecord
      BY <1>1, <2>3, <2>6 DEF RecordsInv, MQTT_PACKET_ID_INVALID
    <3>2. \A k, l \in Used(new) : new[k].id = new[l].id => k = l
      BY <1>1, <2>3, <2>6, <2>7, <2>9 DEF RecordsInv
    <3>3. QED
      BY <2>5, <3>1, <3>2 DEF RecordsInv, Records
  <2>11. Contents(new) = Contents(records) \cup {r} /\ r \notin Contents(records)
    <3>1. Contents(new) = Contents(tidy) \cup {r}
      BY <2>6, <2>7, <2>9 DEF Contents
    <3>2. r \notin Contents(tidy)
      BY <2>3, <2>8
    <3>3. QED
      BY <1>1, <3>1, <3>2
  <2>12. ASSUME NEW k \in Used(new), new[k] # r
         PROVE  \E j \in Used(records) : j >= k /\ records[j] = new[k]
    BY <1>1, <2>6, <2>7, <2>9, <2>12 DEF MovedUp
  <2>13. ASSUME NEW k \in Used(new), NEW l \in Used(new), k < l
         PROVE  /\ new[k] # r
                /\ new[l] = r \/ \E i, j \in Used(records) : i < j /\ records[i] = new[k] /\ records[j] = new[l]
    <3>1. k \in Used(tidy) /\ k # last + 1
      BY <1>4, <1>5, <2>2, <2>7, <2>13
    <3>2. CASE l = last + 1
      BY <2>6, <2>9, <3>1, <3>2
    <3>3. CASE l \in Used(tidy)
      BY <1>1, <2>9, <2>13, <3>1, <3>3 DEF MovedUp
    <3>4. QED
      BY <2>7, <3>2, <3>3
  <2>14. AddedTo(new, records, r)
    BY <2>11, <2>12, <2>13 DEF AddedTo, MovedBefore
  <2>15. added.status = "Success" /\ added.records = new
    BY <2>1
  <2>16. QED
    BY <1>9, <2>10, <2>14, <2>15 DEF added, r
<1>10. QED
  BY <1>7, <1>8, <1>9
-----------------------------------------------------------------------------
(* The channels *)

LEMMA SingleTail ==
    ASSUME NEW s \in Seq(Packets), s # <<>>, NEW types, Single(s, types)
    PROVE  /\ Single(Tail(s), types)
           /\ Head(s).type \in types => \A p \in Range(Tail(s)) : p.type \in types => p.id # Head(s).id
<1>1. /\ Len(s) \in Nat \ {0} /\ DOMAIN s = 1..Len(s) /\ DOMAIN Tail(s) = 1..Len(s) - 1 /\ Head(s) = s[1]
      /\ \A i \in 1..Len(s) - 1 : Tail(s)[i] = s[i + 1]
  OBVIOUS
<1>2. \A i \in 1..Len(s) - 1 : i + 1 \in DOMAIN s /\ 1 \in DOMAIN s /\ i + 1 # 1
  BY <1>1
<1>3. ASSUME NEW a \in DOMAIN Tail(s), NEW b \in DOMAIN Tail(s), Tail(s)[a].type \in types,
             Tail(s)[b].type \in types, Tail(s)[a].id = Tail(s)[b].id
      PROVE  a = b
  <2>1. a + 1 = b + 1
    BY <1>1, <1>2, <1>3 DEF Single
  <2>2. QED
    BY <1>1, <2>1
<1>4. ASSUME Head(s).type \in types, NEW p \in Range(Tail(s)), p.type \in types PROVE p.id # Head(s).id
  <2>1. PICK i \in 1..Len(s) - 1 : p = s[i + 1]
    BY <1>1 DEF Range
  <2>2. QED
    BY <1>1, <1>2, <1>4, <2>1 DEF Single
<1>5. QED
  BY <1>3, <1>4 DEF Single

LEMMA SinglePrefix ==
    ASSUME NEW s \in Seq(Packets), NEW n \in 0..Len(s), NEW types, Single(s, types)
    PROVE  Single(SubSeq(s, 1, n), types)
<1>1. /\ DOMAIN SubSeq(s, 1, n) = 1..n /\ 1..n \subseteq DOMAIN s
      /\ \A i \in 1..n : SubSeq(s, 1, n)[i] = s[i]
  BY RangePrefix
<1>2. QED
  BY <1>1 DEF Single

LEMMA SingleAppend ==
    ASSUME NEW s \in Seq(Packets), NEW p \in Packets, NEW types, Single(s, types),
           p.type \in types => \A q \in Range(s) : q.type \in types => q.id # p.id
    PROVE  Single(Append(s, p), types)
<1>1. /\ Len(s) \in Nat /\ DOMAIN s = 1..Len(s) /\ DOMAIN Append(s, p) = 1..Len(s) + 1
      /\ Append(s, p)[Len(s) + 1] = p
      /\ \A i \in 1..Len(s) : Append(s, p)[i] = s[i]
  OBVIOUS
<1>2. \A i \in 1..Len(s) : s[i] \in Range(s)
  BY <1>1 DEF Range
<1>3. \A i \in 1..Len(s) + 1 : i \in 1..Len(s) \/ i = Len(s) + 1
  BY <1>1
<1>4. SUFFICES ASSUME NEW a \in DOMAIN Append(s, p), NEW b \in DOMAIN Append(s, p),
                      Append(s, p)[a].type \in types, Append(s, p)[b].type \in types,
                      Append(s, p)[a].id = Append(s, p)[b].id
               PROVE  a = b
  BY DEF Single
<1>5. CASE a \in 1..Len(s) /\ b \in 1..Len(s)
  BY <1>1, <1>4, <1>5 DEF Single
<1>6. CASE a \in 1..Len(s) /\ b = Len(s) + 1
  BY <1>1, <1>2, <1>4, <1>6
<1>7. CASE a = Len(s) + 1 /\ b \in 1..Len(s)
  BY <1>1, <1>2, <1>4, <1>7
<1>8. QED
  BY <1>1, <1>3, <1>5, <1>6, <1>7

LEMMA SingleEmpty ==
    ASSUME NEW types
    PROVE  Single(<<>>, types)
  BY DEF Single

LEMMA TypesApart == FromSender \cap FromReceiver = {}
  BY DEF FromSender, FromReceiver

\* A packet is taken from either channel, and its exchange is quiet.
LEMMA TakeThere ==
    ASSUME NEW there \in Seq(Packets), NEW back \in Seq(Packets), OneUnderWay(there, back), there # <<>>
    PROVE  /\ OneUnderWay(Tail(there), back)
           /\ Head(there).type \in FromSender => Quiet(Tail(there), back, Head(there).id)
<1>1. Single(Tail(there), FromSender) /\ Single(back, FromReceiver)
  BY SingleTail DEF OneUnderWay
<1>2. Range(Tail(there)) \subseteq Range(there) /\ Head(there) \in Range(there)
  BY RangeTail
<1>3. QED
  BY <1>1, <1>2, SingleTail DEF OneUnderWay, Quiet

LEMMA TakeBack ==
    ASSUME NEW there \in Seq(Packets), NEW back \in Seq(Packets), OneUnderWay(there, back), back # <<>>
    PROVE  /\ OneUnderWay(there, Tail(back))
           /\ Head(back).type \in FromReceiver => Quiet(there, Tail(back), Head(back).id)
<1>1. Single(there, FromSender) /\ Single(Tail(back), FromReceiver)
  BY SingleTail DEF OneUnderWay
<1>2. Range(Tail(back)) \subseteq Range(back) /\ Head(back) \in Range(back)
  BY RangeTail
<1>3. QED
  BY <1>1, <1>2, SingleTail DEF OneUnderWay, Quiet

\* A packet is sent whose exchange is quiet, or one of the other direction.
LEMMA PutThere ==
    ASSUME NEW there \in Seq(Packets), NEW back \in Seq(Packets), OneUnderWay(there, back),
           NEW p \in Packets, p.type \in FromSender => Quiet(there, back, p.id)
    PROVE  OneUnderWay(Append(there, p), back)
<1>1. Range(Append(there, p)) = Range(there) \cup {p}
  BY RangeAppend
<1>2. Single(Append(there, p), FromSender)
  BY SingleAppend DEF OneUnderWay, Quiet
<1>3. QED
  BY <1>1, <1>2 DEF OneUnderWay, Quiet

LEMMA PutBack ==
    ASSUME NEW there \in Seq(Packets), NEW back \in Seq(Packets), OneUnderWay(there, back),
           NEW p \in Packets, p.type \in FromReceiver => Quiet(there, back, p.id)
    PROVE  OneUnderWay(there, Append(back, p))
<1>1. Range(Append(back, p)) = Range(back) \cup {p}
  BY RangeAppend
<1>2. Single(Append(back, p), FromReceiver)
  BY SingleAppend DEF OneUnderWay, Quiet
<1>3. QED
  BY <1>1, <1>2 DEF OneUnderWay, Quiet

\* The connection breaks: what was under way to the broker is lost, and some of
\* what was under way to the client.
LEMMA LoseSome ==
    ASSUME NEW there \in Seq(Packets), NEW back \in Seq(Packets), OneUnderWay(there, back),
           NEW n \in 0..Len(back), NEW m \in 0..Len(there)
    PROVE  /\ OneUnderWay(<<>>, SubSeq(back, 1, n))
           /\ OneUnderWay(SubSeq(there, 1, m), <<>>)
<1>1. Range(<<>>) = {}
  BY RangeEmpty
<1>2. Single(SubSeq(back, 1, n), FromReceiver) /\ Single(SubSeq(there, 1, m), FromSender)
  BY SinglePrefix DEF OneUnderWay
<1>3. QED
  BY <1>1, <1>2, SingleEmpty DEF OneUnderWay

\* What is quiet stays so when a packet is taken, and when one of another exchange
\* or of the other direction is sent.
LEMMA QuietStays ==
    ASSUME NEW there \in Seq(Packets), NEW back \in Seq(Packets), NEW id, Quiet(there, back, id)
    PROVE  /\ there # <<>> => Quiet(Tail(there), back, id)
           /\ back # <<>> => Quiet(there, Tail(back), id)
           /\ \A p \in Packets : p.type \notin FromSender \/ p.id # id => Quiet(Append(there, p), back, id)
           /\ \A p \in Packets : p.type \notin FromReceiver \/ p.id # id => Quiet(there, Append(back, p), id)
<1>1. there # <<>> => Range(Tail(there)) \subseteq Range(there)
  BY RangeTail
<1>2. back # <<>> => Range(Tail(back)) \subseteq Range(back)
  BY RangeTail
<1>3. \A p \in Packets : Range(Append(there, p)) = Range(there) \cup {p} /\ Range(Append(back, p)) = Range(back) \cup {p}
  BY RangeAppend
<1>4. QED
  BY <1>1, <1>2, <1>3 DEF Quiet
-----------------------------------------------------------------------------
(* The state engine *)

\* The places and their packet ids stay.
SameIds(new, old) == Used(new) = Used(old) /\ \A j \in Used(old) : new[j].id = old[j].id

LEMMA StatesAre ==
    /\ ToPublish \subseteq PublishStates /\ ToRelease \subseteq PublishStates
    /\ {"Null", "PubAckSend", "PubRecSend", "PubRelPending", "PubCompSend", "PublishDone"} \subseteq PublishStates
    /\ \A q \in {1, 2} : Pending(q) \in ToPublish /\ Pending(q) # "PublishSend"
    /\ Pending(1) = "PubAckPending" /\ Pending(2) = "PubRecPending"
  BY DEF ToPublish, ToRelease, PublishStates, Pending

\* updateStateAck() for the entry r with this packet id.
LEMMA AckIs ==
    ASSUME NEW n \in Nat \ {0}, NEW records, RecordsInv(records, n), NEW r \in Contents(records),
           NEW new \in PublishStates, ValidTransitionAck(r.state, new)
    PROVE  LET done == UpdateAck(records, FindInRecord(records, r.id), r.id, new)
           IN  /\ done.status = "Success" /\ RecordsInv(done.records, n)
               /\ r.state = new => done.records = records
               /\ r.state # new /\ new = "PublishDone" =>
                     Contents(done.records) = Contents(records) \ {r} /\ MovedUp(done.records, records)
               /\ r.state # new /\ new = "PubRelSend" =>
                     /\ Contents(done.records) = (Contents(records) \ {r}) \cup {Rec(r.id, 2, new)}
                     /\ MovedBefore(done.records, records, Rec(r.id, 2, new))
               /\ r.state # new /\ new \notin {"PublishDone", "PubRelSend"} =>
                     /\ Contents(done.records) = (Contents(records) \ {r}) \cup {Rec(r.id, r.qos, new)}
                     /\ SameIds(done.records, records)
<1> DEFINE i == FindInRecord(records, r.id)
           done == UpdateAck(records, i, r.id, new)
           delete == new \in {"PublishDone", "PubRelSend"}
           updated == UpdateRecord(records, i, new, delete)
<1>1. r.id \in Nat \ {0} /\ \A s \in Contents(records) : s.id = r.id => s = r
  BY RecordsAre
<1>2. i \in Used(records) /\ records[i].id = r.id
  BY <1>1, FindIs
<1>3. records[i] = r
  BY <1>1, <1>2 DEF Contents
<1> HIDE DEF i
<1>4. done = CASE ~ValidTransitionAck(r.state, new) -> [status |-> "IllegalState", records |-> records]
               [] ValidTransitionAck(r.state, new) /\ r.state = new -> [status |-> "Success", records |-> records]
               [] ValidTransitionAck(r.state, new) /\ r.state # new ->
                     IF new = "PubRelSend" THEN AddRecord(updated, r.id, 2, "PubRelSend")
                     ELSE [status |-> "Success", records |-> updated]
  BY <1>3 DEF UpdateAck
<1> HIDE DEF done, updated
<1>5. CASE r.state = new
  <2>1. done = [status |-> "Success", records |-> records]
    BY <1>4, <1>5
  <2>2. done.status = "Success" /\ done.records = records
    BY <2>1
  <2>3. QED
    BY <1>5, <2>2 DEF done, i
<1>6. CASE r.state # new /\ new = "PublishDone"
  <2>1. done = [status |-> "Success", records |-> updated]
    BY <1>4, <1>6
  <2>2. done.status = "Success" /\ done.records = updated
    BY <2>1
  <2>3. updated = Freed(records, i)
    BY <1>6 DEF updated, UpdateRecord, Freed
  <2>4. RecordsInv(updated, n) /\ Contents(updated) = Contents(records) \ {r} /\ MovedUp(updated, records)
    BY <1>2, <1>3, <2>3, DeleteIs
  <2>5. QED
    BY <1>6, <2>2, <2>4 DEF done, i
<1>7. CASE r.state # new /\ new = "PubRelSend"
  <2> DEFINE x == Rec(r.id, 2, new)
  <2>1. done = AddRecord(updated, r.id, 2, new)
    BY <1>4, <1>7
  <2>2. updated = Freed(records, i)
    BY <1>7 DEF updated, UpdateRecord, Freed
  <2>3. /\ RecordsInv(updated, n) /\ Contents(updated) = Contents(records) \ {r} /\ MovedUp(updated, records)
        /\ Used(updated) = Used(records) \ {i}
    BY <1>2, <1>3, <2>2, DeleteIs
  <2>4. \A s \in Contents(updated) : s.id # r.id
    BY <1>1, <2>3
  <2>5. i \in 1..n /\ i \notin Used(updated)
    BY <1>2, <2>3, RecordsAre
  <2>6. done.status = "Success" /\ RecordsInv(done.records, n) /\ AddedTo(done.records, updated, x)
    <3>0. HasFree(updated, n) /\ ~HasId(updated, r.id)
      BY <2>4, <2>5 DEF HasFree, HasId
    <3>1. 2 \in 0..2
      OBVIOUS
    <3>2. /\ RecordsInv(AddRecord(updated, r.id, 2, new).records, n)
          /\ AddRecord(updated, r.id, 2, new).status = "Success"
      BY <1>1, <2>3, <3>0, <3>1, AddIs
    <3>3. AddedTo(AddRecord(updated, r.id, 2, new).records, updated, x)
      BY <1>1, <2>3, <3>1, <3>2, AddIs
    <3>4. QED
      BY <2>1, <3>2, <3>3
  <2>7. Contents(done.records) = (Contents(records) \ {r}) \cup {x}
    BY <2>3, <2>6 DEF AddedTo
  <2> HIDE DEF x
  <2>8. ASSUME NEW k \in Used(done.records), done.records[k] # x
        PROVE  \E j \in Used(records) : j >= k /\ records[j] = done.records[k]
    <3>1. PICK j \in Used(updated) : j >= k /\ updated[j] = done.records[k]
      BY <2>6, <2>8 DEF AddedTo, MovedBefore
    <3>2. PICK l \in Used(records) : l >= j /\ records[l] = updated[j]
      BY <2>3 DEF MovedUp
    <3>3. j \in Nat /\ k \in Nat /\ l \in Nat
      BY <2>3, <2>6, RecordsAre
    <3>4. QED
      BY <3>1, <3>2, <3>3
  <2>9. ASSUME NEW k \in Used(done.records), NEW l \in Used(done.records), k < l
        PROVE  /\ done.records[k] # x
               /\ \/ done.records[l] = x
                  \/ \E a, b \in Used(records) : a < b /\ records[a] = done.records[k] /\ records[b] = done.records[l]
    <3>1. done.records[k] # x
      BY <2>6, <2>9 DEF AddedTo, MovedBefore
    <3>2. ASSUME done.records[l] # x
          PROVE  \E a, b \in Used(records) : a < b /\ records[a] = done.records[k] /\ records[b] = done.records[l]
      <4>1. PICK a, b \in Used(updated) : a < b /\ updated[a] = done.records[k] /\ updated[b] = done.records[l]
        BY <2>6, <2>9, <3>2 DEF AddedTo, MovedBefore
      <4>2. QED
        BY <2>3, <4>1 DEF MovedUp
    <3>3. QED
      BY <3>1, <3>2
  <2>10. MovedBefore(done.records, records, x)
    BY <2>8, <2>9 DEF MovedBefore
  <2>11. QED
    BY <1>7, <2>6, <2>7, <2>10 DEF done, i, x
<1>8. CASE r.state # new /\ new \notin {"PublishDone", "PubRelSend"}
  <2>1. done = [status |-> "Success", records |-> updated]
    BY <1>4, <1>8
  <2>2. done.status = "Success" /\ done.records = updated
    BY <2>1
  <2>3. updated = Changed(records, i, new)
    BY <1>8 DEF updated, UpdateRecord, Changed
  <2>4. /\ RecordsInv(updated, n) /\ Used(updated) = Used(records)
        /\ updated[i] = Rec(r.id, r.qos, new) /\ \A j \in 1..n : j # i => updated[j] = records[j]
        /\ Contents(updated) = (Contents(records) \ {r}) \cup {Rec(r.id, r.qos, new)}
    BY <1>2, <1>3, <2>3, UpdateIs
  <2>5. Rec(r.id, r.qos, new).id = r.id
    BY DEF Rec
  <2>6. \A j \in Used(records) : updated[j].id = records[j].id
    BY <1>3, <2>4, <2>5, RecordsAre
  <2>7. QED
    BY <1>8, <2>2, <2>4, <2>6 DEF done, i, SameIds
<1>9. QED
  BY <1>5, <1>6, <1>7, <1>8

Contexts == [out : Records(OUTGOING_COUNT), in : Records(INCOMING_COUNT)]

\* Both arrays of a context are as they should be.
ContextInv(c) ==
    c \in Contexts /\ RecordsInv(c.out, OUTGOING_COUNT) /\ RecordsInv(c.in, INCOMING_COUNT)

\* MQTT_UpdateStateAck() for the publish r of the client.
LEMMA OutAckIs ==
    ASSUME NEW c, ContextInv(c), NEW r \in Contents(c.out), NEW type \in PubAckTypes, NEW op,
           IsPublishOutgoing(type, op), NEW new \in PublishStates, new = CalculateStateAck(type, op, r.qos),
           ValidTransitionAck(r.state, new)
    PROVE  LET updated == UpdateStateAck(c, r.id, type, op)
           IN  /\ updated.status = "Success" /\ updated.state = new
               /\ ContextInv(updated.ctx) /\ updated.ctx.in = c.in
               /\ r.state = new => updated.ctx.out = c.out
               /\ r.state # new /\ new = "PublishDone" =>
                     Contents(updated.ctx.out) = Contents(c.out) \ {r} /\ MovedUp(updated.ctx.out, c.out)
               /\ r.state # new /\ new = "PubRelSend" =>
                     /\ Contents(updated.ctx.out) = (Contents(c.out) \ {r}) \cup {Rec(r.id, 2, new)}
                     /\ MovedBefore(updated.ctx.out, c.out, Rec(r.id, 2, new))
               /\ r.state # new /\ new \notin {"PublishDone", "PubRelSend"} =>
                     /\ Contents(updated.ctx.out) = (Contents(c.out) \ {r}) \cup {Rec(r.id, r.qos, new)}
                     /\ SameIds(updated.ctx.out, c.out)
<1> DEFINE i == FindInRecord(c.out, r.id)
           done == UpdateAck(c.out, i, r.id, new)
           updated == UpdateStateAck(c, r.id, type, op)
<1>1. OUTGOING_COUNT \in Nat \ {0} /\ INCOMING_COUNT \in Nat \ {0}
  BY ConstantsAre
<1>2. c \in Contexts /\ RecordsInv(c.out, OUTGOING_COUNT) /\ RecordsInv(c.in, INCOMING_COUNT)
  BY DEF ContextInv
<1>3. r.id \in Nat \ {0}
  BY <1>1, <1>2, RecordsAre
<1>4. i \in Used(c.out) /\ c.out[i].id = r.id /\ i # 0
  <2>1. i # 0
    BY <1>1, <1>2, <1>3, FindIs
  <2>2. QED
    BY <1>1, <1>2, <1>3, <2>1, FindIs
<1>5. c.out[i] = r
  BY <1>1, <1>2, <1>4, RecordsAre DEF Contents
<1>6. updated = Result(done.status, [c EXCEPT !.out = done.records], new)
  BY <1>3, <1>4, <1>5 DEF UpdateStateAck, MQTT_PACKET_ID_INVALID
<1>7. /\ done.status = "Success" /\ RecordsInv(done.records, OUTGOING_COUNT)
      /\ r.state = new => done.records = c.out
      /\ r.state # new /\ new = "PublishDone" =>
            Contents(done.records) = Contents(c.out) \ {r} /\ MovedUp(done.records, c.out)
      /\ r.state # new /\ new = "PubRelSend" =>
            /\ Contents(done.records) = (Contents(c.out) \ {r}) \cup {Rec(r.id, 2, new)}
            /\ MovedBefore(done.records, c.out, Rec(r.id, 2, new))
      /\ r.state # new /\ new \notin {"PublishDone", "PubRelSend"} =>
            /\ Contents(done.records) = (Contents(c.out) \ {r}) \cup {Rec(r.id, r.qos, new)}
            /\ SameIds(done.records, c.out)
  BY <1>1, <1>2, AckIs
<1> HIDE DEF done, updated
<1>8. updated.status = done.status /\ updated.state = new /\ updated.ctx = [c EXCEPT !.out = done.records]
  BY <1>6 DEF Result
<1>9. updated.ctx.out = done.records /\ updated.ctx.in = c.in /\ updated.ctx \in Contexts
  BY <1>2, <1>7, <1>8 DEF Contexts, RecordsInv
<1>10. ContextInv(updated.ctx)
  BY <1>2, <1>7, <1>9 DEF ContextInv
<1>11. QED
  BY <1>7, <1>8, <1>9, <1>10 DEF updated

\* The same for a publish of the broker.
LEMMA InAckIs ==
    ASSUME NEW c, ContextInv(c), NEW r \in Contents(c.in), NEW type \in PubAckTypes, NEW op,
           ~IsPublishOutgoing(type, op), NEW new \in PublishStates \ {"PubRelSend"},
           new = CalculateStateAck(type, op, r.qos), ValidTransitionAck(r.state, new)
    PROVE  LET updated == UpdateStateAck(c, r.id, type, op)
           IN  /\ updated.status = "Success" /\ updated.state = new
               /\ ContextInv(updated.ctx) /\ updated.ctx.out = c.out
               /\ r.state = new => updated.ctx.in = c.in
               /\ r.state # new /\ new = "PublishDone" => Contents(updated.ctx.in) = Contents(c.in) \ {r}
               /\ r.state # new /\ new # "PublishDone" =>
                     Contents(updated.ctx.in) = (Contents(c.in) \ {r}) \cup {Rec(r.id, r.qos, new)}
<1> DEFINE i == FindInRecord(c.in, r.id)
           done == UpdateAck(c.in, i, r.id, new)
           updated == UpdateStateAck(c, r.id, type, op)
<1>1. OUTGOING_COUNT \in Nat \ {0} /\ INCOMING_COUNT \in Nat \ {0}
  BY ConstantsAre
<1>2. c \in Contexts /\ RecordsInv(c.out, OUTGOING_COUNT) /\ RecordsInv(c.in, INCOMING_COUNT)
  BY DEF ContextInv
<1>3. r.id \in Nat \ {0}
  BY <1>1, <1>2, RecordsAre
<1>4. i \in Used(c.in) /\ c.in[i].id = r.id /\ i # 0
  BY <1>1, <1>2, <1>3, FindIs, RecordsAre
<1>5. c.in[i] = r
  BY <1>1, <1>2, <1>4, RecordsAre DEF Contents
<1>6. updated = Result(done.status, [c EXCEPT !.in = done.records], new)
  BY <1>3, <1>4, <1>5 DEF UpdateStateAck, MQTT_PACKET_ID_INVALID
<1>7. /\ done.status = "Success" /\ RecordsInv(done.records, INCOMING_COUNT)
      /\ r.state = new => done.records = c.in
      /\ r.state # new /\ new = "PublishDone" => Contents(done.records) = Contents(c.in) \ {r}
      /\ r.state # new /\ new # "PublishDone" =>
            Contents(done.records) = (Contents(c.in) \ {r}) \cup {Rec(r.id, r.qos, new)}
  BY <1>1, <1>2, AckIs
<1> HIDE DEF done, updated
<1>8. updated.status = done.status /\ updated.state = new /\ updated.ctx = [c EXCEPT !.in = done.records]
  BY <1>6 DEF Result
<1>9. updated.ctx.in = done.records /\ updated.ctx.out = c.out /\ updated.ctx \in Contexts
  BY <1>2, <1>7, <1>8 DEF Contexts, RecordsInv
<1>10. ContextInv(updated.ctx)
  BY <1>2, <1>7, <1>9 DEF ContextInv
<1>11. QED
  BY <1>7, <1>8, <1>9, <1>10 DEF updated

\* PUBACK or PUBCOMP comes for the publish that waits for it.
LEMMA GetsDone ==
    ASSUME NEW c, ContextInv(c), NEW id, NEW type,
           \/ type = "PUBACK" /\ Rec(id, 1, "PubAckPending") \in Contents(c.out)
           \/ type = "PUBCOMP" /\ Rec(id, 2, "PubCompPending") \in Contents(c.out)
    PROVE  LET updated == UpdateStateAck(c, id, type, "RECEIVE")
               r == IF type = "PUBACK" THEN Rec(id, 1, "PubAckPending") ELSE Rec(id, 2, "PubCompPending")
           IN  /\ updated.status = "Success" /\ updated.state = "PublishDone"
               /\ ContextInv(updated.ctx) /\ updated.ctx.in = c.in
               /\ Contents(updated.ctx.out) = Contents(c.out) \ {r} /\ MovedUp(updated.ctx.out, c.out)
<1> DEFINE r == IF type = "PUBACK" THEN Rec(id, 1, "PubAckPending") ELSE Rec(id, 2, "PubCompPending")
<1>1. r \in Contents(c.out) /\ type \in PubAckTypes /\ IsPublishOutgoing(type, "RECEIVE")
  BY DEF PubAckTypes, IsPublishOutgoing
<1>2. r.id = id /\ "PublishDone" = CalculateStateAck(type, "RECEIVE", r.qos)
  BY DEF Rec, CalculateStateAck
<1>3. r.state # "PublishDone" /\ ValidTransitionAck(r.state, "PublishDone") /\ "PublishDone" \in PublishStates
  BY DEF Rec, ValidTransitionAck, PublishStates
<1> HIDE DEF r
<1>4. LET updated == UpdateStateAck(c, r.id, type, "RECEIVE")
      IN  /\ updated.status = "Success" /\ updated.state = "PublishDone"
          /\ ContextInv(updated.ctx) /\ updated.ctx.in = c.in
          /\ Contents(updated.ctx.out) = Contents(c.out) \ {r} /\ MovedUp(updated.ctx.out, c.out)
  BY <1>1, <1>2, <1>3, OutAckIs
<1>5. QED
  BY <1>2, <1>4 DEF r

\* PUBREC comes for the publish that waits for it.
LEMMA GetsPubrec ==
    ASSUME NEW c, ContextInv(c), NEW id, Rec(id, 2, "PubRecPending") \in Contents(c.out)
    PROVE  LET updated == UpdateStateAck(c, id, "PUBREC", "RECEIVE")
               r == Rec(id, 2, "PubRecPending")
               s == Rec(id, 2, "PubRelSend")
           IN  /\ updated.status = "Success" /\ updated.state = "PubRelSend"
               /\ ContextInv(updated.ctx) /\ updated.ctx.in = c.in
               /\ Contents(updated.ctx.out) = (Contents(c.out) \ {r}) \cup {s}
               /\ MovedBefore(updated.ctx.out, c.out, s)
<1> DEFINE r == Rec(id, 2, "PubRecPending")
<1>1. r \in Contents(c.out) /\ "PUBREC" \in PubAckTypes /\ IsPublishOutgoing("PUBREC", "RECEIVE")
  BY DEF PubAckTypes, IsPublishOutgoing
<1>2. r.id = id /\ "PubRelSend" = CalculateStateAck("PUBREC", "RECEIVE", r.qos)
  BY DEF Rec, CalculateStateAck
<1>3. r.state # "PubRelSend" /\ ValidTransitionAck(r.state, "PubRelSend") /\ "PubRelSend" \in PublishStates
  BY DEF Rec, ValidTransitionAck, PublishStates
<1>4. "PubRelSend" # "PublishDone"
  OBVIOUS
<1> HIDE DEF r
<1>5. QED
  BY <1>1, <1>2, <1>3, <1>4, OutAckIs DEF r

\* PUBREL leaves, for the first time or once more.
LEMMA SendsPubrel ==
    ASSUME NEW c, ContextInv(c), NEW id, NEW state \in ToRelease, Rec(id, 2, state) \in Contents(c.out)
    PROVE  LET updated == UpdateStateAck(c, id, "PUBREL", "SEND")
           IN  /\ ContextInv(updated.ctx) /\ updated.ctx.in = c.in
               /\ Contents(updated.ctx.out) = (Contents(c.out) \ {Rec(id, 2, state)}) \cup {Rec(id, 2, "PubCompPending")}
               /\ SameIds(updated.ctx.out, c.out)
<1> DEFINE r == Rec(id, 2, state)
<1>1. r \in Contents(c.out) /\ "PUBREL" \in PubAckTypes /\ IsPublishOutgoing("PUBREL", "SEND")
  BY DEF PubAckTypes, IsPublishOutgoing
<1>2. r.id = id /\ r.qos = 2 /\ r.state = state /\ "PubCompPending" = CalculateStateAck("PUBREL", "SEND", r.qos)
  BY DEF Rec, CalculateStateAck
<1>3. ValidTransitionAck(r.state, "PubCompPending") /\ "PubCompPending" \in PublishStates
  BY DEF Rec, ValidTransitionAck, PublishStates, ToRelease
<1>4. "PubCompPending" \notin {"PublishDone", "PubRelSend"}
  OBVIOUS
<1> HIDE DEF r
<1>5. CASE state # "PubCompPending"
  BY <1>1, <1>2, <1>3, <1>4, <1>5, OutAckIs DEF r
<1>6. CASE state = "PubCompPending"
  <2>1. /\ ContextInv(UpdateStateAck(c, id, "PUBREL", "SEND").ctx)
        /\ UpdateStateAck(c, id, "PUBREL", "SEND").ctx.in = c.in
        /\ UpdateStateAck(c, id, "PUBREL", "SEND").ctx.out = c.out
    BY <1>1, <1>2, <1>3, <1>4, <1>6, OutAckIs
  <2>2. r = Rec(id, 2, "PubCompPending") /\ r \in Contents(c.out)
    BY <1>1, <1>6 DEF r
  <2>3. QED
    BY <2>1, <2>2 DEF SameIds, r
<1>7. QED
  BY <1>5, <1>6

\* The states in which PUBREL is expected.
ToComplete == {"PubRelPending", "PubCompSend"}

\* PUBREL comes, for the first time or once more.
LEMMA GetsPubrel ==
    ASSUME NEW c, ContextInv(c), NEW id, NEW state \in ToComplete,
           Rec(id, 2, state) \in Contents(c.in)
    PROVE  LET updated == UpdateStateAck(c, id, "PUBREL", "RECEIVE")
           IN  /\ updated.status = "Success" /\ updated.state = "PubCompSend"
               /\ ContextInv(updated.ctx) /\ updated.ctx.out = c.out
               /\ Contents(updated.ctx.in) = (Contents(c.in) \ {Rec(id, 2, state)}) \cup {Rec(id, 2, "PubCompSend")}
<1> DEFINE r == Rec(id, 2, state)
<1>1. r \in Contents(c.in) /\ "PUBREL" \in PubAckTypes /\ ~IsPublishOutgoing("PUBREL", "RECEIVE")
  BY DEF PubAckTypes, IsPublishOutgoing
<1>2. r.id = id /\ r.qos = 2 /\ r.state = state /\ "PubCompSend" = CalculateStateAck("PUBREL", "RECEIVE", r.qos)
  BY DEF Rec, CalculateStateAck
<1>3. ValidTransitionAck(r.state, "PubCompSend") /\ "PubCompSend" \in PublishStates \ {"PubRelSend"}
  BY DEF Rec, ValidTransitionAck, PublishStates, ToComplete
<1>4. "PubCompSend" # "PublishDone"
  OBVIOUS
<1> HIDE DEF r
<1>5. CASE state # "PubCompSend"
  BY <1>1, <1>2, <1>3, <1>4, <1>5, InAckIs DEF r
<1>6. CASE state = "PubCompSend"
  BY <1>1, <1>2, <1>3, <1>4, <1>6, InAckIs DEF r
<1>7. QED
  BY <1>5, <1>6

\* PUBREC leaves, for the first time or once more.
LEMMA SendsPubrec ==
    ASSUME NEW c, ContextInv(c), NEW id, NEW state \in {"PubRecSend", "PubRelPending"},
           Rec(id, 2, state) \in Contents(c.in)
    PROVE  LET updated == UpdateStateAck(c, id, "PUBREC", "SEND")
           IN  /\ ContextInv(updated.ctx) /\ updated.ctx.out = c.out
               /\ Contents(updated.ctx.in) = (Contents(c.in) \ {Rec(id, 2, state)}) \cup {Rec(id, 2, "PubRelPending")}
<1> DEFINE r == Rec(id, 2, state)
<1>1. r \in Contents(c.in) /\ "PUBREC" \in PubAckTypes /\ ~IsPublishOutgoing("PUBREC", "SEND")
  BY DEF PubAckTypes, IsPublishOutgoing
<1>2. r.id = id /\ r.qos = 2 /\ r.state = state /\ "PubRelPending" = CalculateStateAck("PUBREC", "SEND", r.qos)
  BY DEF Rec, CalculateStateAck
<1>3. ValidTransitionAck(r.state, "PubRelPending") /\ "PubRelPending" \in PublishStates \ {"PubRelSend"}
  BY DEF Rec, ValidTransitionAck, PublishStates
<1>4. "PubRelPending" # "PublishDone"
  OBVIOUS
<1> HIDE DEF r
<1>5. CASE state # "PubRelPending"
  BY <1>1, <1>2, <1>3, <1>4, <1>5, InAckIs DEF r
<1>6. CASE state = "PubRelPending"
  BY <1>1, <1>2, <1>3, <1>4, <1>6, InAckIs DEF r
<1>7. QED
  BY <1>5, <1>6

\* PUBACK or PUBCOMP leaves.
LEMMA SendsDone ==
    ASSUME NEW c, ContextInv(c), NEW id, NEW type,
           \/ type = "PUBACK" /\ Rec(id, 1, "PubAckSend") \in Contents(c.in)
           \/ type = "PUBCOMP" /\ Rec(id, 2, "PubCompSend") \in Contents(c.in)
    PROVE  LET updated == UpdateStateAck(c, id, type, "SEND")
               r == IF type = "PUBACK" THEN Rec(id, 1, "PubAckSend") ELSE Rec(id, 2, "PubCompSend")
           IN  /\ ContextInv(updated.ctx) /\ updated.ctx.out = c.out
               /\ Contents(updated.ctx.in) = Contents(c.in) \ {r}
<1> DEFINE r == IF type = "PUBACK" THEN Rec(id, 1, "PubAckSend") ELSE Rec(id, 2, "PubCompSend")
<1>1. r \in Contents(c.in) /\ type \in PubAckTypes /\ ~IsPublishOutgoing(type, "SEND")
  BY DEF PubAckTypes, IsPublishOutgoing
<1>2. r.id = id /\ "PublishDone" = CalculateStateAck(type, "SEND", r.qos)
  BY DEF Rec, CalculateStateAck
<1>3. r.state # "PublishDone" /\ ValidTransitionAck(r.state, "PublishDone") /\ "PublishDone" \in PublishStates \ {"PubRelSend"}
  BY DEF Rec, ValidTransitionAck, PublishStates
<1> HIDE DEF r
<1>4. LET updated == UpdateStateAck(c, r.id, type, "SEND")
      IN  /\ ContextInv(updated.ctx) /\ updated.ctx.out = c.out
          /\ Contents(updated.ctx.in) = Contents(c.in) \ {r}
  BY <1>1, <1>2, <1>3, InAckIs
<1>5. QED
  BY <1>2, <1>4 DEF r

\* An acknowledgement of the broker's publishes that has no record changes nothing.
LEMMA GetsPubrelWithout ==
    ASSUME NEW c, ContextInv(c), NEW id \in Nat \ {0}, \A r \in Contents(c.in) : r.id # id
    PROVE  LET updated == UpdateStateAck(c, id, "PUBREL", "RECEIVE")
           IN  updated.status # "Success" /\ updated.ctx = c
<1>1. ~IsPublishOutgoing("PUBREL", "RECEIVE") /\ INCOMING_COUNT \in Nat \ {0}
  BY ConstantsAre DEF IsPublishOutgoing
<1>2. FindInRecord(c.in, id) = 0
  BY <1>1, FindIs DEF ContextInv
<1>3. UpdateStateAck(c, id, "PUBREL", "RECEIVE") = Result("BadResponse", c, "Null")
  BY <1>1, <1>2 DEF UpdateStateAck, MQTT_PACKET_ID_INVALID
<1>4. QED
  BY <1>3 DEF Result

\* MQTT_ReserveState()
LEMMA ReserveIs ==
    ASSUME NEW c, ContextInv(c), NEW id \in Ids, NEW q \in {1, 2}
    PROVE  LET reserved == ReserveState(c, id, q)
           IN  /\ ContextInv(reserved.ctx) /\ reserved.ctx.in = c.in
               /\ reserved.status \in {"Success", "StateCollision", "NoMemory"}
               /\ reserved.status = "StateCollision" <=> HasId(c.out, id)
               /\ reserved.status # "Success" =>
                     Contents(reserved.ctx.out) = Contents(c.out) /\ MovedUp(reserved.ctx.out, c.out)
               /\ reserved.status = "Success" => AddedTo(reserved.ctx.out, c.out, Rec(id, q, "PublishSend"))
<1> DEFINE added == AddRecord(c.out, id, q, "PublishSend")
           reserved == ReserveState(c, id, q)
<1>1. OUTGOING_COUNT \in Nat \ {0} /\ id \in Nat \ {0} /\ q \in 0..2 /\ "PublishSend" \in PublishStates
  BY ConstantsAre DEF PublishStates
<1>2. c \in Contexts /\ RecordsInv(c.out, OUTGOING_COUNT) /\ RecordsInv(c.in, INCOMING_COUNT)
  BY DEF ContextInv
<1>3. reserved = Result(added.status, [c EXCEPT !.out = added.records], "PublishSend")
  BY <1>1 DEF ReserveState, MQTT_PACKET_ID_INVALID
<1>4. /\ RecordsInv(added.records, OUTGOING_COUNT)
      /\ added.status \in {"Success", "StateCollision", "NoMemory"}
      /\ added.status = "StateCollision" <=> HasId(c.out, id)
      /\ added.status # "Success" =>
            Contents(added.records) = Contents(c.out) /\ MovedUp(added.records, c.out)
      /\ added.status = "Success" => AddedTo(added.records, c.out, Rec(id, q, "PublishSend"))
  BY <1>1, <1>2, AddIs
<1> HIDE DEF added, reserved
<1>5. reserved.status = added.status /\ reserved.ctx = [c EXCEPT !.out = added.records]
  BY <1>3 DEF Result
<1>6. reserved.ctx.out = added.records /\ reserved.ctx.in = c.in /\ reserved.ctx \in Contexts
  BY <1>2, <1>4, <1>5 DEF Contexts, RecordsInv
<1>7. ContextInv(reserved.ctx)
  BY <1>2, <1>4, <1>6 DEF ContextInv
<1>8. QED
  BY <1>4, <1>5, <1>6, <1>7 DEF reserved

\* The states in which a publish may leave.
Sendable(q) == {"PublishSend", Pending(q)}

\* MQTT_UpdateStatePublish() when the PUBLISH has left, for the first time or once
\* more.
LEMMA SendPublishIs ==
    ASSUME NEW c, ContextInv(c), NEW id \in Ids, NEW q \in {1, 2}, NEW state \in Sendable(q),
           Rec(id, q, state) \in Contents(c.out)
    PROVE  LET updated == UpdateStatePublish(c, id, "SEND", q)
           IN  /\ ContextInv(updated.ctx) /\ updated.ctx.in = c.in
               /\ Contents(updated.ctx.out) = (Contents(c.out) \ {Rec(id, q, state)}) \cup {Rec(id, q, Pending(q))}
               /\ SameIds(updated.ctx.out, c.out)
<1> DEFINE i == FindInRecord(c.out, id)
           new == Changed(c.out, i, Pending(q))
           updated == UpdateStatePublish(c, id, "SEND", q)
           r == Rec(id, q, state)
<1>1. OUTGOING_COUNT \in Nat \ {0} /\ id \in Nat \ {0} /\ q \in 0..2 /\ state \in PublishStates
      /\ Pending(q) \in PublishStates
  BY ConstantsAre, StatesAre DEF PublishStates, Sendable
<1>2. c \in Contexts /\ RecordsInv(c.out, OUTGOING_COUNT) /\ RecordsInv(c.in, INCOMING_COUNT)
  BY DEF ContextInv
<1>3. r.id = id /\ r.qos = q /\ r.state = state
  BY <1>1, RecIs
<1> HIDE DEF r
<1>4. r \in Contents(c.out)
  BY DEF r
<1>5. i \in Used(c.out) /\ c.out[i].id = id /\ i # 0
  BY <1>1, <1>2, <1>3, <1>4, FindIs, RecordsAre
<1>6. c.out[i] = r
  BY <1>1, <1>2, <1>3, <1>4, <1>5, RecordsAre DEF Contents
<1> HIDE DEF i
<1>7. ValidTransitionPublish(state, Pending(q), "SEND", q) /\ CalculateStatePublish("SEND", q) = Pending(q)
  BY DEF ValidTransitionPublish, CalculateStatePublish, Pending, Sendable
<1>8. updated = UpdatePublish(c, i, id, "SEND", q, state, Pending(q))
  BY <1>1, <1>3, <1>5, <1>6, <1>7 DEF UpdateStatePublish, MQTT_PACKET_ID_INVALID, i
<1>9. updated = Result("Success", [c EXCEPT !.out = new], Pending(q))
  BY <1>7, <1>8 DEF UpdatePublish, UpdateRecord, Changed
<1>10. /\ RecordsInv(new, OUTGOING_COUNT) /\ Used(new) = Used(c.out)
       /\ new[i] = Rec(id, q, Pending(q)) /\ \A j \in 1..OUTGOING_COUNT : j # i => new[j] = c.out[j]
       /\ Contents(new) = (Contents(c.out) \ {r}) \cup {Rec(id, q, Pending(q))}
  <2>1. c.out[i].id = id /\ c.out[i].qos = q
    BY <1>3, <1>6
  <2> DEFINE s == Pending(q)
  <2>0. new = Changed(c.out, i, s) /\ s \in PublishStates
    BY <1>1
  <2> HIDE DEF new, s
  <2>2. /\ RecordsInv(new, OUTGOING_COUNT) /\ Used(new) = Used(c.out)
        /\ new[i] = Rec(c.out[i].id, c.out[i].qos, s)
        /\ \A j \in 1..OUTGOING_COUNT : j # i => new[j] = c.out[j]
        /\ Contents(new) = (Contents(c.out) \ {c.out[i]}) \cup {Rec(c.out[i].id, c.out[i].qos, s)}
    BY <1>1, <1>2, <1>5, <2>0, UpdateIs
  <2>3. QED
    BY <1>6, <2>1, <2>2 DEF s
<1> HIDE DEF new, updated
<1>11. updated.ctx = [c EXCEPT !.out = new]
  BY <1>9 DEF Result
<1>12. updated.ctx.out = new /\ updated.ctx.in = c.in /\ updated.ctx \in Contexts
  BY <1>2, <1>10, <1>11 DEF Contexts, RecordsInv
<1>13. ContextInv(updated.ctx)
  BY <1>2, <1>10, <1>12 DEF ContextInv
<1>14. SameIds(new, c.out)
  <2>1. Rec(id, q, Pending(q)).id = id /\ Used(c.out) \subseteq 1..OUTGOING_COUNT
    BY <1>1, <1>2, RecordsAre DEF Rec
  <2>2. QED
    BY <1>5, <1>10, <2>1 DEF SameIds
<1>15. QED
  BY <1>10, <1>12, <1>13, <1>14 DEF updated, r

\* MQTT_UpdateStatePublish() for a PUBLISH that comes.
LEMMA GetsPublish ==
    ASSUME NEW c, ContextInv(c), NEW id \in Nat \ {0}, NEW q \in {1, 2}
    PROVE  LET updated == UpdateStatePublish(c, id, "RECEIVE", q)
               state == IF q = 1 THEN "PubAckSend" ELSE "PubRecSend"
           IN  /\ CalculateStatePublish("RECEIVE", q) = state
               /\ ContextInv(updated.ctx) /\ updated.ctx.out = c.out
               /\ updated.status \in {"Success", "StateCollision", "NoMemory"}
               /\ updated.status = "StateCollision" <=> HasId(c.in, id)
               /\ updated.status # "Success" => Contents(updated.ctx.in) = Contents(c.in)
               /\ updated.status = "Success" => Contents(updated.ctx.in) = Contents(c.in) \cup {Rec(id, q, state)}
<1> DEFINE state == IF q = 1 THEN "PubAckSend" ELSE "PubRecSend"
           added == AddRecord(c.in, id, q, state)
           updated == UpdateStatePublish(c, id, "RECEIVE", q)
<1>1. INCOMING_COUNT \in Nat \ {0} /\ q \in 0..2 /\ state \in PublishStates
  BY ConstantsAre, StatesAre
<1>2. c \in Contexts /\ RecordsInv(c.out, OUTGOING_COUNT) /\ RecordsInv(c.in, INCOMING_COUNT)
  BY DEF ContextInv
<1>3. CalculateStatePublish("RECEIVE", q) = state /\ ValidTransitionPublish("Null", state, "RECEIVE", q)
  BY DEF ValidTransitionPublish, CalculateStatePublish
<1>4. updated = UpdatePublish(c, 0, id, "RECEIVE", q, "Null", CalculateStatePublish("RECEIVE", q))
  BY DEF UpdateStatePublish, MQTT_PACKET_ID_INVALID
<1> HIDE DEF state
<1>5. updated = Result(added.status, [c EXCEPT !.in = added.records], state)
  BY <1>3, <1>4 DEF UpdatePublish
<1>6. /\ RecordsInv(added.records, INCOMING_COUNT)
      /\ added.status \in {"Success", "StateCollision", "NoMemory"}
      /\ added.status = "StateCollision" <=> HasId(c.in, id)
      /\ added.status # "Success" =>
            Contents(added.records) = Contents(c.in) /\ MovedUp(added.records, c.in)
      /\ added.status = "Success" => AddedTo(added.records, c.in, Rec(id, q, state))
  BY <1>1, <1>2, AddIs
<1> HIDE DEF added, updated
<1>7. updated.status = added.status /\ updated.ctx = [c EXCEPT !.in = added.records]
  BY <1>5 DEF Result
<1>8. updated.ctx.in = added.records /\ updated.ctx.out = c.out /\ updated.ctx \in Contexts
  BY <1>2, <1>6, <1>7 DEF Contexts, RecordsInv
<1>9. ContextInv(updated.ctx)
  BY <1>2, <1>6, <1>8 DEF ContextInv
<1>10. QED
  BY <1>3, <1>6, <1>7, <1>8, <1>9 DEF updated, state, AddedTo
-----------------------------------------------------------------------------
(* Steps that leave an invariant alone *)

LEMMA TypesAre ==
    ASSUME TypeInv
    PROVE  /\ ContextInv(ctx) /\ RecordsInv(ctx.out, OUTGOING_COUNT) /\ RecordsInv(ctx.in, INCOMING_COUNT)
           /\ toB \in Seq(Packets) /\ toC \in Seq(Packets)
           /\ \A i \in Ids : copies[i] \in Nat /\ (copies[i] # NoMsg => copies[i] \in OutMsgs)
           /\ used.out \in Nat /\ used.in \in Nat
           /\ Range(got) \subseteq OutMsgs
           /\ Entries \subseteq Entry
<1>1. /\ ContextInv(ctx) /\ RecordsInv(ctx.out, OUTGOING_COUNT) /\ RecordsInv(ctx.in, INCOMING_COUNT)
      /\ toB \in Seq(Packets) /\ toC \in Seq(Packets)
  BY DEF TypeInv, ContextInv, Contexts
<1>2. \A i \in Ids : copies[i] \in OutMsgs \cup {NoMsg}
  BY DEF TypeInv
<1>3. NoMsg \in Nat /\ OutMsgs \subseteq Nat
  BY ConstantsAre DEF NoMsg
<1>4. used.out \in Nat /\ used.in \in Nat
  BY ConstantsAre DEF TypeInv, Usage
<1>5. Range(got) \subseteq OutMsgs
  BY DEF TypeInv, Range
<1>6. broker.sent \in Seq(Entry)
  BY DEF TypeInv
<1>7. Entries \subseteq Entry
  BY <1>6 DEF Entries, Range
<1>8. QED
  BY <1>1, <1>2, <1>3, <1>4, <1>5, <1>7

\* Nothing of the exchanges that the client began changes, and none of their
\* packets is sent.
LEMMA OutStays ==
    ASSUME TypeInv, OutInv,
           Contents(ctx'.out) = Contents(ctx.out), copies' = copies, owed' = owed, got' = got,
           broker'.rel = broker.rel, used'.out \in Nat, used'.out >= used.out,
           \A m \in OutMsgs : qos'[m] = qos[m],
           \A p \in Range(toB') : p.type \in FromSender => p \in Range(toB),
           \A p \in Range(toC') : p.type \in FromReceiver => p \in Range(toC),
           OneUnderWay(toB', toC'),
           ResumeInv'
    PROVE  OutInv'
<1>1. /\ \A i \in Ids : copies[i] \in Nat /\ (copies[i] # NoMsg => copies[i] \in OutMsgs)
      /\ used.out \in Nat /\ Range(got) \subseteq OutMsgs /\ owed \subseteq OutMsgs
      /\ OutMsgs \subseteq Nat
  BY TypesAre, ConstantsAre DEF TypeInv
<1>2. OutRecords'
  BY DEF OutInv, OutRecords
<1>3. CopyInv'
  <2>1. \A i \in Ids : copies[i] # NoMsg => qos'[copies[i]] = qos[copies[i]]
    BY <1>1
  <2>2. \A i \in Ids : copies[i] # NoMsg =>
          /\ copies[i] <= used'.out
          /\ qos'[copies[i]] \in {1, 2}
          /\ Rec(i, qos'[copies[i]], Pending(qos'[copies[i]])) \in Contents(ctx.out)
    BY <1>1, <2>1 DEF OutInv, CopyInv
  <2>3. ASSUME NEW m \in owed \cup Range(got) PROVE m <= used'.out
    <3>1. m \in Nat /\ m <= used.out
      BY <1>1 DEF OutInv, CopyInv
    <3>2. QED
      BY <1>1, <3>1
  <2>4. QED
    BY <2>2, <2>3 DEF OutInv, CopyInv
<1>4. \A i \in Ids : Reached(i)' <=> Reached(i)
  <2> SUFFICES ASSUME NEW i \in Ids PROVE Reached(i)' <=> Reached(i)
    OBVIOUS
  <2>1. copies[i] \in Range(got) => qos'[copies[i]] = qos[copies[i]]
    BY <1>1
  <2>2. QED
    BY <2>1 DEF Reached
<1>5. RelInv'
  <2>1. broker.rel \subseteq Ids
    BY DEF TypeInv
  <2>2. QED
    BY <1>4, <2>1 DEF OutInv, RelInv
<1>6. OutPackets'
  <2>1. \A p \in Range(toC') : p.type = "PUBACK" =>
          p.id \in Ids /\ copies[p.id] \in Range(got) /\ qos'[copies[p.id]] = 1
    BY <1>1 DEF OutInv, OutPackets, FromReceiver
  <2>2. \A p \in Range(toC') : p.type = "PUBREC" => p.id \in Ids /\ Reached(p.id)'
    BY <1>4 DEF OutInv, OutPackets, FromReceiver
  <2>3. /\ \A p \in Range(toB') : p.type = "PUBLISH" =>
              p.id \in Ids /\ p.msg # NoMsg /\ copies[p.id] = p.msg
        /\ \A p \in Range(toB') : p.type = "PUBREL" => Rec(p.id, 2, "PubCompPending") \in Contents(ctx.out)
    BY DEF OutInv, OutPackets, FromSender
  <2>4. \A p \in Range(toC') : p.type = "PUBCOMP" =>
          Rec(p.id, 2, "PubCompPending") \in Contents(ctx.out) /\ p.id \notin broker.rel
    BY DEF OutInv, OutPackets, FromReceiver
  <2>5. QED
    BY <2>1, <2>2, <2>3, <2>4 DEF OutPackets
<1>7. QED
  BY <1>2, <1>3, <1>5, <1>6 DEF OutInv

LEMMA NotResuming ==
    ASSUME phase' \in {"up", "down"}
    PROVE  ResumeInv'
  BY DEF ResumeInv, ToResend

LEMMA ResumingStays ==
    ASSUME ResumeInv, ctx'.out = ctx.out, phase' = phase, resume' = resume,
           \A p \in Range(toB') : p.type \in FromSender => p \in Range(toB),
           \A p \in Range(toC') : p.type \in FromReceiver => p \in Range(toC)
    PROVE  ResumeInv'
<1>1. \A j \in 1..OUTGOING_COUNT : ToResend(j)' <=> ToResend(j)
  BY DEF ToResend
<1>2. \A id : Quiet(toB, toC, id) => Quiet(toB', toC', id)
  BY DEF Quiet
<1>3. QED
  BY <1>1, <1>2 DEF ResumeInv

\* The same for the exchanges that the broker began.
LEMMA InStays ==
    ASSUME TypeInv, InInv,
           Contents(ctx'.in) = Contents(ctx.in), delivered' = delivered, acked' = acked,
           broker'.sent = broker.sent, used'.in = used.in,
           \A m \in InMsgs : qos'[m] = qos[m],
           \A p \in Range(toC') : p.type \in FromSender => p \in Range(toC),
           \A p \in Range(toB') : p.type \in FromReceiver => p \in Range(toB),
           OneUnderWay(toC', toB'),
           again' = {}
    PROVE  InInv'
<1>1. Entries' = Entries /\ \A e \in Entries : e.msg \in InMsgs
  BY TypesAre DEF Entries, Entry
<1>2. \A e \in Entries : qos'[e.msg] = qos[e.msg]
  BY <1>1
<1>3. SentInv'
  BY <1>1, <1>2 DEF InInv, SentInv
<1>4. InRecords'
  <2>1. \A e \in Entries : \A r : InRecord(r, e)' <=> InRecord(r, e)
    BY <1>2 DEF InRecord
  <2>2. \A id : NoRecord(id)' <=> NoRecord(id)
    BY DEF NoRecord
  <2>3. QED
    BY <1>1, <1>2, <2>1, <2>2 DEF InInv, InRecords
<1>5. InPackets'
  <2>1. \A id : NoRecord(id)' <=> NoRecord(id)
    BY DEF NoRecord
  <2>2. /\ \A p \in Range(toC') : p.type = "PUBLISH" => [id |-> p.id, msg |-> p.msg, rel |-> FALSE] \in Entries
        /\ \A p \in Range(toC') : p.type = "PUBREL" => \E e \in Entries : e.id = p.id /\ e.rel
    BY DEF InInv, InPackets, FromSender
  <2>3. \A p \in Range(toB') : p.type = "PUBACK" =>
          /\ NoRecord(p.id)
          /\ \E e \in Entries : e.id = p.id /\ ~e.rel /\ qos'[e.msg] = 1 /\ e.msg \in delivered
    BY <1>2 DEF InInv, InPackets, FromReceiver
  <2>4. \A p \in Range(toB') : p.type = "PUBREC" =>
          /\ Rec(p.id, 2, "PubRelPending") \in Contents(ctx.in)
          /\ \E e \in Entries : e.id = p.id /\ ~e.rel
    BY DEF InInv, InPackets, FromReceiver
  <2>5. \A p \in Range(toB') : p.type = "PUBCOMP" =>
          /\ NoRecord(p.id)
          /\ \E e \in Entries : e.id = p.id /\ e.rel
    BY DEF InInv, InPackets, FromReceiver
  <2>6. QED
    BY <1>1, <2>1, <2>2, <2>3, <2>4, <2>5 DEF InPackets
<1>6. QED
  BY <1>3, <1>4, <1>5 DEF InInv

\* Entries only move up, and copies are only given up.
LEMMA RecordsInOrderStays ==
    ASSUME TypeInv, OutInv, RecordsInOrder, MovedUp(ctx'.out, ctx.out),
           \A i \in Ids : copies'[i] \in {copies[i], NoMsg}
    PROVE  RecordsInOrder'
<1>1. SUFFICES ASSUME NEW k \in Used(ctx'.out), NEW l \in Used(ctx'.out), k < l,
                      copies'[ctx'.out[k].id] # NoMsg, copies'[ctx'.out[l].id] # NoMsg
               PROVE  copies'[ctx'.out[k].id] < copies'[ctx'.out[l].id]
  BY DEF RecordsInOrder
<1>2. PICK i, j \in Used(ctx.out) : i < j /\ ctx.out[i] = ctx'.out[k] /\ ctx.out[j] = ctx'.out[l]
  BY <1>1 DEF MovedUp
<1>3. ctx.out[i].id \in Ids /\ ctx.out[j].id \in Ids
  BY DEF OutInv, OutRecords, Contents
<1>4. /\ copies'[ctx'.out[k].id] = copies[ctx.out[i].id]
      /\ copies'[ctx'.out[l].id] = copies[ctx.out[j].id]
  BY <1>1, <1>2, <1>3
<1>5. QED
  BY <1>1, <1>2, <1>4 DEF RecordsInOrder

\* No PUBLISH of the client is sent or arrives.
LEMMA ArrivalStays ==
    ASSUME TypeInv, ArrivalInv, got' = got, \A i \in Ids : copies'[i] \in {copies[i], NoMsg},
           Rising(toB'),
           \A p \in Range(toB') : p.type = "PUBLISH" => p \in Range(toB),
           \A p \in Range(toB) : p.type = "PUBLISH" => p \in Range(toB'),
           phase' = "up" /\ link' => phase = "up" /\ link,
           phase' = "resend" /\ link' =>
              phase = "resend" /\ link /\ resume' = resume /\ ctx'.out = ctx.out /\ copies' = copies
    PROVE  ArrivalInv'
<1>1. \A m : UnderWay(m)' <=> UnderWay(m)
  BY DEF UnderWay
<1>2. \A i \in Ids : Missing(i)' => Missing(i) /\ copies'[i] = copies[i]
  BY DEF Missing
<1>3. \A i, j \in DOMAIN got' : i < j => got'[i] < got'[j]
  BY DEF ArrivalInv
<1>4. \A i \in Ids : Missing(i)' => \A m \in Range(got') : m < copies'[i]
  BY <1>2 DEF ArrivalInv
<1>5. \A i \in Ids : \A p \in Range(toB') :
         Missing(i)' /\ p.type = "PUBLISH" /\ copies'[i] < p.msg => UnderWay(copies[i])' /\ copies'[i] = copies[i]
  BY <1>1, <1>2 DEF ArrivalInv
<1>6. phase' = "up" /\ link' => \A i \in Ids : Missing(i)' => UnderWay(copies[i])' /\ copies'[i] = copies[i]
  BY <1>1, <1>2 DEF ArrivalInv
<1>7. ASSUME phase' = "resend", link', NEW j \in Used(ctx'.out), j < resume'.cursor, Missing(ctx.out[j].id)'
      PROVE  UnderWay(copies[ctx.out[j].id])'
  <2>1. Missing(ctx.out[j].id)
    BY <1>7 DEF Missing
  <2>2. UnderWay(copies[ctx.out[j].id])
    BY <1>7, <2>1 DEF ArrivalInv
  <2>3. QED
    BY <1>1, <1>7, <2>2
<1>8. QED
  BY <1>3, <1>4, <1>5, <1>6, <1>7 DEF ArrivalInv, UnderWay

\* Nothing is under way after the connection broke or when there is a new one.
LEMMA ArrivalLost ==
    ASSUME ArrivalInv, got' = got, \A i \in Ids : copies'[i] \in {copies[i], NoMsg}, toB' = <<>>,
           \/ copies' = NoCopies /\ phase' # "resend"
           \/ ~link'
           \/ phase' \notin {"up", "resend"}
    PROVE  ArrivalInv'
<1>1. \A i \in Ids : Missing(i)' => Missing(i) /\ copies'[i] = copies[i]
  BY DEF Missing
<1>2. Range(toB') = {} /\ DOMAIN toB' = {}
  BY RangeEmpty
<1>3. Rising(toB')
  BY <1>2 DEF Rising
<1>4. copies' = NoCopies => \A i \in Ids : ~Missing(i)'
  BY DEF Missing, NoCopies
<1>5. \A i \in Ids : Missing(i)' => \A m \in Range(got') : m < copies'[i]
  BY <1>1 DEF ArrivalInv
<1>6. QED
  BY <1>2, <1>3, <1>4, <1>5 DEF ArrivalInv

LEMMA RisingTail ==
    ASSUME NEW s \in Seq(Packets), s # <<>>, Rising(s)
    PROVE  /\ Rising(Tail(s))
           /\ Head(s).type = "PUBLISH" =>
                 \A p \in Range(Tail(s)) : p.type = "PUBLISH" => Head(s).msg < p.msg
<1>1. /\ Len(s) \in Nat \ {0} /\ DOMAIN s = 1..Len(s) /\ DOMAIN Tail(s) = 1..Len(s) - 1 /\ Head(s) = s[1]
      /\ \A i \in 1..Len(s) - 1 : Tail(s)[i] = s[i + 1]
  OBVIOUS
<1>2. \A i \in 1..Len(s) - 1 : i + 1 \in DOMAIN s /\ 1 \in DOMAIN s /\ 1 < i + 1
  BY <1>1
<1>3. ASSUME NEW a \in DOMAIN Tail(s), NEW b \in DOMAIN Tail(s), a < b,
             Tail(s)[a].type = "PUBLISH", Tail(s)[b].type = "PUBLISH"
      PROVE  Tail(s)[a].msg < Tail(s)[b].msg
  <2>1. a + 1 < b + 1 /\ a + 1 \in DOMAIN s /\ b + 1 \in DOMAIN s
    BY <1>1, <1>2, <1>3
  <2>2. QED
    BY <1>1, <1>3, <2>1 DEF Rising
<1>4. ASSUME Head(s).type = "PUBLISH", NEW p \in Range(Tail(s)), p.type = "PUBLISH" PROVE Head(s).msg < p.msg
  <2>1. PICK i \in 1..Len(s) - 1 : p = s[i + 1]
    BY <1>1 DEF Range
  <2>2. QED
    BY <1>1, <1>2, <1>4, <2>1 DEF Rising
<1>5. QED
  BY <1>3, <1>4 DEF Rising

LEMMA RisingAppend ==
    ASSUME NEW s \in Seq(Packets), NEW p \in Packets, Rising(s),
           p.type = "PUBLISH" => \A q \in Range(s) : q.type = "PUBLISH" => q.msg < p.msg
    PROVE  Rising(Append(s, p))
<1>1. /\ Len(s) \in Nat /\ DOMAIN s = 1..Len(s) /\ DOMAIN Append(s, p) = 1..Len(s) + 1
      /\ Append(s, p)[Len(s) + 1] = p
      /\ \A i \in 1..Len(s) : Append(s, p)[i] = s[i]
  OBVIOUS
<1>2. \A i \in 1..Len(s) : s[i] \in Range(s)
  BY <1>1 DEF Range
<1>3. SUFFICES ASSUME NEW a \in DOMAIN Append(s, p), NEW b \in DOMAIN Append(s, p), a < b,
                      Append(s, p)[a].type = "PUBLISH", Append(s, p)[b].type = "PUBLISH"
               PROVE  Append(s, p)[a].msg < Append(s, p)[b].msg
  BY DEF Rising
<1>4. a \in 1..Len(s)
  BY <1>1, <1>3
<1>5. CASE b \in 1..Len(s)
  BY <1>1, <1>3, <1>4, <1>5 DEF Rising
<1>6. CASE b = Len(s) + 1
  BY <1>1, <1>2, <1>3, <1>4, <1>6
<1>7. QED
  BY <1>1, <1>5, <1>6
-----------------------------------------------------------------------------
(* The network *)

LEMMA RecvFailsKeeps ==
    ASSUME MqttInv, RecvFails
    PROVE  MqttInv'
<1>1. /\ UNCHANGED <<ctx, nextId, copies, resume, link, toB, toC, broker, qos, owed, got, delivered, again, acked, used>>
      /\ phase' = "down" /\ phase' \in Phases
  BY DEF RecvFails, history, Phases
<1>2. TypeInv /\ OutInv /\ InInv /\ OrderInv
  BY DEF MqttInv
<1>3. TypeInv'
  BY <1>1, <1>2 DEF TypeInv
<1>4. OneUnderWay(toB', toC') /\ OneUnderWay(toC', toB') /\ again' = {} /\ used.out \in Nat
  BY <1>1, <1>2, TypesAre DEF OutInv, OutPackets, InInv, InPackets
<1>5. ResumeInv'
  BY <1>1, NotResuming
<1>6. OutInv'
  BY <1>1, <1>2, <1>4, <1>5, OutStays
<1>7. InInv'
  BY <1>1, <1>2, <1>4, InStays
<1>8. RecordsInOrder'
  BY <1>1, <1>2 DEF OrderInv, RecordsInOrder
<1>9. used'.skipped = {} => ArrivalInv'
  <2>1. ArrivalInv => Rising(toB')
    BY <1>1 DEF ArrivalInv
  <2>2. QED
    BY <1>1, <1>2, <2>1, ArrivalStays DEF OrderInv
<1>10. QED
  BY <1>3, <1>6, <1>7, <1>8, <1>9 DEF MqttInv, OrderInv

LEMMA LinkBreaksKeeps ==
    ASSUME MqttInv, LinkBreaks
    PROVE  MqttInv'
<1>1. /\ UNCHANGED <<ctx, nextId, copies, phase, resume, broker, qos, owed, got, delivered, again, acked>>
      /\ link' = FALSE /\ toB' = <<>> /\ used' = [used EXCEPT !.breaks = @ + 1]
  BY DEF LinkBreaks, client, history
<1>2. TypeInv /\ OutInv /\ InInv /\ OrderInv
  BY DEF MqttInv
<1>3. toB \in Seq(Packets) /\ toC \in Seq(Packets) /\ used.out \in Nat
  BY <1>2, TypesAre
<1>4. PICK n \in 0..Len(toC) : toC' = SubSeq(toC, 1, n)
  BY DEF LinkBreaks
<1>5. toC' \in Seq(Packets) /\ Range(toC') \subseteq Range(toC)
  BY <1>3, <1>4, RangePrefix
<1>6. used' \in Usage /\ used'.out = used.out /\ used'.in = used.in /\ used'.skipped = used.skipped
  <2>1. used \in Usage
    BY <1>2 DEF TypeInv
  <2>2. QED
    BY <1>1, <2>1 DEF Usage
<1>7. TypeInv'
  <2>1. toB' \in Seq(Packets)
    BY <1>1
  <2>2. link' \in BOOLEAN
    BY <1>1
  <2>3. QED
    BY <1>1, <1>2, <1>5, <1>6, <2>1, <2>2 DEF TypeInv
<1>8. Range(toB') = {}
  BY <1>1, RangeEmpty
<1>9. OneUnderWay(toB', toC') /\ OneUnderWay(toC', toB') /\ again' = {}
  <2>1. OneUnderWay(toB, toC) /\ OneUnderWay(toC, toB) /\ again' = {}
    BY <1>1, <1>2 DEF OutInv, OutPackets, InInv, InPackets
  <2>2. 0 \in 0..Len(toB)
    BY <1>3
  <2>3. QED
    BY <1>1, <1>3, <1>4, <2>1, <2>2, LoseSome
<1>10. ResumeInv'
  BY <1>1, <1>2, <1>5, <1>8, ResumingStays DEF OutInv
<1>11. OutInv'
  BY <1>1, <1>2, <1>3, <1>5, <1>6, <1>8, <1>9, <1>10, OutStays
<1>12. InInv'
  BY <1>1, <1>2, <1>5, <1>6, <1>8, <1>9, InStays
<1>13. RecordsInOrder'
  BY <1>1, <1>2 DEF OrderInv, RecordsInOrder
<1>14. used'.skipped = {} => ArrivalInv'
  BY <1>1, <1>2, <1>6, ArrivalLost DEF OrderInv
<1>15. QED
  BY <1>7, <1>11, <1>12, <1>13, <1>14 DEF MqttInv, OrderInv
-----------------------------------------------------------------------------
(* The broker *)

\* SentAt() finds the entry with a packet id.
LEMMA SentAtIs ==
    ASSUME TypeInv, NEW id
    PROVE  /\ SentAt(id) = 0 <=> \A e \in Entries : e.id # id
           /\ SentAt(id) # 0 => SentAt(id) \in DOMAIN broker.sent /\ broker.sent[SentAt(id)].id = id
<1> DEFINE found == {i \in 1..Len(broker.sent) : broker.sent[i].id = id}
<1>1. broker.sent \in Seq(Entry)
  BY DEF TypeInv
<1>2. DOMAIN broker.sent = 1..Len(broker.sent) /\ Len(broker.sent) \in Nat
  BY <1>1
<1>3. SentAt(id) = IF found # {} THEN Min(found) ELSE 0
  BY DEF SentAt, SelectInSeq
<1>4. found \in SUBSET Nat /\ 0 \notin found
  BY <1>2
<1>5. found = {} <=> \A e \in Entries : e.id # id
  BY <1>2 DEF Entries, Range
<1>6. found # {} => Min(found) \in found
  BY <1>4, MinIs
<1>7. QED
  BY <1>2, <1>3, <1>4, <1>5, <1>6

LEMMA RemoveAtIs ==
    ASSUME NEW S, NEW s \in Seq(S), NEW k \in DOMAIN s
    PROVE  /\ RemoveAt(s, k) \in Seq(S) /\ Len(RemoveAt(s, k)) = Len(s) - 1
           /\ \A i \in 1..Len(s) - 1 : RemoveAt(s, k)[i] = IF i < k THEN s[i] ELSE s[i + 1]
<1>1. Len(s) \in Nat /\ k \in 1..Len(s) /\ DOMAIN s = 1..Len(s)
  OBVIOUS
<1> DEFINE a == SubSeq(s, 1, k - 1)
           b == SubSeq(s, k + 1, Len(s))
<1>2. a \in Seq(S) /\ Len(a) = k - 1 /\ \A i \in 1..k - 1 : a[i] = s[i]
  BY <1>1
<1>3. b \in Seq(S) /\ Len(b) = Len(s) - k /\ \A i \in 1..Len(s) - k : b[i] = s[k + i]
  BY <1>1
<1> HIDE DEF a, b
<1>4. a \o b \in Seq(S) /\ Len(a \o b) = Len(s) - 1
  <2>1. a \o b \in Seq(S) /\ Len(a \o b) = Len(a) + Len(b)
    BY <1>2, <1>3, ConcatProperties
  <2>2. QED
    BY <1>1, <1>2, <1>3, <2>1
<1>5. ASSUME NEW i \in 1..Len(s) - 1 PROVE (a \o b)[i] = IF i < k THEN s[i] ELSE s[i + 1]
  <2>1. i \in 1..Len(a) + Len(b) /\ (a \o b)[i] = IF i <= Len(a) THEN a[i] ELSE b[i - Len(a)]
    BY <1>1, <1>2, <1>3
  <2>2. CASE i < k
    <3>1. i <= Len(a) /\ i \in 1..k - 1
      BY <1>1, <1>2, <2>2
    <3>2. QED
      BY <1>2, <2>1, <2>2, <3>1
  <2>3. CASE ~(i < k)
    <3>1. ~(i <= Len(a)) /\ i - Len(a) \in 1..Len(s) - k /\ k + (i - Len(a)) = i + 1
      BY <1>1, <1>2, <2>3
    <3>2. QED
      BY <1>3, <2>1, <2>3, <3>1
  <2>4. QED
    BY <2>2, <2>3
<1>6. RemoveAt(s, k) = a \o b
  BY DEF RemoveAt, a, b
<1>7. QED
  BY <1>4, <1>5, <1>6

\* One of several entries with different packet ids is removed.
LEMMA RemoveEntry ==
    ASSUME NEW s \in Seq(Entry), NEW k \in DOMAIN s, \A i, j \in DOMAIN s : s[i].id = s[j].id => i = j
    PROVE  LET new == RemoveAt(s, k)
           IN  /\ new \in Seq(Entry) /\ Len(new) = Len(s) - 1
               /\ Range(new) = Range(s) \ {s[k]}
               /\ \A i, j \in DOMAIN new : new[i].id = new[j].id => i = j
<1> DEFINE new == RemoveAt(s, k)
           at(i) == IF i < k THEN i ELSE i + 1
<1>1. Len(s) \in Nat /\ k \in 1..Len(s) /\ DOMAIN s = 1..Len(s)
  OBVIOUS
<1>2. new \in Seq(Entry) /\ Len(new) = Len(s) - 1
  BY RemoveAtIs
<1>3. DOMAIN new = 1..Len(s) - 1
  BY <1>2
<1>4. \A i \in 1..Len(s) - 1 : at(i) \in 1..Len(s) /\ at(i) # k
  BY <1>1
<1>5. \A i \in 1..Len(s) - 1 : new[i] = s[at(i)]
  BY RemoveAtIs
<1>6. \A i, j \in 1..Len(s) - 1 : at(i) = at(j) => i = j
  BY <1>1
<1>7. \A j \in 1..Len(s) : j # k => \E i \in 1..Len(s) - 1 : at(i) = j
  <2> SUFFICES ASSUME NEW j \in 1..Len(s), j # k PROVE \E i \in 1..Len(s) - 1 : at(i) = j
    OBVIOUS
  <2>1. CASE j < k
    BY <1>1, <2>1
  <2>2. CASE ~(j < k)
    <3>1. j - 1 \in 1..Len(s) - 1 /\ at(j - 1) = j
      BY <1>1, <2>2
    <3>2. QED
      BY <3>1
  <2>3. QED
    BY <2>1, <2>2
<1> HIDE DEF new, at
<1>8. \A i, j \in DOMAIN new : new[i].id = new[j].id => i = j
  BY <1>1, <1>3, <1>4, <1>5, <1>6
<1>9. ASSUME NEW x \in Range(new) PROVE x \in Range(s) \ {s[k]}
  <2>1. PICK i \in 1..Len(s) - 1 : x = new[i]
    BY <1>3, <1>9 DEF Range
  <2>2. x = s[at(i)] /\ at(i) \in 1..Len(s) /\ at(i) # k
    BY <1>4, <1>5, <2>1
  <2>3. QED
    BY <1>1, <2>2 DEF Range
<1>10. ASSUME NEW x \in Range(s), x # s[k] PROVE x \in Range(new)
  <2>1. PICK j \in 1..Len(s) : x = s[j]
    BY <1>1 DEF Range
  <2>2. PICK i \in 1..Len(s) - 1 : at(i) = j
    BY <1>7, <1>10, <2>1
  <2>3. QED
    BY <1>3, <1>5, <2>1, <2>2 DEF Range
<1>11. QED
  BY <1>2, <1>8, <1>9, <1>10 DEF new

\* An entry is marked as released.
Marked(s, k) == [s EXCEPT ![k].rel = TRUE]

LEMMA MarkEntry ==
    ASSUME NEW s \in Seq(Entry), NEW k \in DOMAIN s, \A i, j \in DOMAIN s : s[i].id = s[j].id => i = j
    PROVE  LET new == Marked(s, k)
           IN  /\ new \in Seq(Entry) /\ Len(new) = Len(s)
               /\ Range(new) = (Range(s) \ {s[k]}) \cup {[id |-> s[k].id, msg |-> s[k].msg, rel |-> TRUE]}
               /\ \A i, j \in DOMAIN new : new[i].id = new[j].id => i = j
<1> DEFINE new == [s EXCEPT ![k].rel = TRUE]
           e == [id |-> s[k].id, msg |-> s[k].msg, rel |-> TRUE]
<1>1. Len(s) \in Nat /\ k \in 1..Len(s) /\ DOMAIN s = 1..Len(s) /\ s \in [1..Len(s) -> Entry]
  OBVIOUS
<1>2. s[k] \in Entry
  BY <1>1
<1>3. [s[k] EXCEPT !.rel = TRUE] = e /\ e \in Entry /\ e.id = s[k].id
  <2>1. s[k].id \in Nat \ {0} /\ s[k].msg \in InMsgs
    BY <1>2 DEF Entry
  <2>2. e \in Entry
    BY <2>1, Zenon DEF Entry
  <2>3. [s[k] EXCEPT !.rel = TRUE] = e
    <3>1. ASSUME NEW y \in Entry
          PROVE  [y EXCEPT !.rel = TRUE] = [id |-> y.id, msg |-> y.msg, rel |-> TRUE]
      <4> DEFINE z == [y EXCEPT !.rel = TRUE]
      <4>1. z \in Entry
        BY DEF Entry
      <4>2. z.id = y.id /\ z.msg = y.msg
        BY DEF Entry
      <4>3. z.rel = TRUE
        BY Zenon DEF Entry
      <4> HIDE DEF z
      <4>4. z = [id |-> z.id, msg |-> z.msg, rel |-> z.rel]
        BY <4>1 DEF Entry
      <4>5. z = [id |-> y.id, msg |-> y.msg, rel |-> TRUE]
        BY <4>2, <4>3, <4>4, Zenon
      <4>6. QED
        BY <4>5 DEF z
    <3>2. QED
      BY <1>2, <3>1
  <2>4. e.id = s[k].id
    OBVIOUS
  <2>5. QED
    BY <2>2, <2>3, <2>4
<1>4. new = [s EXCEPT ![k] = [s[k] EXCEPT !.rel = TRUE]]
  OBVIOUS
<1> HIDE DEF e
<1>5. new = [s EXCEPT ![k] = e]
  BY <1>3, <1>4
<1>6. new \in [1..Len(s) -> Entry] /\ DOMAIN new = 1..Len(s)
  BY <1>1, <1>3, <1>5
<1>7. new[k] = e /\ \A i \in 1..Len(s) : i # k => new[i] = s[i]
  BY <1>1, <1>5
<1> HIDE DEF new
<1>8. new \in Seq(Entry) /\ Len(new) = Len(s)
  BY <1>1, <1>6
<1>9. \A i, j \in DOMAIN new : new[i].id = new[j].id => i = j
  BY <1>1, <1>3, <1>6, <1>7
<1>10. \A i \in 1..Len(s) : i # k => s[i] # s[k]
  BY <1>1
<1>11. Range(new) = (Range(s) \ {s[k]}) \cup {e}
  BY <1>1, <1>6, <1>7, <1>10 DEF Range
<1>12. QED
  BY <1>8, <1>9, <1>11 DEF new, e, Marked

\* Either end takes a packet, and may answer it with the next one of the exchange.
LEMMA Taken ==
    ASSUME NEW there \in Seq(Packets), NEW back \in Seq(Packets), there # <<>>,
           OneUnderWay(there, back), OneUnderWay(back, there)
    PROVE  OneUnderWay(Tail(there), back) /\ OneUnderWay(back, Tail(there))
  BY TakeThere, TakeBack

LEMMA Answered ==
    ASSUME NEW there \in Seq(Packets), NEW back \in Seq(Packets), there # <<>>,
           OneUnderWay(there, back), OneUnderWay(back, there),
           NEW r \in Packets, r.id = Head(there).id,
           \/ Head(there).type \in FromSender /\ r.type \in FromReceiver
           \/ Head(there).type \in FromReceiver /\ r.type \in FromSender
    PROVE  OneUnderWay(Tail(there), Append(back, r)) /\ OneUnderWay(Append(back, r), Tail(there))
<1>1. Tail(there) \in Seq(Packets)
  BY RangeTail
<1>2. OneUnderWay(Tail(there), back) /\ OneUnderWay(back, Tail(there))
  BY Taken
<1>3. CASE Head(there).type \in FromSender /\ r.type \in FromReceiver
  <2>1. Quiet(Tail(there), back, r.id)
    BY <1>3, TakeThere
  <2>2. r.type \notin FromSender
    BY <1>3, TypesApart
  <2>3. QED
    BY <1>1, <1>2, <2>1, <2>2, PutThere, PutBack
<1>4. CASE Head(there).type \in FromReceiver /\ r.type \in FromSender
  <2>1. Quiet(back, Tail(there), r.id)
    BY <1>4, TakeBack
  <2>2. r.type \notin FromReceiver
    BY <1>4, TypesApart
  <2>3. QED
    BY <1>1, <1>2, <2>1, <2>2, PutThere, PutBack
<1>5. QED
  BY <1>3, <1>4

\* An exchange of which something is under way is not one that the resumption has
\* still to send.
LEMMA ResumingAnswered ==
    ASSUME ResumeInv, toB \in Seq(Packets), toC \in Seq(Packets), toB # <<>>,
           Head(toB).type \in FromSender, NEW r \in Packets, r.id = Head(toB).id,
           toB' = Tail(toB), toC' = Append(toC, r),
           ctx' = ctx, phase' = phase, resume' = resume
    PROVE  ResumeInv'
<1>1. \A j \in 1..OUTGOING_COUNT : ToResend(j)' <=> ToResend(j)
  BY DEF ToResend
<1>2. ~Quiet(toB, toC, r.id)
  BY RangeTail DEF Quiet
<1>3. ASSUME NEW id, id # r.id, Quiet(toB, toC, id) PROVE Quiet(Tail(toB), Append(toC, r), id)
  <2>1. Quiet(Tail(toB), toC, id) /\ Tail(toB) \in Seq(Packets)
    BY <1>3, QuietStays, RangeTail
  <2>2. QED
    BY <1>3, <2>1, QuietStays
<1>4. QED
  BY <1>1, <1>2, <1>3 DEF ResumeInv

\* What all cases of BrokerTakes share.
LEMMA BrokerTakesIs ==
    ASSUME MqttInv, BrokerTakes
    PROVE  /\ UNCHANGED <<ctx, nextId, copies, phase, resume, link, qos, owed, delivered, used>>
           /\ link /\ toB # <<>> /\ toB' = Tail(toB)
           /\ toB \in Seq(Packets) /\ toC \in Seq(Packets) /\ toB' \in Seq(Packets)
           /\ Head(toB) \in Packets /\ Range(toB) = Range(toB') \cup {Head(toB)}
           /\ OneUnderWay(toB, toC) /\ OneUnderWay(toC, toB)
<1>1. /\ UNCHANGED <<ctx, nextId, copies, phase, resume, link, qos, owed, delivered, used>>
      /\ link /\ toB # <<>> /\ toB' = Tail(toB)
  BY DEF BrokerTakes, client
<1>2. toB \in Seq(Packets) /\ toC \in Seq(Packets)
  BY TypesAre DEF MqttInv
<1>3. OneUnderWay(toB, toC) /\ OneUnderWay(toC, toB)
  BY DEF MqttInv, OutInv, OutPackets, InInv, InPackets
<1>4. QED
  BY <1>1, <1>2, <1>3, RangeTail

\* The first of the publishes under way arrives.
LEMMA ArrivesInOrder ==
    ASSUME TypeInv, ArrivalInv, toB # <<>>, NEW m, NEW id \in Ids, Head(toB).type = "PUBLISH",
           Head(toB).msg = m, copies[id] = m, m \in OutMsgs,
           toB' = Tail(toB), got' = IF m \in Range(got) THEN got ELSE Append(got, m),
           UNCHANGED <<ctx, copies, phase, resume, link>>
    PROVE  ArrivalInv' /\ got' \in Seq(OutMsgs) /\ Range(got') = Range(got) \cup {m}
<1>1. toB \in Seq(Packets) /\ got \in Seq(OutMsgs) /\ \A i \in Ids : copies[i] \in Nat
  BY TypesAre DEF TypeInv
<1>2. Range(toB) = Range(toB') \cup {Head(toB)} /\ Head(toB) \in Range(toB)
  BY <1>1, RangeTail
<1>3. got' \in Seq(OutMsgs) /\ Range(got') = Range(got) \cup {m}
  <2>1. CASE m \in Range(got)
    BY <1>1, <2>1
  <2>2. CASE m \notin Range(got)
    BY <1>1, <2>2, RangeAppend
  <2>3. QED
    BY <2>1, <2>2
<1>4. Rising(toB') /\ \A p \in Range(toB') : p.type = "PUBLISH" => m < p.msg
  BY <1>1, RisingTail DEF ArrivalInv
<1>5. \A i \in Ids : Missing(i)' => Missing(i) /\ copies[i] # m
  BY <1>3 DEF Missing
<1>6. \A x : UnderWay(x) /\ x # m => UnderWay(x)'
  BY <1>2 DEF UnderWay
<1>7. \A i, j \in DOMAIN got' : i < j => got'[i] < got'[j]
  <2>1. CASE m \in Range(got)
    BY <2>1 DEF ArrivalInv
  <2>2. CASE m \notin Range(got)
    <3>1. got' = Append(got, m) /\ \A x \in Range(got) : x < m
      BY <2>2, ConstantsAre DEF ArrivalInv, Missing
    <3>2. /\ Len(got) \in Nat /\ DOMAIN got = 1..Len(got) /\ DOMAIN got' = 1..Len(got) + 1
          /\ got'[Len(got) + 1] = m /\ \A i \in 1..Len(got) : got'[i] = got[i]
      BY <1>1, <3>1
    <3>3. \A i \in 1..Len(got) : got[i] < m
      BY <3>1, <3>2 DEF Range
    <3>4. \A i \in DOMAIN got' : i \in 1..Len(got) \/ i = Len(got) + 1
      BY <3>2
    <3>5. SUFFICES ASSUME NEW i \in DOMAIN got', NEW j \in DOMAIN got', i < j PROVE got'[i] < got'[j]
      OBVIOUS
    <3>6. i \in 1..Len(got)
      BY <3>2, <3>5
    <3>7. CASE j \in 1..Len(got)
      BY <3>2, <3>5, <3>6, <3>7 DEF ArrivalInv
    <3>8. CASE j = Len(got) + 1
      BY <3>2, <3>3, <3>6, <3>8
    <3>9. QED
      BY <3>4, <3>7, <3>8
  <2>3. QED
    BY <2>1, <2>2
<1>8. ASSUME NEW i \in Ids, Missing(i)' PROVE m < copies[i]
  <2>1. Missing(i) /\ copies[i] # m
    BY <1>5, <1>8
  <2>2. ASSUME copies[i] < m PROVE FALSE
    <3>1. UnderWay(copies[i])
      BY <1>2, <2>1, <2>2 DEF ArrivalInv
    <3>2. PICK p \in Range(toB') : p.type = "PUBLISH" /\ p.msg = copies[i]
      BY <1>2, <2>1, <3>1 DEF UnderWay
    <3>3. m < copies[i]
      BY <1>4, <3>2
    <3>4. QED
      BY <1>1, <2>2, <3>3
  <2>3. QED
    BY <1>1, <2>1, <2>2
<1>9. \A i \in Ids : Missing(i)' => \A x \in Range(got') : x < copies[i]
  BY <1>3, <1>5, <1>8 DEF ArrivalInv
<1>10. \A i \in Ids : \A p \in Range(toB') :
          Missing(i)' /\ p.type = "PUBLISH" /\ copies[i] < p.msg => UnderWay(copies[i])'
  BY <1>2, <1>5, <1>6 DEF ArrivalInv
<1>11. phase = "up" /\ link => \A i \in Ids : Missing(i)' => UnderWay(copies[i])'
  BY <1>5, <1>6 DEF ArrivalInv
<1>12. ASSUME phase = "resend", link, NEW j \in Used(ctx.out), j < resume.cursor, Missing(ctx.out[j].id)'
       PROVE  UnderWay(copies[ctx.out[j].id])'
  <2>1. Missing(ctx.out[j].id) /\ copies[ctx.out[j].id] # m
    BY <1>3, <1>12 DEF Missing
  <2>2. UnderWay(copies[ctx.out[j].id])
    BY <1>12, <2>1 DEF ArrivalInv
  <2>3. QED
    BY <1>6, <2>1, <2>2
<1>13. ArrivalInv'
  BY <1>4, <1>7, <1>9, <1>10, <1>11, <1>12 DEF ArrivalInv, UnderWay
<1>14. QED
  BY <1>3, <1>13

LEMMA PacketIs ==
    ASSUME NEW type \in FromSender \cup FromReceiver, NEW id \in Nat, NEW m \in Nat
    PROVE  /\ Packet(type, id, m) \in Packets
           /\ Packet(type, id, m).type = type /\ Packet(type, id, m).id = id /\ Packet(type, id, m).msg = m
  BY DEF Packet, Packets

\* A PUBLISH arrives: the broker counts a QoS 2 message once, by its packet id.
LEMMA BrokerTakesPublish ==
    ASSUME MqttInv, BrokerTakes, Head(toB).type = "PUBLISH"
    PROVE  MqttInv'
<1> DEFINE p == Head(toB)
           id == p.id
           m == p.msg
           r == Packet(IF qos[m] = 1 THEN "PUBACK" ELSE "PUBREC", id, NoMsg)
<1>1. /\ UNCHANGED <<ctx, nextId, copies, phase, resume, link, qos, owed, delivered, used>>
      /\ link /\ toB # <<>> /\ toB' = Tail(toB)
      /\ toB \in Seq(Packets) /\ toC \in Seq(Packets) /\ toB' \in Seq(Packets)
      /\ p \in Packets /\ Range(toB) = Range(toB') \cup {p}
      /\ OneUnderWay(toB, toC) /\ OneUnderWay(toC, toB)
  BY BrokerTakesIs
<1>2. TypeInv /\ OutInv /\ InInv /\ OrderInv
  BY DEF MqttInv
<1>3. id \in Ids /\ m # NoMsg /\ copies[id] = m
  BY <1>1, <1>2 DEF OutInv, OutPackets
<1>4. m \in OutMsgs /\ m <= used.out /\ qos[m] \in {1, 2} /\ id \in Nat \ {0}
      /\ Rec(id, qos[m], Pending(qos[m])) \in Contents(ctx.out)
  BY <1>2, <1>3, TypesAre, ConstantsAre DEF OutInv, CopyInv
<1>5. r \in Packets /\ r.type = (IF qos[m] = 1 THEN "PUBACK" ELSE "PUBREC") /\ r.id = id /\ r.type \in FromReceiver
      /\ p.type \in FromSender
  <2>1. (IF qos[m] = 1 THEN "PUBACK" ELSE "PUBREC") \in FromReceiver /\ NoMsg \in Nat /\ p.type \in FromSender
    BY DEF FromReceiver, NoMsg, FromSender
  <2>2. QED
    BY <1>4, <2>1, PacketIs
<1>6. qos[m] = 2 /\ id \in broker.rel => m \in Range(got)
  <2>1. SUFFICES ASSUME qos[m] = 2, id \in broker.rel, m \notin Range(got) PROVE FALSE
    OBVIOUS
  <2>2. PICK state \in ToRelease : Rec(id, 2, state) \in Contents(ctx.out)
    BY <1>2, <1>3, <2>1 DEF OutInv, RelInv, Reached
  <2>3. Rec(id, 2, state) = Rec(id, 2, "PubRecPending")
    <3>1. Rec(id, 2, "PubRecPending") \in Contents(ctx.out)
      BY <1>4, <2>1, StatesAre
    <3>2. Rec(id, 2, "PubRecPending").id = Rec(id, 2, state).id
      BY DEF Rec
    <3>3. QED
      BY <1>2, <2>2, <3>1, <3>2, TypesAre, RecordsAre, ConstantsAre
  <2>4. QED
    BY <2>3 DEF Rec, ToRelease
<1>7. qos[m] = 2 /\ m \in Range(got) => id \in broker.rel
  BY <1>2, <1>3 DEF OutInv, RelInv, Reached
<1>8. /\ got' = IF m \in Range(got) THEN got ELSE Append(got, m)
      /\ again' = again /\ acked' = acked /\ toC' = Append(toC, r)
      /\ broker' = IF qos[m] = 1 THEN broker ELSE [broker EXCEPT !.rel = @ \cup {id}]
  <2>1. CASE qos[m] = 1
    BY <2>1 DEF BrokerTakes, Arrives
  <2>2. CASE qos[m] = 2
    <3>1. /\ IF id \in broker.rel THEN UNCHANGED <<got, again>> ELSE Arrives(m)
          /\ broker' = [broker EXCEPT !.rel = @ \cup {id}]
          /\ toC' = Append(toC, Packet("PUBREC", id, NoMsg))
          /\ UNCHANGED acked
      BY <2>2 DEF BrokerTakes
    <3>2. CASE id \in broker.rel
      BY <1>6, <2>2, <3>1, <3>2
    <3>3. CASE id \notin broker.rel
      BY <1>7, <2>2, <3>1, <3>3 DEF Arrives
    <3>4. QED
      BY <3>2, <3>3
  <2>3. QED
    BY <1>4, <2>1, <2>2
<1> HIDE DEF r
<1>9. broker \in [kept : BOOLEAN, rel : SUBSET Ids, sent : Seq(Entry)]
  BY <1>2 DEF TypeInv
<1>10. /\ broker' \in [kept : BOOLEAN, rel : SUBSET Ids, sent : Seq(Entry)]
       /\ broker'.sent = broker.sent
       /\ broker'.rel = IF qos[m] = 1 THEN broker.rel ELSE broker.rel \cup {id}
  <2>1. CASE qos[m] = 1
    BY <1>8, <1>9, <2>1
  <2>2. CASE qos[m] # 1
    BY <1>3, <1>8, <1>9, <2>2
  <2>3. QED
    BY <2>1, <2>2
<1>11. got' \in Seq(OutMsgs) /\ Range(got') = Range(got) \cup {m}
  <2>1. got \in Seq(OutMsgs)
    BY <1>2 DEF TypeInv
  <2>2. CASE m \in Range(got)
    BY <1>8, <2>1, <2>2
  <2>3. CASE m \notin Range(got)
    BY <1>4, <1>8, <2>1, <2>3, RangeAppend
  <2>4. QED
    BY <2>2, <2>3
<1>12. toC' \in Seq(Packets) /\ Range(toC') = Range(toC) \cup {r}
  BY <1>1, <1>5, <1>8, RangeAppend
<1>13. OneUnderWay(toB', toC') /\ OneUnderWay(toC', toB')
  BY <1>1, <1>5, <1>8, Answered
<1> HIDE DEF p, id, m
<1>14. TypeInv'
  BY <1>1, <1>2, <1>8, <1>10, <1>11, <1>12 DEF TypeInv
<1>15. OutInv'
  <2>1. OutRecords'
    BY <1>1, <1>2 DEF OutInv, OutRecords
  <2>2. CopyInv'
    BY <1>1, <1>2, <1>4, <1>11 DEF OutInv, CopyInv
  <2>3. \A i \in Ids : copies[i] = m => i = id
    BY <1>2, <1>3 DEF OutInv, CopyInv
  <2>4. \A i \in Ids : Reached(i)' <=> Reached(i) \/ (i = id /\ qos[m] = 2)
    BY <1>1, <1>3, <1>11, <2>3 DEF Reached
  <2>5. RelInv'
    <3>1. CASE qos[m] = 1
      BY <1>1, <1>2, <1>9, <1>10, <2>4, <3>1 DEF OutInv, RelInv
    <3>2. CASE qos[m] # 1
      BY <1>1, <1>2, <1>3, <1>4, <1>9, <1>10, <2>4, <3>2 DEF OutInv, RelInv
    <3>3. QED
      BY <3>1, <3>2
  <2>6. OutPackets'
    <3>1. r.type = "PUBACK" => copies[r.id] \in Range(got') /\ qos[copies[r.id]] = 1
      BY <1>3, <1>4, <1>5, <1>11
    <3>2. r.type = "PUBREC" => copies[r.id] \in Range(got') /\ qos[copies[r.id]] = 2
      BY <1>3, <1>4, <1>5, <1>11
    <3>3. r.type \in {"PUBACK", "PUBREC"} /\ r.id \in Ids
      BY <1>3, <1>5
    <3>4. /\ \A x \in Range(toB') : x.type = "PUBLISH" => x.id \in Ids /\ x.msg # NoMsg /\ copies[x.id] = x.msg
          /\ \A x \in Range(toB') : x.type = "PUBREL" => Rec(x.id, 2, "PubCompPending") \in Contents(ctx.out)
      BY <1>1, <1>2 DEF OutInv, OutPackets
    <3>5. \A x \in Range(toC') : x.type = "PUBACK" =>
             x.id \in Ids /\ copies[x.id] \in Range(got') /\ qos[copies[x.id]] = 1
      BY <1>2, <1>11, <1>12, <3>1, <3>3 DEF OutInv, OutPackets
    <3>6. \A x \in Range(toC') : x.type = "PUBREC" =>
             x.id \in Ids /\ copies[x.id] \in Range(got') /\ qos[copies[x.id]] = 2
      BY <1>2, <1>11, <1>12, <3>2, <3>3 DEF OutInv, OutPackets, Reached
    <3>7. ASSUME NEW x \in Range(toC'), x.type = "PUBCOMP"
          PROVE  Rec(x.id, 2, "PubCompPending") \in Contents(ctx.out) /\ x.id \notin broker'.rel
      <4>1. x \in Range(toC)
        BY <1>12, <3>3, <3>7
      <4>2. Rec(x.id, 2, "PubCompPending") \in Contents(ctx.out) /\ x.id \notin broker.rel
        BY <1>2, <3>7, <4>1 DEF OutInv, OutPackets
      <4>3. x.id # id
        BY <1>1, <1>5, <3>7, <4>1 DEF OneUnderWay, FromReceiver, p, id
      <4>4. QED
        BY <1>10, <4>2, <4>3
    <3>8. QED
      BY <1>1, <1>13, <3>4, <3>5, <3>6, <3>7 DEF OutPackets, Reached
  <2>7. ResumeInv'
    BY <1>1, <1>2, <1>5, <1>8, ResumingAnswered DEF OutInv, p, id
  <2>8. QED
    BY <2>1, <2>2, <2>5, <2>6, <2>7 DEF OutInv
<1>16. InInv'
  <2>1. \A x \in Range(toC') : x.type \in FromSender => x \in Range(toC)
    BY <1>5, <1>12, TypesApart
  <2>2. again' = {}
    BY <1>2, <1>8 DEF InInv
  <2>3. QED
    BY <1>1, <1>2, <1>8, <1>10, <1>13, <2>1, <2>2, InStays
<1>17. RecordsInOrder'
  BY <1>1, <1>2 DEF OrderInv, RecordsInOrder
<1>18. used'.skipped = {} => ArrivalInv'
  BY <1>1, <1>2, <1>3, <1>4, <1>8, ArrivesInOrder DEF OrderInv, p, id, m
<1>19. QED
  BY <1>14, <1>15, <1>16, <1>17, <1>18 DEF MqttInv, OrderInv

\* The broker forgets a packet id with its PUBREL, of which the PUBLISH will not
\* come again.
LEMMA BrokerTakesPubrel ==
    ASSUME MqttInv, BrokerTakes, Head(toB).type = "PUBREL"
    PROVE  MqttInv'
<1> DEFINE p == Head(toB)
           id == p.id
           r == Packet("PUBCOMP", id, NoMsg)
<1>1. /\ UNCHANGED <<ctx, nextId, copies, phase, resume, link, qos, owed, delivered, used>>
      /\ link /\ toB # <<>> /\ toB' = Tail(toB)
      /\ toB \in Seq(Packets) /\ toC \in Seq(Packets) /\ toB' \in Seq(Packets)
      /\ p \in Packets /\ Range(toB) = Range(toB') \cup {p}
      /\ OneUnderWay(toB, toC) /\ OneUnderWay(toC, toB)
  BY BrokerTakesIs
<1>2. TypeInv /\ OutInv /\ InInv /\ OrderInv
  BY DEF MqttInv
<1>3. /\ broker' = [broker EXCEPT !.rel = @ \ {id}]
      /\ toC' = Append(toC, r) /\ UNCHANGED <<got, again, acked>>
  BY DEF BrokerTakes
<1>4. Rec(id, 2, "PubCompPending") \in Contents(ctx.out) /\ id \in Nat
  BY <1>1, <1>2 DEF OutInv, OutPackets, Packets
<1>5. r \in Packets /\ r.type = "PUBCOMP" /\ r.id = id /\ r.type \in FromReceiver /\ p.type \in FromSender
  <2>1. "PUBCOMP" \in FromReceiver /\ NoMsg \in Nat /\ p.type \in FromSender
    BY DEF FromReceiver, NoMsg, FromSender
  <2>2. QED
    BY <1>4, <2>1, PacketIs
<1> HIDE DEF r
<1>6. broker \in [kept : BOOLEAN, rel : SUBSET Ids, sent : Seq(Entry)]
  BY <1>2 DEF TypeInv
<1>7. /\ broker' \in [kept : BOOLEAN, rel : SUBSET Ids, sent : Seq(Entry)]
      /\ broker'.sent = broker.sent /\ broker'.rel = broker.rel \ {id}
  BY <1>3, <1>6
<1>8. toC' \in Seq(Packets) /\ Range(toC') = Range(toC) \cup {r}
  BY <1>1, <1>3, <1>5, RangeAppend
<1>9. OneUnderWay(toB', toC') /\ OneUnderWay(toC', toB')
  BY <1>1, <1>3, <1>5, Answered
<1> HIDE DEF p, id
<1>10. TypeInv'
  BY <1>1, <1>2, <1>3, <1>7, <1>8 DEF TypeInv
<1>11. OutInv'
  <2>1. OutRecords'
    BY <1>1, <1>2 DEF OutInv, OutRecords
  <2>2. CopyInv'
    BY <1>1, <1>2, <1>3 DEF OutInv, CopyInv
  <2>3. ASSUME NEW i \in Ids, Reached(i) PROVE i # id
    <3>1. SUFFICES ASSUME i = id PROVE FALSE
      OBVIOUS
    <3>2. copies[i] # NoMsg /\ qos[copies[i]] = 2
      BY <1>2, <2>3, TypesAre, ConstantsAre DEF Reached
    <3>3. Rec(id, 2, "PubRecPending") \in Contents(ctx.out)
      BY <1>2, <3>1, <3>2, StatesAre DEF OutInv, CopyInv
    <3>4. Rec(id, 2, "PubRecPending").id = Rec(id, 2, "PubCompPending").id
      BY DEF Rec
    <3>5. Rec(id, 2, "PubRecPending") = Rec(id, 2, "PubCompPending")
      BY <1>2, <1>4, <3>3, <3>4, TypesAre, RecordsAre, ConstantsAre
    <3>6. QED
      BY <3>5 DEF Rec
  <2>4. \A i \in Ids : Reached(i)' <=> Reached(i)
    BY <1>1, <1>3 DEF Reached
  <2>5. RelInv'
    BY <1>1, <1>2, <1>6, <1>7, <2>3, <2>4 DEF OutInv, RelInv
  <2>6. OutPackets'
    <3>1. /\ \A x \in Range(toB') : x.type = "PUBLISH" => x.id \in Ids /\ x.msg # NoMsg /\ copies[x.id] = x.msg
          /\ \A x \in Range(toB') : x.type = "PUBREL" => Rec(x.id, 2, "PubCompPending") \in Contents(ctx.out)
      BY <1>1, <1>2 DEF OutInv, OutPackets
    <3>2. /\ \A x \in Range(toC') : x.type = "PUBACK" =>
                x.id \in Ids /\ copies[x.id] \in Range(got) /\ qos[copies[x.id]] = 1
          /\ \A x \in Range(toC') : x.type = "PUBREC" =>
                x.id \in Ids /\ copies[x.id] \in Range(got) /\ qos[copies[x.id]] = 2
      BY <1>2, <1>5, <1>8 DEF OutInv, OutPackets, Reached
    <3>3. \A x \in Range(toC') : x.type = "PUBCOMP" =>
             Rec(x.id, 2, "PubCompPending") \in Contents(ctx.out) /\ x.id \notin broker'.rel
      BY <1>2, <1>4, <1>5, <1>7, <1>8 DEF OutInv, OutPackets
    <3>4. QED
      BY <1>1, <1>3, <1>9, <3>1, <3>2, <3>3 DEF OutPackets, Reached
  <2>7. ResumeInv'
    BY <1>1, <1>2, <1>3, <1>5, ResumingAnswered DEF OutInv, p, id
  <2>8. QED
    BY <2>1, <2>2, <2>5, <2>6, <2>7 DEF OutInv
<1>12. InInv'
  <2>1. \A x \in Range(toC') : x.type \in FromSender => x \in Range(toC)
    BY <1>5, <1>8, TypesApart
  <2>2. again' = {}
    BY <1>2, <1>3 DEF InInv
  <2>3. QED
    BY <1>1, <1>2, <1>3, <1>7, <1>9, <2>1, <2>2, InStays
<1>13. RecordsInOrder'
  BY <1>1, <1>2 DEF OrderInv, RecordsInOrder
<1>14. used'.skipped = {} => ArrivalInv'
  <2>1. ArrivalInv => Rising(toB')
    BY <1>1, RisingTail DEF ArrivalInv
  <2>2. \A x \in Range(toB) : x.type = "PUBLISH" => x \in Range(toB')
    BY <1>1 DEF p
  <2>3. QED
    BY <1>1, <1>2, <1>3, <2>1, <2>2, ArrivalStays DEF OrderInv
<1>15. QED
  BY <1>10, <1>11, <1>12, <1>13, <1>14 DEF MqttInv, OrderInv

LEMMA EntriesAre ==
    ASSUME MqttInv
    PROVE  /\ broker.sent \in Seq(Entry) /\ Entries \subseteq Entry
           /\ \A e \in Entries : e.id \in Nat \ {0} /\ e.msg \in InMsgs /\ e = [id |-> e.id, msg |-> e.msg, rel |-> e.rel]
           /\ \A e, f \in Entries : e.id = f.id => e = f
           /\ \A i, j \in DOMAIN broker.sent : broker.sent[i].id = broker.sent[j].id => i = j
           /\ \A k \in DOMAIN broker.sent : broker.sent[k] \in Entries
<1>1. broker.sent \in Seq(Entry) /\ Entries \subseteq Entry
  BY TypesAre DEF MqttInv, TypeInv
<1>2. \A e \in Entries : e.id \in Nat \ {0} /\ e.msg \in InMsgs /\ e = [id |-> e.id, msg |-> e.msg, rel |-> e.rel]
  BY <1>1 DEF Entry
<1>3. \A i, j \in DOMAIN broker.sent : broker.sent[i].id = broker.sent[j].id => i = j
  BY DEF MqttInv, InInv, SentInv
<1>4. \A e, f \in Entries : e.id = f.id => e = f
  BY <1>3 DEF Entries, Range
<1>5. \A k \in DOMAIN broker.sent : broker.sent[k] \in Entries
  BY DEF Entries, Range
<1>6. QED
  BY <1>1, <1>2, <1>3, <1>4, <1>5

\* The records of the client and the open exchanges of the broker.
LEMMA InRecordsAre ==
    ASSUME MqttInv, NEW r \in Contents(ctx.in), NEW e \in Entries, r.id = e.id
    PROVE  InRecord(r, e)
<1>1. PICK f \in Entries : InRecord(r, f)
  BY DEF MqttInv, InInv, InRecords
<1>2. f = e
  BY <1>1, EntriesAre DEF InRecord
<1>3. QED
  BY <1>1, <1>2

\* The broker has a PUBREC: the message was delivered, and will be released.
LEMMA BrokerTakesPubrec ==
    ASSUME MqttInv, BrokerTakes, Head(toB).type = "PUBREC"
    PROVE  MqttInv'
<1> DEFINE p == Head(toB)
           id == p.id
           k == SentAt(id)
           e == broker.sent[k]
           f == [id |-> e.id, msg |-> e.msg, rel |-> TRUE]
           r == Packet("PUBREL", id, NoMsg)
<1>1. /\ UNCHANGED <<ctx, nextId, copies, phase, resume, link, qos, owed, delivered, used>>
      /\ link /\ toB # <<>> /\ toB' = Tail(toB)
      /\ toB \in Seq(Packets) /\ toC \in Seq(Packets) /\ toB' \in Seq(Packets)
      /\ p \in Packets /\ Range(toB) = Range(toB') \cup {p}
      /\ OneUnderWay(toB, toC) /\ OneUnderWay(toC, toB)
  BY BrokerTakesIs
<1>2. TypeInv /\ OutInv /\ InInv /\ OrderInv
  BY DEF MqttInv
<1>3. Rec(id, 2, "PubRelPending") \in Contents(ctx.in) /\ \E x \in Entries : x.id = id /\ ~x.rel
  BY <1>1, <1>2 DEF InInv, InPackets
<1>4. k # 0 /\ k \in DOMAIN broker.sent /\ e.id = id
  BY <1>2, <1>3, SentAtIs
<1>5. e \in Entries /\ ~e.rel /\ id \in Nat /\ e.msg \in InMsgs
  BY <1>3, <1>4, EntriesAre
<1>6. e.msg \in delivered /\ qos[e.msg] = 2
  <2>1. Rec(id, 2, "PubRelPending").id = id /\ Rec(id, 2, "PubRelPending").qos = 2
    BY DEF Rec
  <2>2. InRecord(Rec(id, 2, "PubRelPending"), e)
    BY <1>3, <1>4, <1>5, <2>1, InRecordsAre
  <2>3. QED
    BY <2>1, <2>2 DEF InRecord
<1>7. /\ toC' = Append(toC, r) /\ broker' = [broker EXCEPT !.sent[k].rel = TRUE]
      /\ acked' = acked \cup {e.msg} /\ UNCHANGED <<got, again>>
  BY <1>4 DEF BrokerTakes
<1>8. r \in Packets /\ r.type = "PUBREL" /\ r.id = id /\ r.type \in FromSender /\ p.type \in FromReceiver
  <2>1. "PUBREL" \in FromSender /\ NoMsg \in Nat /\ p.type \in FromReceiver
    BY DEF FromReceiver, NoMsg, FromSender
  <2>2. QED
    BY <1>5, <2>1, PacketIs
<1> HIDE DEF r
<1>9. broker \in [kept : BOOLEAN, rel : SUBSET Ids, sent : Seq(Entry)]
  BY <1>2 DEF TypeInv
<1>10. broker' = [broker EXCEPT !.sent = [broker.sent EXCEPT ![k].rel = TRUE]]
  BY <1>7
<1>11. /\ broker' \in [kept : BOOLEAN, rel : SUBSET Ids, sent : Seq(Entry)]
       /\ broker'.rel = broker.rel /\ Len(broker'.sent) = Len(broker.sent)
       /\ Entries' = (Entries \ {e}) \cup {f}
       /\ \A i, j \in DOMAIN broker'.sent : broker'.sent[i].id = broker'.sent[j].id => i = j
  <2> DEFINE new == Marked(broker.sent, k)
  <2>1. /\ new \in Seq(Entry) /\ Len(new) = Len(broker.sent)
        /\ Range(new) = (Range(broker.sent) \ {e}) \cup {f}
        /\ \A i, j \in DOMAIN new : new[i].id = new[j].id => i = j
    <3>1. broker.sent \in Seq(Entry) /\ \A i, j \in DOMAIN broker.sent : broker.sent[i].id = broker.sent[j].id => i = j
      BY EntriesAre
    <3>2. QED
      BY <1>4, <3>1, MarkEntry
  <2> HIDE DEF new
  <2>2. broker' = [broker EXCEPT !.sent = new]
    BY <1>10 DEF new, Marked
  <2>3. /\ broker' \in [kept : BOOLEAN, rel : SUBSET Ids, sent : Seq(Entry)]
        /\ broker'.sent = new /\ broker'.rel = broker.rel
    BY <1>9, <2>1, <2>2
  <2>4. QED
    BY <2>1, <2>3 DEF Entries
<1>12. toC' \in Seq(Packets) /\ Range(toC') = Range(toC) \cup {r}
  BY <1>1, <1>7, <1>8, RangeAppend
<1>13. OneUnderWay(toB', toC') /\ OneUnderWay(toC', toB')
  BY <1>1, <1>7, <1>8, Answered
<1>14. f.id = e.id /\ f.msg = e.msg /\ f.rel
  OBVIOUS
<1>15. Quiet(toC, toB', id)
  BY <1>1, <1>8, TakeBack
<1> HIDE DEF p, id, k, e, f
<1>16. TypeInv'
  BY <1>1, <1>2, <1>5, <1>7, <1>11, <1>12 DEF TypeInv
<1>17. OutInv'
  <2>1. \A x \in Range(toC') : x.type \in FromReceiver => x \in Range(toC)
    BY <1>8, <1>12, TypesApart
  <2>2. ResumeInv'
    BY <1>1, <1>2, <2>1, ResumingStays DEF OutInv
  <2>3. used.out \in Nat
    BY <1>2, TypesAre
  <2>4. QED
    BY <1>1, <1>2, <1>7, <1>11, <1>13, <2>1, <2>2, <2>3, OutStays
<1>18. InInv'
  <2>1. \A x \in Entries : x.id = id => x = e
    BY <1>4, <1>5, EntriesAre
  <2>2. \A x \in Entries : x.id # id => x \in Entries'
    BY <1>4, <1>11
  <2>3. SentInv'
    <3>1. \A x \in Entries' : /\ x.msg <= MaxOut + used.in /\ qos[x.msg] \in {1, 2}
                              /\ x.rel => qos[x.msg] = 2 /\ x.msg \in delivered
      BY <1>2, <1>5, <1>6, <1>11, <1>14 DEF InInv, SentInv
    <3>2. \A x, y \in Entries' : x.msg = y.msg => x = y
      BY <1>2, <1>5, <1>11, <1>14 DEF InInv, SentInv
    <3>3. QED
      BY <1>1, <1>2, <1>11, <3>1, <3>2 DEF InInv, SentInv
  <2>4. InRecords'
    <3>1. ASSUME NEW x \in Contents(ctx.in) PROVE \E y \in Entries' : InRecord(x, y)
      <4>1. PICK y \in Entries : InRecord(x, y)
        BY <1>2 DEF InInv, InRecords
      <4>2. CASE y.id # id
        BY <2>2, <4>1, <4>2
      <4>3. CASE y.id = id
        <5>1. y = e /\ x.id = id
          BY <2>1, <4>1, <4>3 DEF InRecord
        <5>2. Rec(id, 2, "PubRelPending").id = id
          BY DEF Rec
        <5>3. x = Rec(id, 2, "PubRelPending")
          BY <1>2, <1>3, <5>1, <5>2, TypesAre, RecordsAre, ConstantsAre
        <5>4. x.state = "PubRelPending" /\ x.qos = 2
          BY <5>3 DEF Rec
        <5>5. InRecord(x, f)
          BY <1>4, <1>14, <4>1, <5>1, <5>4 DEF InRecord
        <5>6. QED
          BY <1>11, <5>5
      <4>4. QED
        BY <4>2, <4>3
    <3>2. \A y \in Entries' : y.msg \in delivered /\ qos[y.msg] = 2 /\ ~y.rel => ~NoRecord(y.id)
      BY <1>2, <1>11, <1>14 DEF InInv, InRecords
    <3>3. QED
      BY <1>1, <3>1, <3>2 DEF InRecords, InRecord, NoRecord
  <2>5. InPackets'
    <3>1. ASSUME NEW x \in Range(toC'), x.type = "PUBLISH"
          PROVE  [id |-> x.id, msg |-> x.msg, rel |-> FALSE] \in Entries'
      <4>1. x \in Range(toC) /\ x.type \in FromSender
        BY <1>8, <1>12, <3>1 DEF FromSender
      <4>2. x.id # id
        BY <1>15, <4>1 DEF Quiet
      <4>3. [id |-> x.id, msg |-> x.msg, rel |-> FALSE] \in Entries
        BY <1>2, <3>1, <4>1 DEF InInv, InPackets
      <4>4. [id |-> x.id, msg |-> x.msg, rel |-> FALSE].id = x.id
        OBVIOUS
      <4>5. QED
        BY <2>2, <4>2, <4>3, <4>4
    <3>2. ASSUME NEW x \in Range(toC'), x.type = "PUBREL"
          PROVE  \E y \in Entries' : y.id = x.id /\ y.rel
      <4>1. CASE x = r
        BY <1>4, <1>8, <1>11, <1>14, <4>1
      <4>2. CASE x # r
        <5>1. PICK y \in Entries : y.id = x.id /\ y.rel
          BY <1>2, <1>12, <3>2, <4>2 DEF InInv, InPackets
        <5>2. y \in Entries'
          BY <1>5, <1>11, <5>1
        <5>3. QED
          BY <5>1, <5>2
      <4>3. QED
        BY <4>1, <4>2
    <3>3. ASSUME NEW x \in Range(toB'), x.type \in FromReceiver PROVE x \in Range(toB) /\ x.id # id
      BY <1>1, <1>15, <3>3 DEF Quiet
    <3>4. ASSUME NEW x \in Range(toB'), x.type = "PUBACK"
          PROVE  /\ NoRecord(x.id)
                 /\ \E y \in Entries' : y.id = x.id /\ ~y.rel /\ qos[y.msg] = 1 /\ y.msg \in delivered
      BY <1>2, <2>2, <3>3, <3>4 DEF InInv, InPackets, FromReceiver
    <3>5. ASSUME NEW x \in Range(toB'), x.type = "PUBREC"
          PROVE  Rec(x.id, 2, "PubRelPending") \in Contents(ctx.in) /\ \E y \in Entries' : y.id = x.id /\ ~y.rel
      BY <1>2, <2>2, <3>3, <3>5 DEF InInv, InPackets, FromReceiver
    <3>6. ASSUME NEW x \in Range(toB'), x.type = "PUBCOMP"
          PROVE  NoRecord(x.id) /\ \E y \in Entries' : y.id = x.id /\ y.rel
      BY <1>2, <2>2, <3>3, <3>6 DEF InInv, InPackets, FromReceiver
    <3>7. QED
      BY <1>1, <1>13, <3>1, <3>2, <3>4, <3>5, <3>6 DEF InPackets, NoRecord
  <2>6. acked' \subseteq delivered' /\ again' = {}
    BY <1>1, <1>2, <1>6, <1>7 DEF InInv
  <2>7. QED
    BY <2>3, <2>4, <2>5, <2>6 DEF InInv
<1>19. RecordsInOrder'
  BY <1>1, <1>2 DEF OrderInv, RecordsInOrder
<1>20. used'.skipped = {} => ArrivalInv'
  <2>1. ArrivalInv => Rising(toB')
    BY <1>1, RisingTail DEF ArrivalInv
  <2>2. \A x \in Range(toB) : x.type = "PUBLISH" => x \in Range(toB')
    BY <1>1 DEF p
  <2>3. QED
    BY <1>1, <1>2, <1>7, <2>1, <2>2, ArrivalStays DEF OrderInv
<1>21. QED
  BY <1>16, <1>17, <1>18, <1>19, <1>20 DEF MqttInv, OrderInv

\* PUBACK or PUBCOMP ends an exchange of the broker's.
LEMMA BrokerTakesDone ==
    ASSUME MqttInv, BrokerTakes, Head(toB).type \in {"PUBACK", "PUBCOMP"}
    PROVE  MqttInv'
<1> DEFINE p == Head(toB)
           id == p.id
           k == SentAt(id)
           e == broker.sent[k]
<1>1. /\ UNCHANGED <<ctx, nextId, copies, phase, resume, link, qos, owed, delivered, used>>
      /\ link /\ toB # <<>> /\ toB' = Tail(toB)
      /\ toB \in Seq(Packets) /\ toC \in Seq(Packets) /\ toB' \in Seq(Packets)
      /\ p \in Packets /\ Range(toB) = Range(toB') \cup {p}
      /\ OneUnderWay(toB, toC) /\ OneUnderWay(toC, toB)
  BY BrokerTakesIs
<1>2. TypeInv /\ OutInv /\ InInv /\ OrderInv
  BY DEF MqttInv
<1>3. NoRecord(id) /\ \E x \in Entries : x.id = id /\ x.msg \in delivered
  BY <1>1, <1>2 DEF InInv, InPackets, SentInv
<1>4. k # 0 /\ k \in DOMAIN broker.sent /\ e.id = id
  BY <1>2, <1>3, SentAtIs
<1>5. e \in Entries /\ e.msg \in InMsgs /\ e.msg \in delivered
  BY <1>3, <1>4, EntriesAre
<1>6. /\ toC' = toC /\ broker' = [broker EXCEPT !.sent = RemoveAt(@, k)]
      /\ acked' = acked \cup {e.msg} /\ UNCHANGED <<got, again>>
  BY <1>4 DEF BrokerTakes
<1>7. broker \in [kept : BOOLEAN, rel : SUBSET Ids, sent : Seq(Entry)]
  BY <1>2 DEF TypeInv
<1>8. /\ broker' \in [kept : BOOLEAN, rel : SUBSET Ids, sent : Seq(Entry)]
      /\ broker'.rel = broker.rel /\ Len(broker'.sent) = Len(broker.sent) - 1
      /\ Entries' = Entries \ {e}
      /\ \A i, j \in DOMAIN broker'.sent : broker'.sent[i].id = broker'.sent[j].id => i = j
  <2> DEFINE new == RemoveAt(broker.sent, k)
  <2>1. /\ new \in Seq(Entry) /\ Len(new) = Len(broker.sent) - 1
        /\ Range(new) = Range(broker.sent) \ {e}
        /\ \A i, j \in DOMAIN new : new[i].id = new[j].id => i = j
    BY <1>4, EntriesAre, RemoveEntry
  <2> HIDE DEF new
  <2>2. broker' = [broker EXCEPT !.sent = new]
    BY <1>6 DEF new
  <2>3. /\ broker' \in [kept : BOOLEAN, rel : SUBSET Ids, sent : Seq(Entry)]
        /\ broker'.sent = new /\ broker'.rel = broker.rel
    BY <1>7, <2>1, <2>2
  <2>4. QED
    BY <2>1, <2>3 DEF Entries
<1>9. OneUnderWay(toB', toC') /\ OneUnderWay(toC', toB')
  BY <1>1, <1>6, Taken
<1>10. Quiet(toC, toB', id)
  BY <1>1, TakeBack DEF FromReceiver
<1> HIDE DEF p, id, k, e
<1>11. TypeInv'
  BY <1>1, <1>2, <1>5, <1>6, <1>8 DEF TypeInv
<1>12. OutInv'
  <2>1. ResumeInv'
    BY <1>1, <1>2, <1>6, ResumingStays DEF OutInv
  <2>2. used.out \in Nat
    BY <1>2, TypesAre
  <2>3. QED
    BY <1>1, <1>2, <1>6, <1>8, <1>9, <2>1, <2>2, OutStays
<1>13. InInv'
  <2>1. \A x \in Entries : x.id # id => x \in Entries'
    BY <1>4, <1>8
  <2>2. SentInv'
    <3>1. Len(broker.sent) \in Nat /\ used.in \in Nat /\ Len(broker.sent) <= used.in
      BY <1>2, TypesAre, EntriesAre DEF InInv, SentInv
    <3>2. Len(broker'.sent) <= used.in
      BY <1>8, <3>1
    <3>3. QED
      BY <1>1, <1>2, <1>8, <3>2 DEF InInv, SentInv
  <2>3. InRecords'
    <3>1. ASSUME NEW x \in Contents(ctx.in) PROVE \E y \in Entries' : InRecord(x, y)
      <4>1. PICK y \in Entries : InRecord(x, y)
        BY <1>2 DEF InInv, InRecords
      <4>2. y.id # id
        BY <1>3, <4>1 DEF NoRecord, InRecord
      <4>3. QED
        BY <2>1, <4>1, <4>2
    <3>2. \A y \in Entries' : y.msg \in delivered /\ qos[y.msg] = 2 /\ ~y.rel => ~NoRecord(y.id)
      BY <1>2, <1>8 DEF InInv, InRecords
    <3>3. QED
      BY <1>1, <3>1, <3>2 DEF InRecords, InRecord, NoRecord
  <2>4. InPackets'
    <3>1. ASSUME NEW x \in Range(toC), x.type \in FromSender PROVE x.id # id
      BY <1>10, <3>1 DEF Quiet
    <3>2. ASSUME NEW x \in Range(toC), x.type = "PUBLISH"
          PROVE  [id |-> x.id, msg |-> x.msg, rel |-> FALSE] \in Entries'
      <4>1. [id |-> x.id, msg |-> x.msg, rel |-> FALSE] \in Entries
        BY <1>2, <3>2 DEF InInv, InPackets
      <4>2. [id |-> x.id, msg |-> x.msg, rel |-> FALSE].id = x.id /\ x.id # id
        BY <3>1, <3>2 DEF FromSender
      <4>3. QED
        BY <2>1, <4>1, <4>2
    <3>3. ASSUME NEW x \in Range(toC), x.type = "PUBREL"
          PROVE  \E y \in Entries' : y.id = x.id /\ y.rel
      BY <1>2, <2>1, <3>1, <3>3 DEF InInv, InPackets, FromSender
    <3>4. ASSUME NEW x \in Range(toB'), x.type \in FromReceiver PROVE x \in Range(toB) /\ x.id # id
      BY <1>1, <1>10, <3>4 DEF Quiet
    <3>5. ASSUME NEW x \in Range(toB'), x.type = "PUBACK"
          PROVE  /\ NoRecord(x.id)
                 /\ \E y \in Entries' : y.id = x.id /\ ~y.rel /\ qos[y.msg] = 1 /\ y.msg \in delivered
      BY <1>2, <2>1, <3>4, <3>5 DEF InInv, InPackets, FromReceiver
    <3>6. ASSUME NEW x \in Range(toB'), x.type = "PUBREC"
          PROVE  Rec(x.id, 2, "PubRelPending") \in Contents(ctx.in) /\ \E y \in Entries' : y.id = x.id /\ ~y.rel
      BY <1>2, <2>1, <3>4, <3>6 DEF InInv, InPackets, FromReceiver
    <3>7. ASSUME NEW x \in Range(toB'), x.type = "PUBCOMP"
          PROVE  NoRecord(x.id) /\ \E y \in Entries' : y.id = x.id /\ y.rel
      BY <1>2, <2>1, <3>4, <3>7 DEF InInv, InPackets, FromReceiver
    <3>8. QED
      BY <1>1, <1>6, <1>9, <3>2, <3>3, <3>5, <3>6, <3>7 DEF InPackets, NoRecord
  <2>5. acked' \subseteq delivered' /\ again' = {}
    BY <1>1, <1>2, <1>5, <1>6 DEF InInv
  <2>6. QED
    BY <2>2, <2>3, <2>4, <2>5 DEF InInv
<1>14. RecordsInOrder'
  BY <1>1, <1>2 DEF OrderInv, RecordsInOrder
<1>15. used'.skipped = {} => ArrivalInv'
  <2>1. ArrivalInv => Rising(toB')
    BY <1>1, RisingTail DEF ArrivalInv
  <2>2. \A x \in Range(toB) : x.type = "PUBLISH" => x \in Range(toB')
    BY <1>1 DEF p
  <2>3. QED
    BY <1>1, <1>2, <1>6, <2>1, <2>2, ArrivalStays DEF OrderInv
<1>16. QED
  BY <1>11, <1>12, <1>13, <1>14, <1>15 DEF MqttInv, OrderInv

LEMMA BrokerTakesKeeps ==
    ASSUME MqttInv, BrokerTakes
    PROVE  MqttInv'
<1>1. Head(toB).type \in FromSender \cup FromReceiver
  BY BrokerTakesIs DEF Packets
<1>2. QED
  BY <1>1, BrokerTakesPublish, BrokerTakesPubrel, BrokerTakesPubrec, BrokerTakesDone DEF FromSender, FromReceiver

\* The broker has a packet id for every message it may publish.
LEMMA FreeIdExists ==
    ASSUME MqttInv, used.in < MaxIn
    PROVE  \E i \in 1..MaxIn : SentAt(i) = 0
<1>1. SUFFICES ASSUME \A i \in 1..MaxIn : SentAt(i) # 0 PROVE FALSE
  OBVIOUS
<1> DEFINE L == Len(broker.sent)
           f == [i \in 1..MaxIn |-> SentAt(i)]
<1>2. broker.sent \in Seq(Entry) /\ TypeInv
  BY EntriesAre DEF MqttInv
<1>3. L \in Nat /\ DOMAIN broker.sent = 1..L /\ MaxIn \in Nat /\ used.in \in Nat /\ L <= used.in
  BY <1>2, TypesAre, ConstantsAre DEF MqttInv, InInv, SentInv
<1>4. \A i \in 1..MaxIn : SentAt(i) \in 1..L /\ broker.sent[SentAt(i)].id = i
  BY <1>1, <1>2, <1>3, SentAtIs
<1>5. f \in Injection(1..MaxIn, 1..L)
  BY <1>4 DEF Injection, IsInjective
<1>6. IsFiniteSet(1..L) /\ Cardinality(1..L) = L /\ Cardinality(1..MaxIn) = MaxIn
  <2>1. 1 \in Int /\ L \in Int /\ MaxIn \in Int
    BY <1>3
  <2>2. /\ IsFiniteSet(1..L)
        /\ Cardinality(1..L) = IF 1 > L THEN 0 ELSE L - 1 + 1
        /\ Cardinality(1..MaxIn) = IF 1 > MaxIn THEN 0 ELSE MaxIn - 1 + 1
    BY <2>1, FS_Interval
  <2>3. QED
    BY <1>3, <2>2
<1> HIDE DEF L, f
<1>7. Cardinality(1..MaxIn) <= Cardinality(1..L)
  BY <1>5, <1>6, FS_Injection
<1>8. QED
  BY <1>3, <1>6, <1>7

LEMMA BrokerPublishesKeeps ==
    ASSUME MqttInv, NEW q \in {1, 2}, BrokerPublishes(q)
    PROVE  MqttInv'
<1> DEFINE m == MaxOut + used.in + 1
           id == Min({i \in 1..MaxIn : SentAt(i) = 0})
           e == [id |-> id, msg |-> m, rel |-> FALSE]
           r == Packet("PUBLISH", id, m)
<1>1. /\ UNCHANGED <<ctx, nextId, copies, phase, resume, link, toB, owed, got, delivered, again, acked>>
      /\ link /\ used.in < MaxIn
      /\ broker' = [broker EXCEPT !.sent = Append(@, e)]
      /\ toC' = Append(toC, r) /\ qos' = [qos EXCEPT ![m] = q] /\ used' = [used EXCEPT !.in = @ + 1]
  BY DEF BrokerPublishes, client, history
<1>2. TypeInv /\ OutInv /\ InInv /\ OrderInv
  BY DEF MqttInv
<1>3. id \in 1..MaxIn /\ SentAt(id) = 0
  <2>1. MaxIn \in Nat
    BY ConstantsAre
  <2>2. {i \in 1..MaxIn : SentAt(i) = 0} \in SUBSET Nat
    BY <2>1
  <2>3. {i \in 1..MaxIn : SentAt(i) = 0} # {}
    BY <1>1, FreeIdExists
  <2>4. QED
    BY <2>2, <2>3, MinIs
<1> HIDE DEF id
<1>4. id \in Nat \ {0} /\ \A x \in Entries : x.id # id
  BY <1>2, <1>3, SentAtIs, ConstantsAre
<1>5. used.in \in Nat /\ used.out \in Nat /\ MaxOut \in Nat /\ MaxIn \in Nat
  BY <1>2, TypesAre, ConstantsAre
<1>6. m \in InMsgs /\ m \in Nat /\ m \notin OutMsgs
  BY <1>1, <1>5 DEF InMsgs, OutMsgs
<1>7. e \in Entry /\ e.id = id /\ e.msg = m /\ ~e.rel
  BY <1>4, <1>6 DEF Entry
<1>8. r \in Packets /\ r.type = "PUBLISH" /\ r.id = id /\ r.msg = m /\ r.type \in FromSender /\ r.type \notin FromReceiver
  <2>1. "PUBLISH" \in FromSender /\ "PUBLISH" \notin FromReceiver
    BY DEF FromSender, FromReceiver
  <2>2. QED
    BY <1>4, <1>6, <2>1, PacketIs
<1> HIDE DEF e, r
<1>9. toB \in Seq(Packets) /\ toC \in Seq(Packets) /\ OneUnderWay(toB, toC) /\ OneUnderWay(toC, toB)
  BY <1>2, TypesAre DEF OutInv, OutPackets, InInv, InPackets
<1>10. toC' \in Seq(Packets) /\ Range(toC') = Range(toC) \cup {r}
  BY <1>1, <1>8, <1>9, RangeAppend
<1>11. /\ broker' \in [kept : BOOLEAN, rel : SUBSET Ids, sent : Seq(Entry)]
       /\ broker'.rel = broker.rel /\ broker'.sent = Append(broker.sent, e)
  <2>1. broker \in [kept : BOOLEAN, rel : SUBSET Ids, sent : Seq(Entry)]
    BY <1>2 DEF TypeInv
  <2> DEFINE new == Append(broker.sent, e)
  <2>2. new \in Seq(Entry)
    BY <1>7, <2>1, RangeAppend
  <2> HIDE DEF new
  <2>3. broker' = [broker EXCEPT !.sent = new]
    BY <1>1 DEF new
  <2>4. /\ broker' \in [kept : BOOLEAN, rel : SUBSET Ids, sent : Seq(Entry)]
        /\ broker'.rel = broker.rel /\ broker'.sent = new
    BY <2>1, <2>2, <2>3
  <2>5. QED
    BY <2>4 DEF new
<1>12. Entries' = Entries \cup {e}
  BY <1>7, <1>11, EntriesAre, RangeAppend DEF Entries
<1>13. /\ Len(broker'.sent) = Len(broker.sent) + 1
       /\ \A i, j \in DOMAIN broker'.sent : broker'.sent[i].id = broker'.sent[j].id => i = j
  <2>1. broker.sent \in Seq(Entry)
    BY EntriesAre
  <2>2. /\ Len(broker.sent) \in Nat /\ DOMAIN broker.sent = 1..Len(broker.sent)
        /\ Len(broker'.sent) = Len(broker.sent) + 1 /\ DOMAIN broker'.sent = 1..Len(broker.sent) + 1
        /\ broker'.sent[Len(broker.sent) + 1] = e
        /\ \A i \in 1..Len(broker.sent) : broker'.sent[i] = broker.sent[i]
    BY <1>7, <1>11, <2>1
  <2>3. \A i \in 1..Len(broker.sent) : broker.sent[i].id # id
    BY <1>4, <2>2, EntriesAre
  <2>4. \A i \in DOMAIN broker'.sent : i \in 1..Len(broker.sent) \/ i = Len(broker.sent) + 1
    BY <2>2
  <2>5. ASSUME NEW i \in DOMAIN broker'.sent, NEW j \in DOMAIN broker'.sent, broker'.sent[i].id = broker'.sent[j].id
        PROVE  i = j
    <3>1. CASE i \in 1..Len(broker.sent) /\ j \in 1..Len(broker.sent)
      BY <2>2, <2>5, <3>1, EntriesAre
    <3>2. CASE i \notin 1..Len(broker.sent) \/ j \notin 1..Len(broker.sent)
      BY <1>7, <2>2, <2>3, <2>4, <2>5, <3>2
    <3>3. QED
      BY <3>1, <3>2
  <2>6. QED
    BY <2>2, <2>5
<1>14. /\ qos' \in [OutMsgs \cup InMsgs -> 0..2] /\ qos'[m] = q
       /\ \A x \in OutMsgs \cup InMsgs : x # m => qos'[x] = qos[x]
  <2>1. qos \in [OutMsgs \cup InMsgs -> 0..2]
    BY <1>2 DEF TypeInv
  <2>2. QED
    BY <1>1, <1>6, <2>1
<1>15. used' \in Usage /\ used'.out = used.out /\ used'.in = used.in + 1 /\ used'.skipped = used.skipped
  <2>1. used \in Usage /\ used' = [used EXCEPT !.in = used.in + 1]
    BY <1>1, <1>2 DEF TypeInv
  <2>2. used.in + 1 \in 0..MaxIn
    BY <1>1, <1>5
  <2>3. QED
    BY <2>1, <2>2 DEF Usage
<1>16. \A x \in OutMsgs : x # m /\ qos'[x] = qos[x]
  BY <1>6, <1>14
<1>17. \A x \in Entries : x.msg # m /\ x.msg \in InMsgs /\ qos'[x.msg] = qos[x.msg]
  <2> SUFFICES ASSUME NEW x \in Entries PROVE x.msg # m /\ x.msg \in InMsgs /\ qos'[x.msg] = qos[x.msg]
    OBVIOUS
  <2>1. x.msg \in InMsgs /\ x.msg \in Nat /\ x.msg <= MaxOut + used.in
    BY <1>2, EntriesAre, ConstantsAre DEF InInv, SentInv
  <2>2. x.msg # m
    BY <1>5, <2>1
  <2>3. QED
    BY <1>14, <2>1, <2>2
<1> HIDE DEF m
<1>18. Quiet(toC, toB, id)
  <2>1. \A x \in Range(toC) : x.type = "PUBLISH" => x.id # id
    <3>1. ASSUME NEW x \in Range(toC), x.type = "PUBLISH" PROVE x.id # id
      <4>1. [id |-> x.id, msg |-> x.msg, rel |-> FALSE] \in Entries
        BY <1>2, <3>1 DEF InInv, InPackets
      <4>2. [id |-> x.id, msg |-> x.msg, rel |-> FALSE].id = x.id
        OBVIOUS
      <4>3. QED
        BY <1>4, <4>1, <4>2
    <3>2. QED
      BY <3>1
  <2>2. \A x \in Range(toC) : x.type = "PUBREL" => x.id # id
    BY <1>2, <1>4 DEF InInv, InPackets
  <2>3. \A x \in Range(toB) : x.type \in FromReceiver => x.id # id
    BY <1>2, <1>4 DEF InInv, InPackets, FromReceiver
  <2>4. QED
    BY <2>1, <2>2, <2>3 DEF Quiet, FromSender
<1>19. OneUnderWay(toB', toC') /\ OneUnderWay(toC', toB')
  BY <1>1, <1>8, <1>9, <1>18, PutThere, PutBack
<1>20. TypeInv'
  BY <1>1, <1>2, <1>10, <1>11, <1>14, <1>15, <1>16 DEF TypeInv
<1>21. OutInv'
  <2>1. \A x \in Range(toC') : x.type \in FromReceiver => x \in Range(toC)
    BY <1>8, <1>10
  <2>2. ResumeInv'
    BY <1>1, <1>2, <2>1, ResumingStays DEF OutInv
  <2>3. QED
    BY <1>1, <1>2, <1>5, <1>11, <1>15, <1>16, <1>19, <2>1, <2>2, OutStays
<1>22. InInv'
  <2>1. SentInv'
    <3>1. Len(broker'.sent) <= used'.in
      <4>1. Len(broker.sent) \in Nat /\ Len(broker.sent) <= used.in
        BY <1>2, EntriesAre DEF InInv, SentInv
      <4>2. QED
        BY <1>5, <1>13, <1>15, <4>1
    <3>2. ASSUME NEW x \in Entries PROVE x.msg <= MaxOut + used'.in
      <4>1. x.msg \in Nat /\ x.msg <= MaxOut + used.in
        BY <1>2, <1>17, ConstantsAre DEF InInv, SentInv
      <4>2. QED
        BY <1>5, <1>15, <4>1
    <3>3. ASSUME NEW x \in delivered PROVE x <= MaxOut + used'.in
      <4>1. x \in Nat /\ x <= MaxOut + used.in
        BY <1>2, ConstantsAre DEF InInv, SentInv, TypeInv
      <4>2. QED
        BY <1>5, <1>15, <4>1
    <3>4. e.msg <= MaxOut + used'.in
      BY <1>5, <1>7, <1>15 DEF m
    <3>5. \A x \in Entries : qos'[x.msg] \in {1, 2} /\ (x.rel => qos'[x.msg] = 2 /\ x.msg \in delivered)
      BY <1>2, <1>17 DEF InInv, SentInv
    <3>6. \A x \in Entries' : /\ x.msg <= MaxOut + used'.in /\ qos'[x.msg] \in {1, 2}
                              /\ x.rel => qos'[x.msg] = 2 /\ x.msg \in delivered
      BY <1>7, <1>12, <1>14, <3>2, <3>4, <3>5
    <3>7. \A x, y \in Entries' : x.msg = y.msg => x = y
      BY <1>2, <1>7, <1>12, <1>17 DEF InInv, SentInv
    <3>8. QED
      BY <1>1, <1>13, <3>1, <3>3, <3>6, <3>7 DEF SentInv
  <2>2. InRecords'
    <3>1. ASSUME NEW x \in Contents(ctx.in) PROVE \E y \in Entries' : InRecord(x, y)'
      <4>1. PICK y \in Entries : InRecord(x, y)
        BY <1>2 DEF InInv, InRecords
      <4>2. InRecord(x, y)'
        BY <1>1, <1>17, <4>1 DEF InRecord
      <4>3. QED
        BY <1>12, <4>2
    <3>2. m \notin delivered
      <4>1. \A x \in delivered : x \in Nat /\ x <= MaxOut + used.in
        BY <1>2, ConstantsAre DEF InInv, SentInv, TypeInv
      <4>2. QED
        BY <1>5, <4>1 DEF m
    <3>3. \A y \in Entries' : y.msg \in delivered /\ qos'[y.msg] = 2 /\ ~y.rel => ~NoRecord(y.id)
      BY <1>2, <1>7, <1>12, <1>17, <3>2 DEF InInv, InRecords
    <3>4. QED
      BY <1>1, <3>1, <3>3 DEF InRecords, NoRecord
  <2>3. InPackets'
    <3>1. ASSUME NEW x \in Range(toC'), x.type = "PUBLISH"
          PROVE  [id |-> x.id, msg |-> x.msg, rel |-> FALSE] \in Entries'
      <4>1. CASE x = r
        BY <1>8, <1>12, <4>1 DEF e
      <4>2. CASE x # r
        BY <1>2, <1>10, <1>12, <3>1, <4>2 DEF InInv, InPackets
      <4>3. QED
        BY <4>1, <4>2
    <3>2. \A x \in Range(toC') : x.type = "PUBREL" => \E y \in Entries' : y.id = x.id /\ y.rel
      BY <1>2, <1>8, <1>10, <1>12 DEF InInv, InPackets
    <3>3. \A x \in Range(toB) : x.type = "PUBACK" =>
             /\ NoRecord(x.id)
             /\ \E y \in Entries' : y.id = x.id /\ ~y.rel /\ qos'[y.msg] = 1 /\ y.msg \in delivered
      BY <1>2, <1>12, <1>17 DEF InInv, InPackets
    <3>4. \A x \in Range(toB) : x.type = "PUBREC" =>
             Rec(x.id, 2, "PubRelPending") \in Contents(ctx.in) /\ \E y \in Entries' : y.id = x.id /\ ~y.rel
      BY <1>2, <1>12 DEF InInv, InPackets
    <3>5. \A x \in Range(toB) : x.type = "PUBCOMP" => NoRecord(x.id) /\ \E y \in Entries' : y.id = x.id /\ y.rel
      BY <1>2, <1>12 DEF InInv, InPackets
    <3>6. QED
      BY <1>1, <1>19, <3>1, <3>2, <3>3, <3>4, <3>5 DEF InPackets, NoRecord
  <2>4. acked' \subseteq delivered' /\ again' = {}
    BY <1>1, <1>2 DEF InInv
  <2>5. QED
    BY <2>1, <2>2, <2>3, <2>4 DEF InInv
<1>23. RecordsInOrder'
  BY <1>1, <1>2 DEF OrderInv, RecordsInOrder
<1>24. used'.skipped = {} => ArrivalInv'
  <2>1. ArrivalInv => Rising(toB')
    BY <1>1 DEF ArrivalInv
  <2>2. QED
    BY <1>1, <1>2, <1>15, <2>1, ArrivalStays DEF OrderInv
<1>25. QED
  BY <1>20, <1>21, <1>22, <1>23, <1>24 DEF MqttInv, OrderInv
-----------------------------------------------------------------------------
(* Connecting *)

\* What the broker sends again is what its open exchanges ask for.
LEMMA RedeliveryIs ==
    ASSUME MqttInv
    PROVE  /\ Redelivery \in Seq(Packets) /\ Single(Redelivery, FromSender)
           /\ \A x \in Range(Redelivery) : \E e \in Entries :
                 /\ x.id = e.id /\ x.type = IF e.rel THEN "PUBREL" ELSE "PUBLISH"
                 /\ ~e.rel => x.msg = e.msg
<1> DEFINE L == Len(broker.sent)
           s == broker.sent
<1>1. s \in Seq(Entry) /\ \A i, j \in DOMAIN s : s[i].id = s[j].id => i = j
  BY EntriesAre
<1>2. L \in Nat /\ DOMAIN s = 1..L
  BY <1>1
<1>3. \A i \in 1..L : s[i] \in Entries /\ s[i].id \in Nat /\ s[i].msg \in Nat
  BY <1>2, EntriesAre, ConstantsAre
<1>4. \A i \in 1..L : Redelivery[i] = IF s[i].rel THEN Packet("PUBREL", s[i].id, NoMsg) ELSE Packet("PUBLISH", s[i].id, s[i].msg)
  BY <1>2 DEF Redelivery
<1>5. DOMAIN Redelivery = 1..L
  BY <1>2 DEF Redelivery
<1>6. ASSUME NEW i \in 1..L
      PROVE  /\ Redelivery[i] \in Packets /\ Redelivery[i].id = s[i].id
             /\ Redelivery[i].type = IF s[i].rel THEN "PUBREL" ELSE "PUBLISH"
             /\ ~s[i].rel => Redelivery[i].msg = s[i].msg
  <2>1. /\ NoMsg \in Nat
        /\ "PUBREL" \in FromSender \cup FromReceiver /\ "PUBLISH" \in FromSender \cup FromReceiver
    BY DEF NoMsg, FromSender
  <2>2. s[i].id \in Nat /\ s[i].msg \in Nat
    BY <1>3
  <2>3. CASE s[i].rel
    <3>1. Redelivery[i] = Packet("PUBREL", s[i].id, NoMsg)
      BY <1>4, <2>3
    <3>2. QED
      BY <2>1, <2>2, <2>3, <3>1, PacketIs
  <2>4. CASE ~s[i].rel
    <3>1. Redelivery[i] = Packet("PUBLISH", s[i].id, s[i].msg)
      BY <1>4, <2>4
    <3>2. QED
      BY <2>1, <2>2, <2>4, <3>1, PacketIs
  <2>5. QED
    BY <2>3, <2>4
<1>7. Redelivery \in Seq(Packets)
  <2>1. Redelivery = [i \in 1..L |-> Redelivery[i]]
    BY <1>2 DEF Redelivery
  <2>2. QED
    BY <1>2, <1>6, <2>1
<1> HIDE DEF s, L
<1>8. Single(Redelivery, FromSender)
  BY <1>1, <1>2, <1>5, <1>6 DEF Single
<1>9. ASSUME NEW x \in Range(Redelivery)
      PROVE  \E e \in Entries : /\ x.id = e.id /\ x.type = IF e.rel THEN "PUBREL" ELSE "PUBLISH"
                                /\ ~e.rel => x.msg = e.msg
  <2>1. PICK i \in 1..L : x = Redelivery[i]
    BY <1>5, <1>9 DEF Range
  <2>2. QED
    BY <1>3, <1>6, <2>1
<1>10. QED
  BY <1>7, <1>8, <1>9

\* The session goes on with nothing under way but what the broker sends again.
LEMMA ConnectKept ==
    ASSUME MqttInv, phase = "down", link' = TRUE, toB' = <<>>, resume' = FromTheStart,
           SessionKept, UNCHANGED <<qos, got, delivered, again, acked, used>>
    PROVE  MqttInv'
<1>1. /\ UNCHANGED <<ctx, nextId, copies, broker, owed>>
      /\ phase' = "pubrel" /\ toC' = Redelivery
  BY DEF SessionKept
<1>2. TypeInv /\ OutInv /\ InInv /\ OrderInv
  BY DEF MqttInv
<1>3. toC' \in Seq(Packets) /\ Single(toC', FromSender)
  BY <1>1, RedeliveryIs
<1>4. \A x \in Range(toC') : \E e \in Entries :
         /\ x.id = e.id /\ x.type = IF e.rel THEN "PUBREL" ELSE "PUBLISH"
         /\ ~e.rel => x.msg = e.msg
  BY <1>1, RedeliveryIs
<1>5. \A x \in Range(toC') : x.type \in FromSender /\ x.type \notin FromReceiver
  BY <1>4 DEF FromSender, FromReceiver
<1>6. Range(toB') = {}
  BY RangeEmpty
<1>7. OneUnderWay(toB', toC')
  <2>1. Single(toB', FromSender)
    BY SingleEmpty
  <2>2. Single(toC', FromReceiver)
    BY <1>5 DEF Single, Range
  <2>3. QED
    BY <1>6, <2>1, <2>2 DEF OneUnderWay
<1>8. OneUnderWay(toC', toB')
  <2>1. Single(toB', FromReceiver)
    BY SingleEmpty
  <2>2. QED
    BY <1>3, <1>6, <2>1 DEF OneUnderWay
<1>9. TypeInv'
  <2>1. phase' \in Phases
    BY <1>1 DEF Phases
  <2>2. resume' \in [cursor : 1..OUTGOING_COUNT + 1, ok : BOOLEAN]
    BY ConstantsAre DEF FromTheStart
  <2>3. toB' \in Seq(Packets)
    OBVIOUS
  <2>4. link' \in BOOLEAN
    OBVIOUS
  <2>5. ~link' => toB' = <<>>
    OBVIOUS
  <2>6. QED
    BY <1>1, <1>2, <1>3, <2>1, <2>2, <2>3, <2>4, <2>5 DEF TypeInv
<1>10. OutInv'
  <2>1. \A id : Quiet(toB', toC', id)
    BY <1>5, <1>6 DEF Quiet
  <2>2. ResumeInv'
    BY <2>1 DEF ResumeInv
  <2>3. used.out \in Nat
    BY <1>2, TypesAre
  <2>4. QED
    BY <1>1, <1>2, <1>5, <1>6, <1>7, <2>2, <2>3, OutStays
<1>11. InInv'
  <2>1. SentInv'
    BY <1>1, <1>2 DEF InInv, SentInv, Entries
  <2>2. InRecords'
    BY <1>1, <1>2 DEF InInv, InRecords, InRecord, NoRecord, Entries
  <2>3. InPackets'
    <3>1. ASSUME NEW x \in Range(toC'), x.type = "PUBLISH"
          PROVE  [id |-> x.id, msg |-> x.msg, rel |-> FALSE] \in Entries
      <4>1. PICK e \in Entries : x.id = e.id /\ ~e.rel /\ x.msg = e.msg
        BY <1>4, <3>1
      <4>2. e \in Entry
        BY <1>2, TypesAre
      <4>3. e.rel = FALSE
        BY <4>1, <4>2 DEF Entry
      <4>4. e = [id |-> e.id, msg |-> e.msg, rel |-> e.rel]
        BY EntriesAre
      <4>5. e = [id |-> x.id, msg |-> x.msg, rel |-> FALSE]
        BY <4>1, <4>3, <4>4, Zenon
      <4>6. QED
        BY <4>5
    <3>2. \A x \in Range(toC') : x.type = "PUBREL" => \E e \in Entries : e.id = x.id /\ e.rel
      BY <1>4
    <3>3. Entries' = Entries
      BY <1>1 DEF Entries
    <3>4. QED
      BY <1>6, <1>8, <3>1, <3>2, <3>3 DEF InPackets
  <2>4. QED
    BY <1>2, <2>1, <2>2, <2>3 DEF InInv
<1>12. RecordsInOrder'
  BY <1>1, <1>2 DEF OrderInv, RecordsInOrder
<1>13. used'.skipped = {} => ArrivalInv'
  BY <1>1, <1>2, ArrivalLost DEF OrderInv
<1>14. QED
  BY <1>9, <1>10, <1>11, <1>12, <1>13 DEF MqttInv, OrderInv

LEMMA FreshIs ==
    /\ ContextInv(FreshContext) /\ FreshContext \in [out : Records(OUTGOING_COUNT), in : Records(INCOMING_COUNT)]
    /\ Contents(FreshContext.out) = {} /\ Contents(FreshContext.in) = {} /\ Used(FreshContext.out) = {}
    /\ NoCopies \in [Ids -> OutMsgs \cup {NoMsg}] /\ \A i \in Ids : NoCopies[i] = NoMsg
    /\ Cardinality({i \in Ids : NoCopies[i] # NoMsg}) <= MAX_OUTGOING_PUBLISHES
    /\ NoSession \in [kept : BOOLEAN, rel : SUBSET Ids, sent : Seq(Entry)]
<1>1. ASSUME NEW n \in Nat \ {0}
      PROVE  RecordsInv(NoRecords(n), n) /\ Used(NoRecords(n)) = {} /\ NoRecords(n) \in Records(n)
  <2>1. FreeRecord \in [id : Nat, qos : 0..2, state : PublishStates] /\ FreeRecord.id = MQTT_PACKET_ID_INVALID
    BY DEF FreeRecord, MQTT_PACKET_ID_INVALID, PublishStates
  <2>2. NoRecords(n) \in Records(n) /\ \A i \in 1..n : NoRecords(n)[i] = FreeRecord
    BY <2>1 DEF NoRecords, Records
  <2>3. Used(NoRecords(n)) = {}
    BY <2>1, <2>2 DEF Used, Records
  <2>4. QED
    BY <2>1, <2>2, <2>3 DEF RecordsInv
<1>2. FreshContext.out = NoRecords(OUTGOING_COUNT) /\ FreshContext.in = NoRecords(INCOMING_COUNT)
  BY DEF FreshContext
<1>3. FreshContext \in Contexts
  BY <1>1, ConstantsAre DEF FreshContext, Contexts
<1>4. ContextInv(FreshContext)
  BY <1>1, <1>2, <1>3, ConstantsAre DEF ContextInv
<1>5. Contents(FreshContext.out) = {} /\ Contents(FreshContext.in) = {} /\ Used(FreshContext.out) = {}
  BY <1>1, <1>2, ConstantsAre DEF Contents
<1>6. NoCopies \in [Ids -> OutMsgs \cup {NoMsg}] /\ \A i \in Ids : NoCopies[i] = NoMsg
  BY DEF NoCopies
<1>7. Cardinality({i \in Ids : NoCopies[i] # NoMsg}) <= MAX_OUTGOING_PUBLISHES
  <2>1. {i \in Ids : NoCopies[i] # NoMsg} = {}
    BY <1>6
  <2>2. Cardinality({}) = 0
    BY FS_EmptySet
  <2>3. QED
    BY <2>1, <2>2, ConstantsAre
<1>8. NoSession \in [kept : BOOLEAN, rel : SUBSET Ids, sent : Seq(Entry)]
  BY DEF NoSession
<1>9. QED
  BY <1>3, <1>4, <1>5, <1>6, <1>7, <1>8 DEF Contexts

\* Without a session nothing is open.
NoneOpen ==
    /\ ctx = FreshContext /\ copies = NoCopies /\ toB = <<>> /\ toC = <<>> /\ phase \in {"up", "down"}
    /\ broker.rel = {} /\ broker.sent = <<>>
    /\ owed = {} /\ again = {} /\ acked \subseteq delivered
    /\ used.in \in Nat /\ Range(got) \subseteq OutMsgs
    /\ \A m \in Range(got) : m <= used.out
    /\ \A m \in delivered : m <= MaxOut + used.in

LEMMA NoneOpenIs == NoneOpen => OutInv /\ InInv /\ RecordsInOrder
<1> SUFFICES ASSUME NoneOpen PROVE OutInv /\ InInv /\ RecordsInOrder
  OBVIOUS
<1>1. Contents(ctx.out) = {} /\ Contents(ctx.in) = {} /\ Used(ctx.out) = {} /\ \A i \in Ids : copies[i] = NoMsg
  BY FreshIs DEF NoneOpen
<1>2. Range(toB) = {} /\ Range(toC) = {} /\ Entries = {} /\ Len(broker.sent) = 0 /\ DOMAIN broker.sent = {}
  BY RangeEmpty DEF Entries, NoneOpen
<1>3. OneUnderWay(toB, toC) /\ OneUnderWay(toC, toB)
  BY <1>2, SingleEmpty DEF OneUnderWay, NoneOpen
<1>4. OutRecords
  BY <1>1 DEF OutRecords
<1>5. CopyInv
  BY <1>1 DEF CopyInv, NoneOpen
<1>6. RelInv
  BY <1>1, ConstantsAre DEF RelInv, Reached, NoneOpen
<1>7. OutPackets
  BY <1>2, <1>3 DEF OutPackets
<1>8. ResumeInv
  BY DEF ResumeInv, ToResend, NoneOpen
<1>9. SentInv
  BY <1>2 DEF SentInv, NoneOpen
<1>10. InRecords
  BY <1>1, <1>2 DEF InRecords
<1>11. InPackets
  BY <1>2, <1>3 DEF InPackets
<1>12. RecordsInOrder
  BY <1>1 DEF RecordsInOrder
<1>13. QED
  BY <1>4, <1>5, <1>6, <1>7, <1>8, <1>9, <1>10, <1>11, <1>12 DEF OutInv, InInv, NoneOpen

LEMMA ConnectFresh ==
    ASSUME MqttInv, phase = "down", link' = TRUE, toB' = <<>>, resume' = FromTheStart,
           NEW clean \in BOOLEAN, SessionFresh(clean), UNCHANGED <<qos, got, delivered, again, acked, used>>
    PROVE  MqttInv'
<1>1. /\ phase' = "up" /\ toC' = <<>> /\ ctx' = FreshContext /\ copies' = NoCopies
      /\ nextId' \in {1, nextId} /\ broker' = [NoSession EXCEPT !.kept = ~clean] /\ owed' = {}
  BY DEF SessionFresh
<1>2. TypeInv /\ OutInv /\ InInv /\ OrderInv
  BY DEF MqttInv
<1>3. broker' \in [kept : BOOLEAN, rel : SUBSET Ids, sent : Seq(Entry)] /\ broker'.rel = {} /\ broker'.sent = <<>>
  <2>1. NoSession \in [kept : BOOLEAN, rel : SUBSET Ids, sent : Seq(Entry)] /\ NoSession.rel = {} /\ NoSession.sent = <<>>
    BY FreshIs DEF NoSession
  <2>2. QED
    BY <1>1, <2>1
<1>4. TypeInv'
  <2>1. phase' \in Phases
    BY <1>1 DEF Phases
  <2>2. resume' \in [cursor : 1..OUTGOING_COUNT + 1, ok : BOOLEAN]
    BY ConstantsAre DEF FromTheStart
  <2>3. toB' \in Seq(Packets) /\ toC' \in Seq(Packets) /\ nextId' \in Ids
    BY <1>1, <1>2, ConstantsAre DEF TypeInv, Ids
  <2>4. link' \in BOOLEAN
    OBVIOUS
  <2>5. ~link' => toB' = <<>>
    OBVIOUS
  <2>6. /\ ctx' \in [out : Records(OUTGOING_COUNT), in : Records(INCOMING_COUNT)]
        /\ RecordsInv(ctx'.out, OUTGOING_COUNT) /\ RecordsInv(ctx'.in, INCOMING_COUNT)
        /\ copies' \in [Ids -> OutMsgs \cup {NoMsg}]
        /\ Cardinality({i \in Ids : copies'[i] # NoMsg}) <= MAX_OUTGOING_PUBLISHES
    BY <1>1, FreshIs DEF ContextInv
  <2>7. owed' \subseteq OutMsgs
    BY <1>1
  <2>8. QED
    BY <1>2, <1>3, <2>1, <2>2, <2>3, <2>4, <2>5, <2>6, <2>7 DEF TypeInv
<1>5. NoneOpen'
  BY <1>1, <1>2, <1>3, TypesAre DEF NoneOpen, OutInv, CopyInv, InInv, SentInv
<1>6. OutInv' /\ InInv' /\ RecordsInOrder'
  BY <1>5, NoneOpenIs, PTL
<1>7. used'.skipped = {} => ArrivalInv'
  <2>1. \A i \in Ids : copies'[i] \in {copies[i], NoMsg}
    BY <1>1, FreshIs
  <2>2. QED
    BY <1>1, <1>2, <2>1, ArrivalLost DEF OrderInv
<1>8. QED
  BY <1>4, <1>6, <1>7 DEF MqttInv, OrderInv

LEMMA ConnectKeeps ==
    ASSUME MqttInv, Connect
    PROVE  MqttInv'
<1>1. PICK clean \in CleanSessions, present \in {FALSE, broker.kept} :
         IF ~clean /\ present THEN SessionKept ELSE SessionFresh(clean)
  BY DEF Connect
<1>2. clean \in BOOLEAN
  BY MqttAssumption
<1>3. /\ phase = "down" /\ link' = TRUE /\ toB' = <<>> /\ resume' = FromTheStart
      /\ UNCHANGED <<qos, got, delivered, again, acked, used>>
  BY DEF Connect
<1>4. CASE SessionKept
  BY <1>3, <1>4, ConnectKept
<1>5. CASE SessionFresh(clean)
  BY <1>2, <1>3, <1>5, ConnectFresh
<1>6. QED
  BY <1>1, <1>4, <1>5

\* Initially.
LEMMA InitIs == Init => MqttInv
<1> SUFFICES ASSUME Init PROVE MqttInv
  OBVIOUS
<1>1. broker = NoSession /\ broker.rel = {} /\ broker.sent = <<>>
  BY DEF Init, NoSession
<1>2. used \in Usage /\ used.in = 0 /\ used.out = 0
  BY ConstantsAre DEF Init, Usage
<1>3. Range(got) = {}
  BY RangeEmpty DEF Init
<1>4. NoneOpen
  BY <1>1, <1>2, <1>3 DEF Init, NoneOpen
<1>5. OutInv /\ InInv /\ RecordsInOrder
  BY <1>4, NoneOpenIs
<1>6. TypeInv
  <2>1. phase \in Phases
    BY DEF Init, Phases
  <2>2. resume \in [cursor : 1..OUTGOING_COUNT + 1, ok : BOOLEAN]
    BY ConstantsAre DEF Init, FromTheStart
  <2>3. toB \in Seq(Packets) /\ toC \in Seq(Packets) /\ nextId \in Ids /\ got \in Seq(OutMsgs)
    BY ConstantsAre DEF Init, Ids
  <2>4. link \in BOOLEAN
    BY DEF Init
  <2>5. ~link => toB = <<>>
    BY DEF Init
  <2>6. /\ ctx \in [out : Records(OUTGOING_COUNT), in : Records(INCOMING_COUNT)]
        /\ RecordsInv(ctx.out, OUTGOING_COUNT) /\ RecordsInv(ctx.in, INCOMING_COUNT)
        /\ copies \in [Ids -> OutMsgs \cup {NoMsg}]
        /\ Cardinality({i \in Ids : copies[i] # NoMsg}) <= MAX_OUTGOING_PUBLISHES
    BY FreshIs DEF ContextInv, Init
  <2>7. owed \subseteq OutMsgs /\ delivered \subseteq InMsgs /\ acked \subseteq InMsgs
    BY DEF Init
  <2>8. qos \in [OutMsgs \cup InMsgs -> 0..2] /\ \A m \in OutMsgs : qos[m] \in OutQos \cup {0}
    BY DEF Init
  <2>9. broker \in [kept : BOOLEAN, rel : SUBSET Ids, sent : Seq(Entry)]
    BY <1>1, FreshIs
  <2>10. QED
    BY <1>2, <2>1, <2>2, <2>3, <2>4, <2>5, <2>6, <2>7, <2>8, <2>9 DEF TypeInv
<1>7. ArrivalInv
  <2>1. Range(toB) = {} /\ DOMAIN toB = {} /\ DOMAIN got = {} /\ \A i \in Ids : ~Missing(i)
    BY RangeEmpty, FreshIs DEF Init, Missing
  <2>2. phase = "down"
    BY DEF Init
  <2>3. QED
    BY <1>3, <2>1, <2>2 DEF ArrivalInv, Rising
<1>8. QED
  BY <1>5, <1>6, <1>7 DEF MqttInv, OrderInv
-----------------------------------------------------------------------------
(* Receiving *)

\* sendPublishAcks(): the acknowledgement leaves and the record moves on, or neither.
LEMMA SendAcksIs ==
    ASSUME NEW c, NEW id, NEW state, NEW ok, SendPublishAcks(c, id, state, ok),
           NEW type, AckTypeToSend(state) = {type}
    PROVE  \/ ctx' = c /\ toB' = toB
           \/ /\ ctx' = UpdateStateAck(c, id, type, "SEND").ctx
              /\ toB' = IF link THEN Append(toB, Packet(type, id, NoMsg)) ELSE toB
<1>1. CASE ~ok
  BY <1>1 DEF SendPublishAcks
<1>2. CASE ok
  BY <1>2 DEF SendPublishAcks, Sent
<1>3. QED
  BY <1>1, <1>2

LEMMA ConsumeIs ==
    ASSUME MqttInv, Consume
    PROVE  /\ phase = "up" /\ toC # <<>> /\ toC' = Tail(toC)
           /\ toB \in Seq(Packets) /\ toC \in Seq(Packets) /\ toC' \in Seq(Packets)
           /\ Head(toC) \in Packets /\ Range(toC) = Range(toC') \cup {Head(toC)}
           /\ OneUnderWay(toB, toC) /\ OneUnderWay(toC, toB)
<1>1. phase = "up" /\ toC # <<>> /\ toC' = Tail(toC)
  BY DEF Consume
<1>2. toB \in Seq(Packets) /\ toC \in Seq(Packets)
  BY TypesAre DEF MqttInv
<1>3. OneUnderWay(toB, toC) /\ OneUnderWay(toC, toB)
  BY DEF MqttInv, OutInv, OutPackets, InInv, InPackets
<1>4. QED
  BY <1>1, <1>2, <1>3, RangeTail

\* The records of other exchanges of the broker's.
OthersIn(id) == {r \in Contents(ctx.in) : r.id # id}

\* What is left of the exchange once its PUBLISH was handled.
AfterPublish(id, q) ==
    IF q = 1 THEN {{}, {Rec(id, 1, "PubAckSend")}}
    ELSE {{Rec(id, 2, "PubRecSend")}, {Rec(id, 2, "PubRelPending")}}

\* The acknowledgement, if the connection is there, for a record that was left.
AcksPublish(id, X) ==
    \/ toB' = toB
    \/ toB' = Append(toB, Packet("PUBACK", id, NoMsg)) /\ X = {}
    \/ toB' = Append(toB, Packet("PUBREC", id, NoMsg)) /\ X = {Rec(id, 2, "PubRelPending")}

\* handleIncomingPublish() with room for a record, or with one already.
LEMMA AcksPublishIs ==
    ASSUME MqttInv, NEW c, ContextInv(c), c.out = ctx.out, NEW id \in Nat \ {0}, NEW q \in {1, 2}, NEW r \in Contents(c.in),
           r.id = id, r.qos = q, r.state \in IF q = 1 THEN {"PubAckSend"} ELSE {"PubRecSend", "PubRelPending"},
           OthersIn(id) = Contents(c.in) \ {r},
           NEW ok \in SendResults, SendPublishAcks(c, id, IF q = 1 THEN "PubAckSend" ELSE "PubRecSend", ok)
    PROVE  /\ ContextInv(ctx') /\ ctx'.out = ctx.out
           /\ \E X \in AfterPublish(id, q) : Contents(ctx'.in) = OthersIn(id) \cup X /\ AcksPublish(id, X)
<1>1. r = Rec(id, q, r.state)
  BY RecordsAre, ConstantsAre DEF ContextInv
<1>2. CASE ctx' = c /\ toB' = toB
  <2>1. Contents(ctx'.in) = OthersIn(id) \cup {r}
    BY <1>2
  <2>2. {r} \in AfterPublish(id, q)
    BY <1>1 DEF AfterPublish
  <2>3. QED
    BY <1>2, <2>1, <2>2 DEF AcksPublish
<1>3. CASE q = 1 /\ /\ ctx' = UpdateStateAck(c, id, "PUBACK", "SEND").ctx
                    /\ toB' = IF link THEN Append(toB, Packet("PUBACK", id, NoMsg)) ELSE toB
  <2>1. r = Rec(id, 1, "PubAckSend")
    BY <1>1, <1>3
  <2>2. ContextInv(ctx') /\ ctx'.out = c.out /\ Contents(ctx'.in) = Contents(c.in) \ {r}
    <3>1. Rec(id, 1, "PubAckSend") \in Contents(c.in)
      BY <2>1
    <3>2. LET updated == UpdateStateAck(c, id, "PUBACK", "SEND")
          IN  /\ ContextInv(updated.ctx) /\ updated.ctx.out = c.out
              /\ Contents(updated.ctx.in) = Contents(c.in) \ {Rec(id, 1, "PubAckSend")}
      BY <3>1, SendsDone
    <3>3. QED
      BY <1>3, <2>1, <3>2
  <2>3. {} \in AfterPublish(id, q) /\ AcksPublish(id, {})
    BY <1>3 DEF AfterPublish, AcksPublish
  <2>4. Contents(ctx'.in) = OthersIn(id) \cup {}
    BY <2>2
  <2>5. QED
    BY <2>2, <2>3, <2>4
<1>4. CASE q = 2 /\ /\ ctx' = UpdateStateAck(c, id, "PUBREC", "SEND").ctx
                    /\ toB' = IF link THEN Append(toB, Packet("PUBREC", id, NoMsg)) ELSE toB
  <2> DEFINE X == {Rec(id, 2, "PubRelPending")}
  <2>1. PICK s \in {"PubRecSend", "PubRelPending"} : r = Rec(id, 2, s)
    BY <1>1, <1>4
  <2>2. ContextInv(ctx') /\ ctx'.out = c.out /\ Contents(ctx'.in) = (Contents(c.in) \ {r}) \cup X
    <3>1. Rec(id, 2, s) \in Contents(c.in)
      BY <2>1
    <3>2. LET updated == UpdateStateAck(c, id, "PUBREC", "SEND")
          IN  /\ ContextInv(updated.ctx) /\ updated.ctx.out = c.out
              /\ Contents(updated.ctx.in) = (Contents(c.in) \ {Rec(id, 2, s)}) \cup X
      BY <3>1, SendsPubrec
    <3>3. QED
      BY <1>4, <2>1, <3>2
  <2>3. X \in AfterPublish(id, q) /\ AcksPublish(id, X)
    BY <1>4 DEF AfterPublish, AcksPublish
  <2>4. Contents(ctx'.in) = OthersIn(id) \cup X
    BY <2>2
  <2>5. QED
    BY <2>2, <2>3, <2>4
<1>5. AckTypeToSend("PubAckSend") = {"PUBACK"} /\ AckTypeToSend("PubRecSend") = {"PUBREC"}
  BY DEF AckTypeToSend
<1>6. CASE q = 1
  <2>1. SendPublishAcks(c, id, "PubAckSend", ok)
    BY <1>6
  <2>2. AckTypeToSend("PubAckSend") = {"PUBACK"}
    BY <1>5
  <2>3. \/ ctx' = c /\ toB' = toB
        \/ /\ ctx' = UpdateStateAck(c, id, "PUBACK", "SEND").ctx
           /\ toB' = IF link THEN Append(toB, Packet("PUBACK", id, NoMsg)) ELSE toB
    BY <2>1, <2>2, SendAcksIs, SMTT(20)
  <2>4. QED
    BY <1>2, <1>3, <1>6, <2>3
<1>7. CASE q = 2
  <2>1. SendPublishAcks(c, id, "PubRecSend", ok)
    BY <1>7
  <2>2. AckTypeToSend("PubRecSend") = {"PUBREC"}
    BY <1>5
  <2>3. \/ ctx' = c /\ toB' = toB
        \/ /\ ctx' = UpdateStateAck(c, id, "PUBREC", "SEND").ctx
           /\ toB' = IF link THEN Append(toB, Packet("PUBREC", id, NoMsg)) ELSE toB
    BY <2>1, <2>2, SendAcksIs
  <2>4. QED
    BY <1>2, <1>4, <1>7, <2>3
<1>8. QED
  BY <1>6, <1>7

\* A PUBLISH is dropped, or its message is delivered for the first time, or it is a
\* duplicate.
LEMMA ReceivePublishIs ==
    ASSUME MqttInv, ReceivePublish
    PROVE  LET p == Head(toC)
           IN  /\ ContextInv(ctx') /\ ctx'.out = ctx.out
               /\ [id |-> p.id, msg |-> p.msg, rel |-> FALSE] \in Entries /\ again' = again
               /\ \/ Contents(ctx'.in) = Contents(ctx.in) /\ toB' = toB /\ delivered' = delivered
                  \/ /\ delivered' = delivered \cup {p.msg}
                     /\ \E X \in AfterPublish(p.id, qos[p.msg]) :
                           Contents(ctx'.in) = OthersIn(p.id) \cup X /\ AcksPublish(p.id, X)
<1> DEFINE p == Head(toC)
           id == p.id
           m == p.msg
           q == qos[m]
           e == [id |-> id, msg |-> m, rel |-> FALSE]
           updated == UpdateStatePublish(ctx, id, "RECEIVE", q)
           c == updated.ctx
           state == IF q = 1 THEN "PubAckSend" ELSE "PubRecSend"
<1>1. /\ p.type = "PUBLISH" /\ Consume
      /\ IF updated.status = "Success" THEN Deliver(m) ELSE UNCHANGED <<delivered, again>>
      /\ IF updated.status \in {"Success", "StateCollision"}
         THEN \E ok \in SendResults : SendPublishAcks(c, id, CalculateStatePublish("RECEIVE", q), ok)
         ELSE ctx' = c /\ UNCHANGED toB
  BY DEF ReceivePublish
<1>2. Head(toC) \in Range(toC)
  BY <1>1, ConsumeIs
<1>3. e \in Entries
  BY <1>1, <1>2 DEF MqttInv, InInv, InPackets
<1>4. e.id = id /\ e.msg = m /\ ~e.rel
  OBVIOUS
<1>5. id \in Nat \ {0} /\ q \in {1, 2} /\ ContextInv(ctx)
  BY <1>3, <1>4, EntriesAre, TypesAre DEF MqttInv, InInv, SentInv
<1>6. /\ CalculateStatePublish("RECEIVE", q) = state
      /\ ContextInv(c) /\ c.out = ctx.out
      /\ updated.status \in {"Success", "StateCollision", "NoMemory"}
      /\ updated.status = "StateCollision" <=> HasId(ctx.in, id)
      /\ updated.status # "Success" => Contents(c.in) = Contents(ctx.in)
      /\ updated.status = "Success" => Contents(c.in) = Contents(ctx.in) \cup {Rec(id, q, state)}
  BY <1>5, GetsPublish
<1> HIDE DEF updated, c
<1>7. CASE updated.status = "NoMemory"
  BY <1>1, <1>3, <1>6, <1>7
<1> DEFINE Goal == \E X \in AfterPublish(id, q) : Contents(ctx'.in) = OthersIn(id) \cup X /\ AcksPublish(id, X)
<1>8. CASE updated.status = "Success"
  <2>0. ~HasId(ctx.in, id)
    BY <1>6, <1>8
  <2> DEFINE r == Rec(id, q, state)
  <2>1. r.id = id /\ r.qos = q /\ r.state = state
    BY DEF Rec
  <2>2. r \in Contents(c.in) /\ OthersIn(id) = Contents(c.in) \ {r}
    BY <1>6, <1>8, <2>0, <2>1 DEF OthersIn, HasId
  <2> HIDE DEF r
  <2>3. PICK ok \in SendResults : SendPublishAcks(c, id, state, ok)
    BY <1>1, <1>6, <1>8
  <2>4. r.state \in IF q = 1 THEN {"PubAckSend"} ELSE {"PubRecSend", "PubRelPending"}
    BY <2>1
  <2>5. ContextInv(ctx') /\ ctx'.out = ctx.out /\ Goal
    BY <1>5, <1>6, <2>1, <2>2, <2>3, <2>4, AcksPublishIs
  <2>6. ~(m \in delivered /\ q = 2)
    BY <1>3, <1>4, <2>0 DEF MqttInv, InInv, InRecords, NoRecord, HasId
  <2>7. delivered' = delivered \cup {m} /\ again' = again
    BY <1>1, <1>8, <2>6 DEF Deliver
  <2>8. QED
    BY <1>3, <2>5, <2>7
<1>9. CASE updated.status = "StateCollision"
  <2>1. PICK r \in Contents(ctx.in) : r.id = id
    BY <1>6, <1>9 DEF HasId
  <2>2. InRecord(r, e)
    BY <1>3, <1>4, <2>1, InRecordsAre
  <2>3. r.qos = q /\ m \in delivered /\ r.state \in IF q = 1 THEN {"PubAckSend"} ELSE {"PubRecSend", "PubRelPending"}
    BY <1>4, <2>2 DEF InRecord
  <2>4. r \in Contents(c.in) /\ OthersIn(id) = Contents(c.in) \ {r}
    <3>1. \A s \in Contents(ctx.in) : s.id = id => s = r
      BY <1>5, <2>1, RecordsAre, ConstantsAre DEF ContextInv
    <3>2. QED
      BY <1>6, <1>9, <2>1, <3>1 DEF OthersIn
  <2>5. PICK ok \in SendResults : SendPublishAcks(c, id, state, ok)
    BY <1>1, <1>6, <1>9
  <2>6. ContextInv(ctx') /\ ctx'.out = ctx.out /\ Goal
    BY <1>5, <1>6, <2>1, <2>3, <2>4, <2>5, AcksPublishIs
  <2>7. delivered' = delivered \cup {m} /\ again' = again
    BY <1>1, <1>9, <2>3
  <2>8. QED
    BY <1>3, <2>6, <2>7
<1>10. QED
  BY <1>6, <1>7, <1>8, <1>9

\* The acknowledgement that exchange e of the broker's may get when X is left of its
\* records.
AnswerFits(a, X, e) ==
    /\ a \in Packets /\ a.id = e.id
    /\ \/ a.type = "PUBACK" /\ X = {} /\ ~e.rel /\ qos[e.msg] = 1
       \/ a.type = "PUBREC" /\ Rec(e.id, 2, "PubRelPending") \in X /\ ~e.rel
       \/ a.type = "PUBCOMP" /\ X = {} /\ e.rel

Answers(X, e) == toB' = toB \/ \E a \in Packets : toB' = Append(toB, a) /\ AnswerFits(a, X, e)

\* The client handles the packet of an exchange that the broker began.
LEMMA InHandled ==
    ASSUME MqttInv, Consume, NEW e \in Entries, Head(toC).type \in FromSender, e.id = Head(toC).id,
           delivered' = delivered \cup {e.msg}, again' = again, UNCHANGED <<broker, qos, acked, used>>,
           NEW X, Contents(ctx'.in) = OthersIn(e.id) \cup X, \A r \in X : r.id = e.id /\ InRecord(r, e)',
           qos[e.msg] = 2 /\ ~e.rel => X # {},
           Answers(X, e)
    PROVE  /\ InInv' /\ OneUnderWay(toB', toC') /\ OneUnderWay(toC', toB') /\ toB' \in Seq(Packets)
           /\ \A x \in Range(toB') : x \in Range(toB) \/ x.type \in FromReceiver
           /\ Range(toB) \subseteq Range(toB')
           /\ Rising(toB) => Rising(toB')
<1> DEFINE p == Head(toC)
<1>1. /\ phase = "up" /\ toC # <<>> /\ toC' = Tail(toC)
      /\ toB \in Seq(Packets) /\ toC \in Seq(Packets) /\ toC' \in Seq(Packets)
      /\ p \in Packets /\ Range(toC) = Range(toC') \cup {p}
      /\ OneUnderWay(toB, toC) /\ OneUnderWay(toC, toB)
  BY ConsumeIs
<1>2. TypeInv /\ OutInv /\ InInv /\ OrderInv
  BY DEF MqttInv
<1>3. Quiet(Tail(toC), toB, e.id)
  BY <1>1, TakeThere
<1>4. /\ OneUnderWay(toB', toC') /\ OneUnderWay(toC', toB') /\ toB' \in Seq(Packets)
      /\ \A x \in Range(toB') : x \in Range(toB) \/ (x.type \in FromReceiver /\ AnswerFits(x, X, e))
      /\ Range(toB) \subseteq Range(toB')
      /\ Rising(toB) => Rising(toB')
  <2>1. CASE toB' = toB
    BY <1>1, <2>1, Taken
  <2>2. ASSUME NEW a \in Packets, toB' = Append(toB, a), AnswerFits(a, X, e)
        PROVE  /\ OneUnderWay(toB', toC') /\ OneUnderWay(toC', toB') /\ toB' \in Seq(Packets)
               /\ \A x \in Range(toB') : x \in Range(toB) \/ (x.type \in FromReceiver /\ AnswerFits(x, X, e))
               /\ Range(toB) \subseteq Range(toB')
               /\ Rising(toB) => Rising(toB')
    <3>1. a.type \in FromReceiver /\ a.id = p.id /\ a.type # "PUBLISH"
      BY <2>2 DEF AnswerFits, FromReceiver
    <3>2. OneUnderWay(Tail(toC), Append(toB, a)) /\ OneUnderWay(Append(toB, a), Tail(toC))
      BY <1>1, <3>1, Answered
    <3>3. toB' \in Seq(Packets) /\ Range(toB') = Range(toB) \cup {a}
      BY <1>1, <2>2, RangeAppend
    <3>4. Rising(toB) => Rising(Append(toB, a))
      BY <1>1, <3>1, RisingAppend
    <3>5. QED
      BY <1>1, <2>2, <3>1, <3>2, <3>3, <3>4
  <2>3. QED
    BY <2>1, <2>2 DEF Answers
<1>5. Entries' = Entries /\ \A x \in Entries : x.id = e.id => x = e
  BY EntriesAre DEF Entries
<1> HIDE DEF p
<1>6. SentInv'
  BY <1>2, <1>5 DEF InInv, SentInv
<1>7. InRecords'
  <2>1. ASSUME NEW r \in Contents(ctx'.in) PROVE \E x \in Entries : InRecord(r, x)'
    <3>1. CASE r \in X
      BY <3>1
    <3>2. CASE r \in OthersIn(e.id)
      <4>1. PICK x \in Entries : InRecord(r, x)
        BY <1>2, <3>2 DEF InInv, InRecords, OthersIn
      <4>2. InRecord(r, x)'
        BY <4>1 DEF InRecord
      <4>3. QED
        BY <4>2
    <3>3. QED
      BY <3>1, <3>2
  <2>2. ASSUME NEW x \in Entries, x.msg \in delivered', qos[x.msg] = 2, ~x.rel
        PROVE  \E r \in Contents(ctx'.in) : r.id = x.id
    <3>1. CASE x = e
      <4>1. PICK r : r \in X
        BY <2>2, <3>1
      <4>2. QED
        BY <3>1, <4>1
    <3>2. CASE x # e
      <4>1. x.msg # e.msg
        BY <1>2, <3>2 DEF InInv, SentInv
      <4>2. ~NoRecord(x.id)
        BY <1>2, <2>2, <4>1 DEF InInv, InRecords
      <4>3. PICK r \in Contents(ctx.in) : r.id = x.id
        BY <4>2 DEF NoRecord
      <4>4. x.id # e.id
        BY <1>5, <3>2
      <4>5. r \in OthersIn(e.id)
        BY <4>3, <4>4 DEF OthersIn
      <4>6. QED
        BY <4>3, <4>5
    <3>3. QED
      BY <3>1, <3>2
  <2>3. QED
    BY <1>5, <2>1, <2>2 DEF InRecords, NoRecord
<1>8. InPackets'
  <2>1. /\ \A x \in Range(toC') : x.type = "PUBLISH" => [id |-> x.id, msg |-> x.msg, rel |-> FALSE] \in Entries
        /\ \A x \in Range(toC') : x.type = "PUBREL" => \E y \in Entries : y.id = x.id /\ y.rel
    BY <1>1, <1>2 DEF InInv, InPackets
  <2>2. ASSUME NEW x \in Range(toB'), x.type \in FromReceiver, x \in Range(toB) PROVE x.id # e.id
    BY <1>3, <2>2 DEF Quiet
  <2>3. \A i : i # e.id /\ NoRecord(i) => NoRecord(i)'
    BY DEF NoRecord, OthersIn
  <2>4. ASSUME X = {} PROVE \A r \in Contents(ctx'.in) : r.id # e.id
    BY <2>4 DEF OthersIn
  <2>5. ASSUME NEW x \in Range(toB'), x.type = "PUBACK"
        PROVE  /\ \A r \in Contents(ctx'.in) : r.id # x.id
               /\ \E y \in Entries : y.id = x.id /\ ~y.rel /\ qos[y.msg] = 1 /\ y.msg \in delivered'
    <3>1. CASE x \in Range(toB)
      <4>1. x.id # e.id
        BY <2>2, <2>5, <3>1 DEF FromReceiver
      <4>2. NoRecord(x.id) /\ \E y \in Entries : y.id = x.id /\ ~y.rel /\ qos[y.msg] = 1 /\ y.msg \in delivered
        BY <1>2, <2>5, <3>1 DEF InInv, InPackets
      <4>3. QED
        BY <4>1, <4>2 DEF NoRecord, OthersIn
    <3>2. CASE x \notin Range(toB)
      <4>1. x.id = e.id /\ X = {} /\ ~e.rel /\ qos[e.msg] = 1
        BY <1>4, <2>5, <3>2 DEF AnswerFits
      <4>2. QED
        BY <2>4, <4>1
    <3>3. QED
      BY <3>1, <3>2
  <2>6. ASSUME NEW x \in Range(toB'), x.type = "PUBREC"
        PROVE  Rec(x.id, 2, "PubRelPending") \in Contents(ctx'.in) /\ \E y \in Entries : y.id = x.id /\ ~y.rel
    <3>1. CASE x \in Range(toB)
      <4>1. x.id # e.id
        BY <2>2, <2>6, <3>1 DEF FromReceiver
      <4>2. Rec(x.id, 2, "PubRelPending") \in Contents(ctx.in) /\ \E y \in Entries : y.id = x.id /\ ~y.rel
        BY <1>2, <2>6, <3>1 DEF InInv, InPackets
      <4>3. Rec(x.id, 2, "PubRelPending").id = x.id
        BY DEF Rec
      <4>4. QED
        BY <4>1, <4>2, <4>3 DEF OthersIn
    <3>2. CASE x \notin Range(toB)
      BY <1>4, <2>6, <3>2 DEF AnswerFits
    <3>3. QED
      BY <3>1, <3>2
  <2>7. ASSUME NEW x \in Range(toB'), x.type = "PUBCOMP"
        PROVE  /\ \A r \in Contents(ctx'.in) : r.id # x.id
               /\ \E y \in Entries : y.id = x.id /\ y.rel
    <3>1. CASE x \in Range(toB)
      <4>1. x.id # e.id
        BY <2>2, <2>7, <3>1 DEF FromReceiver
      <4>2. NoRecord(x.id) /\ \E y \in Entries : y.id = x.id /\ y.rel
        BY <1>2, <2>7, <3>1 DEF InInv, InPackets
      <4>3. QED
        BY <4>1, <4>2 DEF NoRecord, OthersIn
    <3>2. CASE x \notin Range(toB)
      <4>1. x.id = e.id /\ X = {} /\ e.rel
        BY <1>4, <2>7, <3>2 DEF AnswerFits
      <4>2. QED
        BY <2>4, <4>1
    <3>3. QED
      BY <3>1, <3>2
  <2>8. QED
    BY <1>4, <1>5, <2>1, <2>5, <2>6, <2>7 DEF InPackets, NoRecord
<1>9. acked' \subseteq delivered' /\ again' = {}
  BY <1>2 DEF InInv
<1>10. QED
  BY <1>4, <1>6, <1>7, <1>8, <1>9 DEF InInv

\* The rest of the invariant, when a packet of the broker's exchanges was handled.
LEMMA InHandledRest ==
    ASSUME MqttInv, Consume, ContextInv(ctx'), ctx'.out = ctx.out, toB' \in Seq(Packets),
           UNCHANGED <<nextId, copies, phase, resume, link, broker, qos, owed, got, acked, used>>,
           delivered' \subseteq InMsgs, ~link => toB' = toB,
           OneUnderWay(toB', toC'),
           \A x \in Range(toB') : x \in Range(toB) \/ x.type \in FromReceiver, Range(toB) \subseteq Range(toB'),
           Rising(toB) => Rising(toB')
    PROVE  TypeInv' /\ OutInv' /\ OrderInv'
<1>1. phase = "up" /\ toC' \in Seq(Packets) /\ Range(toC') \subseteq Range(toC)
  BY ConsumeIs
<1>2. TypeInv /\ OutInv /\ InInv /\ OrderInv
  BY DEF MqttInv
<1>3. TypeInv'
  BY <1>1, <1>2 DEF TypeInv, ContextInv, Contexts
<1>4. \A x \in Range(toB') : x.type \in FromSender => x \in Range(toB)
  BY TypesApart
<1>5. ResumeInv'
  BY <1>1, NotResuming
<1>6. used.out \in Nat
  BY <1>2, TypesAre
<1>7. OutInv'
  BY <1>1, <1>2, <1>4, <1>5, <1>6, OutStays
<1>8. RecordsInOrder'
  BY <1>2 DEF OrderInv, RecordsInOrder
<1>9. used'.skipped = {} => ArrivalInv'
  <2>1. \A x \in Range(toB') : x.type = "PUBLISH" => x \in Range(toB)
    BY <1>4 DEF FromSender
  <2>2. ArrivalInv => Rising(toB')
    BY DEF ArrivalInv
  <2>3. QED
    BY <1>1, <1>2, <2>1, <2>2, ArrivalStays DEF OrderInv
<1>10. QED
  BY <1>3, <1>7, <1>8, <1>9 DEF OrderInv

LEMMA NotSent ==
    ASSUME NEW c, NEW id, NEW state, NEW ok, SendPublishAcks(c, id, state, ok), ~link
    PROVE  toB' = toB
  BY DEF SendPublishAcks, Sent

LEMMA ReceivePublishKeeps ==
    ASSUME MqttInv, ReceivePublish
    PROVE  MqttInv'
<1> DEFINE p == Head(toC)
<1>1. /\ p.type = "PUBLISH" /\ Consume
      /\ UNCHANGED <<nextId, copies, phase, resume, link, broker, qos, owed, got, acked, used>>
      /\ ~link => toB' = toB
  BY NotSent DEF ReceivePublish
<1>2. /\ ContextInv(ctx') /\ ctx'.out = ctx.out /\ again' = again
      /\ [id |-> p.id, msg |-> p.msg, rel |-> FALSE] \in Entries
      /\ \/ Contents(ctx'.in) = Contents(ctx.in) /\ toB' = toB /\ delivered' = delivered
         \/ /\ delivered' = delivered \cup {p.msg}
            /\ \E X \in AfterPublish(p.id, qos[p.msg]) :
                  Contents(ctx'.in) = OthersIn(p.id) \cup X /\ AcksPublish(p.id, X)
  BY ReceivePublishIs
<1>3. PICK e \in Entries : e.id = p.id /\ e.msg = p.msg /\ ~e.rel
  BY <1>2
<1>4. /\ toC # <<>> /\ toC' = Tail(toC) /\ toC' \in Seq(Packets) /\ toC \in Seq(Packets) /\ toB \in Seq(Packets)
      /\ Range(toC') \subseteq Range(toC) /\ OneUnderWay(toB, toC) /\ OneUnderWay(toC, toB) /\ p \in Packets
  BY <1>1, ConsumeIs
<1>5. TypeInv /\ OutInv /\ InInv /\ OrderInv
  BY DEF MqttInv
<1>6. e.msg \in InMsgs /\ delivered \subseteq InMsgs /\ p.id \in Nat /\ qos[e.msg] \in {1, 2} /\ p.type \in FromSender
  BY <1>1, <1>2, <1>3, <1>4, <1>5, EntriesAre DEF TypeInv, Packets, InInv, SentInv, FromSender
<1> HIDE DEF p
<1>7. CASE Contents(ctx'.in) = Contents(ctx.in) /\ toB' = toB /\ delivered' = delivered
  <2>1. OneUnderWay(toB', toC') /\ OneUnderWay(toC', toB') /\ again' = {}
    BY <1>2, <1>4, <1>5, <1>7, Taken DEF InInv
  <2>2. InInv'
    BY <1>1, <1>4, <1>5, <1>7, <2>1, InStays
  <2>3. TypeInv' /\ OutInv' /\ OrderInv'
    BY <1>1, <1>2, <1>4, <1>6, <1>7, <2>1, InHandledRest
  <2>4. QED
    BY <2>2, <2>3 DEF MqttInv
<1>8. ASSUME delivered' = delivered \cup {e.msg},
             NEW X \in AfterPublish(e.id, qos[e.msg]),
             Contents(ctx'.in) = OthersIn(e.id) \cup X, AcksPublish(e.id, X)
      PROVE  MqttInv'
  <2>1. ASSUME NEW r \in X PROVE r.id = e.id /\ InRecord(r, e)'
    <3>1. r.id = e.id /\ r.qos = qos[e.msg]
          /\ r.state \in IF qos[e.msg] = 1 THEN {"PubAckSend"} ELSE {"PubRecSend", "PubRelPending"}
      BY <1>6, <1>8 DEF AfterPublish, Rec
    <3>2. /\ r.id = e.id /\ e.msg \in delivered' /\ r.qos = qos'[e.msg]
          /\ r.state \in IF r.qos = 1 THEN {"PubAckSend"}
                         ELSE IF e.rel THEN {"PubRelPending", "PubCompSend"} ELSE {"PubRecSend", "PubRelPending"}
      BY <1>1, <1>3, <1>8, <3>1
    <3>3. QED
      BY <3>2 DEF InRecord
  <2>2. qos[e.msg] = 2 => X # {}
    BY <1>8 DEF AfterPublish
  <2>3. Answers(X, e)
    <3>1. CASE toB' = toB
      BY <3>1 DEF Answers
    <3>2. CASE toB' = Append(toB, Packet("PUBACK", e.id, NoMsg)) /\ X = {}
      <4> DEFINE a == Packet("PUBACK", e.id, NoMsg)
      <4>1. a \in Packets /\ a.type = "PUBACK" /\ a.id = e.id
        <5>1. "PUBACK" \in FromReceiver /\ NoMsg \in Nat /\ e.id \in Nat
          BY <1>3, <1>6 DEF FromReceiver, NoMsg
        <5>2. QED
          BY <5>1, PacketIs
      <4> HIDE DEF a
      <4>2. qos[e.msg] = 1
        BY <1>6, <2>2, <3>2
      <4>3. AnswerFits(a, X, e)
        BY <1>3, <3>2, <4>1, <4>2 DEF AnswerFits
      <4>4. QED
        BY <3>2, <4>1, <4>3 DEF Answers, a
    <3>3. CASE toB' = Append(toB, Packet("PUBREC", e.id, NoMsg)) /\ X = {Rec(e.id, 2, "PubRelPending")}
      <4> DEFINE a == Packet("PUBREC", e.id, NoMsg)
      <4>1. a \in Packets /\ a.type = "PUBREC" /\ a.id = e.id
        <5>1. "PUBREC" \in FromReceiver /\ NoMsg \in Nat /\ e.id \in Nat
          BY <1>3, <1>6 DEF FromReceiver, NoMsg
        <5>2. QED
          BY <5>1, PacketIs
      <4> HIDE DEF a
      <4>2. AnswerFits(a, X, e)
        BY <1>3, <3>3, <4>1 DEF AnswerFits
      <4>3. QED
        BY <3>3, <4>1, <4>2 DEF Answers, a
    <3>4. QED
      BY <1>8, <3>1, <3>2, <3>3 DEF AcksPublish
  <2>4. /\ InInv' /\ OneUnderWay(toB', toC') /\ OneUnderWay(toC', toB') /\ toB' \in Seq(Packets)
        /\ \A x \in Range(toB') : x \in Range(toB) \/ x.type \in FromReceiver
        /\ Range(toB) \subseteq Range(toB')
        /\ Rising(toB) => Rising(toB')
    BY <1>1, <1>2, <1>3, <1>6, <1>8, <2>1, <2>2, <2>3, InHandled DEF p
  <2>5. TypeInv' /\ OutInv' /\ OrderInv'
    BY <1>1, <1>2, <1>6, <1>8, <2>4, InHandledRest
  <2>6. QED
    BY <2>4, <2>5 DEF MqttInv
<1>9. QED
  BY <1>2, <1>3, <1>7, <1>8

\* The records of other exchanges of the client's.
OthersOut(id) == {r \in Contents(ctx.out) : r.id # id}

LEMMA CopiesWithoutIs ==
    ASSUME TypeInv, NEW id \in Ids
    PROVE  /\ CopiesWithout(id) \in [Ids -> OutMsgs \cup {NoMsg}]
           /\ CopiesWithout(id)[id] = NoMsg /\ \A i \in Ids : i # id => CopiesWithout(id)[i] = copies[i]
           /\ copies[id] = NoMsg => CopiesWithout(id) = copies
           /\ Cardinality({i \in Ids : CopiesWithout(id)[i] # NoMsg}) <= MAX_OUTGOING_PUBLISHES
<1>1. copies \in [Ids -> OutMsgs \cup {NoMsg}]
  BY DEF TypeInv
<1>2. /\ CopiesWithout(id) \in [Ids -> OutMsgs \cup {NoMsg}]
      /\ CopiesWithout(id)[id] = NoMsg /\ \A i \in Ids : i # id => CopiesWithout(id)[i] = copies[i]
  BY <1>1 DEF CopiesWithout
<1>3. copies[id] = NoMsg => CopiesWithout(id) = copies
  BY <1>1 DEF CopiesWithout
<1> DEFINE old == {i \in Ids : copies[i] # NoMsg}
           new == {i \in Ids : CopiesWithout(id)[i] # NoMsg}
<1>4. IsFiniteSet(Ids)
  BY ConstantsAre, FS_Interval DEF Ids
<1>5. IsFiniteSet(old) /\ new \subseteq old
  BY <1>2, <1>4, FS_Subset
<1>6. Cardinality(new) <= Cardinality(old) /\ Cardinality(old) <= MAX_OUTGOING_PUBLISHES
  BY <1>5, FS_Subset DEF TypeInv
<1>7. Cardinality(new) \in Nat /\ Cardinality(old) \in Nat
  BY <1>5, FS_Subset, FS_CardinalityType
<1> HIDE DEF old, new
<1>8. Cardinality(new) <= MAX_OUTGOING_PUBLISHES
  BY <1>6, <1>7, ConstantsAre
<1>9. QED
  BY <1>2, <1>3, <1>8 DEF new

\* The client handles the acknowledgement of an exchange that it began.
LEMMA OutHandled ==
    ASSUME MqttInv, Consume, NEW id \in Ids, Head(toC).type \in FromReceiver, Head(toC).id = id,
           NEW Y \in {{}, {Rec(id, 2, "PubRelSend")}, {Rec(id, 2, "PubCompPending")}},
           Contents(ctx'.out) = OthersOut(id) \cup Y, copies' = CopiesWithout(id),
           copies[id] = NoMsg \/ copies[id] \in Range(got), id \in broker.rel => Y # {},
           \/ toB' = toB
           \/ link /\ toB' = Append(toB, Packet("PUBREL", id, NoMsg)) /\ Y = {Rec(id, 2, "PubCompPending")},
           ContextInv(ctx'), ctx'.in = ctx.in, RecordsInOrder',
           UNCHANGED <<nextId, phase, resume, link, broker, qos, owed, got, delivered, again, acked, used>>
    PROVE  MqttInv'
<1> DEFINE p == Head(toC)
           a == Packet("PUBREL", id, NoMsg)
<1>1. /\ phase = "up" /\ toC # <<>> /\ toC' = Tail(toC)
      /\ toB \in Seq(Packets) /\ toC \in Seq(Packets) /\ toC' \in Seq(Packets)
      /\ p \in Packets /\ Range(toC) = Range(toC') \cup {p}
      /\ OneUnderWay(toB, toC) /\ OneUnderWay(toC, toB)
  BY ConsumeIs
<1>2. TypeInv /\ OutInv /\ InInv /\ OrderInv
  BY DEF MqttInv
<1>3. Quiet(toB, toC', id)
  BY <1>1, TakeBack
<1>4. a \in Packets /\ a.type = "PUBREL" /\ a.id = id /\ a.type \in FromSender
  <2>1. "PUBREL" \in FromSender /\ NoMsg \in Nat /\ id \in Nat
    BY ConstantsAre DEF FromSender, NoMsg
  <2>2. QED
    BY <2>1, PacketIs
<1> HIDE DEF a
<1>5. toB' = toB \/ (link /\ toB' = Append(toB, a) /\ Y = {Rec(id, 2, "PubCompPending")})
  BY DEF a
<1>6. /\ OneUnderWay(toB', toC') /\ OneUnderWay(toC', toB') /\ toB' \in Seq(Packets)
      /\ \A x \in Range(toB') : x \in Range(toB) \/ (x = a /\ Y = {Rec(id, 2, "PubCompPending")})
      /\ Range(toB) \subseteq Range(toB')
      /\ Rising(toB) => Rising(toB')
      /\ ~link => toB' = <<>>
  <2>1. CASE toB' = toB
    BY <1>1, <1>2, <2>1, Taken DEF TypeInv
  <2>2. CASE link /\ toB' = Append(toB, a) /\ Y = {Rec(id, 2, "PubCompPending")}
    <3>1. OneUnderWay(Tail(toC), Append(toB, a)) /\ OneUnderWay(Append(toB, a), Tail(toC))
      BY <1>1, <1>4, Answered
    <3>2. toB' \in Seq(Packets) /\ Range(toB') = Range(toB) \cup {a}
      BY <1>1, <1>4, <2>2, RangeAppend
    <3>3. Rising(toB) => Rising(Append(toB, a))
      BY <1>1, <1>4, RisingAppend
    <3>4. QED
      BY <1>1, <2>2, <3>1, <3>2, <3>3
  <2>3. QED
    BY <1>5, <2>1, <2>2
<1>7. /\ copies' \in [Ids -> OutMsgs \cup {NoMsg}] /\ copies'[id] = NoMsg
      /\ \A i \in Ids : i # id => copies'[i] = copies[i]
      /\ Cardinality({i \in Ids : copies'[i] # NoMsg}) <= MAX_OUTGOING_PUBLISHES
  BY <1>2, CopiesWithoutIs
<1> HIDE DEF p
<1>8. TypeInv'
  BY <1>1, <1>2, <1>6, <1>7 DEF TypeInv, ContextInv, Contexts
<1>9. OutInv'
  <2>1. OutRecords'
    <3>1. \A r \in Y : r.id = id /\ r.qos = 2 /\ r.state \in {"PubRelSend", "PubCompPending"}
      BY DEF Rec
    <3>2. QED
      BY <1>2, <3>1 DEF OutInv, OutRecords, OthersOut
  <2>2. \A i, q, s : i # id /\ Rec(i, q, s) \in Contents(ctx.out) => Rec(i, q, s) \in Contents(ctx'.out)
    <3>1. \A i, q, s : Rec(i, q, s).id = i
      BY DEF Rec
    <3>2. QED
      BY <3>1 DEF OthersOut
  <2>3. CopyInv'
    <3>1. \A i \in Ids : copies'[i] # NoMsg => i # id /\ copies'[i] = copies[i]
      BY <1>7
    <3>2. \A i \in Ids : copies'[i] # NoMsg =>
             /\ copies'[i] <= used.out
             /\ qos[copies'[i]] \in {1, 2}
             /\ Rec(i, qos[copies'[i]], Pending(qos[copies'[i]])) \in Contents(ctx'.out)
      BY <1>2, <2>2, <3>1 DEF OutInv, CopyInv
    <3>3. \A i, j \in Ids : copies'[i] # NoMsg /\ copies'[i] = copies'[j] => i = j
      BY <1>2, <3>1 DEF OutInv, CopyInv
    <3>4. ASSUME NEW r \in Contents(ctx'.out), r.state = Pending(r.qos) PROVE copies'[r.id] # NoMsg
      <4>1. r \notin Y
        <5>1. \A s \in Y : s.qos = 2 /\ s.state \in {"PubRelSend", "PubCompPending"}
          BY DEF Rec
        <5>2. QED
          BY <3>4, <5>1, StatesAre
      <4>2. r \in Contents(ctx.out) /\ r.id # id /\ r.id \in Ids
        BY <1>2, <4>1 DEF OthersOut, OutInv, OutRecords
      <4>3. QED
        BY <1>2, <1>7, <3>4, <4>2 DEF OutInv, CopyInv
    <3>5. ASSUME NEW m \in owed \ Range(got) PROVE \E i \in Ids : copies'[i] = m
      <4>1. PICK i \in Ids : copies[i] = m
        BY <1>2 DEF OutInv, CopyInv
      <4>2. m # NoMsg
        BY <1>2, ConstantsAre DEF TypeInv
      <4>3. i # id
        BY <4>1, <4>2
      <4>4. QED
        BY <1>7, <4>1, <4>3
    <3>6. QED
      BY <1>2, <3>2, <3>3, <3>4, <3>5 DEF OutInv, CopyInv
  <2>4. NoMsg \notin Range(got)
    BY <1>2, TypesAre, ConstantsAre
  <2>5. \A i \in Ids : Reached(i)' <=> Reached(i) /\ i # id
    <3> SUFFICES ASSUME NEW i \in Ids PROVE Reached(i)' <=> Reached(i) /\ i # id
      OBVIOUS
    <3>1. CASE i = id
      BY <1>7, <2>4, <3>1 DEF Reached
    <3>2. CASE i # id
      BY <1>7, <3>2 DEF Reached
    <3>3. QED
      BY <3>1, <3>2
  <2>6. RelInv'
    <3>1. ASSUME NEW i \in broker.rel
          PROVE  Reached(i)' \/ \E state \in ToRelease : Rec(i, 2, state) \in Contents(ctx'.out)
      <4>0. i \in Ids
        BY <1>2 DEF TypeInv
      <4>1. CASE i = id
        <5>1. Y # {}
          BY <3>1, <4>1
        <5>2. \E state \in ToRelease : Rec(i, 2, state) \in Y
          BY <4>1, <5>1 DEF ToRelease
        <5>3. QED
          BY <5>2
      <4>2. CASE i # id
        BY <1>2, <2>2, <2>5, <4>0, <4>2 DEF OutInv, RelInv
      <4>3. QED
        BY <4>1, <4>2
    <3>2. QED
      BY <1>2, <2>5, <3>1 DEF OutInv, RelInv
  <2>7. OutPackets'
    <3>1. \A x \in Range(toB) : x.type \in FromSender => x.id # id
      BY <1>3 DEF Quiet
    <3>2. \A x \in Range(toC') : x.type \in FromReceiver => x.id # id
      BY <1>3 DEF Quiet
    <3>3. ASSUME NEW x \in Range(toB'), x.type = "PUBLISH"
          PROVE  x.id \in Ids /\ x.msg # NoMsg /\ copies'[x.id] = x.msg
      <4>1. x \in Range(toB) /\ x.id # id
        BY <1>4, <1>6, <3>1, <3>3 DEF FromSender
      <4>2. QED
        BY <1>2, <1>7, <3>3, <4>1 DEF OutInv, OutPackets
    <3>4. ASSUME NEW x \in Range(toB'), x.type = "PUBREL"
          PROVE  Rec(x.id, 2, "PubCompPending") \in Contents(ctx'.out)
      <4>1. CASE x \in Range(toB)
        <5>1. x.id # id
          BY <3>1, <3>4, <4>1 DEF FromSender
        <5>2. QED
          BY <1>2, <2>2, <3>4, <4>1, <5>1 DEF OutInv, OutPackets
      <4>2. CASE x \notin Range(toB)
        BY <1>4, <1>6, <4>2
      <4>3. QED
        BY <4>1, <4>2
    <3>5. ASSUME NEW x \in Range(toC'), x.type = "PUBACK"
          PROVE  x.id \in Ids /\ copies'[x.id] \in Range(got) /\ qos[copies'[x.id]] = 1
      <4>1. x \in Range(toC) /\ x.id # id
        BY <1>1, <3>2, <3>5 DEF FromReceiver
      <4>2. QED
        BY <1>2, <1>7, <3>5, <4>1 DEF OutInv, OutPackets
    <3>6. ASSUME NEW x \in Range(toC'), x.type = "PUBREC"
          PROVE  x.id \in Ids /\ copies'[x.id] \in Range(got) /\ qos[copies'[x.id]] = 2
      <4>1. x \in Range(toC) /\ x.id # id
        BY <1>1, <3>2, <3>6 DEF FromReceiver
      <4>2. QED
        BY <1>2, <1>7, <3>6, <4>1 DEF OutInv, OutPackets, Reached
    <3>7. ASSUME NEW x \in Range(toC'), x.type = "PUBCOMP"
          PROVE  Rec(x.id, 2, "PubCompPending") \in Contents(ctx'.out) /\ x.id \notin broker.rel
      <4>1. x \in Range(toC) /\ x.id # id
        BY <1>1, <3>2, <3>7 DEF FromReceiver
      <4>2. QED
        BY <1>2, <2>2, <3>7, <4>1 DEF OutInv, OutPackets
    <3>8. QED
      BY <1>6, <3>3, <3>4, <3>5, <3>6, <3>7 DEF OutPackets, Reached
  <2>8. ResumeInv'
    BY <1>1, NotResuming
  <2>9. QED
    BY <2>1, <2>3, <2>6, <2>7, <2>8 DEF OutInv
<1>10. InInv'
  <2>1. \A x \in Range(toB') : x.type \in FromReceiver => x \in Range(toB)
    BY <1>4, <1>6, TypesApart
  <2>2. again' = {}
    BY <1>2 DEF InInv
  <2>3. QED
    BY <1>1, <1>2, <1>6, <2>1, <2>2, InStays
<1>11. used'.skipped = {} => ArrivalInv'
  <2>1. \A x \in Range(toB') : x.type = "PUBLISH" => x \in Range(toB)
    BY <1>4, <1>6
  <2>2. ArrivalInv => Rising(toB')
    BY <1>6 DEF ArrivalInv
  <2>3. \A i \in Ids : copies'[i] \in {copies[i], NoMsg}
    BY <1>7
  <2>4. QED
    BY <1>1, <1>2, <1>6, <2>1, <2>2, <2>3, ArrivalStays DEF OrderInv
<1>12. QED
  BY <1>8, <1>9, <1>10, <1>11 DEF MqttInv, OrderInv

LEMMA OthersAre ==
    ASSUME TypeInv
    PROVE  /\ \A r \in Contents(ctx.out) : OthersOut(r.id) = Contents(ctx.out) \ {r}
           /\ \A r \in Contents(ctx.in) : OthersIn(r.id) = Contents(ctx.in) \ {r}
<1>1. /\ \A r, s \in Contents(ctx.out) : r.id = s.id => r = s
      /\ \A r, s \in Contents(ctx.in) : r.id = s.id => r = s
  BY TypesAre, RecordsAre, ConstantsAre
<1>2. QED
  BY <1>1 DEF OthersOut, OthersIn

\* What all cases of ReceiveAck share.
LEMMA ReceiveAckIs ==
    ASSUME MqttInv, ReceiveAck
    PROVE  LET p == Head(toC)
               updated == UpdateStateAck(ctx, p.id, p.type, "RECEIVE")
           IN  /\ Consume /\ p \in Range(toC) /\ p.type \in PubAckTypes /\ ContextInv(ctx)
               /\ UNCHANGED <<nextId, phase, resume, link, broker, qos, owed, got, delivered, again, acked, used>>
               /\ updated.status = "Success" =>
                     /\ copies' = CopiesAfter(p.type, p.id)
                     /\ \E ok \in SendResults : SendPublishAcks(updated.ctx, p.id, updated.state, ok)
               /\ updated.status # "Success" => ctx' = updated.ctx /\ UNCHANGED <<copies, toB>>
<1>1. Consume
  BY DEF ReceiveAck
<1>2. Head(toC) \in Range(toC) /\ ContextInv(ctx)
  BY <1>1, ConsumeIs, TypesAre DEF MqttInv
<1>3. QED
  BY <1>1, <1>2 DEF ReceiveAck, history

\* PUBACK or PUBCOMP ends an exchange of the client's.
LEMMA ReceiveDone ==
    ASSUME MqttInv, ReceiveAck, Head(toC).type \in {"PUBACK", "PUBCOMP"}
    PROVE  MqttInv'
<1> DEFINE p == Head(toC)
<1>1. /\ Consume /\ p \in Range(toC) /\ ContextInv(ctx)
      /\ UNCHANGED <<nextId, phase, resume, link, broker, qos, owed, got, delivered, again, acked, used>>
  BY ReceiveAckIs
<1>2. TypeInv /\ OutInv /\ OrderInv
  BY DEF MqttInv
<1>3. PICK id \in Ids, type \in {"PUBACK", "PUBCOMP"}, r \in Contents(ctx.out) :
         /\ p.id = id /\ p.type = type
         /\ r = IF type = "PUBACK" THEN Rec(id, 1, "PubAckPending") ELSE Rec(id, 2, "PubCompPending")
         /\ type = "PUBACK" => copies[id] \in Range(got) /\ id \notin broker.rel
         /\ type = "PUBCOMP" => copies[id] = NoMsg /\ id \notin broker.rel
  <2>1. CASE p.type = "PUBACK"
    <3>1. p.id \in Ids /\ copies[p.id] \in Range(got) /\ qos[copies[p.id]] = 1
      BY <1>1, <1>2, <2>1 DEF OutInv, OutPackets
    <3>2. copies[p.id] # NoMsg
      BY <1>2, <3>1, TypesAre, ConstantsAre
    <3>3. Rec(p.id, 1, "PubAckPending") \in Contents(ctx.out)
      BY <1>2, <3>1, <3>2, StatesAre DEF OutInv, CopyInv
    <3>4. p.id \notin broker.rel
      <4>1. SUFFICES ASSUME p.id \in broker.rel PROVE FALSE
        OBVIOUS
      <4>2. ~Reached(p.id)
        BY <3>1 DEF Reached
      <4>3. PICK state \in ToRelease : Rec(p.id, 2, state) \in Contents(ctx.out)
        BY <1>2, <4>1, <4>2 DEF OutInv, RelInv
      <4>4. Rec(p.id, 2, state).id = Rec(p.id, 1, "PubAckPending").id
        BY DEF Rec
      <4>5. Rec(p.id, 2, state) = Rec(p.id, 1, "PubAckPending")
        BY <1>2, <3>3, <4>3, <4>4, TypesAre, RecordsAre, ConstantsAre
      <4>6. QED
        BY <4>5 DEF Rec
    <3>5. QED
      BY <2>1, <3>1, <3>3, <3>4
  <2>2. CASE p.type = "PUBCOMP"
    <3>1. Rec(p.id, 2, "PubCompPending") \in Contents(ctx.out) /\ p.id \notin broker.rel
      BY <1>1, <1>2, <2>2 DEF OutInv, OutPackets
    <3>2. Rec(p.id, 2, "PubCompPending").id = p.id /\ Rec(p.id, 2, "PubCompPending").state = "PubCompPending"
      BY DEF Rec
    <3>3. p.id \in Ids
      BY <1>2, <3>1, <3>2 DEF OutInv, OutRecords
    <3>4. copies[p.id] = NoMsg
      <4>1. SUFFICES ASSUME copies[p.id] # NoMsg PROVE FALSE
        OBVIOUS
      <4>2. PICK q \in {1, 2} : Rec(p.id, q, Pending(q)) \in Contents(ctx.out)
        BY <1>2, <3>3, <4>1 DEF OutInv, CopyInv
      <4>3. Rec(p.id, q, Pending(q)).id = p.id /\ Rec(p.id, q, Pending(q)).state = Pending(q)
        BY DEF Rec
      <4>4. Rec(p.id, q, Pending(q)) = Rec(p.id, 2, "PubCompPending")
        BY <1>2, <3>1, <3>2, <4>2, <4>3, TypesAre, RecordsAre, ConstantsAre
      <4>5. QED
        BY <3>2, <4>3, <4>4, StatesAre DEF ToPublish
    <3>5. QED
      BY <2>2, <3>1, <3>3, <3>4
  <2>3. QED
    BY <2>1, <2>2
<1> DEFINE updated == UpdateStateAck(ctx, id, type, "RECEIVE")
<1>4. /\ updated.status = "Success" /\ updated.state = "PublishDone"
      /\ ContextInv(updated.ctx) /\ updated.ctx.in = ctx.in
      /\ Contents(updated.ctx.out) = Contents(ctx.out) \ {r} /\ MovedUp(updated.ctx.out, ctx.out)
  <2>1. \/ type = "PUBACK" /\ Rec(id, 1, "PubAckPending") \in Contents(ctx.out)
        \/ type = "PUBCOMP" /\ Rec(id, 2, "PubCompPending") \in Contents(ctx.out)
    BY <1>3
  <2>2. LET new == UpdateStateAck(ctx, id, type, "RECEIVE")
            s == IF type = "PUBACK" THEN Rec(id, 1, "PubAckPending") ELSE Rec(id, 2, "PubCompPending")
        IN  /\ new.status = "Success" /\ new.state = "PublishDone"
            /\ ContextInv(new.ctx) /\ new.ctx.in = ctx.in
            /\ Contents(new.ctx.out) = Contents(ctx.out) \ {s} /\ MovedUp(new.ctx.out, ctx.out)
    BY <1>1, <2>1, GetsDone
  <2>3. QED
    BY <1>3, <2>2
<1>5. /\ copies' = CopiesAfter(type, id)
      /\ \E ok \in SendResults : SendPublishAcks(updated.ctx, id, updated.state, ok)
  BY <1>3, <1>4, ReceiveAckIs
<1> HIDE DEF updated
<1>6. ctx' = updated.ctx /\ toB' = toB
  BY <1>4, <1>5 DEF SendPublishAcks, AckTypeToSend
<1>7. copies' = CopiesWithout(id)
  <2>1. CASE type = "PUBACK"
    BY <1>5, <2>1, MqttAssumption DEF CopiesAfter
  <2>2. CASE type = "PUBCOMP"
    <3>1. copies' = copies
      BY <1>5, <2>2, MqttAssumption DEF CopiesAfter
    <3>2. QED
      BY <1>2, <1>3, <2>2, <3>1, CopiesWithoutIs
  <2>3. QED
    BY <2>1, <2>2
<1>8. Contents(ctx'.out) = OthersOut(id) \cup {}
  <2>1. r.id = id
    BY <1>3 DEF Rec
  <2>2. QED
    BY <1>2, <1>4, <1>6, <2>1, OthersAre
<1>9. RecordsInOrder'
  <2>1. \A i \in Ids : copies'[i] \in {copies[i], NoMsg}
    BY <1>2, <1>7, CopiesWithoutIs
  <2>2. QED
    BY <1>2, <1>4, <1>6, <2>1, RecordsInOrderStays DEF OrderInv
<1>10. Head(toC).type \in FromReceiver /\ Head(toC).id = id /\ (copies[id] = NoMsg \/ copies[id] \in Range(got))
       /\ id \notin broker.rel
  BY <1>3 DEF FromReceiver
<1>11. QED
  BY <1>1, <1>4, <1>6, <1>7, <1>8, <1>9, <1>10, OutHandled

\* PUBREC: the copy is given up, and PUBREL is to follow.
LEMMA ReceivePubrec ==
    ASSUME MqttInv, ReceiveAck, Head(toC).type = "PUBREC"
    PROVE  MqttInv'
<1>1. /\ Consume /\ Head(toC) \in Range(toC) /\ ContextInv(ctx)
      /\ UNCHANGED <<nextId, phase, resume, link, broker, qos, owed, got, delivered, again, acked, used>>
  BY ReceiveAckIs
<1>2. TypeInv /\ OutInv /\ OrderInv
  BY DEF MqttInv
<1>3. PICK id \in Ids : Head(toC).id = id /\ Reached(id)
  BY <1>1, <1>2 DEF OutInv, OutPackets
<1> DEFINE r == Rec(id, 2, "PubRecPending")
           s == Rec(id, 2, "PubRelSend")
           t == Rec(id, 2, "PubCompPending")
           updated == UpdateStateAck(ctx, id, "PUBREC", "RECEIVE")
           c == updated.ctx
<1>4. r \in Contents(ctx.out)
  <2>1. copies[id] # NoMsg /\ qos[copies[id]] = 2
    BY <1>2, <1>3, TypesAre, ConstantsAre DEF Reached
  <2>2. QED
    BY <1>2, <2>1, StatesAre DEF OutInv, CopyInv
<1>5. /\ updated.status = "Success" /\ updated.state = "PubRelSend"
      /\ ContextInv(c) /\ c.in = ctx.in
      /\ Contents(c.out) = (Contents(ctx.out) \ {r}) \cup {s}
      /\ MovedBefore(c.out, ctx.out, s)
  BY <1>1, <1>4, GetsPubrec
<1>6. /\ copies' = CopiesAfter("PUBREC", id)
      /\ \E ok \in SendResults : SendPublishAcks(c, id, "PubRelSend", ok)
  BY <1>3, <1>5, ReceiveAckIs
<1> HIDE DEF updated, c
<1>7. copies' = CopiesWithout(id)
  <2>1. copies[id] \in OutMsgs /\ qos[copies[id]] = 2
    BY <1>2, <1>3, TypesAre, ConstantsAre DEF Reached
  <2>2. "PUBREC" \in Releases
    BY <1>2, <2>1, MqttAssumption DEF TypeInv
  <2>3. QED
    BY <1>6, <2>2 DEF CopiesAfter
<1>8. r.id = id /\ s.id = id /\ t.id = id /\ OthersOut(id) = Contents(ctx.out) \ {r}
  <2>1. r.id = id /\ s.id = id /\ t.id = id
    BY DEF Rec
  <2>2. QED
    BY <1>2, <1>4, <2>1, OthersAre
<1> HIDE DEF r
<1>9. AckTypeToSend("PubRelSend") = {"PUBREL"}
  BY DEF AckTypeToSend
<1>10. \/ ctx' = c /\ toB' = toB
       \/ /\ ctx' = UpdateStateAck(c, id, "PUBREL", "SEND").ctx
          /\ toB' = IF link THEN Append(toB, Packet("PUBREL", id, NoMsg)) ELSE toB
  BY <1>6, <1>9, SendAcksIs
<1>11. Head(toC).type \in FromReceiver /\ Head(toC).id = id /\ copies[id] \in Range(got)
  BY <1>3 DEF FromReceiver, Reached
<1>12. \A i \in Ids : i # id => copies'[i] = copies[i]
  BY <1>2, <1>7, CopiesWithoutIs
<1>13. copies'[id] = NoMsg
  BY <1>2, <1>7, CopiesWithoutIs
<1>14. ASSUME SameIds(ctx'.out, c.out) PROVE RecordsInOrder'
  <2>1. SUFFICES ASSUME NEW k \in Used(ctx'.out), NEW l \in Used(ctx'.out), k < l,
                        copies'[ctx'.out[k].id] # NoMsg, copies'[ctx'.out[l].id] # NoMsg
                 PROVE  copies'[ctx'.out[k].id] < copies'[ctx'.out[l].id]
    BY DEF RecordsInOrder
  <2>2. k \in Used(c.out) /\ l \in Used(c.out) /\ ctx'.out[k].id = c.out[k].id /\ ctx'.out[l].id = c.out[l].id
    BY <1>14 DEF SameIds
  <2>3. c.out[l] # s
    BY <1>8, <1>13, <2>1, <2>2
  <2>4. PICK i, j \in Used(ctx.out) : i < j /\ ctx.out[i] = c.out[k] /\ ctx.out[j] = c.out[l]
    BY <1>5, <2>1, <2>2, <2>3 DEF MovedBefore
  <2>5. ctx.out[i].id \in Ids /\ ctx.out[j].id \in Ids
    BY <1>2 DEF OutInv, OutRecords, Contents
  <2>6. /\ copies'[ctx'.out[k].id] = copies[ctx.out[i].id]
        /\ copies'[ctx'.out[l].id] = copies[ctx.out[j].id]
    BY <1>12, <1>13, <2>1, <2>2, <2>4, <2>5
  <2>7. QED
    BY <1>2, <2>1, <2>4, <2>6 DEF OrderInv, RecordsInOrder
<1>15. CASE ctx' = c /\ toB' = toB
  <2>1. Contents(ctx'.out) = OthersOut(id) \cup {s}
    BY <1>5, <1>8, <1>15
  <2>2. RecordsInOrder'
    BY <1>14, <1>15 DEF SameIds
  <2>3. QED
    BY <1>1, <1>5, <1>7, <1>11, <1>15, <2>1, <2>2, OutHandled
<1>16. CASE /\ ctx' = UpdateStateAck(c, id, "PUBREL", "SEND").ctx
            /\ toB' = IF link THEN Append(toB, Packet("PUBREL", id, NoMsg)) ELSE toB
  <2>1. "PubRelSend" \in ToRelease /\ s \in Contents(c.out)
    BY <1>5 DEF ToRelease
  <2>2. LET sent == UpdateStateAck(c, id, "PUBREL", "SEND")
        IN  /\ ContextInv(sent.ctx) /\ sent.ctx.in = c.in
            /\ Contents(sent.ctx.out) = (Contents(c.out) \ {s}) \cup {t}
            /\ SameIds(sent.ctx.out, c.out)
    BY <1>5, <2>1, SendsPubrel
  <2>3. /\ ContextInv(ctx') /\ ctx'.in = ctx.in
        /\ Contents(ctx'.out) = (Contents(c.out) \ {s}) \cup {t}
        /\ SameIds(ctx'.out, c.out)
    BY <1>5, <1>16, <2>2
  <2>4. Contents(ctx'.out) = OthersOut(id) \cup {t}
    <3>1. \A x \in OthersOut(id) : x # s
      BY <1>8 DEF OthersOut
    <3>2. QED
      BY <1>5, <1>8, <2>3, <3>1
  <2>5. RecordsInOrder'
    BY <1>14, <2>3
  <2>6. \/ toB' = toB
        \/ link /\ toB' = Append(toB, Packet("PUBREL", id, NoMsg))
    BY <1>16
  <2>7. {t} # {}
    OBVIOUS
  <2>8. QED
    BY <1>1, <1>7, <1>11, <2>3, <2>4, <2>5, <2>6, <2>7, OutHandled
<1>17. QED
  BY <1>10, <1>15, <1>16

\* PUBREL: the exchange ends with PUBCOMP, or stays with a record that asks for it.
LEMMA ReceivePubrel ==
    ASSUME MqttInv, ReceiveAck, Head(toC).type = "PUBREL"
    PROVE  MqttInv'
<1>1. /\ Consume /\ Head(toC) \in Range(toC) /\ ContextInv(ctx)
      /\ UNCHANGED <<nextId, phase, resume, link, broker, qos, owed, got, delivered, again, acked, used>>
  BY ReceiveAckIs
<1>2. TypeInv /\ OutInv /\ InInv /\ OrderInv
  BY DEF MqttInv
<1>3. PICK e \in Entries : e.id = Head(toC).id /\ e.rel
  BY <1>1, <1>2 DEF InInv, InPackets
<1>4. PICK id \in Nat \ {0} : id = e.id
  BY <1>2, EntriesAre DEF MqttInv
<1>5. qos[e.msg] = 2 /\ e.msg \in delivered /\ delivered' = delivered \cup {e.msg} /\ Head(toC).type \in FromSender
      /\ Head(toC).id = id
  BY <1>1, <1>2, <1>3, <1>4 DEF InInv, SentInv, FromSender
<1>6. /\ toC # <<>> /\ toC' = Tail(toC) /\ toC' \in Seq(Packets) /\ toC \in Seq(Packets) /\ toB \in Seq(Packets)
      /\ Range(toC') \subseteq Range(toC) /\ OneUnderWay(toB, toC) /\ OneUnderWay(toC, toB)
  BY <1>1, ConsumeIs
<1>7. delivered' \subseteq InMsgs
  BY <1>1, <1>2 DEF TypeInv
<1> DEFINE updated == UpdateStateAck(ctx, id, "PUBREL", "RECEIVE")
           c == updated.ctx
<1>8. /\ updated.status = "Success" =>
             /\ copies' = CopiesAfter("PUBREL", id)
             /\ \E ok \in SendResults : SendPublishAcks(c, id, updated.state, ok)
      /\ updated.status # "Success" => ctx' = c /\ UNCHANGED <<copies, toB>>
  BY <1>5, ReceiveAckIs
<1>9. CASE NoRecord(id)
  <2>1. updated.status # "Success" /\ c = ctx
    BY <1>1, <1>9, GetsPubrelWithout DEF NoRecord
  <2>2. ctx' = ctx /\ UNCHANGED <<copies, toB>>
    BY <1>8, <2>1
  <2>3. OneUnderWay(toB', toC') /\ OneUnderWay(toC', toB') /\ again' = {}
    BY <1>1, <1>2, <1>6, <2>2, Taken DEF InInv
  <2>4. InInv'
    BY <1>1, <1>2, <1>6, <2>2, <2>3, InStays
  <2>5. TypeInv' /\ OutInv' /\ OrderInv'
    BY <1>1, <1>6, <1>7, <2>2, <2>3, InHandledRest
  <2>6. QED
    BY <2>4, <2>5 DEF MqttInv
<1>10. CASE ~NoRecord(id)
  <2>1. PICK r \in Contents(ctx.in) : r.id = id
    BY <1>10 DEF NoRecord
  <2>2. InRecord(r, e)
    BY <1>2, <1>4, <2>1, InRecordsAre DEF MqttInv
  <2>3. PICK s \in ToComplete : r = Rec(id, 2, s)
    <3>1. r.qos = 2 /\ r.state \in ToComplete
      BY <1>3, <1>5, <2>2 DEF InRecord, ToComplete
    <3>2. r = Rec(r.id, r.qos, r.state)
      BY <1>1, <2>1, RecordsAre, ConstantsAre DEF ContextInv
    <3>3. QED
      BY <2>1, <3>1, <3>2
  <2> DEFINE t == Rec(id, 2, "PubCompSend")
  <2>4. /\ updated.status = "Success" /\ updated.state = "PubCompSend"
        /\ ContextInv(c) /\ c.out = ctx.out
        /\ Contents(c.in) = (Contents(ctx.in) \ {r}) \cup {t}
    <3>1. Rec(id, 2, s) \in Contents(ctx.in)
      BY <2>1, <2>3
    <3>2. LET new == UpdateStateAck(ctx, id, "PUBREL", "RECEIVE")
          IN  /\ new.status = "Success" /\ new.state = "PubCompSend"
              /\ ContextInv(new.ctx) /\ new.ctx.out = ctx.out
              /\ Contents(new.ctx.in) = (Contents(ctx.in) \ {Rec(id, 2, s)}) \cup {t}
      BY <1>1, <3>1, GetsPubrel
    <3>3. QED
      BY <2>3, <3>2
  <2>5. PICK ok \in SendResults : SendPublishAcks(c, id, "PubCompSend", ok)
    BY <1>8, <2>4
  <2>6. copies' = copies
    BY <1>8, <2>4, MqttAssumption DEF CopiesAfter
  <2> HIDE DEF updated, c
  <2>7. t.id = id /\ t.qos = 2 /\ t.state = "PubCompSend"
    BY DEF Rec
  <2>8. OthersIn(id) = Contents(ctx.in) \ {r} /\ t \notin OthersIn(id)
    BY <1>2, <2>1, <2>7, OthersAre DEF OthersIn
  <2>9. ~link => toB' = toB
    BY <2>5, NotSent
  <2>10. PICK X \in {{}, {t}} :
           /\ ContextInv(ctx') /\ ctx'.out = ctx.out /\ Contents(ctx'.in) = OthersIn(id) \cup X
           /\ toB' = toB \/ (toB' = Append(toB, Packet("PUBCOMP", id, NoMsg)) /\ X = {})
    <3>1. AckTypeToSend("PubCompSend") = {"PUBCOMP"}
      BY DEF AckTypeToSend
    <3>2. CASE ctx' = c /\ toB' = toB
      BY <2>4, <2>8, <3>2
    <3>3. CASE /\ ctx' = UpdateStateAck(c, id, "PUBCOMP", "SEND").ctx
               /\ toB' = IF link THEN Append(toB, Packet("PUBCOMP", id, NoMsg)) ELSE toB
      <4>1. t \in Contents(c.in)
        BY <2>4
      <4>2. LET sent == UpdateStateAck(c, id, "PUBCOMP", "SEND")
            IN  ContextInv(sent.ctx) /\ sent.ctx.out = c.out /\ Contents(sent.ctx.in) = Contents(c.in) \ {t}
        BY <2>4, <4>1, SendsDone
      <4>3. ContextInv(ctx') /\ ctx'.out = ctx.out /\ Contents(ctx'.in) = OthersIn(id) \cup {}
        BY <2>4, <2>8, <3>3, <4>2
      <4>4. toB' = toB \/ toB' = Append(toB, Packet("PUBCOMP", id, NoMsg))
        BY <3>3
      <4>5. QED
        BY <4>3, <4>4
    <3>4. QED
      BY <2>5, <3>1, <3>2, <3>3, SendAcksIs
  <2>11. ASSUME NEW x \in X PROVE x.id = e.id /\ InRecord(x, e)'
    <3>1. x = t
      BY <2>10, <2>11
    <3>2. /\ x.id = e.id /\ e.msg \in delivered' /\ x.qos = qos'[e.msg]
          /\ x.state \in IF x.qos = 1 THEN {"PubAckSend"}
                         ELSE IF e.rel THEN {"PubRelPending", "PubCompSend"} ELSE {"PubRecSend", "PubRelPending"}
      BY <1>1, <1>3, <1>4, <1>5, <2>7, <3>1
    <3>3. QED
      BY <3>2 DEF InRecord
  <2>12. Answers(X, e)
    <3>1. CASE toB' = toB
      BY <3>1 DEF Answers
    <3>2. CASE toB' = Append(toB, Packet("PUBCOMP", id, NoMsg)) /\ X = {}
      <4> DEFINE a == Packet("PUBCOMP", id, NoMsg)
      <4>1. a \in Packets /\ a.type = "PUBCOMP" /\ a.id = e.id
        <5>1. "PUBCOMP" \in FromReceiver /\ NoMsg \in Nat /\ id \in Nat
          BY <1>4 DEF FromReceiver, NoMsg
        <5>2. QED
          BY <1>4, <5>1, PacketIs
      <4> HIDE DEF a
      <4>2. AnswerFits(a, X, e)
        BY <1>3, <3>2, <4>1 DEF AnswerFits
      <4>3. QED
        BY <3>2, <4>1, <4>2 DEF Answers, a
    <3>3. QED
      BY <2>10, <3>1, <3>2
  <2>13. /\ InInv' /\ OneUnderWay(toB', toC') /\ OneUnderWay(toC', toB') /\ toB' \in Seq(Packets)
         /\ \A x \in Range(toB') : x \in Range(toB) \/ x.type \in FromReceiver
         /\ Range(toB) \subseteq Range(toB')
         /\ Rising(toB) => Rising(toB')
    <3>1. Contents(ctx'.in) = OthersIn(e.id) \cup X
      BY <1>4, <2>10
    <3>2. QED
      BY <1>1, <1>3, <1>5, <2>11, <2>12, <3>1, InHandled
  <2>14. TypeInv' /\ OutInv' /\ OrderInv'
    BY <1>1, <1>7, <2>6, <2>9, <2>10, <2>13, InHandledRest
  <2>15. QED
    BY <2>13, <2>14 DEF MqttInv
<1>11. QED
  BY <1>9, <1>10

LEMMA ReceiveAckKeeps ==
    ASSUME MqttInv, ReceiveAck
    PROVE  MqttInv'
<1>1. Head(toC).type \in {"PUBACK", "PUBREC", "PUBREL", "PUBCOMP"}
  BY DEF ReceiveAck, PubAckTypes
<1>2. QED
  BY <1>1, ReceiveDone, ReceivePubrec, ReceivePubrel
-----------------------------------------------------------------------------
(* Publishing *)

\* Of a packet id without a record nothing is left anywhere.
LEMMA NothingOpen ==
    ASSUME MqttInv, NEW id \in Ids, ~HasId(ctx.out, id)
    PROVE  copies[id] = NoMsg /\ id \notin broker.rel /\ Quiet(toB, toC, id)
<1>1. TypeInv /\ OutRecords /\ CopyInv /\ RelInv /\ OutPackets
  BY DEF MqttInv, OutInv
<1>2. \A q, state : Rec(id, q, state) \notin Contents(ctx.out)
  <2>1. \A q, state : Rec(id, q, state).id = id
    BY DEF Rec
  <2>2. QED
    BY <2>1 DEF HasId
<1>3. copies[id] = NoMsg
  BY <1>1, <1>2 DEF CopyInv
<1>4. copies[id] \notin Range(got)
  BY <1>1, <1>3, TypesAre, ConstantsAre
<1>5. id \notin broker.rel
  BY <1>1, <1>2, <1>4 DEF RelInv, Reached
<1>6. ASSUME NEW p \in Range(toB), p.type \in FromSender PROVE p.id # id
  BY <1>1, <1>2, <1>3, <1>6 DEF OutPackets, FromSender
<1>7. ASSUME NEW p \in Range(toC), p.type \in FromReceiver PROVE p.id # id
  BY <1>1, <1>2, <1>4, <1>7 DEF OutPackets, FromReceiver, Reached
<1>8. QED
  BY <1>3, <1>5, <1>6, <1>7 DEF Quiet

\* The next message is none that was seen before.
LEMMA NextMessage ==
    ASSUME MqttInv, used.out < MaxOut
    PROVE  /\ used.out + 1 \in OutMsgs /\ used.out \in Nat
           /\ \A i \in Ids : copies[i] < used.out + 1
           /\ \A x \in owed \cup Range(got) : x < used.out + 1
           /\ used.out + 1 \notin owed \cup Range(got)
           /\ [used EXCEPT !.out = used.out + 1] \in Usage
<1>1. TypeInv /\ CopyInv
  BY DEF MqttInv, OutInv
<1>2. used.out \in Nat /\ MaxOut \in Nat /\ used \in Usage
  BY <1>1, TypesAre, ConstantsAre DEF TypeInv
<1>3. used.out + 1 \in OutMsgs /\ used.out + 1 \in 0..MaxOut
  BY <1>2 DEF OutMsgs
<1>4. ASSUME NEW i \in Ids PROVE copies[i] < used.out + 1
  <2>1. copies[i] \in Nat
    BY <1>1, TypesAre
  <2>2. CASE copies[i] = NoMsg
    BY <1>2, <2>2 DEF NoMsg
  <2>3. CASE copies[i] # NoMsg
    <3>1. copies[i] <= used.out
      BY <1>1, <2>3 DEF CopyInv
    <3>2. QED
      BY <1>2, <2>1, <3>1
  <2>4. QED
    BY <2>2, <2>3
<1>5. ASSUME NEW x \in owed \cup Range(got) PROVE x < used.out + 1 /\ x # used.out + 1
  <2>1. x \in Nat /\ x <= used.out
    BY <1>1, TypesAre, ConstantsAre DEF CopyInv, TypeInv
  <2>2. QED
    BY <1>2, <2>1
<1>6. [used EXCEPT !.out = used.out + 1] \in Usage
  BY <1>2, <1>3 DEF Usage
<1>7. QED
  BY <1>2, <1>3, <1>4, <1>5, <1>6

\* A record is added behind the others, for a message later than theirs or for none.
LEMMA OrderAdded ==
    ASSUME MqttInv, used.out < MaxOut, NEW records, RecordsInv(records, OUTGOING_COUNT), NEW r, r.id \in Ids,
           ~HasId(ctx.out, r.id), AddedTo(records, ctx.out, r), SameIds(ctx'.out, records),
           \A i \in Ids : i # r.id => copies'[i] = copies[i],
           copies'[r.id] \in {NoMsg, used.out + 1}
    PROVE  RecordsInOrder'
<1>1. TypeInv /\ OutRecords /\ RecordsInOrder
  BY DEF MqttInv, OutInv, OrderInv
<1>2. SUFFICES ASSUME NEW k \in Used(ctx'.out), NEW l \in Used(ctx'.out), k < l,
                      copies'[ctx'.out[k].id] # NoMsg, copies'[ctx'.out[l].id] # NoMsg
               PROVE  copies'[ctx'.out[k].id] < copies'[ctx'.out[l].id]
  BY DEF RecordsInOrder
<1>3. /\ k \in Used(records) /\ l \in Used(records)
      /\ ctx'.out[k].id = records[k].id /\ ctx'.out[l].id = records[l].id
  BY DEF SameIds
<1>4. Contents(records) = Contents(ctx.out) \cup {r}
  BY DEF AddedTo
<1>5. \A j \in Used(records) : records[j] # r => records[j].id # r.id /\ records[j].id \in Ids
  <2>1. \A j \in Used(records) : records[j] \in Contents(records)
    BY DEF Contents
  <2>2. QED
    BY <1>1, <1>4, <2>1 DEF HasId, OutRecords
<1>6. records[k] # r /\ (records[l] = r \/ \E i, j \in Used(ctx.out) : i < j /\ ctx.out[i] = records[k] /\ ctx.out[j] = records[l])
  BY <1>2, <1>3 DEF AddedTo, MovedBefore
<1>7. copies'[records[k].id] = copies[records[k].id] /\ records[k].id \in Ids
  BY <1>3, <1>5, <1>6
<1>8. CASE records[l] = r
  <2>1. copies'[records[l].id] = used.out + 1
    BY <1>2, <1>3, <1>8
  <2>2. QED
    BY <1>3, <1>7, <2>1, NextMessage
<1>9. CASE records[l] # r
  <2>1. PICK i, j \in Used(ctx.out) : i < j /\ ctx.out[i] = records[k] /\ ctx.out[j] = records[l]
    BY <1>6, <1>9
  <2>2. copies'[records[l].id] = copies[records[l].id]
    BY <1>3, <1>5, <1>9
  <2>3. QED
    BY <1>1, <1>2, <1>3, <1>7, <2>1, <2>2 DEF RecordsInOrder
<1>10. QED
  BY <1>8, <1>9

\* A publish that is refused: at most the records have moved up.
LEMMA PublishRefused ==
    ASSUME MqttInv, phase = "up", used.out < MaxOut, nextId' \in Ids,
           ContextInv(ctx'), ctx'.in = ctx.in, Contents(ctx'.out) = Contents(ctx.out), MovedUp(ctx'.out, ctx.out),
           used' = [used EXCEPT !.out = used.out + 1],
           UNCHANGED <<copies, phase, resume, link, toB, toC, broker, qos, owed, got, delivered, again, acked>>
    PROVE  MqttInv'
<1>1. TypeInv /\ OutInv /\ InInv /\ OrderInv
  BY DEF MqttInv
<1>2. used \in Usage /\ used' \in Usage
  BY <1>1, NextMessage DEF TypeInv
<1>3. used'.out = used.out + 1 /\ used'.in = used.in /\ used'.skipped = used.skipped
  BY <1>2 DEF Usage
<1>4. used.out \in Nat /\ used'.out \in Nat /\ used'.out >= used.out
  BY <1>3, NextMessage
<1>5. TypeInv'
  BY <1>1, <1>2 DEF TypeInv, ContextInv, Contexts
<1>6. OneUnderWay(toB', toC') /\ OneUnderWay(toC', toB') /\ again' = {}
  BY <1>1 DEF OutInv, OutPackets, InInv, InPackets
<1>7. ResumeInv'
  BY NotResuming
<1>8. OutInv'
  BY <1>1, <1>4, <1>6, <1>7, OutStays
<1>9. InInv'
  BY <1>1, <1>3, <1>6, InStays
<1>10. RecordsInOrder'
  BY <1>1, RecordsInOrderStays DEF OrderInv
<1>11. used'.skipped = {} => ArrivalInv'
  <2>1. ArrivalInv => Rising(toB')
    BY DEF ArrivalInv
  <2>2. QED
    BY <1>1, <1>3, <2>1, ArrivalStays DEF OrderInv
<1>12. QED
  BY <1>5, <1>8, <1>9, <1>10, <1>11 DEF MqttInv, OrderInv

\* A publish that could not be sent: its record stays as it was reserved.
LEMMA PublishLost ==
    ASSUME MqttInv, phase = "up", used.out < MaxOut, nextId' \in Ids,
           NEW id \in Ids, NEW q \in {1, 2}, ~HasId(ctx.out, id),
           ContextInv(ctx'), ctx'.in = ctx.in, AddedTo(ctx'.out, ctx.out, Rec(id, q, "PublishSend")),
           used' = [used EXCEPT !.out = used.out + 1],
           UNCHANGED <<copies, phase, resume, link, toB, toC, broker, qos, owed, got, delivered, again, acked>>
    PROVE  MqttInv'
<1> DEFINE r == Rec(id, q, "PublishSend")
<1>1. TypeInv /\ OutInv /\ InInv /\ OrderInv
  BY DEF MqttInv
<1>2. used \in Usage /\ used' \in Usage
  BY <1>1, NextMessage DEF TypeInv
<1>3. used'.out = used.out + 1 /\ used'.in = used.in /\ used'.skipped = used.skipped
  BY <1>2 DEF Usage
<1>4. used.out \in Nat /\ used'.out \in Nat /\ used'.out >= used.out
  BY <1>3, NextMessage
<1>5. TypeInv'
  BY <1>1, <1>2 DEF TypeInv, ContextInv, Contexts
<1>6. OneUnderWay(toB', toC') /\ OneUnderWay(toC', toB') /\ again' = {}
  BY <1>1 DEF OutInv, OutPackets, InInv, InPackets
<1>7. ResumeInv'
  BY NotResuming
<1>8. r.id = id /\ r.qos = q /\ r.state = "PublishSend" /\ Contents(ctx'.out) = Contents(ctx.out) \cup {r}
  BY DEF Rec, AddedTo
<1> HIDE DEF r
<1>9. OutRecords'
  BY <1>1, <1>8 DEF OutInv, OutRecords
<1>10. CopyInv'
  <2>1. \A i \in Ids : copies[i] \in Nat
    BY <1>1, TypesAre
  <2>2. \A i \in Ids : copies[i] # NoMsg =>
          /\ copies[i] <= used'.out
          /\ qos[copies[i]] \in {1, 2}
          /\ Rec(i, qos[copies[i]], Pending(qos[copies[i]])) \in Contents(ctx'.out)
    BY <1>1, <1>4, <1>8, <2>1 DEF OutInv, CopyInv
  <2>3. r.state # Pending(r.qos)
    BY <1>8, StatesAre
  <2>4. \A x \in Contents(ctx'.out) : x.state = Pending(x.qos) => copies[x.id] # NoMsg
    BY <1>1, <1>8, <2>3 DEF OutInv, CopyInv
  <2>5. ASSUME NEW x \in owed \cup Range(got) PROVE x <= used'.out
    <3>1. x \in Nat /\ x <= used.out
      BY <1>1, TypesAre, ConstantsAre DEF OutInv, CopyInv, TypeInv
    <3>2. QED
      BY <1>4, <3>1
  <2>6. QED
    BY <1>1, <2>2, <2>4, <2>5 DEF OutInv, CopyInv
<1>11. \A i \in Ids : Reached(i)' <=> Reached(i)
  BY DEF Reached
<1>12. RelInv'
  <2>1. broker.rel \subseteq Ids
    BY <1>1 DEF TypeInv
  <2>2. QED
    BY <1>1, <1>8, <1>11, <2>1 DEF OutInv, RelInv
<1>13. OutPackets'
  BY <1>1, <1>6, <1>8, <1>11 DEF OutInv, OutPackets
<1>14. InInv'
  BY <1>1, <1>3, <1>6, InStays
<1>15. RecordsInOrder'
  <2>1. copies[id] = NoMsg
    BY NothingOpen
  <2>2. RecordsInv(ctx'.out, OUTGOING_COUNT) /\ SameIds(ctx'.out, ctx'.out)
    BY DEF ContextInv, SameIds
  <2>3. AddedTo(ctx'.out, ctx.out, r)
    BY DEF r
  <2>4. QED
    BY <1>8, <2>1, <2>2, <2>3, OrderAdded
<1>16. used'.skipped = {} => ArrivalInv'
  <2>1. ArrivalInv => Rising(toB')
    BY DEF ArrivalInv
  <2>2. QED
    BY <1>1, <1>3, <2>1, ArrivalStays DEF OrderInv
<1>17. QED
  BY <1>5, <1>7, <1>9, <1>10, <1>12, <1>13, <1>14, <1>15, <1>16 DEF MqttInv, OutInv, OrderInv

LEMMA IdsFinite == IsFiniteSet(Ids)
<1>1. 1 \in Int /\ MaxId \in Int
  BY ConstantsAre
<1>2. QED
  BY <1>1, FS_Interval DEF Ids

\* A publish that is accepted: its message is the last of all, and goes out last.
LEMMA PublishAccepted ==
    ASSUME MqttInv, phase = "up", used.out < MaxOut, nextId' \in Ids, HasFreeIndex,
           NEW id \in Ids, NEW q \in {1, 2}, q \in OutQos, NEW m, m = used.out + 1, ~HasId(ctx.out, id),
           ContextInv(ctx'), ctx'.in = ctx.in,
           Contents(ctx'.out) = Contents(ctx.out) \cup {Rec(id, q, Pending(q))}, RecordsInOrder',
           copies' = [copies EXCEPT ![id] = m], qos' = [qos EXCEPT ![m] = q], owed' = owed \cup {m},
           used' = [used EXCEPT !.out = m], toB' = Sent(Packet("PUBLISH", id, m)),
           UNCHANGED <<phase, resume, link, toC, broker, got, delivered, again, acked>>
    PROVE  MqttInv'
<1> DEFINE r == Rec(id, q, Pending(q))
           p == Packet("PUBLISH", id, m)
<1>1. TypeInv /\ OutInv /\ InInv /\ OrderInv
  BY DEF MqttInv
<1>2. used \in Usage /\ used' \in Usage /\ m \in OutMsgs /\ m \in Nat /\ m # NoMsg
  BY <1>1, NextMessage, ConstantsAre DEF TypeInv
<1>3. used'.out = m /\ used'.in = used.in /\ used'.skipped = used.skipped /\ used.out \in Nat
  BY <1>2, NextMessage DEF Usage
<1>4. /\ \A i \in Ids : copies[i] < m /\ copies[i] # m /\ copies[i] \in Nat
      /\ \A x \in owed \cup Range(got) : x < m
      /\ m \notin owed \cup Range(got)
  <2>1. \A i \in Ids : copies[i] < m /\ copies[i] \in Nat
    BY <1>1, NextMessage, TypesAre
  <2>2. \A i \in Ids : copies[i] # m
    BY <1>2, <2>1
  <2>3. QED
    BY <2>1, <2>2, NextMessage
<1>5. copies[id] = NoMsg /\ id \notin broker.rel /\ Quiet(toB, toC, id)
  BY NothingOpen
<1>6. /\ copies' \in [Ids -> OutMsgs \cup {NoMsg}] /\ copies'[id] = m
      /\ \A i \in Ids : i # id => copies'[i] = copies[i]
  BY <1>1, <1>2 DEF TypeInv
<1>7. /\ qos' \in [OutMsgs \cup InMsgs -> 0..2] /\ qos'[m] = q
      /\ \A x \in OutMsgs \cup InMsgs : x # m => qos'[x] = qos[x]
  <2>1. q \in 0..2 /\ m \in OutMsgs \cup InMsgs /\ qos \in [OutMsgs \cup InMsgs -> 0..2]
    BY <1>1, <1>2 DEF TypeInv
  <2>2. QED
    BY <2>1
<1>8. \A x \in InMsgs : qos'[x] = qos[x]
  BY <1>2, <1>7, ConstantsAre
<1>9. r.id = id /\ r.qos = q /\ r.state = Pending(q)
  BY DEF Rec
<1>10. p \in Packets /\ p.type = "PUBLISH" /\ p.id = id /\ p.msg = m
  <2>1. "PUBLISH" \in FromSender /\ id \in Nat
    BY ConstantsAre DEF FromSender
  <2>2. QED
    BY <1>2, <2>1, PacketIs
<1>11. toB \in Seq(Packets) /\ toC \in Seq(Packets) /\ OneUnderWay(toB, toC) /\ OneUnderWay(toC, toB)
  BY <1>1, TypesAre DEF OutInv, OutPackets, InInv, InPackets
<1>12. Cardinality({i \in Ids : copies'[i] # NoMsg}) <= MAX_OUTGOING_PUBLISHES
  <2> DEFINE old == {i \in Ids : copies[i] # NoMsg}
             new == {i \in Ids : copies'[i] # NoMsg}
  <2>1. IsFiniteSet(old)
    BY IdsFinite, FS_Subset
  <2>2. new = old \cup {id} /\ id \notin old
    BY <1>2, <1>5, <1>6
  <2>3. Cardinality(new) = Cardinality(old) + 1 /\ Cardinality(old) \in Nat
    BY <2>1, <2>2, FS_AddElement, FS_CardinalityType
  <2>4. Cardinality(old) < MAX_OUTGOING_PUBLISHES
    BY DEF HasFreeIndex
  <2> HIDE DEF old, new
  <2>5. Cardinality(new) <= MAX_OUTGOING_PUBLISHES
    BY <2>3, <2>4, ConstantsAre
  <2>6. QED
    BY <2>5 DEF new
<1> HIDE DEF r, p
<1>13. \/ link /\ toB' = Append(toB, p) /\ Range(toB') = Range(toB) \cup {p}
       \/ ~link /\ toB' = toB
  BY <1>10, <1>11, RangeAppend DEF Sent, p
<1>14. /\ toB' \in Seq(Packets) /\ OneUnderWay(toB', toC') /\ OneUnderWay(toC', toB') /\ (~link => toB' = toB)
       /\ \A x \in Range(toB') : x \in Range(toB) \/ x = p
       /\ \A x \in Range(toB) : x \in Range(toB')
  <2>1. p.type \notin FromReceiver
    BY <1>10 DEF FromReceiver
  <2>2. OneUnderWay(Append(toB, p), toC) /\ OneUnderWay(toC, Append(toB, p)) /\ Append(toB, p) \in Seq(Packets)
    BY <1>5, <1>10, <1>11, <2>1, PutThere, PutBack
  <2>3. QED
    BY <1>11, <1>13, <2>2
<1>15. TypeInv'
  <2>1. owed' \subseteq OutMsgs
    BY <1>1, <1>2 DEF TypeInv
  <2>2. ~link' => toB' = <<>>
    BY <1>1, <1>14 DEF TypeInv
  <2>3. QED
    BY <1>1, <1>2, <1>6, <1>7, <1>12, <1>14, <2>1, <2>2 DEF TypeInv, ContextInv, Contexts
<1>16. ResumeInv'
  BY NotResuming
<1>17. Contents(ctx'.out) = Contents(ctx.out) \cup {r}
  BY DEF r
<1>18. OutRecords'
  <2>1. r.id \in Ids /\ ((r.qos = 1 /\ r.state = "PubAckPending") \/ (r.qos = 2 /\ r.state = "PubRecPending"))
    BY <1>9 DEF Pending
  <2>2. QED
    BY <1>1, <1>17, <2>1 DEF OutInv, OutRecords
<1>19. \A i \in Ids : i # id /\ copies[i] # NoMsg => copies'[i] = copies[i] /\ qos'[copies[i]] = qos[copies[i]]
  <2>1. \A i \in Ids : copies[i] # NoMsg => copies[i] \in OutMsgs
    BY <1>1, TypesAre
  <2>2. QED
    BY <1>4, <1>6, <1>7, <2>1
<1>20. CopyInv'
  <2>1. ASSUME NEW i \in Ids, copies'[i] # NoMsg
        PROVE  /\ copies'[i] <= used'.out
               /\ qos'[copies'[i]] \in {1, 2}
               /\ Rec(i, qos'[copies'[i]], Pending(qos'[copies'[i]])) \in Contents(ctx'.out)
    <3>1. CASE i = id
      BY <1>2, <1>3, <1>6, <1>7, <1>17, <3>1 DEF r
    <3>2. CASE i # id
      <4>1. copies'[i] = copies[i] /\ qos'[copies[i]] = qos[copies[i]] /\ copies[i] # NoMsg
        BY <1>6, <1>19, <2>1, <3>2
      <4>2. qos[copies[i]] \in {1, 2} /\ Rec(i, qos[copies[i]], Pending(qos[copies[i]])) \in Contents(ctx.out)
        BY <1>1, <4>1 DEF OutInv, CopyInv
      <4>3. copies[i] <= m
        BY <1>2, <1>4
      <4>4. QED
        BY <1>3, <1>17, <4>1, <4>2, <4>3
    <3>3. QED
      BY <3>1, <3>2
  <2>2. \A i, j \in Ids : copies'[i] # NoMsg /\ copies'[i] = copies'[j] => i = j
    BY <1>1, <1>4, <1>6 DEF OutInv, CopyInv
  <2>3. ASSUME NEW x \in Contents(ctx'.out), x.state = Pending(x.qos) PROVE copies'[x.id] # NoMsg
    <3>1. CASE x = r
      BY <1>2, <1>6, <1>9, <3>1
    <3>2. CASE x \in Contents(ctx.out)
      <4>1. x.id \in Ids /\ x.id # id /\ copies[x.id] # NoMsg
        BY <1>1, <2>3, <3>2 DEF OutInv, OutRecords, CopyInv, HasId
      <4>2. QED
        BY <1>6, <4>1
    <3>3. QED
      BY <1>17, <3>1, <3>2
  <2>4. ASSUME NEW x \in owed' \cup Range(got') PROVE x <= used'.out
    <3>1. x = m \/ (x \in owed \cup Range(got) /\ x < m)
      BY <1>4
    <3>2. x \in Nat
      BY <1>1, <1>2, TypesAre, ConstantsAre DEF TypeInv
    <3>3. QED
      BY <1>2, <1>3, <3>1, <3>2
  <2>5. ASSUME NEW x \in owed' \ Range(got') PROVE \E i \in Ids : copies'[i] = x
    <3>1. CASE x = m
      BY <1>6, <3>1
    <3>2. CASE x # m
      <4>1. PICK i \in Ids : copies[i] = x
        BY <1>1, <2>5, <3>2 DEF OutInv, CopyInv
      <4>2. x # NoMsg
        BY <1>1, <2>5, <3>2, ConstantsAre DEF TypeInv
      <4>3. QED
        BY <1>5, <1>6, <4>1, <4>2
    <3>3. QED
      BY <3>1, <3>2
  <2>6. QED
    BY <2>1, <2>2, <2>3, <2>4, <2>5 DEF CopyInv
<1>21. \A i \in Ids : Reached(i)' <=> Reached(i)
  <2>1. NoMsg \notin Range(got)
    BY <1>1, TypesAre, ConstantsAre
  <2>2. ~Reached(id) /\ ~Reached(id)'
    BY <1>4, <1>5, <1>6, <2>1 DEF Reached
  <2>3. ASSUME NEW i \in Ids, i # id PROVE Reached(i)' <=> Reached(i)
    <3>1. copies'[i] = copies[i] /\ (copies[i] # NoMsg => qos'[copies[i]] = qos[copies[i]])
      BY <1>6, <1>19, <2>3
    <3>2. QED
      BY <2>1, <3>1 DEF Reached
  <2>4. QED
    BY <2>2, <2>3
<1>22. RelInv'
  <2>1. broker.rel \subseteq Ids
    BY <1>1 DEF TypeInv
  <2>2. QED
    BY <1>1, <1>17, <1>21, <2>1 DEF OutInv, RelInv
<1>23. OutPackets'
  <2>1. ASSUME NEW x \in Range(toB'), x.type = "PUBLISH"
        PROVE  x.id \in Ids /\ x.msg # NoMsg /\ copies'[x.id] = x.msg
    <3>1. CASE x = p
      BY <1>2, <1>6, <1>10, <3>1
    <3>2. CASE x \in Range(toB)
      <4>1. x.id \in Ids /\ x.msg # NoMsg /\ copies[x.id] = x.msg
        BY <1>1, <2>1, <3>2 DEF OutInv, OutPackets
      <4>2. QED
        BY <1>5, <1>6, <4>1
    <3>3. QED
      BY <1>14, <3>1, <3>2
  <2>2. \A x \in Range(toB') : x.type = "PUBREL" => Rec(x.id, 2, "PubCompPending") \in Contents(ctx'.out)
    BY <1>1, <1>10, <1>14, <1>17 DEF OutInv, OutPackets
  <2>3. ASSUME NEW x \in Range(toC), x.type = "PUBACK"
        PROVE  x.id \in Ids /\ copies'[x.id] \in Range(got) /\ qos'[copies'[x.id]] = 1
    <3>1. x.id \in Ids /\ copies[x.id] \in Range(got) /\ qos[copies[x.id]] = 1
      BY <1>1, <2>3 DEF OutInv, OutPackets
    <3>2. copies[x.id] # NoMsg
      BY <1>1, <3>1, TypesAre, ConstantsAre
    <3>3. QED
      BY <1>5, <1>19, <3>1, <3>2
  <2>4. \A x \in Range(toC) : x.type = "PUBREC" => x.id \in Ids /\ Reached(x.id)'
    BY <1>1, <1>21 DEF OutInv, OutPackets
  <2>5. \A x \in Range(toC) : x.type = "PUBCOMP" =>
          Rec(x.id, 2, "PubCompPending") \in Contents(ctx'.out) /\ x.id \notin broker.rel
    BY <1>1, <1>17 DEF OutInv, OutPackets
  <2>6. QED
    BY <1>14, <2>1, <2>2, <2>3, <2>4, <2>5 DEF OutPackets
<1>24. InInv'
  <2>1. \A x \in Range(toB') : x.type \in FromReceiver => x \in Range(toB)
    BY <1>10, <1>14 DEF FromReceiver
  <2>2. again' = {}
    BY <1>1 DEF InInv
  <2>3. QED
    BY <1>1, <1>3, <1>8, <1>14, <2>1, <2>2, InStays
<1>25. ASSUME ArrivalInv PROVE ArrivalInv'
  <2>1. \A i \in Ids : Missing(i)' => i = id \/ (Missing(i) /\ i # id /\ copies'[i] = copies[i])
    BY <1>6 DEF Missing
  <2>2. \A x : UnderWay(x) => UnderWay(x)'
    BY <1>14 DEF UnderWay
  <2>3. link => UnderWay(m)'
    BY <1>10, <1>13 DEF UnderWay
  <2>4. \A x \in Range(toB) : x.type = "PUBLISH" => x.msg \in Nat /\ x.msg < m
    BY <1>1, <1>4 DEF OutInv, OutPackets
  <2>5. Rising(toB')
    <3>1. Rising(toB)
      BY <1>25 DEF ArrivalInv
    <3>2. Rising(Append(toB, p))
      BY <1>10, <1>11, <2>4, <3>1, RisingAppend
    <3>3. QED
      BY <1>13, <3>1, <3>2
  <2>6. ASSUME NEW i \in Ids, Missing(i)' PROVE \A x \in Range(got) : x < copies'[i]
    BY <1>4, <1>6, <1>25, <2>1, <2>6 DEF ArrivalInv
  <2>7. ASSUME link, NEW i \in Ids, Missing(i)' PROVE \E x \in Range(toB') : x.type = "PUBLISH" /\ x.msg = copies'[i]
    <3>1. CASE i = id
      BY <1>6, <2>3, <2>7, <3>1 DEF UnderWay
    <3>2. CASE i # id
      <4>1. Missing(i) /\ copies'[i] = copies[i]
        BY <2>1, <2>7, <3>2
      <4>2. UnderWay(copies[i])
        BY <1>25, <2>7, <4>1 DEF ArrivalInv
      <4>3. QED
        BY <2>2, <4>1, <4>2 DEF UnderWay
    <3>3. QED
      BY <3>1, <3>2
  <2>8. ~link => Range(toB') = {}
    BY <1>1, <1>14, RangeEmpty DEF TypeInv
  <2>9. /\ \A i, j \in DOMAIN got' : i < j => got'[i] < got'[j]
        /\ \A i \in Ids : Missing(i)' => \A x \in Range(got') : x < copies'[i]
    BY <1>25, <2>6 DEF ArrivalInv
  <2>10. QED
    BY <2>5, <2>7, <2>8, <2>9 DEF ArrivalInv, UnderWay
<1>26. QED
  BY <1>1, <1>3, <1>15, <1>16, <1>18, <1>20, <1>22, <1>23, <1>24, <1>25 DEF MqttInv, OutInv, OrderInv

LEMMA PublishKeeps ==
    ASSUME MqttInv, NEW q \in OutQos, Publish(q)
    PROVE  MqttInv'
<1> DEFINE m == used.out + 1
           Refused == UNCHANGED <<copies, qos, owed>>
<1>1. /\ phase = "up" /\ used.out < MaxOut
      /\ used' = [used EXCEPT !.out = m]
      /\ nextId' = IF HasFreeIndex THEN NextPacketId(nextId) ELSE nextId
      /\ \/ Refused /\ UNCHANGED <<ctx, toB>>
         \/ MqttPublish(nextId, q, m, FALSE, FALSE) /\ Refused
         \/ /\ HasFreeIndex /\ MqttPublish(nextId, q, m, FALSE, TRUE)
            /\ copies' = [copies EXCEPT ![nextId] = m]
            /\ qos' = [qos EXCEPT ![m] = q]
            /\ owed' = owed \cup {m}
      /\ UNCHANGED <<phase, resume, link, toC, broker, got, delivered, again, acked>>
  BY DEF Publish
<1>2. TypeInv /\ ContextInv(ctx) /\ q \in {1, 2}
  BY TypesAre, MqttAssumption DEF MqttInv
<1>3. PICK id \in Ids : id = nextId
  BY <1>2 DEF TypeInv
<1>4. nextId' \in Ids
  <2>1. id \in Nat /\ MaxId \in Nat \ {0} /\ id >= 1 /\ id <= MaxId
    BY ConstantsAre DEF Ids
  <2>2. NextPacketId(id) \in Ids
    BY <2>1 DEF NextPacketId, Ids
  <2>3. QED
    BY <1>1, <1>3, <2>2
<1> DEFINE reserved == ReserveState(ctx, id, q)
           r == Rec(id, q, "PublishSend")
<1>5. /\ ContextInv(reserved.ctx) /\ reserved.ctx.in = ctx.in
      /\ reserved.status \in {"Success", "StateCollision", "NoMemory"}
      /\ reserved.status = "StateCollision" <=> HasId(ctx.out, id)
      /\ reserved.status # "Success" =>
            Contents(reserved.ctx.out) = Contents(ctx.out) /\ MovedUp(reserved.ctx.out, ctx.out)
      /\ reserved.status = "Success" => AddedTo(reserved.ctx.out, ctx.out, r)
  BY <1>2, ReserveIs
<1>6. CASE Refused /\ UNCHANGED <<ctx, toB>>
  <2>1. MovedUp(ctx.out, ctx.out)
    BY <1>2, ConstantsAre, NotMoved DEF ContextInv
  <2>2. QED
    BY <1>1, <1>2, <1>4, <1>6, <2>1, PublishRefused
<1>7. CASE MqttPublish(nextId, q, m, FALSE, FALSE) /\ Refused
  <2>1. toB' = toB /\ ctx' = reserved.ctx
    BY <1>3, <1>7 DEF MqttPublish, SendPublish
  <2> HIDE DEF reserved, r
  <2>2. CASE reserved.status # "Success"
    BY <1>1, <1>4, <1>5, <1>7, <2>1, <2>2, PublishRefused
  <2>3. CASE reserved.status = "Success"
    <3>1. ~HasId(ctx.out, id) /\ AddedTo(ctx'.out, ctx.out, Rec(id, q, "PublishSend"))
      BY <1>5, <2>1, <2>3 DEF r
    <3>2. QED
      BY <1>1, <1>2, <1>4, <1>5, <1>7, <2>1, <3>1, PublishLost
  <2>4. QED
    BY <2>2, <2>3
<1>8. CASE /\ HasFreeIndex /\ MqttPublish(nextId, q, m, FALSE, TRUE)
           /\ copies' = [copies EXCEPT ![nextId] = m]
           /\ qos' = [qos EXCEPT ![m] = q]
           /\ owed' = owed \cup {m}
  <2>1. /\ reserved.status = "Success" /\ toB' = Sent(Packet("PUBLISH", id, m))
        /\ ctx' = UpdateStatePublish(reserved.ctx, id, "SEND", q).ctx
    BY <1>3, <1>8 DEF MqttPublish, SendPublish
  <2> DEFINE c == reserved.ctx
  <2> HIDE DEF reserved, r
  <2>2. ~HasId(ctx.out, id) /\ AddedTo(c.out, ctx.out, r) /\ r \in Contents(c.out)
    BY <1>5, <2>1 DEF AddedTo
  <2> HIDE DEF c
  <2>3. LET updated == UpdateStatePublish(c, id, "SEND", q)
        IN  /\ ContextInv(updated.ctx) /\ updated.ctx.in = c.in
            /\ Contents(updated.ctx.out) = (Contents(c.out) \ {Rec(id, q, "PublishSend")}) \cup {Rec(id, q, Pending(q))}
            /\ SameIds(updated.ctx.out, c.out)
    <3>1. ContextInv(c)
      BY <1>5 DEF c
    <3>2. PICK state \in Sendable(q) : state = "PublishSend"
      BY DEF Sendable
    <3>3. Rec(id, q, state) \in Contents(c.out)
      BY <2>2, <3>2 DEF r
    <3>4. LET updated == UpdateStatePublish(c, id, "SEND", q)
          IN  /\ ContextInv(updated.ctx) /\ updated.ctx.in = c.in
              /\ Contents(updated.ctx.out) = (Contents(c.out) \ {Rec(id, q, state)}) \cup {Rec(id, q, Pending(q))}
              /\ SameIds(updated.ctx.out, c.out)
      BY <1>2, <3>1, <3>3, SendPublishIs
    <3>5. QED
      BY <3>2, <3>4
  <2>4. /\ ContextInv(ctx') /\ ctx'.in = ctx.in
        /\ Contents(ctx'.out) = (Contents(c.out) \ {r}) \cup {Rec(id, q, Pending(q))}
        /\ SameIds(ctx'.out, c.out)
    BY <1>5, <2>1, <2>3 DEF c, r
  <2>5. Contents(ctx'.out) = Contents(ctx.out) \cup {Rec(id, q, Pending(q))}
    BY <2>2, <2>4 DEF AddedTo
  <2>6. copies' = [copies EXCEPT ![id] = m] /\ copies \in [Ids -> OutMsgs \cup {NoMsg}]
    BY <1>2, <1>3, <1>8 DEF TypeInv
  <2>7. RecordsInOrder'
    <3>1. r.id = id
      BY DEF r, Rec
    <3>2. (\A i \in Ids : i # id => copies'[i] = copies[i]) /\ copies'[id] = m
      BY <2>6
    <3>3. RecordsInv(c.out, OUTGOING_COUNT)
      BY <1>5 DEF c, ContextInv
    <3>4. QED
      BY <1>1, <2>2, <2>4, <3>1, <3>2, <3>3, OrderAdded
  <2>8. QED
    BY <1>1, <1>2, <1>4, <1>8, <2>1, <2>2, <2>4, <2>5, <2>6, <2>7, PublishAccepted
<1>9. QED
  BY <1>1, <1>6, <1>7, <1>8
-----------------------------------------------------------------------------
(* Resuming a session *)

\* stateSelect(): the first entry at or behind the cursor.
LEMMA SelectIs ==
    ASSUME NEW n \in Nat \ {0}, NEW records, RecordsInv(records, n), NEW states, NEW cursor \in Nat
    PROVE  LET i == StateSelect(records, states, cursor)
           IN  \/ i = 0 /\ \A j \in 1..n : j >= cursor => records[j].state \notin states
               \/ /\ i \in 1..n /\ i >= cursor /\ records[i].state \in states
                  /\ \A j \in 1..n : j >= cursor /\ j < i => records[j].state \notin states
<1> DEFINE found == {i \in DOMAIN records : i >= cursor /\ records[i].state \in states}
<1>1. DOMAIN records = 1..n
  BY RecordsAre
<1>2. CASE found = {}
  BY <1>1, <1>2 DEF StateSelect
<1>3. CASE found # {}
  <2>1. found \subseteq Nat
    BY <1>1
  <2>2. Min(found) \in found /\ \A j \in found : Min(found) <= j
    BY <1>3, <2>1, MinIs
  <2>3. StateSelect(records, states, cursor) = Min(found)
    BY <1>3 DEF StateSelect
  <2> DEFINE i == Min(found)
  <2> HIDE DEF i
  <2>4. i \in 1..n /\ i >= cursor /\ records[i].state \in states
    BY <1>1, <2>2 DEF i
  <2>5. ASSUME NEW j \in 1..n, j >= cursor, j < i, records[j].state \in states PROVE FALSE
    <3>1. j \in found
      BY <1>1, <2>5
    <3>2. i <= j
      BY <2>2, <3>1 DEF i
    <3>3. QED
      BY <2>4, <2>5, <3>2
  <2>6. QED
    BY <2>3, <2>4, <2>5 DEF i
<1>4. QED
  BY <1>2, <1>3

\* Entries that keep their packet ids and their contents are the same.
LEMMA SameEntries ==
    ASSUME NEW n \in Nat \ {0}, NEW new, NEW old, RecordsInv(new, n), RecordsInv(old, n), SameIds(new, old),
           NEW j \in Used(old), new[j] \in Contents(old)
    PROVE  new[j] = old[j]
<1>1. old[j] \in Contents(old) /\ new[j].id = old[j].id
  BY DEF Contents, SameIds
<1>2. QED
  BY <1>1, RecordsAre

\* No PUBREL is left to send: the publishes follow.
LEMMA PubrelsDone ==
    ASSUME MqttInv, phase = "pubrel", phase' = "resend", resume' = FromTheStart,
           UNCHANGED <<ctx, nextId, copies, link, toB, toC, broker, qos, owed, got, delivered, again, acked, used>>
    PROVE  MqttInv'
<1>1. TypeInv /\ OutInv /\ InInv /\ OrderInv
  BY DEF MqttInv
<1>2. resume' \in [cursor : 1..OUTGOING_COUNT + 1, ok : BOOLEAN] /\ resume'.cursor = 1
  <2>1. 1 \in 1..OUTGOING_COUNT + 1
    BY ConstantsAre
  <2>2. QED
    BY <2>1 DEF FromTheStart
<1>3. TypeInv'
  <2>1. phase' \in Phases
    BY DEF Phases
  <2>2. QED
    BY <1>1, <1>2, <2>1 DEF TypeInv
<1>4. OneUnderWay(toB', toC') /\ OneUnderWay(toC', toB') /\ again' = {} /\ used.out \in Nat
  BY <1>1, TypesAre DEF OutInv, OutPackets, InInv, InPackets
<1>5. ResumeInv'
  <2>1. \A j \in 1..OUTGOING_COUNT : ToResend(j)' => ToResend(j)
    BY DEF ToResend
  <2>2. QED
    BY <1>1, <2>1 DEF OutInv, ResumeInv
<1>6. OutInv'
  BY <1>1, <1>4, <1>5, OutStays
<1>7. InInv'
  BY <1>1, <1>4, InStays
<1>8. RecordsInOrder'
  BY <1>1 DEF OrderInv, RecordsInOrder
<1>9. ASSUME ArrivalInv PROVE ArrivalInv'
  <2>1. (\A x : UnderWay(x)' <=> UnderWay(x)) /\ (\A i : Missing(i)' <=> Missing(i))
    BY DEF UnderWay, Missing
  <2>2. \A j \in Used(ctx.out) : ~(j < resume'.cursor)
    BY <1>1, <1>2, TypesAre, RecordsAre, ConstantsAre
  <2>3. QED
    BY <1>9, <2>1, <2>2 DEF ArrivalInv
<1>10. QED
  BY <1>1, <1>3, <1>6, <1>7, <1>8, <1>9 DEF MqttInv, OrderInv

\* Where an entry that is to be released stands with its exchange.
LEMMA ReleaseIs ==
    ASSUME MqttInv, NEW i \in 1..OUTGOING_COUNT, ctx.out[i].state \in ToRelease
    PROVE  /\ i \in Used(ctx.out) /\ ctx.out[i].id \in Ids /\ copies[ctx.out[i].id] = NoMsg
           /\ ctx.out[i] = Rec(ctx.out[i].id, 2, ctx.out[i].state) /\ ctx.out[i] \in Contents(ctx.out)
<1>1. TypeInv /\ OutRecords /\ CopyInv
  BY DEF MqttInv, OutInv
<1>2. RecordsInv(ctx.out, OUTGOING_COUNT)
  BY <1>1, TypesAre
<1>3. i \in Used(ctx.out)
  <2>1. ctx.out[i] # FreeRecord
    BY DEF FreeRecord, ToRelease
  <2>2. QED
    BY <1>2, <2>1, RecordsAre, ConstantsAre
<1> DEFINE r == ctx.out[i]
<1>4. r \in Contents(ctx.out)
  BY <1>3 DEF Contents
<1>5. r.id \in Ids /\ r.qos = 2
  BY <1>1, <1>4 DEF OutRecords, ToRelease
<1>6. r = Rec(r.id, 2, r.state)
  <2>1. r = Rec(r.id, r.qos, r.state)
    BY <1>2, <1>4, RecordsAre, ConstantsAre
  <2>2. QED
    BY <1>5, <2>1
<1>7. copies[r.id] = NoMsg
  <2>1. SUFFICES ASSUME copies[r.id] # NoMsg PROVE FALSE
    OBVIOUS
  <2>2. PICK q \in {1, 2} : Rec(r.id, q, Pending(q)) \in Contents(ctx.out)
    BY <1>1, <1>5, <2>1 DEF CopyInv
  <2>3. Rec(r.id, q, Pending(q)).id = r.id /\ Rec(r.id, q, Pending(q)).state = Pending(q)
    BY DEF Rec
  <2>4. r = Rec(r.id, q, Pending(q))
    BY <1>2, <1>4, <2>2, <2>3, RecordsAre, ConstantsAre
  <2>5. r.state = Pending(q)
    BY <2>3, <2>4
  <2>6. QED
    BY <2>5 DEF Pending, ToRelease
<1>8. QED
  BY <1>3, <1>4, <1>5, <1>6, <1>7

\* A PUBREL was sent, or seemed to be, for entry i.
LEMMA PubrelSent ==
    ASSUME MqttInv, phase = "pubrel", NEW i \in 1..OUTGOING_COUNT, i >= resume.cursor,
           NEW id \in Ids, NEW s \in ToRelease, ctx.out[i] = Rec(id, 2, s), i \in Used(ctx.out), copies[id] = NoMsg,
           ContextInv(ctx'), ctx'.in = ctx.in, SameIds(ctx'.out, ctx.out),
           Contents(ctx'.out) = (Contents(ctx.out) \ {Rec(id, 2, s)}) \cup {Rec(id, 2, "PubCompPending")},
           toB' = IF link THEN Append(toB, Packet("PUBREL", id, NoMsg)) ELSE toB,
           phase' \in {"pubrel", "down"}, resume' = [resume EXCEPT !.cursor = i + 1],
           UNCHANGED <<nextId, copies, link, toC, broker, qos, owed, got, delivered, again, acked, used>>
    PROVE  MqttInv'
<1> DEFINE r == Rec(id, 2, s)
           t == Rec(id, 2, "PubCompPending")
           p == Packet("PUBREL", id, NoMsg)
<1>1. TypeInv /\ OutInv /\ InInv /\ OrderInv
  BY DEF MqttInv
<1>2. resume \in [cursor : 1..OUTGOING_COUNT + 1, ok : BOOLEAN] /\ i \in Nat /\ OUTGOING_COUNT \in Nat
  BY <1>1, ConstantsAre DEF TypeInv
<1>3. resume' \in [cursor : 1..OUTGOING_COUNT + 1, ok : BOOLEAN] /\ resume'.cursor = i + 1 /\ resume.cursor \in Nat
  <2>1. i + 1 \in 1..OUTGOING_COUNT + 1
    BY <1>2
  <2>2. QED
    BY <1>2, <2>1
<1>4. /\ r.id = id /\ r.qos = 2 /\ r.state = s
      /\ t.id = id /\ t.qos = 2 /\ t.state = "PubCompPending"
  BY DEF Rec
<1>5. p \in Packets /\ p.type = "PUBREL" /\ p.id = id
  <2>1. "PUBREL" \in FromSender /\ id \in Nat /\ NoMsg \in Nat
    BY ConstantsAre DEF FromSender, NoMsg
  <2>2. QED
    BY <2>1, PacketIs
<1>6. /\ Contents(ctx'.out) = (Contents(ctx.out) \ {r}) \cup {t} /\ r \in Contents(ctx.out)
      /\ \A x \in Contents(ctx.out) : x.id = id => x = r
  <2>1. r \in Contents(ctx.out)
    BY DEF Contents
  <2>2. \A x \in Contents(ctx.out) : x.id = id => x = r
    BY <1>1, <1>4, <2>1, TypesAre, RecordsAre, ConstantsAre
  <2>3. QED
    BY <2>1, <2>2
<1>7. toB \in Seq(Packets) /\ toC \in Seq(Packets) /\ OneUnderWay(toB, toC) /\ OneUnderWay(toC, toB)
  BY <1>1, TypesAre DEF OutInv, OutPackets, InInv, InPackets
<1> HIDE DEF r, t, p
<1>8. ToResend(i) /\ ctx.out[i].id = id
  BY <1>4 DEF ToResend, r
<1>9. Quiet(toB, toC, id)
  BY <1>1, <1>8 DEF OutInv, ResumeInv
<1>10. \/ toB' = Append(toB, p) /\ link
       \/ toB' = toB
  BY DEF p
<1>11. /\ toB' \in Seq(Packets) /\ OneUnderWay(toB', toC') /\ OneUnderWay(toC', toB') /\ (~link => toB' = toB)
       /\ \A x \in Range(toB') : x \in Range(toB) \/ x = p
       /\ \A x \in Range(toB) : x \in Range(toB')
       /\ \A x : x # id /\ Quiet(toB, toC, x) => Quiet(toB', toC', x)
       /\ Rising(toB) => Rising(toB')
  <2>1. p.type \notin FromReceiver /\ p.type # "PUBLISH"
    BY <1>5 DEF FromReceiver
  <2>2. OneUnderWay(Append(toB, p), toC) /\ OneUnderWay(toC, Append(toB, p)) /\ Append(toB, p) \in Seq(Packets)
    BY <1>5, <1>7, <1>9, <2>1, PutThere, PutBack
  <2>3. Range(Append(toB, p)) = Range(toB) \cup {p}
    BY <1>5, <1>7, RangeAppend
  <2>4. \A x : x # id /\ Quiet(toB, toC, x) => Quiet(Append(toB, p), toC, x)
    BY <1>5, <1>7, QuietStays
  <2>5. Rising(toB) => Rising(Append(toB, p))
    BY <1>5, <1>7, <2>1, RisingAppend
  <2>6. ~link => toB' = toB
    OBVIOUS
  <2>7. QED
    BY <1>7, <1>10, <2>2, <2>3, <2>4, <2>5, <2>6
<1>12. TypeInv'
  <2>1. ~link' => toB' = <<>>
    BY <1>1, <1>11 DEF TypeInv
  <2>2. phase' \in Phases
    BY DEF Phases
  <2>3. QED
    BY <1>1, <1>3, <1>11, <2>1, <2>2 DEF TypeInv, ContextInv, Contexts
<1>13. \A q, state : state \notin ToRelease => (Rec(id, q, state) \notin Contents(ctx.out))
  <2>1. \A q, state : Rec(id, q, state).id = id /\ Rec(id, q, state).state = state
    BY DEF Rec
  <2>2. QED
    BY <1>4, <1>6, <2>1
<1>14. OutRecords'
  <2>1. t.id \in Ids /\ t.qos = 2 /\ t.state = "PubCompPending"
    BY <1>4
  <2>2. QED
    BY <1>1, <1>6, <2>1 DEF OutInv, OutRecords
<1>15. CopyInv'
  <2>1. ASSUME NEW k \in Ids, copies[k] # NoMsg
        PROVE  /\ copies[k] <= used.out
               /\ qos[copies[k]] \in {1, 2}
               /\ Rec(k, qos[copies[k]], Pending(qos[copies[k]])) \in Contents(ctx'.out)
    <3>1. /\ copies[k] <= used.out /\ qos[copies[k]] \in {1, 2}
          /\ Rec(k, qos[copies[k]], Pending(qos[copies[k]])) \in Contents(ctx.out)
      BY <1>1, <2>1 DEF OutInv, CopyInv
    <3>2. Rec(k, qos[copies[k]], Pending(qos[copies[k]])).id = k /\ k # id
      BY <2>1 DEF Rec
    <3>3. QED
      BY <1>4, <1>6, <3>1, <3>2
  <2>2. t.state # Pending(t.qos)
    BY <1>4, StatesAre
  <2>3. \A x \in Contents(ctx'.out) : x.state = Pending(x.qos) => copies[x.id] # NoMsg
    BY <1>1, <1>6, <2>2 DEF OutInv, CopyInv
  <2>4. QED
    BY <1>1, <2>1, <2>3 DEF OutInv, CopyInv
<1>16. \A k \in Ids : Reached(k)' <=> Reached(k)
  BY DEF Reached
<1>17. RelInv'
  <2>1. ASSUME NEW k \in broker.rel
        PROVE  Reached(k) \/ \E state \in ToRelease : Rec(k, 2, state) \in Contents(ctx'.out)
    <3>1. CASE Reached(k)
      BY <3>1
    <3>2. ASSUME NEW state \in ToRelease, Rec(k, 2, state) \in Contents(ctx.out)
          PROVE  \E other \in ToRelease : Rec(k, 2, other) \in Contents(ctx'.out)
      <4>1. CASE k = id
        <5>1. "PubCompPending" \in ToRelease /\ t \in Contents(ctx'.out)
          BY <1>6 DEF ToRelease
        <5>2. QED
          BY <4>1, <5>1 DEF t
      <4>2. CASE k # id
        <5>1. Rec(k, 2, state).id = k
          BY DEF Rec
        <5>2. QED
          BY <1>4, <1>6, <3>2, <4>2, <5>1
      <4>3. QED
        BY <4>1, <4>2
    <3>3. QED
      BY <1>1, <2>1, <3>1, <3>2 DEF OutInv, RelInv
  <2>2. broker.rel \subseteq Ids
    BY <1>1 DEF TypeInv
  <2>3. QED
    BY <1>1, <1>16, <2>1, <2>2 DEF OutInv, RelInv
<1>18. \A k : Rec(k, 2, "PubCompPending") \in Contents(ctx.out) => Rec(k, 2, "PubCompPending") \in Contents(ctx'.out)
  <2>1. ASSUME NEW k, Rec(k, 2, "PubCompPending") \in Contents(ctx.out), k # id
        PROVE  Rec(k, 2, "PubCompPending") \in Contents(ctx'.out)
    <3>1. Rec(k, 2, "PubCompPending").id = k
      BY DEF Rec
    <3>2. QED
      BY <1>4, <1>6, <2>1, <3>1
  <2>2. Rec(id, 2, "PubCompPending") \in Contents(ctx'.out)
    BY <1>6 DEF t
  <2>3. QED
    BY <2>1, <2>2
<1>19. OutPackets'
  <2>1. \A x \in Range(toB') : x.type = "PUBLISH" => x.id \in Ids /\ x.msg # NoMsg /\ copies[x.id] = x.msg
    BY <1>1, <1>5, <1>11 DEF OutInv, OutPackets
  <2>2. ASSUME NEW x \in Range(toB'), x.type = "PUBREL" PROVE Rec(x.id, 2, "PubCompPending") \in Contents(ctx'.out)
    <3>1. CASE x = p
      BY <1>5, <1>6, <3>1 DEF t
    <3>2. CASE x \in Range(toB)
      BY <1>1, <1>18, <2>2, <3>2 DEF OutInv, OutPackets
    <3>3. QED
      BY <1>11, <3>1, <3>2
  <2>3. \A x \in Range(toC) : x.type = "PUBACK" =>
          x.id \in Ids /\ copies[x.id] \in Range(got) /\ qos[copies[x.id]] = 1
    BY <1>1 DEF OutInv, OutPackets
  <2>4. \A x \in Range(toC) : x.type = "PUBREC" => x.id \in Ids /\ Reached(x.id)'
    BY <1>1, <1>16 DEF OutInv, OutPackets
  <2>5. \A x \in Range(toC) : x.type = "PUBCOMP" =>
          Rec(x.id, 2, "PubCompPending") \in Contents(ctx'.out) /\ x.id \notin broker.rel
    BY <1>1, <1>18 DEF OutInv, OutPackets
  <2>6. QED
    BY <1>11, <2>1, <2>2, <2>3, <2>4, <2>5 DEF OutPackets
<1>20. ResumeInv'
  <2>1. CASE phase' = "down"
    BY <2>1, NotResuming
  <2>2. CASE phase' = "pubrel"
    <3>1. SUFFICES ASSUME NEW j \in 1..OUTGOING_COUNT, ToResend(j)' PROVE Quiet(toB', toC', ctx'.out[j].id)
      BY DEF ResumeInv
    <3>2. ctx'.out[j].state \in ToPublish \/ (ctx'.out[j].state \in ToRelease /\ j >= i + 1)
      BY <1>3, <2>2, <3>1 DEF ToResend
    <3>3. RecordsInv(ctx.out, OUTGOING_COUNT) /\ RecordsInv(ctx'.out, OUTGOING_COUNT)
      BY <1>1, TypesAre DEF ContextInv
    <3>4. j \in Used(ctx'.out) /\ j \in Used(ctx.out)
      <4>1. ctx'.out[j] # FreeRecord
        BY <3>2 DEF FreeRecord, ToPublish, ToRelease
      <4>2. QED
        BY <3>3, <4>1, RecordsAre, ConstantsAre DEF SameIds
    <3>5. j # i
      <4>1. SUFFICES ASSUME j = i PROVE FALSE
        OBVIOUS
      <4>2. ctx'.out[j].id = id /\ ctx'.out[j] \in Contents(ctx'.out)
        BY <1>8, <3>4, <4>1 DEF SameIds, Contents
      <4>3. ctx'.out[j] = t
        BY <1>6, <4>2
      <4>4. QED
        BY <1>2, <1>4, <3>2, <4>1, <4>3 DEF ToPublish
    <3>6. ctx.out[j].id # id
      BY <1>8, <3>3, <3>4, <3>5 DEF RecordsInv
    <3>7. ctx'.out[j] = ctx.out[j]
      <4>1. ctx'.out[j] \in Contents(ctx'.out) /\ ctx'.out[j].id = ctx.out[j].id
        BY <3>4 DEF Contents, SameIds
      <4>2. ctx'.out[j] \in Contents(ctx.out)
        BY <1>4, <1>6, <3>6, <4>1
      <4>3. QED
        BY <3>3, <3>4, <4>2, SameEntries, ConstantsAre
    <3>8. ToResend(j)
      <4>1. j >= i + 1 => j >= resume.cursor
        BY <1>2, <1>3
      <4>2. QED
        BY <3>2, <3>7, <4>1 DEF ToResend
    <3>9. Quiet(toB, toC, ctx.out[j].id)
      BY <1>1, <3>8 DEF OutInv, ResumeInv
    <3>10. QED
      BY <1>11, <3>6, <3>7, <3>9
  <2>3. QED
    BY <2>1, <2>2
<1>21. InInv'
  <2>1. \A x \in Range(toB') : x.type \in FromReceiver => x \in Range(toB)
    BY <1>5, <1>11 DEF FromReceiver
  <2>2. again' = {}
    BY <1>1 DEF InInv
  <2>3. QED
    BY <1>1, <1>11, <2>1, <2>2, InStays
<1>22. RecordsInOrder'
  BY <1>1 DEF OrderInv, RecordsInOrder, SameIds
<1>23. ASSUME ArrivalInv PROVE ArrivalInv'
  <2>1. Rising(toB')
    BY <1>11, <1>23 DEF ArrivalInv
  <2>2. \A x \in Range(toB') : x.type = "PUBLISH" => x \in Range(toB)
    BY <1>5, <1>11
  <2>3. phase' # "up" /\ phase' # "resend"
    OBVIOUS
  <2>4. QED
    BY <1>1, <1>11, <1>23, <2>1, <2>2, <2>3, ArrivalStays
<1>24. QED
  BY <1>1, <1>12, <1>14, <1>15, <1>17, <1>19, <1>20, <1>21, <1>22, <1>23 DEF MqttInv, OutInv, OrderInv

\* A PUBREL that could not be sent stays to be sent.
LEMMA PubrelNotSent ==
    ASSUME MqttInv, phase = "pubrel", NEW i \in 1..OUTGOING_COUNT, i >= resume.cursor,
           phase' \in {"pubrel", "down"}, resume' = [resume EXCEPT !.cursor = i + 1],
           UNCHANGED <<ctx, nextId, copies, link, toB, toC, broker, qos, owed, got, delivered, again, acked, used>>
    PROVE  MqttInv'
<1>1. TypeInv /\ OutInv /\ InInv /\ OrderInv
  BY DEF MqttInv
<1>2. resume \in [cursor : 1..OUTGOING_COUNT + 1, ok : BOOLEAN] /\ i \in Nat /\ OUTGOING_COUNT \in Nat
  BY <1>1, ConstantsAre DEF TypeInv
<1>3. resume' \in [cursor : 1..OUTGOING_COUNT + 1, ok : BOOLEAN] /\ resume'.cursor = i + 1 /\ resume.cursor \in Nat
  <2>1. i + 1 \in 1..OUTGOING_COUNT + 1
    BY <1>2
  <2>2. QED
    BY <1>2, <2>1
<1>4. TypeInv'
  <2>1. phase' \in Phases
    BY DEF Phases
  <2>2. QED
    BY <1>1, <1>3, <2>1 DEF TypeInv
<1>5. OneUnderWay(toB', toC') /\ OneUnderWay(toC', toB') /\ again' = {} /\ used.out \in Nat
  BY <1>1, TypesAre DEF OutInv, OutPackets, InInv, InPackets
<1>6. ResumeInv'
  <2>1. \A j \in 1..OUTGOING_COUNT : j >= resume'.cursor => j >= resume.cursor
    BY <1>2, <1>3
  <2>2. \A j \in 1..OUTGOING_COUNT : ToResend(j)' => ToResend(j)
    BY <2>1 DEF ToResend
  <2>3. QED
    BY <1>1, <2>2 DEF OutInv, ResumeInv
<1>7. OutInv'
  BY <1>1, <1>5, <1>6, OutStays
<1>8. InInv'
  BY <1>1, <1>5, InStays
<1>9. RecordsInOrder'
  BY <1>1 DEF OrderInv, RecordsInOrder
<1>10. ASSUME ArrivalInv PROVE ArrivalInv'
  <2>1. Rising(toB')
    BY <1>10 DEF ArrivalInv
  <2>2. phase' # "up" /\ phase' # "resend"
    OBVIOUS
  <2>3. QED
    BY <1>1, <1>10, <2>1, <2>2, ArrivalStays
<1>11. QED
  BY <1>1, <1>4, <1>7, <1>8, <1>9, <1>10 DEF MqttInv, OrderInv

LEMMA ResumePubrelKeeps ==
    ASSUME MqttInv, ResumePubrel
    PROVE  MqttInv'
<1>1. TypeInv
  BY DEF MqttInv
<1>2. RecordsInv(ctx.out, OUTGOING_COUNT) /\ ContextInv(ctx) /\ resume.cursor \in Nat
  BY <1>1, TypesAre, ConstantsAre DEF TypeInv
<1> DEFINE k == PubrelToResend(ctx, resume.cursor)
<1>3. /\ phase = "pubrel"
      /\ UNCHANGED <<nextId, copies, link, toC, broker, qos, owed, got, delivered, again, acked, used>>
      /\ k = 0 => phase' = "resend" /\ resume' = FromTheStart /\ UNCHANGED <<ctx, toB>>
      /\ k # 0 => \E ok \in SendResults :
                     /\ SendPublishAcks(ctx, ctx.out[k].id, "PubRelSend", ok)
                     /\ resume' = [resume EXCEPT !.cursor = k + 1]
                     /\ phase' = IF ok THEN phase ELSE "down"
  BY DEF ResumePubrel, history
<1>4. \/ k = 0
      \/ k # 0 /\ k \in 1..OUTGOING_COUNT /\ k >= resume.cursor /\ ctx.out[k].state \in ToRelease
  <2>1. LET x == StateSelect(ctx.out, {"PubCompPending", "PubRelSend"}, resume.cursor)
        IN  \/ x = 0 /\ \A j \in 1..OUTGOING_COUNT : j >= resume.cursor => ctx.out[j].state \notin {"PubCompPending", "PubRelSend"}
            \/ /\ x \in 1..OUTGOING_COUNT /\ x >= resume.cursor /\ ctx.out[x].state \in {"PubCompPending", "PubRelSend"}
               /\ \A j \in 1..OUTGOING_COUNT : j >= resume.cursor /\ j < x => ctx.out[j].state \notin {"PubCompPending", "PubRelSend"}
    BY <1>2, ConstantsAre, SelectIs
  <2>2. k = StateSelect(ctx.out, {"PubCompPending", "PubRelSend"}, resume.cursor)
    BY DEF PubrelToResend
  <2> HIDE DEF k
  <2>3. \A x \in 1..OUTGOING_COUNT : x # 0
    BY ConstantsAre
  <2>4. QED
    BY <2>1, <2>2, <2>3 DEF ToRelease
<1> HIDE DEF k
<1>5. CASE k = 0
  BY <1>3, <1>5, PubrelsDone
<1>6. CASE k # 0 /\ k \in 1..OUTGOING_COUNT /\ k >= resume.cursor /\ ctx.out[k].state \in ToRelease
  <2>1. PICK i \in 1..OUTGOING_COUNT : i = k
    BY <1>6
  <2>2. i >= resume.cursor /\ ctx.out[i].state \in ToRelease
    BY <1>6, <2>1
  <2>3. PICK ok \in SendResults :
           /\ SendPublishAcks(ctx, ctx.out[i].id, "PubRelSend", ok)
           /\ resume' = [resume EXCEPT !.cursor = i + 1]
           /\ phase' = IF ok THEN phase ELSE "down"
    BY <1>3, <1>6, <2>1
  <2>4. phase' \in {"pubrel", "down"}
    BY <1>3, <2>3
  <2>5. PICK id \in Ids, s \in ToRelease : id = ctx.out[i].id /\ ctx.out[i] = Rec(id, 2, s)
    BY <2>2, ReleaseIs
  <2>6. i \in Used(ctx.out) /\ copies[id] = NoMsg /\ Rec(id, 2, s) \in Contents(ctx.out)
    BY <2>2, <2>5, ReleaseIs
  <2>7. AckTypeToSend("PubRelSend") = {"PUBREL"}
    BY DEF AckTypeToSend
  <2>8. SendPublishAcks(ctx, id, "PubRelSend", ok)
    BY <2>3, <2>5
  <2>9. \/ ctx' = ctx /\ toB' = toB
        \/ /\ ctx' = UpdateStateAck(ctx, id, "PUBREL", "SEND").ctx
           /\ toB' = IF link THEN Append(toB, Packet("PUBREL", id, NoMsg)) ELSE toB
    BY <2>7, <2>8, SendAcksIs
  <2>10. CASE ctx' = ctx /\ toB' = toB
    BY <1>3, <2>2, <2>3, <2>4, <2>10, PubrelNotSent
  <2>11. CASE /\ ctx' = UpdateStateAck(ctx, id, "PUBREL", "SEND").ctx
              /\ toB' = IF link THEN Append(toB, Packet("PUBREL", id, NoMsg)) ELSE toB
    <3>1. LET updated == UpdateStateAck(ctx, id, "PUBREL", "SEND")
          IN  /\ ContextInv(updated.ctx) /\ updated.ctx.in = ctx.in
              /\ Contents(updated.ctx.out) = (Contents(ctx.out) \ {Rec(id, 2, s)}) \cup {Rec(id, 2, "PubCompPending")}
              /\ SameIds(updated.ctx.out, ctx.out)
      BY <1>2, <2>6, SendsPubrel
    <3>2. /\ ContextInv(ctx') /\ ctx'.in = ctx.in
          /\ Contents(ctx'.out) = (Contents(ctx.out) \ {Rec(id, 2, s)}) \cup {Rec(id, 2, "PubCompPending")}
          /\ SameIds(ctx'.out, ctx.out)
      BY <2>11, <3>1
    <3>3. QED
      BY <1>3, <2>2, <2>3, <2>4, <2>5, <2>6, <2>11, <3>2, PubrelSent
  <2>12. QED
    BY <2>9, <2>10, <2>11
<1>7. QED
  BY <1>4, <1>5, <1>6

\* A copy belongs to an entry that waits for its acknowledgement.
LEMMA CopyAt ==
    ASSUME MqttInv, NEW a \in Ids, copies[a] # NoMsg
    PROVE  \E k \in Used(ctx.out) :
              /\ k \in 1..OUTGOING_COUNT /\ ctx.out[k].id = a /\ ctx.out[k].state \in ToPublish
              /\ qos[copies[a]] \in {1, 2} /\ ctx.out[k] = Rec(a, qos[copies[a]], Pending(qos[copies[a]]))
<1> DEFINE q == qos[copies[a]]
           r == Rec(a, q, Pending(q))
<1>1. q \in {1, 2} /\ r \in Contents(ctx.out)
  BY DEF MqttInv, OutInv, CopyInv
<1>2. r.id = a /\ r.state = Pending(q)
  BY DEF Rec
<1> HIDE DEF q
<1>3. Pending(q) \in ToPublish
  BY <1>1, StatesAre
<1>4. PICK k \in Used(ctx.out) : ctx.out[k] = r
  BY <1>1 DEF Contents
<1>5. k \in 1..OUTGOING_COUNT
  BY TypesAre, RecordsAre, ConstantsAre DEF MqttInv
<1>6. QED
  BY <1>1, <1>2, <1>3, <1>4, <1>5 DEF q

\* The resumption is over, or given up.
LEMMA ResumeEnds ==
    ASSUME MqttInv, phase = "resend", phase' \in {"up", "down"},
           phase' = "up" => \A j \in 1..OUTGOING_COUNT : j >= resume.cursor => ctx.out[j].state \notin ToPublish,
           UNCHANGED <<ctx, nextId, copies, resume, link, toB, toC, broker, qos, owed, got, delivered, again, acked, used>>
    PROVE  MqttInv'
<1>1. TypeInv /\ OutInv /\ InInv /\ OrderInv
  BY DEF MqttInv
<1>2. TypeInv'
  <2>1. phase' \in Phases
    BY DEF Phases
  <2>2. QED
    BY <1>1, <2>1 DEF TypeInv
<1>3. OneUnderWay(toB', toC') /\ OneUnderWay(toC', toB') /\ again' = {} /\ used.out \in Nat
  BY <1>1, TypesAre DEF OutInv, OutPackets, InInv, InPackets
<1>4. ResumeInv'
  BY NotResuming
<1>5. OutInv'
  BY <1>1, <1>3, <1>4, OutStays
<1>6. InInv'
  BY <1>1, <1>3, InStays
<1>7. RecordsInOrder'
  BY <1>1 DEF OrderInv, RecordsInOrder
<1>8. ASSUME ArrivalInv PROVE ArrivalInv'
  <2>1. (\A x : UnderWay(x)' <=> UnderWay(x)) /\ (\A i : Missing(i)' <=> Missing(i))
    BY DEF UnderWay, Missing
  <2>2. ASSUME phase' = "up", link, NEW a \in Ids, Missing(a) PROVE UnderWay(copies[a])
    <3>1. copies[a] # NoMsg
      BY <2>2 DEF Missing
    <3>2. PICK k \in Used(ctx.out) : k \in 1..OUTGOING_COUNT /\ ctx.out[k].id = a /\ ctx.out[k].state \in ToPublish
      BY <3>1, CopyAt
    <3>3. ~(k >= resume.cursor)
      BY <2>2, <3>2
    <3>4. k < resume.cursor
      <4>1. k \in Nat /\ resume.cursor \in Nat
        BY <1>1, <3>2, ConstantsAre DEF TypeInv
      <4>2. QED
        BY <3>3, <4>1
    <3>5. QED
      BY <1>8, <2>2, <3>2, <3>4 DEF ArrivalInv
  <2>3. QED
    BY <1>8, <2>1, <2>2 DEF ArrivalInv
<1>9. QED
  BY <1>1, <1>2, <1>5, <1>6, <1>7, <1>8 DEF MqttInv, OrderInv

\* Entry i of the resumption goes out again, behind those before it.
LEMMA PublishResent ==
    ASSUME MqttInv, phase = "resend", NEW i \in 1..OUTGOING_COUNT, i >= resume.cursor,
           \A j \in 1..OUTGOING_COUNT : j >= resume.cursor /\ j < i => ctx.out[j].state \notin ToPublish,
           i \in Used(ctx.out), ctx.out[i].state \in ToPublish,
           NEW id \in Ids, ctx.out[i].id = id, NEW m, copies[id] = m, m # NoMsg,
           NEW c, ContextInv(c), Contents(c.out) = Contents(ctx.out), MovedUp(c.out, ctx.out),
           ContextInv(ctx'), ctx'.in = ctx.in, Contents(ctx'.out) = Contents(c.out), SameIds(ctx'.out, c.out),
           NEW ok \in BOOLEAN,
           link /\ ok => toB' = Append(toB, Packet("PUBLISH", id, m)), ~(link /\ ok) => toB' = toB,
           phase' = phase, resume' \in [cursor : {i + 1}, ok : BOOLEAN],
           used' = [used EXCEPT !.skipped = @ \cup PassedOver(c, i, ok)],
           UNCHANGED <<nextId, copies, link, toC, broker, qos, owed, got, delivered, again, acked>>
    PROVE  MqttInv'
<1> DEFINE p == Packet("PUBLISH", id, m)
           missed == PassedOver(c, i, ok)
           sent == link /\ ok
<1>1. TypeInv /\ OutInv /\ InInv /\ OrderInv
  BY DEF MqttInv
<1>2. resume \in [cursor : 1..OUTGOING_COUNT + 1, ok : BOOLEAN] /\ i \in Nat /\ OUTGOING_COUNT \in Nat /\ resume.cursor \in Nat
  <2>1. resume \in [cursor : 1..OUTGOING_COUNT + 1, ok : BOOLEAN]
    BY <1>1 DEF TypeInv
  <2>2. OUTGOING_COUNT \in Nat
    BY ConstantsAre
  <2>3. QED
    BY <2>1, <2>2
<1>3. resume' \in [cursor : 1..OUTGOING_COUNT + 1, ok : BOOLEAN] /\ resume'.cursor = i + 1
  <2>1. i + 1 \in 1..OUTGOING_COUNT + 1
    BY <1>2
  <2>2. QED
    BY <2>1
<1>4. m \in OutMsgs /\ m \in Nat /\ \A a \in Ids : copies[a] \in Nat
  BY <1>1, TypesAre
<1>5. p \in Packets /\ p.type = "PUBLISH" /\ p.id = id /\ p.msg = m
  <2>1. "PUBLISH" \in FromSender /\ id \in Nat
    BY ConstantsAre DEF FromSender
  <2>2. QED
    BY <1>4, <2>1, PacketIs
<1>6. toB \in Seq(Packets) /\ toC \in Seq(Packets) /\ OneUnderWay(toB, toC) /\ OneUnderWay(toC, toB)
  BY <1>1, TypesAre DEF OutInv, OutPackets, InInv, InPackets
<1>7. RecordsInv(ctx.out, OUTGOING_COUNT) /\ RecordsInv(c.out, OUTGOING_COUNT) /\ RecordsInv(ctx'.out, OUTGOING_COUNT)
      /\ ContextInv(ctx)
  BY <1>1, TypesAre DEF ContextInv
<1>8. /\ missed \subseteq Nat
      /\ missed = {} => Unsent(ctx, i + 1) \subseteq Unsent(c, i + 1) /\ (link => sent)
  <2>1. DOMAIN ctx.out = 1..OUTGOING_COUNT /\ \A j \in DOMAIN ctx.out : ctx.out[j].id \in Nat
    <3>1. OUTGOING_COUNT \in Nat \ {0} /\ RecordsInv(ctx.out, OUTGOING_COUNT)
      BY <1>7, ConstantsAre
    <3>2. QED
      BY <3>1, RecordsAre
  <2>2. Unsent(ctx, i + 1) \subseteq Nat
    BY <2>1 DEF Unsent
  <2>3. missed \subseteq Nat
    BY <2>1, <2>2 DEF PassedOver
  <2>4. ASSUME missed = {} PROVE Unsent(ctx, i + 1) \subseteq Unsent(c, i + 1) /\ (link => sent)
    BY <2>4 DEF PassedOver
  <2>5. QED
    BY <2>3, <2>4
<1> HIDE DEF p, missed, sent
<1>9. /\ used' \in Usage /\ used'.out = used.out /\ used'.in = used.in /\ used.out \in Nat
      /\ used'.skipped = {} => used.skipped = {} /\ missed = {}
  <2>1. used \in Usage /\ used' = [used EXCEPT !.skipped = used.skipped \cup missed]
    BY <1>1 DEF TypeInv, missed
  <2>2. used.skipped \cup missed \in SUBSET Nat
    BY <1>8, <2>1 DEF Usage
  <2>3. /\ used' \in Usage /\ used'.out = used.out /\ used'.in = used.in
        /\ used'.skipped = used.skipped \cup missed
    BY <2>1, <2>2 DEF Usage
  <2>4. QED
    BY <1>1, <2>3, TypesAre
<1>10. Quiet(toB, toC, id)
  <2>1. ToResend(i)
    BY DEF ToResend
  <2>2. QED
    BY <1>1, <2>1 DEF OutInv, ResumeInv
<1>11. (sent => toB' = Append(toB, p)) /\ (~sent => toB' = toB) /\ (~link => ~sent)
  BY DEF p, sent
<1>12. /\ toB' \in Seq(Packets) /\ OneUnderWay(toB', toC') /\ OneUnderWay(toC', toB')
       /\ \A x \in Range(toB') : x \in Range(toB) \/ (x = p /\ sent)
       /\ \A x \in Range(toB) : x \in Range(toB')
       /\ sent => p \in Range(toB')
       /\ \A x : x # id /\ Quiet(toB, toC, x) => Quiet(toB', toC', x)
  <2>1. p.type \notin FromReceiver
    BY <1>5 DEF FromReceiver
  <2>2. OneUnderWay(Append(toB, p), toC) /\ OneUnderWay(toC, Append(toB, p)) /\ Append(toB, p) \in Seq(Packets)
    BY <1>5, <1>6, <1>10, <2>1, PutThere, PutBack
  <2>3. Range(Append(toB, p)) = Range(toB) \cup {p}
    BY <1>5, <1>6, RangeAppend
  <2>4. \A x : x # id /\ Quiet(toB, toC, x) => Quiet(Append(toB, p), toC, x)
    BY <1>5, <1>6, QuietStays
  <2>5. CASE sent
    <3>1. toB' = Append(toB, p)
      BY <1>11, <2>5
    <3>2. QED
      BY <2>2, <2>3, <2>4, <2>5, <3>1
  <2>6. CASE ~sent
    <3>1. toB' = toB
      BY <1>11, <2>6
    <3>2. QED
      BY <1>6, <2>6, <3>1
  <2>7. QED
    BY <2>5, <2>6
<1>13. TypeInv'
  <2>1. ~link' => toB' = <<>>
    BY <1>1, <1>11 DEF TypeInv
  <2>2. QED
    BY <1>1, <1>3, <1>9, <1>12, <2>1 DEF TypeInv, ContextInv, Contexts
<1>14. Contents(ctx'.out) = Contents(ctx.out)
  OBVIOUS
<1>15. \A j \in Used(ctx'.out) : j \in Used(c.out) /\ ctx'.out[j] = c.out[j]
  <2>1. ASSUME NEW j \in Used(ctx'.out) PROVE j \in Used(c.out) /\ ctx'.out[j] = c.out[j]
    <3>1. j \in Used(c.out) /\ ctx'.out[j] \in Contents(c.out)
      BY DEF SameIds, Contents
    <3>2. QED
      BY <1>7, <3>1, SameEntries, ConstantsAre
  <2>2. QED
    BY <2>1
<1>16. MovedUp(ctx'.out, ctx.out)
  BY <1>15 DEF MovedUp
<1>17. OutRecords' /\ CopyInv' /\ RelInv'
  <2>1. \A a \in Ids : Reached(a)' <=> Reached(a)
    BY DEF Reached
  <2>2. broker.rel \subseteq Ids
    BY <1>1 DEF TypeInv
  <2>3. OutRecords'
    BY <1>1, <1>14 DEF OutInv, OutRecords
  <2>4. CopyInv'
    BY <1>1, <1>9, <1>14 DEF OutInv, CopyInv
  <2>5. RelInv'
    BY <1>1, <1>14, <2>1, <2>2 DEF OutInv, RelInv
  <2>6. QED
    BY <2>3, <2>4, <2>5
<1>18. OutPackets'
  <2>1. \A x \in Range(toB') : x.type = "PUBLISH" => x.id \in Ids /\ x.msg # NoMsg /\ copies[x.id] = x.msg
    BY <1>1, <1>5, <1>12 DEF OutInv, OutPackets
  <2>2. \A x \in Range(toB') : x.type = "PUBREL" => Rec(x.id, 2, "PubCompPending") \in Contents(ctx'.out)
    BY <1>1, <1>5, <1>12, <1>14 DEF OutInv, OutPackets
  <2>3. \A x \in Range(toC) : x.type = "PUBACK" =>
          x.id \in Ids /\ copies[x.id] \in Range(got) /\ qos[copies[x.id]] = 1
    BY <1>1 DEF OutInv, OutPackets
  <2>4. \A x \in Range(toC) : x.type = "PUBREC" => x.id \in Ids /\ Reached(x.id)'
    BY <1>1 DEF OutInv, OutPackets, Reached
  <2>5. \A x \in Range(toC) : x.type = "PUBCOMP" =>
          Rec(x.id, 2, "PubCompPending") \in Contents(ctx'.out) /\ x.id \notin broker.rel
    BY <1>1, <1>14 DEF OutInv, OutPackets
  <2>6. QED
    BY <1>12, <2>1, <2>2, <2>3, <2>4, <2>5 DEF OutPackets
<1>19. ResumeInv'
  <2>1. SUFFICES ASSUME NEW j \in 1..OUTGOING_COUNT, ToResend(j)' PROVE Quiet(toB', toC', ctx'.out[j].id)
    BY DEF ResumeInv
  <2>2. ctx'.out[j].state \in ToPublish /\ j >= i + 1
    BY <1>3, <2>1 DEF ToResend
  <2>3. j \in Used(ctx'.out)
    <3>1. ctx'.out[j] # FreeRecord
      BY <2>2 DEF FreeRecord, ToPublish
    <3>2. QED
      BY <1>7, <3>1, RecordsAre, ConstantsAre
  <2>4. PICK k \in Used(ctx.out) : k >= j /\ ctx.out[k] = ctx'.out[j]
    BY <1>16, <2>3 DEF MovedUp
  <2>5. k \in 1..OUTGOING_COUNT
    BY <1>7, RecordsAre, ConstantsAre
  <2>6. k # i /\ k >= resume.cursor
    BY <1>2, <2>2, <2>4, <2>5
  <2>7. ToResend(k) /\ ctx.out[k].id # id
    BY <1>7, <2>2, <2>4, <2>6 DEF ToResend, RecordsInv
  <2>8. Quiet(toB, toC, ctx.out[k].id)
    BY <1>1, <2>5, <2>7 DEF OutInv, ResumeInv
  <2>9. QED
    BY <1>12, <2>4, <2>7, <2>8
<1>20. InInv'
  <2>1. \A x \in Range(toB') : x.type \in FromReceiver => x \in Range(toB)
    BY <1>5, <1>12 DEF FromReceiver
  <2>2. again' = {}
    BY <1>1 DEF InInv
  <2>3. QED
    BY <1>1, <1>9, <1>12, <2>1, <2>2, InStays
<1>21. RecordsInOrder'
  BY <1>1, <1>16, RecordsInOrderStays DEF OrderInv
<1>22. ASSUME ArrivalInv, missed = {} PROVE ArrivalInv'
  <2>1. \A a : Missing(a)' <=> Missing(a)
    BY DEF Missing
  <2>2. \A x : UnderWay(x) => UnderWay(x)'
    BY <1>12 DEF UnderWay
  <2>3. link => UnderWay(m)'
    BY <1>5, <1>8, <1>12, <1>22 DEF UnderWay
  <2>4. ASSUME NEW x \in Range(toB), x.type = "PUBLISH" PROVE x.msg < m
    <3>1. x.id \in Ids /\ copies[x.id] # NoMsg /\ copies[x.id] = x.msg
      BY <1>1, <2>4 DEF OutInv, OutPackets
    <3>2. PICK k \in Used(ctx.out) : k \in 1..OUTGOING_COUNT /\ ctx.out[k].id = x.id /\ ctx.out[k].state \in ToPublish
      BY <3>1, CopyAt
    <3>3. ~Quiet(toB, toC, x.id)
      BY <2>4 DEF Quiet, FromSender
    <3>4. ~ToResend(k)
      BY <1>1, <3>2, <3>3 DEF OutInv, ResumeInv
    <3>5. ~(k >= resume.cursor)
      BY <3>2, <3>4 DEF ToResend
    <3>6. k < i
      BY <1>2, <3>2, <3>5
    <3>7. QED
      BY <1>1, <3>1, <3>2, <3>6 DEF OrderInv, RecordsInOrder
  <2>5. Rising(toB')
    <3>1. Rising(toB)
      BY <1>22 DEF ArrivalInv
    <3>2. Rising(Append(toB, p))
      BY <1>5, <1>6, <2>4, <3>1, RisingAppend
    <3>3. QED
      BY <1>11, <3>1, <3>2
  <2>6. ASSUME link, NEW a \in Ids, Missing(a), NEW k \in Used(ctx.out), ctx.out[k].id = a, k < i
        PROVE  UnderWay(copies[a])
    <3>1. copies[a] # NoMsg
      BY <2>6 DEF Missing
    <3>2. PICK l \in Used(ctx.out) : l \in 1..OUTGOING_COUNT /\ ctx.out[l].id = a /\ ctx.out[l].state \in ToPublish
      BY <3>1, CopyAt
    <3>3. k = l
      BY <1>7, <2>6, <3>2 DEF RecordsInv
    <3>4. ~(k >= resume.cursor)
      BY <2>6, <3>2, <3>3
    <3>5. k < resume.cursor
      BY <1>2, <3>2, <3>3, <3>4
    <3>6. QED
      BY <1>22, <2>6, <3>5 DEF ArrivalInv
  <2>7. ASSUME NEW a \in Ids, Missing(a), NEW x \in Range(toB'), x.type = "PUBLISH", copies[a] < x.msg
        PROVE  UnderWay(copies[a])'
    <3>1. CASE x \in Range(toB)
      <4>1. UnderWay(copies[a])
        BY <1>22, <2>7, <3>1 DEF ArrivalInv
      <4>2. QED
        BY <2>2, <4>1
    <3>2. CASE x = p /\ sent
      <4>1. copies[a] < m /\ copies[a] # NoMsg
        BY <1>5, <2>7, <3>2 DEF Missing
      <4>2. PICK k \in Used(ctx.out) : k \in 1..OUTGOING_COUNT /\ ctx.out[k].id = a
        BY <4>1, CopyAt
      <4>3. k # i /\ ~(i < k)
        <5>1. k # i
          BY <1>4, <4>1, <4>2
        <5>2. ASSUME i < k PROVE FALSE
          <6>1. m < copies[a]
            BY <1>1, <4>1, <4>2, <5>2 DEF OrderInv, RecordsInOrder
          <6>2. QED
            BY <1>4, <4>1, <6>1
        <5>3. QED
          BY <5>1, <5>2
      <4>4. k < i
        BY <1>2, <4>2, <4>3
      <4>5. UnderWay(copies[a])
        BY <1>11, <2>6, <2>7, <3>2, <4>2, <4>4
      <4>6. QED
        BY <2>2, <4>5
    <3>3. QED
      BY <1>12, <3>1, <3>2
  <2>8. ASSUME link, NEW j \in Used(ctx'.out), j < i + 1, Missing(ctx'.out[j].id)
        PROVE  \E x \in Range(toB') : x.type = "PUBLISH" /\ x.msg = copies[ctx'.out[j].id]
    <3>1. PICK a \in Ids : a = ctx'.out[j].id
      BY <1>1, <1>14 DEF OutInv, OutRecords, Contents
    <3>2. PICK k \in Used(ctx.out) : k >= j /\ ctx.out[k] = ctx'.out[j]
      BY <1>16 DEF MovedUp
    <3>3. k \in 1..OUTGOING_COUNT /\ j \in 1..OUTGOING_COUNT
      BY <1>7, RecordsAre, ConstantsAre
    <3>4. CASE k = i
      BY <2>3, <2>8, <3>1, <3>2, <3>4 DEF UnderWay
    <3>5. CASE k < i
      <4>1. UnderWay(copies[a])
        BY <2>6, <2>8, <3>1, <3>2, <3>5
      <4>2. PICK x \in Range(toB) : x.type = "PUBLISH" /\ x.msg = copies[a]
        BY <4>1 DEF UnderWay
      <4>3. QED
        BY <1>12, <3>1, <4>2
    <3>6. CASE k > i
      <4>1. copies[a] # NoMsg
        BY <2>8, <3>1 DEF Missing
      <4>2. PICK l \in Used(ctx.out) : ctx.out[l].id = a /\ ctx.out[l].state \in ToPublish
        BY <4>1, CopyAt
      <4>3. l = k
        BY <1>7, <3>1, <3>2, <4>2 DEF RecordsInv
      <4>4. k >= i + 1 /\ k \in DOMAIN ctx.out
        <5>1. DOMAIN ctx.out = 1..OUTGOING_COUNT
          BY <1>7, RecordsAre, ConstantsAre
        <5>2. QED
          BY <1>2, <3>3, <3>6, <5>1
      <4>5. a \in Unsent(ctx, i + 1)
        BY <4>2, <4>3, <4>4 DEF Unsent, ToPublish
      <4>6. a \in Unsent(c, i + 1)
        BY <1>8, <1>22, <4>5
      <4>7. PICK h \in DOMAIN c.out : h >= i + 1 /\ c.out[h].id = a
        BY <4>6 DEF Unsent
      <4>8. h \in Used(c.out) /\ j \in Used(c.out) /\ c.out[j].id = a
        <5>1. a # MQTT_PACKET_ID_INVALID
          BY ConstantsAre DEF MQTT_PACKET_ID_INVALID
        <5>2. QED
          BY <1>15, <3>1, <4>7, <5>1 DEF Used
      <4>9. h = j
        BY <1>7, <4>7, <4>8 DEF RecordsInv
      <4>10. QED
        BY <1>2, <2>8, <3>3, <4>7, <4>9
    <3>7. QED
      BY <1>2, <3>3, <3>4, <3>5, <3>6
  <2>9. /\ \A x, y \in DOMAIN got' : x < y => got'[x] < got'[y]
        /\ \A a \in Ids : Missing(a)' => \A x \in Range(got') : x < copies'[a]
    BY <1>22, <2>1 DEF ArrivalInv
  <2>10. \A a \in Ids : \A x \in Range(toB') :
            Missing(a)' /\ x.type = "PUBLISH" /\ copies'[a] < x.msg =>
               \E y \in Range(toB') : y.type = "PUBLISH" /\ y.msg = copies'[a]
    BY <2>1, <2>7 DEF UnderWay
  <2>11. \A j \in Used(ctx'.out) : link' /\ j < resume'.cursor /\ Missing(ctx.out[j].id)' =>
            \E y \in Range(toB') : y.type = "PUBLISH" /\ y.msg = copies'[ctx'.out[j].id]
    BY <1>3, <2>8 DEF Missing
  <2>12. phase' # "up"
    OBVIOUS
  <2>13. QED
    BY <2>5, <2>9, <2>10, <2>11, <2>12 DEF ArrivalInv, UnderWay
<1>23. QED
  BY <1>1, <1>9, <1>13, <1>17, <1>18, <1>19, <1>20, <1>21, <1>22 DEF MqttInv, OutInv, OrderInv

LEMMA ResumePublishKeeps ==
    ASSUME MqttInv, ResumePublish
    PROVE  MqttInv'
<1>1. TypeInv
  BY DEF MqttInv
<1>2. RecordsInv(ctx.out, OUTGOING_COUNT) /\ ContextInv(ctx) /\ resume.cursor \in Nat /\ resume.ok \in BOOLEAN
  BY <1>1, TypesAre, ConstantsAre DEF TypeInv
<1>3. PICK k : k = PublishToResend(ctx, resume.cursor)
  OBVIOUS
<1>4. phase = "resend" /\ UNCHANGED <<nextId, copies, link, toC, broker, qos, owed, got, delivered, again, acked>>
  BY DEF ResumePublish, history
<1>5. \/ k = 0 /\ \A j \in 1..OUTGOING_COUNT : j >= resume.cursor => ctx.out[j].state \notin ToPublish
      \/ /\ k # 0 /\ k \in 1..OUTGOING_COUNT /\ k >= resume.cursor /\ ctx.out[k].state \in ToPublish
         /\ \A j \in 1..OUTGOING_COUNT : j >= resume.cursor /\ j < k => ctx.out[j].state \notin ToPublish
  <2>1. LET x == StateSelect(ctx.out, ToPublish, resume.cursor)
        IN  \/ x = 0 /\ \A j \in 1..OUTGOING_COUNT : j >= resume.cursor => ctx.out[j].state \notin ToPublish
            \/ /\ x \in 1..OUTGOING_COUNT /\ x >= resume.cursor /\ ctx.out[x].state \in ToPublish
               /\ \A j \in 1..OUTGOING_COUNT : j >= resume.cursor /\ j < x => ctx.out[j].state \notin ToPublish
    BY <1>2, ConstantsAre, SelectIs
  <2>2. k = StateSelect(ctx.out, ToPublish, resume.cursor)
    BY <1>3 DEF PublishToResend, ToPublish
  <2>3. \A x \in 1..OUTGOING_COUNT : x # 0
    BY ConstantsAre
  <2>4. QED
    BY <2>1, <2>2, <2>3
<1>6. CASE k = 0 /\ \A j \in 1..OUTGOING_COUNT : j >= resume.cursor => ctx.out[j].state \notin ToPublish
  <2>1. phase' \in {"up", "down"} /\ UNCHANGED <<ctx, resume, toB, used>>
    BY <1>2, <1>3, <1>6 DEF ResumePublish
  <2>2. QED
    BY <1>4, <1>6, <2>1, ResumeEnds
<1>7. CASE /\ k # 0 /\ k \in 1..OUTGOING_COUNT /\ k >= resume.cursor /\ ctx.out[k].state \in ToPublish
           /\ \A j \in 1..OUTGOING_COUNT : j >= resume.cursor /\ j < k => ctx.out[j].state \notin ToPublish
  <2>1. PICK i \in 1..OUTGOING_COUNT : i = k
    BY <1>7
  <2>2. i \in Used(ctx.out)
    <3>1. ctx.out[i] # FreeRecord
      BY <1>7, <2>1 DEF FreeRecord, ToPublish
    <3>2. QED
      BY <1>2, <3>1, RecordsAre, ConstantsAre
  <2>3. PICK id \in Ids : id = ctx.out[i].id
    BY <2>2 DEF MqttInv, OutInv, OutRecords, Contents
  <2>4. PICK m : m = copies[id]
    OBVIOUS
  <2>5. CASE m = NoMsg
    <3>1. phase' = "down" /\ UNCHANGED <<ctx, resume, toB, used>>
      BY <1>3, <1>7, <2>1, <2>3, <2>4, <2>5 DEF ResumePublish
    <3>2. QED
      BY <1>4, <3>1, ResumeEnds
  <2>6. CASE m # NoMsg
    <3>1. PICK l \in Used(ctx.out) :
             /\ ctx.out[l].id = id /\ qos[copies[id]] \in {1, 2}
             /\ ctx.out[l] = Rec(id, qos[copies[id]], Pending(qos[copies[id]]))
      BY <2>4, <2>6, CopyAt
    <3>2. PICK q \in {1, 2} : q = qos[m]
      BY <2>4, <3>1
    <3>3. ctx.out[i] = Rec(id, q, Pending(q))
      BY <1>2, <2>2, <2>3, <2>4, <3>1, <3>2 DEF RecordsInv
    <3>4. Rec(id, q, Pending(q)) \in Contents(ctx.out)
      BY <2>2, <3>3 DEF Contents
    <3> DEFINE reserved == ReserveState(ctx, id, q)
               c == reserved.ctx
    <3>5. PICK ok \in BOOLEAN :
             /\ phase' = phase
             /\ resume' = [cursor |-> i + 1, ok |-> resume.ok /\ ok]
             /\ MqttPublish(id, q, m, TRUE, ok)
             /\ used' = [used EXCEPT !.skipped = @ \cup PassedOver(c, i, ok)]
      <4>1. copies[ctx.out[k].id] # NoMsg
        BY <2>1, <2>3, <2>4, <2>6
      <4>2. PICK ok \in BOOLEAN :
               /\ phase' = phase
               /\ resume' = [cursor |-> k + 1, ok |-> resume.ok /\ ok]
               /\ MqttPublish(ctx.out[k].id, qos[copies[ctx.out[k].id]], copies[ctx.out[k].id], TRUE, ok)
               /\ used' = [used EXCEPT !.skipped =
                     @ \cup PassedOver(ReserveState(ctx, ctx.out[k].id, qos[copies[ctx.out[k].id]]).ctx, k, ok)]
        BY <1>3, <1>7, <4>1 DEF ResumePublish
      <4>3. ctx.out[k].id = id /\ copies[ctx.out[k].id] = m /\ qos[copies[ctx.out[k].id]] = q /\ k = i
        BY <2>1, <2>3, <2>4, <3>2
      <4>4. QED
        BY <4>2, <4>3
    <3>6. /\ ContextInv(c) /\ c.in = ctx.in
          /\ reserved.status \in {"Success", "StateCollision", "NoMemory"}
          /\ reserved.status = "StateCollision" <=> HasId(ctx.out, id)
          /\ reserved.status # "Success" => Contents(c.out) = Contents(ctx.out) /\ MovedUp(c.out, ctx.out)
      BY <1>2, ReserveIs
    <3>7. HasId(ctx.out, id)
      <4>1. Rec(id, q, Pending(q)).id = id
        BY DEF Rec
      <4>2. QED
        BY <3>4, <4>1 DEF HasId
    <3>8. reserved.status = "StateCollision" /\ Contents(c.out) = Contents(ctx.out) /\ MovedUp(c.out, ctx.out)
      BY <3>6, <3>7
    <3>9. /\ ok => ctx' = UpdateStatePublish(c, id, "SEND", q).ctx /\ toB' = Sent(Packet("PUBLISH", id, m))
          /\ ~ok => ctx' = c /\ toB' = toB
      BY <3>5, <3>8 DEF MqttPublish, SendPublish
    <3> HIDE DEF reserved, c
    <3>10. (link /\ ok => toB' = Append(toB, Packet("PUBLISH", id, m))) /\ (~(link /\ ok) => toB' = toB)
      BY <3>9 DEF Sent
    <3>11. /\ ContextInv(ctx') /\ ctx'.in = ctx.in
           /\ Contents(ctx'.out) = Contents(c.out) /\ SameIds(ctx'.out, c.out)
      <4>1. CASE ~ok
        BY <3>6, <3>9, <4>1 DEF SameIds
      <4>2. CASE ok
        <5>1. PICK state \in Sendable(q) : state = Pending(q)
          BY DEF Sendable
        <5>2. Rec(id, q, state) \in Contents(c.out)
          BY <3>4, <3>8, <5>1
        <5>3. LET updated == UpdateStatePublish(c, id, "SEND", q)
              IN  /\ ContextInv(updated.ctx) /\ updated.ctx.in = c.in
                  /\ Contents(updated.ctx.out) = (Contents(c.out) \ {Rec(id, q, state)}) \cup {Rec(id, q, Pending(q))}
                  /\ SameIds(updated.ctx.out, c.out)
          <6>1. ContextInv(c)
            BY <3>6
          <6>2. QED
            BY <5>2, <6>1, SendPublishIs
        <5>4. (Contents(c.out) \ {Rec(id, q, state)}) \cup {Rec(id, q, Pending(q))} = Contents(c.out)
          BY <5>1, <5>2
        <5>5. QED
          BY <3>6, <3>9, <4>2, <5>3, <5>4
      <4>3. QED
        BY <4>1, <4>2
    <3>12. resume' \in [cursor : {i + 1}, ok : BOOLEAN]
      BY <1>2, <3>5
    <3>13. QED
      BY <1>4, <1>7, <2>1, <2>2, <2>3, <2>4, <2>6, <3>5, <3>6, <3>8, <3>10, <3>11, <3>12, PublishResent, SMTT(20)
  <2>7. QED
    BY <2>5, <2>6
<1>8. QED
  BY <1>5, <1>6, <1>7
-----------------------------------------------------------------------------
(* Every step *)

LEMMA NothingHappens ==
    ASSUME MqttInv, UNCHANGED vars
    PROVE  MqttInv'
<1>1. /\ UNCHANGED <<ctx, nextId, copies, phase, resume, link, toB, toC, broker, qos,
                     owed, got, delivered, again, acked, used>>
  BY DEF vars
<1>2. TypeInv /\ OutInv /\ InInv /\ OrderInv
  BY DEF MqttInv
<1>3. TypeInv'
  BY <1>1, <1>2 DEF TypeInv
<1>4. OneUnderWay(toB', toC') /\ OneUnderWay(toC', toB') /\ again' = {} /\ used.out \in Nat
  BY <1>1, <1>2, TypesAre DEF OutInv, OutPackets, InInv, InPackets
<1>5. ResumeInv'
  BY <1>1, <1>2, ResumingStays DEF OutInv
<1>6. OutInv'
  BY <1>1, <1>2, <1>4, <1>5, OutStays
<1>7. InInv'
  BY <1>1, <1>2, <1>4, InStays
<1>8. RecordsInOrder'
  BY <1>1, <1>2 DEF OrderInv, RecordsInOrder
<1>9. ASSUME ArrivalInv PROVE ArrivalInv'
  <2>1. Rising(toB')
    BY <1>1, <1>9 DEF ArrivalInv
  <2>2. QED
    BY <1>1, <1>2, <1>9, <2>1, ArrivalStays
<1>10. QED
  BY <1>1, <1>2, <1>3, <1>6, <1>7, <1>8, <1>9 DEF MqttInv, OrderInv

LEMMA MqttInvStep == MqttInv /\ [Next]_vars => MqttInv'
<1> SUFFICES ASSUME MqttInv, [Next]_vars
             PROVE  MqttInv'
  OBVIOUS
<1>1. ASSUME NEW q \in OutQos, Publish(q) PROVE MqttInv'
  BY <1>1, PublishKeeps
<1>2. CASE ReceivePublish
  BY <1>2, ReceivePublishKeeps
<1>3. CASE ReceiveAck
  BY <1>3, ReceiveAckKeeps
<1>4. CASE RecvFails
  BY <1>4, RecvFailsKeeps
<1>5. CASE Connect
  BY <1>5, ConnectKeeps
<1>6. CASE ResumePubrel
  BY <1>6, ResumePubrelKeeps
<1>7. CASE ResumePublish
  BY <1>7, ResumePublishKeeps
<1>8. CASE BrokerTakes
  BY <1>8, BrokerTakesKeeps
<1>9. ASSUME NEW q \in {1, 2}, BrokerPublishes(q) PROVE MqttInv'
  BY <1>9, BrokerPublishesKeeps
<1>10. CASE LinkBreaks
  BY <1>10, LinkBreaksKeeps
<1>11. CASE UNCHANGED vars
  BY <1>11, NothingHappens
<1>12. QED
  BY <1>1, <1>2, <1>3, <1>4, <1>5, <1>6, <1>7, <1>8, <1>9, <1>10, <1>11 DEF Next, Client

\* The inductive invariant holds of the library, the application, the broker and the
\* network between them, whatever is sent, lost or sent again.
THEOREM MqttInvariant == Spec => []MqttInv
<1>1. Init => MqttInv
  BY InitIs
<1>2. QED
  BY <1>1, MqttInvStep, PTL DEF Spec

\* The records, the table of copies and the cursor of the resumption keep their
\* types: no packet id is 0, and no more copies are kept than there are slots.
THEOREM MqttTypeCorrect == Spec => []TypeOK
<1>1. MqttInv => TypeOK
  <2>1. SUFFICES ASSUME MqttInv PROVE TypeOK
    OBVIOUS
  <2>2. TypeInv
    BY <2>1 DEF MqttInv
  <2>3. Range(got) \subseteq OutMsgs /\ broker.rel \subseteq Ids
    BY <2>2, TypesAre DEF TypeInv
  <2>4. QED
    BY <2>2, <2>3 DEF TypeInv, TypeOK
<1>2. QED
  BY <1>1, MqttInvariant, PTL

\* A QoS 2 message is delivered once at most to the application, and counted once at
\* most by the broker, although PUBLISH and PUBREL are sent again after every break.
THEOREM MqttAtMostOnce == Spec => []AtMostOnce
<1>1. MqttInv => AtMostOnce
  BY DEF MqttInv, InInv, AtMostOnce
<1>2. QED
  BY <1>1, MqttInvariant, PTL

\* Messages first arrive at the broker in the order in which MQTT_Publish() took
\* them, through every resumption in which the cursor has missed none.
THEOREM MqttInOrder == Spec => []InOrder
<1>1. MqttInv => InOrder
  BY DEF MqttInv, OrderInv, ArrivalInv, InOrder
<1>2. QED
  BY <1>1, MqttInvariant, PTL

\* An accepted publish that the broker does not have still has its record, in a state
\* in which MQTT_PublishToResend() finds it, and its copy.
THEOREM MqttKeptUntilReceived == Spec => []KeptUntilReceived
<1>1. MqttInv => KeptUntilReceived
  <2>1. SUFFICES ASSUME MqttInv, NEW m \in owed \ Range(got)
                 PROVE  \E i \in DOMAIN ctx.out :
                           /\ ctx.out[i].state \in {"PubAckPending", "PubRecPending"}
                           /\ copies[ctx.out[i].id] = m
    BY DEF KeptUntilReceived
  <2>2. PICK a \in Ids : copies[a] = m
    BY <2>1 DEF MqttInv, OutInv, CopyInv
  <2>3. m # NoMsg
    BY <2>1, ConstantsAre DEF MqttInv, TypeInv
  <2>4. PICK q \in {1, 2}, k \in Used(ctx.out) : ctx.out[k] = Rec(a, q, Pending(q)) /\ ctx.out[k].id = a
    BY <2>1, <2>2, <2>3, CopyAt
  <2>5. ctx.out[k].state = Pending(q) /\ k \in DOMAIN ctx.out
    BY <2>4 DEF Rec, Used
  <2>6. QED
    BY <2>2, <2>4, <2>5 DEF Pending
<1>2. QED
  BY <1>1, MqttInvariant, PTL

\* The broker counts a message as received only when the application's callback has
\* had it: what is dropped for want of a record is not acknowledged.
THEOREM MqttAckedWasDelivered == Spec => []AckedWasDelivered
<1>1. MqttInv => AckedWasDelivered
  BY DEF MqttInv, InInv, AckedWasDelivered
<1>2. QED
  BY <1>1, MqttInvariant, PTL
=============================================================================
