--------------------------- MODULE CommandsProofs ---------------------------
(***************************************************************************)
(* For every number of senders, keys and frames: no session key seals two  *)
(* frames with one counter, no frame is carried out twice, and a device    *)
(* with a password carries out no line in the clear.                       *)
(*                                                                         *)
(* The invariant has three parts.  LinkInv and FrameInv say what the two   *)
(* counters bound as long as the session still has the last key derived:   *)
(* drop_auth() wipes the key before the counters, so counters that are     *)
(* reset never meet a key that was used.  ClearInv follows a line in the   *)
(* clear from the step that unwraps it to the access policy.               *)
(***************************************************************************)
EXTENDS Commands, TLAPS

Frames == [key : Nat, ctr : Nat, line : Lines \cup {"none"}]

Steps == {"idle", "arrived", "checked", "opened", "line", "allowed", "replies", "sends"}

Sessions == [state : {"NEW", "WAIT_PROOF", "AUTH_OK"}, key : Nat, rxCtr : Nat, txCtr : Nat,
             rxEnc : BOOLEAN]

LinkTypeOK ==
    /\ session \in Sessions
    /\ keys \in Nat
    /\ dropping \in {"none", "key", "counters", "state"}
    /\ lock \in Senders \cup {Nobody}
    /\ tx \in [Senders -> {"idle", "keyed", "seals"}]
    /\ sealed \in SUBSET Nat /\ reused \in BOOLEAN

Receivers == [step : Steps, frame : Frames, own : BOOLEAN]

Apps == [key : Nat, ctr : Nat]

RxTypeOK ==
    /\ secured \in BOOLEAN
    /\ rx \in Receivers
    /\ app \in Apps
    /\ wire \in Frames
    /\ carried \in SUBSET Nat
    /\ twice \in BOOLEAN /\ bare \in BOOLEAN /\ trouble \in Nat

TypeOK == LinkTypeOK /\ RxTypeOK

\* A key in the session is the last one derived, and its counters are not reset
\* yet.  Frames were sealed with counters up to tx_ctr; the one that the holder of
\* the lock has counted is still free.
LinkInv ==
    /\ session.key \in {NoKey, keys}
    /\ session.key # NoKey => dropping \in {"none", "key"}
    /\ \A t \in Senders : tx[t] = "seals" <=> lock = t
    /\ session.key # NoKey =>
          \A c \in sealed : c <= session.txCtr /\ (lock # Nobody => c < session.txCtr)
    /\ ~reused

\* Likewise rx_ctr bounds the counters of the frames that were carried out.  A
\* frame that passed the checks is above it, and one that was opened is of the
\* last key and was never carried out.
FrameInv ==
    /\ session.key # NoKey => \A c \in carried : c <= session.rxCtr
    /\ rx.step \in {"checked", "opened"} => rx.frame.key # NoKey
    /\ rx.step = "checked" /\ session.key # NoKey => session.rxCtr < rx.frame.ctr
    /\ rx.step \in {"opened", "line"} /\ rx.frame.key # NoKey =>
          rx.frame.key = keys /\ \A c \in carried : c < rx.frame.ctr
    /\ rx.step = "line" /\ rx.frame.key # NoKey /\ session.key # NoKey =>
          rx.frame.ctr <= session.rxCtr
    /\ ~twice

\* A line in the clear that was unwrapped has turned rx_encrypted off, and only the
\* receive task, which is busy with that line, turns it on again.
ClearInv ==
    /\ rx.step = "line" /\ rx.frame.key = NoKey => ~session.rxEnc
    /\ ClearIsRefused

CommandsInv == TypeOK /\ LinkInv /\ FrameInv /\ ClearInv
-----------------------------------------------------------------------------
(* The link *)

LEMMA NoFrameType == NoFrame \in Frames /\ NoFrame.key = NoKey
  BY DEF NoFrame, Frame, Frames, NoKey

\* A handshake, a drop, a frame that is sealed, one that is received, or a restart.
LinkStep ==
    \/ Auth1 \/ Auth3 \/ DropStarts \/ DropStep \/ LinkRestart
    \/ \E t \in Senders : SendStarts(t) \/ SendLocks(t) \/ SendSeals(t)
    \/ (Unwrapped \/ Decrypted(rx.frame)) /\ UNCHANGED <<keys, dropping, lock, tx, sealed, reused>>

LEMMA NextIsLinkStep == Next => LinkStep \/ UNCHANGED linkVars
  BY SenderAssumption
     DEF Next, LinkStep, AppSends, AppAuth1, AppAuth3, LineArrives, StrangeArrives,
         Arrives, Clear, Checks, Decrypts, Opens, Policy, OwnerCommand, ProvisioningLine,
         Others, Drops, Replies, ReplySent, Restart

LEMMA LinkTypeStep ==
    ASSUME TypeOK, LinkStep PROVE LinkTypeOK'
<1> USE DEF LinkTypeOK, Sessions, NoKey, Fresh
<1>0. LinkTypeOK /\ rx.frame.ctr \in Nat
  BY DEF TypeOK, RxTypeOK, Receivers, Frames
<1>1. CASE Auth1
  BY <1>0, <1>1 DEF Auth1
<1>2. CASE Auth3
  <2>1. session' = [state |-> "AUTH_OK", key |-> keys + 1, rxCtr |-> 0, txCtr |-> 0, rxEnc |-> FALSE]
    BY <1>2 DEF Auth3
  <2>2. session' \in Sessions
    BY <1>0, <2>1
  <2> HIDE DEF Sessions
  <2>3. QED
    BY <1>0, <1>2, <2>2 DEF Auth3
<1>3. CASE DropStarts
  BY <1>0, <1>3 DEF DropStarts
<1>4. CASE DropStep
  <2>1. \/ session' = [session EXCEPT !.key = 0]
        \/ session' = [session EXCEPT !.rxCtr = 0, !.txCtr = 0]
        \/ session' = [session EXCEPT !.state = "NEW"]
    BY <1>4 DEF DropStep
  <2>2. dropping' \in {"none", "counters", "state"} /\ UNCHANGED <<keys, lock, tx, sealed, reused>>
    BY <1>4 DEF DropStep
  <2>3. session' \in Sessions
    <3>1. [session EXCEPT !.rxCtr = 0, !.txCtr = 0] \in Sessions
      BY <1>0
    <3>2. [session EXCEPT !.key = 0] \in Sessions /\ [session EXCEPT !.state = "NEW"] \in Sessions
      BY <1>0
    <3>3. QED
      BY <2>1, <3>1, <3>2, Zenon
  <2> HIDE DEF Sessions
  <2>4. QED
    BY <1>0, <2>2, <2>3
<1>5. CASE LinkRestart
  BY <1>0, <1>5 DEF LinkRestart
<1>6. ASSUME NEW t \in Senders, SendStarts(t) PROVE LinkTypeOK'
  BY <1>0, <1>6 DEF SendStarts
<1>7. ASSUME NEW t \in Senders, SendLocks(t) PROVE LinkTypeOK'
  BY <1>0, <1>7 DEF SendLocks
<1>8. ASSUME NEW t \in Senders, SendSeals(t) PROVE LinkTypeOK'
  BY <1>0, <1>8 DEF SendSeals
<1>9. CASE Unwrapped /\ UNCHANGED <<keys, dropping, lock, tx, sealed, reused>>
  BY <1>0, <1>9 DEF Unwrapped
<1>10. CASE Decrypted(rx.frame) /\ UNCHANGED <<keys, dropping, lock, tx, sealed, reused>>
  BY <1>0, <1>10 DEF Decrypted
<1>11. QED
  BY <1>1, <1>2, <1>3, <1>4, <1>5, <1>6, <1>7, <1>8, <1>9, <1>10 DEF LinkStep

LEMMA LinkInvStep ==
    ASSUME TypeOK, LinkInv, LinkStep PROVE LinkInv'
<1> USE DEF LinkTypeOK, Sessions, LinkInv, NoKey, Fresh
<1>0. LinkTypeOK
  BY DEF TypeOK
<1>1. CASE Auth1
  BY <1>0, <1>1 DEF Auth1
<1>2. CASE Auth3
  BY <1>0, <1>2 DEF Auth3
<1>3. CASE DropStarts
  BY <1>0, <1>3 DEF DropStarts
<1>4. CASE DropStep
  BY <1>0, <1>4 DEF DropStep
<1>5. CASE LinkRestart
  BY <1>0, <1>5, SenderAssumption DEF LinkRestart
<1>6. ASSUME NEW t \in Senders, SendStarts(t) PROVE LinkInv'
  BY <1>0, <1>6 DEF SendStarts
<1>7. ASSUME NEW t \in Senders, SendLocks(t) PROVE LinkInv'
  BY <1>0, <1>7, SenderAssumption DEF SendLocks
<1>8. ASSUME NEW t \in Senders, SendSeals(t) PROVE LinkInv'
  <2>1. lock = t /\ lock' = Nobody /\ tx' = [tx EXCEPT ![t] = "idle"] /\ lock # Nobody
    BY <1>0, <1>8, SenderAssumption DEF SendSeals
  <2>2. \A u \in Senders : tx'[u] = "seals" <=> lock' = u
    BY <1>0, <2>1, SenderAssumption
  <2>3. CASE session.key = NoKey
    BY <1>0, <1>8, <2>2, <2>3 DEF SendSeals
  <2>4. CASE session.key # NoKey
    <3>1. \A c \in sealed : c < session.txCtr
      BY <2>1, <2>4
    <3>2. session.txCtr \notin sealed
      BY <1>0, <3>1
    <3>3. sealed' = sealed \cup {session.txCtr} /\ ~reused' /\ UNCHANGED <<session, keys, dropping>>
      BY <1>8, <2>4, <3>2 DEF SendSeals
    <3>4. QED
      BY <1>0, <2>1, <2>2, <3>1, <3>3
  <2>5. QED
    BY <2>3, <2>4
<1>9. CASE Unwrapped /\ UNCHANGED <<keys, dropping, lock, tx, sealed, reused>>
  BY <1>0, <1>9 DEF Unwrapped
<1>10. CASE Decrypted(rx.frame) /\ UNCHANGED <<keys, dropping, lock, tx, sealed, reused>>
  BY <1>0, <1>10 DEF Decrypted
<1>11. QED
  BY <1>1, <1>2, <1>3, <1>4, <1>5, <1>6, <1>7, <1>8, <1>9, <1>10 DEF LinkStep
-----------------------------------------------------------------------------
(* Types of the phone's and the receive task's state *)

LEMMA RepliedType ==
    ASSUME TypeOK, NEW ok \in BOOLEAN, Replied(ok) PROVE app' \in Apps
<1>1. app \in Apps /\ [app EXCEPT !.key = NoKey] \in Apps
  BY DEF TypeOK, RxTypeOK, Apps, NoKey
<1>2. QED
  BY <1>1 DEF Replied

LEMMA RefusedType ==
    ASSUME TypeOK, Refused PROVE app' \in Apps /\ rx' = Idle /\ UNCHANGED <<wire, carried, twice, bare>>
  BY RepliedType DEF Refused
LEMMA OldFramesType ==
    ASSUME TypeOK, NEW l \in Lines, NEW f \in OldFrames(l) \cup {Frame(NoKey, 0, l)}
    PROVE  /\ f \in Frames
           /\ f.key # NoKey => f.key < keys \/ f.ctr \in carried
<1>1. keys \in Nat /\ carried \in SUBSET Nat
  BY DEF TypeOK, LinkTypeOK, RxTypeOK
<1>2. \/ \E c \in carried : f = Frame(keys, c, l)
      \/ \E k \in 1 .. keys - 1 : f = Frame(k, 1, l)
      \/ f = Frame(NoKey, 0, l)
  BY DEF OldFrames
<1>3. QED
  BY <1>1, <1>2 DEF Frame, Frames, NoKey

LEMMA RxTypeStep ==
    ASSUME TypeOK, Next PROVE RxTypeOK'
<1>0. RxTypeOK /\ Idle \in Receivers /\ NoFrame \in Frames
  BY NoFrameType DEF TypeOK, Idle, Receivers, Steps
<1>1. ASSUME NEW l \in Lines, AppSends(l) PROVE RxTypeOK'
  <2> DEFINE ctr == IF app.key = NoKey THEN app.ctr ELSE app.ctr + 1
  <2>2. ctr \in Nat /\ app.key \in Nat
    BY <1>0 DEF RxTypeOK, Apps
  <2>3. app' = [app EXCEPT !.ctr = ctr]
    BY <1>0, <1>1 DEF AppSends, RxTypeOK, Apps
  <2> HIDE DEF ctr
  <2>4. app' \in Apps /\ app'.ctr = ctr
    BY <1>0, <2>2, <2>3 DEF RxTypeOK, Apps
  <2>5. wire' \in Frames
    BY <1>1, <2>2, <2>4 DEF AppSends, Frame, Frames
  <2>6. QED
    BY <1>0, <1>1, <2>4, <2>5 DEF AppSends, RxTypeOK
<1>2. CASE AppAuth1
  BY <1>0, <1>2 DEF AppAuth1, RxTypeOK
<1>3. CASE AppAuth3
  <2>1. keys' \in Nat
    BY <1>3 DEF TypeOK, LinkTypeOK, AppAuth3, Auth3
  <2>2. app' \in Apps
    BY <1>0, <1>3, <2>1 DEF AppAuth3, RxTypeOK, Apps
  <2>3. QED
    BY <1>0, <1>3, <2>2 DEF AppAuth3, RxTypeOK
<1>4. CASE LineArrives
  <2>1. rx' \in Receivers
    BY <1>0, <1>4 DEF LineArrives, Arrives, RxTypeOK, Receivers, Steps
  <2>2. QED
    BY <1>0, <1>4, <2>1 DEF LineArrives, Arrives, RxTypeOK
<1>5. CASE StrangeArrives
  <2>1. PICK l \in Lines : \E f \in OldFrames(l) \cup {Frame(NoKey, 0, l)} : Arrives(f, FALSE)
    BY <1>5 DEF StrangeArrives
  <2>2. PICK f \in OldFrames(l) \cup {Frame(NoKey, 0, l)} : Arrives(f, FALSE)
    BY <2>1
  <2>3. f \in Frames
    BY <2>2, OldFramesType
  <2>4. rx' \in Receivers
    BY <2>2, <2>3 DEF Arrives, Receivers, Steps
  <2>5. QED
    BY <1>0, <1>5, <2>2, <2>4 DEF StrangeArrives, Trouble, Arrives, RxTypeOK
<1>6. CASE Clear \/ Opens \/ OwnerCommand \/ Replies
  <2>1. \E st \in Steps : rx' = [rx EXCEPT !.step = st]
    BY <1>6 DEF Clear, Opens, OwnerCommand, Replies, Steps
  <2>2. rx' \in Receivers
    BY <1>0, <2>1 DEF RxTypeOK, Receivers
  <2>3. UNCHANGED <<secured, app, wire, carried, twice, bare, trouble>>
    BY <1>6 DEF Clear, Opens, OwnerCommand, Replies
  <2>4. QED
    BY <1>0, <2>2, <2>3 DEF RxTypeOK
<1>7. CASE Checks \/ Decrypts
  <2>1. \/ rx' \in {[rx EXCEPT !.step = "checked"], [rx EXCEPT !.step = "opened"]}
           /\ UNCHANGED <<app, wire, carried, twice, bare>>
        \/ Refused
    BY <1>7 DEF Checks, Decrypts
  <2>2. rx' \in Receivers /\ app' \in Apps /\ UNCHANGED <<wire, carried, twice, bare>>
    BY <1>0, <2>1, RefusedType DEF RxTypeOK, Receivers, Steps
  <2>3. UNCHANGED <<secured, trouble>>
    BY <1>7 DEF Checks, Decrypts
  <2>4. QED
    BY <1>0, <2>2, <2>3 DEF RxTypeOK
<1>8. CASE Policy
  <2>1. CASE Allowed
    <3>1. rx' \in Receivers /\ rx.frame.ctr \in Nat
      BY <1>0, <1>8, <2>1 DEF Policy, RxTypeOK, Receivers, Steps, Frames
    <3>2. carried' \in SUBSET Nat
      BY <1>0, <1>8, <2>1, <3>1 DEF Policy, RxTypeOK
    <3>3. twice' \in BOOLEAN /\ bare' \in BOOLEAN
      BY <1>0, <1>8, <2>1, Zenon DEF Policy, RxTypeOK
    <3>4. QED
      BY <1>0, <1>8, <2>1, <3>1, <3>2, <3>3 DEF Policy, RxTypeOK
  <2>2. CASE ~Allowed
    <3>1. Refused /\ UNCHANGED <<secured, trouble>>
      BY <1>8, <2>2 DEF Policy
    <3>2. QED
      BY <1>0, <3>1, RefusedType DEF RxTypeOK
  <2>3. QED
    BY <2>1, <2>2
<1>9. CASE ProvisioningLine \/ ReplySent
  <2>1. \E ok \in BOOLEAN : Replied(ok)
    BY <1>9 DEF ProvisioningLine, ReplySent
  <2>2. rx' = Idle /\ UNCHANGED <<secured, wire, carried, twice, bare, trouble>>
    BY <1>9 DEF ProvisioningLine, ReplySent
  <2>3. QED
    BY <1>0, <2>1, <2>2, RepliedType DEF RxTypeOK
<1>10. CASE Others
  BY <1>0, <1>10 DEF Others, RxTypeOK
<1>11. CASE Drops
  BY <1>0, <1>11 DEF Drops, Trouble, RxTypeOK
<1>12. CASE Restart
  <2>1. app' \in Apps
    BY <1>0, <1>12 DEF Restart, RxTypeOK, Apps, NoKey
  <2>2. QED
    BY <1>0, <1>12, <2>1 DEF Restart, Trouble, RxTypeOK
<1>13. QED
  BY <1>1, <1>2, <1>3, <1>4, <1>5, <1>6, <1>7, <1>8, <1>9, <1>10, <1>11, <1>12 DEF Next
-----------------------------------------------------------------------------
(* Frames that are received *)

\* Neither a sender nor drop_auth() touches the receive counter of a session that
\* still has its key.
LinkKeeps ==
    /\ keys' = keys
    /\ session'.key \in {NoKey, session.key}
    /\ session'.key # NoKey => session'.rxCtr = session.rxCtr
    /\ session'.rxEnc => session.rxEnc

LEMMA SendersKeep ==
    ASSUME TypeOK, NEW t \in Senders, SendStarts(t) \/ SendLocks(t) \/ SendSeals(t) PROVE LinkKeeps
<1>1. session \in Sessions
  BY DEF TypeOK, LinkTypeOK
<1>2. keys' = keys /\ (session' = session \/ session' = [session EXCEPT !.txCtr = session.txCtr + 1])
  BY DEF SendStarts, SendLocks, SendSeals
<1>3. QED
  BY <1>1, <1>2 DEF LinkKeeps, Sessions

LEMMA DropKeeps ==
    ASSUME TypeOK, LinkInv, DropStep \/ DropStarts PROVE LinkKeeps
<1>1. session \in Sessions
  BY DEF TypeOK, LinkTypeOK
<1>2. dropping = "counters" => session.key = NoKey
  BY DEF LinkInv
<1>3. \/ session' = session
      \/ session' = [session EXCEPT !.key = NoKey]
      \/ dropping = "counters" /\ session' = [session EXCEPT !.rxCtr = 0, !.txCtr = 0]
      \/ session' = [session EXCEPT !.state = "NEW"]
  BY DEF DropStep, DropStarts
<1>4. keys' = keys
  BY DEF DropStep, DropStarts
<1>5. QED
  BY <1>1, <1>2, <1>3, <1>4 DEF LinkKeeps, Sessions

LEMMA OthersKeep ==
    ASSUME TypeOK, LinkInv, Others \/ Drops \/ Replies PROVE LinkKeeps
  BY SendersKeep, DropKeeps, SenderAssumption DEF Others, Drops, Replies

LEMMA FrameInvStep ==
    ASSUME TypeOK, LinkInv, FrameInv, Next PROVE FrameInv'
<1>0. /\ rx \in Receivers /\ rx.frame \in Frames /\ session \in Sessions /\ carried \in SUBSET Nat
      /\ keys \in Nat
  BY DEF TypeOK, RxTypeOK, LinkTypeOK, Receivers
<1>1. CASE \E l \in Lines : AppSends(l)
  <2>1. UNCHANGED <<rx, carried, twice, session, keys>>
    BY <1>1 DEF AppSends, linkVars
  <2>2. QED
    BY <2>1 DEF FrameInv
<1>2. CASE AppAuth1
  <2>1. session'.key = NoKey /\ rx.step = "idle" /\ UNCHANGED <<rx, carried, twice, keys>>
    BY <1>2 DEF AppAuth1, Auth1, Fresh
  <2>2. QED
    BY <2>1 DEF FrameInv
<1>3. CASE AppAuth3
  <2>1. carried' = {} /\ rx.step = "idle" /\ UNCHANGED <<rx, twice>>
    BY <1>3 DEF AppAuth3
  <2>2. QED
    BY <2>1 DEF FrameInv
<1>4. CASE LineArrives \/ StrangeArrives
  <2>1. rx'.step = "arrived" /\ UNCHANGED <<carried, twice, session, keys>>
    BY <1>4 DEF LineArrives, StrangeArrives, Arrives, linkVars
  <2>2. QED
    BY <2>1 DEF FrameInv
<1>5. CASE Clear
  <2>1. rx'.step = "line" /\ rx'.frame = rx.frame /\ rx.frame.key = NoKey
    BY <1>0, <1>5 DEF Clear, Receivers
  <2>2. session'.key = session.key /\ session'.rxCtr = session.rxCtr
    BY <1>0, <1>5 DEF Clear, Unwrapped, Sessions
  <2>3. UNCHANGED <<carried, twice, keys>>
    BY <1>5 DEF Clear
  <2>4. QED
    BY <2>1, <2>2, <2>3 DEF FrameInv
<1>6. CASE Checks
  <2>1. CASE FrameChecked(rx.frame)
    <3>1. rx'.step = "checked" /\ rx'.frame = rx.frame /\ rx.frame.key # NoKey
      BY <1>0, <1>6, <2>1 DEF Checks, Receivers
    <3>2. session.rxCtr < rx.frame.ctr
      BY <1>0, <2>1 DEF FrameChecked, Sessions, Frames
    <3>3. UNCHANGED <<carried, twice, session, keys>>
      BY <1>6, <2>1 DEF Checks, linkVars
    <3>4. QED
      BY <3>1, <3>2, <3>3 DEF FrameInv
  <2>2. CASE ~FrameChecked(rx.frame)
    <3>1. rx'.step = "idle" /\ UNCHANGED <<carried, twice, session, keys>>
      BY <1>6, <2>2 DEF Checks, Refused, Idle, linkVars
    <3>2. QED
      BY <3>1 DEF FrameInv
  <2>3. QED
    BY <2>1, <2>2
<1>7. CASE Decrypts
  <2>1. CASE Authentic(rx.frame)
    <3>1. rx'.step = "opened" /\ rx'.frame = rx.frame /\ rx.step = "checked"
      BY <1>0, <1>7, <2>1 DEF Decrypts, Receivers
    <3>2. rx.frame.key = keys /\ session.key # NoKey
      BY <2>1 DEF Authentic, LinkInv
    <3>3. \A c \in carried : c < rx.frame.ctr
      <4>1. session.rxCtr < rx.frame.ctr /\ \A c \in carried : c <= session.rxCtr
        BY <3>1, <3>2 DEF FrameInv
      <4>2. session.rxCtr \in Nat /\ rx.frame.ctr \in Nat
        BY <1>0 DEF Sessions, Frames
      <4>3. \A c \in carried : c \in Nat
        BY <1>0
      <4>4. QED
        BY <4>1, <4>2, <4>3
    <3>4. UNCHANGED <<carried, twice, session, keys>>
      BY <1>7, <2>1 DEF Decrypts, linkVars
    <3>5. QED
      BY <3>1, <3>2, <3>3, <3>4 DEF FrameInv
  <2>2. CASE ~Authentic(rx.frame)
    <3>1. rx'.step = "idle" /\ UNCHANGED <<carried, twice, session, keys>>
      BY <1>7, <2>2 DEF Decrypts, Refused, Idle, linkVars
    <3>2. QED
      BY <3>1 DEF FrameInv
  <2>3. QED
    BY <2>1, <2>2
<1>8. CASE Opens
  <2>1. rx'.step = "line" /\ rx'.frame = rx.frame /\ rx.step = "opened"
    BY <1>0, <1>8 DEF Opens, Receivers
  <2>2. session'.rxCtr = rx.frame.ctr /\ UNCHANGED <<carried, twice, keys>>
    BY <1>0, <1>8 DEF Opens, Decrypted, Sessions
  <2>3. \A c \in carried : c < rx.frame.ctr /\ c <= rx.frame.ctr
    BY <1>0, <2>1 DEF FrameInv, Frames
  <2>4. rx.frame.ctr <= rx.frame.ctr
    BY <1>0 DEF Frames
  <2>5. QED
    BY <2>1, <2>2, <2>3, <2>4 DEF FrameInv
<1>9. CASE Policy
  <2>1. CASE Allowed /\ rx.frame.key # NoKey
    <3>1. rx'.step = "allowed" /\ carried' = carried \cup {rx.frame.ctr} /\ UNCHANGED <<session, keys>>
      BY <1>0, <1>9, <2>1 DEF Policy, Receivers, linkVars
    <3>2. ~(rx.frame.key < keys) /\ rx.frame.ctr \notin carried
      BY <1>0, <1>9, <2>1 DEF Policy, FrameInv, Frames
    <3>3. ~twice'
      BY <1>9, <2>1, <3>2 DEF Policy, FrameInv
    <3>4. session.key # NoKey => \A c \in carried' : c <= session.rxCtr
      BY <1>9, <2>1, <3>1 DEF Policy, FrameInv
    <3>5. QED
      BY <3>1, <3>3, <3>4 DEF FrameInv
  <2>2. CASE Allowed /\ rx.frame.key = NoKey
    <3>1. rx'.step = "allowed" /\ UNCHANGED <<carried, twice, session, keys>>
      BY <1>0, <1>9, <2>2 DEF Policy, Receivers, linkVars
    <3>2. QED
      BY <3>1 DEF FrameInv
  <2>3. CASE ~Allowed
    <3>1. rx'.step = "idle" /\ UNCHANGED <<carried, twice, session, keys>>
      BY <1>9, <2>3 DEF Policy, Refused, Idle, linkVars
    <3>2. QED
      BY <3>1 DEF FrameInv
  <2>4. QED
    BY <2>1, <2>2, <2>3
<1>10. CASE OwnerCommand \/ ProvisioningLine \/ ReplySent
  <2>1. rx' = Idle \/ rx' = [rx EXCEPT !.step = "replies"]
    BY <1>10 DEF OwnerCommand, ProvisioningLine, ReplySent
  <2>2. rx'.step \in {"idle", "replies"}
    BY <1>0, <2>1 DEF Idle, Receivers
  <2>3. UNCHANGED <<carried, twice, session, keys>>
    BY <1>10 DEF OwnerCommand, ProvisioningLine, ReplySent, linkVars
  <2>4. QED
    BY <2>2, <2>3 DEF FrameInv
<1>11. CASE Others \/ Drops \/ Replies
  <2>1. LinkKeeps
    BY <1>11, OthersKeep
  <2>2. (rx' = rx \/ rx'.step = "sends") /\ UNCHANGED <<carried, twice>>
    BY <1>0, <1>11 DEF Others, Drops, Replies, Receivers
  <2>3. QED
    BY <2>1, <2>2 DEF FrameInv, LinkKeeps
<1>12. CASE Restart
  <2>1. session'.key = NoKey /\ rx'.step = "idle" /\ UNCHANGED <<carried, twice, keys>>
    BY <1>12 DEF Restart, LinkRestart, Fresh, Idle
  <2>2. QED
    BY <2>1 DEF FrameInv
<1>13. QED
  BY <1>1, <1>2, <1>3, <1>4, <1>5, <1>6, <1>7, <1>8, <1>9, <1>10, <1>11, <1>12 DEF Next
-----------------------------------------------------------------------------
(* Lines in the clear *)

LEMMA ClearInvStep ==
    ASSUME TypeOK, LinkInv, FrameInv, ClearInv, Next PROVE ClearInv'
<1>0. /\ rx \in Receivers /\ session \in Sessions /\ secured \in BOOLEAN /\ bare \in BOOLEAN
  BY DEF TypeOK, RxTypeOK, LinkTypeOK
<1>1. CASE \E l \in Lines : AppSends(l)
  <2>1. UNCHANGED <<secured, rx, bare, session>>
    BY <1>1 DEF AppSends, linkVars
  <2>2. QED
    BY <2>1 DEF ClearInv, ClearIsRefused
<1>2. CASE AppAuth1 \/ AppAuth3
  <2>1. rx.step = "idle" /\ UNCHANGED <<secured, rx, bare>>
    BY <1>2 DEF AppAuth1, AppAuth3
  <2>2. QED
    BY <2>1 DEF ClearInv, ClearIsRefused
<1>3. CASE LineArrives \/ StrangeArrives
  <2>1. rx'.step = "arrived" /\ UNCHANGED <<secured, bare>>
    BY <1>3 DEF LineArrives, StrangeArrives, Arrives
  <2>2. QED
    BY <2>1 DEF ClearInv, ClearIsRefused
<1>4. CASE Clear
  <2>1. ~session'.rxEnc /\ UNCHANGED <<secured, bare>>
    BY <1>0, <1>4 DEF Clear, Unwrapped, Sessions
  <2>2. QED
    BY <2>1 DEF ClearInv, ClearIsRefused
<1>5. CASE Checks \/ Decrypts
  <2>1. rx' = Idle \/ rx' \in {[rx EXCEPT !.step = "checked"], [rx EXCEPT !.step = "opened"]}
    BY <1>5 DEF Checks, Decrypts, Refused
  <2>2. rx'.step \in {"idle", "checked", "opened"}
    BY <1>0, <2>1 DEF Receivers, Idle
  <2>3. UNCHANGED <<secured, bare>>
    BY <1>5 DEF Checks, Decrypts, Refused
  <2>4. QED
    BY <2>2, <2>3 DEF ClearInv, ClearIsRefused
<1>6. CASE Opens
  <2>1. rx'.frame = rx.frame /\ rx.step = "opened" /\ UNCHANGED <<secured, bare>>
    BY <1>0, <1>6 DEF Opens, Receivers
  <2>2. rx.frame.key # NoKey
    BY <2>1 DEF FrameInv
  <2>3. QED
    BY <2>1, <2>2 DEF ClearInv, ClearIsRefused
<1>7. CASE Policy
  <2>1. CASE Allowed
    <3>1. rx'.step = "allowed" /\ secured' = secured /\ bare' = (bare \/ rx.frame.key = NoKey)
      BY <1>0, <1>7, <2>1 DEF Policy, Receivers
    <3>2. secured => rx.frame.key # NoKey
      BY <1>7, <2>1 DEF Policy, Allowed, IsPublic, ClearInv
    <3>3. QED
      BY <3>1, <3>2 DEF ClearInv, ClearIsRefused
  <2>2. CASE ~Allowed
    <3>1. rx'.step = "idle" /\ UNCHANGED <<secured, bare>>
      BY <1>7, <2>2 DEF Policy, Refused, Idle
    <3>2. QED
      BY <3>1 DEF ClearInv, ClearIsRefused
  <2>3. QED
    BY <2>1, <2>2
<1>8. CASE OwnerCommand \/ ProvisioningLine \/ ReplySent
  <2>1. rx' = Idle \/ rx' = [rx EXCEPT !.step = "replies"]
    BY <1>8 DEF OwnerCommand, ProvisioningLine, ReplySent
  <2>2. rx'.step \in {"idle", "replies"}
    BY <1>0, <2>1 DEF Receivers, Idle
  <2>3. UNCHANGED <<secured, bare>>
    BY <1>8 DEF OwnerCommand, ProvisioningLine, ReplySent
  <2>4. QED
    BY <2>2, <2>3 DEF ClearInv, ClearIsRefused
<1>9. CASE Others \/ Drops \/ Replies
  <2>1. LinkKeeps
    BY <1>9, OthersKeep
  <2>2. (rx' = rx \/ rx'.step = "sends") /\ UNCHANGED <<secured, bare>>
    BY <1>0, <1>9 DEF Others, Drops, Replies, Receivers
  <2>3. QED
    BY <2>1, <2>2 DEF ClearInv, ClearIsRefused, LinkKeeps
<1>10. CASE Restart
  <2>1. rx'.step = "idle" /\ UNCHANGED <<secured, bare>>
    BY <1>10 DEF Restart, Idle
  <2>2. QED
    BY <2>1 DEF ClearInv, ClearIsRefused
<1>11. QED
  BY <1>1, <1>2, <1>3, <1>4, <1>5, <1>6, <1>7, <1>8, <1>9, <1>10 DEF Next
-----------------------------------------------------------------------------
(* The invariant, and what follows from it *)

LEMMA InitHolds == Init => CommandsInv
<1> SUFFICES ASSUME Init PROVE CommandsInv
  OBVIOUS
<1>1. LinkTypeOK /\ LinkInv
  BY SenderAssumption
     DEF Init, LinkInit, LinkTypeOK, LinkInv, Sessions, Fresh, NoKey
<1>2. RxTypeOK
  <2>1. rx \in Receivers /\ wire \in Frames
    BY NoFrameType DEF Init, Idle, Receivers, Steps
  <2>2. app \in Apps
    BY DEF Init, Apps, NoKey
  <2>3. QED
    BY <2>1, <2>2 DEF Init, RxTypeOK
<1>3. rx.step = "idle"
  BY DEF Init, Idle
<1>4. FrameInv /\ ClearInv
  BY <1>3 DEF Init, FrameInv, ClearInv, ClearIsRefused
<1>5. QED
  BY <1>1, <1>2, <1>4 DEF CommandsInv, TypeOK

LEMMA NextPreserves == CommandsInv /\ [Next]_vars => CommandsInv'
<1> SUFFICES ASSUME CommandsInv, [Next]_vars PROVE CommandsInv'
  OBVIOUS
<1>1. CASE Next
  <2>0. TypeOK /\ LinkInv /\ FrameInv /\ ClearInv
    BY DEF CommandsInv
  <2>1. LinkTypeOK' /\ LinkInv'
    <3>1. CASE LinkStep
      BY <2>0, <3>1, LinkTypeStep, LinkInvStep
    <3>2. CASE UNCHANGED linkVars
      BY <2>0, <3>2 DEF TypeOK, LinkTypeOK, LinkInv, linkVars
    <3>3. QED
      BY <1>1, <3>1, <3>2, NextIsLinkStep
  <2>2. RxTypeOK' /\ FrameInv' /\ ClearInv'
    BY <1>1, <2>0, RxTypeStep, FrameInvStep, ClearInvStep
  <2>3. QED
    BY <2>1, <2>2 DEF CommandsInv, TypeOK
<1>2. CASE UNCHANGED vars
  BY <1>2
     DEF vars, linkVars, CommandsInv, TypeOK, LinkTypeOK, RxTypeOK, LinkInv, FrameInv, ClearInv,
         ClearIsRefused
<1>3. QED
  BY <1>1, <1>2

LEMMA CommandsInvHolds == Spec => []CommandsInv
  BY InitHolds, NextPreserves, PTL DEF Spec

\* Type correctness of link, receive task and phone.
THEOREM TypeCorrect == Spec => []TypeOK
<1>1. CommandsInv => TypeOK
  BY DEF CommandsInv
<1>2. QED
  BY <1>1, CommandsInvHolds, PTL

\* No session key seals two frames with the same counter, for any number of
\* senders, handshakes and frames (enc_frame_send(), drop_auth()).
THEOREM NoncesCorrect == Spec => []NoncesFresh
<1>1. CommandsInv => NoncesFresh
  BY DEF CommandsInv, LinkInv, NoncesFresh
<1>2. QED
  BY <1>1, CommandsInvHolds, PTL

\* A frame that is put on the socket again is refused, also while the session is
\* dropped and after restarts (enc_frame_unwrap(), drop_auth()).
THEOREM FramesCorrect == Spec => []FramesOnce
<1>1. CommandsInv => FramesOnce
  BY DEF CommandsInv, FrameInv, FramesOnce
<1>2. QED
  BY <1>1, CommandsInvHolds, PTL

\* A device with a password carries out no line in the clear, for any number of
\* senders, handshakes, drops and restarts (access_policy_allow(),
\* enc_frame_unwrap()).
THEOREM ClearLinesRefused == Spec => []ClearIsRefused
<1>1. CommandsInv => ClearIsRefused
  BY DEF CommandsInv, ClearInv
<1>2. QED
  BY <1>1, CommandsInvHolds, PTL
=============================================================================
