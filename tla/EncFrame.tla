----------------------------- MODULE EncFrame -----------------------------
(***************************************************************************)
(* One socket's session key and the frames that it seals and opens         *)
(* (security/enc_frame.c), with what else changes the session: the         *)
(* reconnect handshake of its receive task (security/local_auth.c) and     *)
(* drop_auth() (security/local_session.c), which another client's task     *)
(* runs under the pool's lock and not under that of the frames.            *)
(*                                                                         *)
(* Session keys are numbered in the order of their derivation; NoKey is    *)
(* all that is not a session key: zeros, and the account key that a        *)
(* handshake puts there.  A frame is a line with the key and the counter   *)
(* that it was sealed with; base64 and its errors are left out.  A         *)
(* handshake takes two round trips and so does not fit into drop_auth() or *)
(* into the time that a frame is sealed in.                                *)
(***************************************************************************)
EXTENDS Naturals

CONSTANTS Senders,    \* the tasks that send to the socket
          Recv,       \* the receive task, which is one of them
          Nobody,
          MaxKeys,    \* bound: handshakes
          MaxSealed   \* bound: frames that the device seals with one key

ASSUME SenderAssumption == Recv \in Senders /\ Nobody \notin Senders

VARIABLES
    session,   \* state, key, rx_ctr, tx_ctr and rx_encrypted
    keys,      \* history: session keys derived so far
    dropping,  \* the statement that a drop_auth() is at, "none" without one
    lock,      \* the holder of s_tx_mutex
    tx,        \* per sender: how far its enc_frame_send() is
    sealed,    \* history: the counters that the last session key sealed frames with
    reused     \* history: it sealed two frames with one counter

linkVars == <<session, keys, dropping, lock, tx, sealed, reused>>

NoKey == 0

Fresh(state) == [state |-> state, key |-> NoKey, rxCtr |-> 0, txCtr |-> 0, rxEnc |-> FALSE]

LinkInit ==
    /\ session = Fresh("NEW") /\ keys = 0 /\ dropping = "none"
    /\ lock = Nobody /\ tx = [t \in Senders |-> "idle"]
    /\ sealed = {} /\ reused = FALSE

\* session_keyed().  LS_PAKE_OK, which a pairing ends in, is the same to this module
\* and to the access policy, and is not told apart.
SessionKeyed == session.state = "AUTH_OK"
-----------------------------------------------------------------------------
(* the handshake, by the receive task *)

\* AUTH1: local_session_reset_handshake().
Auth1 ==
    /\ dropping = "none"
    /\ session' = Fresh("WAIT_PROOF")
    /\ UNCHANGED <<keys, dropping, lock, tx, sealed, reused>>

\* AUTH3: a new key, the counters at zero, and the state last.
Auth3 ==
    /\ session.state = "WAIT_PROOF"
    /\ dropping = "none" /\ lock = Nobody
    /\ keys < MaxKeys
    /\ keys' = keys + 1
    /\ session' = [Fresh("AUTH_OK") EXCEPT !.key = keys + 1]
    /\ sealed' = {}
    /\ UNCHANGED <<dropping, lock, tx, reused>>
-----------------------------------------------------------------------------
(* drop_auth(), by another client's task: REVOKE, PWSET or RESET *)

DropStarts ==
    /\ dropping = "none" /\ session.state = "AUTH_OK"
    /\ dropping' = "key"
    /\ UNCHANGED <<session, keys, lock, tx, sealed, reused>>

\* Mutant of DropStep: the counters are reset before the key is wiped.
DropStepCountersFirst ==
    /\ dropping # "none"
    /\ \/ dropping = "key" /\ dropping' = "counters"
          /\ session' = [session EXCEPT !.rxCtr = 0, !.txCtr = 0]
       \/ dropping = "counters" /\ dropping' = "state"
          /\ session' = [session EXCEPT !.key = NoKey]
       \/ dropping = "state" /\ dropping' = "none"
          /\ session' = [session EXCEPT !.state = "NEW"]
    /\ UNCHANGED <<keys, lock, tx, sealed, reused>>

\* The key, the counters, the state; rx_encrypted stays.
DropStep ==
    /\ dropping # "none"
    /\ \/ dropping = "key" /\ dropping' = "counters"
          /\ session' = [session EXCEPT !.key = NoKey]
       \/ dropping = "counters" /\ dropping' = "state"
          /\ session' = [session EXCEPT !.rxCtr = 0, !.txCtr = 0]
       \/ dropping = "state" /\ dropping' = "none"
          /\ session' = [session EXCEPT !.state = "NEW"]
    /\ UNCHANGED <<keys, lock, tx, sealed, reused>>
-----------------------------------------------------------------------------
(* enc_frame_unwrap(), by the receive task *)

\* Mutant of Unwrapped: the flag of the last frame stays.
UnwrappedKeeps == UNCHANGED session

\* A line in the clear.
Unwrapped == session' = [session EXCEPT !.rxEnc = FALSE]

\* Before the frame is decrypted: a key, and a counter that is above the last.
FrameChecked(f) == SessionKeyed /\ f.ctr > session.rxCtr

\* The tag is right.
Authentic(f) == f.key # NoKey /\ f.key = session.key

Decrypted(f) == session' = [session EXCEPT !.rxCtr = f.ctr, !.rxEnc = TRUE]
-----------------------------------------------------------------------------
(* enc_frame_send() *)

\* Without a key the line goes out as it is, and is not followed here.
SendStarts(t) ==
    /\ tx[t] = "idle" /\ SessionKeyed
    /\ session.txCtr < MaxSealed
    /\ tx' = [tx EXCEPT ![t] = "keyed"]
    /\ UNCHANGED <<session, keys, dropping, lock, sealed, reused>>

\* Mutant of SendLocks: the lock is not taken.
SendLocksNot(t) ==
    /\ tx[t] = "keyed"
    /\ tx' = [tx EXCEPT ![t] = IF SessionKeyed THEN "seals" ELSE "idle"]
    /\ session' = IF SessionKeyed THEN [session EXCEPT !.txCtr = @ + 1] ELSE session
    /\ UNCHANGED <<keys, dropping, lock, sealed, reused>>

\* The session is checked again under the lock, and tx_ctr counted.
SendLocks(t) ==
    /\ tx[t] = "keyed" /\ lock = Nobody
    /\ IF SessionKeyed
       THEN /\ lock' = t
            /\ session' = [session EXCEPT !.txCtr = @ + 1]
            /\ tx' = [tx EXCEPT ![t] = "seals"]
       ELSE /\ tx' = [tx EXCEPT ![t] = "idle"]
            /\ UNCHANGED <<lock, session>>
    /\ UNCHANGED <<keys, dropping, sealed, reused>>

\* The frame is sealed with the counter and the key as they are now.
SendSeals(t) ==
    /\ tx[t] = "seals"
    /\ IF session.key = NoKey THEN UNCHANGED <<sealed, reused>>
       ELSE /\ sealed' = sealed \cup {session.txCtr}
            /\ reused' = (reused \/ session.txCtr \in sealed)
    /\ lock' = Nobody
    /\ tx' = [tx EXCEPT ![t] = "idle"]
    /\ UNCHANGED <<session, keys, dropping>>

\* The device restarts: no session, and no task that sends.
LinkRestart ==
    /\ session' = Fresh("NEW") /\ dropping' = "none"
    /\ lock' = Nobody /\ tx' = [t \in Senders |-> "idle"]
    /\ UNCHANGED <<keys, sealed, reused>>
=============================================================================
