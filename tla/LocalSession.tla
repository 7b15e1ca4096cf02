---------------------------- MODULE LocalSession ----------------------------
(***************************************************************************)
(* A slot of the session pool (security/local_session.c) as a value, and   *)
(* what the pool's operations make of it.  paired_index is 1-based, 0 is   *)
(* the code's -1.                                                          *)
(*                                                                         *)
(* key is tagged with what it was derived from: nothing (all zero), the    *)
(* password of one epoch (K_pake), one K_account, or a K_session derived   *)
(* from one K_account.  Nonces and frame counters are left out; so is      *)
(* rx_encrypted, which is set anew for every line before it is dispatched. *)
(* who is a history variable: the account the slot was last bound to.      *)
(***************************************************************************)
EXTENDS PairedList

NoKey == <<"zero", 0>>

Keys == {"zero", "pake", "acct", "sess"} \X Nat

SessionStates ==
    {"LS_NEW", "LS_PAKE_WAIT_PROOF", "LS_PAKE_OK", "LS_AUTH_WAIT_PROOF", "LS_AUTH_OK"}

Session ==
    [live : BOOLEAN, state : SessionStates, role : Roles,
     paired_index : Nat, srp : BOOLEAN, key : Keys, who : Subs \cup {NoSub}]

\* wipe(): the slot is free.
Wiped ==
    [live |-> FALSE, state |-> "LS_NEW", role |-> "none", paired_index |-> 0,
     srp |-> FALSE, key |-> NoKey, who |-> NoSub]

\* local_session_acquire()
Acquired == [Wiped EXCEPT !.live = TRUE]

\* drop_auth() and local_session_reset_handshake(): keys and entry forgotten,
\* the socket kept.
DropAuth(s) == [Wiped EXCEPT !.live = s.live]

\* Mutant of OnPairedRemoved: sessions without an entry shift as well.
OnPairedRemovedShiftsAll(s, i) ==
    IF ~s.live THEN s
    ELSE IF s.paired_index = i THEN DropAuth(s)
    ELSE [s EXCEPT !.paired_index = @ - 1]

\* Mutant of OnPairedRemoved: the sessions of the entry shift instead of being dropped.
OnPairedRemovedKeeps(s, i) ==
    IF s.live /\ s.paired_index >= i THEN [s EXCEPT !.paired_index = @ - 1] ELSE s

\* local_session_on_paired_removed() for one slot.
OnPairedRemoved(s, i) ==
    IF ~s.live THEN s
    ELSE IF s.paired_index = i THEN DropAuth(s)
    ELSE IF s.paired_index > i THEN [s EXCEPT !.paired_index = @ - 1]
    ELSE s

\* session_keyed() in enc_frame.c
Keyed(s) == s.state \in {"LS_PAKE_OK", "LS_AUTH_OK"}

\* A line arrives in an ENC: frame: the peer encrypts under the key the
\* handshake gave it, so nothing decrypts under a key that was zeroed.
Encrypted(s) == s.live /\ Keyed(s) /\ s.key # NoKey

\* is_owner_session() and is_authed_session() in owner_commands.c
IsOwnerSession(s) ==
    /\ Encrypted(s)
    /\ s.role = "owner"
    /\ s.state = "LS_AUTH_OK" \/ s.paired_index > 0

IsAuthedSession(s) == Encrypted(s) /\ s.paired_index > 0
=============================================================================
