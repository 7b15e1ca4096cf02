------------------------------ MODULE LocalAuth ------------------------------
(***************************************************************************)
(* Local access control: the receive tasks of the connected clients run    *)
(* the handshakes (pake_handler.c, local_auth.c) and the owner's commands  *)
(* (owner_commands.c) against the paired list, the session pool, the       *)
(* device password and the queue of pairing events, which they share.      *)
(*                                                                         *)
(* A handler is a sequence of steps: a step is one call that holds a       *)
(* mutex, or one run of statements on the task's own slot between two such *)
(* calls.  Steps of different tasks interleave; a task handles one line at *)
(* a time.  A line that a handler refuses without changing anything is     *)
(* not a step.                                                             *)
(***************************************************************************)
EXTENDS LocalSession, FiniteSets

CONSTANTS Sessions,    \* slots of the session pool
          MaxBusy,     \* bound: handlers in progress at once
          MaxKeys,     \* bound: K_account generated
          MaxPwSets,   \* bound: passwords set
          MaxFails,    \* bound: failing NVS writes
          MaxResets,   \* bound: RESET commands
          MaxBoots     \* bound: reboots

ASSUME BoundsAssumption ==
    /\ IsFiniteSet(Sessions)
    /\ MaxBusy \in Nat /\ MaxKeys \in Nat /\ MaxPwSets \in Nat
    /\ MaxFails \in Nat /\ MaxResets \in Nat /\ MaxBoots \in Nat

VARIABLES
    list,     \* s_list in RAM
    pw,       \* epoch of the device password in RAM, 0 if none is set
    store,    \* NVS: the list and the password
    sess,     \* the session pool
    h,        \* per slot: the handler its receive task is running
    told,     \* accounts the backend takes for paired, once it has seen every queued event
    handed,   \* <<K_account, password epoch>>: sent in ENROLLED to a session of that PAKE
    used      \* how much of each bound is used

vars == <<list, pw, store, sess, h, told, handed, used>>

Counters == [keys : Nat, pws : Nat, fails : Nat, resets : Nat, boots : Nat]

Steps == {"idle", "pake1", "exchange", "pake3", "add", "assign", "paired",
          "auth1_find", "auth1_get", "auth1_set", "auth3_role", "auth3_ok",
          "revoke_find", "revoke_get", "unpair_get", "unpair_index",
          "remove", "sessions", "unpaired", "pwset", "scan", "rotate", "pwclear",
          "reset_list", "reset_pw", "reset_sessions", "reset"}

Handler ==
    [cmd : {"none", "revoke", "unpair", "pwset"}, pc : Steps, sub : Subs \cup {NoSub},
     role : Roles, index : Nat, key : Nat, epoch : Nat]

Idle ==
    [cmd |-> "none", pc |-> "idle", sub |-> NoSub, role |-> "none",
     index |-> 0, key |-> 0, epoch |-> 0]

Init ==
    /\ list = EmptyList
    /\ pw = 0
    /\ store = [list |-> EmptyList, pw |-> 0]
    /\ sess = [s \in Sessions |-> Wiped]
    /\ h = [s \in Sessions |-> Idle]
    /\ told = {}
    /\ handed = {}
    /\ used = [keys |-> 0, pws |-> 0, fails |-> 0, resets |-> 0, boots |-> 0]
-----------------------------------------------------------------------------
(* Helpers *)

Quiet == \A s \in Sessions : h[s].pc = "idle"

At(s, pc) == h[s].pc = pc

\* The task of slot s may take the next line.
MayStart(s) ==
    /\ sess[s].live
    /\ At(s, "idle")
    /\ Cardinality({t \in Sessions : ~At(t, "idle")}) < MaxBusy

\* The task of slot s writes the slot, or moves on in its handler.
Update(s, slot) == sess' = [sess EXCEPT ![s] = slot]

Proceed(s, handler) == h' = [h EXCEPT ![s] = handler]

Goto(s, pc) == Proceed(s, [h[s] EXCEPT !.pc = pc])

Return(s) == Proceed(s, Idle)

\* The outcome of one NVS write, and the budget for failing ones.
NvsOutcome(ok) ==
    /\ ok \in BOOLEAN
    /\ ~ok => used.fails < MaxFails

Charge(counter) == [used EXCEPT ![counter] = @ + 1]

ChargeNvs(ok) == used' = IF ok THEN used ELSE Charge("fails")

StoreList(ok, L) == store' = IF ok THEN [store EXCEPT !.list = Stored(L)] ELSE store
-----------------------------------------------------------------------------
(* The connection: tcp_client_recv_task's slot is acquired by the listener  *)
(* and released by the task itself, between two lines.                      *)

Connect(s) ==
    /\ ~sess[s].live
    /\ Update(s, Acquired)
    /\ UNCHANGED <<list, pw, store, h, told, handed, used>>

Disconnect(s) ==
    /\ sess[s].live
    /\ At(s, "idle")
    /\ Update(s, Wiped)
    /\ UNCHANGED <<list, pw, store, h, told, handed, used>>
-----------------------------------------------------------------------------
(* pake_handler.c *)

\* PAKE1 or AUTH1 that is refused after it has reset the handshake (LOCKED,
\* BADFMT, NOPW, NOMEM).
RestartRefused(s) ==
    /\ MayStart(s)
    /\ Update(s, DropAuth(sess[s]))
    /\ UNCHANGED <<list, pw, store, h, told, handed, used>>

\* PAKE1: reset the handshake, read the verifier.
Pake1(s) ==
    /\ MayStart(s)
    /\ Update(s, DropAuth(sess[s]))
    /\ Proceed(s, [h[s] EXCEPT !.pc = "pake1", !.epoch = pw])
    /\ UNCHANGED <<list, pw, store, told, handed, used>>

\* PAKE1, after the SRP computation: K_pake and the SRP handle into the slot.
Pake1Set(s) ==
    /\ At(s, "pake1")
    /\ Update(s, [sess[s] EXCEPT !.key = <<"pake", h[s].epoch>>,
                                 !.srp = TRUE,
                                 !.state = "LS_PAKE_WAIT_PROOF"])
    /\ Return(s)
    /\ UNCHANGED <<list, pw, store, told, handed, used>>

AbortPake(s) == Update(s, [sess[s] EXCEPT !.srp = FALSE, !.key = NoKey, !.state = "LS_NEW"])

\* PAKE3 whose payload does not decode.
Pake3Malformed(s) ==
    /\ MayStart(s)
    /\ sess[s].state = "LS_PAKE_WAIT_PROOF" /\ sess[s].srp
    /\ AbortPake(s)
    /\ UNCHANGED <<list, pw, store, h, told, handed, used>>

\* PAKE3: esp_srp_exchange_proofs() works on the handle.
Pake3(s) ==
    /\ MayStart(s)
    /\ sess[s].state = "LS_PAKE_WAIT_PROOF" /\ sess[s].srp
    /\ Goto(s, "exchange")
    /\ UNCHANGED <<list, pw, store, sess, told, handed, used>>

Pake3Bad(s) ==
    /\ At(s, "exchange")
    /\ AbortPake(s)
    /\ Return(s)
    /\ UNCHANGED <<list, pw, store, told, handed, used>>

\* The proof is good: the handle is freed, the lockout counters cleared.
Pake3Good(s) ==
    /\ At(s, "exchange")
    /\ Update(s, [sess[s] EXCEPT !.srp = FALSE])
    /\ Goto(s, "pake3")
    /\ UNCHANGED <<list, pw, store, told, handed, used>>

\* PAKE4 is sent, then the state moves.
Pake3Ok(s) ==
    /\ At(s, "pake3")
    /\ Update(s, [sess[s] EXCEPT !.state = "LS_PAKE_OK"])
    /\ Return(s)
    /\ UNCHANGED <<list, pw, store, told, handed, used>>
-----------------------------------------------------------------------------
(* local_auth.c: ENROLL *)

Enroll(s, u) ==
    /\ MayStart(s)
    /\ Encrypted(sess[s]) /\ sess[s].state = "LS_PAKE_OK"
    /\ Proceed(s, [h[s] EXCEPT !.pc = "add", !.sub = u, !.epoch = sess[s].key[2]])
    /\ UNCHANGED <<list, pw, store, sess, told, handed, used>>

\* paired_list_add(): the list is full.
EnrollFull(s) ==
    /\ At(s, "add")
    /\ ~Fits(list, h[s].sub)
    /\ Return(s)
    /\ UNCHANGED <<list, pw, store, sess, told, handed, used>>

\* Mutant of EnrollStoreFails: the claim of ownership is not undone.
EnrollStoreFailsKeepsClaim(s) ==
    /\ At(s, "add")
    /\ Fits(list, h[s].sub)
    /\ used.fails < MaxFails
    /\ used' = Charge("fails")
    /\ list' = Claim(list, h[s].sub)
    /\ Return(s)
    /\ UNCHANGED <<pw, store, sess, told, handed>>

\* paired_list_add(): the write fails and the list is put back as it was.
EnrollStoreFails(s) ==
    /\ At(s, "add")
    /\ Fits(list, h[s].sub)
    /\ used.fails < MaxFails
    /\ used' = Charge("fails")
    /\ Return(s)
    /\ UNCHANGED <<list, pw, store, sess, told, handed>>

\* paired_list_add() makes L of the list and returns the account's entry.
Added(s, L) ==
    LET i == AddIndex(list, h[s].sub)
    IN  /\ list' = L
        /\ StoreList(TRUE, L)
        /\ Proceed(s, [h[s] EXCEPT !.pc = "assign", !.index = i,
                                   !.role = L.entries[i].role, !.key = L.entries[i].key])

\* paired_list_add() of an account that is paired already.
EnrollAgain(s) ==
    /\ At(s, "add")
    /\ h[s].sub \in Accounts(list)
    /\ Added(s, Add(list, h[s].sub, 0))
    /\ UNCHANGED <<pw, sess, told, handed, used>>

\* paired_list_add() of a new account, with a fresh K_account.
EnrollNew(s) ==
    /\ At(s, "add")
    /\ h[s].sub \notin Accounts(list)
    /\ Fits(list, h[s].sub)
    /\ used.keys < MaxKeys
    /\ Added(s, Add(list, h[s].sub, used.keys + 1))
    /\ used' = Charge("keys")
    /\ UNCHANGED <<pw, sess, told, handed>>

\* The slot is bound to the entry and ENROLLED carries the key to the phone.
EnrollAssign(s) ==
    /\ At(s, "assign")
    /\ Update(s, [sess[s] EXCEPT !.paired_index = h[s].index,
                                 !.role = h[s].role,
                                 !.who = h[s].sub])
    /\ handed' = handed \cup {<<h[s].key, h[s].epoch>>}
    /\ Goto(s, "paired")
    /\ UNCHANGED <<list, pw, store, told, used>>

EnrollEvent(s) ==
    /\ At(s, "paired")
    /\ told' = told \cup {h[s].sub}
    /\ Return(s)
    /\ UNCHANGED <<list, pw, store, sess, handed, used>>
-----------------------------------------------------------------------------
(* local_auth.c: AUTH1, AUTH3 *)

Auth1(s, u) ==
    /\ MayStart(s)
    /\ Update(s, DropAuth(sess[s]))
    /\ Proceed(s, [h[s] EXCEPT !.pc = "auth1_find", !.sub = u])
    /\ UNCHANGED <<list, pw, store, told, handed, used>>

Auth1Find(s) ==
    /\ At(s, "auth1_find")
    /\ IF h[s].sub \in Accounts(list)
       THEN Proceed(s, [h[s] EXCEPT !.pc = "auth1_get", !.index = Find(list, h[s].sub)])
       ELSE Return(s)
    /\ UNCHANGED <<list, pw, store, sess, told, handed, used>>

Auth1Get(s) ==
    /\ At(s, "auth1_get")
    /\ IF InRange(list, h[s].index)
       THEN Proceed(s, [h[s] EXCEPT !.pc = "auth1_set", !.key = list.entries[h[s].index].key])
       ELSE Return(s)
    /\ UNCHANGED <<list, pw, store, sess, told, handed, used>>

Auth1Set(s) ==
    /\ At(s, "auth1_set")
    /\ Update(s, [sess[s] EXCEPT !.key = <<"acct", h[s].key>>,
                                 !.paired_index = h[s].index,
                                 !.state = "LS_AUTH_WAIT_PROOF",
                                 !.who = h[s].sub])
    /\ Return(s)
    /\ UNCHANGED <<list, pw, store, told, handed, used>>

\* AUTH3 with a wrong proof.
Auth3Bad(s) ==
    /\ MayStart(s)
    /\ sess[s].state = "LS_AUTH_WAIT_PROOF"
    /\ Update(s, [sess[s] EXCEPT !.key = NoKey, !.paired_index = 0,
                                 !.state = "LS_NEW", !.who = NoSub])
    /\ UNCHANGED <<list, pw, store, h, told, handed, used>>

\* AUTH3 from a phone that holds the K_account: K_session takes its place.
Auth3(s) ==
    /\ MayStart(s)
    /\ sess[s].state = "LS_AUTH_WAIT_PROOF"
    /\ \E g \in handed : sess[s].key = <<"acct", g[1]>>
    /\ Update(s, [sess[s] EXCEPT !.key = <<"sess", sess[s].key[2]>>])
    /\ Goto(s, "auth3_role")
    /\ UNCHANGED <<list, pw, store, told, handed, used>>

Auth3Role(s) ==
    /\ At(s, "auth3_role")
    /\ Update(s, [sess[s] EXCEPT !.role =
                   IF /\ InRange(list, sess[s].paired_index)
                      /\ list.entries[sess[s].paired_index].role = "owner"
                   THEN "owner" ELSE "user"])
    /\ Goto(s, "auth3_ok")
    /\ UNCHANGED <<list, pw, store, told, handed, used>>

\* AUTHOK is sent, then the state moves.
Auth3Ok(s) ==
    /\ At(s, "auth3_ok")
    /\ Update(s, [sess[s] EXCEPT !.state = "LS_AUTH_OK"])
    /\ Return(s)
    /\ UNCHANGED <<list, pw, store, told, handed, used>>
-----------------------------------------------------------------------------
(* owner_commands.c: REVOKE and UNPAIR *)

Revoke(s, u) ==
    /\ MayStart(s)
    /\ IsOwnerSession(sess[s])
    /\ Proceed(s, [h[s] EXCEPT !.cmd = "revoke", !.pc = "revoke_find", !.sub = u])
    /\ UNCHANGED <<list, pw, store, sess, told, handed, used>>

RevokeFind(s) ==
    /\ At(s, "revoke_find")
    /\ IF h[s].sub \in Accounts(list)
       THEN Proceed(s, [h[s] EXCEPT !.pc = "revoke_get", !.index = Find(list, h[s].sub)])
       ELSE Return(s)
    /\ UNCHANGED <<list, pw, store, sess, told, handed, used>>

\* The entry must still be there and not be the caller's own.
RevokeGet(s) ==
    /\ At(s, "revoke_get")
    /\ IF InRange(list, h[s].index) /\ h[s].index # sess[s].paired_index
       THEN Goto(s, "remove")
       ELSE Return(s)
    /\ UNCHANGED <<list, pw, store, sess, told, handed, used>>

Unpair(s) ==
    /\ MayStart(s)
    /\ IsAuthedSession(sess[s])
    /\ Proceed(s, [h[s] EXCEPT !.cmd = "unpair", !.pc = "unpair_get"])
    /\ UNCHANGED <<list, pw, store, sess, told, handed, used>>

\* The caller's entry must not be the owner's.
UnpairGet(s) ==
    /\ At(s, "unpair_get")
    /\ LET i == sess[s].paired_index
       IN  IF InRange(list, i) /\ list.entries[i].role # "owner"
           THEN Proceed(s, [h[s] EXCEPT !.pc = "unpair_index", !.sub = list.entries[i].sub])
           ELSE Return(s)
    /\ UNCHANGED <<list, pw, store, sess, told, handed, used>>

\* ACK is sent, then paired_index is read again.
UnpairIndex(s) ==
    /\ At(s, "unpair_index")
    /\ Proceed(s, [h[s] EXCEPT !.pc = "remove", !.index = sess[s].paired_index])
    /\ UNCHANGED <<list, pw, store, sess, told, handed, used>>

\* Where a handler goes when paired_list_remove() did not return ESP_OK.
NotRemoved(s) ==
    IF h[s].cmd = "pwset"
    THEN Proceed(s, [h[s] EXCEPT !.pc = "scan", !.index = h[s].index + 1])
    ELSE Return(s)

RemoveNotFound(s) ==
    /\ At(s, "remove")
    /\ ~InRange(list, h[s].index)
    /\ NotRemoved(s)
    /\ UNCHANGED <<list, pw, store, sess, told, handed, used>>

\* paired_list_remove(): the entry is gone from RAM even when the write fails.
RemoveEntry(s, ok) ==
    /\ At(s, "remove")
    /\ InRange(list, h[s].index)
    /\ NvsOutcome(ok)
    /\ ChargeNvs(ok)
    /\ list' = Remove(list, h[s].index)
    /\ StoreList(ok, Remove(list, h[s].index))
    /\ IF ok THEN Goto(s, "sessions") ELSE NotRemoved(s)
    /\ UNCHANGED <<pw, sess, told, handed>>

\* local_session_on_paired_removed()
DropSessions(s) ==
    /\ At(s, "sessions")
    /\ sess' = [t \in Sessions |-> OnPairedRemoved(sess[t], h[s].index)]
    /\ Goto(s, "unpaired")
    /\ UNCHANGED <<list, pw, store, told, handed, used>>

UnpairedEvent(s) ==
    /\ At(s, "unpaired")
    /\ told' = told \ {h[s].sub}
    /\ IF h[s].cmd = "pwset" THEN Goto(s, "scan") ELSE Return(s)
    /\ UNCHANGED <<list, pw, store, sess, handed, used>>
-----------------------------------------------------------------------------
(* owner_commands.c: PWSET, PWCLEAR, RESET *)

PwSet(s) ==
    /\ MayStart(s)
    /\ IsOwnerSession(sess[s])
    /\ used.pws < MaxPwSets
    /\ Proceed(s, [h[s] EXCEPT !.cmd = "pwset", !.pc = "pwset"])
    /\ used' = Charge("pws")
    /\ UNCHANGED <<list, pw, store, sess, told, handed>>

\* device_password_set(): RAM follows NVS (DevicePassword has the two writes).
PwSetStore(s, ok) ==
    /\ At(s, "pwset")
    /\ NvsOutcome(ok)
    /\ ChargeNvs(ok)
    /\ pw' = IF ok THEN used.pws ELSE pw
    /\ store' = IF ok THEN [store EXCEPT !.pw = used.pws] ELSE store
    /\ IF ok THEN Proceed(s, [h[s] EXCEPT !.pc = "scan", !.index = 1]) ELSE Return(s)
    /\ UNCHANGED <<list, sess, told, handed>>

\* revoke_all_non_owner(): one round of the loop, up to the removal.
PwSetScan(s) ==
    /\ At(s, "scan")
    /\ LET i == h[s].index
       IN  IF ~InRange(list, i) THEN Goto(s, "rotate")
           ELSE IF list.entries[i].role # "owner"
           THEN Proceed(s, [h[s] EXCEPT !.pc = "remove", !.sub = list.entries[i].sub])
           ELSE Proceed(s, [h[s] EXCEPT !.index = h[s].index + 1])
    /\ UNCHANGED <<list, pw, store, sess, told, handed, used>>

\* paired_list_rotate_owner_key(): a failing write puts the old key back, and
\* PWSET answers ACK all the same.
PwSetRotate(s, ok) ==
    /\ At(s, "rotate")
    /\ HasOwnerEntry(list)
    /\ IF ok
       THEN LET L == RotateOwnerKey(list, used.keys + 1)
            IN  /\ used.keys < MaxKeys
                /\ list' = L
                /\ StoreList(TRUE, L)
                /\ used' = Charge("keys")
       ELSE /\ used.fails < MaxFails
            /\ used' = Charge("fails")
            /\ UNCHANGED <<list, store>>
    /\ Return(s)
    /\ UNCHANGED <<pw, sess, told, handed>>

PwSetNothingToRotate(s) ==
    /\ At(s, "rotate")
    /\ ~HasOwnerEntry(list)
    /\ Return(s)
    /\ UNCHANGED <<list, pw, store, sess, told, handed, used>>

PwClear(s) ==
    /\ MayStart(s)
    /\ IsOwnerSession(sess[s])
    /\ Goto(s, "pwclear")
    /\ UNCHANGED <<list, pw, store, sess, told, handed, used>>

\* device_password_clear(): RAM is cleared whether or not the write succeeds.
ClearPassword(s, ok, next) ==
    /\ NvsOutcome(ok)
    /\ ChargeNvs(ok)
    /\ pw' = 0
    /\ store' = IF ok THEN [store EXCEPT !.pw = 0] ELSE store
    /\ next
    /\ UNCHANGED <<list, sess, told, handed>>

PwClearStore(s, ok) == At(s, "pwclear") /\ ClearPassword(s, ok, Return(s))

Reset(s) ==
    /\ MayStart(s)
    /\ IsOwnerSession(sess[s])
    /\ used.resets < MaxResets
    /\ Goto(s, "reset_list")
    /\ used' = Charge("resets")
    /\ UNCHANGED <<list, pw, store, sess, told, handed>>

\* paired_list_clear(), its result ignored.
ResetList(s, ok) ==
    /\ At(s, "reset_list")
    /\ NvsOutcome(ok)
    /\ ChargeNvs(ok)
    /\ list' = EmptyList
    /\ StoreList(ok, EmptyList)
    /\ Goto(s, "reset_pw")
    /\ UNCHANGED <<pw, sess, told, handed>>

ResetPw(s, ok) == At(s, "reset_pw") /\ ClearPassword(s, ok, Goto(s, "reset_sessions"))

\* local_session_drop_all_auth()
ResetSessions(s) ==
    /\ At(s, "reset_sessions")
    /\ sess' = [t \in Sessions |-> IF sess[t].live THEN DropAuth(sess[t]) ELSE sess[t]]
    /\ Goto(s, "reset")
    /\ UNCHANGED <<list, pw, store, told, handed, used>>

ResetEvent(s) ==
    /\ At(s, "reset")
    /\ told' = {}
    /\ Return(s)
    /\ UNCHANGED <<list, pw, store, sess, handed, used>>
-----------------------------------------------------------------------------
\* Mutant of Reboot: owner_sub is not loaded.
RebootForgetsOwner ==
    /\ used.boots < MaxBoots
    /\ list' = [store.list EXCEPT !.owner = NoSub]
    /\ pw' = store.pw
    /\ sess' = [s \in Sessions |-> Wiped]
    /\ h' = [s \in Sessions |-> Idle]
    /\ used' = Charge("boots")
    /\ UNCHANGED <<store, told, handed>>

\* Power loss and boot: the list and the password are loaded from NVS.
Reboot ==
    /\ used.boots < MaxBoots
    /\ list' = store.list
    /\ pw' = store.pw
    /\ sess' = [s \in Sessions |-> Wiped]
    /\ h' = [s \in Sessions |-> Idle]
    /\ used' = Charge("boots")
    /\ UNCHANGED <<store, told, handed>>

Handshake(s) ==
    \/ Connect(s) \/ Disconnect(s) \/ RestartRefused(s)
    \/ Pake1(s) \/ Pake1Set(s) \/ Pake3Malformed(s) \/ Pake3(s)
    \/ Pake3Bad(s) \/ Pake3Good(s) \/ Pake3Ok(s)
    \/ \E u \in Subs : Auth1(s, u)
    \/ Auth1Find(s) \/ Auth1Get(s) \/ Auth1Set(s)
    \/ Auth3Bad(s) \/ Auth3(s) \/ Auth3Role(s) \/ Auth3Ok(s)

Enrolling(s) ==
    \/ \E u \in Subs : Enroll(s, u)
    \/ EnrollFull(s) \/ EnrollStoreFails(s) \/ EnrollAgain(s) \/ EnrollNew(s)
    \/ EnrollAssign(s) \/ EnrollEvent(s)

Removing(s) ==
    \/ \E u \in Subs : Revoke(s, u)
    \/ RevokeFind(s) \/ RevokeGet(s)
    \/ Unpair(s) \/ UnpairGet(s) \/ UnpairIndex(s)
    \/ RemoveNotFound(s) \/ \E ok \in BOOLEAN : RemoveEntry(s, ok)
    \/ DropSessions(s) \/ UnpairedEvent(s)

Locking(s) ==
    \/ PwSet(s) \/ PwSetScan(s) \/ PwSetNothingToRotate(s) \/ PwClear(s)
    \/ \E ok \in BOOLEAN : PwSetStore(s, ok) \/ PwSetRotate(s, ok) \/ PwClearStore(s, ok)

Resetting(s) ==
    \/ Reset(s) \/ ResetSessions(s) \/ ResetEvent(s)
    \/ \E ok \in BOOLEAN : ResetList(s, ok) \/ ResetPw(s, ok)

Next ==
    \/ \E s \in Sessions :
          Handshake(s) \/ Enrolling(s) \/ Removing(s) \/ Locking(s) \/ Resetting(s)
    \/ Reboot

Spec == Init /\ [][Next]_vars
-----------------------------------------------------------------------------
(* Properties *)

\* The list, the pool and the handlers' locals have their types.
TypeOK ==
    /\ list \in List
    /\ pw \in Nat
    /\ store \in [list : List, pw : Nat]
    /\ sess \in [Sessions -> Session]
    /\ h \in [Sessions -> Handler]
    /\ told \subseteq Subs
    /\ handed \subseteq Nat \X Nat
    /\ used \in Counters

Unique(L) == \A i, j \in 1..Count(L) : L.entries[i].sub = L.entries[j].sub => i = j

\* One entry per account, in RAM and in NVS, whatever phones enroll, revoke
\* and reset at once: paired_list_add() looks up and appends under one lock.
OneEntryPerAccount == Unique(list) /\ Unique(store.list)

RolesMatch(L) ==
    \A i \in 1..Count(L) : (L.entries[i].role = "owner") <=> (L.entries[i].sub = L.owner)

\* An entry is OWNER exactly when it is the owning account's ("every entry's
\* role then follows owner_sub", paired_list.h), through claims, undone
\* writes, removals and reboots.
RolesFollowOwner == RolesMatch(list) /\ RolesMatch(store.list)

OwnerFirst(L) == L.owner # NoSub => Count(L) > 0 /\ L.entries[1].sub = L.owner

\* Ownership never moves: as long as nobody resets the device, the account
\* that paired first keeps its entry, whatever REVOKE, UNPAIR and PWSET do at
\* the same time through stale indices.  handle_revoke() and handle_unpair()
\* check the caller's own index and the role in other steps than the removal.
OwnerStaysPaired == used.resets = 0 => OwnerFirst(list) /\ OwnerFirst(store.list)

\* Nobody becomes owner through a stale index: as long as nobody resets the
\* device, a session with the owner's role belongs to the owning account.
\* AUTH3 takes the role from whatever entry paired_index names when the proof
\* has come, after lists were compacted under it and sessions told of it late.
OwnerSessionsAreOwners ==
    used.resets = 0 => \A s \in Sessions : sess[s].role = "owner" => sess[s].who = list.owner

\* Between two commands, a session bound to an entry is bound to the entry of
\* the account it proved, and is owner exactly when that account is: sessions
\* follow the compacted list and those of a removed account are dropped.  It
\* does not hold: an index that AUTH3 took before another task compacted the
\* list, or a failing write in paired_list_remove(), breaks it.  Commands that
\* take turns keep it while writes succeed.
SessionFollowsEntry ==
    Quiet => \A s \in Sessions :
        /\ sess[s].paired_index > 0 =>
              /\ InRange(list, sess[s].paired_index)
              /\ list.entries[sess[s].paired_index].sub = sess[s].who
        /\ sess[s].role # "none" => sess[s].role = RoleFor(list, sess[s].who)

\* A session whose state says so holds the key of its handshake ("proof
\* verified: `key` is K_session", local_session.h), never the zeroes that
\* drop_auth() left.  It does not hold: a REVOKE between the proof of AUTH3 and
\* the assignment of the state zeroes the key of a session that then becomes
\* LS_AUTH_OK.
KeyedSessionHasKey ==
    \A s \in Sessions :
        /\ sess[s].state = "LS_PAKE_OK" => sess[s].key[1] = "pake"
        /\ sess[s].state = "LS_AUTH_OK" => sess[s].key[1] = "sess"

\* A removal removes the account it was about: the one REVOKE named, the
\* caller of UNPAIR, or the user PWSET was looking at; only RESET and a reboot
\* drop others.  It does not hold: the index is looked up in one critical
\* section and removed in another.
RemovesItsTarget ==
    [][\A u \in Accounts(list) \ Accounts(list') :
          \/ \E s \in Sessions : At(s, "remove") /\ h[s].sub = u
          \/ \E s \in Sessions : At(s, "reset_list")
          \/ used'.boots # used.boots]_vars

\* Between two commands, the events queued for the backend add up to the list:
\* remote access is granted to the accounts that are paired, and to no other.
\* It does not hold: the event is queued after the list has been stored, so a
\* power loss loses it and another task's event overtakes it.
BackendMatchesList == Quiet => told = Accounts(list)

\* Under a password, every K_account that works was handed out to phones that
\* had proved that password, except while PWSET is still at work.  It does not
\* hold: PWSET leaves a session alone that has proved the old password and has
\* not sent ENROLL yet.
KeysUnderCurrentPassword ==
    (Quiet /\ pw # 0) =>
        \A i \in 1..Count(list), g \in handed : g[1] = list.entries[i].key => g[2] = pw

=============================================================================
