--------------------------- MODULE Provisioning ---------------------------
(***************************************************************************)
(* The handshake that gives a device its identity for the broker           *)
(* (aws/provisioning.c): the phone names a channel (PROV), gets a request  *)
(* for a certificate (CSRREQ), passes on the device id and the certificate *)
(* that the backend issued (DEVID, CERT in chunks), and finishes (PFIN).   *)
(*                                                                         *)
(* An attempt is a number: the backend issues device id a, endpoint a and  *)
(* certificate a for attempt a.  Every phone has a receive task of its     *)
(* own, but the handshake's state, the buffers and NVS are the device's.   *)
(* A line is a step, except where it writes to NVS: a new key is stored    *)
(* after it was generated, and PFIN stores four keys one after the other.  *)
(* A key that is there is overwritten.                                     *)
(*                                                                         *)
(* A phone sends each line after the reply to the last.  Of the replies    *)
(* only this is kept: ok says whether it is the one that the phone waits   *)
(* for.  Otherwise, and when power is lost, it starts over with PROV, in   *)
(* the same attempt or in a new one.                                       *)
(***************************************************************************)
EXTENDS Naturals, Sequences

CONSTANTS Phones,
          Chunks,        \* lines that a certificate is sent in
          MaxAttempts,   \* bound: attempts to provision the device
          MaxStarts,     \* bound: how often phones start with PROV
          MaxFails,      \* bound: NVS writes that fail
          MaxUnread,     \* bound: keys in NVS that cannot be read
          MaxLosses      \* bound: power losses

ASSUME ProvisioningAssumption ==
    /\ Chunks \in Nat \ {0} /\ MaxAttempts \in Nat \ {0}
    /\ {MaxStarts, MaxFails, MaxUnread, MaxLosses} \subseteq Nat

VARIABLES
    hs,      \* s_state, the pending fields and the chunks collected so far
    ram,     \* g_prov_device_id and so on, and s_active
    nvs,     \* the five keys in NVS
    reboot,  \* whether the reboot timer runs
    task,    \* per phone: what its receive task stores next, and the key in use
    app,     \* per phone: attempt, script and next line
    csr,     \* history: per attempt, the operational key of its request
    used,    \* history: keys generated, and what the bounds count
    older    \* history: PFIN began to replace a certificate

vars == <<hs, ram, nvs, reboot, task, app, csr, used, older>>

Attempts == 1 .. MaxAttempts

\* The empty string, a certificate that no backend issued, and a key that
\* NVS does not have.
None == 0

Mixed == MaxAttempts + 1

Missing == MaxAttempts + 2

NoHandshake == [state |-> "IDLE", src |-> None, ep |-> None, dev |-> None, chunks |-> <<>>]

\* The identity in NVS, and the order in which PFIN stores it.
Keys == {"dev", "src", "ep", "cert", "opkey"}

After == [dev |-> "src", src |-> "ep", ep |-> "cert", cert |-> "done"]

\* provisioning_init(): active with all five keys.
Loaded(stored) ==
    [id |-> [k \in Keys |-> IF stored[k] = Missing THEN None ELSE stored[k]],
     active |-> \A k \in Keys : stored[k] # Missing]

NoTask == [at |-> "idle", key |-> None]

NoScript == [attempt |-> None, kind |-> "move", next |-> 1]

Line(name, seq) == [name |-> name, seq |-> seq]

\* The lines of an attempt, and of a move to another channel.
Script(kind) ==
    CASE kind = "identity" ->
            <<Line("PROV", 0), Line("CSRREQ", 0), Line("DEVID", 0)>>
                \o [i \in 1 .. Chunks |-> Line("CERT", i)] \o <<Line("PFIN", 0)>>
      [] kind = "move" -> <<Line("PROV", 0), Line("PFIN", 0)>>

Init ==
    /\ hs = NoHandshake /\ nvs = [k \in Keys |-> Missing] /\ ram = Loaded(nvs)
    /\ reboot = FALSE
    /\ task = [p \in Phones |-> NoTask] /\ app = [p \in Phones |-> NoScript]
    /\ csr = [a \in Attempts |-> None]
    /\ used = [keys |-> 0, attempts |-> 0, starts |-> 0, fails |-> 0, unread |-> 0, losses |-> 0]
    /\ older = FALSE
-----------------------------------------------------------------------------
(* the phone *)

\* In the attempt that it gave up, or in the next that the backend hands out.
Starts(p, kind, a) ==
    /\ task[p] = NoTask /\ used.starts < MaxStarts
    /\ a \in Attempts /\ a \in {app[p].attempt, used.attempts + 1}
    /\ app' = [app EXCEPT ![p] = [attempt |-> a, kind |-> kind, next |-> 1]]
    /\ used' = [used EXCEPT !.starts = @ + 1, !.attempts = IF a > @ THEN a ELSE @]
    /\ UNCHANGED <<hs, ram, nvs, reboot, task, csr, older>>

\* Past the end of every script.
GivenUp == Chunks + 5

\* The phone's next line is taken from its socket.
Sent(p, name) ==
    /\ app[p].attempt # None /\ task[p] = NoTask
    /\ app[p].next \in DOMAIN Script(app[p].kind)
    /\ Script(app[p].kind)[app[p].next].name = name

ChunkSeq(p) == Script(app[p].kind)[app[p].next].seq

\* The reply: the phone goes on, or gives up.
Replied(p, ok) == app' = [app EXCEPT ![p].next = IF ok THEN @ + 1 ELSE GivenUp]
-----------------------------------------------------------------------------
(* provisioning_handle_tcp_line() for phone p *)

Prov(p) ==
    /\ Sent(p, "PROV") /\ Replied(p, TRUE)
    /\ hs' = [hs EXCEPT !.state = "GOT_PROV", !.src = app[p].attempt, !.ep = app[p].attempt]
    /\ UNCHANGED <<ram, nvs, reboot, task, csr, used, older>>

\* build_csr_base64(): the request is made with the key in use and sent.
Requests(p, key) ==
    /\ csr' = [csr EXCEPT ![app[p].attempt] = key]
    /\ hs' = [hs EXCEPT !.state = "SENT_CSR"]
    /\ Replied(p, TRUE)

\* Mutant of NeedsKey: every request gets a key of its own.
NeedsKeyAlways == TRUE

\* load_or_generate_keypair(): whether NVS has no key that could be reused.
NeedsKey == nvs.opkey = Missing

CsrReq(p) ==
    /\ Sent(p, "CSRREQ") /\ ~NeedsKey
    /\ ram' = [ram EXCEPT !.id.opkey = nvs.opkey]
    /\ Requests(p, nvs.opkey)
    /\ UNCHANGED <<nvs, reboot, task, used, older>>

\* There is none, or it cannot be read or parsed: a new one is generated, in the
\* buffer of the device and in the task's context.
CsrReqMints(p) ==
    /\ Sent(p, "CSRREQ")
    /\ \/ NeedsKey /\ used' = [used EXCEPT !.keys = @ + 1]
       \/ used.unread < MaxUnread /\ used' = [used EXCEPT !.keys = @ + 1, !.unread = @ + 1]
    /\ ram' = [ram EXCEPT !.id.opkey = used'.keys]
    /\ task' = [task EXCEPT ![p] = [at |-> "opkey", key |-> used'.keys]]
    /\ UNCHANGED <<hs, nvs, reboot, app, csr, older>>

\* The buffer is stored before the request is sent.
CsrReqStores(p) ==
    /\ task[p].at = "opkey"
    /\ nvs' = [nvs EXCEPT !.opkey = ram.id.opkey]
    /\ task' = [task EXCEPT ![p] = NoTask]
    /\ Requests(p, task[p].key)
    /\ UNCHANGED <<ram, reboot, used, older>>

\* It cannot be stored: there is no request.
CsrReqFails(p) ==
    /\ task[p].at = "opkey" /\ used.fails < MaxFails
    /\ used' = [used EXCEPT !.fails = @ + 1]
    /\ task' = [task EXCEPT ![p] = NoTask]
    /\ Replied(p, FALSE)
    /\ UNCHANGED <<hs, ram, nvs, reboot, csr, older>>

\* Mutant of DevId: what was collected of another certificate is kept.
DevIdKeeps(p) ==
    /\ Sent(p, "DEVID") /\ Replied(p, TRUE)
    /\ hs' = [hs EXCEPT !.state = "RECEIVING_CERT", !.dev = app[p].attempt]
    /\ UNCHANGED <<ram, nvs, reboot, task, csr, used, older>>

\* In any state; what was collected of another certificate is dropped.
DevId(p) ==
    /\ Sent(p, "DEVID") /\ Replied(p, TRUE)
    /\ hs' = [hs EXCEPT !.state = "RECEIVING_CERT", !.dev = app[p].attempt, !.chunks = <<>>]
    /\ UNCHANGED <<ram, nvs, reboot, task, csr, used, older>>

\* s_cert_next_seq
InOrder(p) == hs.state = "RECEIVING_CERT" /\ ChunkSeq(p) = Len(hs.chunks) + 1

\* The certificate that the chunks decode to.
Decoded(chunks) == IF \A i \in DOMAIN chunks : chunks[i] = chunks[1] THEN chunks[1] ELSE Mixed

\* A chunk out of order is ignored, and only at the last one the phone can
\* tell.  The last one replaces the certificate in RAM.
Cert(p) ==
    /\ Sent(p, "CERT") /\ Replied(p, ChunkSeq(p) = Chunks => InOrder(p))
    /\ IF InOrder(p)
       THEN /\ hs' = [hs EXCEPT !.chunks = Append(@, app[p].attempt)]
            /\ ram' = IF ChunkSeq(p) = Chunks THEN [ram EXCEPT !.id.cert = Decoded(hs'.chunks)] ELSE ram
       ELSE UNCHANGED <<hs, ram>>
    /\ UNCHANGED <<nvs, reboot, task, csr, used, older>>

\* Whether PFIN stores an identity.
HasIdentity == hs.state = "RECEIVING_CERT" /\ ram.id.cert # None /\ hs.dev # None

\* PFIN with an identity: the globals are set, then the keys stored ...
Pfin(p) ==
    /\ Sent(p, "PFIN") /\ HasIdentity
    /\ ram' = [ram EXCEPT !.id = [@ EXCEPT !.dev = hs.dev, !.src = hs.src, !.ep = hs.ep]]
    /\ task' = [task EXCEPT ![p].at = "dev"]
    /\ older' = (older \/ nvs.cert # Missing)
    /\ UNCHANGED <<hs, nvs, reboot, app, csr, used>>

\* ... from the globals, one by one.
PfinStores(p) ==
    /\ task[p].at \in DOMAIN After
    /\ nvs' = [nvs EXCEPT ![task[p].at] = ram.id[task[p].at]]
    /\ task' = [task EXCEPT ![p].at = After[@]]
    /\ UNCHANGED <<hs, ram, reboot, app, csr, used, older>>

PfinEnds(p) ==
    /\ task' = [task EXCEPT ![p] = NoTask]
    /\ hs' = NoHandshake
    /\ Replied(p, TRUE)
    /\ UNCHANGED <<ram, nvs, csr, older>>

\* A write fails: what is stored stays, and the phone is told nothing.
PfinFails(p) ==
    /\ task[p].at \in DOMAIN After /\ used.fails < MaxFails
    /\ used' = [used EXCEPT !.fails = @ + 1]
    /\ UNCHANGED reboot
    /\ PfinEnds(p)

\* All is stored: the device will reboot into its new identity.
PfinDone(p) ==
    /\ task[p].at = "done"
    /\ reboot' = TRUE
    /\ UNCHANGED used
    /\ PfinEnds(p)

\* PFIN otherwise: a device that has an identity moves to another channel.
\* That the key was stored is not checked.
PfinMoves(p) ==
    /\ Sent(p, "PFIN") /\ ~HasIdentity /\ Replied(p, TRUE)
    /\ IF ram.active /\ hs.src # None
       THEN /\ ram' = [ram EXCEPT !.id.src = hs.src]
            /\ \/ nvs' = [nvs EXCEPT !.src = hs.src] /\ UNCHANGED used
               \/ used.fails < MaxFails /\ used' = [used EXCEPT !.fails = @ + 1] /\ UNCHANGED nvs
       ELSE UNCHANGED <<ram, nvs, used>>
    /\ hs' = NoHandshake
    /\ UNCHANGED <<reboot, task, csr, older>>
-----------------------------------------------------------------------------
\* Power is lost, or the reboot timer fires.  At the next boot a key in NVS may
\* be there that cannot be read.
Restart ==
    /\ \E lost \in {"none"} \cup Keys, off \in BOOLEAN :
          /\ lost = "none" \/ used.unread < MaxUnread
          /\ IF off THEN used.losses < MaxLosses ELSE reboot
          /\ used' = [used EXCEPT !.unread = IF lost = "none" THEN @ ELSE @ + 1,
                                  !.losses = IF off THEN @ + 1 ELSE @]
          /\ ram' = Loaded([k \in Keys |-> IF k = lost THEN Missing ELSE nvs[k]])
    /\ hs' = NoHandshake /\ reboot' = FALSE
    /\ task' = [p \in Phones |-> NoTask]
    /\ app' = [p \in Phones |-> [app[p] EXCEPT !.next = GivenUp]]
    /\ UNCHANGED <<nvs, csr, older>>

Handles(p) ==
    \/ Prov(p)
    \/ CsrReq(p) \/ CsrReqMints(p) \/ CsrReqStores(p) \/ CsrReqFails(p)
    \/ DevId(p) \/ Cert(p)
    \/ Pfin(p) \/ PfinStores(p) \/ PfinFails(p) \/ PfinDone(p) \/ PfinMoves(p)

Next ==
    \/ \E p \in Phones, kind \in {"identity", "move"}, a \in Attempts : Starts(p, kind, a)
    \/ \E p \in Phones : Handles(p)
    \/ Restart

Spec == Init /\ [][Next]_vars
-----------------------------------------------------------------------------
(* Properties.  They are about NVS, which is what the device is after a restart. *)

\* No PFIN is in the middle of its writes.
Settled == \A p \in Phones : task[p] = NoTask

OneAttempt == nvs.dev = nvs.cert /\ nvs.ep = nvs.cert /\ nvs.cert \in Attempts

\* The certificate that is stored was requested with the key that is stored,
\* whatever attempts are given up, fail, are cut off by power losses or made again
\* on a device that has an identity: load_or_generate_keypair() "reuses the same
\* key on retry".  It takes a key that can be read, and requests one at a time.
CertFitsKey ==
    used.unread = 0 /\ nvs.cert \in Attempts => csr[nvs.cert] = nvs.opkey

\* A device that is provisioned for the first time comes up with device id,
\* endpoint and certificate of one attempt, whatever attempts were given up, failed
\* or were cut off before: PFIN stores the certificate last, and DEVID drops what
\* was collected before.  It takes one phone at a time.
FirstIdentityWhole == Loaded(nvs).active /\ ~older => OneAttempt

\* A device that comes up active "has completed a full CSR handshake and the
\* g_prov_* identity is valid" (provisioning.h).  It does not hold: PFIN that is
\* cut off or fails while it replaces an identity leaves parts of two, two phones
\* mix theirs in the device's buffers, and a key that cannot be read once is
\* replaced under the certificate that needs it.
ActiveIsValid ==
    Loaded(nvs).active /\ Settled => OneAttempt /\ csr[nvs.cert] = nvs.opkey
=============================================================================
