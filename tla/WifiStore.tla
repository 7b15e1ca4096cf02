---------------------------- MODULE WifiStore ----------------------------
(***************************************************************************)
(* The Wi-Fi credentials of the device: the flash sector that holds them   *)
(* (memory_handler/flash_wifi_info_handler.c, ota_lib/ota_handler.c) and   *)
(* the pairing dialogue over TCP that ends with storing them               *)
(* (tcp_server/pairing.c).                                                 *)
(*                                                                         *)
(* Storing is four flash operations, and every one is a step: the sector   *)
(* is erased, then mode, SSID and password are programmed.  Nothing keeps  *)
(* two tasks from storing at once, and flash that is programmed twice      *)
(* without an erase holds neither value.  The buffers are passed by        *)
(* pointer: what is programmed is what they hold at that moment.           *)
(***************************************************************************)
EXTENDS Naturals, FiniteSets, FiniteSetsExt

CONSTANTS Clients,     \* TCP clients, each with its receive task
          Ssids, Passwords,
          Erased,      \* flash after an erase
          Garbled,     \* flash programmed twice
          NoValue      \* an empty buffer

ASSUME WriterAssumption == "ble" \notin Clients /\ "reset" \notin Clients

ASSUME ValueAssumption ==
    /\ {Erased, Garbled, NoValue} \cap {"AP", "STA"} = {}
    /\ {Erased, Garbled, NoValue} \cap (Ssids \cup Passwords) = {}

VARIABLES
    flash,    \* mode, ssid and pass in the partition wifi_info
    store,    \* per task: the next step of flash_store_wifi_router_info()
    tcp,      \* pairing_step, temp_ssid, temp_password
    doing,    \* per client: a value taken, pairing_step not yet advanced
    reboot,   \* whether the reboot timer runs
    fails     \* history: flash operations that failed

storeVars == <<flash, store, tcp, doing, reboot, fails>>

\* The tasks that store credentials.
Writers == Clients \cup {"ble", "reset"}

Fields == {"mode", "ssid", "pass"}

Blank == [f \in Fields |-> Erased]

\* The step that follows a successful one.
After == [erase |-> "mode", mode |-> "ssid", ssid |-> "pass", pass |-> "stored"]

Storing(w) == store[w] \in DOMAIN After

\* What is read after new is programmed over old.  Programming only clears
\* bits: a terminator in the first place stays, or gets there.
Program(old, new) ==
    IF old \in {Erased, new} THEN new ELSE IF NoValue \in {old, new} THEN NoValue ELSE Garbled

NoDialogue == [step |-> 0, ssid |-> NoValue, pass |-> NoValue]

StoreInit ==
    /\ flash = Blank
    /\ store = [w \in Writers |-> "idle"]
    /\ tcp = NoDialogue
    /\ doing = [c \in Clients |-> "none"]
    /\ reboot = FALSE /\ fails = 0
-----------------------------------------------------------------------------
(* flash_store_wifi_router_info(), called by writer w with the buffers new *)

\* The next flash operation succeeds.
StoreStep(w, new) ==
    /\ Storing(w)
    /\ flash' = IF store[w] = "erase" THEN Blank ELSE [flash EXCEPT ![store[w]] = Program(@, new[store[w]])]
    /\ store' = [store EXCEPT ![w] = After[@]]
    /\ UNCHANGED <<tcp, doing, reboot, fails>>

\* The next flash operation, or reading the old contents before the erase,
\* fails: what was written so far stays.
StoreFails(w) ==
    /\ Storing(w)
    /\ store' = [store EXCEPT ![w] = "failed"]
    /\ fails' = fails + 1
    /\ UNCHANGED <<flash, tcp, doing, reboot>>

\* The task goes on with the result; pairing_commit() arms the reboot timer.
StoreReturns(w) ==
    /\ store[w] \in {"stored", "failed"}
    /\ store' = [store EXCEPT ![w] = "idle"]
    /\ reboot' = (reboot \/ (store[w] = "stored" /\ w # "reset"))
    /\ UNCHANGED <<flash, doing, fails>>
-----------------------------------------------------------------------------
(* pairing_handle_line() for client c.  A line for the wrong step is ignored. *)

Idle(c) == store[c] = "idle" /\ doing[c] = "none"

StartP(c) ==
    /\ Idle(c)
    /\ tcp' = [tcp EXCEPT !.step = 1]
    /\ UNCHANGED <<flash, store, doing, reboot, fails>>

\* "ssid:": the value, which may be empty, is copied, then the step advances.
SsidLine(c, s) ==
    /\ Idle(c) /\ tcp.step = 1
    /\ tcp' = [tcp EXCEPT !.ssid = s]
    /\ doing' = [doing EXCEPT ![c] = "ssid"]
    /\ UNCHANGED <<flash, store, reboot, fails>>

\* "pass:", likewise.
PassLine(c, p) ==
    /\ Idle(c) /\ tcp.step = 2
    /\ tcp' = [tcp EXCEPT !.pass = p]
    /\ doing' = [doing EXCEPT ![c] = "pass"]
    /\ UNCHANGED <<flash, store, reboot, fails>>

Advance(c) ==
    /\ doing[c] # "none"
    /\ tcp' = [tcp EXCEPT !.step = IF doing[c] = "ssid" THEN 2 ELSE 3]
    /\ doing' = [doing EXCEPT ![c] = "none"]
    /\ UNCHANGED <<flash, store, reboot, fails>>

\* FinishP: pairing_commit() ...
FinishP(c) ==
    /\ Idle(c) /\ tcp.step = 3
    /\ store' = [store EXCEPT ![c] = "erase"]
    /\ UNCHANGED <<flash, tcp, doing, reboot, fails>>

\* ... and, whatever it returned, the end of the dialogue.
FinishReturns(c) ==
    /\ StoreReturns(c)
    /\ tcp' = [tcp EXCEPT !.step = 0]

\* pairing_timeout_cb() in the timer task.
PairingTimeout ==
    /\ tcp.step # 0
    /\ tcp' = [tcp EXCEPT !.step = 0]
    /\ UNCHANGED <<flash, store, doing, reboot, fails>>

TcpBuffers == [mode |-> "STA", ssid |-> tcp.ssid, pass |-> tcp.pass]

PairingStep(c) ==
    \/ StartP(c)
    \/ \E s \in Ssids \cup {NoValue} : SsidLine(c, s)
    \/ \E p \in Passwords \cup {NoValue} : PassLine(c, p)
    \/ Advance(c)
    \/ FinishP(c) \/ StoreStep(c, TcpBuffers) \/ FinishReturns(c)
=============================================================================
