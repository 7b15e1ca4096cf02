------------------------------ MODULE Device ------------------------------
(***************************************************************************)
(* The device from one boot to the next: cything_begin() (cything.c), the  *)
(* factory reset by power cycling (common/reset_handler.c,                 *)
(* memory_handler/flash_reset_handler.c), and then either pairing mode     *)
(* (WifiStore, BlePairing) or station mode, where only pairing over TCP    *)
(* changes what is modelled here; Discovery has the rest of that mode.     *)
(*                                                                         *)
(* Power can be lost, and the reboot timer can fire, between any two       *)
(* steps.  What is in flash and NVS stays: the credentials, the boot       *)
(* counter, the paired list and the password.                              *)
(***************************************************************************)
EXTENDS BlePairing

CONSTANT MaxFails    \* bound: flash operations that fail

ASSUME DeviceAssumption == MaxFails \in Nat

VARIABLES
    phase,     \* off, ap, sta or a step of reset_handler()
    counter,   \* the boot counter in flash
    count,     \* registeration_reset_counter
    fresh,     \* whether this boot has erased the counter's sector (last_erase_offset)
    owner,     \* whether the paired list has entries and a password is set
    short,     \* history: boots in a row that ended within 2 s, up to 5
    wipe       \* history: a factory reset has begun, and the device was not in use since

deviceVars == <<phase, counter, count, fresh, owner, short, wipe>>

vars == <<storeVars, bleVars, deviceVars>>

Nobody == [list |-> FALSE, password |-> FALSE]

Init ==
    /\ StoreInit /\ BleInit
    /\ phase = "off" /\ counter = Erased /\ count = 0 /\ fresh = FALSE
    /\ owner = Nobody
    /\ short = 0 /\ wipe = FALSE

\* RAM after a restart.
Volatile ==
    /\ store' = [w \in Writers |-> "idle"]
    /\ tcp' = NoDialogue /\ doing' = [c \in Clients |-> "none"]
    /\ reboot' = FALSE
    /\ ble' = BleBoot /\ gap' = "silent" /\ trial' = NoTrial
    /\ phase' = "off" /\ count' = 0 /\ fresh' = FALSE
    /\ UNCHANGED <<flash, owner, counter, fails>>

Used == phase \in {"ap", "sta"}

Booting == ~Used /\ phase # "off"

PowerLoss ==
    /\ phase # "off"
    /\ Volatile
    /\ short' = IF Booting /\ phase # "cleared" THEN Min({short + 1, 5}) ELSE 0
    /\ UNCHANGED wipe

\* reboot_cb()
Reboot ==
    /\ Used /\ reboot
    /\ Volatile
    /\ UNCHANGED <<short, wipe>>
-----------------------------------------------------------------------------
(* reset_handler() *)

\* What most steps of a boot leave alone.
Untouched == UNCHANGED <<bleVars, owner>>

Boot ==
    /\ phase = "off"
    /\ phase' = "read"
    /\ UNCHANGED <<storeVars, counter, count, fresh, short, wipe>> /\ Untouched

\* flash_read_reset_counter(), with registeration_reset_counter++
Counted == (IF counter = Erased THEN 0 ELSE counter) + 1

ReadCounter ==
    /\ phase = "read"
    /\ IF Counted > 4
       THEN phase' = "list" /\ wipe' = TRUE
       ELSE phase' = "count" /\ UNCHANGED wipe
    /\ count' = Counted
    /\ UNCHANGED <<storeVars, counter, fresh, short>> /\ Untouched

\* Reading fails: nothing is counted.
ReadFails ==
    /\ phase = "read" /\ fails < MaxFails
    /\ phase' = "wait"
    /\ fails' = fails + 1
    /\ UNCHANGED <<flash, store, tcp, doing, reboot, counter, count, fresh, short, wipe>> /\ Untouched

\* What follows after flash_erase_write_reset_counter() with this value.
Counters == [count |-> count, wait |-> 0, zero |-> 0]

Following == [count |-> "wait", wait |-> "cleared", zero |-> "restart"]

Holds == phase \in DOMAIN Counters

\* ota_erase_write(): the first write of a boot erases the sector ...
EraseCounter ==
    /\ Holds /\ ~fresh
    /\ counter' = Erased
    /\ fresh' = TRUE
    /\ UNCHANGED <<storeVars, phase, count, short, wipe>> /\ Untouched

\* Mutant of WriteCounter: a boot of 2 s does not take the count back.
WriteCounterKeeps ==
    /\ Holds /\ fresh
    /\ counter' = IF counter = Erased THEN Counters[phase] ELSE counter
    /\ count' = Counters[phase]
    /\ phase' = Following[phase]
    /\ short' = IF phase = "wait" THEN 0 ELSE short
    /\ UNCHANGED <<storeVars, fresh, wipe>> /\ Untouched

\* ... and a later one programs it again, which clears bits: only 0 comes
\* after another value.
WriteCounter ==
    /\ Holds /\ fresh
    /\ counter' = IF counter = Erased THEN Counters[phase] ELSE 0
    /\ count' = Counters[phase]
    /\ phase' = Following[phase]
    /\ short' = IF phase = "wait" THEN 0 ELSE short
    /\ UNCHANGED <<storeVars, fresh, wipe>> /\ Untouched

\* The result is not looked at.
WriteCounterFails ==
    /\ Holds /\ fails < MaxFails
    /\ fails' = fails + 1
    /\ count' = Counters[phase]
    /\ phase' = Following[phase]
    /\ short' = IF phase = "wait" THEN 0 ELSE short
    /\ UNCHANGED <<flash, store, tcp, doing, reboot, counter, fresh, wipe>> /\ Untouched

\* Mutant of WipeList: the counter is cleared first.
WipeCounterFirst ==
    /\ phase = "list"
    /\ owner' = [owner EXCEPT !.list = FALSE]
    /\ counter' = 0
    /\ phase' = "password"
    /\ UNCHANGED <<storeVars, bleVars, count, fresh, short, wipe>>

\* paired_list_clear()
WipeList ==
    /\ phase = "list"
    /\ owner' = [owner EXCEPT !.list = FALSE]
    /\ phase' = "password"
    /\ UNCHANGED <<storeVars, bleVars, counter, count, fresh, short, wipe>>

\* device_password_clear(); the event for the backend goes to PairingEvents' queue.
WipePassword ==
    /\ phase = "password"
    /\ owner' = [owner EXCEPT !.password = FALSE]
    /\ phase' = "wifi"
    /\ store' = [store EXCEPT !["reset"] = "erase"]
    /\ UNCHANGED <<flash, tcp, doing, reboot, fails, bleVars, counter, count, fresh, short, wipe>>

\* The reset stores "0" for both values; nobody reads them in AP mode.
ResetBuffers == [mode |-> "AP", ssid |-> NoValue, pass |-> NoValue]

WipeWifi ==
    /\ phase = "wifi"
    /\ StoreStep("reset", ResetBuffers)
    /\ UNCHANGED <<phase, counter, count, fresh, short, wipe>> /\ Untouched

\* The result is not looked at.
WipeReturns ==
    /\ phase = "wifi"
    /\ StoreReturns("reset")
    /\ phase' = "zero"
    /\ UNCHANGED <<tcp, counter, count, fresh, short, wipe>> /\ Untouched

\* esp_restart()
WipeRestart ==
    /\ phase = "restart"
    /\ Volatile
    /\ UNCHANGED wipe
    /\ short' = 0

\* The rest of cything_begin(): the stored mode decides.
BootMode ==
    /\ phase = "cleared"
    /\ phase' = IF flash.mode = "STA" THEN "sta" ELSE "ap"
    /\ wipe' = FALSE
    /\ UNCHANGED <<storeVars, bleVars, counter, count, fresh, owner, short>>
-----------------------------------------------------------------------------
(* A device in use *)

\* Somebody pairs with the device and sets its password (LocalAuth).
Own ==
    /\ Used /\ owner = Nobody
    /\ owner' = [list |-> TRUE, password |-> TRUE]
    /\ UNCHANGED <<storeVars, bleVars, phase, counter, count, fresh, short, wipe>>

OverTcp ==
    /\ Used
    /\ PairingTimeout \/ \E c \in Clients : PairingStep(c)
    /\ UNCHANGED <<bleVars, deviceVars>>

OverBle ==
    /\ phase = "ap"
    /\ Gatt \/ Trial
    /\ UNCHANGED <<storeVars, deviceVars>>

BleCommit ==
    /\ phase = "ap"
    /\ \/ CommitStores
       \/ StoreStep("ble", BleBuffers) /\ UNCHANGED bleVars
       \/ CommitReturns
    /\ UNCHANGED <<deviceVars>>

FlashFails ==
    /\ fails < MaxFails
    /\ \E w \in Writers : StoreFails(w)
    /\ UNCHANGED <<bleVars, deviceVars>>

StartsUp ==
    \/ Boot \/ ReadCounter \/ ReadFails
    \/ EraseCounter \/ WriteCounter \/ WriteCounterFails
    \/ WipeList \/ WipePassword \/ WipeWifi \/ WipeReturns \/ WipeRestart
    \/ BootMode

Next == StartsUp \/ Own \/ OverTcp \/ OverBle \/ BleCommit \/ FlashFails \/ PowerLoss \/ Reboot

\* The commit task runs and its wait times out; the reboot timer fires.
Fairness ==
    /\ WF_<<ble, trial>>(OverBle /\ (TrialStart \/ TrialJoined \/ TrialFails))
    /\ WF_<<store, trial>>(BleCommit)
    /\ WF_phase(Reboot)

Spec == Init /\ [][Next]_vars /\ Fairness
-----------------------------------------------------------------------------
(* Properties *)

ResetSteps == {"read", "count", "wait", "list", "password", "wifi", "zero", "restart", "cleared"}

TypeOK ==
    /\ flash.mode \in {"AP", "STA", Erased, Garbled}
    /\ flash.ssid \in Ssids \cup {Erased, Garbled, NoValue}
    /\ flash.pass \in Passwords \cup {Erased, Garbled, NoValue}
    /\ store \in [Writers -> DOMAIN After \cup {"idle", "stored", "failed"}]
    /\ tcp \in [step : 0..3, ssid : Ssids \cup {NoValue}, pass : Passwords \cup {NoValue}]
    /\ doing \in [Clients -> {"none", "ssid", "pass"}]
    /\ ble \in [ssid : Ssids \cup {NoValue}, pass : Passwords \cup {NoValue}, commit : BOOLEAN]
    /\ gap \in {"advertising", "connected", "silent"}
    /\ trial.at \in {"none", "start", "wait", "joined", "store"}
    /\ phase \in ResetSteps \cup {"off", "ap", "sta"}
    /\ counter \in 0..4 \cup {Erased} /\ count \in 0..5
    /\ owner \in [list : BOOLEAN, password : BOOLEAN]
    /\ short \in 0..5
    /\ {reboot, fresh, wipe} \subseteq BOOLEAN

\* A factory reset takes five boots in a row that end before 2 s have passed;
\* reboots after pairing and longer boots in between never add up to one.
ResetAfterFive == phase = "list" /\ fails = 0 => short >= 4

\* A factory reset that is cut off by a power loss anywhere is finished before
\* the device is used again: it never comes up with half of the owner's data,
\* or in station mode with the old credentials.
ResetAllOrNothing ==
    phase = "cleared" /\ wipe /\ fails = 0 => owner = Nobody /\ flash.mode # "STA"

\* A device that boots into station mode reads an SSID and a password, which is
\* empty for an open network: it starts "with the stored SSID/password"
\* (doc/pairing.md).  It does not hold: the mode is the first thing that
\* flash_store_wifi_router_info() writes, and power can be lost after that.
StationHasCredentials ==
    phase = "cleared" /\ flash.mode = "STA" =>
        flash.ssid \in Ssids /\ flash.pass \in Passwords \cup {NoValue}

\* Credentials that a task was told are "in flash" (doc/ble-pairing.md, status
\* stored) can be read from there, once nobody writes.  It does not hold: a
\* commit over BLE and FinishP over TCP may program the sector at the same time.
StoredIsReadable ==
    (\E w \in Clients \cup {"ble"} : store[w] = "stored") /\ (\A w \in Writers : ~Storing(w)) =>
        {flash.mode, flash.ssid, flash.pass} \cap {Erased, Garbled} = {}

\* A commit over BLE ends, with the reboot or free for another attempt.
CommitConcludes == ble.commit ~> ~ble.commit
=============================================================================
