---------------------------- MODULE BlePairing ----------------------------
(***************************************************************************)
(* Pairing over BLE in soft-AP mode: the GATT server and its advertising   *)
(* (ble/ble_pairing.c), and the commit task, which tries the credentials   *)
(* against the router (wifi/wifi_trial.c) before it stores them.           *)
(*                                                                         *)
(* The NimBLE host task runs the callbacks, the event task the trial's     *)
(* events, and the commit task the rest; a callback is a step, and the     *)
(* commit task is cut where it waits and at every flash operation.         *)
(* Starting to advertise is taken to succeed.  The status that the phone   *)
(* reads is left out.                                                      *)
(***************************************************************************)
EXTENDS WifiStore

CONSTANTS Accepted,    \* the networks that accept the passwords of the model
          Open,        \* the networks that accept anybody without a password
          MaxRetries   \* trial_retries at the start of a trial: 2 in the code

ASSUME NetworkAssumption == MaxRetries \in Nat /\ Accepted \subseteq Ssids /\ Open \subseteq Ssids

VARIABLES
    ble,     \* cred_ssid, cred_pass, commit_in_progress
    gap,     \* advertising, connected or silent
    trial    \* the commit task: place, credentials in use, retries, event bits

bleVars == <<ble, gap, trial>>

NoTrial == [at |-> "none", ssid |-> NoValue, pass |-> NoValue, retries |-> 0, bits |-> {}]

\* have_ssid is ssid # NoValue: an SSID is never empty.
BleBoot == [ssid |-> NoValue, pass |-> NoValue, commit |-> FALSE]

BleInit == ble = BleBoot /\ gap = "silent" /\ trial = NoTrial

BleBuffers == [mode |-> "STA", ssid |-> ble.ssid, pass |-> ble.pass]
-----------------------------------------------------------------------------
(* gap_event() and on_sync() *)

OnSync ==
    /\ gap = "silent" /\ ble = BleBoot
    /\ gap' = "advertising"
    /\ UNCHANGED <<ble, trial>>

\* Also a connection attempt that fails, after which advertising starts again.
GapConnect ==
    /\ gap = "advertising"
    /\ gap' = "connected"
    /\ UNCHANGED <<ble, trial>>

\* Advertising resumes "unless we are about to reboot anyway".
GapDisconnect ==
    /\ gap = "connected"
    /\ gap' = IF ble.commit THEN "silent" ELSE "advertising"
    /\ UNCHANGED <<ble, trial>>
-----------------------------------------------------------------------------
(* gatt_access(): writes, accepted also while a commit runs *)

WriteSsid(s) ==
    /\ gap = "connected"
    /\ ble' = [ble EXCEPT !.ssid = s]
    /\ UNCHANGED <<gap, trial>>

WritePass(p) ==
    /\ gap = "connected"
    /\ ble' = [ble EXCEPT !.pass = p]
    /\ UNCHANGED <<gap, trial>>

\* handle_control(): COMMIT while one runs or before an SSID only reports an
\* error, and so does a task that cannot be created.
ControlCommit ==
    /\ gap = "connected"
    /\ ~ble.commit /\ ble.ssid # NoValue
    /\ ble' = [ble EXCEPT !.commit = TRUE]
    /\ trial' = [NoTrial EXCEPT !.at = "start"]
    /\ UNCHANGED gap
-----------------------------------------------------------------------------
(* ble_commit_task() with wifi_trial_run() *)

\* The trial begins with a copy of the credentials, no bits and all retries.
TrialStart ==
    /\ trial.at = "start"
    /\ trial' = [at |-> "wait", ssid |-> ble.ssid, pass |-> ble.pass, retries |-> MaxRetries, bits |-> {}]
    /\ UNCHANGED <<ble, gap>>

\* The reasons as classify() sorts them.
Reasons == {"NOT_FOUND", "AUTH_FAIL", "TIMEOUT"}

\* trial_event() with a disconnect: two more attempts, unless the reason says
\* that there is no point.
TrialDisconnected(why) ==
    /\ trial.at = "wait"
    /\ trial' = IF why = "TIMEOUT" /\ trial.retries > 0
                THEN [trial EXCEPT !.retries = @ - 1]
                ELSE [trial EXCEPT !.bits = @ \cup {"FAILED"}]
    /\ UNCHANGED <<ble, gap>>

\* trial_event() with an address.  With a password the network has to be at
\* least WPA2 (threshold.authmode), without one it has to be open.
TrialGotIp ==
    /\ trial.at = "wait"
    /\ trial.ssid \in (IF trial.pass = NoValue THEN Open ELSE Accepted)
    /\ trial' = [trial EXCEPT !.bits = @ \cup {"GOT_IP"}]
    /\ UNCHANGED <<ble, gap>>

\* The driver keeps the configuration that was tried.
TrialJoined ==
    /\ trial.at = "wait" /\ "GOT_IP" \in trial.bits
    /\ trial' = [trial EXCEPT !.at = "joined", !.bits = {}]
    /\ UNCHANGED <<ble, gap>>

\* The trial fails: a disconnect, the timeout, or a driver call that is refused.
TrialFails ==
    /\ trial.at = "start" \/ (trial.at = "wait" /\ "GOT_IP" \notin trial.bits)
    /\ ble' = [ble EXCEPT !.commit = FALSE]
    /\ trial' = NoTrial
    /\ UNCHANGED gap

\* 1.5 s later, pairing_commit() with the buffers, not with the trial's copy.
CommitStores ==
    /\ trial.at = "joined"
    /\ trial' = [trial EXCEPT !.at = "store"]
    /\ store' = [store EXCEPT !["ble"] = "erase"]
    /\ UNCHANGED <<ble, gap, flash, tcp, doing, reboot, fails>>

\* Mutant of CommitReturns: a failed store leaves the commit in progress.
CommitReturnsBusy ==
    /\ StoreReturns("ble")
    /\ trial' = NoTrial
    /\ UNCHANGED <<ble, gap, tcp>>

\* Stored: the reboot ends the commit.  Not stored: it may be tried again.
CommitReturns ==
    /\ StoreReturns("ble")
    /\ ble' = IF store["ble"] = "stored" THEN ble ELSE [ble EXCEPT !.commit = FALSE]
    /\ trial' = NoTrial
    /\ UNCHANGED <<gap, tcp>>

Gatt ==
    \/ OnSync \/ GapConnect \/ GapDisconnect
    \/ \E s \in Ssids : WriteSsid(s)
    \/ \E p \in Passwords \cup {NoValue} : WritePass(p)
    \/ ControlCommit

Trial ==
    \/ TrialStart \/ TrialGotIp \/ TrialJoined \/ TrialFails
    \/ \E why \in Reasons : TrialDisconnected(why)

\* The credentials that a commit has stored are the ones that got an address:
\* ble_commit_task() tries them "first (APSTA), then store + reboot only on
\* success".  It does not hold: gatt_access() takes writes during the trial, and
\* pairing_commit() is called with the buffers.
StoredWasTried ==
    store["ble"] = "stored" => flash.ssid = trial.ssid /\ flash.pass = trial.pass

\* After a commit that failed the device can be found or is still connected:
\* "still pairable; the app may retry" (ble_commit_task()).  It does not hold: a
\* connection that ends during the trial is the last one, as gap_event() expects
\* the device to reboot.
StillPairable == ble # BleBoot /\ ~ble.commit => gap # "silent"
=============================================================================
