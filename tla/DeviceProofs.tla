---------------------------- MODULE DeviceProofs ----------------------------
(***************************************************************************)
(* For any number of clients, credentials, retries and failed flash        *)
(* operations: a factory reset takes five short boots, and it is all or    *)
(* nothing.                                                                *)
(*                                                                         *)
(* Each of the two has its part of the invariant.  CounterInv bounds the   *)
(* counter in flash by the short boots; WipeInv says that a reset that is  *)
(* not done yet still has the counter that will start it again.  BootInv   *)
(* says that nobody else stores during a boot.                             *)
(***************************************************************************)
EXTENDS Device, TLAPS

Flashes == [mode : {"AP", "STA", Erased, Garbled},
            ssid : Ssids \cup {Erased, Garbled, NoValue},
            pass : Passwords \cup {Erased, Garbled, NoValue}]

StoreSteps == {"erase", "mode", "ssid", "pass", "idle", "stored", "failed"}

Trials == [at : {"none", "start", "wait", "joined", "store"}, ssid : Ssids \cup {NoValue},
           pass : Passwords \cup {NoValue}, retries : Nat, bits : SUBSET {"FAILED", "GOT_IP"}]

StoreTypeOK ==
    /\ flash \in Flashes
    /\ store \in [Writers -> StoreSteps]
    /\ tcp \in [step : 0 .. 3, ssid : Ssids \cup {NoValue}, pass : Passwords \cup {NoValue}]
    /\ doing \in [Clients -> {"none", "ssid", "pass"}]
    /\ reboot \in BOOLEAN /\ fails \in Nat

BleTypeOK ==
    /\ ble \in [ssid : Ssids \cup {NoValue}, pass : Passwords \cup {NoValue}, commit : BOOLEAN]
    /\ gap \in {"advertising", "connected", "silent"}
    /\ trial \in Trials

BootTypeOK ==
    /\ phase \in ResetSteps \cup {"off", "ap", "sta"}
    /\ counter \in 0 .. 4 \cup {Erased} /\ count \in 0 .. 5
    /\ phase = "count" => count <= 4
    /\ owner \in [list : BOOLEAN, password : BOOLEAN]
    /\ short \in 0 .. 5
    /\ fresh \in BOOLEAN /\ wipe \in BOOLEAN

\* The counter as reset_handler() reads it, and how it is bounded: a boot that
\* has counted itself is ahead by one until it ends, and a boot that is over 2 s
\* old has taken the count back.
Stored == IF counter = Erased THEN 0 ELSE counter

CounterInv ==
    fails = 0 =>
        /\ Stored <= (IF phase = "wait" THEN short + 1 ELSE short)
        /\ phase = "count" => count <= short + 1
        /\ phase \in {"restart", "cleared", "ap", "sta"} => Stored = 0
        /\ phase = "list" => Stored = 4

\* Nobody stores credentials during a boot, but for the reset.
BootInv ==
    /\ ~Used => \A w \in Writers \ {"reset"} : store[w] = "idle"
    /\ phase # "wifi" => store["reset"] = "idle"
    /\ fails = 0 => \A w \in Writers : store[w] # "failed"

\* The owner's data are gone.
Wiped == owner = Nobody /\ flash.mode # "STA"

\* What a reset has done at each step; one that was begun and is not done has
\* the counter that begins it again.
WipeInv ==
    /\ store["reset"] \in {"mode", "ssid", "pass", "stored"} => flash.mode # "STA"
    /\ phase = "password" => ~owner.list
    /\ phase = "wifi" => owner = Nobody
    /\ Used => ~wipe
    /\ wipe /\ fails = 0 =>
          \/ Wiped
          \/ Stored = 4 /\ phase \in {"off", "read", "list", "password", "wifi"}

DeviceInv ==
    /\ StoreTypeOK /\ BleTypeOK /\ BootTypeOK
    /\ CounterInv /\ BootInv /\ WipeInv
-----------------------------------------------------------------------------
(* Operators *)

LEMMA AfterIs ==
    /\ DOMAIN After = {"erase", "mode", "ssid", "pass"}
    /\ After["erase"] = "mode" /\ After["mode"] = "ssid"
    /\ After["ssid"] = "pass" /\ After["pass"] = "stored"
  BY DEF After

\* The history of short boots goes up by one, to five at most.
LEMMA MoreShort ==
    ASSUME NEW n \in 0 .. 5
    PROVE  /\ Min({n + 1, 5}) \in 0 .. 5
           /\ n <= Min({n + 1, 5}) /\ (n < 5 => Min({n + 1, 5}) = n + 1)
<1> DEFINE m == Min({n + 1, 5})
<1>1. \E x \in {n + 1, 5} : \A y \in {n + 1, 5} : x =< y
  <2>1. CASE n < 5
    BY <2>1
  <2>2. CASE n = 5
    BY <2>2
  <2>3. QED
    BY <2>1, <2>2
<1>2. m \in {n + 1, 5} /\ \A y \in {n + 1, 5} : m =< y
  BY <1>1 DEF Min
<1> HIDE DEF m
<1>3. QED
  BY <1>2 DEF m

LEMMA BlankIs == Blank \in Flashes /\ Blank.mode = Erased /\ Blank.ssid = Erased /\ Blank.pass = Erased
  BY DEF Blank, Fields, Flashes
-----------------------------------------------------------------------------
(* flash_store_wifi_router_info() *)

Buffers == [mode : {"AP", "STA"}, ssid : Ssids \cup {NoValue}, pass : Passwords \cup {NoValue}]

\* One flash operation: types.
LEMMA StoreStepType ==
    ASSUME StoreTypeOK, NEW w \in Writers, NEW new \in Buffers, StoreStep(w, new)
    PROVE  StoreTypeOK'
<1>1. store[w] \in {"erase", "mode", "ssid", "pass"}
  BY AfterIs DEF StoreStep, Storing
<1>2. store' \in [Writers -> StoreSteps]
  <2>1. After[store[w]] \in StoreSteps
    BY <1>1, AfterIs DEF StoreSteps
  <2>2. QED
    BY <2>1 DEF StoreTypeOK, StoreStep
<1>3. flash' \in Flashes
  <2>1. CASE store[w] = "erase"
    BY <2>1, BlankIs DEF StoreStep
  <2>2. CASE store[w] # "erase"
    <3>1. flash' = [flash EXCEPT ![store[w]] = Program(flash[store[w]], new[store[w]])]
      BY <2>2 DEF StoreStep
    <3>2. CASE store[w] = "mode"
      BY <3>1, <3>2 DEF StoreTypeOK, Flashes, Program, Buffers
    <3>3. CASE store[w] = "ssid"
      BY <3>1, <3>3 DEF StoreTypeOK, Flashes, Program, Buffers
    <3>4. CASE store[w] = "pass"
      BY <3>1, <3>4 DEF StoreTypeOK, Flashes, Program, Buffers
    <3>5. QED
      BY <1>1, <2>2, <3>2, <3>3, <3>4
  <2>3. QED
    BY <2>1, <2>2
<1>4. QED
  BY <1>2, <1>3 DEF StoreTypeOK, StoreStep

\* The task goes on, or its operation fails.
LEMMA StoreEndsType ==
    ASSUME StoreTypeOK, NEW w \in Writers, StoreFails(w) \/ StoreReturns(w),
           tcp' \in [step : 0 .. 3, ssid : Ssids \cup {NoValue}, pass : Passwords \cup {NoValue}]
    PROVE  StoreTypeOK'
<1>1. store' \in [Writers -> StoreSteps]
  BY DEF StoreTypeOK, StoreSteps, StoreFails, StoreReturns
<1>2. reboot' \in BOOLEAN /\ fails' \in Nat
  <2>1. CASE StoreFails(w)
    <3>1. reboot' = reboot /\ fails' = fails + 1
      BY <2>1 DEF StoreFails
    <3>2. QED
      BY <3>1 DEF StoreTypeOK
  <2>2. CASE StoreReturns(w)
    <3>1. fails' = fails /\ reboot' \in BOOLEAN
      BY <2>2 DEF StoreReturns
    <3>2. QED
      BY <3>1 DEF StoreTypeOK
  <2>3. QED
    BY <2>1, <2>2
<1>3. flash' = flash /\ doing' = doing
  BY DEF StoreFails, StoreReturns
<1>4. QED
  BY <1>1, <1>2, <1>3 DEF StoreTypeOK

-----------------------------------------------------------------------------
(* What the steps of Next leave alone *)

\* A step of a boot: at most a flash operation on the counter fails.
StoreQuiet == UNCHANGED <<flash, store, tcp, doing, reboot>> /\ fails' \in {fails, fails + 1}

LEMMA NextCases ==
    ASSUME [Next]_vars
    PROVE  \/ StoreQuiet /\ UNCHANGED bleVars
           \/ WipePassword \/ WipeWifi \/ WipeReturns
           \/ OverTcp \/ OverBle \/ BleCommit \/ FlashFails
           \/ PowerLoss \/ Reboot \/ WipeRestart
<1>1. CASE UNCHANGED vars
  BY <1>1 DEF vars, storeVars, StoreQuiet
<1>2. CASE Boot \/ ReadCounter \/ EraseCounter \/ WriteCounter \/ WipeList \/ BootMode \/ Own
  BY <1>2 DEF Boot, ReadCounter, EraseCounter, WriteCounter, WipeList, BootMode, Own, Untouched,
              storeVars, StoreQuiet, bleVars
<1>3. CASE ReadFails \/ WriteCounterFails
  BY <1>3 DEF ReadFails, WriteCounterFails, Untouched, StoreQuiet, bleVars
<1>4. QED
  BY <1>1, <1>2, <1>3 DEF Next, StartsUp

LEMMA BuffersAre ==
    ASSUME StoreTypeOK, BleTypeOK
    PROVE  /\ TcpBuffers \in Buffers /\ BleBuffers \in Buffers /\ ResetBuffers \in Buffers
           /\ ResetBuffers.mode = "AP"
  BY DEF StoreTypeOK, BleTypeOK, TcpBuffers, BleBuffers, ResetBuffers, Buffers

\* pairing_handle_line(): types.
LEMMA PairingType ==
    ASSUME StoreTypeOK, BleTypeOK, NEW c \in Clients, PairingStep(c)
    PROVE  StoreTypeOK'
<1>0. c \in Writers
  BY DEF Writers
<1>1. CASE StartP(c)
  BY <1>1 DEF StartP, StoreTypeOK
<1>2. ASSUME NEW s \in Ssids \cup {NoValue}, SsidLine(c, s) PROVE StoreTypeOK'
  BY <1>2 DEF SsidLine, StoreTypeOK
<1>3. ASSUME NEW p \in Passwords \cup {NoValue}, PassLine(c, p) PROVE StoreTypeOK'
  BY <1>3 DEF PassLine, StoreTypeOK
<1>4. CASE Advance(c)
  BY <1>4 DEF Advance, StoreTypeOK
<1>5. CASE FinishP(c)
  BY <1>0, <1>5 DEF FinishP, StoreTypeOK, StoreSteps
<1>6. CASE StoreStep(c, TcpBuffers)
  BY <1>0, <1>6, BuffersAre, StoreStepType
<1>7. CASE FinishReturns(c)
  <2>1. tcp' \in [step : 0 .. 3, ssid : Ssids \cup {NoValue}, pass : Passwords \cup {NoValue}]
    BY <1>7 DEF FinishReturns, StoreTypeOK
  <2>2. QED
    BY <1>0, <1>7, <2>1, StoreEndsType DEF FinishReturns
<1>8. QED
  BY <1>1, <1>2, <1>3, <1>4, <1>5, <1>6, <1>7 DEF PairingStep

LEMMA StoreTypeNext ==
    ASSUME StoreTypeOK, BleTypeOK, [Next]_vars
    PROVE  StoreTypeOK'
<1>0. "reset" \in Writers /\ "ble" \in Writers
  BY DEF Writers
<1>1. CASE StoreQuiet
  BY <1>1 DEF StoreQuiet, StoreTypeOK
<1>2. CASE WipePassword
  BY <1>0, <1>2 DEF WipePassword, StoreTypeOK, StoreSteps
<1>3. CASE WipeWifi
  BY <1>0, <1>3, BuffersAre, StoreStepType DEF WipeWifi
<1>4. CASE WipeReturns
  <2>1. StoreReturns("reset") /\ tcp' = tcp
    BY <1>4 DEF WipeReturns
  <2>2. QED
    BY <1>0, <2>1, StoreEndsType DEF StoreTypeOK
<1>5. CASE OverTcp
  <2>1. CASE PairingTimeout
    BY <2>1 DEF PairingTimeout, StoreTypeOK
  <2>2. QED
    BY <1>5, <2>1, PairingType DEF OverTcp
<1>6. CASE OverBle
  BY <1>6 DEF OverBle, storeVars, StoreTypeOK
<1>7. CASE BleCommit
  <2>1. CASE CommitStores
    BY <1>0, <2>1 DEF CommitStores, StoreTypeOK, StoreSteps
  <2>2. CASE StoreStep("ble", BleBuffers)
    BY <1>0, <2>2, BuffersAre, StoreStepType
  <2>3. CASE CommitReturns
    <3>1. StoreReturns("ble") /\ tcp' = tcp
      BY <2>3 DEF CommitReturns
    <3>2. QED
      BY <1>0, <3>1, StoreEndsType DEF StoreTypeOK
  <2>4. QED
    BY <1>7, <2>1, <2>2, <2>3 DEF BleCommit
<1>8. CASE FlashFails
  <2>1. PICK w \in Writers : StoreFails(w)
    BY <1>8 DEF FlashFails
  <2>2. tcp' = tcp
    BY <2>1 DEF StoreFails
  <2>3. QED
    BY <2>1, <2>2, StoreEndsType DEF StoreTypeOK
<1>9. CASE PowerLoss \/ Reboot \/ WipeRestart
  <2>1. Volatile
    BY <1>9 DEF PowerLoss, Reboot, WipeRestart
  <2>2. /\ store' \in [Writers -> StoreSteps] /\ doing' \in [Clients -> {"none", "ssid", "pass"}]
        /\ tcp' \in [step : 0 .. 3, ssid : Ssids \cup {NoValue}, pass : Passwords \cup {NoValue}]
    BY <2>1 DEF Volatile, NoDialogue, StoreSteps
  <2>3. reboot' = FALSE /\ flash' = flash /\ fails' = fails
    BY <2>1 DEF Volatile
  <2>4. QED
    BY <2>1, <2>2, <2>3 DEF StoreTypeOK
<1>10. QED
  BY <1>1, <1>2, <1>3, <1>4, <1>5, <1>6, <1>7, <1>8, <1>9, NextCases

LEMMA BleTypeNext ==
    ASSUME StoreTypeOK, BleTypeOK, [Next]_vars
    PROVE  BleTypeOK'
<1> DEFINE Bles == [ssid : Ssids \cup {NoValue}, pass : Passwords \cup {NoValue}, commit : BOOLEAN]
<1>0. NoTrial \in Trials /\ BleBoot \in Bles
  BY DEF NoTrial, Trials, BleBoot
<1>1. CASE UNCHANGED bleVars
  BY <1>1 DEF bleVars, BleTypeOK
<1>2. CASE OverBle
  <2>1. CASE OnSync \/ GapConnect \/ GapDisconnect
    BY <2>1 DEF OnSync, GapConnect, GapDisconnect, BleTypeOK
  <2>2. ASSUME NEW s \in Ssids, WriteSsid(s) PROVE BleTypeOK'
    BY <2>2 DEF WriteSsid, BleTypeOK
  <2>3. ASSUME NEW p \in Passwords \cup {NoValue}, WritePass(p) PROVE BleTypeOK'
    BY <2>3 DEF WritePass, BleTypeOK
  <2>4. CASE ControlCommit
    <3>1. [ble EXCEPT !.commit = TRUE] \in Bles
      BY DEF BleTypeOK
    <3>2. [NoTrial EXCEPT !.at = "start"] \in Trials
      BY DEF NoTrial, Trials
    <3>3. QED
      BY <2>4, <3>1, <3>2 DEF ControlCommit, BleTypeOK
  <2>5. CASE TrialStart
    <3>1. trial' \in Trials
      BY <2>5, NetworkAssumption DEF TrialStart, BleTypeOK, Trials
    <3>2. QED
      BY <2>5, <3>1 DEF TrialStart, BleTypeOK
  <2>6. CASE TrialGotIp
    <3>1. trial' \in Trials
      BY <2>6 DEF TrialGotIp, BleTypeOK, Trials
    <3>2. QED
      BY <2>6, <3>1 DEF TrialGotIp, BleTypeOK
  <2>7. CASE TrialJoined
    <3>1. [trial EXCEPT !.at = "joined", !.bits = {}] \in Trials
      BY DEF BleTypeOK, Trials
    <3>2. QED
      BY <2>7, <3>1 DEF TrialJoined, BleTypeOK
  <2>8. CASE TrialFails
    <3>1. [ble EXCEPT !.commit = FALSE] \in Bles
      BY DEF BleTypeOK
    <3>2. QED
      BY <1>0, <2>8, <3>1 DEF TrialFails, BleTypeOK
  <2>9. ASSUME NEW why \in Reasons, TrialDisconnected(why) PROVE BleTypeOK'
    <3>1. trial.retries > 0 => [trial EXCEPT !.retries = @ - 1] \in Trials
      BY DEF BleTypeOK, Trials
    <3>2. [trial EXCEPT !.bits = @ \cup {"FAILED"}] \in Trials
      BY DEF BleTypeOK, Trials
    <3>3. QED
      BY <2>9, <3>1, <3>2 DEF TrialDisconnected, BleTypeOK
  <2>10. QED
    BY <1>2, <2>1, <2>2, <2>3, <2>4, <2>5, <2>6, <2>7, <2>8, <2>9 DEF OverBle, Gatt, Trial
<1>3. CASE BleCommit
  <2>1. CASE CommitStores
    <3>1. [trial EXCEPT !.at = "store"] \in Trials
      BY DEF BleTypeOK, Trials
    <3>2. QED
      BY <2>1, <3>1 DEF CommitStores, BleTypeOK
  <2>2. CASE CommitReturns
    <3>1. [ble EXCEPT !.commit = FALSE] \in Bles
      BY DEF BleTypeOK
    <3>2. QED
      BY <1>0, <2>2, <3>1 DEF CommitReturns, BleTypeOK
  <2>3. QED
    BY <1>1, <1>3, <2>1, <2>2 DEF BleCommit
<1>4. CASE PowerLoss \/ Reboot \/ WipeRestart
  <2>1. Volatile
    BY <1>4 DEF PowerLoss, Reboot, WipeRestart
  <2>2. QED
    BY <1>0, <2>1 DEF Volatile, BleTypeOK
<1>5. QED
  BY <1>1, <1>2, <1>3, <1>4, NextCases
     DEF WipePassword, WipeWifi, WipeReturns, Untouched, OverTcp, FlashFails
-----------------------------------------------------------------------------
(* reset_handler() *)

LEMMA StoredIs ==
    ASSUME BootTypeOK
    PROVE  Stored \in 0 .. 4 /\ Counted = Stored + 1
  BY DEF BootTypeOK, Stored, Counted

\* flash_erase_write_reset_counter(): what is written, and what follows.
LEMMA FollowingIs ==
    /\ Holds <=> phase \in {"count", "wait", "zero"}
    /\ phase = "count" => Counters[phase] = count /\ Following[phase] = "wait"
    /\ phase = "wait" => Counters[phase] = 0 /\ Following[phase] = "cleared"
    /\ phase = "zero" => Counters[phase] = 0 /\ Following[phase] = "restart"
  BY DEF Holds, Counters, Following

LEMMA BootTypeNext ==
    ASSUME BootTypeOK, [Next]_vars
    PROVE  BootTypeOK'
<1> DEFINE Owners == [list : BOOLEAN, password : BOOLEAN]
<1>0. owner \in Owners
  BY DEF BootTypeOK
<1>1. CASE UNCHANGED deviceVars
  BY <1>1 DEF deviceVars, BootTypeOK
<1>2. CASE Boot
  BY <1>2 DEF Boot, Untouched, BootTypeOK, ResetSteps
<1>3. CASE ReadCounter
  <2>1. count' = Stored + 1 /\ Stored \in 0 .. 4 /\ UNCHANGED <<counter, fresh, short, owner>>
    BY <1>3, StoredIs DEF ReadCounter, Untouched
  <2>2. CASE Counted > 4
    <3>1. phase' = "list" /\ wipe' = TRUE
      BY <1>3, <2>2 DEF ReadCounter
    <3>2. QED
      BY <2>1, <3>1 DEF BootTypeOK, ResetSteps
  <2>3. CASE ~(Counted > 4)
    <3>1. phase' = "count" /\ wipe' = wipe /\ count' <= 4
      BY <1>3, <2>1, <2>3, StoredIs DEF ReadCounter
    <3>2. QED
      BY <2>1, <3>1 DEF BootTypeOK, ResetSteps
  <2>4. QED
    BY <2>2, <2>3
<1>4. CASE ReadFails
  BY <1>4 DEF ReadFails, Untouched, BootTypeOK, ResetSteps
<1>5. CASE EraseCounter
  BY <1>5 DEF EraseCounter, Untouched, BootTypeOK
<1>6. CASE WriteCounter \/ WriteCounterFails
  <2>1. /\ phase \in {"count", "wait", "zero"} /\ phase' = Following[phase]
        /\ count' = Counters[phase] /\ short' = (IF phase = "wait" THEN 0 ELSE short)
        /\ UNCHANGED <<fresh, wipe, owner>>
    BY <1>6, FollowingIs DEF WriteCounter, WriteCounterFails, Untouched
  <2>2. Counters[phase] \in 0 .. 4 /\ Following[phase] \in {"wait", "cleared", "restart"}
    BY <2>1, FollowingIs DEF BootTypeOK
  <2>3. counter' \in 0 .. 4 \cup {Erased}
    BY <1>6, <2>2 DEF WriteCounter, WriteCounterFails, BootTypeOK
  <2>4. QED
    BY <2>1, <2>2, <2>3 DEF BootTypeOK, ResetSteps
<1>7. CASE WipeList \/ WipePassword
  <2>1. owner' \in Owners
    BY <1>0, <1>7 DEF WipeList, WipePassword
  <2>2. phase' \in {"password", "wifi"} /\ UNCHANGED <<counter, count, fresh, short, wipe>>
    BY <1>7 DEF WipeList, WipePassword
  <2>3. QED
    BY <2>1, <2>2 DEF BootTypeOK, ResetSteps
<1>8. CASE WipeWifi \/ WipeReturns
  BY <1>8 DEF WipeWifi, WipeReturns, Untouched, BootTypeOK, ResetSteps
<1>9. CASE BootMode
  BY <1>9 DEF BootMode, BootTypeOK, ResetSteps
<1>10. CASE Own
  <2>1. owner' \in Owners
    BY <1>10 DEF Own
  <2>2. QED
    BY <1>10, <2>1 DEF Own, BootTypeOK
<1>11. CASE PowerLoss \/ Reboot \/ WipeRestart
  <2>1. Volatile /\ wipe' = wipe
    BY <1>11 DEF PowerLoss, Reboot, WipeRestart
  <2>2. short' \in 0 .. 5
    BY <1>11, MoreShort DEF PowerLoss, Reboot, WipeRestart, BootTypeOK
  <2>3. phase' = "off" /\ count' = 0 /\ fresh' = FALSE /\ UNCHANGED <<owner, counter>>
    BY <2>1 DEF Volatile
  <2>4. fresh' \in BOOLEAN /\ wipe' \in BOOLEAN
    BY <2>1, <2>3 DEF BootTypeOK
  <2>5. phase' \in ResetSteps \cup {"off", "ap", "sta"} /\ count' \in 0 .. 5 /\ phase' # "count"
    BY <2>3
  <2>6. QED
    BY <2>2, <2>3, <2>4, <2>5 DEF BootTypeOK
<1>12. QED
  BY <1>1, <1>2, <1>3, <1>4, <1>5, <1>6, <1>7, <1>8, <1>9, <1>10, <1>11
     DEF Next, StartsUp, OverTcp, OverBle, BleCommit, FlashFails, vars, deviceVars

LEMMA CounterNext ==
    ASSUME StoreTypeOK, BootTypeOK, CounterInv, [Next]_vars
    PROVE  CounterInv'
<1> SUFFICES ASSUME fails' = 0 PROVE CounterInv'
  BY DEF CounterInv
<1>0. Stored \in 0 .. 4 /\ Counted = Stored + 1 /\ short \in 0 .. 5 /\ fails \in Nat
  BY StoredIs DEF BootTypeOK, StoreTypeOK
<1>1. CASE UNCHANGED <<phase, counter, count, short>> /\ fails = 0
  BY <1>1 DEF CounterInv, Stored
<1>2. CASE Boot
  <2>1. fails = 0 /\ phase = "off" /\ phase' = "read" /\ UNCHANGED <<counter, short>>
    BY <1>2 DEF Boot, storeVars
  <2>2. QED
    BY <2>1 DEF CounterInv, Stored
<1>3. CASE ReadCounter
  <2>1. fails = 0 /\ phase = "read" /\ UNCHANGED <<counter, short>> /\ count' = Counted
    BY <1>3 DEF ReadCounter, storeVars
  <2>2. Stored <= short /\ Stored' = Stored
    BY <2>1 DEF CounterInv, Stored
  <2>3. phase' = (IF Counted > 4 THEN "list" ELSE "count")
    BY <1>3 DEF ReadCounter
  <2>4. QED
    BY <1>0, <2>1, <2>2, <2>3 DEF CounterInv
<1>4. CASE ReadFails \/ WriteCounterFails \/ FlashFails
  BY <1>0, <1>4 DEF ReadFails, WriteCounterFails, FlashFails, StoreFails
<1>5. CASE EraseCounter
  <2>1. fails = 0 /\ phase \in {"count", "wait", "zero"} /\ UNCHANGED <<phase, count, short>> /\ Stored' = 0
    BY <1>5, FollowingIs DEF EraseCounter, storeVars, Stored
  <2>2. QED
    BY <1>0, <2>1 DEF CounterInv
<1>6. CASE WriteCounter
  <2>1. /\ fails = 0 /\ phase \in {"count", "wait", "zero"} /\ phase' = Following[phase]
        /\ counter' = (IF counter = Erased THEN Counters[phase] ELSE 0)
        /\ short' = (IF phase = "wait" THEN 0 ELSE short)
    BY <1>6, FollowingIs DEF WriteCounter, storeVars
  <2>2. CASE phase = "count"
    <3>1. phase' = "wait" /\ counter' \in {count, 0} /\ short' = short /\ count <= short + 1 /\ count \in 0 .. 5
      BY <2>1, <2>2, FollowingIs DEF CounterInv, BootTypeOK
    <3>2. QED
      BY <1>0, <3>1 DEF CounterInv, Stored
  <2>3. CASE phase \in {"wait", "zero"}
    <3>1. phase' \in {"cleared", "restart"} /\ counter' = 0 /\ short' \in 0 .. 5
      BY <1>0, <2>1, <2>3, FollowingIs
    <3>2. Stored' = 0
      BY <3>1 DEF Stored
    <3>3. phase' # "wait" /\ phase' # "count" /\ phase' # "list" /\ Stored' <= short'
      BY <3>1, <3>2
    <3>4. QED
      BY <3>2, <3>3 DEF CounterInv
  <2>4. QED
    BY <2>1, <2>2, <2>3
<1>7. CASE WipeList \/ WipePassword \/ WipeWifi \/ WipeReturns
  <2>1. /\ fails = 0 /\ UNCHANGED <<counter, short>> /\ phase \in {"list", "password", "wifi"}
        /\ phase' \in {"password", "wifi", "zero"}
    BY <1>7 DEF WipeList, WipePassword, WipeWifi, WipeReturns, StoreStep, StoreReturns, storeVars
  <2>2. QED
    BY <2>1 DEF CounterInv, Stored
<1>8. CASE BootMode
  <2>1. fails = 0 /\ phase = "cleared" /\ phase' \in {"ap", "sta"} /\ UNCHANGED <<counter, short>>
    BY <1>8 DEF BootMode, storeVars
  <2>2. QED
    BY <2>1 DEF CounterInv, Stored
<1>9. CASE PowerLoss
  <2>1. /\ fails = 0 /\ phase' = "off" /\ counter' = counter
        /\ short' = (IF Booting /\ phase # "cleared" THEN Min({short + 1, 5}) ELSE 0)
        /\ phase # "off"
    BY <1>9 DEF PowerLoss, Volatile
  <2>2. CASE Booting /\ phase # "cleared"
    <3>1. short' = Min({short + 1, 5})
      BY <2>1, <2>2
    <3>0. Stored' = Stored
      BY <2>1 DEF Stored
    <3>2. Stored <= short + 1 /\ Stored' = Stored
      BY <1>0, <2>1, <3>0 DEF CounterInv
    <3>3. Stored' <= short'
      BY <1>0, <3>1, <3>2, MoreShort
    <3>4. QED
      BY <2>1, <3>3 DEF CounterInv
  <2>3. CASE ~(Booting /\ phase # "cleared")
    <3>1. short' = 0 /\ phase \in {"ap", "sta", "cleared"}
      BY <2>1, <2>3 DEF Booting, Used
    <3>2. QED
      BY <2>1, <3>1 DEF CounterInv, Stored
  <2>4. QED
    BY <2>2, <2>3
<1>10. CASE Reboot \/ WipeRestart
  <2>1. /\ fails = 0 /\ phase' = "off" /\ counter' = counter /\ phase \in {"ap", "sta", "restart"}
        /\ short' \in 0 .. 5
    BY <1>0, <1>10 DEF Reboot, WipeRestart, Volatile, Used
  <2>2. QED
    BY <2>1 DEF CounterInv, Stored
<1>11. CASE OverTcp \/ OverBle \/ BleCommit \/ Own \/ UNCHANGED vars
  <2>1. UNCHANGED <<phase, counter, count, short>>
    BY <1>11 DEF OverTcp, OverBle, BleCommit, Own, vars, deviceVars
  <2>2. fails' = fails
    <3>1. CASE OverTcp
      BY <3>1 DEF OverTcp, PairingTimeout, PairingStep, StartP, SsidLine, PassLine, Advance, FinishP,
                  StoreStep, FinishReturns, StoreReturns
    <3>2. CASE BleCommit
      BY <3>2 DEF BleCommit, CommitStores, StoreStep, CommitReturns, StoreReturns
    <3>3. QED
      BY <1>11, <3>1, <3>2 DEF OverBle, Own, vars, storeVars
  <2>3. QED
    BY <1>1, <2>1, <2>2
<1>12. QED
  BY <1>2, <1>3, <1>4, <1>5, <1>6, <1>7, <1>8, <1>9, <1>10, <1>11 DEF Next, StartsUp

\* A step that is not of the reset leaves its place in the sector alone.
LEMMA OthersStore ==
    ASSUME StoreTypeOK, [Next]_vars, Used, phase' = phase, ~FlashFails
    PROVE  store'["reset"] = store["reset"]
<1>0. "reset" \in Writers /\ "reset" \notin Clients
  BY WriterAssumption DEF Writers
<1>1. CASE OverTcp
  <2>1. CASE PairingTimeout
    BY <2>1 DEF PairingTimeout
  <2>2. ASSUME NEW c \in Clients, PairingStep(c) PROVE store'["reset"] = store["reset"]
    <3>1. "reset" # c
      BY <1>0
    <3>2. CASE StartP(c) \/ Advance(c)
      BY <3>2 DEF StartP, Advance
    <3>3. CASE FinishP(c)
      BY <1>0, <3>1, <3>3 DEF FinishP, StoreTypeOK
    <3>4. CASE (\E x \in Ssids \cup {NoValue} : SsidLine(c, x)) \/ (\E p \in Passwords \cup {NoValue} : PassLine(c, p))
      BY <3>4 DEF SsidLine, PassLine
    <3>5. CASE StoreStep(c, TcpBuffers) \/ FinishReturns(c)
      BY <1>0, <3>1, <3>5 DEF StoreStep, FinishReturns, StoreReturns, StoreTypeOK
    <3>6. QED
      BY <2>2, <3>2, <3>3, <3>4, <3>5 DEF PairingStep
  <2>3. QED
    BY <1>1, <2>1, <2>2 DEF OverTcp
<1>2. CASE BleCommit
  BY <1>0, <1>2 DEF BleCommit, CommitStores, StoreStep, CommitReturns, StoreReturns, StoreTypeOK
<1>3. QED
  BY <1>1, <1>2, NextCases
     DEF StoreQuiet, OverBle, storeVars, WipePassword, WipeWifi, WipeReturns, Used,
         PowerLoss, Reboot, WipeRestart, Volatile

\* No flash operation fails that fails does not count.
LEMMA NobodyFailed ==
    ASSUME StoreTypeOK, BootInv, [Next]_vars, fails' = 0
    PROVE  fails = 0 /\ \A w \in Writers : store'[w] # "failed"
<1>0. /\ "reset" \in Writers /\ "ble" \in Writers /\ Clients \subseteq Writers /\ fails \in Nat
      /\ store \in [Writers -> StoreSteps]
  BY DEF Writers, StoreTypeOK
<1>1. ASSUME NEW w \in Writers, NEW new, StoreStep(w, new), fails = 0
      PROVE  \A v \in Writers : store'[v] # "failed"
  BY <1>0, <1>1, AfterIs DEF StoreStep, Storing, BootInv
<1>2. ASSUME NEW w \in Writers, StoreReturns(w), fails = 0
      PROVE  \A v \in Writers : store'[v] # "failed"
  BY <1>0, <1>2 DEF StoreReturns, BootInv
<1>3. CASE StoreQuiet
  BY <1>0, <1>3 DEF StoreQuiet, BootInv
<1>4. CASE WipePassword
  BY <1>0, <1>4 DEF WipePassword, BootInv
<1>5. CASE WipeWifi
  BY <1>0, <1>1, <1>5 DEF WipeWifi, StoreStep
<1>6. CASE WipeReturns
  BY <1>0, <1>2, <1>6 DEF WipeReturns, StoreReturns
<1>7. CASE OverTcp
  <2>1. ASSUME NEW c \in Clients, PairingStep(c) PROVE fails = 0 /\ \A w \in Writers : store'[w] # "failed"
    <3>1. CASE \/ StartP(c) \/ Advance(c)
               \/ \E s \in Ssids \cup {NoValue} : SsidLine(c, s)
               \/ \E p \in Passwords \cup {NoValue} : PassLine(c, p)
      BY <3>1 DEF StartP, SsidLine, PassLine, Advance, BootInv
    <3>2. CASE FinishP(c)
      BY <1>0, <3>2 DEF FinishP, BootInv
    <3>3. CASE StoreStep(c, TcpBuffers)
      BY <1>0, <1>1, <3>3 DEF StoreStep
    <3>4. CASE FinishReturns(c)
      BY <1>0, <1>2, <3>4 DEF FinishReturns, StoreReturns
    <3>5. QED
      BY <2>1, <3>1, <3>2, <3>3, <3>4 DEF PairingStep
  <2>2. CASE PairingTimeout
    BY <2>2 DEF PairingTimeout, BootInv
  <2>3. QED
    BY <1>7, <2>1, <2>2 DEF OverTcp
<1>8. CASE OverBle
  BY <1>8 DEF OverBle, storeVars, BootInv
<1>9. CASE BleCommit
  <2>1. CASE CommitStores
    BY <1>0, <2>1 DEF CommitStores, BootInv
  <2>2. CASE StoreStep("ble", BleBuffers)
    BY <1>0, <1>1, <2>2 DEF StoreStep
  <2>3. CASE CommitReturns
    BY <1>0, <1>2, <2>3 DEF CommitReturns, StoreReturns
  <2>4. QED
    BY <1>9, <2>1, <2>2, <2>3 DEF BleCommit
<1>10. CASE FlashFails
  BY <1>0, <1>10 DEF FlashFails, StoreFails
<1>11. CASE PowerLoss \/ Reboot \/ WipeRestart
  BY <1>11 DEF PowerLoss, Reboot, WipeRestart, Volatile
<1>12. QED
  BY <1>3, <1>4, <1>5, <1>6, <1>7, <1>8, <1>9, <1>10, <1>11, NextCases

LEMMA BootNext ==
    ASSUME StoreTypeOK, BootTypeOK, BootInv, [Next]_vars
    PROVE  BootInv'
<1>0. /\ "reset" \in Writers /\ "ble" \in Writers /\ Clients \subseteq Writers
      /\ store \in [Writers -> StoreSteps]
  BY DEF Writers, StoreTypeOK
<1> DEFINE Calm == /\ ~Used => \A w \in Writers \ {"reset"} : store[w] = "idle"
                   /\ phase # "wifi" => store["reset"] = "idle"
<1>1. Calm'
  <2>1. Calm
    BY DEF BootInv
  <2>2. CASE store' = store /\ (Used => Used') /\ (phase' # "wifi" => phase # "wifi")
    BY <2>1, <2>2
  <2>3. CASE Boot \/ ReadCounter \/ ReadFails \/ EraseCounter \/ WipeList \/ BootMode
    BY <2>2, <2>3 DEF Boot, ReadCounter, ReadFails, EraseCounter, WipeList, BootMode, storeVars, Used
  <2>4. CASE WriteCounter \/ WriteCounterFails
    <3>1. store' = store /\ phase \in {"count", "wait", "zero"}
      BY <2>4, FollowingIs DEF WriteCounter, WriteCounterFails, storeVars
    <3>2. QED
      BY <2>2, <3>1 DEF Used
  <2>5. CASE Own \/ OverBle \/ UNCHANGED vars
    BY <2>2, <2>5 DEF Own, OverBle, vars, deviceVars, storeVars, Used
  <2>6. CASE WipePassword
    <3>1. phase = "password" /\ phase' = "wifi" /\ \A w \in Writers \ {"reset"} : store'[w] = store[w]
      BY <1>0, <2>6 DEF WipePassword
    <3>2. QED
      BY <2>1, <3>1 DEF Used
  <2>7. CASE WipeWifi
    <3>1. phase = "wifi" /\ phase' = "wifi" /\ \A w \in Writers \ {"reset"} : store'[w] = store[w]
      BY <1>0, <2>7 DEF WipeWifi, StoreStep
    <3>2. QED
      BY <2>1, <3>1 DEF Used
  <2>8. CASE WipeReturns
    <3>1. /\ phase = "wifi" /\ phase' = "zero" /\ store'["reset"] = "idle"
          /\ \A w \in Writers \ {"reset"} : store'[w] = store[w]
      BY <1>0, <2>8 DEF WipeReturns, StoreReturns
    <3>2. QED
      BY <2>1, <3>1 DEF Used
  <2>9. CASE ~FlashFails /\ (OverTcp \/ BleCommit)
    <3>1. Used /\ phase' = phase /\ phase # "wifi"
      BY <2>9 DEF OverTcp, BleCommit, deviceVars, Used
    <3>2. store'["reset"] = store["reset"]
      BY <2>9, <3>1, OthersStore
    <3>3. QED
      BY <2>1, <3>1, <3>2 DEF Used
  <2>10. CASE FlashFails
    <3>1. PICK w \in Writers : StoreFails(w)
      BY <2>10 DEF FlashFails
    <3>2. phase' = phase /\ store[w] # "idle" /\ \A v \in Writers \ {w} : store'[v] = store[v]
      BY <1>0, <2>10, <3>1, AfterIs DEF FlashFails, StoreFails, Storing, deviceVars
    <3>3. QED
      BY <1>0, <2>1, <3>2 DEF Used
  <2>11. CASE PowerLoss \/ Reboot \/ WipeRestart
    <3>1. \A w \in Writers : store'[w] = "idle"
      BY <2>11 DEF PowerLoss, Reboot, WipeRestart, Volatile
    <3>2. QED
      BY <1>0, <3>1
  <2>12. QED
    BY <2>3, <2>4, <2>5, <2>6, <2>7, <2>8, <2>9, <2>10, <2>11 DEF Next, StartsUp
<1>2. QED
  BY <1>1, NobodyFailed DEF BootInv

\* What the reset has programmed is not station mode.
LEMMA ResetStepMode ==
    ASSUME StoreTypeOK, StoreStep("reset", ResetBuffers),
           store["reset"] \in {"ssid", "pass"} => flash.mode # "STA"
    PROVE  flash'.mode # "STA"
<1>1. CASE store["reset"] = "erase"
  BY <1>1, BlankIs, ValueAssumption DEF StoreStep
<1>2. CASE store["reset"] = "mode"
  <2>1. flash' = [flash EXCEPT !["mode"] = Program(flash["mode"], ResetBuffers["mode"])]
    BY <1>2 DEF StoreStep
  <2>2. flash'.mode = Program(flash.mode, "AP")
    BY <2>1 DEF StoreTypeOK, Flashes, ResetBuffers
  <2>3. QED
    BY <2>2, ValueAssumption DEF Program
<1>3. CASE store["reset"] \in {"ssid", "pass"}
  <2>1. flash' = [flash EXCEPT ![store["reset"]] = Program(flash[store["reset"]], ResetBuffers[store["reset"]])]
    BY <1>3 DEF StoreStep
  <2>2. flash'.mode = flash.mode
    BY <1>3, <2>1 DEF StoreTypeOK, Flashes
  <2>3. QED
    BY <1>3, <2>2
<1>4. QED
  BY <1>1, <1>2, <1>3, AfterIs DEF StoreStep, Storing

LEMMA WipeNext ==
    ASSUME StoreTypeOK, BleTypeOK, BootTypeOK, BootInv, CounterInv, WipeInv, [Next]_vars
    PROVE  WipeInv'
<1> DEFINE Part == store["reset"] \in {"mode", "ssid", "pass", "stored"} => flash.mode # "STA"
           Gone == (phase = "password" => ~owner.list) /\ (phase = "wifi" => owner = Nobody)
           Undone == Stored = 4 /\ phase \in {"off", "read", "list", "password", "wifi"}
           Sure == wipe /\ fails = 0 => Wiped \/ Undone
<1>0. /\ Part /\ Gone /\ (Used => ~wipe) /\ Sure
      /\ "reset" \in Writers /\ store \in [Writers -> StoreSteps]
      /\ phase # "wifi" => store["reset"] = "idle"
      /\ fails' = 0 => fails = 0
      /\ Stored \in 0 .. 4 /\ Counted = Stored + 1
  BY StoredIs, NobodyFailed DEF WipeInv, BootInv, Writers, StoreTypeOK
<1>1. SUFFICES (Part /\ Gone /\ (Used => ~wipe) /\ Sure)'
  BY DEF WipeInv
<1>2. CASE UNCHANGED <<store, flash, owner, phase, counter, wipe>>
  BY <1>0, <1>2 DEF Used, Wiped, Stored
<1>3. CASE Boot
  <2>1. phase = "off" /\ phase' = "read" /\ UNCHANGED <<store, flash, owner, counter, wipe>>
    BY <1>3 DEF Boot, Untouched, storeVars
  <2>2. QED
    BY <1>0, <2>1 DEF Used, Wiped, Stored
<1>4. CASE ReadCounter
  <2>1. phase = "read" /\ UNCHANGED <<store, flash, owner, counter>>
    BY <1>4 DEF ReadCounter, Untouched, storeVars
  <2>2. Stored' = Stored
    BY <2>1 DEF Stored
  <2>3. CASE Stored = 4
    <3>1. phase' = "list"
      BY <1>0, <1>4, <2>3 DEF ReadCounter
    <3>2. QED
      BY <1>0, <2>1, <2>2, <2>3, <3>1 DEF Used
  <2>4. CASE Stored # 4
    <3>1. phase' = "count" /\ wipe' = wipe
      BY <1>0, <1>4, <2>4 DEF ReadCounter
    <3>2. QED
      BY <1>0, <2>1, <2>4, <3>1 DEF Used, Wiped
  <2>5. QED
    BY <2>3, <2>4
<1>5. CASE ReadFails
  <2>1. phase = "read" /\ phase' = "wait" /\ fails' # 0 /\ UNCHANGED <<store, flash, owner, wipe>>
    BY <1>5 DEF ReadFails, Untouched, StoreTypeOK
  <2>2. QED
    BY <1>0, <2>1 DEF Used
<1>6. CASE EraseCounter \/ WriteCounter \/ WriteCounterFails
  <2>1. /\ phase \in {"count", "wait", "zero"} /\ phase' \in {"count", "wait", "zero", "cleared", "restart"}
        /\ UNCHANGED <<store, flash, owner, wipe>>
    BY <1>6, FollowingIs DEF EraseCounter, WriteCounter, WriteCounterFails, Untouched, storeVars
  <2>2. QED
    BY <1>0, <2>1 DEF Used, Wiped
<1>7. CASE WipeList
  <2>1. /\ phase = "list" /\ phase' = "password" /\ UNCHANGED <<store, flash, counter, wipe, fails>>
        /\ owner' = [owner EXCEPT !.list = FALSE]
    BY <1>7 DEF WipeList, storeVars
  <2>2. ~owner'.list
    BY <2>1 DEF BootTypeOK
  <2>3. fails = 0 => Undone'
    BY <2>1 DEF CounterInv, Stored
  <2>4. QED
    BY <1>0, <2>1, <2>2, <2>3 DEF Used
<1>8. CASE WipePassword
  <2>1. /\ phase = "password" /\ phase' = "wifi" /\ UNCHANGED <<flash, counter, wipe, fails>>
        /\ owner' = [owner EXCEPT !.password = FALSE]
        /\ store'["reset"] = "erase" /\ ~owner.list
    BY <1>0, <1>8 DEF WipePassword
  <2>2. owner' = Nobody
    BY <2>1 DEF BootTypeOK, Nobody
  <2>3. QED
    BY <1>0, <2>1, <2>2 DEF Used, Wiped, Stored
<1>9. CASE WipeWifi
  <2>1. /\ phase = "wifi" /\ StoreStep("reset", ResetBuffers)
        /\ UNCHANGED <<phase, counter, wipe, owner, fails>>
    BY <1>9 DEF WipeWifi, Untouched, StoreStep
  <2>2. flash'.mode # "STA"
    BY <1>0, <2>1, ResetStepMode
  <2>3. QED
    BY <1>0, <2>1, <2>2 DEF Used, Wiped
<1>10. CASE WipeReturns
  <2>1. /\ phase = "wifi" /\ phase' = "zero" /\ UNCHANGED <<flash, counter, wipe, owner, fails>>
        /\ store["reset"] \in {"stored", "failed"} /\ store'["reset"] = "idle"
    BY <1>0, <1>10 DEF WipeReturns, Untouched, StoreReturns
  <2>2. fails = 0 => Wiped'
    BY <1>0, <2>1 DEF BootInv, Wiped
  <2>3. QED
    BY <1>0, <2>1, <2>2 DEF Used
<1>11. CASE BootMode
  <2>1. phase = "cleared" /\ phase' \in {"ap", "sta"} /\ wipe' = FALSE /\ store' = store
    BY <1>11 DEF BootMode, storeVars
  <2>2. QED
    BY <1>0, <2>1
<1>12. CASE Own \/ OverTcp \/ OverBle \/ BleCommit
  <2>1. Used /\ UNCHANGED <<phase, wipe>>
    BY <1>12 DEF Own, OverTcp, OverBle, BleCommit, deviceVars, Used
  <2>2. CASE FlashFails
    <3>1. UNCHANGED <<flash, owner>>
      BY <2>2 DEF FlashFails, StoreFails, deviceVars
    <3>2. store'["reset"] \in {store["reset"], "failed"}
      BY <1>0, <2>2 DEF FlashFails, StoreFails
    <3>3. QED
      BY <1>0, <2>1, <3>1, <3>2 DEF Used
  <2>3. CASE ~FlashFails
    <3>1. store'["reset"] = "idle"
      BY <1>0, <2>1, <2>3, OthersStore DEF Used
    <3>2. QED
      BY <1>0, <2>1, <3>1 DEF Used
  <2>4. QED
    BY <2>2, <2>3
<1>13. CASE FlashFails
  <2>1. /\ fails' # 0 /\ UNCHANGED <<flash, phase, wipe, owner>>
        /\ store'["reset"] \in {store["reset"], "failed"}
    BY <1>0, <1>13 DEF FlashFails, StoreFails, deviceVars, StoreTypeOK
  <2>2. QED
    BY <1>0, <2>1 DEF Used
<1>14. CASE PowerLoss \/ Reboot \/ WipeRestart
  <2>1. /\ phase' = "off" /\ UNCHANGED <<flash, owner, counter, fails, wipe>>
        /\ store'["reset"] = "idle"
    BY <1>0, <1>14 DEF PowerLoss, Reboot, WipeRestart, Volatile
  <2>2. QED
    BY <1>0, <2>1 DEF Used, Wiped, Stored
<1>15. QED
  BY <1>2, <1>3, <1>4, <1>5, <1>6, <1>7, <1>8, <1>9, <1>10, <1>11, <1>12, <1>13, <1>14
     DEF Next, StartsUp, vars, storeVars, deviceVars
-----------------------------------------------------------------------------
(* The theorems *)

LEMMA InitEstablishes == Init => DeviceInv
<1> SUFFICES ASSUME Init PROVE DeviceInv
  OBVIOUS
<1>0. "reset" \in Writers /\ "ble" \in Writers /\ Clients \subseteq Writers
  BY DEF Writers
<1>1. /\ flash = Blank /\ tcp = NoDialogue /\ reboot = FALSE /\ fails = 0
      /\ store = [w \in Writers |-> "idle"] /\ doing = [c \in Clients |-> "none"]
      /\ ble = BleBoot /\ gap = "silent" /\ trial = NoTrial
      /\ phase = "off" /\ counter = Erased /\ count = 0 /\ fresh = FALSE
      /\ owner = Nobody /\ short = 0 /\ wipe = FALSE
  BY DEF Init, StoreInit, BleInit
<1>2. \A w \in Writers : store[w] = "idle"
  BY <1>1
<1>3. StoreTypeOK
  <2>1. /\ flash \in Flashes /\ store \in [Writers -> StoreSteps]
        /\ tcp \in [step : 0 .. 3, ssid : Ssids \cup {NoValue}, pass : Passwords \cup {NoValue}]
        /\ doing \in [Clients -> {"none", "ssid", "pass"}]
    BY <1>1, BlankIs DEF NoDialogue, StoreSteps
  <2>2. QED
    BY <1>1, <2>1 DEF StoreTypeOK
<1>4. BleTypeOK
  <2>1. BleBoot \in [ssid : Ssids \cup {NoValue}, pass : Passwords \cup {NoValue}, commit : BOOLEAN]
    BY DEF BleBoot
  <2>2. NoTrial \in Trials
    BY DEF NoTrial, Trials
  <2>3. QED
    BY <1>1, <2>1, <2>2 DEF BleTypeOK
<1>5. BootTypeOK
  <2>1. Nobody \in [list : BOOLEAN, password : BOOLEAN]
    BY DEF Nobody
  <2>2. fresh \in BOOLEAN /\ wipe \in BOOLEAN
    BY <1>1
  <2>3. /\ phase \in ResetSteps \cup {"off", "ap", "sta"} /\ phase # "count"
        /\ counter \in 0 .. 4 \cup {Erased} /\ count \in 0 .. 5 /\ short \in 0 .. 5
    BY <1>1
  <2>4. QED
    BY <1>1, <2>1, <2>2, <2>3 DEF BootTypeOK
<1>6. CounterInv
  BY <1>1 DEF CounterInv, Stored
<1>7. BootInv
  BY <1>0, <1>1, <1>2 DEF BootInv
<1>8. WipeInv
  BY <1>0, <1>1, <1>2 DEF WipeInv, Used
<1>9. QED
  BY <1>3, <1>4, <1>5, <1>6, <1>7, <1>8 DEF DeviceInv

LEMMA NextPreserves == DeviceInv /\ [Next]_vars => DeviceInv'
<1> SUFFICES ASSUME DeviceInv, [Next]_vars PROVE DeviceInv'
  OBVIOUS
<1> USE DEF DeviceInv
<1>1. StoreTypeOK'
  BY StoreTypeNext
<1>2. BleTypeOK'
  BY BleTypeNext
<1>3. BootTypeOK'
  BY BootTypeNext
<1>4. CounterInv'
  BY CounterNext
<1>5. BootInv'
  BY BootNext
<1>6. WipeInv'
  BY WipeNext
<1>7. QED
  BY <1>1, <1>2, <1>3, <1>4, <1>5, <1>6

LEMMA DeviceInvHolds == Spec => []DeviceInv
  BY InitEstablishes, NextPreserves, PTL DEF Spec

\* Every variable keeps its type, over every restart: nothing that a boot,
\* pairing over TCP or pairing over BLE writes to flash or RAM is out of range.
THEOREM TypeCorrect == Spec => []TypeOK
<1>1. DeviceInv => TypeOK
  <2> SUFFICES ASSUME StoreTypeOK, BleTypeOK, BootTypeOK PROVE TypeOK
    BY DEF DeviceInv
  <2>1. /\ flash.mode \in {"AP", "STA", Erased, Garbled}
        /\ flash.ssid \in Ssids \cup {Erased, Garbled, NoValue}
        /\ flash.pass \in Passwords \cup {Erased, Garbled, NoValue}
    BY DEF StoreTypeOK, Flashes
  <2>2. store \in [Writers -> DOMAIN After \cup {"idle", "stored", "failed"}]
    BY AfterIs DEF StoreTypeOK, StoreSteps
  <2>3. trial.at \in {"none", "start", "wait", "joined", "store"}
    BY DEF BleTypeOK, Trials
  <2>4. {reboot, fresh, wipe} \subseteq BOOLEAN
    BY Zenon DEF StoreTypeOK, BootTypeOK
  <2>5. QED
    BY <2>1, <2>2, <2>3, <2>4 DEF StoreTypeOK, BleTypeOK, BootTypeOK, TypeOK
<1>2. QED
  BY <1>1, DeviceInvHolds, PTL

\* reset_handler() starts a factory reset only after four boots in a row that
\* ended within 2 s, with a fifth one running: reboots after pairing and longer
\* boots never add up to one, whatever they are interleaved with.
THEOREM ResetAfterFiveBoots == Spec => []ResetAfterFive
<1>1. DeviceInv => ResetAfterFive
  <2>1. ASSUME DeviceInv, phase = "list", fails = 0 PROVE short >= 4
    BY <2>1 DEF DeviceInv, CounterInv, BootTypeOK
  <2>2. QED
    BY <2>1 DEF ResetAfterFive
<1>2. QED
  BY <1>1, DeviceInvHolds, PTL

\* A factory reset that power losses cut off, however often and wherever, is
\* finished before the device is used: reset_handler() clears the counter last.
THEOREM ResetIsAllOrNothing == Spec => []ResetAllOrNothing
<1>1. DeviceInv => ResetAllOrNothing
  BY DEF DeviceInv, WipeInv, Wiped, ResetAllOrNothing
<1>2. QED
  BY <1>1, DeviceInvHolds, PTL
=============================================================================
