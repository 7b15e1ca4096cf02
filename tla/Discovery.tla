---------------------------- MODULE Discovery ----------------------------
(***************************************************************************)
(* How a device in station mode is found: the BLE beacon with its address  *)
(* (ble/ble_beacon.c), the discovery mode that switches it                 *)
(* (ble/discovery_mode.c), the mDNS service with its TXT record            *)
(* (mdns/mdns_discovery.c), and the station's events, which drive them     *)
(* (wifi/station_mode.c).                                                  *)
(*                                                                         *)
(* The event task, the NimBLE host task, the task of wifi_init_sta() and   *)
(* those of the TCP clients call in.  A command first changes what is      *)
(* announced, under the lock of the mode, the list or the password, and    *)
(* then announces it under the lock of beacon or responder.  A callback of *)
(* the beacon is a step; the responder's calls are cut between the two     *)
(* flags that they read.  The calls into NimBLE are taken to succeed, and  *)
(* so are those that set a TXT record.                                     *)
(***************************************************************************)
EXTENDS FiniteSets

CONSTANTS Tasks,      \* the clients' tasks that change what is announced
          Addresses,  \* addresses that the router hands out
          NoAddress

ASSUME AddressAssumption == NoAddress \notin Addresses

ASSUME TaskAssumption == "free" \notin Tasks /\ "start" \notin Tasks

VARIABLES
    servers,  \* all_sockets_init: an address was there once
    beacon,   \* host_ready, have_ip with mfg_data, advertising
    onAir,    \* the address that the controller advertises
    mode,     \* s_mode
    owner,    \* paired list not empty, password set
    mdns,     \* starting up, up or failed; who holds s_lock; "paired" as read
    txt,      \* the TXT record that is announced
    pending   \* per task: what it still has to announce

discoveryVars == <<servers, beacon, onAir, mode, owner, mdns, txt, pending>>

Modes == {"WIFI", "BLE", "BOTH"}

Owners == [list : BOOLEAN, password : BOOLEAN]

Nobody == [list |-> FALSE, password |-> FALSE]

NoBeacon == [ready |-> FALSE, ip |-> NoAddress, advertising |-> FALSE]

NobodyPending == [t \in Tasks |-> "none"]

DiscoveryInit ==
    /\ servers = FALSE /\ beacon = NoBeacon /\ onAir = NoAddress
    /\ mode \in Modes /\ owner \in Owners
    /\ mdns = [state |-> "off", lock |-> "free", paired |-> FALSE]
    /\ txt = Nobody
    /\ pending = NobodyPending
-----------------------------------------------------------------------------
(* ble_beacon.c, under its lock *)

\* stop_advertising_locked()
Stopped(b) == [b EXCEPT !.advertising = FALSE]

\* discovery_mode_should_advertise_ble()
ShouldAdvertiseBle(m) == m \in {"BLE", "BOTH"}

\* Mutant of StartAdvertising: a beacon that runs is left alone.
StartAdvertisingOnce(b) ==
    IF ~b.ready \/ b.ip = NoAddress \/ b.advertising
    THEN beacon' = b /\ UNCHANGED onAir
    ELSE /\ beacon' = [b EXCEPT !.advertising = ShouldAdvertiseBle(mode)]
         /\ onAir' = IF ShouldAdvertiseBle(mode) THEN b.ip ELSE NoAddress

\* start_advertising_locked() of beacon b: nothing without host or address;
\* otherwise a running beacon is stopped, and started again unless the mode
\* excludes it.
StartAdvertising(b) ==
    IF ~b.ready \/ b.ip = NoAddress
    THEN beacon' = b /\ UNCHANGED onAir
    ELSE /\ beacon' = [Stopped(b) EXCEPT !.advertising = ShouldAdvertiseBle(mode)]
         /\ onAir' = IF ShouldAdvertiseBle(mode) THEN b.ip ELSE NoAddress

BeaconSync ==
    /\ ~beacon.ready
    /\ StartAdvertising([beacon EXCEPT !.ready = TRUE])
    /\ UNCHANGED <<servers, mode, owner, mdns, txt, pending>>

\* The host lost the controller, which advertises no more.
BeaconReset ==
    /\ beacon.ready
    /\ beacon' = [Stopped(beacon) EXCEPT !.ready = FALSE]
    /\ onAir' = NoAddress
    /\ UNCHANGED <<servers, mode, owner, mdns, txt, pending>>

\* BLE_GAP_EVENT_ADV_COMPLETE: the controller ended the advertising.
AdvComplete ==
    /\ beacon.advertising
    /\ StartAdvertising(Stopped(beacon))
    /\ UNCHANGED <<servers, mode, owner, mdns, txt, pending>>

\* ble_beacon_on_ip()
OnIp(a) == StartAdvertising([beacon EXCEPT !.ip = a])

\* ble_beacon_on_ip_lost()
OnIpLost ==
    /\ beacon' = [Stopped(beacon) EXCEPT !.ip = NoAddress]
    /\ onAir' = IF beacon.advertising THEN NoAddress ELSE onAir
-----------------------------------------------------------------------------
(* event_handler(): a new address, or the router is gone *)

GotIp(a) ==
    /\ servers' = TRUE
    /\ OnIp(a)
    /\ UNCHANGED <<mode, owner, mdns, txt, pending>>

\* Also for every attempt to connect that fails.
Disconnected ==
    /\ OnIpLost
    /\ UNCHANGED <<servers, mode, owner, mdns, txt, pending>>
-----------------------------------------------------------------------------
(* mdns_discovery.c, under s_lock *)

\* build_txt(): "paired" is read first, "pw" after it.
ReadPaired(holder) == mdns' = [mdns EXCEPT !.lock = holder, !.paired = owner.list]

BuildTxt == [list |-> mdns.paired, password |-> owner.password]

\* mdns_discovery_start(), from wifi_init_sta() after the first address ...
MdnsStart ==
    /\ servers
    /\ mdns.state = "off" /\ mdns.lock = "free"
    /\ ReadPaired("start")
    /\ UNCHANGED <<servers, beacon, onAir, mode, owner, txt, pending>>

MdnsStarted ==
    /\ mdns.lock = "start"
    /\ txt' = BuildTxt
    /\ mdns' = [mdns EXCEPT !.state = "up", !.lock = "free"]
    /\ UNCHANGED <<servers, beacon, onAir, mode, owner, pending>>

\* Mutant of MdnsStartFails: the early return keeps the lock.
MdnsStartFailsLocked ==
    /\ mdns.lock = "start"
    /\ mdns' = [mdns EXCEPT !.state = "failed", !.lock = "kept"]
    /\ UNCHANGED <<servers, beacon, onAir, mode, owner, txt, pending>>

\* ... which may fail, and then the device has no mDNS service.
MdnsStartFails ==
    /\ mdns.lock = "start"
    /\ mdns' = [mdns EXCEPT !.state = "failed", !.lock = "free"]
    /\ UNCHANGED <<servers, beacon, onAir, mode, owner, txt, pending>>

\* Mutant of RefreshReads: a responder that is not up is noticed without the lock.
RefreshReadsUnlocked(t) ==
    /\ pending[t] = "refresh"
    /\ IF mdns.state # "up"
       THEN pending' = [pending EXCEPT ![t] = "none"] /\ UNCHANGED mdns
       ELSE /\ mdns.lock = "free"
            /\ ReadPaired(t)
            /\ UNCHANGED pending
    /\ UNCHANGED <<servers, beacon, onAir, mode, owner, txt>>

\* mdns_discovery_refresh(), which does nothing unless the responder is up ...
RefreshReads(t) ==
    /\ pending[t] = "refresh"
    /\ mdns.lock = "free"
    /\ IF mdns.state # "up"
       THEN pending' = [pending EXCEPT ![t] = "none"] /\ UNCHANGED mdns
       ELSE ReadPaired(t) /\ UNCHANGED pending
    /\ UNCHANGED <<servers, beacon, onAir, mode, owner, txt>>

\* ... and otherwise sets the TXT record.
RefreshSets(t) ==
    /\ mdns.lock = t
    /\ txt' = BuildTxt
    /\ mdns' = [mdns EXCEPT !.lock = "free"]
    /\ pending' = [pending EXCEPT ![t] = "none"]
    /\ UNCHANGED <<servers, beacon, onAir, mode, owner>>
-----------------------------------------------------------------------------
(* Commands of the clients *)

\* DISCOVERYMODE: discovery_mode_set() stores the mode ...
SetMode(t, m) ==
    /\ pending[t] = "none" /\ servers
    /\ mode' = m
    /\ pending' = [pending EXCEPT ![t] = "apply"]
    /\ UNCHANGED <<servers, beacon, onAir, owner, mdns, txt>>

\* ... and ble_beacon_apply_discovery_mode() reads it again.
ApplyMode(t) ==
    /\ pending[t] = "apply"
    /\ pending' = [pending EXCEPT ![t] = "none"]
    /\ StartAdvertising(beacon)
    /\ UNCHANGED <<servers, mode, owner, mdns, txt>>

\* paired_list_add(), paired_list_remove(), paired_list_clear(),
\* device_password_set() and device_password_clear() up to their refresh.
ChangeOwner(t, o) ==
    /\ pending[t] = "none" /\ servers
    /\ owner' = o
    /\ pending' = [pending EXCEPT ![t] = "refresh"]
    /\ UNCHANGED <<servers, beacon, onAir, mode, mdns, txt>>

Command(t) ==
    \/ \E m \in Modes : SetMode(t, m)
    \/ \E o \in Owners : ChangeOwner(t, o)
    \/ ApplyMode(t) \/ RefreshReads(t) \/ RefreshSets(t)

DiscoveryNext ==
    \/ BeaconSync \/ BeaconReset \/ AdvComplete
    \/ \E a \in Addresses : GotIp(a)
    \/ Disconnected
    \/ MdnsStart \/ MdnsStarted \/ MdnsStartFails
    \/ \E t \in Tasks : Command(t)

\* Whoever holds s_lock goes on, and everyone who waits for it gets it in turn.
DiscoveryFairness ==
    /\ WF_discoveryVars(MdnsStarted \/ MdnsStartFails)
    /\ \A t \in Tasks : WF_discoveryVars(ApplyMode(t)) /\ SF_discoveryVars(RefreshReads(t)) /\ WF_discoveryVars(RefreshSets(t))

DiscoverySpec == DiscoveryInit /\ [][DiscoveryNext]_discoveryVars /\ DiscoveryFairness
-----------------------------------------------------------------------------
(* Properties *)

DiscoveryTypeOK ==
    /\ servers \in BOOLEAN
    /\ beacon \in [ready : BOOLEAN, ip : Addresses \cup {NoAddress}, advertising : BOOLEAN]
    /\ onAir \in Addresses \cup {NoAddress}
    /\ mode \in Modes /\ owner \in Owners /\ txt \in Owners
    /\ mdns \in [state : {"off", "up", "failed"}, lock : {"free", "start"} \cup Tasks, paired : BOOLEAN]
    /\ pending \in [Tasks -> {"none", "apply", "refresh"}]

\* Whatever order host, router and commands act in: once no command is between
\* its change and its announcement, the beacon is on the air exactly when
\* host, address and mode allow it, and never with an address of before.
BeaconFollows ==
    (\A t \in Tasks : pending[t] # "apply") =>
        onAir = IF beacon.ready /\ ShouldAdvertiseBle(mode) THEN beacon.ip ELSE NoAddress

\* Likewise the TXT record says whether the device is paired and has a
\* password, although the flags are read one after the other and a command may
\* fall between them or into the start of the responder.
TxtFollows ==
    (\A t \in Tasks : pending[t] # "refresh") /\ mdns.state = "up" => txt = owner

\* A command never waits for good: every path through the responder, the one
\* on which it cannot be set up included, gives s_lock back.
CommandsReturn == \A t \in Tasks : pending[t] # "none" ~> pending[t] = "none"
=============================================================================
