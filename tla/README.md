# A TLA+ model of CyThing

CyThing is ESP32 firmware for a smart device: a TCP command server with its
own pairing and access control, Wi-Fi and BLE onboarding, an AWS IoT client
and OTA updates. It runs on FreeRTOS on two cores; every TCP client has a
task of its own and they share the paired list, the session pool, the device
password, the response FIFOs and NVS. This directory models that code in TLA+,
checks small instances with TLC and proves the main invariants with TLAPS.

Paths below are relative to the firmware's `src/src/`.

## 1. Inventory

| Part | State it keeps | Operations | Modelled in |
|---|---|---|---|
| Response FIFO (`common/response_fifo.c`) | byte buffer, length, mutex, binary semaphore | push, drain, wait | `ResponseFifo` |
| Paired list (`security/paired_list.c`) | `owner_sub`, up to 16 entries, NVS blob | find, get, add, remove, rotate, clear, load | `PairedList`, `LocalAuth` |
| Session pool (`security/local_session.c`) | 8 slots: socket, state, role, index, key, SRP handle, counters | acquire, release, drop_auth, on_paired_removed, drop_all_auth, count, shutdown_peer | `LocalSession`, `LocalAuth`, `TcpServer`, `EncFrame` |
| PAKE (`security/pake_handler.c`) | in the slot | PAKE1, PAKE3 | `LocalAuth`, `DevicePassword` |
| Enrollment, authentication (`security/local_auth.c`) | in the slot | ENROLL, AUTH1, AUTH3 | `LocalAuth`, `EncFrame` |
| Owner commands (`security/owner_commands.c`) | none | LIST, REVOKE, UNPAIR, PWSET, PWCLEAR, RESET, DISCOVERYMODE | `LocalAuth`, `Commands`, `Discovery` |
| Device password (`security/device_password.c`) | salt and verifier, per-IP table, global counter, NVS | set, clear, note_failure, note_success, lock_remaining | `DevicePassword` |
| Listener, receive tasks (`tcp_server/tcp_server.c`, `tcp_client_recv.c`) | sockets | accept, cap, create task, receive a line, teardown | `TcpServer`, `Commands` |
| Client registry, send task (`tcp_server/tcp_client_list.c`) | `account_struct_list`, its size | add, remove, route | `TcpServer`, `ResponseFifo` |
| Encrypted frames (`security/enc_frame.c`) | key and counters in the slot, a mutex for sending | unwrap, send | `EncFrame` |
| Access policy, dispatch (`security/access_policy.c`, `tcp_server/tcp_command.c`) | none | allow, dispatch | `Commands` |
| Pairing events (`security/pairing_events.c`) | queue of 8 in NVS | push, peek, pop, load | `PairingEvents` |
| Wi-Fi pairing over TCP (`tcp_server/pairing.c`) | global step, two buffers, timer | StartP, ssid, pass, FinishP, timeout, commit | `WifiStore` |
| BLE pairing (`ble/ble_pairing.c`, `wifi/wifi_trial.c`) | two buffers, commit flag, GAP state, trial bits | GATT writes, COMMIT, connect, disconnect, trial | `BlePairing` |
| Flash (`memory_handler/*.c`, `ota_lib/ota_handler.c`) | mode, SSID, password, boot counter | store, read, erase | `WifiStore`, `Device` |
| Boot and power-cycle reset (`cything.c`, `common/reset_handler.c`) | boot counter, reboot timer | count, clear, factory reset, choice of mode | `Device` |
| Station, access point (`wifi/*.c`) | `all_sockets_init` | events | `Discovery`, the mode in `Device` |
| Beacon, discovery mode, mDNS (`ble/ble_beacon.c`, `ble/discovery_mode.c`, `mdns/mdns_discovery.c`) | mode, address, what is advertised, TXT record | on_ip, on_ip_lost, apply, start, refresh | `Discovery` |
| AWS IoT client (`aws/aws_iot_handler.c`) | connection, 5 outgoing publishes | connect, subscribe, publish, PUBACK, resend | `PairingEvents`, `MqttClient` |
| coreMQTT (`coreMQTT/*.c`) | records of open exchanges, packet id, receive buffer, keep-alive times | publish, acknowledge, resume, receive | `MqttState`, `MqttClient`, `MqttReceive` |
| Provisioning (`aws/provisioning.c`) | handshake in globals, five keys in NVS | PROV, CSRREQ, DEVID, CERT, PFIN, load | `Provisioning` |
| OTA download, UDP discovery, device configuration, clock shim, backoff | – | I/O, constants | not modelled (section 6) |
| lwIP, NimBLE, ESP-IDF, mbedTLS, the broker, the phone | – | – | external: modelled from how the code uses them |

How they interact. The listener gives an accepted socket a registry entry and
a session slot and starts a receive task. The task reads lines and dispatches
them to the PAKE, authentication and owner-command handlers, which work on the
task's own slot without a lock, and on the paired list, the password and the
*other* tasks' slots under a mutex each. Replies are pushed on the response
FIFO; one send task drains it and looks the target socket up in the registry.
Pairing events are queued for the AWS task, which publishes them through
coreMQTT. A device without credentials is paired over TCP or over BLE; both
write the same flash sector and arm the same reboot timer, and the boot that
follows decides on the mode. A device in station mode announces its address and
its state by beacon and mDNS, from what the owner's commands change.

What is hard here:

- **concurrency**: each shared object has its own mutex, and a handler takes
  several of them one after the other, so it acts on indices, roles and keys
  that may be stale; the slot's owner uses no lock, but REVOKE, PWSET and RESET
  write other tasks' slots; the client registry has no lock at all;
- **failure**: NVS and flash writes fail or power goes between the update in
  RAM, the write, the sessions and the event, between erasing a sector and
  writing it, or between the keys of one identity; MQTT connections break in the
  middle of an exchange;
- **ordering**: descriptors are reused, teardown and wake-ups depend on the
  order of their steps;
- **limits**: the FIFO, the registry, the pool, the per-IP table, the MQTT
  records and the receive buffer are small, packet ids and the clock wrap.

`PROJECT.json` lists these as hazards, each at its line.

## 2. Modules

| Module | What it is |
|---|---|
| `LineChannel` | What the response path promises: a FIFO channel of lines |
| `ResponseFifo` | The FIFO with its producers and the send task; `Channel` is the refinement mapping to `LineChannel` |
| `BufferProofs` | The two buffers of bytes: the invariants of `ResponseFifo` and its refinement, and what `MqttReceive` makes of a stream, proved |
| `PairedList` | The paired list as a value, one operator per call |
| `LocalSession` | A session slot as a value, one operator per call |
| `LocalAuth` | The receive tasks running handshakes and owner commands on list, slots, password and events, step by step |
| `LocalAuthProofs` | Types, one entry per account, roles follow the owner, the owner keeps its entry, owner sessions are the owner's: proved |
| `DevicePassword` | The password in NVS and the rate limit on guesses at it |
| `DevicePasswordProofs` | The global lock, the rate limit, innocent addresses: proved |
| `TcpServer` | Listener, receive tasks, session sockets, registry, send task, and the lock of all frames |
| `LocalNetworkProofs` | Slots of tasks, the cap, the registry's size; beacon and TXT record follow the device (`Discovery`): proved |
| `PairingEvents` | The event queue in NVS and aws_iot_task, from connecting to popping |
| `PairingEventsProofs` | What an overflow costs, the order at the backend: proved |
| `MqttState` | The records of coreMQTT's open exchanges as a value, one operator per function |
| `MqttClient` | coreMQTT publishing and acknowledging over `MqttState`, the application's copies, a broker, connections that break |
| `MqttProofs` | Delivery once, in order and not lost, in both directions: proved |
| `MqttReceive` | The receive buffer, the remaining length, keep-alive |
| `WifiStore` | The credentials' flash sector and the TCP dialogue |
| `BlePairing` | The GATT service, the commit task and the trial connection; extends `WifiStore` |
| `Device` | A device from boot to boot: the counter, the factory reset, both ways of pairing, power loss; extends `BlePairing` |
| `DeviceProofs` | Five short boots, the reset all or nothing: proved |
| `Discovery` | Beacon, discovery mode, mDNS and the station's events |
| `Provisioning` | The provisioning handshake of several phones and its keys in NVS |
| `EncFrame` | One socket's session key, its frames, and the tasks that change or use it |
| `Commands` | A line from the socket to its handler; extends `EncFrame`, with a phone and a third party |
| `CommandsProofs` | No nonce and no frame twice, no line in the clear on a device with a password: proved |
| `MCLocalAuth`, `MCDevicePassword`, `MCTcpServer` | Instances for TLC |

Definitions keep the name of the C function where there is one; `map` in
`PROJECT.json` gives the lines of each. A definition that begins with a comment
"Mutant of" is a plausible bug of the definition that follows; it is used only
to see that a property notices it.

### ResponseFifo

What runs under `f->mutex` is one step. `push` gives `data_ready` in a second
step (`Give`) and `wait` checks and takes in two (`WaitCheck`, `WaitTake`),
as in the code. A line is a number; `end` and `base` are byte offsets, so that
discarding whole lines until `need` bytes are free is what `discard_oldest()`
does. `OverwriteOldest` selects the build (`RESPONSE_FIFO_ON_FULL`).

### LocalAuth

`list` is `s_list`, `pw` the password's epoch, `store` what NVS has of both,
`sess` the pool, and `h[s]` the handler the task of slot `s` is in: where it is
(`pc`) and its locals (the index it found, the key and role it read). A step
is one call that takes a mutex, or one run of statements on the task's own
slot between two such calls: `handle_revoke` is `Revoke`, `RevokeFind`,
`RevokeGet`, `RemoveEntry`, `DropSessions`, `UnpairedEvent`. A line that is
refused and changes nothing is not a step. `told` is what the backend believes
once it has seen every queued event, `handed` which K_account was sent to a
session that had proved which password, `who` in a slot the account it was
bound to; these three are history variables. Keys are tagged with what they
were derived from. Cryptography is taken at its word: a phone proves K_account
only if it was handed it, and a frame decrypts only under the key the peer has
(`Encrypted`).

### DevicePassword

`slots` is `s_ip`, `ip_slot()` is `Stops`, `Victim`, `SlotIndex`; `attempt[s]`
is a PAKE1 that was let through, whose PAKE3 may come at any later time.
Time is a counter in seconds. NVS has four keys, and a store is the set of those
that it has written (`Written`): `nvs_store_lockout()` ignores every error, so
any subset of `pw_fails` and `pw_lock` may get there; `nvs_store_pair()` stops at
the first error (`Beginnings`), and then RAM keeps the old password
(`SetFails`), while `device_password_clear()` forgets it in any case. A power cut
between two writes is a store that stops there, followed by a `Reboot`: nobody
can see what RAM holds in between. Password changes are numbered, and salt and
verifier say which one they are from. `run`, `last`, `ipRun`, `ipLast` and
`ipTotal` are history variables, the true runs of failures the counters stand
for; `unsaved` are the failures since NVS last took a whole lockout, and
`lost` those of them that a boot has forgotten.

### TcpServer

A connection goes through the phases of `pc`, first in the hands of the
listener, then of its receive task. The registry has no lock: each element
moved and the store of `account_list_size` are steps, and a read of the size
may return the value loaded before or the present one, as the build may or may
not load it again (`Sizes`). The size can fall below zero that way; the array is
modelled with the memory before it (`Below`). Descriptors are reused lowest
first, as lwIP does. A line in `queue` remembers the connection it was meant for.
A receive task may be answering instead of in `recv()`: `call[c]` says whether it
waits for `s_tx_mutex`, has it and is in send(), or sends in the clear, and
`sendCall` says the same of the send task. The mutex is one for all connections
and is held over send(), which has no timeout.

### PairingEvents

An event is its number. `pairing_events_push/peek/pop` hold the mutex and are
one step each; between `Peek` and `Pop` lies `PublishEvent` or `PublishFails`.
`task` is where aws_iot_task is: a broken connection is noticed only when
`recv()` fails (`RecvFails`), no other status ends its loop, and until then
`publishToTopic()` may still succeed. Each connection is a new, clean session,
so `handlePublishResend()` is never reached. Whatever else is published takes
one of the same slots (`PublishOther`). A send can fail although the connection
lives (`SendFails`), as the socket has a timeout: the packet arrives nevertheless,
because TLS keeps what it could not write, or does not; one that was cut in two
makes the broker close the connection, which is `LinkBreaks`. publishToTopic() then
frees its slot, but coreMQTT keeps the record it has reserved until the next
connection: `leaked` counts those, and without a free record nothing is published.
`seen`, `published`, `refused` and `used` are history variables.

### MqttState, MqttClient

The records are an array of fixed length, and the C functions are operators on
it with the same results, so that the order of the records, the compaction and
`MQTT_NO_MEMORY` are the code's. One task runs the client, so that a packet with
its acknowledgement is one step (`ReceivePublish`, `ReceiveAck`), but resuming a
session sends one packet per step, because the connection may break again. Any
send may fail (`SendResults`), on a broken connection or on one that lives, and one
on a connection that is broken, unnoticed, may seem to succeed. Here a packet whose
send fails is lost; that it may go through all the same is in `PairingEvents`, and
a packet that was cut off ends as `LinkBreaks`. `copies` is
`outgoingPublishPackets`. The firmware asks for clean sessions, publishes with
QoS 1 and frees a copy with its PUBACK (`CleanSessions = {TRUE}`, `OutQos = {1}`,
`Releases = {"PUBACK"}`); `PairingEvents` has how its slots come back. The library
supports more, and `handleSessionResumption()` and `handlePublishResend()` are there
for it: in `mqtt_client` the constants range over all of it, with an
`eventCallback()` that frees the copy of a QoS 2 publish with PUBREC, as `MqttAssumption` asks of an
application that uses QoS 2. The broker keeps a session as MQTT 3.1.1 says. With kept
sessions a record that stays reserved without a copy makes handlePublishResend()
fail on every connection; the firmware never keeps one.

### MqttReceive

A byte is `<<packet, offset>>`; what the code reads there is what that packet has
there. The radix of the remaining length is a parameter, so that lengths of
several digits occur in short packets. `recv()` returns any number of the bytes
under way. Time is modulo `TimeMod`, as the code's milliseconds are modulo 2^32.
The loops of encodeRemainingLength() and processRemainingLength() have four turns
at most and are written out (`Rest`, `Multiplier`, `Worth`), and `StreamIntact`
speaks of neighbouring bytes instead of splitting the stream, so that both can be
reasoned about; compactRecords() in `MqttState` is stated for the same reason by
where each used record goes (`UsedUpTo`).

### WifiStore, BlePairing, Device

`store[w]` is how far task `w` is in `flash_store_wifi_router_info()`: erase,
mode, SSID, password, each a step that can fail or be the last before power is
lost. Programming flash only clears bits (`Program`): a cell that is written twice
without an erase is `Garbled`, unless one of the values is empty, whose terminator
stays. An empty password is that of an open network. `pairing_step` and the
buffers are global, `doing[c]` is a client between copying its value and advancing
the step. `trial` is `wifi_trial_run()`: it tries a copy of the credentials, while
the commit stores the buffers as they are by then. Networks are those that accept
the model's passwords (`Accepted`) and those that are open (`Open`). `phase` in
`Device` goes through `reset_handler()`: `counter` is what flash has,
`ota_erase_write()` erases the sector only for the first write of a boot (`fresh`),
and a later write can only clear bits. `short` counts the boots that ended before
2 s, `wipe` says that a factory reset has begun; these are history variables. `Own`
stands for all of `LocalAuth`: somebody pairs and sets a password. The reboot timer
is a flag: `reboot_after_ms()` stops and starts it again (`reset_handler.c:31`),
which only puts the reboot off.

### Discovery

The callbacks of the beacon hold its lock and are steps. A command changes mode,
list or password and then announces it, in two steps of its task, with other
tasks in between; the mDNS calls are cut between the two flags that they read.
NimBLE's calls are taken to succeed. In the code an error of one of them makes
`ble_beacon.c` return early (113-140) and the beacon stays off the air until the next
change of address or mode, so `BeaconFollows` is about a host that does what it is
asked. The failure of setting a TXT record is not acted upon. Commands refresh the
TXT record also when their write failed (`paired_list.c:308`, `343`,
`device_password.c:191`), which tells what is in RAM.

### Provisioning

An attempt is a number: the backend issues device id, endpoint and certificate
`a` for attempt `a`, and `csr[a]` is the operational key that its request was
made with. Each phone has a receive task, but the handshake (`hs`), the buffers
(`ram`) and NVS are the device's, so that phones can mix their lines. A new key is
stored in a step after it was generated, PFIN's four keys in a step each, and each
write can fail or be the last before power is lost. A key that is in NVS may be
unreadable when `load_or_generate_keypair()` asks for it (`CsrReqMints`), which
then makes and stores another one, or at a boot. Left out: REQID, which keeps no
state, a certificate that overflows its buffer or is not base64 (it is refused),
and X.509.

### EncFrame, Commands

`EncFrame` numbers session keys in the order of derivation; whatever else the key
buffer holds is `NoKey`. LS_PAKE_OK and LS_AUTH_OK are one keyed state: both count
in `session_keyed()` (`enc_frame.c:77`) and, once bound to an entry, in
`sock_authenticated()` (`access_policy.c:45`), and no property here tells them
apart. `enc_frame_unwrap()` is cut between checking the counter, decrypting and
keeping the counter; `enc_frame_send()` at its lock and before the cipher;
`drop_auth()`, which another task runs, at each assignment. `Commands` has the
phone send one line at a time, in a frame when it has a session, and authenticate
again after an error; LIST stands for the owner commands, which answer in a frame
from the receive task, and PROV for provisioning, which answers in the clear. A
third party puts lines in the clear and frames of before on the socket. Whether a
password is set (`secured`) does not change. Assumed: a handshake, which takes two
round trips, does not fit into `drop_auth()` or into the time that a frame is
sealed in. Base64 and the texts of replies are left out.

## 3. Runs

| Run | Instance | Shows |
|---|---|---|
| `fifo_overwrite` | 2 producers, 3 bytes, lines of 1, 2 and 4, 5 pushes | `LenInv`, `NoLostWakeup`, and the fair channel of whole lines (`ImplementsChannel`) in the overwriting build; a line of 4 never fits and is refused, as the other build refuses every line that does not fit at once |
| `auth_concurrent` | 2 handlers at once, 3 accounts for a list of 2, 1 password, 1 RESET, 1 failing write, 1 power loss | `OneEntryPerAccount`, `RolesFollowOwner`, `OwnerStaysPaired` in RAM and in NVS, and `OwnerSessionsAreOwners`, under every interleaving |
| `pw_lockout` | 3 addresses, table of 2, 2 sessions, both limits 2, counters that stick at 3, 4 failures, 2 password changes, 1 failing store, 1 power cycle | `GlobalLockHolds`, `RateLimited`, `InnocentNotLocked` |
| `tcp_server` | 2 connections of one phone, cap 1, 2 slots, registry of 2, 1 reply in flight, fair tasks | `SlotOfTask`, `LiveCap`, `DownLeaves` |
| `events_queue` | queue of 2, 3 events, 1 slot and 2 records, 1 other message, 1 broken connection, 2 sends that fail on a live one, 1 failing write, 1 power loss, fair task | `LossBounded`, `OrderKept`, `EventsLeave` |
| `events_unacked` | queue of 2, 2 events, 2 slots, 1 broken connection, nothing else that fails | that `PublishedArrives` does **not** hold (section 4) |
| `mqtt_client` | 3 outgoing records, 1 incoming, 2 copies, packet ids 1 and 2, 3 messages of either QoS in either direction, 2 broken connections, any send failing, clean and kept sessions | QoS 2 is exactly that (`AtMostOnce`), first arrivals are in order (`InOrder`), what was accepted can be sent again until the broker has it (`KeptUntilReceived`), what the broker counts as received was delivered (`AckedWasDelivered`) |
| `mqtt_receive` | buffer of 6, radix 2, packets of 2 to 4 bytes of body (4 never fits), 2 packets behind the CONNACK, a clock of 4 ticks | `StreamIntact`, `RoomToReceive`, `EveryPacketHanded` |
| `device` | 1 TCP client beside BLE and the reset, an open network and one that refuses, 1 retry, 1 failing flash operation, any number of boots and power losses | `ResetAfterFive`, `ResetAllOrNothing`, `CommitConcludes` |
| `discovery` | 2 commanding tasks, 2 addresses, unbounded | `BeaconFollows`, `TxtFollows`, `CommandsReturn` |
| `prov_identity` | 1 phone, 3 attempts, 4 starts, 1 failing write, 1 unreadable key, 2 power losses | `CertFitsKey`, `FirstIdentityWhole` |
| `commands` | 2 senders, 2 session keys, 2 lines, 3 troubles (a power loss, a third party's line or a drop each) | `ClearIsRefused`, `FramesOnce`, `NoncesFresh` |

What the exceptions in the properties mean. `GlobalLockHolds` and `RateLimited`
leave out failures whose lockout NVS did not take in full before a boot (`lost`):
the code ignores those errors, and the properties show that a torn write costs no
more than that failure. `DownLeaves` excepts a connection whose task waits for
`s_tx_mutex` while another task has it for ever. `EventsLeave` excepts a connection
that stays up with all its records used up (`Clogged`). `InOrder` is about
resumptions that passed over nothing (`used.skipped`): a record moved under the
cursor (section 4) or a resend that failed on a live connection lets later messages
overtake. `LossBounded` and `OrderKept` are about NVS writes that succeed, with power
losses anywhere; `ResetAfterFive` and `ResetAllOrNothing` about flash that works
(`fails = 0`), likewise. `CertFitsKey` takes keys that can be read, and
`FirstIdentityWhole` a device that had no certificate; both take one phone at a
time. Without these exceptions the code breaks each of them, and section 4 says how.

**Bounds.** Two sessions are enough for every race of the code: a handler
interferes with another through one shared object at a time. Three accounts
are an owner, a target and a bystander behind it in the list, so that
compaction matters. Two failing writes, or more than one reset or password,
repeat the states of one. The per-IP table of two entries is smaller than the
number of addresses, limits of 2 put both thresholds in reach, and
counters stick at 3 instead of 255, within the failures of the run. In `tcp_server`
the second connection replaces the first at the cap while the first still has its
slot, reuses its descriptor or gets another one, and fills the registry; a
connection from another phone, which is refused at the cap, is left to the
theorems, which are about any number of connections, phones and slots. In
`events_queue` the queue overflows, the only slot waits for its PUBACK, and two
failing sends use up the records. In `mqtt_client` packet ids come round with three
publishes, the records have to be compacted, the incoming table is full with one
message, and a second break falls into the resumption after the first. In
`mqtt_receive` a length has up to three digits, a packet that fits fills the buffer
to the last byte, and the clock wraps within a ping. In `device` the credentials of
both ways of pairing may name either network, and passwords are empty: what a closed
network would add is credentials that are refused, which the second network stands
for. Boots, addresses and commands are unbounded in `device` and `discovery`. In
`prov_identity` an attempt is cut off, made again and followed by another over the
identity it gave. In `commands` three troubles are a drop and a replay under a second
key. Numbers of keys, pushes, failures and messages are capped because they only
grow.

`CHECK_DEADLOCK FALSE` where bounded instances stop when the bounds are used
up, and where a device nobody talks to may stop; `discovery` and `mqtt_receive`
never stop and are checked for deadlock.

**Symmetry** is used in safety runs only, over accounts and sessions and over
addresses and sessions; no definition tells them apart.

**Fairness.** FreeRTOS time-slices the application's tasks over two cores. They
share priority 5, so one that can go on does; aws_iot_task alone has priority 0
(`doc/tasks.md:68-70`), and what is assumed of it also needs the other tasks to
block from time to time, which they do as long as clients pause. In `ResponseFifo`, a
producer that has released the mutex gives the semaphore and the send task runs
when it can; `SendLine` also assumes that send() returns, which it does when the phone
reads or its connection ends (no SO_SNDTIMEO is set). In `TcpServer` that is not
assumed: a task that is in send() to a phone that is up may stay there. Tasks go on
unless they block in a call; `recv()` on a socket that is down ends, after
finitely many lines that came before (strong fairness of `RecvEnds`, as answering
them disables it); send() on such a socket returns; and a mutex that is given again
and again comes to each that waits for it (strong fairness of `TakeTx`; FreeRTOS
wakes waiters of one priority in turn). In `PairingEvents` aws_iot_task runs, asks
for events and for packets in every round of its loop (so these steps cannot be put
off for ever), a connection and a subscription succeed in the end, and a connected
broker takes and acknowledges what it is sent; a dead connection makes `recv()` fail
in the end, because TCP gives up retransmitting. In `MqttReceive` the loop runs,
`recv()` does not withhold bytes for ever (strong fairness, as every call that
returns nothing is followed by another), and a broker closes a connection that has
been silent past its keep-alive. In `Device` the commit task runs, its wait times
out, and the reboot timer fires: nobody puts it off for ever by finishing one pairing
after the other. In
`Discovery` whoever holds the responder's lock goes on, and a mutex's waiters get it
in turn. Nobody is assumed to push, connect, close or speak.

## 4. Findings

Where the code does not do what its comments and documents say. One has a run,
`events_unacked`, as an event that is lost there is lost with nothing else going
wrong. The others are properties of the modules that say "It does not hold"; TLC
refutes each within two minutes when it replaces the properties of the cfg that is
named, with the changes given and without symmetry.

| Property | Instance | What happens | Against |
|---|---|---|---|
| `PublishedArrives` (`PairingEvents`) | `events_unacked` | an event is popped before its PUBACK and lost with the connection, as the next one clears the table of publishes and starts a clean session (`aws_iot_handler.c:1065`, `1239`, `1247`) | "resent by it on reconnect", `aws_iot_handler.c:1057` |
| `ConnectedEventsLeave` (`PairingEvents`) | `events_queue` | each MQTT_Publish() that fails on a live connection keeps its record in coreMQTT; when all are kept nothing is published, and the connection stays up (`aws_iot_handler.c:901`) | "a pairing done while offline reaches the cloud on the next connect", `pairing_events.h:16` |
| `KeyedSessionHasKey` (`LocalAuth`) | `auth_concurrent` | the last assignment of AUTH3 sets LS_AUTH_OK on a slot that a REVOKE or RESET on another task has wiped since the proof: authenticated under a key of zeros (`local_auth.c:297`) | "proof verified: `key` is K_session", `local_session.h:32` |
| `RemovesItsTarget` (`LocalAuth`) | `auth_concurrent` with a list of 3, `MaxKeys = 3`, no PWSET, failing write, RESET or boot | UNPAIR has taken its index when another task shifts the list: it removes the account that is there by then (`owner_commands.c:289`); REVOKE likewise (`136`) | "Removes the CALLER's own account entry", `doc/local-auth.md:187` |
| `SessionFollowsEntry` (`LocalAuth`) | `auth_concurrent` | an AUTH3 that took its index before a removal binds the session to another account's entry, and a removal whose write fails tells no session | "Every live session of that account loses its authentication at once", `owner_commands.h:20` |
| `BackendMatchesList` (`LocalAuth`) | `auth_concurrent` | the event is queued after the list's lock is released (`local_auth.c:185`, `owner_commands.c:141`): a power loss in between loses it, and two commands on one account queue theirs in the other order | "a reboot in between loses nothing", `pairing_events.h:16-18`; "so the backend may trust it", `doc/local-auth.md:306` |
| `KeysUnderCurrentPassword` (`LocalAuth`) | `auth_concurrent` | PAKE before PWSET, ENROLL after: a key without the new password (`owner_commands.c:192`) | "must not outlive the lock", `owner_commands.c:194` |
| `RebootResumesLock` (`DevicePassword`) | `pw_lockout` | power is lost between the writes of `pw_fails` and `pw_lock`, or one fails unnoticed: no lock after the boot (`device_password.c:119`) | "so a reboot mid-lockout resumes it rather than clearing it", `device_password.c:114-115` |
| `PairBelongsTogether` (`DevicePassword`) | `pw_lockout` | a store that stops between salt and verifier leaves half of either password, and after a power cycle none is accepted (`device_password.c:104`) | "an SRP-6a salt + verifier pair", `device_password.h:12-13` |
| `IpLockHolds` (`DevicePassword`) | `pw_lockout` with 2 addresses | an address gets a second entry in front of its own and is not locked (`device_password.c:242`) | "DEVICE_PW_IP_MAX_FAILS consecutive failures lock that IP", `device_password.h:20` |
| `DownAlwaysLeaves` (`TcpServer`) | `tcp_server` | a task is in send() to a phone that does not read and has `s_tx_mutex`: the receive task of a connection that was shut down waits for it and keeps slot and descriptor (`enc_frame.c:204`, `227`) | "Their receive tasks then see the connection end and release the slot themselves", `local_session.h:82-83` |
| `ReplyToItsClient` (`TcpServer`) | `tcp_server` with cap 2 and `SafeSpec` | a queued reply goes to the next client with the descriptor (`tcp_client_list.c:189`) | "the client may have disconnected and lwIP may have reused the fd", `doc/send-buffers.md:119` |
| `RunningIsRegistered` (`TcpServer`) | `tcp_server` with cap 2 | a live client is lost from the registry (`tcp_client_list.c:66`) | "Registry of connected TCP clients", `tcp_client_list.h:6` |
| `ResendsAll` (`MqttClient`) | `mqtt_client` with `CleanSessions = {FALSE}` | MQTT_Publish() with dup set, which resends, compacts the records under the cursor, and a publish is skipped (`core_mqtt_state.c:538`) | "Calling this function repeatedly until packet id is 0 will give all the packets", `core_mqtt_state.h:221` |
| `TimeoutMeansSilence` (`MqttReceive`) | `mqtt_receive` with a buffer of 7 | the keep-alive is overdue although the PINGRESP is in the buffer, behind another packet (`core_mqtt.c:1707`) | "if the server has not sent a PINGRESP before MQTT_PINGRESP_TIMEOUT_MS", `core_mqtt.h:749` |
| `StationHasCredentials` (`Device`) | `device` | the mode is the first thing written after the erase: cut off there, the device comes up as a station without credentials (`flash_wifi_info_handler.c:29`) | "`wifi_init_sta` with the stored SSID/password", `doc/pairing.md:25` |
| `StoredIsReadable` (`Device`) | `device` | FinishP over TCP and a commit over BLE erase and program one sector at the same time, and both are told that all went well (`flash_wifi_info_handler.c:22`) | "stored — credentials in flash", `doc/ble-pairing.md:85` |
| `StoredWasTried` (`BlePairing`) | `device` | credentials that are written over GATT during the trial are stored instead of those that were tried (`ble_pairing.c:177`) | "Try the credentials first (APSTA), then store + reboot only on success", `ble_pairing.c:155-157` |
| `StillPairable` (`BlePairing`) | `device` | the phone disconnects during a trial that then fails: advertising never starts again (`ble_pairing.c:351`) | "still pairable; the app may retry", `ble_pairing.c:166` |
| `ActiveIsValid` (`Provisioning`) | `prov_identity`; with 2 phones and nothing that fails; with no failing write or power loss | PFIN that is cut off while it replaces an identity leaves parts of two (`provisioning.c:508`); a second phone's PROV changes the endpoint that the first one's PFIN stores (`399`); a key that cannot be read once is replaced under its certificate (`239`) | "the g_prov_* identity above is valid", `provisioning.h:44-45` |

More was met while modelling:

- RESET or REVOKE frees the SRP handle of a slot whose own task may be inside
  `esp_srp_exchange_proofs()` with it (`At(s, "exchange")` with `sess[s].srp`
  false is reachable);
- an old owner's REVOKE that passed its checks before a RESET may remove the
  entry of the owner that came after it, which is why `OwnerStaysPaired` speaks
  of the time until a RESET;
- `response_fifo_wait()` may return true on an empty FIFO, because the
  semaphore outlives the lines it announced; the send task drains nothing and
  waits again;
- a push into the full event queue between peek and pop makes pop take an event
  that was not published; `LossBounded` shows that no more is lost than by the
  overflow itself;
- FinishP is acknowledged although storing failed (`pairing.c:146`), and so is PFIN
  (`provisioning.c:513`); PFIN after DEVID without CERT takes the certificate
  that is in RAM, and CERT replaces that one while aws_iot_task may connect with
  it (`provisioning.c:465`, `486`);
- two CSRREQs at once generate keys in one global buffer, and what is stored may be
  the other task's key or a mixture of the two (`provisioning.c:233`);
- `enc_frame_send()` checks the session under a lock that `drop_auth()` does not
  take (`enc_frame.c:207`): a frame may be sealed under the key that has just
  been wiped; `NoncesFresh` and `FramesOnce` show that no session key suffers;
- lastPacketRxTime is never written (`core_mqtt.c:1359`), so the idle time of the
  receiving side is counted from the boot;
- what remains of a line that is too long is dispatched as a line of its own
  (`tcp_client_recv.c`), where the comment says "resync on the next '\n'".

## 5. Proofs

All theorems hold for every value of the constants that the named assumptions
allow, and rest on safety only: where a specification states fairness it is not
used (where there is a `SafeSpec` without it, the theorem is about that). For each
component one inductive invariant is shown to hold initially and to survive every
action, and the theorems follow from it. Every one of these invariants was first
checked by TLC on the instance of the component's run.

### What is proved, and why the invariant is what it is

- `BufferProofs`, outgoing: `BufferInv` (types, `LenInv`, `LayoutInv` and where an
  empty buffer begins) is inductive. `LenInv` alone is not: discarding the
  first lines keeps it only if the ends are increasing and bounded by
  `base + len` (`LayoutInv`). From it and `NoLostWakeup /\ StagingInv`, whose
  inductive step is independent of the layout, follows `Refinement`: each step
  maps to a step of `LineChannel` or a stutter. Its liveness is left to TLC.
- `LocalAuthProofs`, the list: `Inv` is `TypeOK`, both lists `Good` (unique
  accounts, roles that match the owner), and that a handler about to add has an
  account. `RolesFollowOwner` alone is not inductive, as looking an account
  up is only the right thing in a list without duplicates. Lemmas say what `Add`,
  `Remove`, `RotateOwnerKey` and `Stored` preserve.
- `LocalAuthProofs`, ownership: `OwnerStaysPaired`, until a RESET. The invariant
  needs to know, for every handler on its way to a removal, why the index it
  holds is not the owner's: `Harmless(r, q)` says so per step, for slot
  `r` and handler `q`. REVOKE compares with the caller's own index, which is the
  owner's, entry 1; UNPAIR has read a role that is not owner; PWSET looks at
  the role in the same step. Without RESET the owner's entry is entry 1 and
  no removal moves it, so a stale index other than 1 stays harmless. That RESETs
  are counted (`ResetsCounted`) lets the invariant be one about every behaviour.
- `LocalAuthProofs`, the owner's rights: `OwnerSessionsAreOwners`, until a RESET. A role
  is read from the list through an index that was looked up in an earlier critical
  section, so the invariant has to say what a late index can mean. `FirstInv` adds to
  `OwnerInv`, for slot and handler alike (`Firsts`): index 1, once it has been looked up
  for an account, stands for the owner's account however late it is used, because
  the owner's entry never moves and no other account is found at, or shifted
  to, the head of the list. Any other index may be stale; it gives no owner's rights.
- `DevicePasswordProofs`: `GlobalLockHolds` relates a lock in RAM to the true run
  of failures, a history variable, less those that a boot has forgotten (`Counted`).
  `CountInv` ties it to the counter that sticks at 255 and to its copy in NVS, which
  may be behind by the failures since NVS last took a whole lockout (`unsaved`), as
  `pw_fails` and `pw_lock` are two writes that may fail or be cut off; `LockInv` makes
  both locks, the one in force and the one a boot will set, as long as these
  counters call for. What NVS says only matters while a boot would load the
  password that is in force (`Persisted`); `PairInv` tells the passwords apart.
  `RateLimited` is not inductive because PAKE1 asks for the lock and PAKE3 counts
  the failure later: `RateInv` counts attempts that are under way together with
  failures, so that a failing proof moves from one to the other, and bounds
  what was let in by the time of the last failure, as only a lock that is over lets
  a new attempt in. `TableInv` is what survives ip_slot() handing an entry on.
- `LocalNetworkProofs`, the TCP server: a descriptor belongs to one connection while it is open
  (`FdInv`) and a slot is held exactly from acquire to release (`PoolInv`), whence
  `SlotOfTask`. `LiveCap` is the one with an idea: the listener compares the number
  of slots in use with the cap, but lets a newcomer in that replaces its peer's
  connections, although these keep their slots for a while, so that more
  than `TCP_CLIENT_MAX` slots can be in use. `CapInv` says that there is always a
  set of at most `TCP_CLIENT_MAX` connections that contains all that are up and,
  for everyone who holds a slot, one of the same peer; a newcomer that displaces
  somebody takes the place of one in this set. `SizeInv` bounds what the
  unlocked updates of `account_list_size` can lose: the listener alone adds, and
  a connection subtracts once. `CallInv` is the type of who waits for the frames' lock.
- `PairingEventsProofs`: without failed NVS writes the queue is the events
  `Dropped + 1 .. used.events`, in RAM and in NVS (`QueueInv`). `LossBounded` is
  not inductive because a push that overflows between peek and pop makes pop take an
  event nobody published: `LossInv` says that in such a state one overflow is
  still unpaid for. `OrderKept` needs where the next publish can be relative to
  what the wire and the backend have (`SeenBound`, `WireBound`, which only
  move up but for a power loss); that an event is repeated at most once per
  power loss or send that failed on a live connection (`Excuses`) needs which events
  can still come again (`RepeatInv`).
- `MqttProofs`: `MqttInv` is about both ends and what is between them. Of every
  exchange one packet at most is under way (`OneUnderWay`), and its type says
  in which state both ends are (`OutPackets`, `InPackets`); without one, records,
  copies and the broker's session agree as `CopyInv`, `RelInv` and `InRecords` say.
  The latter is what is left when a connection breaks, so it is also what a resumed
  session starts from, and `ResumeInv` says that nothing which is still to be resent
  is under way already. `AtMostOnce` is an equation of a history variable and says
  nothing about the next step; what makes it inductive is that the broker remembers
  a QoS 2 packet id exactly as long as its PUBLISH may come again, and that the
  client has a record for each delivered QoS 2 message that the broker may send again,
  also when the incoming records are full. `KeptUntilReceived` follows from
  `CopyInv`. `InOrder` needs that the records are in the order of the
  publishes (`RecordsInOrder`), which holds because addRecord() takes the place behind
  the last used record and compactRecords() moves none past another, and that a
  message the broker misses is under way with or before every later one
  (`ArrivalInv`). The latter is lost when a resumption skips a record, so `InOrder`
  and the invariant claim it for `used.skipped = {}`; `RecordsInOrder` holds always.
  An array of records appears in the proofs as the set of its used entries
  (`Contents`), and lemmas say what the operators of `MqttState` do to that set.
- `BufferProofs`, incoming: `ReceiveInv` says that `Stream`, the buffer followed by what
  is under way, is whole packets in turn while the connection is up (`Intact`), that
  the CONNACK is its first packet and handled before all others (`ConnackInv`), and that
  there is room to receive (`LoopInv`). `StreamIntact` speaks of neighbouring bytes,
  so that a stream begins with all bytes of its first packet (`HeadPacket`) needs an
  induction: it is done with the least byte that would be out of place. `CodeIs` says
  that encodeRemainingLength() makes one to four digits, as many as
  remainingLengthEncodedSize() says, which add up to the length again; `ParseIs`, that
  MQTT_ProcessIncomingPacketTypeAndLength() therefore finds in any beginning of the
  stream the size of its first packet or that bytes are missing, never
  `MQTTBadResponse`. `HeadLeaves` and `PacketJoins` are what taking a packet off the
  stream and adding one keep. `RoomToReceive` then holds because a buffer of more than five
  bytes has either not yet the header of its first packet, or knows its size: if that
  exceeds the buffer it is thrown away, otherwise the bytes that are missing have room.
- `DeviceProofs`: `CounterInv` bounds the boot counter in flash by the short boots,
  one more while a boot waits for its two seconds. `WipeInv` says that a reset that
  was begun and is not done still has the counter that begins it again, which is
  why clearing the counter last makes it all or nothing; `BootInv`, that nobody but
  the reset stores while the device boots.
- `LocalNetworkProofs`, discovery: `BeaconInv` has the agreement of beacon, controller and mode at
  every moment, not only between commands. `TxtInv` says what the holder of `s_lock`
  has read: its copy of "paired" is old only while some other task's refresh is
  still to come.
- `CommandsProofs`: `LinkInv` and `FrameInv` hold because `drop_auth()` wipes the key
  before the counters: counters that are reset never meet a key that was used,
  also when enc_frame_send() is past its check. `ClearInv` says that rx_encrypted, while a
  line is on its way to the policy, is about that line and no earlier one.

The type invariant of each component is proved as well; that queue, table, counter,
registry and buffer stay within their arrays is part of it, and so is that the
status of the receiving end is never `MQTTBadResponse`.

### Assumptions on the constants

Bounds of the models (`MaxPushes`, `MaxFails` ...) are natural numbers and
otherwise arbitrary, so they limit no theorem. Capacities and limits are at least
one, sets of tasks and sessions are finite where something is counted, and values
that stand for "none" are not values. Only these say more:

- `PasswordAssumption`: the global limit is between 1 and 255, as its counter is a
  `uint8_t` (`device_password.h` has 20);
- `SaturationAssumption`: by the time the counter sticks the lock has reached its
  cap. With the code's values it does after a few doublings; otherwise the run
  of failures would call for more than the stored counter can say, and
  `GlobalLockHolds` would be false;
- `WriterAssumption`, `TaskAssumption`, `SenderAssumption`: client tasks are not the BLE
  task, the reset or nobody, and the receive task is one of the senders;
- `MqttAssumption`: an application that publishes with QoS 2 frees its copies with
  PUBREC; the firmware, which does not, publishes with QoS 1 only;
- `NetworkAssumption`: the networks that accept and those that are open are networks;
- `ReceiveAssumption`: the buffer has more than five bytes, the longest fixed header,
  lengths are such as four digits of the radix can say (MQTT allows no other), and
  timeouts are shorter than the clock's period;
- `ValueAssumption`: no SSID or password reads like erased flash.

### What stays with TLC

- Liveness: `ImplementsChannel` beyond its safety part, `DownLeaves`, `EventsLeave`,
  `EveryPacketHanded`, `CommitConcludes`, `CommandsReturn`.
- `CertFitsKey` and `FirstIdentityWhole`: `Provisioning` has no theorems. They hold for one
  phone only, whose place in its script would have to be part of the invariant.
- The violated property, `PublishedArrives`, with the run that shows it, and those of
  section 4 that have none.

Every other invariant that a passing run checks is proved.

Induction over data is out of the provers' reach as a rule, since the library's
induction theorems take an operator as a parameter. Where it is needed all the same
it is done with the least number for which the claim fails, which `WFMin` gives:
for `LockSeconds` (`Doubled` is a number, not below the base, and grows) and for
the first packet of a stream. compactRecords() needs none, as it is stated by
counting the used records up to a place.

## 6. Not modelled

- the OTA download (`ota_lib/http_ota_handler.c`, `flash_boot_handler.c`): a straight
  line of calls into esp_https_ota and esp_partition. What it keeps is one URL
  buffer, which a second OTA command overwrites while the first task reads it;
- UDP discovery answers a fixed request; device configuration, the clock shim
  and backoffAlgorithm are constants and pure functions without a property here;
- the byte-wise framing of lines, base64, JSON, REQID and the texts of replies;
- topic matching, SUBSCRIBE and UNSUBSCRIBE packets, what a command from the
  broker does;
- TLS, SRP, AES-GCM, X.509 and HMAC: taken at their word;
- the migration of old paired lists at boot;
- the Wi-Fi driver's reconnecting, and NimBLE's failures (section 2, Discovery).

## 7. Plan

All components with behaviour of their own are modelled, and the safety
invariants of all runs but `prov_identity` are proved. Were the project to grow,
these would come next:

1. `FirstIdentityWhole` and `CertFitsKey` proved for one phone.
2. `MqttClient` and `MqttReceive` as one: the packets that the one hands over are
   those that the other handles one by one.
3. The byte-wise framing of lines in `tcp_client_recv.c`, along the lines of
   `MqttReceive`.
4. NimBLE calls that fail, and when the beacon is tried again.
