---------------------------- MODULE DevicePassword ----------------------------
(***************************************************************************)
(* The rate limit on guesses at the device password                        *)
(* (security/device_password.c) under the PAKE attempts of the connected   *)
(* phones: a counter per source IP in a small table in RAM, and a global   *)
(* one that NVS keeps over power cycles.  NVS has four keys, written one   *)
(* after the other: any write can fail, and a power cut between two writes *)
(* is a write that fails and a Reboot.                                     *)
(*                                                                         *)
(* PAKE1 asks for the lock, and the proof that PAKE3 judges may come in    *)
(* when other attempts have failed in between.  Time is in seconds; 0 in   *)
(* until is a time long past.                                              *)
(***************************************************************************)
EXTENDS Integers, FiniteSets, FiniteSetsExt

CONSTANTS Ips,                         \* source addresses
          NoIp,                        \* 0.0.0.0: a free entry of s_ip
          Sessions,                    \* connections that may run PAKE
          IP_SLOTS,                    \* entries of s_ip
          DEVICE_PW_IP_MAX_FAILS,
          DEVICE_PW_GLOBAL_MAX_FAILS,
          DEVICE_PW_LOCK_BASE_S,
          DEVICE_PW_LOCK_MAX_S,
          UINT8_MAX,                   \* where the counters stick
          MaxTime,                     \* bound: seconds
          MaxFailures,                 \* bound: proofs that fail
          MaxSets,                     \* bound: passwords set or cleared
          MaxBoots,                    \* bound: power cycles
          MaxErrors                    \* bound: stores that fail or are cut off

ASSUME PasswordAssumption ==
    /\ NoIp \notin Ips
    /\ IsFiniteSet(Sessions)
    /\ IP_SLOTS \in Nat \ {0}
    /\ DEVICE_PW_IP_MAX_FAILS \in Nat \ {0}
    /\ DEVICE_PW_GLOBAL_MAX_FAILS \in 1..UINT8_MAX
    /\ DEVICE_PW_LOCK_BASE_S \in Nat \ {0}
    /\ DEVICE_PW_LOCK_MAX_S \in Nat /\ DEVICE_PW_LOCK_MAX_S >= DEVICE_PW_LOCK_BASE_S
    /\ UINT8_MAX \in Nat
    /\ MaxTime \in Nat /\ MaxFailures \in Nat /\ MaxSets \in Nat
    /\ MaxBoots \in Nat /\ MaxErrors \in Nat

VARIABLES
    pw,       \* s_salt and s_verifier: the change of password each is from, 0 for none
    slots,    \* s_ip
    gfails,   \* s_global_fails
    guntil,   \* s_global_until_us
    nvs,      \* pw_salt, pw_ver, pw_fails, pw_lock
    attempt,  \* per session: the address a PAKE1 was answered for, until its proof
    now,      \* the clock
    run,      \* history: failures since the last success or password change, ...
    last,     \* ... when the latest of them was noted,
    ipRun,    \* ... the same per address,
    ipLast,
    ipTotal,  \* ... per address since the last password change or boot,
    unsaved,  \* ... those of run since NVS last took a whole lockout,
    lost,     \* ... and those of run that a boot has forgotten
    used      \* how much of the bounds is used

vars == <<pw, slots, gfails, guntil, nvs, attempt, now, run, last, ipRun, ipLast, ipTotal, unsaved, lost, used>>

FreeSlot == [ip |-> NoIp, fails |-> 0, until |-> 0]

Zero == [ip \in Ips |-> 0]

NoPassword == [salt |-> 0, ver |-> 0]

\* device_password_is_set()
IsSet == pw.salt # 0 /\ pw.ver # 0

Keys == {"salt", "ver", "fails", "lock"}

\* NVS after the keys in written took their new values.
Written(written, new) ==
    [salt  |-> IF "salt" \in written THEN new.salt ELSE nvs.salt,
     ver   |-> IF "ver" \in written THEN new.ver ELSE nvs.ver,
     fails |-> IF "fails" \in written THEN new.fails ELSE nvs.fails,
     lock  |-> IF "lock" \in written THEN new.lock ELSE nvs.lock]

\* lock_seconds(): base, twice, four times ... up to the cap.
Doubled[n \in Nat] ==
    IF n = 0 THEN DEVICE_PW_LOCK_BASE_S
    ELSE IF Doubled[n - 1] < DEVICE_PW_LOCK_MAX_S THEN 2 * Doubled[n - 1]
    ELSE Doubled[n - 1]

LockSeconds(fails, threshold) ==
    IF fails < threshold THEN 0
    ELSE Min({Doubled[fails - threshold], DEVICE_PW_LOCK_MAX_S})

\* The counters stick when the lock has long reached its cap.
ASSUME SaturationAssumption ==
    Doubled[UINT8_MAX - DEVICE_PW_GLOBAL_MAX_FAILS] >= DEVICE_PW_LOCK_MAX_S

\* remaining_s()
Remaining(until) == Max({0, until - now})

Increment(fails) == IF fails < UINT8_MAX THEN fails + 1 ELSE fails

\* ip_slot(): the scan stops at the address or at a free entry, whichever
\* comes first; past the end it has kept the entry whose lock ends first.
Stops(ip) == {i \in 1..IP_SLOTS : slots[i].ip \in {ip, NoIp}}

Victim ==
    CHOOSE i \in 1..IP_SLOTS :
        /\ \A j \in 1..IP_SLOTS : slots[i].until <= slots[j].until
        /\ \A j \in 1..(i - 1) : slots[j].until > slots[i].until

SlotIndex(ip) == IF Stops(ip) = {} THEN Victim ELSE Min(Stops(ip))

\* Mutant of SlotFails: an entry taken over keeps its count.
SlotFailsInherited(ip) == slots[SlotIndex(ip)].fails

\* The failures the entry has counted for the address: it is cleared unless
\* it was the address's already.
SlotFails(ip) == IF slots[SlotIndex(ip)].ip = ip THEN slots[SlotIndex(ip)].fails ELSE 0

SlotUntil(ip) == IF slots[SlotIndex(ip)].ip = ip THEN slots[SlotIndex(ip)].until ELSE 0

Held(ip) == {i \in 1..IP_SLOTS : slots[i].ip = ip}

\* device_password_lock_remaining_s()
LockRemaining(ip) ==
    IF ~IsSet THEN 0
    ELSE Max({Remaining(guntil), IF Held(ip) = {} THEN 0 ELSE Remaining(slots[Min(Held(ip))].until)})

Charge(counter) == used' = [used EXCEPT ![counter] = @ + 1]
-----------------------------------------------------------------------------
Init ==
    /\ pw = NoPassword
    /\ slots = [i \in 1..IP_SLOTS |-> FreeSlot]
    /\ gfails = 0
    /\ guntil = 0
    /\ nvs = [salt |-> 0, ver |-> 0, fails |-> 0, lock |-> 0]
    /\ attempt = [s \in Sessions |-> NoIp]
    /\ now = 0
    /\ run = 0
    /\ last = 0
    /\ ipRun = Zero
    /\ ipLast = Zero
    /\ ipTotal = Zero
    /\ unsaved = 0
    /\ lost = 0
    /\ used = [failures |-> 0, sets |-> 0, boots |-> 0, errors |-> 0]

\* Mutant of Pake1: the lock is not asked for.
Pake1Unchecked(s, ip) ==
    /\ attempt[s] = NoIp
    /\ attempt' = [attempt EXCEPT ![s] = ip]
    /\ UNCHANGED <<pw, slots, gfails, guntil, nvs, now, run, last, ipRun, ipLast, ipTotal, unsaved, lost, used>>

\* PAKE1 that is not refused with LOCKED.
Pake1(s, ip) ==
    /\ attempt[s] = NoIp
    /\ LockRemaining(ip) = 0
    /\ attempt' = [attempt EXCEPT ![s] = ip]
    /\ UNCHANGED <<pw, slots, gfails, guntil, nvs, now, run, last, ipRun, ipLast, ipTotal, unsaved, lost, used>>

\* The attempt ends without a verdict: a malformed PAKE3, another handshake or
\* a disconnect.  No strike.
Abandon(s) ==
    /\ attempt[s] # NoIp
    /\ attempt' = [attempt EXCEPT ![s] = NoIp]
    /\ UNCHANGED <<pw, slots, gfails, guntil, nvs, now, run, last, ipRun, ipLast, ipTotal, unsaved, lost, used>>

\* A store takes all of its keys, or is charged as one that does not.
Complete(whole) == whole \/ used.errors < MaxErrors

\* nvs_store_lockout(), for the counters as they are after the step: two writes
\* whose errors nobody looks at.
StoreLockout(written) ==
    /\ Complete(written = {"fails", "lock"})
    /\ nvs' = Written(written, [nvs EXCEPT !.fails = gfails', !.lock = Max({0, guntil' - now})])

\* History: one more failure of ip.
RecordFailure(ip, written) ==
    /\ run' = run + 1
    /\ last' = now
    /\ ipRun' = [ipRun EXCEPT ![ip] = @ + 1]
    /\ ipLast' = [ipLast EXCEPT ![ip] = now]
    /\ ipTotal' = [ipTotal EXCEPT ![ip] = @ + 1]
    /\ unsaved' = IF written = {"fails", "lock"} THEN 0 ELSE unsaved + 1
    /\ used' = [used EXCEPT !.failures = @ + 1,
                            !.errors = IF written = {"fails", "lock"} THEN @ ELSE @ + 1]

\* device_password_note_failure() in RAM.
Strike(s) ==
    LET ip == attempt[s]
        f  == Increment(SlotFails(ip))
        ls == LockSeconds(f, DEVICE_PW_IP_MAX_FAILS)
        gs == LockSeconds(Increment(gfails), DEVICE_PW_GLOBAL_MAX_FAILS)
    IN  /\ ip # NoIp
        /\ IsSet
        /\ used.failures < MaxFailures
        /\ slots' = [slots EXCEPT ![SlotIndex(ip)] =
                        [ip |-> ip, fails |-> f, until |-> IF ls > 0 THEN now + ls ELSE SlotUntil(ip)]]
        /\ gfails' = Increment(gfails)
        /\ guntil' = IF gs > 0 THEN now + gs ELSE guntil
        /\ attempt' = [attempt EXCEPT ![s] = NoIp]

\* Mutant of NoteFailure: the lock is not persisted with the counter.
NoteFailureHalf(s, written) ==
    /\ Strike(s)
    /\ Complete(written = {"fails", "lock"})
    /\ nvs' = Written(written \ {"lock"}, [nvs EXCEPT !.fails = gfails'])
    /\ RecordFailure(attempt[s], written)
    /\ UNCHANGED <<pw, now, lost>>

\* PAKE3 with a wrong proof while a password is set: device_password_note_failure().
NoteFailure(s, written) ==
    /\ Strike(s)
    /\ StoreLockout(written)
    /\ RecordFailure(attempt[s], written)
    /\ UNCHANGED <<pw, now, lost>>

\* ... and while none is set: a wrong guess at the public password is no strike.
FailureIgnored(s) ==
    /\ attempt[s] # NoIp
    /\ ~IsSet
    /\ attempt' = [attempt EXCEPT ![s] = NoIp]
    /\ UNCHANGED <<pw, slots, gfails, guntil, nvs, now, run, last, ipRun, ipLast, ipTotal, unsaved, lost, used>>

\* History: nothing has been guessed at the password of now.
FreshRun == run' = 0 /\ unsaved' = 0 /\ lost' = 0

\* PAKE3 with a good proof: device_password_note_success(), which frees the
\* first entry of the address.  A salt and a verifier of two passwords admit none.
NoteSuccess(s, written) ==
    LET ip == attempt[s]
    IN  /\ ip # NoIp
        /\ pw.salt = pw.ver
        /\ slots' = [i \in 1..IP_SLOTS |->
                        IF Held(ip) # {} /\ i = Min(Held(ip)) THEN FreeSlot ELSE slots[i]]
        /\ gfails' = 0
        /\ guntil' = 0
        /\ IF gfails # 0 \/ guntil # 0
           THEN StoreLockout(written)
           ELSE written = {"fails", "lock"} /\ UNCHANGED nvs
        /\ attempt' = [attempt EXCEPT ![s] = NoIp]
        /\ FreshRun
        /\ ipRun' = [ipRun EXCEPT ![ip] = 0]
        /\ used' = [used EXCEPT !.errors = IF written = {"fails", "lock"} THEN @ ELSE @ + 1]
        /\ UNCHANGED <<pw, now, last, ipLast, ipTotal>>

\* Counters after a password change.
Forget ==
    /\ slots' = [i \in 1..IP_SLOTS |-> FreeSlot]
    /\ gfails' = 0
    /\ guntil' = 0
    /\ FreshRun
    /\ ipRun' = Zero
    /\ ipTotal' = Zero

\* device_password_set(): the four keys and the commit, then RAM.
Set ==
    LET new == used.sets + 1
    IN  /\ used.sets < MaxSets
        /\ nvs' = [salt |-> new, ver |-> new, fails |-> 0, lock |-> 0]
        /\ pw' = [salt |-> new, ver |-> new]
        /\ Forget
        /\ Charge("sets")
        /\ UNCHANGED <<attempt, now, last, ipLast>>

\* The keys that are written when nvs_store_pair() stops at an error.
Beginnings == {{}, {"salt"}, {"salt", "ver"}, {"salt", "ver", "fails"}, Keys}

\* ... which returns the error: RAM keeps the old password.
SetFails(written) ==
    LET new == used.sets + 1
    IN  /\ used.sets < MaxSets
        /\ used.errors < MaxErrors
        /\ nvs' = Written(written, [salt |-> new, ver |-> new, fails |-> 0, lock |-> 0])
        /\ used' = [used EXCEPT !.sets = @ + 1, !.errors = @ + 1]
        /\ UNCHANGED <<pw, slots, gfails, guntil, attempt, now, run, last, ipRun, ipLast, ipTotal,
                       unsaved, lost>>

\* device_password_clear(): errors of the two erasures are ignored, an error of
\* pw_fails stops it, and RAM follows whether or not NVS does.
Clear(written) ==
    /\ used.sets < MaxSets
    /\ Complete(written = Keys)
    /\ "lock" \in written => "fails" \in written
    /\ nvs' = Written(written, [salt |-> 0, ver |-> 0, fails |-> 0, lock |-> 0])
    /\ pw' = NoPassword
    /\ Forget
    /\ used' = [used EXCEPT !.sets = @ + 1, !.errors = IF written = Keys THEN @ ELSE @ + 1]
    /\ UNCHANGED <<attempt, now, last, ipLast>>

Tick ==
    /\ now < MaxTime
    /\ now' = now + 1
    /\ UNCHANGED <<pw, slots, gfails, guntil, nvs, attempt, run, last, ipRun, ipLast, ipTotal, unsaved, lost, used>>

\* nvs_load(): a salt without a verifier is no password, nor the other way round.
LoadedPassword ==
    IF nvs.salt # 0 /\ nvs.ver # 0 THEN [salt |-> nvs.salt, ver |-> nvs.ver] ELSE NoPassword

\* Power cycle, device_password_init() and nvs_load(): the lock runs again for
\* what it had left when it was written.
Reboot ==
    /\ used.boots < MaxBoots
    /\ pw' = LoadedPassword
    /\ slots' = [i \in 1..IP_SLOTS |-> FreeSlot]
    /\ gfails' = nvs.fails
    /\ guntil' = IF nvs.lock > 0 THEN now + nvs.lock ELSE 0
    /\ attempt' = [s \in Sessions |-> NoIp]
    /\ \/ pw' # pw /\ FreshRun
       \/ pw' = pw /\ lost' = lost + unsaved /\ unsaved' = 0 /\ UNCHANGED run
    /\ ipRun' = Zero
    /\ ipTotal' = Zero
    /\ Charge("boots")
    /\ UNCHANGED <<nvs, now, last, ipLast>>

Next ==
    \/ \E s \in Sessions, ip \in Ips : Pake1(s, ip)
    \/ \E s \in Sessions : Abandon(s) \/ FailureIgnored(s)
    \/ \E s \in Sessions, written \in SUBSET {"fails", "lock"} :
          NoteFailure(s, written) \/ NoteSuccess(s, written)
    \/ Set \/ \E written \in Beginnings : SetFails(written)
    \/ \E written \in SUBSET Keys : Clear(written)
    \/ Tick \/ Reboot

Spec == Init /\ [][Next]_vars
-----------------------------------------------------------------------------
(* Properties *)

\* The table, the counters and the clock have their types.
TypeOK ==
    /\ pw \in [salt : Nat, ver : Nat]
    /\ slots \in [1..IP_SLOTS -> [ip : Ips \cup {NoIp}, fails : 0..UINT8_MAX, until : Nat]]
    /\ gfails \in 0..UINT8_MAX
    /\ guntil \in Nat
    /\ nvs \in [salt : Nat, ver : Nat, fails : 0..UINT8_MAX, lock : Nat]
    /\ attempt \in [Sessions -> Ips \cup {NoIp}]
    /\ now \in Nat /\ run \in Nat /\ last \in Nat
    /\ ipRun \in [Ips -> Nat] /\ ipLast \in [Ips -> Nat] /\ ipTotal \in [Ips -> Nat]
    /\ unsaved \in Nat /\ lost \in Nat
    /\ used \in [failures : Nat, sets : Nat, boots : Nat, errors : Nat]

\* The failures that the device has to answer for: all but those whose lockout
\* NVS did not take in full and that a boot has then forgotten.  Errors that no
\* boot follows cost nothing, nor does one that a later failure makes good.
Counted == run - lost

\* "DEVICE_PW_GLOBAL_MAX_FAILS consecutive failures from any mix of IPs lock
\* the device the same way.  Persisted, so a power cycle does not reset it":
\* the lock that these failures call for is in force for everyone, whichever
\* writes of NVS fail or are cut off.
GlobalLockHolds ==
    (IsSet /\ now < last + LockSeconds(Counted, DEVICE_PW_GLOBAL_MAX_FAILS)) =>
        \A ip \in Ips : LockRemaining(ip) > 0

\* What the lock is for: proofs that were under way when it closed may still
\* fail, but each further round of guesses costs at least the base lock, and a
\* lockout that NVS did not take in full costs one guess.
RateLimited ==
    run <= DEVICE_PW_GLOBAL_MAX_FAILS - 1 + lost
             + Cardinality(Sessions) * (1 + now \div DEVICE_PW_LOCK_BASE_S)

\* "so a reboot mid-lockout resumes it rather than clearing it" (nvs_store_lockout),
\* for every failure.  It does not hold: pw_fails and pw_lock are two writes.
RebootResumesLock ==
    (IsSet /\ now < last + LockSeconds(run, DEVICE_PW_GLOBAL_MAX_FAILS)) =>
        \A ip \in Ips : LockRemaining(ip) > 0

\* "What is kept in NVS is an SRP-6a salt + verifier pair generated by esp_srp":
\* what PAKE runs with are the two halves of one password.  It does not hold:
\* nvs_store_pair() can stop between them.
PairBelongsTogether == pw.salt = pw.ver

\* "One hostile phone cannot lock out everyone else": an address that has
\* failed less often than the limit is not locked by the table, whichever
\* entries others have filled, freed and taken over.
InnocentNotLocked ==
    \A ip \in Ips :
        (ipTotal[ip] < DEVICE_PW_IP_MAX_FAILS /\ Remaining(guntil) = 0) => LockRemaining(ip) = 0

\* "DEVICE_PW_IP_MAX_FAILS consecutive failures lock that IP", with no more
\* addresses about than the table has entries.  It does not hold: ip_slot() takes
\* an entry that was freed before it gets to the address's own.
IpLockHolds ==
    IsSet => \A ip \in Ips :
        now < ipLast[ip] + LockSeconds(ipRun[ip], DEVICE_PW_IP_MAX_FAILS) => LockRemaining(ip) > 0
=============================================================================
