------------------------ MODULE DevicePasswordProofs ------------------------
(***************************************************************************)
(* For any number of phones, sessions, entries and limits: the global lock *)
(* is in force when the failures call for it, guessing is rate limited,    *)
(* and an address that is within its limit is not locked.                  *)
(*                                                                         *)
(* The global counter is at least the failures that count, and so is its   *)
(* copy in NVS but for those that NVS has not taken in full (CountInv);    *)
(* the lock in RAM and the one in NVS last as long as these call for       *)
(* (LockInv): this is what a power cycle needs.  Both say something of NVS *)
(* only while it has the password of RAM (Persisted), which a change that  *)
(* failed half way ends for good, as no change is ever stored twice        *)
(* (PairInv).  The rate limit counts the attempts that are under way with  *)
(* the failures (RateInv): a proof that fails moves from one to the other, *)
(* and an attempt is only added when the last lock is over.  TableInv      *)
(* bounds the entries of the table.                                        *)
(*                                                                         *)
(* Doubled is a recursive function.  That it is well defined, a number and *)
(* at least the base lock is shown with the least number for which it is   *)
(* not.                                                                    *)
(***************************************************************************)
EXTENDS DevicePassword, FiniteSetTheorems, WellFoundedInduction, TLAPS

GlobalLock(fails) == LockSeconds(fails, DEVICE_PW_GLOBAL_MAX_FAILS)

\* A counter that stands for n failures.
Capped(n) == IF n <= UINT8_MAX THEN n ELSE UINT8_MAX

\* A power cycle does not change the password.
Persisted == IsSet /\ LoadedPassword = pw

PairInv == pw.salt <= used.sets /\ nvs.salt <= used.sets

\* Nothing counts without a password; the counter has the failures that count,
\* and NVS those that it was told of in full.
CountInv ==
    /\ lost + unsaved <= run
    /\ ~IsSet => run = 0
    /\ gfails >= Capped(Counted)
    /\ Persisted => nvs.fails >= Capped(Counted - unsaved)

\* The lock lasts for what these failures call for, from the last one on, and
\* as long again from the next boot on.
LockInv ==
    /\ last <= now
    /\ GlobalLock(Counted) > 0 => guntil >= last + GlobalLock(Counted)
    /\ Persisted => nvs.lock >= GlobalLock(Counted - unsaved)

\* Attempts under way.
Open == {s \in Sessions : attempt[s] # NoIp}

\* The guesses that a device has let in by time t.
Allowed(t) ==
    DEVICE_PW_GLOBAL_MAX_FAILS - 1 + Cardinality(Sessions) * (1 + t \div DEVICE_PW_LOCK_BASE_S)

RateInv ==
    /\ Counted + Cardinality(Open) <= Allowed(now)
    /\ Counted >= DEVICE_PW_GLOBAL_MAX_FAILS => Counted <= Allowed(last)

\* An entry counts no failures that its address does not have, and is locked
\* only from the limit on.
TableInv ==
    \A i \in 1 .. IP_SLOTS :
        /\ slots[i].ip # NoIp => slots[i].fails <= ipTotal[slots[i].ip]
        /\ slots[i].fails < DEVICE_PW_IP_MAX_FAILS => slots[i].until = 0

PasswordInv == TypeOK /\ PairInv /\ CountInv /\ LockInv /\ RateInv /\ TableInv
-----------------------------------------------------------------------------
(* Operators *)

LEMMA LeastNumber ==
    ASSUME NEW T \in SUBSET Nat, T # {}
    PROVE  \E x \in T : \A y \in T : x <= y
<1> DEFINE R == OpToRel(<, Nat)
<1>1. IsWellFoundedOn(R, Nat)
  BY NatLessThanWellFounded
<1>2. R = {p \in Nat \X Nat : p[1] < p[2]}
  BY DEF OpToRel
<1>3. T \subseteq Nat
  OBVIOUS
<1> HIDE DEF R
<1>4. PICK x \in T : \A y \in T : ~(<<y, x>> \in R)
  BY <1>1, <1>3, WFMin, Zenon
<1>5. \A y \in T : ~(y < x)
  BY <1>2, <1>4
<1>6. QED
  BY <1>5

LEMMA MinOf ==
    ASSUME NEW T \in SUBSET Nat, T # {}
    PROVE  Min(T) \in T /\ \A y \in T : Min(T) <= y
  BY LeastNumber DEF Min

LEMMA MinOfTwo ==
    ASSUME NEW a \in Nat, NEW b \in Nat
    PROVE  Min({a, b}) = (IF a <= b THEN a ELSE b)
<1>1. {a, b} \in SUBSET Nat /\ {a, b} # {}
  OBVIOUS
<1>2. Min({a, b}) \in {a, b} /\ \A y \in {a, b} : Min({a, b}) <= y
  BY <1>1, MinOf
<1>3. QED
  BY <1>2

LEMMA MaxOfTwo ==
    ASSUME NEW a \in Int, NEW b \in Int
    PROVE  Max({a, b}) = (IF a >= b THEN a ELSE b)
<1>1. \E x \in {a, b} : \A y \in {a, b} : x >= y
  <2>1. CASE a >= b
    BY <2>1
  <2>2. CASE ~(a >= b)
    BY <2>2
  <2>3. QED
    BY <2>1, <2>2
<1> DEFINE m == Max({a, b})
<1>2. m \in {a, b} /\ \A y \in {a, b} : m >= y
  BY <1>1 DEF Max
<1> HIDE DEF m
<1>3. m = (IF a >= b THEN a ELSE b)
  BY <1>2
<1>4. QED
  BY <1>3 DEF m

\* What lock_seconds() has after n rounds of its loop.
Round(f, n) ==
    IF n = 0 THEN DEVICE_PW_LOCK_BASE_S
    ELSE IF f[n - 1] < DEVICE_PW_LOCK_MAX_S THEN 2 * f[n - 1] ELSE f[n - 1]

Rounds(f, k) == \A n \in 0 .. k : f[n] = Round(f, n)

\* For every k there is a function that does what the loop does, up to round k.
LEMMA RoundsExist == \A k \in Nat : \E f \in [0 .. k -> Nat] : Rounds(f, k)
<1> DEFINE T == {k \in Nat : ~\E f \in [0 .. k -> Nat] : Rounds(f, k)}
<1> SUFFICES ASSUME T # {} PROVE FALSE
  OBVIOUS
<1>1. PICK k \in T : \A y \in T : k <= y
  <2>1. T \in SUBSET Nat
    OBVIOUS
  <2> HIDE DEF T
  <2>2. QED
    BY <2>1, LeastNumber
<1>2. k # 0
  <2> DEFINE f == [n \in 0 .. 0 |-> DEVICE_PW_LOCK_BASE_S]
  <2>1. f \in [0 .. 0 -> Nat] /\ Rounds(f, 0)
    BY PasswordAssumption DEF Rounds, Round
  <2>2. QED
    BY <2>1
<1>3. PICK f \in [0 .. (k - 1) -> Nat] : Rounds(f, k - 1)
  BY <1>1, <1>2
<1> DEFINE x == IF f[k - 1] < DEVICE_PW_LOCK_MAX_S THEN 2 * f[k - 1] ELSE f[k - 1]
           g == [n \in 0 .. k |-> IF n = k THEN x ELSE f[n]]
<1>4. x \in Nat
  BY <1>1, <1>2, PasswordAssumption
<1>5. g \in [0 .. k -> Nat]
  BY <1>1, <1>4
<1>6. Rounds(g, k)
  <2>1. SUFFICES ASSUME NEW n \in 0 .. k PROVE g[n] = Round(g, n)
    BY DEF Rounds
  <2>2. n # 0 => n - 1 \in 0 .. (k - 1) /\ g[n - 1] = f[n - 1]
    BY <1>1, <1>2
  <2>3. CASE n = k
    BY <1>1, <1>2, <2>2, <2>3 DEF Round
  <2>4. CASE n # k
    <3>1. n \in 0 .. (k - 1) /\ g[n] = f[n]
      BY <1>1, <2>4
    <3>2. f[n] = Round(f, n)
      BY <1>3, <3>1 DEF Rounds
    <3>3. QED
      BY <2>2, <3>1, <3>2 DEF Round
  <2>5. QED
    BY <2>3, <2>4
<1>7. QED
  BY <1>1, <1>5, <1>6

\* Two such functions agree as far as both go.
LEMMA RoundsAgree ==
    ASSUME NEW j \in Nat, NEW k \in Nat, j <= k, NEW f, NEW g, Rounds(f, j), Rounds(g, k)
    PROVE  \A n \in 0 .. j : f[n] = g[n]
<1> DEFINE T == {n \in 0 .. j : f[n] # g[n]}
<1> SUFFICES ASSUME T # {} PROVE FALSE
  OBVIOUS
<1>1. PICK n \in T : \A y \in T : n <= y
  <2>1. T \in SUBSET Nat
    OBVIOUS
  <2> HIDE DEF T
  <2>2. QED
    BY <2>1, LeastNumber
<1>2. f[n] = Round(f, n) /\ g[n] = Round(g, n)
  BY <1>1 DEF Rounds
<1>3. n # 0
  BY <1>1, <1>2 DEF Round
<1>4. f[n - 1] = g[n - 1]
  BY <1>1, <1>3
<1>5. QED
  BY <1>1, <1>2, <1>4 DEF Round

\* The loop's result is well defined.
LEMMA DoubledIs == \A n \in Nat : Doubled[n] = Round(Doubled, n)
<1> DEFINE upto == [k \in Nat |-> CHOOSE f \in [0 .. k -> Nat] : Rounds(f, k)]
           h == [n \in Nat |-> upto[n][n]]
           Body(f) == [n \in Nat |-> IF n = 0 THEN DEVICE_PW_LOCK_BASE_S
                                     ELSE IF f[n - 1] < DEVICE_PW_LOCK_MAX_S THEN 2 * f[n - 1]
                                     ELSE f[n - 1]]
<1>1. \A k \in Nat : upto[k] \in [0 .. k -> Nat] /\ Rounds(upto[k], k)
  BY RoundsExist
<1> HIDE DEF upto
<1>2. \A n \in Nat : h[n] = Round(h, n)
  <2> SUFFICES ASSUME NEW n \in Nat PROVE h[n] = Round(h, n)
    OBVIOUS
  <2>1. h[n] = Round(upto[n], n)
    BY <1>1 DEF Rounds
  <2>2. CASE n = 0
    BY <2>1, <2>2 DEF Round
  <2>3. CASE n # 0
    <3>1. n - 1 \in Nat /\ n - 1 <= n
      BY <2>3
    <3>2. upto[n - 1][n - 1] = upto[n][n - 1]
      BY <1>1, <3>1, RoundsAgree
    <3>3. h[n - 1] = upto[n][n - 1]
      BY <3>1, <3>2
    <3>4. QED
      BY <2>1, <3>3 DEF Round
  <2>4. QED
    BY <2>2, <2>3
<1>3. h = Body(h)
  BY <1>2 DEF Round
<1>4. Doubled = CHOOSE f : f = Body(f)
  BY DEF Doubled
<1>5. Doubled = Body(Doubled)
  <2> HIDE DEF h, Body
  <2>1. QED
    BY <1>3, <1>4
<1>6. QED
  <2> SUFFICES ASSUME NEW n \in Nat PROVE Doubled[n] = Round(Doubled, n)
    OBVIOUS
  <2>1. Doubled[n] = Body(Doubled)[n]
    BY <1>5
  <2>2. QED
    BY <2>1 DEF Round

\* It is a number, and at least the base.
LEMMA DoubledBound == \A n \in Nat : Doubled[n] \in Nat /\ Doubled[n] >= DEVICE_PW_LOCK_BASE_S
<1> DEFINE Good(n) == Doubled[n] \in Nat /\ Doubled[n] >= DEVICE_PW_LOCK_BASE_S
           T == {n \in Nat : ~Good(n)}
<1> SUFFICES ASSUME T # {} PROVE FALSE
  OBVIOUS
<1>1. PICK n \in T : \A y \in T : n <= y
  <2>1. T \in SUBSET Nat
    OBVIOUS
  <2> HIDE DEF T
  <2>2. QED
    BY <2>1, LeastNumber
<1>2. n # 0
  BY <1>1, DoubledIs, PasswordAssumption DEF Round
<1>3. Good(n - 1)
  BY <1>1, <1>2
<1>4. Doubled[n] = IF Doubled[n - 1] < DEVICE_PW_LOCK_MAX_S THEN 2 * Doubled[n - 1] ELSE Doubled[n - 1]
  BY <1>1, <1>2, DoubledIs DEF Round
<1>5. Good(n)
  BY <1>3, <1>4, PasswordAssumption
<1>6. QED
  BY <1>1, <1>5

\* lock_seconds(): nothing below the threshold, from there on at least the base
\* lock and at most the cap.
LEMMA LockSecondsIs ==
    ASSUME NEW f \in Nat, NEW t \in Nat
    PROVE  /\ LockSeconds(f, t) \in 0 .. DEVICE_PW_LOCK_MAX_S
           /\ f < t => LockSeconds(f, t) = 0
           /\ f >= t => LockSeconds(f, t) >= DEVICE_PW_LOCK_BASE_S
<1>1. CASE f < t
  BY <1>1, PasswordAssumption DEF LockSeconds
<1>2. CASE f >= t
  <2>1. Doubled[f - t] \in Nat /\ Doubled[f - t] >= DEVICE_PW_LOCK_BASE_S
    BY <1>2, DoubledBound
  <2>2. LockSeconds(f, t) = IF Doubled[f - t] <= DEVICE_PW_LOCK_MAX_S THEN Doubled[f - t] ELSE DEVICE_PW_LOCK_MAX_S
    BY <1>2, <2>1, MinOfTwo, PasswordAssumption DEF LockSeconds
  <2>3. QED
    BY <1>2, <2>1, <2>2, PasswordAssumption
<1>3. QED
  BY <1>1, <1>2

LEMMA GlobalLockIs ==
    ASSUME NEW f \in Nat
    PROVE  /\ GlobalLock(f) \in Nat /\ (f < DEVICE_PW_GLOBAL_MAX_FAILS => GlobalLock(f) = 0)
           /\ f >= DEVICE_PW_GLOBAL_MAX_FAILS => GlobalLock(f) >= DEVICE_PW_LOCK_BASE_S
<1>1. DEVICE_PW_GLOBAL_MAX_FAILS \in Nat /\ DEVICE_PW_LOCK_MAX_S \in Nat
  BY PasswordAssumption
<1> DEFINE l == LockSeconds(f, DEVICE_PW_GLOBAL_MAX_FAILS)
<1>2. /\ l \in 0 .. DEVICE_PW_LOCK_MAX_S
      /\ f < DEVICE_PW_GLOBAL_MAX_FAILS => l = 0
      /\ f >= DEVICE_PW_GLOBAL_MAX_FAILS => l >= DEVICE_PW_LOCK_BASE_S
  BY <1>1, LockSecondsIs
<1>3. GlobalLock(f) = l
  BY DEF GlobalLock
<1> HIDE DEF l
<1>4. QED
  BY <1>1, <1>2, <1>3

\* More rounds of the loop never make the lock shorter.
LEMMA DoubledGrows == \A a, b \in Nat : a <= b => Doubled[a] <= Doubled[b]
<1> SUFFICES ASSUME NEW a \in Nat PROVE \A b \in Nat : a <= b => Doubled[a] <= Doubled[b]
  OBVIOUS
<1>0. \A n \in Nat : Doubled[n] \in Nat
  BY DoubledBound
<1> DEFINE T == {b \in Nat : a <= b /\ Doubled[b] < Doubled[a]}
<1>1. ASSUME T # {} PROVE FALSE
  <2>1. PICK b \in T : \A y \in T : b <= y
    <3>1. T \in SUBSET Nat
      OBVIOUS
    <3> HIDE DEF T
    <3>2. QED
      BY <1>1, <3>1, LeastNumber
  <2>2. b \in Nat /\ a <= b /\ Doubled[b] < Doubled[a]
    BY <2>1
  <2>3. b # a
    BY <1>0, <2>2
  <2>4. b - 1 \in Nat /\ a <= b - 1 /\ b - 1 < b
    BY <2>2, <2>3
  <2>5. b - 1 \notin T
    BY <2>1, <2>4
  <2>6. Doubled[a] <= Doubled[b - 1]
    BY <1>0, <2>4, <2>5
  <2>7. Doubled[b] = IF Doubled[b - 1] < DEVICE_PW_LOCK_MAX_S THEN 2 * Doubled[b - 1] ELSE Doubled[b - 1]
    BY <2>2, <2>4, DoubledIs DEF Round
  <2>8. Doubled[b - 1] \in Nat /\ Doubled[a] \in Nat /\ Doubled[b] \in Nat
    BY <1>0, <2>2, <2>4
  <2>9. Doubled[b] >= Doubled[b - 1]
    BY <2>7, <2>8
  <2>10. QED
    BY <2>2, <2>6, <2>8, <2>9
<1>2. QED
  BY <1>0, <1>1

\* More failures never call for a shorter lock.
LEMMA GlobalLockGrows ==
    ASSUME NEW f \in Nat, NEW g \in Nat, f <= g
    PROVE  GlobalLock(f) <= GlobalLock(g)
<1> DEFINE G == DEVICE_PW_GLOBAL_MAX_FAILS
<1>0. G \in Nat /\ DEVICE_PW_LOCK_MAX_S \in Nat
  BY PasswordAssumption
<1>1. GlobalLock(f) \in Nat /\ GlobalLock(g) \in Nat /\ (f < G => GlobalLock(f) = 0)
  BY GlobalLockIs
<1>2. CASE f < G
  BY <1>1, <1>2
<1>3. CASE ~(f < G)
  <2>1. f - G \in Nat /\ g - G \in Nat /\ f - G <= g - G /\ ~(g < G)
    BY <1>0, <1>3
  <2> DEFINE d == Doubled[f - G]
             e == Doubled[g - G]
  <2>2. d \in Nat /\ e \in Nat /\ d <= e
    BY <2>1, DoubledBound, DoubledGrows
  <2>3. /\ GlobalLock(f) = Min({d, DEVICE_PW_LOCK_MAX_S})
        /\ GlobalLock(g) = Min({e, DEVICE_PW_LOCK_MAX_S})
    BY <1>3, <2>1 DEF GlobalLock, LockSeconds
  <2> HIDE DEF d, e
  <2>4. /\ Min({d, DEVICE_PW_LOCK_MAX_S}) = (IF d <= DEVICE_PW_LOCK_MAX_S THEN d ELSE DEVICE_PW_LOCK_MAX_S)
        /\ Min({e, DEVICE_PW_LOCK_MAX_S}) = (IF e <= DEVICE_PW_LOCK_MAX_S THEN e ELSE DEVICE_PW_LOCK_MAX_S)
    BY <1>0, <2>2, MinOfTwo
  <2>5. QED
    BY <1>0, <2>2, <2>3, <2>4
<1>4. QED
  BY <1>2, <1>3

\* A counter that sticks calls for the longest lock.
LEMMA Saturated ==
    ASSUME NEW f \in Nat, f > UINT8_MAX
    PROVE  GlobalLock(f) <= GlobalLock(UINT8_MAX)
<1> DEFINE d == Doubled[UINT8_MAX - DEVICE_PW_GLOBAL_MAX_FAILS]
<1>1. UINT8_MAX \in Nat /\ UINT8_MAX >= DEVICE_PW_GLOBAL_MAX_FAILS /\ DEVICE_PW_GLOBAL_MAX_FAILS \in Nat
  BY PasswordAssumption
<1>2. d \in Nat
  BY <1>1, DoubledBound
<1>3. d >= DEVICE_PW_LOCK_MAX_S
  BY SaturationAssumption
<1>4. GlobalLock(UINT8_MAX) = Min({d, DEVICE_PW_LOCK_MAX_S})
  BY <1>1 DEF GlobalLock, LockSeconds
<1> HIDE DEF d
<1>5. GlobalLock(UINT8_MAX) = DEVICE_PW_LOCK_MAX_S
  BY <1>2, <1>3, <1>4, MinOfTwo, PasswordAssumption
<1>6. GlobalLock(f) <= DEVICE_PW_LOCK_MAX_S
  BY <1>1, LockSecondsIs, PasswordAssumption DEF GlobalLock
<1>7. QED
  BY <1>5, <1>6

\* ... so a counter that stands for at least n failures calls for n's lock.
LEMMA CounterCallsFor ==
    ASSUME NEW n \in Nat, NEW g \in 0 .. UINT8_MAX, g >= Capped(n)
    PROVE  GlobalLock(n) <= GlobalLock(g)
<1>0. UINT8_MAX \in Nat /\ g \in Nat
  BY PasswordAssumption
<1>1. CASE n <= UINT8_MAX
  <2>1. n <= g
    BY <1>1 DEF Capped
  <2>2. QED
    BY <1>0, <2>1, GlobalLockGrows
<1>2. CASE ~(n <= UINT8_MAX)
  <2>1. n > UINT8_MAX /\ g = UINT8_MAX
    BY <1>0, <1>2 DEF Capped
  <2>2. QED
    BY <2>1, Saturated
<1>3. QED
  BY <1>1, <1>2

LEMMA CappedIs ==
    ASSUME NEW m \in Nat, NEW n \in Nat, m <= n
    PROVE  Capped(m) \in Nat /\ Capped(m) <= Capped(n) /\ Capped(0) = 0
  BY PasswordAssumption DEF Capped

\* ip_slot() returns an entry of the table.
LEMMA SlotIndexInTable ==
    ASSUME TypeOK, NEW ip
    PROVE  SlotIndex(ip) \in 1 .. IP_SLOTS
<1>0. IP_SLOTS \in Nat \ {0} /\ \A j \in 1 .. IP_SLOTS : slots[j].until \in Nat
  BY PasswordAssumption DEF TypeOK
<1>1. CASE Stops(ip) # {}
  <2>1. Stops(ip) \in SUBSET Nat /\ Stops(ip) \subseteq 1 .. IP_SLOTS
    BY DEF Stops
  <2>2. Min(Stops(ip)) \in Stops(ip)
    BY <1>1, <2>1, MinOf
  <2>3. QED
    BY <1>1, <2>1, <2>2 DEF SlotIndex
<1>2. CASE Stops(ip) = {}
  <2> DEFINE ends == {slots[j].until : j \in 1 .. IP_SLOTS}
  <2>1. PICK u \in ends : \A v \in ends : u <= v
    <3>1. ends \in SUBSET Nat
      BY <1>0
    <3>2. ends # {}
      <4>1. 1 \in 1 .. IP_SLOTS
        BY <1>0
      <4>2. QED
        BY <4>1
    <3> HIDE DEF ends
    <3>3. QED
      BY <3>1, <3>2, LeastNumber
  <2> DEFINE firsts == {j \in 1 .. IP_SLOTS : slots[j].until = u}
  <2>2. PICK i \in firsts : \A j \in firsts : i <= j
    <3>1. firsts \in SUBSET Nat /\ firsts # {}
      BY <2>1
    <3> HIDE DEF firsts
    <3>2. QED
      BY <3>1, LeastNumber
  <2>3. i \in 1 .. IP_SLOTS /\ \A j \in 1 .. IP_SLOTS : slots[i].until <= slots[j].until
    BY <2>1, <2>2
  <2>4. \A j \in 1 .. (i - 1) : slots[j].until > slots[i].until
    <3> SUFFICES ASSUME NEW j \in 1 .. (i - 1) PROVE slots[j].until > slots[i].until
      OBVIOUS
    <3>1. j \in 1 .. IP_SLOTS /\ j \notin firsts
      BY <1>0, <2>2, <2>3
    <3>2. slots[j].until # u /\ slots[i].until = u /\ slots[i].until <= slots[j].until
      BY <2>2, <2>3, <3>1
    <3>3. slots[i].until \in Nat /\ slots[j].until \in Nat
      BY <1>0, <2>3, <3>1
    <3> HIDE DEF firsts, ends
    <3>4. QED
      BY <3>2, <3>3
  <2>5. Victim \in 1 .. IP_SLOTS
    BY <2>3, <2>4 DEF Victim
  <2>6. QED
    BY <1>2, <2>5 DEF SlotIndex
<1>3. QED
  BY <1>1, <1>2

LEMMA LeftIs ==
    ASSUME NEW t \in Nat, NEW u \in Nat
    PROVE  Max({0, u - t}) = (IF u > t THEN u - t ELSE 0) /\ Max({0, u - t}) \in Nat
<1>1. u - t \in Int
  OBVIOUS
<1>2. Max({0, u - t}) = IF 0 >= u - t THEN 0 ELSE u - t
  BY <1>1, MaxOfTwo
<1>3. QED
  BY <1>2

LEMMA RemainingIs ==
    ASSUME now \in Nat, NEW u \in Nat
    PROVE  Remaining(u) = (IF u > now THEN u - now ELSE 0) /\ Remaining(u) \in Nat
  BY LeftIs DEF Remaining

\* device_password_lock_remaining_s(): the longer of the two locks.
LEMMA LockRemainingIs ==
    ASSUME TypeOK, IsSet, NEW ip
    PROVE  /\ LockRemaining(ip) \in Nat /\ LockRemaining(ip) >= Remaining(guntil)
           /\ (/\ Remaining(guntil) = 0
               /\ \A i \in 1 .. IP_SLOTS : slots[i].ip = ip => slots[i].until = 0) => LockRemaining(ip) = 0
<1> DEFINE own == IF Held(ip) = {} THEN 0 ELSE Remaining(slots[Min(Held(ip))].until)
<1>0. /\ guntil \in Nat /\ now \in Nat
      /\ \A i \in 1 .. IP_SLOTS : slots[i].until \in Nat
  BY DEF TypeOK
<1>1. Remaining(guntil) \in Nat
  BY <1>0, RemainingIs
<1>2. Held(ip) # {} => Min(Held(ip)) \in 1 .. IP_SLOTS /\ slots[Min(Held(ip))].ip = ip
  <2>1. Held(ip) \in SUBSET Nat
    BY DEF Held
  <2>2. Held(ip) # {} => Min(Held(ip)) \in Held(ip)
    BY <2>1, MinOf
  <2>3. QED
    BY <2>2 DEF Held
<1>3. /\ own \in Nat
      /\ (\A i \in 1 .. IP_SLOTS : slots[i].ip = ip => slots[i].until = 0) => own = 0
  <2>1. CASE Held(ip) = {}
    BY <2>1
  <2>2. CASE Held(ip) # {}
    <3>1. own = Remaining(slots[Min(Held(ip))].until)
      BY <2>2
    <3>2. slots[Min(Held(ip))].until \in Nat
      BY <1>0, <1>2, <2>2
    <3>3. own \in Nat /\ (slots[Min(Held(ip))].until = 0 => own = 0)
      BY <1>0, <3>1, <3>2, RemainingIs
    <3>4. QED
      BY <1>2, <2>2, <3>3
  <2>3. QED
    BY <2>1, <2>2
<1>4. LockRemaining(ip) = Max({Remaining(guntil), own})
  BY DEF LockRemaining
<1> HIDE DEF own
<1>5. LockRemaining(ip) = IF Remaining(guntil) >= own THEN Remaining(guntil) ELSE own
  BY <1>1, <1>3, <1>4, MaxOfTwo
<1>6. QED
  BY <1>1, <1>3, <1>5

\* The attempts under way are finitely many: one more, or one less.
LEMMA OpenIs ==
    /\ IsFiniteSet(Open) /\ Cardinality(Open) \in Nat /\ Cardinality(Sessions) \in Nat
    /\ Cardinality(Open) <= Cardinality(Sessions)
<1>1. IsFiniteSet(Sessions) /\ Open \subseteq Sessions
  BY PasswordAssumption DEF Open
<1>2. QED
  BY <1>1, FS_Subset, FS_CardinalityType

LEMMA OpensOne ==
    ASSUME TypeOK, NEW s \in Sessions, NEW ip \in Ips, attempt[s] = NoIp,
           attempt' = [attempt EXCEPT ![s] = ip]
    PROVE  Cardinality(Open') = Cardinality(Open) + 1 /\ Cardinality(Open') <= Cardinality(Sessions)
<1>1. Open' = Open \cup {s} /\ s \notin Open
  BY PasswordAssumption DEF TypeOK, Open
<1>2. Cardinality(Open') = Cardinality(Open) + 1
  BY <1>1, OpenIs, FS_AddElement
<1>3. IsFiniteSet(Sessions) /\ Open' \subseteq Sessions
  BY PasswordAssumption DEF Open
<1>4. QED
  BY <1>2, <1>3, FS_Subset

LEMMA ClosesOne ==
    ASSUME TypeOK, NEW s \in Sessions, attempt[s] # NoIp,
           attempt' = [attempt EXCEPT ![s] = NoIp]
    PROVE  Cardinality(Open') = Cardinality(Open) - 1
<1>1. Open' = Open \ {s} /\ s \in Open
  BY DEF TypeOK, Open
<1>2. QED
  BY <1>1, OpenIs, FS_RemoveElement

\* Time lets in more guesses: a whole base lock as many as there are sessions.
LEMMA AllowedIs ==
    ASSUME NEW t \in Nat, NEW u \in Nat, t <= u
    PROVE  /\ Allowed(t) \in Nat /\ Allowed(u) \in Nat /\ Allowed(t) <= Allowed(u)
           /\ Allowed(t) >= DEVICE_PW_GLOBAL_MAX_FAILS - 1 + Cardinality(Sessions)
           /\ u >= t + DEVICE_PW_LOCK_BASE_S => Allowed(u) >= Allowed(t) + Cardinality(Sessions)
<1> DEFINE B == DEVICE_PW_LOCK_BASE_S
           N == Cardinality(Sessions)
           a == t \div B
           b == u \div B
<1>0. B \in Nat \ {0} /\ N \in Nat /\ DEVICE_PW_GLOBAL_MAX_FAILS \in Nat \ {0}
  BY OpenIs, PasswordAssumption
<1> HIDE DEF B, N
<1>1. a \in Nat /\ b \in Nat /\ a <= b
  BY <1>0
<1>2. u >= t + B => b >= a + 1
  BY <1>0
<1> HIDE DEF a, b
<1>3. N * (1 + a) \in Nat /\ N * (1 + b) \in Nat /\ N * (1 + a) <= N * (1 + b) /\ N * (1 + a) >= N
  BY <1>0, <1>1
<1>4. b >= a + 1 => N * (1 + b) >= N * (1 + a) + N
  BY <1>0, <1>1
<1>5. /\ Allowed(t) = DEVICE_PW_GLOBAL_MAX_FAILS - 1 + N * (1 + a)
      /\ Allowed(u) = DEVICE_PW_GLOBAL_MAX_FAILS - 1 + N * (1 + b)
  BY DEF Allowed, N, B, a, b
<1>6. QED
  BY <1>0, <1>2, <1>3, <1>4, <1>5 DEF N, B
-----------------------------------------------------------------------------
(* Types *)

Entries == [ip : Ips \cup {NoIp}, fails : 0 .. UINT8_MAX, until : Nat]

Stored == [salt : Nat, ver : Nat, fails : 0 .. UINT8_MAX, lock : Nat]

Bounds == [failures : Nat, sets : Nat, boots : Nat, errors : Nat]

Pairs == [salt : Nat, ver : Nat]

LEMMA IncrementIs ==
    ASSUME NEW f \in 0 .. UINT8_MAX
    PROVE  Increment(f) \in 0 .. UINT8_MAX /\ f <= Increment(f) /\ (f < UINT8_MAX => Increment(f) = f + 1)
  BY PasswordAssumption DEF Increment

LEMMA ZeroCounts == 0 \in 0 .. UINT8_MAX
  BY PasswordAssumption

LEMMA FreeSlotIs == FreeSlot \in Entries /\ FreeSlot.ip = NoIp /\ FreeSlot.fails = 0 /\ FreeSlot.until = 0
  BY PasswordAssumption DEF FreeSlot, Entries

LEMMA UsedIs ==
    ASSUME TypeOK, NEW n \in Nat, NEW m \in Nat
    PROVE  /\ [used EXCEPT !.sets = n, !.errors = m] \in Bounds
           /\ [used EXCEPT !.sets = n, !.errors = m].sets = n
           /\ [used EXCEPT !.failures = n, !.errors = m] \in Bounds
           /\ used.sets \in Nat /\ used.errors \in Nat /\ used.failures \in Nat
<1>1. used \in Bounds
  BY DEF TypeOK, Bounds
<1>2. QED
  BY <1>1 DEF Bounds

\* What a store leaves in NVS.
LEMMA WrittenIs ==
    ASSUME TypeOK, NEW written, NEW new \in Stored
    PROVE  /\ Written(written, new) \in Stored
           /\ Written(written, new).salt = (IF "salt" \in written THEN new.salt ELSE nvs.salt)
           /\ Written(written, new).ver = (IF "ver" \in written THEN new.ver ELSE nvs.ver)
           /\ Written(written, new).fails = (IF "fails" \in written THEN new.fails ELSE nvs.fails)
           /\ Written(written, new).lock = (IF "lock" \in written THEN new.lock ELSE nvs.lock)
<1>1. nvs \in Stored
  BY DEF TypeOK, Stored
<1>2. /\ nvs.salt \in Nat /\ nvs.ver \in Nat /\ nvs.fails \in 0 .. UINT8_MAX /\ nvs.lock \in Nat
      /\ new.salt \in Nat /\ new.ver \in Nat /\ new.fails \in 0 .. UINT8_MAX /\ new.lock \in Nat
  BY <1>1 DEF Stored
<1>3. QED
  BY <1>2 DEF Written, Stored

\* device_password_note_failure(), in full.
LEMMA FailureIs ==
    ASSUME TypeOK, NEW s \in Sessions, NEW written, NoteFailure(s, written), NEW ip, ip = attempt[s]
    PROVE  /\ IsSet /\ ip \in Ips /\ attempt[s] # NoIp
           /\ gfails' = Increment(gfails) /\ gfails' \in 0 .. UINT8_MAX
           /\ guntil' = (IF GlobalLock(gfails') > 0 THEN now + GlobalLock(gfails') ELSE guntil)
           /\ GlobalLock(gfails') \in Nat /\ guntil' \in Nat
           /\ nvs' \in Stored /\ nvs'.salt = nvs.salt /\ nvs'.ver = nvs.ver
           /\ nvs'.fails = gfails' \/ nvs'.fails = nvs.fails
           /\ (nvs'.lock \in Nat /\ nvs'.lock >= GlobalLock(gfails')) \/ nvs'.lock = nvs.lock
           /\ \/ unsaved' = unsaved + 1
              \/ /\ unsaved' = 0 /\ nvs'.fails = gfails'
                 /\ nvs'.lock \in Nat /\ nvs'.lock >= GlobalLock(gfails')
           /\ attempt' = [attempt EXCEPT ![s] = NoIp]
           /\ run' = run + 1 /\ last' = now
           /\ ipTotal' = [ipTotal EXCEPT ![ip] = @ + 1]
           /\ UNCHANGED <<pw, now, lost>>
<1> DEFINE new == [nvs EXCEPT !.fails = gfails', !.lock = Max({0, guntil' - now})]
<1>0. /\ attempt[s] # NoIp /\ IsSet /\ UNCHANGED <<pw, now, lost>>
      /\ gfails' = Increment(gfails) /\ attempt' = [attempt EXCEPT ![s] = NoIp]
      /\ run' = run + 1 /\ last' = now /\ ipTotal' = [ipTotal EXCEPT ![ip] = @ + 1]
      /\ guntil' = (IF GlobalLock(Increment(gfails)) > 0 THEN now + GlobalLock(Increment(gfails)) ELSE guntil)
      /\ nvs' = Written(written, new)
      /\ unsaved' = (IF written = {"fails", "lock"} THEN 0 ELSE unsaved + 1)
  BY DEF NoteFailure, Strike, StoreLockout, RecordFailure, GlobalLock
<1>1. /\ gfails' \in 0 .. UINT8_MAX /\ ip \in Ips /\ now \in Nat /\ guntil \in Nat
      /\ nvs \in Stored
  BY <1>0, IncrementIs DEF TypeOK, Stored
<1>2. GlobalLock(gfails') \in Nat
  <2>1. gfails' \in Nat
    BY <1>1
  <2>2. QED
    BY <2>1, GlobalLockIs
<1>3. guntil' \in Nat
  BY <1>0, <1>1, <1>2
<1> DEFINE left == Max({0, guntil' - now})
<1>4. left = (IF guntil' > now THEN guntil' - now ELSE 0) /\ left \in Nat
  BY <1>1, <1>3, LeftIs
<1> HIDE DEF left
<1>5. left >= GlobalLock(gfails')
  BY <1>0, <1>1, <1>2, <1>3, <1>4
<1>6. new \in Stored /\ new.fails = gfails' /\ new.lock = left
  BY <1>1, <1>4 DEF Stored, left
<1> HIDE DEF new
<1>7. /\ nvs' \in Stored
      /\ nvs'.fails = (IF "fails" \in written THEN new.fails ELSE nvs.fails)
      /\ nvs'.lock = (IF "lock" \in written THEN new.lock ELSE nvs.lock)
  BY <1>0, <1>6, WrittenIs
<1>8. nvs'.salt = nvs.salt /\ nvs'.ver = nvs.ver
  <2>1. new.salt = nvs.salt /\ new.ver = nvs.ver
    BY <1>1 DEF new, Stored
  <2>2. QED
    BY <1>0, <1>6, <2>1, WrittenIs
<1>9. \/ unsaved' = unsaved + 1
      \/ unsaved' = 0 /\ nvs'.fails = gfails' /\ nvs'.lock = left
  BY <1>0, <1>6, <1>7
<1>10. nvs'.fails = gfails' \/ nvs'.fails = nvs.fails
  BY <1>6, <1>7
<1>11. nvs'.lock = left \/ nvs'.lock = nvs.lock
  BY <1>6, <1>7
<1>12. QED
  BY <1>0, <1>1, <1>2, <1>3, <1>4, <1>5, <1>7, <1>8, <1>9, <1>10, <1>11

\* The entry that it writes.
LEMMA FailureEntry ==
    ASSUME TypeOK, NEW s \in Sessions, NEW written, NoteFailure(s, written), NEW ip, ip = attempt[s]
    PROVE  \E k \in 1 .. IP_SLOTS, f \in 0 .. UINT8_MAX, u \in Nat :
              /\ slots' = [slots EXCEPT ![k] = [ip |-> ip, fails |-> f, until |-> u]]
              /\ f = Increment(IF slots[k].ip = ip THEN slots[k].fails ELSE 0)
              /\ f < DEVICE_PW_IP_MAX_FAILS => u = (IF slots[k].ip = ip THEN slots[k].until ELSE 0)
<1> DEFINE k == SlotIndex(ip)
           f == Increment(SlotFails(ip))
           ls == LockSeconds(f, DEVICE_PW_IP_MAX_FAILS)
           u == IF ls > 0 THEN now + ls ELSE SlotUntil(ip)
<1>1. k \in 1 .. IP_SLOTS
  BY SlotIndexInTable
<1>2. /\ SlotFails(ip) = (IF slots[k].ip = ip THEN slots[k].fails ELSE 0)
      /\ SlotUntil(ip) = (IF slots[k].ip = ip THEN slots[k].until ELSE 0)
  BY DEF SlotFails, SlotUntil
<1>3. slots' = [slots EXCEPT ![k] = [ip |-> ip, fails |-> f, until |-> u]]
  BY DEF NoteFailure, Strike
<1> HIDE DEF k
<1>4. SlotFails(ip) \in 0 .. UINT8_MAX /\ SlotUntil(ip) \in Nat
  BY <1>1, <1>2, PasswordAssumption DEF TypeOK
<1>5. f \in 0 .. UINT8_MAX
  BY <1>4, IncrementIs
<1> HIDE DEF f
<1>6. ls \in Nat /\ (f < DEVICE_PW_IP_MAX_FAILS => ls = 0)
  <2>1. f \in Nat /\ DEVICE_PW_IP_MAX_FAILS \in Nat
    BY <1>5, PasswordAssumption
  <2>2. QED
    BY <2>1, LockSecondsIs, PasswordAssumption
<1> HIDE DEF ls
<1>7. u \in Nat /\ (f < DEVICE_PW_IP_MAX_FAILS => u = SlotUntil(ip))
  BY <1>4, <1>6 DEF TypeOK
<1>8. f = Increment(IF slots[k].ip = ip THEN slots[k].fails ELSE 0)
  BY <1>2 DEF f
<1> HIDE DEF u
<1>9. QED
  BY <1>1, <1>2, <1>3, <1>5, <1>7, <1>8

\* device_password_note_success(), in full.
LEMMA SuccessIs ==
    ASSUME TypeOK, NEW s \in Sessions, NEW written, NoteSuccess(s, written)
    PROVE  /\ attempt[s] # NoIp /\ attempt' = [attempt EXCEPT ![s] = NoIp]
           /\ gfails' = 0 /\ guntil' = 0 /\ run' = 0 /\ unsaved' = 0 /\ lost' = 0
           /\ nvs' \in Stored /\ nvs'.salt = nvs.salt
           /\ \A i \in 1 .. IP_SLOTS : slots'[i] \in {slots[i], FreeSlot}
           /\ slots' \in [1 .. IP_SLOTS -> Entries]
           /\ used' \in Bounds /\ used'.sets = used.sets
           /\ UNCHANGED <<pw, now, last, ipTotal>>
<1>0. /\ attempt[s] # NoIp /\ attempt' = [attempt EXCEPT ![s] = NoIp]
      /\ gfails' = 0 /\ guntil' = 0 /\ run' = 0 /\ unsaved' = 0 /\ lost' = 0
      /\ UNCHANGED <<pw, now, last, ipTotal>>
  BY DEF NoteSuccess, FreshRun
<1>1. nvs \in Stored /\ slots \in [1 .. IP_SLOTS -> Entries] /\ now \in Nat /\ used \in Bounds
  BY DEF TypeOK, Stored, Entries, Bounds
<1>2. slots' \in [1 .. IP_SLOTS -> Entries] /\ \A i \in 1 .. IP_SLOTS : slots'[i] \in {slots[i], FreeSlot}
  BY <1>1, FreeSlotIs DEF NoteSuccess
<1>3. used' \in Bounds /\ used'.sets = used.sets
  BY <1>1 DEF NoteSuccess, Bounds
<1>4. nvs' \in Stored /\ nvs'.salt = nvs.salt
  <2>1. CASE nvs' = nvs
    BY <1>1, <2>1
  <2>2. CASE StoreLockout(written)
    <3> DEFINE left == Max({0, guntil' - now})
               new == [nvs EXCEPT !.fails = gfails', !.lock = left]
    <3>1. nvs' = Written(written, new)
      BY <2>2 DEF StoreLockout
    <3>2. left \in Nat
      <4>1. guntil' \in Nat
        BY <1>0
      <4>2. QED
        BY <1>1, <4>1, LeftIs
    <3> HIDE DEF left
    <3>3. new \in Stored /\ new.salt = nvs.salt
      BY <1>0, <1>1, <3>2, ZeroCounts DEF Stored
    <3> HIDE DEF new
    <3>4. QED
      BY <3>1, <3>3, WrittenIs
  <2>3. QED
    BY <2>1, <2>2 DEF NoteSuccess
<1>5. QED
  BY <1>0, <1>2, <1>3, <1>4

\* A new password, set or cleared, in full.
LEMMA ForgetIs ==
    ASSUME TypeOK, Set \/ (\E written \in SUBSET Keys : Clear(written))
    PROVE  /\ slots' = [i \in 1 .. IP_SLOTS |-> FreeSlot] /\ gfails' = 0 /\ guntil' = 0
           /\ run' = 0 /\ unsaved' = 0 /\ lost' = 0 /\ ipRun' = Zero /\ ipTotal' = Zero
           /\ pw' \in Pairs /\ nvs' \in Stored
           /\ used' \in Bounds /\ used'.sets = used.sets + 1
           /\ pw'.salt \in {0, used.sets + 1} /\ nvs'.salt \in {nvs.salt, 0, used.sets + 1}
           /\ UNCHANGED <<attempt, now, last, ipLast>>
<1>0. used \in Bounds /\ used.sets \in Nat
  BY DEF TypeOK, Bounds
<1>1. /\ slots' = [i \in 1 .. IP_SLOTS |-> FreeSlot] /\ gfails' = 0 /\ guntil' = 0
      /\ run' = 0 /\ unsaved' = 0 /\ lost' = 0 /\ ipRun' = Zero /\ ipTotal' = Zero
      /\ UNCHANGED <<attempt, now, last, ipLast>>
  BY DEF Set, Clear, Forget, FreshRun
<1>2. CASE Set
  <2>1. /\ nvs' = [salt |-> used.sets + 1, ver |-> used.sets + 1, fails |-> 0, lock |-> 0]
        /\ pw' = [salt |-> used.sets + 1, ver |-> used.sets + 1]
        /\ used' = [used EXCEPT !.sets = @ + 1]
    BY <1>2 DEF Set, Charge
  <2>2. used' \in Bounds /\ used'.sets = used.sets + 1
    BY <1>0, <2>1 DEF Bounds
  <2>3. pw' \in Pairs /\ nvs' \in Stored /\ pw'.salt = used.sets + 1 /\ nvs'.salt = used.sets + 1
    BY <1>0, <2>1, ZeroCounts DEF Pairs, Stored
  <2>4. QED
    BY <1>1, <2>2, <2>3
<1>3. ASSUME NEW written \in SUBSET Keys, Clear(written)
      PROVE  /\ pw' \in Pairs /\ nvs' \in Stored
             /\ used' \in Bounds /\ used'.sets = used.sets + 1
             /\ pw'.salt = 0 /\ nvs'.salt \in {nvs.salt, 0}
  <2> DEFINE new == [salt |-> 0, ver |-> 0, fails |-> 0, lock |-> 0]
  <2>1. nvs' = Written(written, new) /\ pw' = NoPassword
    BY <1>3 DEF Clear
  <2> DEFINE e == IF written = Keys THEN used.errors ELSE used.errors + 1
  <2>2. used' \in Bounds /\ used'.sets = used.sets + 1
    <3>1. used' = [used EXCEPT !.sets = used.sets + 1, !.errors = e]
      BY <1>3 DEF Clear
    <3>2. e \in Nat /\ used.sets + 1 \in Nat
      BY <1>0 DEF Bounds
    <3> HIDE DEF e
    <3>3. QED
      BY <3>1, <3>2, UsedIs
  <2>3. new \in Stored /\ new.salt = 0
    BY ZeroCounts DEF Stored
  <2> HIDE DEF new
  <2>4. nvs' \in Stored /\ nvs'.salt \in {nvs.salt, 0}
    BY <2>1, <2>3, WrittenIs
  <2>5. pw' \in Pairs /\ pw'.salt = 0
    BY <2>1 DEF NoPassword, Pairs
  <2>6. QED
    BY <2>2, <2>4, <2>5
<1>4. QED
  BY <1>1, <1>2, <1>3

\* A password that could not be stored, in full: NVS has a part of it.
LEMMA SetFailsIs ==
    ASSUME TypeOK, NEW written \in Beginnings, SetFails(written)
    PROVE  /\ nvs' \in Stored /\ used' \in Bounds /\ used'.sets = used.sets + 1
           /\ nvs' = nvs \/ nvs'.salt = used.sets + 1
           /\ UNCHANGED <<pw, slots, gfails, guntil, attempt, now, run, last, ipRun, ipLast, ipTotal,
                          unsaved, lost>>
<1> DEFINE new == [salt |-> used.sets + 1, ver |-> used.sets + 1, fails |-> 0, lock |-> 0]
<1>0. used \in Bounds /\ used.sets \in Nat /\ nvs \in Stored
  BY DEF TypeOK, Bounds, Stored
<1>1. /\ nvs' = Written(written, new) /\ used' = [used EXCEPT !.sets = @ + 1, !.errors = @ + 1]
      /\ UNCHANGED <<pw, slots, gfails, guntil, attempt, now, run, last, ipRun, ipLast, ipTotal,
                     unsaved, lost>>
  BY DEF SetFails
<1>2. used' \in Bounds /\ used'.sets = used.sets + 1
  <2>1. used.errors + 1 \in Nat /\ used.sets + 1 \in Nat
    BY <1>0 DEF Bounds
  <2>2. used' = [used EXCEPT !.sets = used.sets + 1, !.errors = used.errors + 1]
    BY <1>1
  <2>3. QED
    BY <2>1, <2>2, UsedIs
<1>3. new \in Stored /\ new.salt = used.sets + 1
  BY <1>0, ZeroCounts DEF Stored
<1> HIDE DEF new
<1>4. CASE written = {}
  <2>1. Written({}, new) = [salt |-> nvs.salt, ver |-> nvs.ver, fails |-> nvs.fails, lock |-> nvs.lock]
    BY DEF Written
  <2>2. nvs = [salt |-> nvs.salt, ver |-> nvs.ver, fails |-> nvs.fails, lock |-> nvs.lock]
    BY <1>0 DEF Stored
  <2>3. nvs' = nvs
    BY <1>1, <1>4, <2>1, <2>2
  <2>4. QED
    BY <1>0, <1>1, <1>2, <2>3
<1>5. CASE "salt" \in written
  <2>1. nvs' \in Stored /\ nvs'.salt = new.salt
    BY <1>1, <1>3, <1>5, WrittenIs
  <2>2. QED
    BY <1>1, <1>2, <1>3, <2>1
<1>6. QED
  BY <1>4, <1>5 DEF Beginnings, Keys

\* A power cycle, in full.
LEMMA RebootIs ==
    ASSUME TypeOK, Reboot
    PROVE  /\ pw' = LoadedPassword /\ pw' \in Pairs /\ pw'.salt \in {0, nvs.salt}
           /\ slots' = [i \in 1 .. IP_SLOTS |-> FreeSlot] /\ gfails' = nvs.fails
           /\ guntil' = (IF nvs.lock > 0 THEN now + nvs.lock ELSE 0)
           /\ attempt' = [s \in Sessions |-> NoIp] /\ ipRun' = Zero /\ ipTotal' = Zero
           /\ \/ pw' # pw /\ run' = 0 /\ unsaved' = 0 /\ lost' = 0
              \/ pw' = pw /\ run' = run /\ unsaved' = 0 /\ lost' = lost + unsaved
           /\ used' \in Bounds /\ used'.sets = used.sets
           /\ UNCHANGED <<nvs, now, last, ipLast>>
<1>0. used \in Bounds /\ nvs \in Stored
  BY DEF TypeOK, Bounds, Stored
<1>1. LoadedPassword \in Pairs /\ LoadedPassword.salt \in {0, nvs.salt}
  BY <1>0 DEF LoadedPassword, NoPassword, Pairs, Stored
<1>2. used' \in Bounds /\ used'.sets = used.sets
  BY <1>0 DEF Reboot, Charge, Bounds
<1>3. QED
  BY <1>1, <1>2 DEF Reboot, FreshRun

LEMMA TypeNext ==
    ASSUME TypeOK, [Next]_vars
    PROVE  TypeOK'
<1>0. /\ pw \in Pairs /\ slots \in [1 .. IP_SLOTS -> Entries] /\ gfails \in 0 .. UINT8_MAX
      /\ guntil \in Nat /\ nvs \in Stored /\ attempt \in [Sessions -> Ips \cup {NoIp}]
      /\ now \in Nat /\ run \in Nat /\ last \in Nat
      /\ ipRun \in [Ips -> Nat] /\ ipLast \in [Ips -> Nat] /\ ipTotal \in [Ips -> Nat]
      /\ unsaved \in Nat /\ lost \in Nat /\ used \in Bounds
  BY DEF TypeOK, Entries, Stored, Bounds, Pairs
<1>1. ASSUME   /\ pw' \in Pairs /\ slots' \in [1 .. IP_SLOTS -> Entries] /\ gfails' \in 0 .. UINT8_MAX
               /\ guntil' \in Nat /\ nvs' \in Stored /\ attempt' \in [Sessions -> Ips \cup {NoIp}]
               /\ now' \in Nat /\ run' \in Nat /\ last' \in Nat
               /\ ipRun' \in [Ips -> Nat] /\ ipLast' \in [Ips -> Nat] /\ ipTotal' \in [Ips -> Nat]
               /\ unsaved' \in Nat /\ lost' \in Nat /\ used' \in Bounds
      PROVE    TypeOK'
  BY <1>1 DEF TypeOK, Entries, Stored, Bounds, Pairs
<1>2. CASE UNCHANGED vars
  BY <1>2 DEF vars, TypeOK
<1>3. ASSUME NEW s \in Sessions, NEW ip \in Ips, Pake1(s, ip) PROVE TypeOK'
  BY <1>3 DEF Pake1, TypeOK
<1>4. ASSUME NEW s \in Sessions, Abandon(s) \/ FailureIgnored(s) PROVE TypeOK'
  BY <1>4 DEF Abandon, FailureIgnored, TypeOK
<1>5. ASSUME NEW s \in Sessions, NEW written, NoteFailure(s, written) PROVE TypeOK'
  <2> DEFINE ip == attempt[s]
  <2>1. /\ ip \in Ips /\ gfails' \in 0 .. UINT8_MAX /\ guntil' \in Nat /\ nvs' \in Stored
        /\ unsaved' = unsaved + 1 \/ unsaved' = 0
        /\ attempt' = [attempt EXCEPT ![s] = NoIp] /\ UNCHANGED <<pw, now, lost>>
    BY <1>5, FailureIs
  <2>2. /\ run' = run + 1 /\ last' = now
        /\ ipRun' = [ipRun EXCEPT ![ip] = @ + 1] /\ ipLast' = [ipLast EXCEPT ![ip] = now]
        /\ ipTotal' = [ipTotal EXCEPT ![ip] = @ + 1]
    BY <1>5 DEF NoteFailure, RecordFailure
  <2>3. used' \in Bounds
    <3> DEFINE e == IF written = {"fails", "lock"} THEN used.errors ELSE used.errors + 1
    <3>1. used' = [used EXCEPT !.failures = used.failures + 1, !.errors = e]
      BY <1>5 DEF NoteFailure, RecordFailure
    <3>2. e \in Nat /\ used.failures + 1 \in Nat
      BY <1>0 DEF Bounds
    <3> HIDE DEF e
    <3>3. QED
      BY <3>1, <3>2, UsedIs
  <2>4. slots' \in [1 .. IP_SLOTS -> Entries]
    <3>1. PICK k \in 1 .. IP_SLOTS, f \in 0 .. UINT8_MAX, u \in Nat :
             slots' = [slots EXCEPT ![k] = [ip |-> ip, fails |-> f, until |-> u]]
      BY <1>5, FailureEntry
    <3>2. [ip |-> ip, fails |-> f, until |-> u] \in Entries
      BY <2>1 DEF Entries
    <3>3. QED
      BY <1>0, <3>1, <3>2
  <2> HIDE DEF ip
  <2>5. /\ ipRun' \in [Ips -> Nat] /\ ipLast' \in [Ips -> Nat] /\ ipTotal' \in [Ips -> Nat]
        /\ run' \in Nat /\ last' \in Nat /\ attempt' \in [Sessions -> Ips \cup {NoIp}]
        /\ unsaved' \in Nat
    BY <1>0, <2>1, <2>2
  <2>6. QED
    BY <1>0, <1>1, <2>1, <2>3, <2>4, <2>5
<1>6. ASSUME NEW s \in Sessions, NEW written, NoteSuccess(s, written) PROVE TypeOK'
  <2>1. /\ attempt' = [attempt EXCEPT ![s] = NoIp]
        /\ gfails' = 0 /\ guntil' = 0 /\ run' = 0 /\ unsaved' = 0 /\ lost' = 0 /\ nvs' \in Stored
        /\ slots' \in [1 .. IP_SLOTS -> Entries] /\ used' \in Bounds
        /\ UNCHANGED <<pw, now, last, ipTotal>>
    BY <1>6, SuccessIs
  <2>2. ipRun' = [ipRun EXCEPT ![attempt[s]] = 0] /\ UNCHANGED ipLast
    BY <1>6 DEF NoteSuccess
  <2>3. /\ attempt' \in [Sessions -> Ips \cup {NoIp}] /\ ipRun' \in [Ips -> Nat]
        /\ gfails' \in 0 .. UINT8_MAX /\ guntil' \in Nat /\ run' \in Nat
        /\ unsaved' \in Nat /\ lost' \in Nat
    BY <1>0, <2>1, <2>2, ZeroCounts
  <2>4. QED
    BY <1>0, <1>1, <2>1, <2>2, <2>3
<1>7. CASE Set \/ (\E written \in SUBSET Keys : Clear(written))
  <2>1. /\ slots' = [i \in 1 .. IP_SLOTS |-> FreeSlot] /\ gfails' = 0 /\ guntil' = 0
        /\ run' = 0 /\ unsaved' = 0 /\ lost' = 0 /\ ipRun' = Zero /\ ipTotal' = Zero
        /\ pw' \in Pairs /\ nvs' \in Stored /\ used' \in Bounds
        /\ UNCHANGED <<attempt, now, last, ipLast>>
    BY <1>7, ForgetIs
  <2>2. /\ slots' \in [1 .. IP_SLOTS -> Entries] /\ gfails' \in 0 .. UINT8_MAX /\ guntil' \in Nat
        /\ run' \in Nat /\ unsaved' \in Nat /\ lost' \in Nat
        /\ ipRun' \in [Ips -> Nat] /\ ipTotal' \in [Ips -> Nat]
    BY <2>1, FreeSlotIs, ZeroCounts DEF Zero
  <2>3. QED
    BY <1>0, <1>1, <2>1, <2>2
<1>8. ASSUME NEW written \in Beginnings, SetFails(written) PROVE TypeOK'
  <2>1. /\ nvs' \in Stored /\ used' \in Bounds
        /\ UNCHANGED <<pw, slots, gfails, guntil, attempt, now, run, last, ipRun, ipLast, ipTotal,
                       unsaved, lost>>
    BY <1>8, SetFailsIs
  <2>2. QED
    BY <1>0, <1>1, <2>1
<1>9. CASE Tick
  BY <1>9 DEF Tick, TypeOK
<1>10. CASE Reboot
  <2>1. /\ pw' \in Pairs /\ slots' = [i \in 1 .. IP_SLOTS |-> FreeSlot] /\ gfails' = nvs.fails
        /\ guntil' = (IF nvs.lock > 0 THEN now + nvs.lock ELSE 0)
        /\ attempt' = [s \in Sessions |-> NoIp] /\ ipRun' = Zero /\ ipTotal' = Zero
        /\ run' \in {0, run} /\ unsaved' = 0 /\ lost' \in {0, lost + unsaved}
        /\ used' \in Bounds /\ UNCHANGED <<nvs, now, last, ipLast>>
    BY <1>10, RebootIs
  <2>2. nvs.fails \in 0 .. UINT8_MAX /\ nvs.lock \in Nat
    BY <1>0 DEF Stored
  <2>3. /\ slots' \in [1 .. IP_SLOTS -> Entries] /\ gfails' \in 0 .. UINT8_MAX
        /\ attempt' \in [Sessions -> Ips \cup {NoIp}]
        /\ ipRun' \in [Ips -> Nat] /\ ipTotal' \in [Ips -> Nat]
    BY <2>1, <2>2, FreeSlotIs DEF Zero
  <2>4. run' \in Nat /\ unsaved' \in Nat /\ lost' \in Nat /\ guntil' \in Nat
    BY <1>0, <2>1, <2>2
  <2>5. QED
    BY <1>0, <1>1, <2>1, <2>3, <2>4
<1>11. QED
  BY <1>2, <1>3, <1>4, <1>5, <1>6, <1>7, <1>8, <1>9, <1>10 DEF Next
-----------------------------------------------------------------------------
(* The invariant *)

\* The steps in which nothing is counted.
Uncounted == UNCHANGED <<pw, slots, gfails, guntil, nvs, run, last, ipTotal, unsaved, lost, used>>

LEMMA UncountedSteps ==
    /\ \A s \in Sessions, ip \in Ips : Pake1(s, ip) => Uncounted /\ now' = now
    /\ \A s \in Sessions : Abandon(s) \/ FailureIgnored(s) => Uncounted /\ now' = now
    /\ Tick => Uncounted /\ now' = now + 1
    /\ UNCHANGED vars => Uncounted /\ now' = now
  BY DEF Uncounted, Pake1, Abandon, FailureIgnored, Tick, vars

\* A step that is not one of these is a verdict, a new password or a boot.
LEMMA NextIs ==
    ASSUME [Next]_vars
    PROVE  \/ Uncounted /\ (now' = now \/ now' = now + 1)
           \/ \E s \in Sessions, written \in SUBSET {"fails", "lock"} :
                 NoteFailure(s, written) \/ NoteSuccess(s, written)
           \/ Set \/ (\E written \in SUBSET Keys : Clear(written))
           \/ \E written \in Beginnings : SetFails(written)
           \/ Reboot
  BY UncountedSteps DEF Next

LEMMA UncountedKeeps ==
    ASSUME Uncounted
    PROVE  Persisted' = Persisted /\ Counted' = Counted /\ IsSet' = IsSet
  BY DEF Uncounted, Persisted, Counted, IsSet, LoadedPassword

\* A verdict leaves the password alone, in RAM and in NVS.
LEMMA VerdictKeeps ==
    ASSUME pw' = pw, nvs'.salt = nvs.salt, nvs'.ver = nvs.ver
    PROVE  Persisted' = Persisted /\ IsSet' = IsSet
  BY DEF Persisted, IsSet, LoadedPassword

LEMMA CountedIs ==
    ASSUME TypeOK, CountInv
    PROVE  Counted \in Nat /\ Counted = run - lost /\ Counted - unsaved \in Nat /\ Counted - unsaved <= Counted
  BY DEF TypeOK, CountInv, Counted

\* Nothing has been guessed: nothing is asked of counters and locks.
LEMMA FreshIsCounted ==
    ASSUME TypeOK', run' = 0, lost' = 0, unsaved' = 0
    PROVE  CountInv' /\ Counted' = 0 /\ (last' <= now' => LockInv')
<1>0. /\ Counted' = 0 /\ (Counted - unsaved)' = 0
      /\ gfails' \in Nat /\ nvs'.fails \in Nat /\ nvs'.lock \in Nat
  BY PasswordAssumption DEF Counted, TypeOK
<1>1. Capped(0) = 0
  BY CappedIs
<1>2. GlobalLock(0) = 0
  BY GlobalLockIs, PasswordAssumption
<1>3. Capped(Counted)' = 0 /\ Capped(Counted - unsaved)' = 0
  BY <1>0, <1>1 DEF Capped
<1>4. GlobalLock(Counted)' = 0 /\ GlobalLock(Counted - unsaved)' = 0
  BY <1>0, <1>2 DEF GlobalLock, LockSeconds
<1>5. CountInv'
  BY <1>0, <1>3 DEF CountInv
<1>6. last' <= now' => LockInv'
  BY <1>0, <1>4 DEF LockInv
<1>7. QED
  BY <1>0, <1>5, <1>6

LEMMA PairNext ==
    ASSUME TypeOK, PairInv, [Next]_vars
    PROVE  PairInv'
<1>0. used.sets \in Nat /\ pw.salt \in Nat /\ nvs.salt \in Nat
  BY DEF TypeOK
<1>1. CASE Uncounted
  BY <1>1 DEF Uncounted, PairInv
<1>2. ASSUME NEW s \in Sessions, NEW written, NoteFailure(s, written) PROVE PairInv'
  <2>1. pw' = pw /\ nvs'.salt = nvs.salt
    BY <1>2, FailureIs
  <2>2. used'.sets = used.sets
    BY <1>2 DEF NoteFailure, RecordFailure, TypeOK
  <2>3. QED
    BY <2>1, <2>2 DEF PairInv
<1>3. ASSUME NEW s \in Sessions, NEW written, NoteSuccess(s, written) PROVE PairInv'
  BY <1>3, SuccessIs DEF PairInv
<1>4. CASE Set \/ (\E written \in SUBSET Keys : Clear(written))
  <2>1. /\ used'.sets = used.sets + 1
        /\ pw'.salt \in {0, used.sets + 1} /\ nvs'.salt \in {nvs.salt, 0, used.sets + 1}
    BY <1>4, ForgetIs
  <2>2. QED
    BY <1>0, <2>1 DEF PairInv
<1>5. ASSUME NEW written \in Beginnings, SetFails(written) PROVE PairInv'
  <2>1. used'.sets = used.sets + 1 /\ pw' = pw /\ (nvs' = nvs \/ nvs'.salt = used.sets + 1)
    BY <1>5, SetFailsIs
  <2>2. QED
    BY <1>0, <2>1 DEF PairInv
<1>6. CASE Reboot
  <2>1. pw'.salt \in {0, nvs.salt} /\ nvs' = nvs /\ used'.sets = used.sets
    BY <1>6, RebootIs
  <2>2. QED
    BY <1>0, <2>1 DEF PairInv
<1>7. QED
  BY <1>1, <1>2, <1>3, <1>4, <1>5, <1>6, NextIs

\* A password that could not be stored: NVS is as it was, or has another one.
LEMMA SetFailsKeeps ==
    ASSUME TypeOK, PairInv, CountInv, NEW written \in Beginnings, SetFails(written)
    PROVE  /\ nvs' = nvs \/ ~Persisted'
           /\ nvs' = nvs => Persisted' = Persisted
           /\ Counted' = Counted /\ IsSet' = IsSet
           /\ UNCHANGED <<gfails, guntil, run, unsaved, lost, attempt, now, last>>
<1>0. used.sets \in Nat /\ pw.salt \in Nat
  BY DEF TypeOK
<1>1. /\ nvs' = nvs \/ nvs'.salt = used.sets + 1
      /\ UNCHANGED <<pw, gfails, guntil, run, unsaved, lost, attempt, now, last>>
  BY SetFailsIs
<1>2. ASSUME nvs'.salt = used.sets + 1 PROVE ~Persisted'
  <2>1. pw.salt # used.sets + 1
    BY <1>0 DEF PairInv
  <2>2. LoadedPassword' = pw' => pw'.salt = nvs'.salt \/ pw'.salt = 0
    BY DEF LoadedPassword, NoPassword
  <2>3. IsSet' => pw'.salt # 0
    BY DEF IsSet
  <2>4. QED
    BY <1>1, <1>2, <2>1, <2>2, <2>3 DEF Persisted
<1>3. QED
  BY <1>1, <1>2 DEF Persisted, Counted, IsSet, LoadedPassword

\* A power cycle that does not change the password forgets what NVS was not told.
LEMMA RebootKeeps ==
    ASSUME TypeOK, CountInv, Reboot, pw' = pw
    PROVE  /\ Counted' = Counted - unsaved /\ (Counted - unsaved)' = Counted - unsaved
           /\ (IsSet' <=> IsSet) /\ (Persisted' <=> IsSet) /\ (IsSet => Persisted)
           /\ run' = run /\ lost' + unsaved' <= run' /\ unsaved' = 0 /\ (run = 0 => lost' = 0)
<1>0. run \in Nat /\ lost \in Nat /\ unsaved \in Nat /\ lost + unsaved <= run
  BY DEF TypeOK, CountInv
<1>1. pw' = LoadedPassword /\ nvs' = nvs /\ run' = run /\ unsaved' = 0 /\ lost' = lost + unsaved
  BY RebootIs
<1>2. (IsSet' <=> IsSet) /\ LoadedPassword' = LoadedPassword
  BY <1>1 DEF IsSet, LoadedPassword
<1>3. (Persisted' <=> IsSet) /\ (IsSet => Persisted)
  BY <1>1, <1>2 DEF Persisted
<1>4. Counted' = Counted - unsaved /\ (Counted - unsaved)' = Counted - unsaved /\ lost' + unsaved' <= run'
  BY <1>0, <1>1 DEF Counted
<1>5. run = 0 => lost' = 0
  BY <1>0, <1>1
<1>6. QED
  BY <1>1, <1>2, <1>3, <1>4, <1>5

\* The numbers after a strike.
LEMMA StrikeCounts ==
    ASSUME TypeOK, CountInv, NEW s \in Sessions, NEW written, NoteFailure(s, written)
    PROVE  /\ Counted' = Counted + 1 /\ gfails' \in 0 .. UINT8_MAX /\ gfails' >= Capped(Counted + 1)
           /\ lost' + unsaved' <= run'
           /\ (Counted - unsaved)' \in {Counted + 1, Counted - unsaved}
           /\ (Counted - unsaved)' = Counted + 1 => nvs'.fails = gfails' \/ unsaved' # 0
           /\ unsaved' = 0 \/ (Counted - unsaved)' = Counted - unsaved
<1>0. /\ run \in Nat /\ lost \in Nat /\ unsaved \in Nat /\ lost + unsaved <= run
      /\ gfails \in 0 .. UINT8_MAX /\ UINT8_MAX \in Nat /\ gfails >= Capped(Counted)
  BY PasswordAssumption DEF TypeOK, CountInv
<1>1. /\ run' = run + 1 /\ lost' = lost /\ gfails' = Increment(gfails) /\ gfails' \in 0 .. UINT8_MAX
      /\ \/ unsaved' = unsaved + 1
         \/ unsaved' = 0 /\ nvs'.fails = gfails'
  BY FailureIs
<1>2. Counted' = Counted + 1 /\ Counted \in Nat
  BY <1>0, <1>1 DEF Counted
<1>3. gfails' >= Capped(Counted + 1)
  BY <1>0, <1>1, <1>2 DEF Capped, Increment
<1>4. unsaved' = unsaved + 1 => (Counted - unsaved)' = Counted - unsaved
  BY <1>0, <1>2
<1>5. unsaved' = 0 => (Counted - unsaved)' = Counted + 1
  BY <1>0, <1>2
<1>6. lost' + unsaved' <= run'
  BY <1>0, <1>1
<1>7. QED
  BY <1>0, <1>1, <1>2, <1>3, <1>4, <1>5, <1>6

LEMMA CountNext ==
    ASSUME TypeOK, TypeOK', PairInv, CountInv, [Next]_vars
    PROVE  CountInv'
<1>0. /\ run \in Nat /\ lost \in Nat /\ unsaved \in Nat /\ gfails \in Nat /\ nvs.fails \in Nat
  BY PasswordAssumption DEF TypeOK
<1>c. Counted \in Nat /\ Counted - unsaved \in Nat /\ Counted - unsaved <= Counted
  BY CountedIs
<1>1. CASE Uncounted
  BY <1>1, UncountedKeeps DEF Uncounted, CountInv, Capped
<1>2. ASSUME NEW s \in Sessions, NEW written, NoteFailure(s, written) PROVE CountInv'
  <2>1. /\ IsSet /\ pw' = pw /\ nvs'.salt = nvs.salt /\ nvs'.ver = nvs.ver
        /\ nvs'.fails = gfails' \/ nvs'.fails = nvs.fails
        /\ unsaved' = unsaved + 1 \/ (unsaved' = 0 /\ nvs'.fails = gfails')
    BY <1>2, FailureIs
  <2>2. Persisted' = Persisted /\ IsSet'
    BY <2>1, VerdictKeeps
  <2>3. /\ Counted' = Counted + 1 /\ gfails' \in 0 .. UINT8_MAX /\ gfails' >= Capped(Counted + 1)
        /\ lost' + unsaved' <= run'
        /\ (Counted - unsaved)' \in {Counted + 1, Counted - unsaved}
        /\ unsaved' = 0 \/ (Counted - unsaved)' = Counted - unsaved
    BY <1>2, StrikeCounts
  <2>4. gfails' \in Nat
    BY <2>3, PasswordAssumption
  <2>5. /\ Capped(Counted + 1) \in Nat /\ Capped(Counted - unsaved) \in Nat
        /\ Capped(Counted - unsaved) <= Capped(Counted + 1)
    <3>1. Counted + 1 \in Nat /\ Counted - unsaved <= Counted + 1
      BY <1>c
    <3>2. QED
      BY <1>c, <3>1, CappedIs
  <2>6. Persisted' => nvs'.fails >= Capped((Counted - unsaved)')
    <3>1. CASE nvs'.fails = gfails'
      BY <2>3, <2>4, <2>5, <3>1
    <3>2. CASE nvs'.fails = nvs.fails /\ (Counted - unsaved)' = Counted - unsaved
      BY <2>2, <3>2 DEF CountInv
    <3>3. QED
      BY <1>0, <2>1, <2>3, <3>1, <3>2
  <2>7. Capped(Counted)' = Capped(Counted + 1) /\ Capped(Counted - unsaved)' = Capped((Counted - unsaved)')
    BY <2>3 DEF Capped
  <2>8. QED
    BY <2>2, <2>3, <2>6, <2>7 DEF CountInv
<1>3. ASSUME NEW s \in Sessions, NEW written, NoteSuccess(s, written) PROVE CountInv'
  BY <1>3, SuccessIs, FreshIsCounted
<1>4. CASE Set \/ (\E written \in SUBSET Keys : Clear(written))
  BY <1>4, ForgetIs, FreshIsCounted
<1>5. ASSUME NEW written \in Beginnings, SetFails(written) PROVE CountInv'
  <2>1. /\ nvs' = nvs \/ ~Persisted'
        /\ nvs' = nvs => Persisted' = Persisted
        /\ Counted' = Counted /\ IsSet' = IsSet
        /\ UNCHANGED <<gfails, run, unsaved, lost>>
    BY <1>5, SetFailsKeeps
  <2>2. Capped(Counted)' = Capped(Counted) /\ Capped(Counted - unsaved)' = Capped(Counted - unsaved)
    BY <2>1 DEF Capped
  <2>3. QED
    BY <2>1, <2>2 DEF CountInv
<1>6. CASE Reboot
  <2>1. CASE pw' # pw
    BY <1>6, <2>1, RebootIs, FreshIsCounted
  <2>2. CASE pw' = pw
    <3>1. /\ Counted' = Counted - unsaved /\ (Counted - unsaved)' = Counted - unsaved
          /\ (IsSet' <=> IsSet) /\ (Persisted' <=> IsSet) /\ (IsSet => Persisted)
          /\ run' = run /\ lost' + unsaved' <= run' /\ unsaved' = 0 /\ (run = 0 => lost' = 0)
      BY <1>6, <2>2, RebootKeeps
    <3>2. gfails' = nvs.fails /\ nvs' = nvs
      BY <1>6, RebootIs
    <3>3. Capped(Counted)' = Capped(Counted - unsaved) /\ Capped(Counted - unsaved)' = Capped(Counted - unsaved)
      BY <3>1 DEF Capped
    <3>4. CASE IsSet
      BY <3>1, <3>2, <3>3, <3>4 DEF CountInv
    <3>5. CASE ~IsSet
      <4>1. run' = 0 /\ lost' = 0 /\ unsaved' = 0
        <5>1. run = 0
          BY <3>5 DEF CountInv
        <5>2. QED
          BY <3>1, <5>1
      <4>2. QED
        BY <4>1, FreshIsCounted
    <3>6. QED
      BY <3>4, <3>5
  <2>3. QED
    BY <2>1, <2>2
<1>7. QED
  BY <1>1, <1>2, <1>3, <1>4, <1>5, <1>6, NextIs

LEMMA LockNext ==
    ASSUME TypeOK, TypeOK', PairInv, CountInv, LockInv, [Next]_vars
    PROVE  LockInv'
<1>0. /\ now \in Nat /\ last \in Nat /\ guntil \in Nat /\ nvs.lock \in Nat /\ last <= now
      /\ guntil' \in Nat /\ nvs'.lock \in Nat
  BY DEF TypeOK, LockInv
<1>c. Counted \in Nat /\ Counted - unsaved \in Nat /\ Counted - unsaved <= Counted
  BY CountedIs
<1>g. GlobalLock(Counted) \in Nat /\ GlobalLock(Counted - unsaved) \in Nat
  BY <1>c, GlobalLockIs
<1>1. CASE Uncounted /\ (now' = now \/ now' = now + 1)
  <2>1. /\ UNCHANGED <<guntil, nvs, last, unsaved>> /\ Counted' = Counted /\ Persisted' = Persisted
    BY <1>1, UncountedKeeps DEF Uncounted
  <2>2. last' <= now'
    BY <1>0, <1>1, <2>1
  <2>3. /\ GlobalLock(Counted)' = GlobalLock(Counted)
        /\ GlobalLock(Counted - unsaved)' = GlobalLock(Counted - unsaved)
    BY <2>1 DEF GlobalLock, LockSeconds
  <2>4. QED
    BY <2>1, <2>2, <2>3 DEF LockInv
<1>2. ASSUME NEW s \in Sessions, NEW written, NoteFailure(s, written) PROVE LockInv'
  <2>1. /\ guntil' = (IF GlobalLock(gfails') > 0 THEN now + GlobalLock(gfails') ELSE guntil)
        /\ GlobalLock(gfails') \in Nat /\ pw' = pw /\ nvs'.salt = nvs.salt /\ nvs'.ver = nvs.ver
        /\ nvs'.lock >= GlobalLock(gfails') \/ nvs'.lock = nvs.lock
        /\ \/ unsaved' = unsaved + 1
           \/ unsaved' = 0 /\ nvs'.lock >= GlobalLock(gfails')
        /\ last' = now /\ now' = now
    BY <1>2, FailureIs
  <2>2. Persisted' = Persisted
    BY <2>1, VerdictKeeps
  <2>3. /\ Counted' = Counted + 1 /\ gfails' \in 0 .. UINT8_MAX /\ gfails' >= Capped(Counted + 1)
        /\ (Counted - unsaved)' \in {Counted + 1, Counted - unsaved}
        /\ unsaved' = 0 \/ (Counted - unsaved)' = Counted - unsaved
    BY <1>2, StrikeCounts
  <2>4. GlobalLock(Counted + 1) \in Nat /\ GlobalLock(Counted + 1) <= GlobalLock(gfails')
    <3>1. Counted + 1 \in Nat
      BY <1>c
    <3>2. QED
      BY <2>3, <3>1, CounterCallsFor, GlobalLockIs
  <2>5. GlobalLock(Counted - unsaved) <= GlobalLock(Counted + 1)
    <3>1. Counted + 1 \in Nat /\ Counted - unsaved <= Counted + 1
      BY <1>c
    <3>2. QED
      BY <1>c, <3>1, GlobalLockGrows
  <2>6. /\ GlobalLock(Counted)' = GlobalLock(Counted + 1)
        /\ GlobalLock(Counted - unsaved)' = GlobalLock((Counted - unsaved)')
    BY <2>3 DEF GlobalLock, LockSeconds
  <2>7. Persisted' => nvs'.lock >= GlobalLock((Counted - unsaved)')
    <3>1. CASE nvs'.lock >= GlobalLock(gfails')
      BY <1>0, <1>g, <2>1, <2>3, <2>4, <2>5, <3>1
    <3>2. CASE nvs'.lock = nvs.lock /\ (Counted - unsaved)' = Counted - unsaved
      BY <2>2, <3>2 DEF LockInv
    <3>3. QED
      <4>1. unsaved \in Nat
        BY DEF TypeOK
      <4>2. unsaved' = 0 => nvs'.lock >= GlobalLock(gfails')
        BY <2>1, <4>1
      <4>3. QED
        BY <2>1, <2>3, <4>2, <3>1, <3>2
  <2>8. GlobalLock(Counted + 1) > 0 => guntil' >= last' + GlobalLock(Counted + 1)
    BY <1>0, <2>1, <2>4
  <2>9. last' <= now'
    BY <1>0, <2>1
  <2>10. QED
    BY <2>6, <2>7, <2>8, <2>9 DEF LockInv
<1>3. CASE \/ \E s \in Sessions, written \in SUBSET {"fails", "lock"} : NoteSuccess(s, written)
           \/ Set \/ (\E written \in SUBSET Keys : Clear(written))
  <2>1. run' = 0 /\ lost' = 0 /\ unsaved' = 0 /\ UNCHANGED <<last, now>>
    BY <1>3, SuccessIs, ForgetIs
  <2>2. last' <= now'
    BY <1>0, <2>1
  <2>3. QED
    BY <2>1, <2>2, FreshIsCounted
<1>4. ASSUME NEW written \in Beginnings, SetFails(written) PROVE LockInv'
  <2>1. /\ nvs' = nvs \/ ~Persisted'
        /\ nvs' = nvs => Persisted' = Persisted
        /\ Counted' = Counted /\ UNCHANGED <<guntil, unsaved, last, now>>
    BY <1>4, SetFailsKeeps
  <2>2. /\ GlobalLock(Counted)' = GlobalLock(Counted)
        /\ GlobalLock(Counted - unsaved)' = GlobalLock(Counted - unsaved)
    BY <2>1 DEF GlobalLock, LockSeconds
  <2>3. QED
    BY <2>1, <2>2 DEF LockInv
<1>5. CASE Reboot
  <2>0. /\ UNCHANGED <<last, now, nvs>>
        /\ guntil' = (IF nvs.lock > 0 THEN now + nvs.lock ELSE 0)
    BY <1>5, RebootIs
  <2>1. CASE pw' # pw
    BY <1>0, <1>5, <2>0, <2>1, RebootIs, FreshIsCounted
  <2>2. CASE pw' = pw
    <3>1. /\ Counted' = Counted - unsaved /\ (Counted - unsaved)' = Counted - unsaved
          /\ (Persisted' <=> IsSet) /\ (IsSet => Persisted)
          /\ run' = run /\ lost' + unsaved' <= run' /\ unsaved' = 0 /\ (run = 0 => lost' = 0)
      BY <1>5, <2>2, RebootKeeps
    <3>2. /\ GlobalLock(Counted)' = GlobalLock(Counted - unsaved)
          /\ GlobalLock(Counted - unsaved)' = GlobalLock(Counted - unsaved)
      BY <3>1 DEF GlobalLock, LockSeconds
    <3>3. CASE IsSet
      <4>1. nvs.lock >= GlobalLock(Counted - unsaved)
        BY <3>1, <3>3 DEF LockInv
      <4>2. GlobalLock(Counted - unsaved) > 0 => guntil' >= last' + GlobalLock(Counted - unsaved)
        BY <1>0, <1>g, <2>0, <4>1
      <4>3. QED
        BY <1>0, <2>0, <3>2, <4>1, <4>2 DEF LockInv
    <3>4. CASE ~IsSet
      <4>1. run' = 0 /\ lost' = 0 /\ unsaved' = 0
        <5>1. run = 0
          BY <3>4 DEF CountInv
        <5>2. QED
          BY <3>1, <5>1
      <4>2. QED
        BY <1>0, <2>0, <4>1, FreshIsCounted
    <3>5. QED
      BY <3>3, <3>4
  <2>3. QED
    BY <2>1, <2>2
<1>6. QED
  BY <1>1, <1>2, <1>3, <1>4, <1>5, NextIs

LEMMA TableNext ==
    ASSUME TypeOK, TableInv, [Next]_vars
    PROVE  TableInv'
<1>1. CASE Uncounted
  BY <1>1 DEF Uncounted, TableInv
<1>2. ASSUME NEW s \in Sessions, NEW written, NoteFailure(s, written) PROVE TableInv'
  <2> DEFINE ip == attempt[s]
  <2>1. ip \in Ips /\ ipTotal' = [ipTotal EXCEPT ![ip] = @ + 1]
    BY <1>2, FailureIs
  <2>2. PICK k \in 1 .. IP_SLOTS, f \in 0 .. UINT8_MAX, u \in Nat :
           /\ slots' = [slots EXCEPT ![k] = [ip |-> ip, fails |-> f, until |-> u]]
           /\ f = Increment(IF slots[k].ip = ip THEN slots[k].fails ELSE 0)
           /\ f < DEVICE_PW_IP_MAX_FAILS => u = (IF slots[k].ip = ip THEN slots[k].until ELSE 0)
    BY <1>2, FailureEntry
  <2> HIDE DEF ip
  <2>3. /\ \A i \in 1 .. IP_SLOTS \ {k} : slots'[i] = slots[i]
        /\ slots'[k].ip = ip /\ slots'[k].fails = f /\ slots'[k].until = u
    BY <2>2 DEF TypeOK
  <2>4. /\ ipTotal[ip] \in Nat /\ ipTotal'[ip] = ipTotal[ip] + 1
        /\ \A a \in Ips \ {ip} : ipTotal'[a] = ipTotal[a]
    BY <2>1 DEF TypeOK
  <2>5. ASSUME NEW i \in 1 .. IP_SLOTS \ {k}
        PROVE  /\ slots'[i].ip # NoIp => slots'[i].fails <= ipTotal'[slots'[i].ip]
               /\ slots'[i].fails < DEVICE_PW_IP_MAX_FAILS => slots'[i].until = 0
    <3>1. /\ slots[i].ip # NoIp => slots[i].fails <= ipTotal[slots[i].ip]
          /\ slots[i].fails < DEVICE_PW_IP_MAX_FAILS => slots[i].until = 0
          /\ slots[i].ip \in Ips \cup {NoIp} /\ slots[i].fails \in Nat
      BY PasswordAssumption DEF TableInv, TypeOK
    <3>2. slots'[i] = slots[i]
      BY <2>3
    <3>3. slots[i].ip # NoIp => slots[i].fails <= ipTotal'[slots[i].ip]
      BY <2>4, <3>1
    <3>4. QED
      BY <3>1, <3>2, <3>3
  <2>6. f <= ipTotal[ip] + 1
    <3>1. CASE slots[k].ip = ip
      <4>1. ip # NoIp /\ slots[k].fails \in 0 .. UINT8_MAX
        BY <2>1, PasswordAssumption DEF TypeOK
      <4>2. slots[k].fails <= ipTotal[ip] /\ f = Increment(slots[k].fails)
        BY <2>2, <3>1, <4>1 DEF TableInv
      <4>3. QED
        BY <2>4, <4>1, <4>2 DEF Increment
    <3>2. CASE slots[k].ip # ip
      <4>1. f = Increment(0)
        BY <2>2, <3>2
      <4>2. QED
        BY <2>4, <4>1 DEF Increment
    <3>3. QED
      BY <3>1, <3>2
  <2>7. f < DEVICE_PW_IP_MAX_FAILS => u = 0
    <3>1. CASE slots[k].ip = ip
      <4>1. slots[k].fails \in 0 .. UINT8_MAX
        BY DEF TypeOK
      <4>2. slots[k].fails <= f
        BY <2>2, <3>1, <4>1, IncrementIs
      <4>3. f < DEVICE_PW_IP_MAX_FAILS => slots[k].fails < DEVICE_PW_IP_MAX_FAILS
        BY <4>1, <4>2, PasswordAssumption
      <4>4. QED
        BY <2>2, <3>1, <4>3 DEF TableInv
    <3>2. CASE slots[k].ip # ip
      BY <2>2, <3>2
    <3>3. QED
      BY <3>1, <3>2
  <2>8. QED
    BY <2>3, <2>4, <2>5, <2>6, <2>7 DEF TableInv
<1>3. ASSUME NEW s \in Sessions, NEW written, NoteSuccess(s, written) PROVE TableInv'
  <2>1. ipTotal' = ipTotal /\ \A i \in 1 .. IP_SLOTS : slots'[i] \in {slots[i], FreeSlot}
    BY <1>3, SuccessIs
  <2>2. QED
    BY <2>1, FreeSlotIs DEF TableInv
<1>4. CASE Set \/ (\E written \in SUBSET Keys : Clear(written)) \/ Reboot
  <2>1. slots' = [i \in 1 .. IP_SLOTS |-> FreeSlot]
    BY <1>4, ForgetIs, RebootIs
  <2>2. QED
    BY <2>1, FreeSlotIs DEF TableInv
<1>5. ASSUME NEW written \in Beginnings, SetFails(written) PROVE TableInv'
  <2>1. slots' = slots /\ ipTotal' = ipTotal
    BY <1>5, SetFailsIs
  <2>2. QED
    BY <2>1 DEF TableInv
<1>6. QED
  BY <1>1, <1>2, <1>3, <1>4, <1>5, NextIs

LEMMA RateNext ==
    ASSUME TypeOK, TypeOK', PairInv, CountInv, CountInv', LockInv, RateInv, [Next]_vars
    PROVE  RateInv'
<1> DEFINE G == DEVICE_PW_GLOBAL_MAX_FAILS
           N == Cardinality(Sessions)
<1>0. /\ now \in Nat /\ last \in Nat /\ last <= now /\ G \in Nat \ {0} /\ N \in Nat
      /\ Cardinality(Open) \in Nat /\ Cardinality(Open) <= N
  BY OpenIs, PasswordAssumption DEF TypeOK, LockInv
<1>a. Allowed(now) \in Nat /\ Allowed(last) \in Nat /\ Allowed(now) >= G - 1 + N /\ Allowed(last) <= Allowed(now)
  BY <1>0, AllowedIs
<1>c. Counted \in Nat /\ Counted - unsaved \in Nat /\ Counted - unsaved <= Counted
  BY CountedIs
<1>1. ASSUME NEW s \in Sessions, NEW ip \in Ips, Pake1(s, ip) PROVE RateInv'
  <2>1. /\ attempt[s] = NoIp /\ attempt' = [attempt EXCEPT ![s] = ip] /\ LockRemaining(ip) = 0
        /\ UNCHANGED <<now, last>> /\ Counted' = Counted
    BY <1>1 DEF Pake1, Counted
  <2>2. Cardinality(Open') = Cardinality(Open) + 1 /\ Cardinality(Open') <= N
    BY <2>1, OpensOne
  <2>3. CASE Counted < G
    <3>1. Counted + Cardinality(Open') <= Allowed(now)
      BY <1>0, <1>a, <1>c, <2>2, <2>3
    <3>2. QED
      BY <2>1, <3>1 DEF RateInv, Allowed
  <2>4. CASE Counted >= G
    <3>1. IsSet
      <4>1. run \in Nat /\ lost \in Nat /\ Counted = run - lost
        BY CountedIs DEF TypeOK
      <4>2. run # 0
        BY <1>0, <2>4, <4>1
      <4>3. QED
        BY <4>2 DEF CountInv
    <3>2. GlobalLock(Counted) \in Nat /\ GlobalLock(Counted) >= DEVICE_PW_LOCK_BASE_S
      BY <1>c, <2>4, GlobalLockIs
    <3>3. guntil \in Nat /\ guntil >= last + DEVICE_PW_LOCK_BASE_S
      <4>1. guntil \in Nat
        BY DEF TypeOK
      <4>2. DEVICE_PW_LOCK_BASE_S \in Nat \ {0}
        BY PasswordAssumption
      <4>3. GlobalLock(Counted) > 0
        BY <3>2, <4>2
      <4>4. guntil >= last + GlobalLock(Counted)
        BY <4>3 DEF LockInv
      <4>5. QED
        BY <1>0, <3>2, <4>1, <4>2, <4>4
    <3>4. ~(guntil > now)
      <4>1. Remaining(guntil) \in Nat /\ Remaining(guntil) <= 0
        BY <1>0, <2>1, <3>1, <3>3, LockRemainingIs, RemainingIs
      <4>2. QED
        BY <1>0, <3>3, <4>1, RemainingIs
    <3>5. now >= last + DEVICE_PW_LOCK_BASE_S
      BY <1>0, <3>3, <3>4, PasswordAssumption
    <3>6. Allowed(now) >= Allowed(last) + N
      BY <1>0, <3>5, AllowedIs
    <3>7. Counted <= Allowed(last)
      BY <2>4 DEF RateInv
    <3>8. Counted + Cardinality(Open') <= Allowed(now)
      BY <1>0, <1>a, <1>c, <2>2, <3>6, <3>7
    <3>9. QED
      BY <2>1, <3>8 DEF RateInv, Allowed
  <2>5. QED
    BY <1>0, <1>c, <2>3, <2>4
<1>2. ASSUME NEW s \in Sessions, Abandon(s) \/ FailureIgnored(s) PROVE RateInv'
  <2>1. /\ attempt[s] # NoIp /\ attempt' = [attempt EXCEPT ![s] = NoIp]
        /\ UNCHANGED <<now, last>> /\ Counted' = Counted
    BY <1>2 DEF Abandon, FailureIgnored, Counted
  <2>2. Cardinality(Open') = Cardinality(Open) - 1
    BY <2>1, ClosesOne
  <2>3. Counted + Cardinality(Open') <= Allowed(now)
    BY <1>0, <1>a, <1>c, <2>2 DEF RateInv
  <2>4. QED
    BY <2>1, <2>3 DEF RateInv, Allowed
<1>3. ASSUME NEW s \in Sessions, NEW written, NoteFailure(s, written) PROVE RateInv'
  <2>1. /\ attempt[s] # NoIp /\ attempt' = [attempt EXCEPT ![s] = NoIp]
        /\ last' = now /\ now' = now /\ Counted' = Counted + 1
    BY <1>3, FailureIs, StrikeCounts
  <2>2. Cardinality(Open') = Cardinality(Open) - 1
    BY <2>1, ClosesOne
  <2>3. Counted' + Cardinality(Open') <= Allowed(now)
    BY <1>0, <1>a, <1>c, <2>1, <2>2 DEF RateInv
  <2>4. Cardinality(Open') \in Nat
    <3>1. IsFiniteSet(Sessions) /\ Open' \subseteq Sessions
      BY PasswordAssumption DEF Open
    <3>2. QED
      BY <3>1, FS_Subset, FS_CardinalityType
  <2>5. Counted' <= Allowed(now)
    BY <1>0, <1>a, <1>c, <2>1, <2>3, <2>4
  <2>6. Allowed(now)' = Allowed(now) /\ Allowed(last)' = Allowed(now)
    BY <2>1 DEF Allowed
  <2>7. QED
    BY <2>3, <2>5, <2>6 DEF RateInv
<1>4. ASSUME NEW s \in Sessions, NEW written, NoteSuccess(s, written) PROVE RateInv'
  <2>1. /\ attempt[s] # NoIp /\ attempt' = [attempt EXCEPT ![s] = NoIp]
        /\ Counted' = 0 /\ UNCHANGED <<now, last>>
    BY <1>4, SuccessIs, FreshIsCounted
  <2>2. Cardinality(Open') = Cardinality(Open) - 1
    BY <2>1, ClosesOne
  <2>3. Counted' + Cardinality(Open') <= Allowed(now) /\ ~(Counted' >= G)
    BY <1>0, <1>a, <2>1, <2>2
  <2>4. QED
    BY <2>1, <2>3 DEF RateInv, Allowed
<1>5. CASE Set \/ (\E written \in SUBSET Keys : Clear(written))
  <2>1. Counted' = 0 /\ UNCHANGED <<attempt, now, last>>
    BY <1>5, ForgetIs, FreshIsCounted
  <2>2. Open' = Open
    BY <2>1 DEF Open
  <2>3. Counted' + Cardinality(Open') <= Allowed(now) /\ ~(Counted' >= G)
    BY <1>0, <1>a, <2>1, <2>2
  <2>4. QED
    BY <2>1, <2>3 DEF RateInv, Allowed
<1>6. ASSUME NEW written \in Beginnings, SetFails(written) PROVE RateInv'
  <2>1. Counted' = Counted /\ UNCHANGED <<attempt, now, last>>
    BY <1>6, SetFailsKeeps
  <2>2. Open' = Open
    BY <2>1 DEF Open
  <2>3. QED
    BY <2>1, <2>2 DEF RateInv, Allowed
<1>7. CASE Tick
  <2>1. UNCHANGED <<attempt, last>> /\ Counted' = Counted /\ now' = now + 1
    BY <1>7 DEF Tick, Counted
  <2>2. Open' = Open
    BY <2>1 DEF Open
  <2>3. Allowed(now + 1) \in Nat /\ Allowed(now) <= Allowed(now + 1)
    BY <1>0, AllowedIs
  <2>4. Counted + Cardinality(Open) <= Allowed(now + 1)
    BY <1>0, <1>a, <1>c, <2>3 DEF RateInv
  <2>5. Allowed(now)' = Allowed(now + 1) /\ Allowed(last)' = Allowed(last)
    BY <2>1 DEF Allowed
  <2>6. QED
    BY <2>1, <2>2, <2>4, <2>5 DEF RateInv
<1>8. CASE Reboot
  <2>1. attempt' = [s \in Sessions |-> NoIp] /\ UNCHANGED <<now, last>>
    BY <1>8, RebootIs
  <2>2. Cardinality(Open') = 0
    <3>1. Open' = {}
      BY <2>1 DEF Open
    <3>2. QED
      BY <3>1, FS_EmptySet
  <2>3. Counted' \in Nat /\ Counted' <= Counted
    <3>1. CASE pw' # pw
      <4>1. Counted' = 0
        BY <1>8, <3>1, RebootIs, FreshIsCounted
      <4>2. QED
        BY <1>c, <4>1
    <3>2. CASE pw' = pw
      BY <1>8, <1>c, <3>2, RebootKeeps
    <3>3. QED
      BY <3>1, <3>2
  <2>4. Counted' >= G => Counted' <= Allowed(last)
    BY <1>0, <1>a, <1>c, <2>3 DEF RateInv
  <2>5. Counted' + Cardinality(Open') <= Allowed(now)
    BY <1>0, <1>a, <2>2, <2>3, <2>4
  <2>6. QED
    BY <2>1, <2>4, <2>5 DEF RateInv, Allowed
<1>9. CASE UNCHANGED vars
  BY <1>9 DEF vars, RateInv, Open, Allowed, Counted
<1>10. QED
  BY <1>1, <1>2, <1>3, <1>4, <1>5, <1>6, <1>7, <1>8, <1>9 DEF Next
-----------------------------------------------------------------------------
(* The theorems *)

LEMMA InitEstablishes == Init => PasswordInv
<1> SUFFICES ASSUME Init PROVE PasswordInv
  OBVIOUS
<1>0. /\ pw = NoPassword /\ slots = [i \in 1 .. IP_SLOTS |-> FreeSlot] /\ gfails = 0 /\ guntil = 0
      /\ nvs = [salt |-> 0, ver |-> 0, fails |-> 0, lock |-> 0] /\ attempt = [s \in Sessions |-> NoIp]
      /\ now = 0 /\ run = 0 /\ last = 0 /\ ipRun = Zero /\ ipLast = Zero /\ ipTotal = Zero
      /\ unsaved = 0 /\ lost = 0
      /\ used = [failures |-> 0, sets |-> 0, boots |-> 0, errors |-> 0]
  BY DEF Init
<1>1. TypeOK
  <2>1. slots \in [1 .. IP_SLOTS -> Entries]
    BY <1>0, FreeSlotIs
  <2>2. nvs \in Stored
    BY <1>0, ZeroCounts DEF Stored
  <2>3. used \in Bounds
    BY <1>0 DEF Bounds
  <2>4. Zero \in [Ips -> Nat] /\ attempt \in [Sessions -> Ips \cup {NoIp}]
    BY <1>0 DEF Zero
  <2>5. pw \in Pairs
    BY <1>0 DEF NoPassword, Pairs
  <2>6. QED
    BY <1>0, <2>1, <2>2, <2>3, <2>4, <2>5, ZeroCounts DEF TypeOK, Entries, Stored, Bounds, Pairs
<1>2. PairInv
  BY <1>0 DEF PairInv, NoPassword
<1>3. Counted = 0 /\ Counted - unsaved = 0 /\ nvs.fails = 0 /\ nvs.lock = 0
  BY <1>0 DEF Counted
<1>4. CountInv
  <2>1. Capped(0) = 0
    BY CappedIs
  <2>2. QED
    BY <1>0, <1>3, <2>1 DEF CountInv
<1>5. LockInv
  <2>1. GlobalLock(0) = 0
    BY GlobalLockIs, PasswordAssumption
  <2>2. QED
    BY <1>0, <1>3, <2>1 DEF LockInv
<1>6. RateInv
  <2>1. Cardinality(Open) = 0
    <3>1. Open = {}
      BY <1>0 DEF Open
    <3>2. QED
      BY <3>1, FS_EmptySet
  <2>2. Allowed(0) \in Nat /\ DEVICE_PW_GLOBAL_MAX_FAILS \in Nat \ {0}
    BY AllowedIs, PasswordAssumption
  <2>3. Counted + Cardinality(Open) <= Allowed(now)
    BY <1>0, <1>3, <2>1, <2>2
  <2>4. QED
    BY <1>3, <2>2, <2>3 DEF RateInv
<1>7. TableInv
  BY <1>0, FreeSlotIs DEF TableInv
<1>8. QED
  BY <1>1, <1>2, <1>4, <1>5, <1>6, <1>7 DEF PasswordInv

LEMMA NextPreserves == PasswordInv /\ [Next]_vars => PasswordInv'
  BY TypeNext, PairNext, CountNext, LockNext, RateNext, TableNext DEF PasswordInv

LEMMA PasswordInvHolds == Spec => []PasswordInv
  BY InitEstablishes, NextPreserves, PTL DEF Spec

\* The table, the counters, the locks and NVS keep their types: no counter
\* leaves its byte, however often it is incremented.
THEOREM TypeCorrect == Spec => []TypeOK
  BY PasswordInvHolds, PTL DEF PasswordInv

\* device_password_lock_remaining_s() reports a lock to everyone whenever the
\* failures call for one, over power cycles, passwords that could not be set or
\* cleared in NVS, counters that stick, and any lockouts that NVS took in part or
\* not at all: such a failure is not counted, from the next boot on.
THEOREM GlobalLockIsHeld == Spec => []GlobalLockHolds
<1>1. PasswordInv => GlobalLockHolds
  <2> SUFFICES ASSUME PasswordInv, IsSet, now < last + GlobalLock(Counted), NEW ip \in Ips
               PROVE  LockRemaining(ip) > 0
    BY DEF GlobalLockHolds, GlobalLock
  <2>0. /\ TypeOK /\ CountInv /\ now \in Nat /\ last \in Nat /\ last <= now /\ guntil \in Nat
        /\ GlobalLock(Counted) > 0 => guntil >= last + GlobalLock(Counted)
    BY DEF PasswordInv, TypeOK, LockInv
  <2>1. GlobalLock(Counted) \in Nat
    <3>1. Counted \in Nat
      BY <2>0, CountedIs
    <3>2. QED
      BY <3>1, GlobalLockIs
  <2>2. guntil > now
    BY <2>0, <2>1
  <2>3. Remaining(guntil) > 0 /\ Remaining(guntil) \in Nat
    BY <2>0, <2>2, RemainingIs
  <2>4. LockRemaining(ip) \in Nat /\ LockRemaining(ip) >= Remaining(guntil)
    BY <2>0, LockRemainingIs
  <2>5. QED
    BY <2>3, <2>4
<1>2. QED
  BY <1>1, PasswordInvHolds, PTL

\* PAKE1 asks for the lock and PAKE3 counts the failure later, so proofs can
\* fail after the lock has closed; all the same no more than one guess per
\* session and base lock is let in beyond the limit, and one for each lockout
\* that NVS did not take in full and a boot has forgotten.
THEOREM GuessesAreRateLimited == Spec => []RateLimited
<1>1. PasswordInv => RateLimited
  <2> SUFFICES ASSUME PasswordInv PROVE RateLimited
    OBVIOUS
  <2>1. /\ TypeOK /\ CountInv /\ run \in Nat /\ lost \in Nat /\ now \in Nat
        /\ Counted + Cardinality(Open) <= Allowed(now)
    BY DEF PasswordInv, TypeOK, RateInv
  <2>2. /\ Cardinality(Open) \in Nat /\ Allowed(now) \in Nat
        /\ Counted \in Nat /\ Counted = run - lost
    BY <2>1, OpenIs, AllowedIs, CountedIs
  <2>3. Counted <= Allowed(now)
    BY <2>1, <2>2
  <2> DEFINE n == Cardinality(Sessions) * (1 + now \div DEVICE_PW_LOCK_BASE_S)
  <2>4. Allowed(now) = DEVICE_PW_GLOBAL_MAX_FAILS - 1 + n
    BY DEF Allowed
  <2>5. n \in Int /\ DEVICE_PW_GLOBAL_MAX_FAILS \in Int
    <3>1. DEVICE_PW_LOCK_BASE_S \in Nat \ {0} /\ Cardinality(Sessions) \in Nat
      BY OpenIs, PasswordAssumption
    <3>2. QED
      BY <2>1, <3>1, PasswordAssumption
  <2> HIDE DEF n
  <2>6. run <= DEVICE_PW_GLOBAL_MAX_FAILS - 1 + lost + n
    BY <2>1, <2>2, <2>3, <2>4, <2>5
  <2>7. QED
    BY <2>6 DEF RateLimited, n
<1>2. QED
  BY <1>1, PasswordInvHolds, PTL

\* ip_slot() hands entries from one address to another, and one address can
\* have several; none of them locks an address that is within its limit.
THEOREM InnocentsAreNotLocked == Spec => []InnocentNotLocked
<1>1. PasswordInv => InnocentNotLocked
  <2> SUFFICES ASSUME PasswordInv, NEW ip \in Ips, ipTotal[ip] < DEVICE_PW_IP_MAX_FAILS,
                      Remaining(guntil) = 0
               PROVE  LockRemaining(ip) = 0
    BY DEF InnocentNotLocked
  <2>0. TypeOK /\ TableInv /\ ip # NoIp /\ ipTotal[ip] \in Nat
    BY PasswordAssumption DEF PasswordInv, TypeOK
  <2>1. CASE ~IsSet
    BY <2>1 DEF LockRemaining
  <2>2. CASE IsSet
    <3>1. ASSUME NEW i \in 1 .. IP_SLOTS, slots[i].ip = ip PROVE slots[i].until = 0
      <4>1. slots[i].fails \in Nat /\ slots[i].fails <= ipTotal[ip]
        <5>1. slots[i].fails \in Nat
          BY <2>0 DEF TypeOK
        <5>2. slots[i].ip # NoIp
          BY <2>0, <3>1
        <5>3. QED
          BY <2>0, <3>1, <5>1, <5>2 DEF TableInv
      <4>2. slots[i].fails < DEVICE_PW_IP_MAX_FAILS
        BY <2>0, <4>1, PasswordAssumption
      <4>3. QED
        BY <2>0, <4>2 DEF TableInv
    <3>2. QED
      BY <2>0, <2>2, <3>1, LockRemainingIs
  <2>3. QED
    BY <2>1, <2>2
<1>2. QED
  BY <1>1, PasswordInvHolds, PTL
=============================================================================
