--------------------------- MODULE LocalAuthProofs ---------------------------
(***************************************************************************)
(* Theorems about LocalAuth, for any pool of sessions, any accounts and    *)
(* any list size, however handlers interleave.                             *)
(***************************************************************************)
EXTENDS LocalAuth, FiniteSetTheorems, WellFoundedInduction, SequenceTheorems, TLAPS

\* A list that is what paired_list.h says of it.
Good(L) == L \in List /\ Unique(L) /\ RolesMatch(L)
-----------------------------------------------------------------------------
(* Lemmas about the operations of the list *)

\* A set of indices that is not empty has a smallest one.
LEMMA Smallest ==
  ASSUME NEW T \in SUBSET Nat, T # {}
  PROVE  \E x \in T : \A y \in T : ~(y < x)
<1> DEFINE R == OpToRel(<, Nat)
<1>1. IsWellFoundedOn(R, Nat)
  BY NatLessThanWellFounded
<1>2. \E x \in T : \A y \in T : ~(<<y, x>> \in R)
  <2> HIDE DEF R
  <2> QED
    BY <1>1, WFMin
<1> QED
  BY <1>2 DEF OpToRel

\* What membership in List says of the entries.
LEMMA ListFacts ==
  ASSUME NEW L \in List
  PROVE  /\ Count(L) \in Nat
         /\ L.owner \in Subs \cup {NoSub}
         /\ L.entries \in Seq(Entry)
         /\ \A i \in 1..Count(L) :
               /\ L.entries[i] \in Entry
               /\ L.entries[i].sub \in Subs
               /\ L.entries[i].role \in {"user", "owner"}
               /\ L.entries[i].key \in Nat
<1>1. L.entries \in Seq(Entry) /\ L.owner \in Subs \cup {NoSub}
  BY DEF List
<1>2. Len(L.entries) \in Nat /\ \A i \in 1..Len(L.entries) : L.entries[i] \in Entry
  BY <1>1, LenProperties, ElementOfSeq
<1> QED
  BY <1>1, <1>2 DEF Count, Entry

\* find_locked() finds the account it is asked for.
LEMMA FindProperties ==
  ASSUME NEW L \in List, NEW u \in Accounts(L)
  PROVE  Find(L, u) \in 1..Count(L) /\ L.entries[Find(L, u)].sub = u
<1> DEFINE T == {i \in 1..Count(L) : L.entries[i].sub = u}
<1>1. Count(L) \in Nat
  BY ListFacts
<1>2. T \in SUBSET Nat /\ T # {}
  BY <1>1 DEF Accounts
<1>3. PICK i \in T : \A j \in T : ~(j < i)
  BY <1>2, Smallest
<1>4. /\ i \in 1..Count(L) /\ L.entries[i].sub = u
      /\ \A j \in 1..(i - 1) : L.entries[j].sub # u
  BY <1>1, <1>3
<1> QED
  BY <1>4 DEF Find

\* paired_list_add() of a paired account changes at most its role and the owner.
LEMMA AddAgain ==
  ASSUME NEW L, Good(L), NEW u \in Accounts(L), NEW k
  PROVE  /\ Good(Add(L, u, k))
         /\ Count(Add(L, u, k)) = Count(L)
         /\ AddIndex(L, u) \in 1..Count(L)
         /\ Add(L, u, k).owner = IF L.owner = NoSub THEN u ELSE L.owner
         /\ \A i \in 1..Count(L) : Add(L, u, k).entries[i].sub = L.entries[i].sub
<1> DEFINE A == Add(L, u, k)
           f == Find(L, u)
           c == IF L.owner = NoSub THEN u ELSE L.owner
           r == IF u = c THEN "owner" ELSE "user"
<1>1. L \in List /\ f \in 1..Count(L) /\ L.entries[f].sub = u
  BY FindProperties DEF Good
<1>2. /\ Count(L) \in Nat /\ L.owner \in Subs \cup {NoSub} /\ L.entries \in Seq(Entry)
      /\ \A i \in 1..Count(L) : L.entries[i] \in Entry /\ L.entries[i].sub \in Subs
  BY <1>1, ListFacts
<1>3. u \in Subs /\ u # NoSub /\ c \in Subs /\ c # NoSub
  BY <1>1, <1>2, PairedListAssumption
<1>4. A = [L EXCEPT !.owner = c, !.entries = [L.entries EXCEPT ![f].role = r]]
  BY <1>1, <1>3 DEF Add, Claim, RoleFor, List
<1> HIDE DEF A, f
<1> DEFINE e == [L.entries EXCEPT ![f].role = r]
<1>5. A.owner = c /\ A.entries = e
  BY <1>1, <1>4 DEF List
<1>6. /\ e \in Seq(Entry) /\ Len(e) = Count(L)
      /\ \A i \in 1..Count(L) : e[i] = IF i = f THEN [L.entries[f] EXCEPT !.role = r] ELSE L.entries[i]
  <2>1. [L.entries[f] EXCEPT !.role = r] \in Entry
    BY <1>1, <1>2 DEF Entry
  <2> QED
    BY <1>1, <1>2, <2>1, ExceptSeq DEF Count
<1>7. \A i \in 1..Count(L) : e[i].sub = L.entries[i].sub /\ e[i].role = IF i = f THEN r ELSE L.entries[i].role
  BY <1>1, <1>2, <1>6 DEF Entry
<1>8. A \in List /\ Count(A) = Count(L)
  <2>1. A \in [owner : Subs \cup {NoSub}, entries : Seq(Entry)]
    BY <1>1, <1>3, <1>4, <1>6 DEF List
  <2> QED
    BY <2>1, <1>5, <1>6 DEF List, Count
<1>9. Unique(A)
  BY <1>1, <1>5, <1>7, <1>8 DEF Good, Unique
<1>10. RolesMatch(A)
  <2> SUFFICES ASSUME NEW i \in 1..Count(L)
               PROVE  (e[i].role = "owner") <=> (e[i].sub = c)
    BY <1>5, <1>8 DEF RolesMatch
  <2>1. CASE i = f
    BY <2>1, <1>1, <1>7
  <2>2. CASE i # f
    <3>1. L.entries[i].sub # u
      BY <2>2, <1>1 DEF Good, Unique
    <3>2. (L.entries[i].role = "owner") <=> (L.entries[i].sub = L.owner)
      BY DEF Good, RolesMatch
    <3> QED
      BY <2>2, <3>1, <3>2, <1>2, <1>7, PairedListAssumption
  <2> QED
    BY <2>1, <2>2
<1>11. AddIndex(L, u) \in 1..Count(L)
  BY <1>1 DEF AddIndex, f
<1> QED
  BY <1>5, <1>7, <1>8, <1>9, <1>10, <1>11 DEF A, Good

\* paired_list_add() of a new account appends one entry.
LEMMA AddNew ==
  ASSUME NEW L, Good(L), NEW u \in Subs, u \notin Accounts(L), NEW k \in Nat
  PROVE  /\ Good(Add(L, u, k))
         /\ Count(Add(L, u, k)) = Count(L) + 1
         /\ AddIndex(L, u) = Count(L) + 1
         /\ Add(L, u, k).owner = IF L.owner = NoSub THEN u ELSE L.owner
         /\ \A i \in 1..Count(L) : Add(L, u, k).entries[i] = L.entries[i]
         /\ Add(L, u, k).entries[Count(L) + 1].sub = u
<1> DEFINE A == Add(L, u, k)
           c == IF L.owner = NoSub THEN u ELSE L.owner
           r == IF u = c THEN "owner" ELSE "user"
           x == [sub |-> u, role |-> r, key |-> k]
           n == Count(L)
<1>1. /\ L \in List /\ n \in Nat /\ L.owner \in Subs \cup {NoSub} /\ L.entries \in Seq(Entry)
      /\ \A i \in 1..n : L.entries[i] \in Entry /\ L.entries[i].sub \in Subs /\ L.entries[i].sub # u
  BY ListFacts DEF Good, Accounts
<1>2. u # NoSub /\ c \in Subs /\ c # NoSub /\ x \in Entry
  BY <1>1, PairedListAssumption DEF Entry
<1>3. A = [L EXCEPT !.owner = c, !.entries = Append(L.entries, x)]
  BY <1>1, <1>2 DEF Add, Claim, RoleFor, List
<1> HIDE DEF A
<1>4. A.owner = c /\ A.entries = Append(L.entries, x)
  BY <1>1, <1>3 DEF List
<1>5. /\ A.entries \in Seq(Entry) /\ Count(A) = n + 1
      /\ \A i \in 1..n : A.entries[i] = L.entries[i]
      /\ A.entries[n + 1] = x
  <2>1. Append(L.entries, x) \in Seq(Entry) /\ Len(Append(L.entries, x)) = Len(L.entries) + 1
    BY <1>1, <1>2, AppendProperties
  <2>2. /\ \A i \in 1..Len(L.entries) : Append(L.entries, x)[i] = L.entries[i]
        /\ Append(L.entries, x)[Len(L.entries) + 1] = x
    BY <1>1, <1>2, AppendProperties
  <2> HIDE DEF x
  <2> QED
    BY <1>4, <2>1, <2>2 DEF Count
<1>6. A \in List
  BY <1>1, <1>2, <1>3, <1>4, <1>5 DEF List
<1>7. \A i \in 1..Count(A) : i \in 1..n \/ i = n + 1
  BY <1>1, <1>5
<1>8. Unique(A)
  <2> SUFFICES ASSUME NEW i \in 1..Count(A), NEW j \in 1..Count(A),
                      A.entries[i].sub = A.entries[j].sub
               PROVE  i = j
    BY DEF Unique
  <2>1. \A m \in 1..n : A.entries[m].sub = L.entries[m].sub /\ A.entries[m].sub # u
    BY <1>1, <1>5
  <2>2. A.entries[n + 1].sub = u
    BY <1>5
  <2>3. CASE i \in 1..n /\ j \in 1..n
    BY <2>1, <2>3 DEF Good, Unique
  <2> QED
    BY <2>1, <2>2, <2>3, <1>7
<1>9. RolesMatch(A)
  <2> SUFFICES ASSUME NEW i \in 1..Count(A)
               PROVE  (A.entries[i].role = "owner") <=> (A.entries[i].sub = c)
    BY <1>4 DEF RolesMatch
  <2>1. CASE i = n + 1
    BY <2>1, <1>5
  <2>2. CASE i \in 1..n
    <3>1. (L.entries[i].role = "owner") <=> (L.entries[i].sub = L.owner)
      BY <2>2 DEF Good, RolesMatch
    <3> QED
      BY <2>2, <3>1, <1>1, <1>5, PairedListAssumption
  <2> QED
    BY <2>1, <2>2, <1>7
<1>10. AddIndex(L, u) = n + 1
  BY DEF AddIndex
<1>11. A.entries[n + 1].sub = u
  BY <1>5
<1>12. Good(A)
  BY <1>6, <1>8, <1>9 DEF Good
<1> QED
  BY <1>4, <1>5, <1>10, <1>11, <1>12 DEF A

\* paired_list_remove() keeps the other entries, in order.
LEMMA RemoveProperties ==
  ASSUME NEW L, Good(L), NEW i \in 1..Count(L)
  PROVE  /\ Good(Remove(L, i))
         /\ Count(Remove(L, i)) = Count(L) - 1
         /\ Remove(L, i).owner = L.owner
         /\ i > 1 => Remove(L, i).entries[1] = L.entries[1]
         /\ \A j \in 1..(Count(L) - 1) :
               Remove(L, i).entries[j] = IF j < i THEN L.entries[j] ELSE L.entries[j + 1]
<1> DEFINE A == Remove(L, i)
           n == Count(L)
           e == [j \in 1..(n - 1) |-> IF j < i THEN L.entries[j] ELSE L.entries[j + 1]]
<1>1. /\ L \in List /\ n \in Nat /\ n - 1 \in Nat /\ L.entries \in Seq(Entry)
      /\ \A j \in 1..n : L.entries[j] \in Entry
  BY ListFacts DEF Good
<1>2. A = [L EXCEPT !.entries = e]
  BY DEF Remove
<1>3. A.owner = L.owner /\ A.entries = e
  BY <1>1, <1>2 DEF List
<1>4. e \in Seq(Entry) /\ Len(e) = n - 1
  <2>1. \A j \in 1..(n - 1) : e[j] \in Entry
    BY <1>1
  <2>2. e \in [1..(n - 1) -> Entry]
    BY <2>1
  <2>3. DOMAIN e = 1..(n - 1) /\ e \in Seq(Entry)
    BY <1>1, <2>2
  <2> QED
    BY <1>1, <2>3, LenProperties
<1>5. A \in List /\ Count(A) = n - 1
  BY <1>1, <1>2, <1>3, <1>4 DEF List, Count
<1> DEFINE g(j) == IF j < i THEN j ELSE j + 1
<1>6. \A j \in 1..(n - 1) : A.entries[j] = L.entries[g(j)] /\ g(j) \in 1..n
  BY <1>1, <1>3
<1>7. \A j, m \in 1..(n - 1) : g(j) = g(m) => j = m
  BY <1>1
<1> HIDE DEF A, e
<1>8. Unique(A)
  <2> HIDE DEF g
  <2> QED
    BY <1>5, <1>6, <1>7 DEF Good, Unique
<1>9. RolesMatch(A)
  <2> HIDE DEF g
  <2> QED
    BY <1>3, <1>5, <1>6 DEF Good, RolesMatch
<1>10. i > 1 => A.entries[1] = L.entries[1]
  BY <1>1, <1>6
<1>11. \A j \in 1..(n - 1) : A.entries[j] = IF j < i THEN L.entries[j] ELSE L.entries[j + 1]
  BY <1>3 DEF e
<1> QED
  BY <1>3, <1>5, <1>8, <1>9, <1>10, <1>11 DEF A, Good

\* paired_list_rotate_owner_key() changes nothing but one key.
LEMMA RotateProperties ==
  ASSUME NEW L, Good(L), HasOwnerEntry(L), NEW k \in Nat
  PROVE  /\ Good(RotateOwnerKey(L, k))
         /\ Count(RotateOwnerKey(L, k)) = Count(L)
         /\ RotateOwnerKey(L, k).owner = L.owner
         /\ \A i \in 1..Count(L) : RotateOwnerKey(L, k).entries[i].sub = L.entries[i].sub
<1> DEFINE A == RotateOwnerKey(L, k)
           o == OwnerEntry(L)
           e == [L.entries EXCEPT ![o].key = k]
<1>1. /\ L \in List /\ Count(L) \in Nat /\ L.entries \in Seq(Entry)
      /\ \A i \in 1..Count(L) : L.entries[i] \in Entry
  BY ListFacts DEF Good
<1>2. o \in 1..Count(L)
  <2> DEFINE T == {i \in 1..Count(L) : L.entries[i].role = "owner"}
  <2>1. T \in SUBSET Nat /\ T # {}
    BY <1>1 DEF HasOwnerEntry
  <2>2. PICK i \in T : \A j \in T : ~(j < i)
    BY <2>1, Smallest
  <2>3. /\ i \in 1..Count(L) /\ L.entries[i].role = "owner"
        /\ \A j \in 1..(i - 1) : L.entries[j].role # "owner"
    BY <1>1, <2>2
  <2> QED
    BY <2>3 DEF OwnerEntry
<1>3. A = [L EXCEPT !.entries = e]
  BY <1>1 DEF RotateOwnerKey, List
<1> HIDE DEF A, o
<1>4. A.owner = L.owner /\ A.entries = e
  BY <1>1, <1>3 DEF List
<1>5. /\ e \in Seq(Entry) /\ Len(e) = Count(L)
      /\ \A i \in 1..Count(L) : e[i] = IF i = o THEN [L.entries[o] EXCEPT !.key = k] ELSE L.entries[i]
  <2>1. [L.entries[o] EXCEPT !.key = k] \in Entry
    BY <1>1, <1>2 DEF Entry
  <2> QED
    BY <1>1, <1>2, <2>1, ExceptSeq DEF Count
<1>6. \A i \in 1..Count(L) : e[i].sub = L.entries[i].sub /\ e[i].role = L.entries[i].role
  BY <1>1, <1>2, <1>5 DEF Entry
<1>7. A \in List /\ Count(A) = Count(L)
  BY <1>1, <1>3, <1>4, <1>5 DEF List, Count
<1>8. Unique(A) /\ RolesMatch(A)
  BY <1>4, <1>6, <1>7 DEF Good, Unique, RolesMatch
<1> QED
  BY <1>4, <1>6, <1>7, <1>8 DEF A, Good

\* The empty list, and what nvs_store() writes, are good lists.
LEMMA StoredGood == Good(EmptyList) /\ \A L : Good(L) => Good(Stored(L))
<1>1. EmptyList \in List /\ Count(EmptyList) = 0
  BY EmptySeq DEF EmptyList, List, Count
<1>2. Good(EmptyList)
  BY <1>1 DEF Good, Unique, RolesMatch
<1> QED
  BY <1>2 DEF Stored
-----------------------------------------------------------------------------
(* Types and list invariants *)

\* A handler that enrolls has an account to enroll.
EnrollsSomebody ==
    \A s \in Sessions : h[s].pc \in {"add", "assign", "paired"} => h[s].sub \in Subs

Inv == TypeOK /\ Good(list) /\ Good(store.list) /\ EnrollsSomebody

\* Values that handlers put into slots and locals have their types.
LEMMA Values ==
  ASSUME TypeOK
  PROVE  /\ Idle \in Handler /\ Idle.pc = "idle" /\ Wiped \in Session /\ Acquired \in Session
         /\ \A t \in Sessions : DropAuth(sess[t]) \in Session
         /\ \A t \in Sessions, i \in Nat : OnPairedRemoved(sess[t], i) \in Session
<1>1. /\ Idle \in Handler /\ Idle.pc = "idle" /\ Wiped \in Session /\ Acquired \in Session
      /\ \A t \in Sessions : DropAuth(sess[t]) \in Session
  BY DEF TypeOK, Idle, Handler, Steps, Wiped, Acquired, DropAuth, Session, SessionStates,
         Roles, NoKey, Keys
<1>2. ASSUME NEW t \in Sessions, NEW i \in Nat
      PROVE  OnPairedRemoved(sess[t], i) \in Session
  <2>1. sess[t] \in Session /\ DropAuth(sess[t]) \in Session
    BY <1>1 DEF TypeOK
  <2>2. CASE sess[t].paired_index > i
    BY <2>1, <2>2 DEF OnPairedRemoved, Session
  <2> QED
    BY <2>1, <2>2 DEF OnPairedRemoved
<1> QED
  BY <1>1, <1>2

\* What a step may leave in slot s and in its handler.
Fine(slot, handler) ==
    /\ slot \in Session
    /\ handler \in Handler
    /\ handler.pc \in {"add", "assign", "paired"} => handler.sub \in Subs

\* The slot and the handler a step of task s starts from, and the handler of a
\* task that is done.
LEMMA FineNow ==
  ASSUME Inv, NEW s \in Sessions
  PROVE  /\ Fine(sess[s], h[s])
         /\ \A slot \in Session : Fine(slot, Idle)
         /\ sess' = sess => Update(s, sess[s])
         /\ h' = h => Proceed(s, h[s])
<1>1. Idle \in Handler /\ Idle.pc = "idle"
  BY Values DEF Inv
<1>2. Fine(sess[s], h[s])
  BY DEF Inv, TypeOK, EnrollsSomebody, Fine
<1>3. sess' = sess => Update(s, sess[s])
  BY DEF Inv, TypeOK, Update
<1>4. h' = h => Proceed(s, h[s])
  BY DEF Inv, TypeOK, Proceed
<1> QED
  BY <1>1, <1>2, <1>3, <1>4 DEF Fine

\* A step of task s keeps the types of the pool and the handlers.
LEMMA TaskStep ==
  ASSUME Inv, NEW s \in Sessions, NEW slot, NEW handler, Fine(slot, handler),
         Update(s, slot), Proceed(s, handler)
  PROVE  /\ sess' \in [Sessions -> Session] /\ h' \in [Sessions -> Handler]
         /\ EnrollsSomebody'
<1>1. sess' \in [Sessions -> Session]
  BY DEF Inv, TypeOK, Fine, Update
<1>2. /\ h' \in [Sessions -> Handler] /\ h'[s] = handler
      /\ \A t \in Sessions \ {s} : h'[t] = h[t]
  BY DEF Inv, TypeOK, Fine, Proceed
<1>3. EnrollsSomebody'
  BY <1>2 DEF Inv, Fine, EnrollsSomebody
<1> QED
  BY <1>1, <1>2, <1>3

\* A step that changes a slot and a handler only.
LEMMA SlotStep ==
  ASSUME Inv, NEW s \in Sessions, NEW slot, NEW handler, Fine(slot, handler),
         Update(s, slot), Proceed(s, handler),
         UNCHANGED <<list, pw, store, told, handed, used>>
  PROVE  Inv'
<1>1. sess' \in [Sessions -> Session] /\ h' \in [Sessions -> Handler] /\ EnrollsSomebody'
  BY TaskStep
<1> QED
  BY <1>1 DEF Inv, TypeOK

\* A handler that goes on at step p with its locals as they are.
LEMMA FineGoto ==
  ASSUME Inv, NEW s \in Sessions, NEW slot \in Session,
         NEW p \in Steps \ {"add", "assign", "paired"}
  PROVE  Fine(slot, [h[s] EXCEPT !.pc = p])
  BY FineNow DEF Fine, Handler

\* Handshakes leave the lists alone.
LEMMA InvHandshake ==
  ASSUME Inv, NEW s \in Sessions, Handshake(s)
  PROVE  Inv'
<1> DEFINE R == sess[s]
           Q == h[s]
<1> USE DEF Goto, Return
<1>1. /\ R \in Session /\ Q \in Handler /\ Fine(R, Q)
      /\ \A slot \in Session : Fine(slot, Idle) /\ Fine(slot, Q)
      /\ sess' = sess => Update(s, R)
      /\ h' = h => Proceed(s, Q)
  BY FineNow DEF Fine
<1>2. Wiped \in Session /\ Acquired \in Session /\ DropAuth(R) \in Session
  BY Values DEF Inv
<1>3. /\ R.key \in Keys /\ R.key[2] \in Nat /\ Q.epoch \in Nat /\ Q.index \in Nat /\ Q.key \in Nat
      /\ Q.sub \in Subs \cup {NoSub} /\ pw \in Nat
  BY <1>1 DEF Session, Handler, Keys, Inv, TypeOK
<1>4. NoKey \in Keys /\ \A n \in Nat : <<"pake", n>> \in Keys /\ <<"acct", n>> \in Keys /\ <<"sess", n>> \in Keys
  BY DEF NoKey, Keys
<1>5. {"pake1", "exchange", "pake3", "auth1_find", "auth1_get", "auth1_set", "auth3_role", "auth3_ok"}
        \subseteq Steps \ {"add", "assign", "paired"}
  BY DEF Steps
<1>6. CASE Connect(s) \/ Disconnect(s) \/ RestartRefused(s)
  BY <1>1, <1>2, <1>6, SlotStep DEF Connect, Disconnect, RestartRefused
<1>7. CASE Pake1(s)
  <2>1. Fine(DropAuth(R), [Q EXCEPT !.pc = "pake1", !.epoch = pw])
    BY <1>1, <1>2, <1>3, <1>5 DEF Fine, Handler
  <2> QED
    BY <1>7, <2>1, SlotStep DEF Pake1
<1>8. CASE Pake1Set(s)
  <2>1. [R EXCEPT !.key = <<"pake", Q.epoch>>, !.srp = TRUE, !.state = "LS_PAKE_WAIT_PROOF"] \in Session
    BY <1>1, <1>3, <1>4 DEF Session, SessionStates
  <2> QED
    BY <1>1, <1>8, <2>1, SlotStep DEF Pake1Set
<1>9. CASE Pake3Malformed(s) \/ Pake3Bad(s)
  <2>1. [R EXCEPT !.srp = FALSE, !.key = NoKey, !.state = "LS_NEW"] \in Session
    BY <1>1, <1>4 DEF Session, SessionStates
  <2> QED
    BY <1>1, <1>9, <2>1, SlotStep DEF Pake3Malformed, Pake3Bad, AbortPake
<1>10. CASE Pake3(s)
  BY <1>1, <1>5, <1>10, FineGoto, SlotStep DEF Pake3
<1>11. CASE Pake3Good(s)
  <2>1. [R EXCEPT !.srp = FALSE] \in Session
    BY <1>1 DEF Session
  <2> QED
    BY <1>5, <1>11, <2>1, FineGoto, SlotStep DEF Pake3Good
<1>12. CASE Pake3Ok(s)
  <2>1. [R EXCEPT !.state = "LS_PAKE_OK"] \in Session
    BY <1>1 DEF Session, SessionStates
  <2> QED
    BY <1>1, <1>12, <2>1, SlotStep DEF Pake3Ok
<1>13. ASSUME NEW u \in Subs, Auth1(s, u) PROVE Inv'
  <2>1. Fine(DropAuth(R), [Q EXCEPT !.pc = "auth1_find", !.sub = u])
    BY <1>1, <1>2, <1>5 DEF Fine, Handler
  <2> QED
    BY <1>13, <2>1, SlotStep DEF Auth1
<1>14. CASE Auth1Find(s)
  <2>1. CASE Q.sub \in Accounts(list)
    <3>1. Find(list, Q.sub) \in Nat
      BY <2>1, FindProperties, ListFacts DEF Inv, Good
    <3>2. Fine(R, [Q EXCEPT !.pc = "auth1_get", !.index = Find(list, Q.sub)])
      BY <1>1, <1>5, <3>1 DEF Fine, Handler
    <3> QED
      BY <1>1, <1>14, <2>1, <3>2, SlotStep DEF Auth1Find
  <2> QED
    BY <1>1, <1>14, <2>1, SlotStep DEF Auth1Find
<1>15. CASE Auth1Get(s)
  <2>1. CASE InRange(list, Q.index)
    <3>1. list.entries[Q.index].key \in Nat
      BY <2>1, ListFacts DEF Inv, Good, InRange
    <3>2. Fine(R, [Q EXCEPT !.pc = "auth1_set", !.key = list.entries[Q.index].key])
      BY <1>1, <1>5, <3>1 DEF Fine, Handler
    <3> QED
      BY <1>1, <1>15, <2>1, <3>2, SlotStep DEF Auth1Get
  <2> QED
    BY <1>1, <1>15, <2>1, SlotStep DEF Auth1Get
<1>16. CASE Auth1Set(s)
  <2>1. [R EXCEPT !.key = <<"acct", Q.key>>, !.paired_index = Q.index,
                  !.state = "LS_AUTH_WAIT_PROOF", !.who = Q.sub] \in Session
    BY <1>1, <1>3, <1>4 DEF Session, SessionStates
  <2> QED
    BY <1>1, <1>16, <2>1, SlotStep DEF Auth1Set
<1>17. CASE Auth3Bad(s)
  <2>1. [R EXCEPT !.key = NoKey, !.paired_index = 0, !.state = "LS_NEW", !.who = NoSub] \in Session
    BY <1>1, <1>4 DEF Session, SessionStates
  <2> QED
    BY <1>1, <1>17, <2>1, SlotStep DEF Auth3Bad
<1>18. CASE Auth3(s)
  <2>1. [R EXCEPT !.key = <<"sess", R.key[2]>>] \in Session
    BY <1>1, <1>3, <1>4 DEF Session
  <2> QED
    BY <1>5, <1>18, <2>1, FineGoto, SlotStep DEF Auth3
<1>19. CASE Auth3Role(s)
  <2>1. \A o \in Roles : [R EXCEPT !.role = o] \in Session
    BY <1>1 DEF Session
  <2>2. PICK o \in Roles : Update(s, [R EXCEPT !.role = o])
    BY <1>19 DEF Auth3Role, Roles
  <2> QED
    BY <1>5, <1>19, <2>1, <2>2, FineGoto, SlotStep DEF Auth3Role
<1>20. CASE Auth3Ok(s)
  <2>1. [R EXCEPT !.state = "LS_AUTH_OK"] \in Session
    BY <1>1 DEF Session, SessionStates
  <2> QED
    BY <1>1, <1>20, <2>1, SlotStep DEF Auth3Ok
<1> QED
  BY <1>6, <1>7, <1>8, <1>9, <1>10, <1>11, <1>12, <1>13, <1>14, <1>15, <1>16, <1>17, <1>18,
     <1>19, <1>20 DEF Handshake

\* A step of task s that may change everything else too, but keeps it well
\* formed.
LEMMA SharedStep ==
  ASSUME Inv, NEW s \in Sessions, NEW slot, NEW handler, Fine(slot, handler),
         Update(s, slot), Proceed(s, handler),
         Good(list'), store' \in [list : List, pw : Nat], Good(store'.list),
         pw' \in Nat, told' \subseteq Subs, handed' \subseteq Nat \X Nat, used' \in Counters
  PROVE  Inv'
<1>1. sess' \in [Sessions -> Session] /\ h' \in [Sessions -> Handler] /\ EnrollsSomebody'
  BY TaskStep
<1> QED
  BY <1>1 DEF Inv, TypeOK, Good

\* A good list stored, or not, leaves a good list in NVS.
LEMMA StoreListGood ==
  ASSUME Inv, NEW L, Good(L), NEW ok \in BOOLEAN, StoreList(ok, L)
  PROVE  store' \in [list : List, pw : Nat] /\ Good(store'.list)
<1>1. Good(Stored(L)) /\ Stored(L) \in List
  BY StoredGood DEF Good
<1>2. CASE ok
  BY <1>1, <1>2 DEF StoreList, Inv, TypeOK
<1>3. CASE ~ok
  BY <1>3 DEF StoreList, Inv, TypeOK
<1> QED
  BY <1>2, <1>3

\* What the bounds count stays a number.
LEMMA Charged ==
  ASSUME Inv
  PROVE  /\ \A c \in {"keys", "pws", "fails", "resets", "boots"} : Charge(c) \in Counters
         /\ \A ok \in BOOLEAN : ChargeNvs(ok) => used' \in Counters
         /\ used \in Counters /\ used.keys \in Nat /\ used.pws \in Nat
<1>1. used \in Counters /\ used.keys \in Nat /\ used.pws \in Nat
  BY DEF Inv, TypeOK, Counters
<1>2. \A c \in {"keys", "pws", "fails", "resets", "boots"} : Charge(c) \in Counters
  BY <1>1 DEF Charge, Counters
<1> QED
  BY <1>1, <1>2 DEF ChargeNvs

\* The variables a step leaves alone are well formed.
LEMMA Unchanged ==
  ASSUME Inv
  PROVE  /\ list' = list => Good(list')
         /\ store' = store => store' \in [list : List, pw : Nat] /\ Good(store'.list)
         /\ pw' = pw => pw' \in Nat
         /\ told' = told => told' \subseteq Subs
         /\ handed' = handed => handed' \subseteq Nat \X Nat
         /\ used' = used => used' \in Counters
  BY DEF Inv, TypeOK

\* paired_list_add() keeps one entry per account and the roles.
LEMMA InvEnrolling ==
  ASSUME Inv, NEW s \in Sessions, Enrolling(s)
  PROVE  Inv'
<1> DEFINE R == sess[s]
           Q == h[s]
<1> USE DEF Goto, Return
<1>1. /\ R \in Session /\ Q \in Handler /\ Fine(R, Q)
      /\ \A slot \in Session : Fine(slot, Idle) /\ Fine(slot, Q)
      /\ sess' = sess => Update(s, R)
      /\ h' = h => Proceed(s, Q)
  BY FineNow DEF Fine
<1>2. /\ R.key[2] \in Nat /\ Q.epoch \in Nat /\ Q.index \in Nat /\ Q.key \in Nat
      /\ Q.role \in Roles /\ Q.sub \in Subs \cup {NoSub}
  BY <1>1 DEF Session, Handler, Keys
<1>3. {"add", "assign", "paired"} \subseteq Steps
  BY DEF Steps
<1>4. At(s, "add") \/ At(s, "assign") \/ At(s, "paired") => Q.sub \in Subs
  BY <1>1 DEF At, Fine
<1>5. ASSUME NEW u \in Subs, Enroll(s, u) PROVE Inv'
  <2>1. Fine(R, [Q EXCEPT !.pc = "add", !.sub = u, !.epoch = R.key[2]])
    BY <1>1, <1>2, <1>3 DEF Fine, Handler
  <2> QED
    BY <1>1, <1>5, <2>1, SlotStep DEF Enroll
<1>6. CASE EnrollFull(s)
  BY <1>1, <1>6, SlotStep DEF EnrollFull
<1>7. CASE EnrollStoreFails(s)
  <2>1. used' \in Counters
    BY <1>7, Charged DEF EnrollStoreFails
  <2> QED
    BY <1>1, <1>7, <2>1, Unchanged, SharedStep DEF EnrollStoreFails
<1>8. ASSUME NEW L, Good(L), AddIndex(list, Q.sub) \in 1..Count(L), At(s, "add"),
             Added(s, L), used' \in Counters, UNCHANGED <<pw, sess, told, handed>>
      PROVE  Inv'
  <2> DEFINE i == AddIndex(list, Q.sub)
  <2>1. i \in Nat /\ L.entries[i].role \in Roles /\ L.entries[i].key \in Nat
    BY <1>8, ListFacts DEF Good, Roles
  <2>2. Fine(R, [Q EXCEPT !.pc = "assign", !.index = i,
                          !.role = L.entries[i].role, !.key = L.entries[i].key])
    <3> HIDE DEF i
    <3> QED
      BY <1>1, <1>3, <1>4, <1>8, <2>1 DEF Fine, Handler
  <2>3. store' \in [list : List, pw : Nat] /\ Good(store'.list) /\ Good(list')
    BY <1>8, StoreListGood DEF Added
  <2> QED
    BY <1>1, <1>8, <2>2, <2>3, Unchanged, SharedStep DEF Added
<1>9. CASE EnrollAgain(s)
  <2>1. /\ Good(Add(list, Q.sub, 0))
        /\ AddIndex(list, Q.sub) \in 1..Count(Add(list, Q.sub, 0))
    BY <1>9, AddAgain DEF EnrollAgain, Inv
  <2> QED
    BY <1>8, <1>9, <2>1, Unchanged DEF EnrollAgain
<1>10. CASE EnrollNew(s)
  <2>1. used.keys + 1 \in Nat /\ used' \in Counters
    BY <1>10, Charged DEF EnrollNew
  <2>2. Q.sub \in Subs /\ Q.sub \notin Accounts(list) /\ Good(list) /\ Count(list) \in Nat
    BY <1>4, <1>10, ListFacts DEF EnrollNew, Inv, Good
  <2>3. /\ Good(Add(list, Q.sub, used.keys + 1))
        /\ Count(Add(list, Q.sub, used.keys + 1)) = Count(list) + 1
        /\ AddIndex(list, Q.sub) = Count(list) + 1
    BY <2>1, <2>2, AddNew
  <2> QED
    BY <1>8, <1>10, <2>1, <2>2, <2>3 DEF EnrollNew
<1>11. CASE EnrollAssign(s)
  <2>1. [R EXCEPT !.paired_index = Q.index, !.role = Q.role, !.who = Q.sub] \in Session
    BY <1>1, <1>2 DEF Session
  <2>2. Fine([R EXCEPT !.paired_index = Q.index, !.role = Q.role, !.who = Q.sub],
             [Q EXCEPT !.pc = "paired"])
    BY <1>1, <1>3, <1>4, <1>11, <2>1 DEF Fine, Handler, EnrollAssign
  <2>3. handed' \subseteq Nat \X Nat
    BY <1>2, <1>11 DEF EnrollAssign, Inv, TypeOK
  <2> QED
    BY <1>11, <2>2, <2>3, Unchanged, SharedStep DEF EnrollAssign
<1>12. CASE EnrollEvent(s)
  <2>1. told' \subseteq Subs
    BY <1>4, <1>12 DEF EnrollEvent, Inv, TypeOK
  <2> QED
    BY <1>1, <1>12, <2>1, Unchanged, SharedStep DEF EnrollEvent
<1> QED
  BY <1>5, <1>6, <1>7, <1>9, <1>10, <1>11, <1>12 DEF Enrolling

\* Removals keep the other entries as they are.
LEMMA InvRemoving ==
  ASSUME Inv, NEW s \in Sessions, Removing(s)
  PROVE  Inv'
<1> DEFINE R == sess[s]
           Q == h[s]
<1> USE DEF Goto, Return
<1>1. /\ R \in Session /\ Q \in Handler /\ Fine(R, Q)
      /\ \A slot \in Session : Fine(slot, Idle) /\ Fine(slot, Q)
      /\ sess' = sess => Update(s, R)
      /\ h' = h => Proceed(s, Q)
  BY FineNow DEF Fine
<1>2. /\ R.paired_index \in Nat /\ Q.index \in Nat /\ Q.index + 1 \in Nat
      /\ Q.sub \in Subs \cup {NoSub}
  BY <1>1 DEF Session, Handler
<1>3. {"revoke_find", "revoke_get", "unpair_get", "unpair_index", "remove", "sessions",
       "unpaired", "scan"} \subseteq Steps \ {"add", "assign", "paired"}
  BY DEF Steps
<1>4. ASSUME NEW u \in Subs, Revoke(s, u) PROVE Inv'
  <2>1. Fine(R, [Q EXCEPT !.cmd = "revoke", !.pc = "revoke_find", !.sub = u])
    BY <1>1, <1>3 DEF Fine, Handler
  <2> QED
    BY <1>1, <1>4, <2>1, SlotStep DEF Revoke
<1>5. CASE RevokeFind(s)
  <2>1. CASE Q.sub \in Accounts(list)
    <3>1. Find(list, Q.sub) \in Nat
      BY <2>1, FindProperties, ListFacts DEF Inv, Good
    <3>2. Fine(R, [Q EXCEPT !.pc = "revoke_get", !.index = Find(list, Q.sub)])
      BY <1>1, <1>3, <3>1 DEF Fine, Handler
    <3> QED
      BY <1>1, <1>5, <2>1, <3>2, SlotStep DEF RevokeFind
  <2> QED
    BY <1>1, <1>5, <2>1, SlotStep DEF RevokeFind
<1>6. CASE RevokeGet(s)
  <2>1. Fine(R, [Q EXCEPT !.pc = "remove"])
    BY <1>1, <1>3, FineGoto
  <2> QED
    BY <1>1, <1>6, <2>1, SlotStep DEF RevokeGet
<1>7. CASE Unpair(s)
  <2>1. Fine(R, [Q EXCEPT !.cmd = "unpair", !.pc = "unpair_get"])
    BY <1>1, <1>3 DEF Fine, Handler
  <2> QED
    BY <1>1, <1>7, <2>1, SlotStep DEF Unpair
<1>8. CASE UnpairGet(s)
  <2>1. CASE InRange(list, R.paired_index) /\ list.entries[R.paired_index].role # "owner"
    <3>1. list.entries[R.paired_index].sub \in Subs
      BY <2>1, ListFacts DEF Inv, Good, InRange
    <3>2. Fine(R, [Q EXCEPT !.pc = "unpair_index", !.sub = list.entries[R.paired_index].sub])
      BY <1>1, <1>3, <3>1 DEF Fine, Handler
    <3> QED
      BY <1>1, <1>8, <2>1, <3>2, SlotStep DEF UnpairGet
  <2> QED
    BY <1>1, <1>8, <2>1, SlotStep DEF UnpairGet
<1>9. CASE UnpairIndex(s)
  <2>1. Fine(R, [Q EXCEPT !.pc = "remove", !.index = R.paired_index])
    BY <1>1, <1>2, <1>3 DEF Fine, Handler
  <2> QED
    BY <1>1, <1>9, <2>1, SlotStep DEF UnpairIndex
<1>10. Fine(R, [Q EXCEPT !.pc = "scan", !.index = Q.index + 1])
  BY <1>1, <1>2, <1>3 DEF Fine, Handler
<1>11. NotRemoved(s) => \E handler : Fine(R, handler) /\ Proceed(s, handler)
  BY <1>1, <1>10 DEF NotRemoved
<1>12. CASE RemoveNotFound(s)
  BY <1>1, <1>11, <1>12, SlotStep DEF RemoveNotFound
<1>13. ASSUME NEW ok \in BOOLEAN, RemoveEntry(s, ok) PROVE Inv'
  <2>1. Good(Remove(list, Q.index))
    BY <1>13, RemoveProperties DEF RemoveEntry, InRange, Inv
  <2>2. Good(list') /\ store' \in [list : List, pw : Nat] /\ Good(store'.list)
    BY <1>13, <2>1, StoreListGood DEF RemoveEntry
  <2>3. Fine(R, [Q EXCEPT !.pc = "sessions"])
    BY <1>1, <1>3, FineGoto
  <2>4. PICK handler : Fine(R, handler) /\ Proceed(s, handler)
    BY <1>11, <1>13, <2>3 DEF RemoveEntry
  <2>5. used' \in Counters
    BY <1>13, Charged DEF RemoveEntry
  <2> QED
    BY <1>1, <1>13, <2>2, <2>4, <2>5, Unchanged, SharedStep DEF RemoveEntry
<1>14. CASE DropSessions(s)
  <2>1. sess' \in [Sessions -> Session]
    BY <1>2, <1>14, Values DEF DropSessions, Inv
  <2>2. Fine(R, [Q EXCEPT !.pc = "unpaired"])
    BY <1>1, <1>3, FineGoto
  <2>3. h' \in [Sessions -> Handler] /\ EnrollsSomebody'
    <3>1. /\ h' \in [Sessions -> Handler] /\ h'[s].pc = "unpaired"
          /\ \A t \in Sessions \ {s} : h'[t] = h[t]
      BY <1>1, <1>14, <2>2 DEF DropSessions, Proceed, Fine, Inv, TypeOK, Handler
    <3> QED
      BY <3>1 DEF Inv, EnrollsSomebody
  <2> QED
    BY <1>14, <2>1, <2>3 DEF DropSessions, Inv, TypeOK
<1>15. CASE UnpairedEvent(s)
  <2>1. told' \subseteq Subs
    BY <1>15 DEF UnpairedEvent, Inv, TypeOK
  <2>2. Fine(R, [Q EXCEPT !.pc = "scan"])
    BY <1>1, <1>3, FineGoto
  <2> QED
    BY <1>1, <1>15, <2>1, <2>2, Unchanged, SharedStep DEF UnpairedEvent
<1> QED
  BY <1>4, <1>5, <1>6, <1>7, <1>8, <1>9, <1>12, <1>13, <1>14, <1>15 DEF Removing

\* PWSET and PWCLEAR change keys, never accounts or roles.
LEMMA InvLocking ==
  ASSUME Inv, NEW s \in Sessions, Locking(s)
  PROVE  Inv'
<1> DEFINE R == sess[s]
           Q == h[s]
<1> USE DEF Goto, Return
<1>1. /\ R \in Session /\ Q \in Handler /\ Fine(R, Q)
      /\ \A slot \in Session : Fine(slot, Idle) /\ Fine(slot, Q)
      /\ sess' = sess => Update(s, R)
      /\ h' = h => Proceed(s, Q)
  BY FineNow DEF Fine
<1>2. Q.index \in Nat /\ Q.index + 1 \in Nat
  BY <1>1 DEF Handler
<1>3. {"pwset", "scan", "remove", "rotate", "pwclear"} \subseteq Steps \ {"add", "assign", "paired"}
  BY DEF Steps
<1>4. CASE PwSet(s)
  <2>1. Fine(R, [Q EXCEPT !.cmd = "pwset", !.pc = "pwset"])
    BY <1>1, <1>3 DEF Fine, Handler
  <2>2. used' \in Counters
    BY <1>4, Charged DEF PwSet
  <2> QED
    BY <1>1, <1>4, <2>1, <2>2, Unchanged, SharedStep DEF PwSet
<1>5. CASE PwSetScan(s)
  <2>1. Fine(R, [Q EXCEPT !.pc = "rotate"])
    BY <1>1, <1>3, FineGoto
  <2>2. Fine(R, [Q EXCEPT !.index = Q.index + 1])
    BY <1>1, <1>2 DEF Fine, Handler
  <2>3. CASE InRange(list, Q.index)
    <3>1. list.entries[Q.index].sub \in Subs
      BY <2>3, ListFacts DEF Inv, Good, InRange
    <3>2. Fine(R, [Q EXCEPT !.pc = "remove", !.sub = list.entries[Q.index].sub])
      BY <1>1, <1>3, <3>1 DEF Fine, Handler
    <3> QED
      BY <1>1, <1>5, <2>2, <2>3, <3>2, SlotStep DEF PwSetScan
  <2> QED
    BY <1>1, <1>5, <2>1, <2>3, SlotStep DEF PwSetScan
<1>6. CASE PwSetNothingToRotate(s)
  BY <1>1, <1>6, SlotStep DEF PwSetNothingToRotate
<1>7. CASE PwClear(s)
  <2>1. Fine(R, [Q EXCEPT !.pc = "pwclear"])
    BY <1>1, <1>3, FineGoto
  <2> QED
    BY <1>1, <1>7, <2>1, SlotStep DEF PwClear
<1>8. ASSUME NEW ok \in BOOLEAN, PwSetStore(s, ok) PROVE Inv'
  <2>1. Fine(R, [Q EXCEPT !.pc = "scan", !.index = 1])
    BY <1>1, <1>3 DEF Fine, Handler
  <2>2. used' \in Counters /\ pw' \in Nat
    BY <1>8, Charged DEF PwSetStore, Inv, TypeOK
  <2>3. store' \in [list : List, pw : Nat] /\ store'.list = store.list
    BY <1>8, Charged DEF PwSetStore, Inv, TypeOK
  <2>4. Good(store'.list)
    BY <2>3 DEF Inv
  <2> QED
    BY <1>1, <1>8, <2>1, <2>2, <2>3, <2>4, Unchanged, SharedStep DEF PwSetStore
<1>9. ASSUME NEW ok \in BOOLEAN, PwSetRotate(s, ok) PROVE Inv'
  <2>1. used' \in Counters
    BY <1>9, Charged DEF PwSetRotate
  <2>2. CASE ok
    <3>1. Good(RotateOwnerKey(list, used.keys + 1))
      BY <1>9, Charged, RotateProperties DEF PwSetRotate, Inv
    <3>2. Good(list') /\ store' \in [list : List, pw : Nat] /\ Good(store'.list)
      BY <1>9, <2>2, <3>1, StoreListGood DEF PwSetRotate
    <3> QED
      BY <1>1, <1>9, <2>1, <3>2, Unchanged, SharedStep DEF PwSetRotate
  <2>3. CASE ~ok
    BY <1>1, <1>9, <2>1, <2>3, Unchanged, SharedStep DEF PwSetRotate
  <2> QED
    BY <2>2, <2>3
<1>10. ASSUME NEW ok \in BOOLEAN, PwClearStore(s, ok) PROVE Inv'
  <2>1. used' \in Counters /\ pw' \in Nat
    BY <1>10, Charged DEF PwClearStore, ClearPassword
  <2>2. store' \in [list : List, pw : Nat] /\ store'.list = store.list
    BY <1>10 DEF PwClearStore, ClearPassword, Inv, TypeOK
  <2>3. Good(store'.list)
    BY <2>2 DEF Inv
  <2> QED
    BY <1>1, <1>10, <2>1, <2>2, <2>3, Unchanged, SharedStep DEF PwClearStore, ClearPassword
<1> QED
  BY <1>4, <1>5, <1>6, <1>7, <1>8, <1>9, <1>10 DEF Locking

\* RESET empties the list.
LEMMA InvResetting ==
  ASSUME Inv, NEW s \in Sessions, Resetting(s)
  PROVE  Inv'
<1> DEFINE R == sess[s]
           Q == h[s]
<1> USE DEF Goto, Return
<1>1. /\ R \in Session /\ Q \in Handler /\ Fine(R, Q)
      /\ \A slot \in Session : Fine(slot, Idle) /\ Fine(slot, Q)
      /\ sess' = sess => Update(s, R)
      /\ h' = h => Proceed(s, Q)
  BY FineNow DEF Fine
<1>2. \A p \in {"reset_list", "reset_pw", "reset_sessions", "reset"} : Fine(R, [Q EXCEPT !.pc = p])
  <2>1. {"reset_list", "reset_pw", "reset_sessions", "reset"} \subseteq Steps \ {"add", "assign", "paired"}
    BY DEF Steps
  <2> QED
    BY <1>1, <2>1, FineGoto
<1>3. CASE Reset(s)
  <2>1. used' \in Counters
    BY <1>3, Charged DEF Reset
  <2> QED
    BY <1>1, <1>2, <1>3, <2>1, Unchanged, SharedStep DEF Reset
<1>4. ASSUME NEW ok \in BOOLEAN, ResetList(s, ok) PROVE Inv'
  <2>1. Good(list') /\ store' \in [list : List, pw : Nat] /\ Good(store'.list)
    BY <1>4, StoredGood, StoreListGood DEF ResetList
  <2>2. used' \in Counters
    BY <1>4, Charged DEF ResetList
  <2> QED
    BY <1>1, <1>2, <1>4, <2>1, <2>2, Unchanged, SharedStep DEF ResetList
<1>5. ASSUME NEW ok \in BOOLEAN, ResetPw(s, ok) PROVE Inv'
  <2>1. used' \in Counters /\ pw' \in Nat
    BY <1>5, Charged DEF ResetPw, ClearPassword
  <2>2. store' \in [list : List, pw : Nat] /\ store'.list = store.list
    BY <1>5 DEF ResetPw, ClearPassword, Inv, TypeOK
  <2>3. Good(store'.list)
    BY <2>2 DEF Inv
  <2> QED
    BY <1>1, <1>2, <1>5, <2>1, <2>2, <2>3, Unchanged, SharedStep DEF ResetPw, ClearPassword
<1>6. CASE ResetSessions(s)
  <2>1. sess' \in [Sessions -> Session]
    BY <1>6, Values DEF ResetSessions, Inv, TypeOK
  <2>2. h' \in [Sessions -> Handler] /\ EnrollsSomebody'
    <3>1. /\ h' \in [Sessions -> Handler] /\ h'[s].pc = "reset"
          /\ \A t \in Sessions \ {s} : h'[t] = h[t]
      BY <1>1, <1>2, <1>6 DEF ResetSessions, Proceed, Fine, Inv, TypeOK, Handler
    <3> QED
      BY <3>1 DEF Inv, EnrollsSomebody
  <2> QED
    BY <1>6, <2>1, <2>2 DEF ResetSessions, Inv, TypeOK
<1>7. CASE ResetEvent(s)
  <2>1. told' \subseteq Subs
    BY <1>7 DEF ResetEvent
  <2> QED
    BY <1>1, <1>7, <2>1, Unchanged, SharedStep DEF ResetEvent
<1> QED
  BY <1>3, <1>4, <1>5, <1>6, <1>7 DEF Resetting

\* The inductive step: handlers interleaved in any way, and reboots.
LEMMA InvNext ==
  ASSUME Inv, [Next]_vars
  PROVE  Inv'
<1>1. ASSUME NEW s \in Sessions,
             Handshake(s) \/ Enrolling(s) \/ Removing(s) \/ Locking(s) \/ Resetting(s)
      PROVE  Inv'
  BY <1>1, InvHandshake, InvEnrolling, InvRemoving, InvLocking, InvResetting
<1>2. CASE Reboot
  <2>1. sess' \in [Sessions -> Session] /\ h' \in [Sessions -> Handler] /\ EnrollsSomebody'
    BY <1>2, Values DEF Reboot, Inv, EnrollsSomebody
  <2>2. used' \in Counters /\ pw' \in Nat /\ list' = store.list
    BY <1>2, Charged DEF Reboot, Inv, TypeOK
  <2> QED
    BY <1>2, <2>1, <2>2 DEF Reboot, Inv, TypeOK, Good
<1>3. CASE UNCHANGED vars
  BY <1>3 DEF vars, Inv, TypeOK, EnrollsSomebody
<1> QED
  BY <1>1, <1>2, <1>3 DEF Next

\* The device starts with nobody paired.
LEMMA InvInit == Init => Inv
<1> SUFFICES ASSUME Init PROVE Inv
  OBVIOUS
<1>1. Wiped \in Session
  BY DEF Wiped, Session, SessionStates, Roles, NoKey, Keys
<1>2. Idle \in Handler /\ Idle.pc = "idle"
  BY DEF Idle, Handler, Steps, Roles
<1>3. Good(EmptyList) /\ EmptyList \in List
  BY StoredGood DEF Good
<1> QED
  BY <1>1, <1>2, <1>3 DEF Init, Inv, TypeOK, EnrollsSomebody, Counters

\* Every task at any time keeps the list, the pool and its locals in type.
THEOREM TypeCorrect == Spec => []TypeOK
<1>1. Inv => TypeOK
  BY DEF Inv
<1> QED
  BY <1>1, InvInit, InvNext, PTL DEF Spec

\* An account never gets a second entry, in RAM or in NVS.
THEOREM OneEntryCorrect == Spec => []OneEntryPerAccount
<1>1. Inv => OneEntryPerAccount
  BY DEF Inv, Good, OneEntryPerAccount
<1> QED
  BY <1>1, InvInit, InvNext, PTL DEF Spec

\* The role of every entry follows owner_sub, in RAM and in NVS.
THEOREM RolesCorrect == Spec => []RolesFollowOwner
<1>1. Inv => RolesFollowOwner
  BY DEF Inv, Good, RolesFollowOwner
<1> QED
  BY <1>1, InvInit, InvNext, PTL DEF Spec
-----------------------------------------------------------------------------
(***************************************************************************)
(* Ownership never moves: until a RESET, the account that paired first     *)
(* keeps its entry, at the head of the list, whatever the handlers do at   *)
(* the same time.  handle_revoke() and handle_unpair() check an index in   *)
(* one critical section and remove it in another, so the argument is about *)
(* what stale indices can be: the owner's entry is the first one, nobody   *)
(* shifts it, and no handler ever gets to the removal with that index.     *)
(***************************************************************************)

\* A list that is not empty is headed by its owner's entry.
Owned(L) ==
    /\ Count(L) > 0 => L.owner # NoSub
    /\ OwnerFirst(L)

\* Slot r and its handler q, while nobody resets the device: the owner's
\* sessions, and they alone, may revoke; they are bound to the first entry,
\* and nothing on its way to a removal is.
Harmless(r, q) ==
    /\ q.pc # "idle" => r.live
    /\ q.pc \notin {"reset_list", "reset_pw", "reset_sessions", "reset"}
    /\ r.role = "owner" => r.paired_index = 1
    /\ q.pc = "assign" /\ q.role = "owner" => q.index = 1
    /\ r.state = "LS_AUTH_WAIT_PROOF" =>
          \/ q.pc \in {"idle", "auth3_role"} /\ r.role = "none"
          \/ q.pc = "auth3_ok"
    /\ q.pc \in {"auth1_find", "auth1_get", "auth1_set"} => r.role = "none"
    /\ q.pc \in {"revoke_find", "revoke_get"} => r.paired_index = 1
    /\ q.pc = "unpair_index" => r.paired_index # 1
    /\ q.pc = "remove" => q.index # 1
    /\ q.pc = "sessions" => q.index >= 2

AllHarmless == \A s \in Sessions : Harmless(sess[s], h[s])

OwnerInv == Inv /\ Owned(list) /\ Owned(store.list) /\ AllHarmless
-----------------------------------------------------------------------------
(* The list *)

\* The owner's entry is the first one.
LEMMA OwnerIsFirst ==
  ASSUME NEW L, Good(L), Owned(L), NEW i \in 1..Count(L)
  PROVE  (L.entries[i].role = "owner") <=> (i = 1)
<1>1. Count(L) \in Nat
  BY ListFacts DEF Good
<1>2. 1 \in 1..Count(L) /\ L.entries[1].sub = L.owner
  BY <1>1 DEF Owned, OwnerFirst
<1>3. (L.entries[i].role = "owner") <=> (L.entries[i].sub = L.owner)
  BY DEF Good, RolesMatch
<1>4. L.entries[i].sub = L.entries[1].sub => i = 1
  BY <1>2 DEF Good, Unique
<1> QED
  BY <1>2, <1>3, <1>4

\* paired_list_add() leaves the owner at the head.
LEMMA AddOwned ==
  ASSUME NEW L, Good(L), Owned(L), NEW u \in Subs, NEW k \in Nat
  PROVE  Owned(Add(L, u, k))
<1> DEFINE A == Add(L, u, k)
<1>1. Count(L) \in Nat /\ u # NoSub
  BY ListFacts, PairedListAssumption DEF Good
<1>2. CASE u \in Accounts(L)
  <2>1. /\ Count(A) = Count(L) /\ A.owner = IF L.owner = NoSub THEN u ELSE L.owner
        /\ \A i \in 1..Count(L) : A.entries[i].sub = L.entries[i].sub
    BY <1>2, AddAgain
  <2>2. Count(L) > 0
    BY <1>1, <1>2 DEF Accounts
  <2>3. L.owner # NoSub /\ L.entries[1].sub = L.owner /\ A.entries[1].sub = L.entries[1].sub
    BY <1>1, <2>1, <2>2 DEF Owned, OwnerFirst
  <2>4. Count(A) > 0 /\ A.owner = L.owner /\ A.entries[1].sub = L.owner
    BY <2>1, <2>2, <2>3
  <2> QED
    BY <2>3, <2>4 DEF Owned, OwnerFirst
<1>3. CASE u \notin Accounts(L)
  <2>1. /\ Count(A) = Count(L) + 1 /\ A.owner = IF L.owner = NoSub THEN u ELSE L.owner
        /\ \A i \in 1..Count(L) : A.entries[i] = L.entries[i]
        /\ A.entries[Count(L) + 1].sub = u
    BY <1>3, AddNew
  <2>2. CASE L.owner = NoSub
    <3>1. Count(L) = 0
      BY <1>1, <2>2 DEF Owned
    <3>2. Count(A) = 1 /\ A.owner = u /\ A.entries[1].sub = u
      BY <1>1, <2>1, <2>2, <3>1
    <3> QED
      BY <1>1, <3>2 DEF Owned, OwnerFirst
  <2>3. CASE L.owner # NoSub
    <3>1. Count(L) > 0 /\ L.entries[1].sub = L.owner /\ A.entries[1] = L.entries[1]
      BY <1>1, <2>1, <2>3 DEF Owned, OwnerFirst
    <3>2. Count(A) > 0 /\ A.owner = L.owner /\ A.entries[1].sub = L.owner
      BY <1>1, <2>1, <2>3, <3>1
    <3> QED
      BY <2>3, <3>2 DEF Owned, OwnerFirst
  <2> QED
    BY <2>2, <2>3
<1> QED
  BY <1>2, <1>3

\* So does removing another entry.
LEMMA RemoveOwned ==
  ASSUME NEW L, Good(L), Owned(L), NEW i \in 1..Count(L), i # 1
  PROVE  Owned(Remove(L, i))
<1>1. Count(L) \in Nat /\ i > 1
  BY ListFacts DEF Good
<1>2. /\ Count(Remove(L, i)) = Count(L) - 1 /\ Remove(L, i).owner = L.owner
      /\ Remove(L, i).entries[1] = L.entries[1]
  BY <1>1, RemoveProperties
<1> QED
  BY <1>1, <1>2 DEF Owned, OwnerFirst

\* So does a new key for the owner.
LEMMA RotateOwned ==
  ASSUME NEW L, Good(L), Owned(L), HasOwnerEntry(L), NEW k \in Nat
  PROVE  Owned(RotateOwnerKey(L, k))
<1> DEFINE A == RotateOwnerKey(L, k)
<1>1. /\ Count(L) \in Nat /\ Count(A) = Count(L) /\ A.owner = L.owner
      /\ \A i \in 1..Count(L) : A.entries[i].sub = L.entries[i].sub
  BY ListFacts, RotateProperties DEF Good
<1>2. Count(L) > 0 /\ L.owner # NoSub /\ L.entries[1].sub = L.owner
  BY <1>1 DEF Owned, OwnerFirst, HasOwnerEntry
<1>3. Count(A) > 0 /\ A.owner = L.owner /\ A.entries[1].sub = L.owner
  BY <1>1, <1>2
<1> QED
  BY <1>2, <1>3 DEF Owned, OwnerFirst

\* So does storing the list, or failing to.
LEMMA StoreOwned ==
  ASSUME TypeOK, Owned(store.list), NEW L, Owned(L), NEW ok \in BOOLEAN, StoreList(ok, L)
  PROVE  Owned(store'.list)
<1>1. Owned(Stored(L))
  <2>1. Owned(EmptyList)
    BY DEF Owned, OwnerFirst, EmptyList, Count
  <2> QED
    BY <2>1 DEF Stored
<1>2. CASE ok
  BY <1>1, <1>2 DEF StoreList, TypeOK
<1> QED
  BY <1>2 DEF StoreList
-----------------------------------------------------------------------------
(* The handlers *)

\* A step of task s is about its own slot and handler.
LEMMA HarmlessStep ==
  ASSUME OwnerInv, NEW s \in Sessions, NEW slot, NEW handler, Harmless(slot, handler),
         Update(s, slot), Proceed(s, handler)
  PROVE  AllHarmless'
<1>1. /\ sess'[s] = slot /\ h'[s] = handler
      /\ \A t \in Sessions \ {s} : sess'[t] = sess[t] /\ h'[t] = h[t]
  BY DEF OwnerInv, Inv, TypeOK, Update, Proceed
<1>2. \A t \in Sessions \ {s} : Harmless(sess'[t], h'[t])
  BY <1>1 DEF OwnerInv, AllHarmless
<1> QED
  BY <1>1, <1>2 DEF AllHarmless

\* What holds before a step of task s.
LEMMA HarmlessNow ==
  ASSUME OwnerInv, NEW s \in Sessions
  PROVE  /\ sess[s] \in Session /\ h[s] \in Handler
         /\ Harmless(sess[s], h[s])
         /\ sess' = sess => Update(s, sess[s])
         /\ h' = h => Proceed(s, h[s])
  BY FineNow DEF OwnerInv, AllHarmless, Fine

\* A task that is done can do no harm, unless its session waits for a proof
\* as an owner.
LEMMA HarmlessIdle ==
  ASSUME NEW r, r.role = "owner" => r.paired_index = 1,
         r.state = "LS_AUTH_WAIT_PROOF" => r.role = "none"
  PROVE  Harmless(r, Idle)
  BY DEF Harmless, Idle

\* A slot whose authentication is dropped is harmless with any handler that
\* needs no binding.
LEMMA HarmlessDropped ==
  ASSUME NEW r \in Session, NEW q, q.pc # "idle" => r.live,
         q.pc \notin {"assign", "reset_list", "reset_pw", "reset_sessions", "reset",
                      "revoke_find", "revoke_get", "remove", "sessions"}
  PROVE  Harmless(DropAuth(r), q)
  BY DEF Harmless, DropAuth, Wiped, Session

\* Handshakes: the role is asked of the list, and AUTH1 starts without one.
LEMMA HarmlessHandshake ==
  ASSUME OwnerInv, NEW s \in Sessions, Handshake(s)
  PROVE  AllHarmless'
<1> DEFINE R == sess[s]
           Q == h[s]
<1> USE DEF Goto, Return, At, MayStart
<1>1. /\ R \in Session /\ Q \in Handler /\ Harmless(R, Q)
      /\ sess' = sess => Update(s, R)
      /\ h' = h => Proceed(s, Q)
  BY HarmlessNow
<1>2. CASE Connect(s) \/ Disconnect(s) \/ RestartRefused(s)
  <2>1. Q.pc = "idle"
    BY <1>1, <1>2 DEF Connect, Disconnect, RestartRefused, Harmless
  <2>2. Harmless(DropAuth(R), Q) /\ Harmless(Wiped, Q) /\ Harmless(Acquired, Q)
    BY <1>1, <2>1, HarmlessDropped DEF Harmless, Wiped, Acquired
  <2> QED
    BY <1>1, <1>2, <2>2, HarmlessStep DEF Connect, Disconnect, RestartRefused
<1>3. CASE Pake1(s)
  <2> DEFINE q == [Q EXCEPT !.pc = "pake1", !.epoch = pw]
  <2>1. q.pc = "pake1"
    BY <1>1 DEF Handler
  <2>2. Harmless(DropAuth(R), q)
    BY <1>1, <1>3, <2>1, HarmlessDropped DEF Pake1
  <2> QED
    BY <1>3, <2>2, HarmlessStep DEF Pake1
<1>4. CASE Pake1Set(s)
  <2> DEFINE r == [R EXCEPT !.key = <<"pake", Q.epoch>>, !.srp = TRUE, !.state = "LS_PAKE_WAIT_PROOF"]
  <2>1. r.role = R.role /\ r.paired_index = R.paired_index /\ r.state = "LS_PAKE_WAIT_PROOF"
    BY <1>1 DEF Session
  <2>2. Harmless(r, Idle)
    BY <1>1, <2>1, HarmlessIdle DEF Harmless
  <2> QED
    BY <1>4, <2>2, HarmlessStep DEF Pake1Set
<1>5. CASE Pake3Malformed(s) \/ Pake3Bad(s)
  <2> DEFINE r == [R EXCEPT !.srp = FALSE, !.key = NoKey, !.state = "LS_NEW"]
  <2>1. r.role = R.role /\ r.paired_index = R.paired_index /\ r.state = "LS_NEW" /\ r.live = R.live
    BY <1>1 DEF Session
  <2>2. Harmless(r, Idle) /\ Harmless(r, Q)
    BY <1>1, <2>1 DEF Harmless, Idle
  <2> QED
    BY <1>1, <1>5, <2>2, HarmlessStep DEF Pake3Malformed, Pake3Bad, AbortPake
<1>6. CASE Pake3(s)
  <2>1. Harmless(R, [Q EXCEPT !.pc = "exchange"])
    BY <1>1, <1>6 DEF Harmless, Handler, Pake3
  <2> QED
    BY <1>1, <1>6, <2>1, HarmlessStep DEF Pake3
<1>7. CASE Pake3Good(s)
  <2> DEFINE r == [R EXCEPT !.srp = FALSE]
  <2>1. r.role = R.role /\ r.paired_index = R.paired_index /\ r.state = R.state /\ r.live = R.live
    BY <1>1 DEF Session
  <2>2. [Q EXCEPT !.pc = "pake3"].pc = "pake3"
    BY <1>1 DEF Handler
  <2>3. Harmless(r, [Q EXCEPT !.pc = "pake3"])
    BY <1>1, <1>7, <2>1, <2>2 DEF Harmless, Pake3Good
  <2> QED
    BY <1>7, <2>3, HarmlessStep DEF Pake3Good
<1>8. CASE Pake3Ok(s)
  <2> DEFINE r == [R EXCEPT !.state = "LS_PAKE_OK"]
  <2>1. r.role = R.role /\ r.paired_index = R.paired_index /\ r.state = "LS_PAKE_OK"
    BY <1>1 DEF Session
  <2>2. Harmless(r, Idle)
    BY <1>1, <2>1, HarmlessIdle DEF Harmless
  <2> QED
    BY <1>8, <2>2, HarmlessStep DEF Pake3Ok
<1>9. ASSUME NEW u \in Subs, Auth1(s, u) PROVE AllHarmless'
  <2> DEFINE q == [Q EXCEPT !.pc = "auth1_find", !.sub = u]
  <2>1. q.pc = "auth1_find"
    BY <1>1 DEF Handler
  <2>2. Harmless(DropAuth(R), q)
    BY <1>1, <1>9, <2>1, HarmlessDropped DEF Auth1
  <2> QED
    BY <1>9, <2>2, HarmlessStep DEF Auth1
<1>10. CASE Auth1Find(s)
  <2> DEFINE q == [Q EXCEPT !.pc = "auth1_get", !.index = Find(list, Q.sub)]
  <2>1. q.pc = "auth1_get"
    BY <1>1 DEF Handler
  <2>2. Harmless(R, q) /\ Harmless(R, Idle)
    BY <1>1, <1>10, <2>1 DEF Harmless, Idle, Auth1Find
  <2> QED
    BY <1>1, <1>10, <2>2, HarmlessStep DEF Auth1Find
<1>11. CASE Auth1Get(s)
  <2> DEFINE q == [Q EXCEPT !.pc = "auth1_set", !.key = list.entries[Q.index].key]
  <2>1. q.pc = "auth1_set"
    BY <1>1 DEF Handler
  <2>2. Harmless(R, q) /\ Harmless(R, Idle)
    BY <1>1, <1>11, <2>1 DEF Harmless, Idle, Auth1Get
  <2> QED
    BY <1>1, <1>11, <2>2, HarmlessStep DEF Auth1Get
<1>12. CASE Auth1Set(s)
  <2> DEFINE r == [R EXCEPT !.key = <<"acct", Q.key>>, !.paired_index = Q.index,
                            !.state = "LS_AUTH_WAIT_PROOF", !.who = Q.sub]
  <2>1. r.role = R.role
    BY <1>1 DEF Session
  <2>2. Harmless(r, Idle)
    BY <1>1, <1>12, <2>1, HarmlessIdle DEF Harmless, Auth1Set
  <2> QED
    BY <1>12, <2>2, HarmlessStep DEF Auth1Set
<1>13. CASE Auth3Bad(s)
  <2> DEFINE r == [R EXCEPT !.key = NoKey, !.paired_index = 0, !.state = "LS_NEW", !.who = NoSub]
  <2>1. r.role = R.role /\ r.state = "LS_NEW" /\ r.live = R.live
    BY <1>1 DEF Session
  <2>2. Harmless(r, Q)
    BY <1>1, <1>13, <2>1 DEF Harmless, Auth3Bad
  <2> QED
    BY <1>1, <1>13, <2>2, HarmlessStep DEF Auth3Bad
<1>14. CASE Auth3(s)
  <2> DEFINE r == [R EXCEPT !.key = <<"sess", R.key[2]>>]
             q == [Q EXCEPT !.pc = "auth3_role"]
  <2>1. /\ r.role = R.role /\ r.paired_index = R.paired_index /\ r.state = R.state /\ r.live = R.live
        /\ q.pc = "auth3_role"
    BY <1>1 DEF Session, Handler
  <2>2. Harmless(r, q)
    BY <1>1, <1>14, <2>1 DEF Harmless, Auth3
  <2> QED
    BY <1>14, <2>2, HarmlessStep DEF Auth3
<1>15. CASE Auth3Role(s)
  <2> DEFINE o == IF InRange(list, R.paired_index) /\ list.entries[R.paired_index].role = "owner"
                  THEN "owner" ELSE "user"
             r == [R EXCEPT !.role = o]
             q == [Q EXCEPT !.pc = "auth3_ok"]
  <2>1. /\ r.role = o /\ r.paired_index = R.paired_index /\ r.state = R.state /\ r.live = R.live
        /\ q.pc = "auth3_ok"
    BY <1>1 DEF Session, Handler
  <2>2. o = "owner" => R.paired_index = 1
    BY OwnerIsFirst DEF OwnerInv, Inv, InRange
  <2>3. Harmless(r, q)
    BY <1>1, <1>15, <2>1, <2>2 DEF Harmless, Auth3Role
  <2> QED
    BY <1>15, <2>3, HarmlessStep DEF Auth3Role
<1>16. CASE Auth3Ok(s)
  <2> DEFINE r == [R EXCEPT !.state = "LS_AUTH_OK"]
  <2>1. r.role = R.role /\ r.paired_index = R.paired_index /\ r.state = "LS_AUTH_OK"
    BY <1>1 DEF Session
  <2>2. Harmless(r, Idle)
    BY <1>1, <2>1, HarmlessIdle DEF Harmless
  <2> QED
    BY <1>16, <2>2, HarmlessStep DEF Auth3Ok
<1> QED
  BY <1>2, <1>3, <1>4, <1>5, <1>6, <1>7, <1>8, <1>9, <1>10, <1>11, <1>12, <1>13, <1>14,
     <1>15, <1>16 DEF Handshake

\* Enrolling binds an owner's session to the first entry, and leaves the owner
\* at the head of the list.
LEMMA OwnedEnrolling ==
  ASSUME OwnerInv, NEW s \in Sessions, Enrolling(s)
  PROVE  AllHarmless' /\ Owned(list') /\ Owned(store'.list)
<1> DEFINE R == sess[s]
           Q == h[s]
<1> USE DEF Goto, Return, At, MayStart
<1>1. /\ R \in Session /\ Q \in Handler /\ Harmless(R, Q)
      /\ sess' = sess => Update(s, R)
      /\ h' = h => Proceed(s, Q)
  BY HarmlessNow
<1>2. list' = list /\ store' = store => Owned(list') /\ Owned(store'.list)
  BY DEF OwnerInv
<1>3. Q.pc = "add" => Q.sub \in Subs
  BY DEF OwnerInv, Inv, EnrollsSomebody
<1>4. ASSUME NEW u \in Subs, Enroll(s, u) PROVE AllHarmless' /\ Owned(list') /\ Owned(store'.list)
  <2> DEFINE q == [Q EXCEPT !.pc = "add", !.sub = u, !.epoch = R.key[2]]
  <2>1. q.pc = "add"
    BY <1>1 DEF Handler
  <2>2. Harmless(R, q)
    BY <1>1, <1>4, <2>1 DEF Harmless, Enroll
  <2> QED
    BY <1>1, <1>2, <1>4, <2>2, HarmlessStep DEF Enroll
<1>5. CASE EnrollFull(s) \/ EnrollStoreFails(s)
  <2>1. Harmless(R, Idle)
    BY <1>1, <1>5, HarmlessIdle DEF Harmless, EnrollFull, EnrollStoreFails
  <2> QED
    BY <1>1, <1>2, <1>5, <2>1, HarmlessStep DEF EnrollFull, EnrollStoreFails
<1>6. ASSUME NEW L, Good(L), Owned(L), AddIndex(list, Q.sub) \in 1..Count(L), At(s, "add"),
             Added(s, L), sess' = sess
      PROVE  AllHarmless' /\ Owned(list') /\ Owned(store'.list)
  <2> DEFINE i == AddIndex(list, Q.sub)
             q == [Q EXCEPT !.pc = "assign", !.index = i,
                            !.role = L.entries[i].role, !.key = L.entries[i].key]
  <2>1. q.pc = "assign" /\ q.index = i /\ q.role = L.entries[i].role
    BY <1>1 DEF Handler
  <2>2. L.entries[i].role = "owner" => i = 1
    BY <1>6, OwnerIsFirst
  <2>3. Harmless(R, q)
    BY <1>1, <1>6, <2>1, <2>2 DEF Harmless
  <2>4. AllHarmless'
    BY <1>1, <1>6, <2>3, HarmlessStep DEF Added
  <2>5. Owned(list') /\ Owned(store'.list)
    BY <1>6, StoreOwned DEF Added, OwnerInv, Inv
  <2> QED
    BY <2>4, <2>5
<1>7. CASE EnrollAgain(s)
  <2> DEFINE A == Add(list, Q.sub, 0)
  <2>1. Good(A) /\ AddIndex(list, Q.sub) \in 1..Count(A)
    BY <1>7, AddAgain DEF EnrollAgain, OwnerInv, Inv
  <2>2. Owned(A)
    BY <1>3, <1>7, AddOwned DEF EnrollAgain, OwnerInv, Inv
  <2> QED
    BY <1>6, <1>7, <2>1, <2>2 DEF EnrollAgain
<1>8. CASE EnrollNew(s)
  <2> DEFINE A == Add(list, Q.sub, used.keys + 1)
  <2>1. used.keys + 1 \in Nat
    BY Charged DEF OwnerInv
  <2>2. Q.sub \in Subs /\ Q.sub \notin Accounts(list) /\ Good(list) /\ Count(list) \in Nat /\ Owned(list)
    BY <1>3, <1>8, ListFacts DEF EnrollNew, OwnerInv, Inv, Good
  <2>3. Good(A) /\ Count(A) = Count(list) + 1 /\ AddIndex(list, Q.sub) = Count(list) + 1
    BY <2>1, <2>2, AddNew
  <2>4. Owned(A)
    BY <2>1, <2>2, AddOwned
  <2> QED
    BY <1>6, <1>8, <2>2, <2>3, <2>4 DEF EnrollNew
<1>9. CASE EnrollAssign(s)
  <2> DEFINE r == [R EXCEPT !.paired_index = Q.index, !.role = Q.role, !.who = Q.sub]
             q == [Q EXCEPT !.pc = "paired"]
  <2>1. /\ r.role = Q.role /\ r.paired_index = Q.index /\ r.state = R.state /\ r.live = R.live
        /\ q.pc = "paired"
    BY <1>1 DEF Session, Handler
  <2>2. Harmless(r, q)
    BY <1>1, <1>9, <2>1 DEF Harmless, EnrollAssign
  <2> QED
    BY <1>2, <1>9, <2>2, HarmlessStep DEF EnrollAssign
<1>10. CASE EnrollEvent(s)
  <2>1. Harmless(R, Idle)
    BY <1>1, <1>10, HarmlessIdle DEF Harmless, EnrollEvent
  <2> QED
    BY <1>1, <1>2, <1>10, <2>1, HarmlessStep DEF EnrollEvent
<1> QED
  BY <1>4, <1>5, <1>7, <1>8, <1>9, <1>10 DEF Enrolling

\* The sessions of the first entry survive any other removal, and no session
\* is shifted onto it.
LEMMA HarmlessRemoval ==
  ASSUME NEW r \in Session, NEW q, Harmless(r, q), NEW i \in Nat, i >= 2
  PROVE  Harmless(OnPairedRemoved(r, i), q)
<1> DEFINE d == OnPairedRemoved(r, i)
<1>1. r.paired_index \in Nat /\ r.live \in BOOLEAN
  BY DEF Session
<1>2. CASE ~r.live \/ r.paired_index < i
  <2>1. d = r
    BY <1>1, <1>2 DEF OnPairedRemoved
  <2> QED
    BY <2>1
<1>3. CASE r.live /\ r.paired_index = i
  <2>1. /\ d.live = r.live /\ d.state = "LS_NEW" /\ d.role = "none" /\ d.paired_index = 0
    BY <1>3 DEF OnPairedRemoved, DropAuth, Wiped
  <2> HIDE DEF d
  <2>2. Harmless(d, q)
    BY <1>1, <1>3, <2>1 DEF Harmless
  <2> QED
    BY <2>2 DEF d
<1>4. CASE r.live /\ r.paired_index > i
  <2>1. /\ d.live = r.live /\ d.state = r.state /\ d.role = r.role /\ d.paired_index = r.paired_index - 1
    <3>1. d = [r EXCEPT !.paired_index = r.paired_index - 1]
      <4>1. r.paired_index # i
        BY <1>1, <1>4
      <4> QED
        BY <1>4, <4>1 DEF OnPairedRemoved
    <3> HIDE DEF d
    <3> QED
      BY <3>1 DEF Session
  <2> HIDE DEF d
  <2>2. r.paired_index # 1 /\ d.paired_index # 1 /\ r.role # "owner"
    BY <1>1, <1>4, <2>1 DEF Harmless
  <2>3. Harmless(d, q)
    BY <1>1, <2>1, <2>2 DEF Harmless
  <2> QED
    BY <2>3 DEF d
<1> QED
  BY <1>1, <1>2, <1>3, <1>4

\* No handler removes the first entry.
LEMMA OwnedRemoving ==
  ASSUME OwnerInv, NEW s \in Sessions, Removing(s)
  PROVE  AllHarmless' /\ Owned(list') /\ Owned(store'.list)
<1> DEFINE R == sess[s]
           Q == h[s]
<1> USE DEF Goto, Return, At, MayStart
<1>1. /\ R \in Session /\ Q \in Handler /\ Harmless(R, Q)
      /\ sess' = sess => Update(s, R)
      /\ h' = h => Proceed(s, Q)
  BY HarmlessNow
<1>2. list' = list /\ store' = store => Owned(list') /\ Owned(store'.list)
  BY DEF OwnerInv
<1>3. Q.pc # "idle" /\ Q.pc # "auth3_role" /\ Q.pc # "auth3_ok" => Harmless(R, Idle)
  BY <1>1, HarmlessIdle DEF Harmless
<1>4. Good(list) /\ Owned(list) /\ Q.index \in Nat /\ R.paired_index \in Nat /\ Count(list) \in Nat
  BY <1>1, ListFacts DEF OwnerInv, Inv, Good, Handler, Session
<1>5. ASSUME NEW u \in Subs, Revoke(s, u)
      PROVE  AllHarmless' /\ Owned(list') /\ Owned(store'.list)
  <2> DEFINE q == [Q EXCEPT !.cmd = "revoke", !.pc = "revoke_find", !.sub = u]
  <2>1. q.pc = "revoke_find"
    BY <1>1 DEF Handler
  <2>2. Harmless(R, q)
    BY <1>1, <1>5, <2>1 DEF Harmless, Revoke, IsOwnerSession, Encrypted, Keyed
  <2> QED
    BY <1>1, <1>2, <1>5, <2>2, HarmlessStep DEF Revoke
<1>6. CASE RevokeFind(s)
  <2> DEFINE q == [Q EXCEPT !.pc = "revoke_get", !.index = Find(list, Q.sub)]
  <2>1. q.pc = "revoke_get"
    BY <1>1 DEF Handler
  <2>2. Harmless(R, q) /\ Harmless(R, Idle)
    BY <1>1, <1>3, <1>6, <2>1 DEF Harmless, RevokeFind
  <2> QED
    BY <1>1, <1>2, <1>6, <2>2, HarmlessStep DEF RevokeFind
<1>7. CASE RevokeGet(s)
  <2> DEFINE q == [Q EXCEPT !.pc = "remove"]
  <2>1. q.pc = "remove" /\ q.index = Q.index
    BY <1>1 DEF Handler
  <2>2. Q.index # R.paired_index => Harmless(R, q)
    BY <1>1, <1>7, <2>1 DEF Harmless, RevokeGet
  <2>3. Harmless(R, Idle)
    BY <1>3, <1>7 DEF RevokeGet
  <2> QED
    BY <1>1, <1>2, <1>7, <2>2, <2>3, HarmlessStep DEF RevokeGet
<1>8. CASE Unpair(s)
  <2> DEFINE q == [Q EXCEPT !.cmd = "unpair", !.pc = "unpair_get"]
  <2>1. q.pc = "unpair_get"
    BY <1>1 DEF Handler
  <2>2. Harmless(R, q)
    BY <1>1, <1>8, <2>1 DEF Harmless, Unpair, IsAuthedSession, Encrypted, Keyed
  <2> QED
    BY <1>1, <1>2, <1>8, <2>2, HarmlessStep DEF Unpair
<1>9. CASE UnpairGet(s)
  <2> DEFINE q == [Q EXCEPT !.pc = "unpair_index", !.sub = list.entries[R.paired_index].sub]
  <2>1. q.pc = "unpair_index"
    BY <1>1 DEF Handler
  <2>2. InRange(list, R.paired_index) /\ list.entries[R.paired_index].role # "owner"
           => R.paired_index # 1
    BY <1>4, OwnerIsFirst DEF InRange
  <2>3. R.paired_index # 1 => Harmless(R, q)
    BY <1>1, <1>9, <2>1 DEF Harmless, UnpairGet
  <2>4. Harmless(R, Idle)
    BY <1>3, <1>9 DEF UnpairGet
  <2> QED
    BY <1>1, <1>2, <1>9, <2>2, <2>3, <2>4, HarmlessStep DEF UnpairGet
<1>10. CASE UnpairIndex(s)
  <2> DEFINE q == [Q EXCEPT !.pc = "remove", !.index = R.paired_index]
  <2>1. q.pc = "remove" /\ q.index = R.paired_index
    BY <1>1 DEF Handler
  <2>2. Harmless(R, q)
    BY <1>1, <1>10, <2>1 DEF Harmless, UnpairIndex
  <2> QED
    BY <1>1, <1>2, <1>10, <2>2, HarmlessStep DEF UnpairIndex
<1>11. Q.pc = "remove" /\ NotRemoved(s) => \E q : Harmless(R, q) /\ Proceed(s, q)
  <2> DEFINE q == [Q EXCEPT !.pc = "scan", !.index = Q.index + 1]
  <2>1. q.pc = "scan"
    BY <1>1 DEF Handler
  <2>2. Q.pc = "remove" => Harmless(R, q)
    BY <1>1, <2>1 DEF Harmless
  <2> QED
    BY <1>3, <2>2 DEF NotRemoved
<1>12. CASE RemoveNotFound(s)
  <2>1. PICK q : Harmless(R, q) /\ Proceed(s, q)
    BY <1>11, <1>12 DEF RemoveNotFound
  <2> QED
    BY <1>1, <1>2, <1>12, <2>1, HarmlessStep DEF RemoveNotFound
<1>13. ASSUME NEW ok \in BOOLEAN, RemoveEntry(s, ok)
       PROVE  AllHarmless' /\ Owned(list') /\ Owned(store'.list)
  <2> DEFINE q == [Q EXCEPT !.pc = "sessions"]
  <2>1. q.pc = "sessions" /\ q.index = Q.index
    BY <1>1 DEF Handler
  <2>2. Q.index \in 1..Count(list) /\ Q.index # 1
    BY <1>1, <1>13 DEF RemoveEntry, InRange, Harmless
  <2>3. Harmless(R, q)
    BY <1>1, <1>4, <1>13, <2>1, <2>2 DEF Harmless, RemoveEntry
  <2>4. PICK handler : Harmless(R, handler) /\ Proceed(s, handler)
    BY <1>11, <1>13, <2>3 DEF RemoveEntry
  <2>5. AllHarmless'
    BY <1>1, <1>13, <2>4, HarmlessStep DEF RemoveEntry
  <2>6. Owned(Remove(list, Q.index))
    BY <1>4, <2>2, RemoveOwned
  <2>7. Owned(list') /\ Owned(store'.list)
    BY <1>13, <2>6, StoreOwned DEF RemoveEntry, OwnerInv, Inv
  <2> QED
    BY <2>5, <2>7
<1>14. CASE DropSessions(s)
  <2> DEFINE q == [Q EXCEPT !.pc = "unpaired"]
             i == Q.index
  <2>1. q.pc = "unpaired" /\ i >= 2
    BY <1>1, <1>14 DEF Handler, DropSessions, Harmless
  <2>2. Harmless(R, q)
    BY <1>1, <1>14, <2>1 DEF Harmless, DropSessions
  <2>3. \A t \in Sessions : sess[t] \in Session /\ Harmless(sess[t], h[t])
    BY HarmlessNow
  <2>4. \A t \in Sessions : Harmless(sess[t], h'[t])
    BY <1>14, <2>2, <2>3 DEF DropSessions, Proceed, OwnerInv, Inv, TypeOK
  <2>5. \A t \in Sessions : sess'[t] = OnPairedRemoved(sess[t], i)
    BY <1>14 DEF DropSessions
  <2>6. \A t \in Sessions : Harmless(sess'[t], h'[t])
    BY <1>4, <2>1, <2>3, <2>4, <2>5, HarmlessRemoval
  <2> QED
    BY <1>2, <1>14, <2>6 DEF DropSessions, AllHarmless
<1>15. CASE UnpairedEvent(s)
  <2> DEFINE q == [Q EXCEPT !.pc = "scan"]
  <2>1. q.pc = "scan"
    BY <1>1 DEF Handler
  <2>2. Harmless(R, q) /\ Harmless(R, Idle)
    BY <1>1, <1>3, <1>15, <2>1 DEF Harmless, UnpairedEvent
  <2> QED
    BY <1>1, <1>2, <1>15, <2>2, HarmlessStep DEF UnpairedEvent
<1> QED
  BY <1>5, <1>6, <1>7, <1>8, <1>9, <1>10, <1>12, <1>13, <1>14, <1>15 DEF Removing

\* PWSET skips the first entry, and the handlers of RESET never start.
LEMMA OwnedLocking ==
  ASSUME OwnerInv, NEW s \in Sessions, Locking(s)
  PROVE  AllHarmless' /\ Owned(list') /\ Owned(store'.list)
<1> DEFINE R == sess[s]
           Q == h[s]
<1> USE DEF Goto, Return, At, MayStart
<1>1. /\ R \in Session /\ Q \in Handler /\ Harmless(R, Q)
      /\ sess' = sess => Update(s, R)
      /\ h' = h => Proceed(s, Q)
  BY HarmlessNow
<1>2. list' = list /\ store'.list = store.list => Owned(list') /\ Owned(store'.list)
  BY DEF OwnerInv
<1>3. Q.pc # "idle" /\ Q.pc # "auth3_role" /\ Q.pc # "auth3_ok" => Harmless(R, Idle)
  BY <1>1, HarmlessIdle DEF Harmless
<1>4. Good(list) /\ Owned(list) /\ Q.index \in Nat
  BY <1>1 DEF OwnerInv, Inv, Handler
<1>5. CASE PwSet(s)
  <2> DEFINE q == [Q EXCEPT !.cmd = "pwset", !.pc = "pwset"]
  <2>1. q.pc = "pwset"
    BY <1>1 DEF Handler
  <2>2. Harmless(R, q)
    BY <1>1, <1>5, <2>1 DEF Harmless, PwSet, IsOwnerSession, Encrypted, Keyed
  <2> QED
    BY <1>1, <1>2, <1>5, <2>2, HarmlessStep DEF PwSet
<1>6. CASE PwSetScan(s)
  <2> DEFINE q1 == [Q EXCEPT !.pc = "rotate"]
             q2 == [Q EXCEPT !.pc = "remove", !.sub = list.entries[Q.index].sub]
             q3 == [Q EXCEPT !.index = Q.index + 1]
  <2>1. q1.pc = "rotate" /\ q2.pc = "remove" /\ q2.index = Q.index /\ q3.pc = Q.pc
    BY <1>1 DEF Handler
  <2>2. InRange(list, Q.index) /\ list.entries[Q.index].role # "owner" => Q.index # 1
    BY <1>4, OwnerIsFirst DEF InRange
  <2>3. Harmless(R, q1) /\ Harmless(R, q3)
    BY <1>1, <1>6, <2>1 DEF Harmless, PwSetScan
  <2>4. Q.index # 1 => Harmless(R, q2)
    BY <1>1, <1>6, <2>1 DEF Harmless, PwSetScan
  <2> QED
    BY <1>1, <1>2, <1>6, <2>2, <2>3, <2>4, HarmlessStep DEF PwSetScan
<1>7. CASE PwSetNothingToRotate(s)
  BY <1>1, <1>2, <1>3, <1>7, HarmlessStep DEF PwSetNothingToRotate
<1>8. CASE PwClear(s)
  <2> DEFINE q == [Q EXCEPT !.pc = "pwclear"]
  <2>1. q.pc = "pwclear"
    BY <1>1 DEF Handler
  <2>2. Harmless(R, q)
    BY <1>1, <1>8, <2>1 DEF Harmless, PwClear, IsOwnerSession, Encrypted, Keyed
  <2> QED
    BY <1>1, <1>2, <1>8, <2>2, HarmlessStep DEF PwClear
<1>9. ASSUME NEW ok \in BOOLEAN, PwSetStore(s, ok)
      PROVE  AllHarmless' /\ Owned(list') /\ Owned(store'.list)
  <2> DEFINE q == [Q EXCEPT !.pc = "scan", !.index = 1]
  <2>1. q.pc = "scan"
    BY <1>1 DEF Handler
  <2>2. Harmless(R, q) /\ Harmless(R, Idle)
    BY <1>1, <1>3, <1>9, <2>1 DEF Harmless, PwSetStore
  <2>3. store'.list = store.list
    BY <1>9 DEF PwSetStore, OwnerInv, Inv, TypeOK
  <2> QED
    BY <1>1, <1>2, <1>9, <2>2, <2>3, HarmlessStep DEF PwSetStore
<1>10. ASSUME NEW ok \in BOOLEAN, PwSetRotate(s, ok)
       PROVE  AllHarmless' /\ Owned(list') /\ Owned(store'.list)
  <2>1. AllHarmless'
    BY <1>1, <1>3, <1>10, HarmlessStep DEF PwSetRotate
  <2>2. CASE ok
    <3>1. used.keys + 1 \in Nat
      BY Charged DEF OwnerInv
    <3>2. Owned(RotateOwnerKey(list, used.keys + 1))
      BY <1>4, <1>10, <3>1, RotateOwned DEF PwSetRotate
    <3>3. Owned(list') /\ Owned(store'.list)
      BY <1>10, <2>2, <3>2, StoreOwned DEF PwSetRotate, OwnerInv, Inv
    <3> QED
      BY <2>1, <3>3
  <2>3. CASE ~ok
    BY <1>2, <1>10, <2>1, <2>3 DEF PwSetRotate
  <2> QED
    BY <2>2, <2>3
<1>11. ASSUME NEW ok \in BOOLEAN, PwClearStore(s, ok)
       PROVE  AllHarmless' /\ Owned(list') /\ Owned(store'.list)
  <2>1. store'.list = store.list
    BY <1>11 DEF PwClearStore, ClearPassword, OwnerInv, Inv, TypeOK
  <2> QED
    BY <1>1, <1>2, <1>3, <1>11, <2>1, HarmlessStep DEF PwClearStore, ClearPassword
<1> QED
  BY <1>5, <1>6, <1>7, <1>8, <1>9, <1>10, <1>11 DEF Locking

\* A step uses up at most one bound.
LEMMA UsedNext ==
  ASSUME [Next]_vars
  PROVE  used' = used \/ \E c \in {"keys", "pws", "fails", "resets", "boots"} : used' = Charge(c)
<1> USE DEF ChargeNvs
<1>2. ASSUME NEW s \in Sessions, Handshake(s) PROVE used' = used
  BY <1>2 DEF Handshake, Connect, Disconnect, RestartRefused, Pake1, Pake1Set, Pake3Malformed,
              Pake3, Pake3Bad, Pake3Good, Pake3Ok, Auth1, Auth1Find, Auth1Get, Auth1Set, Auth3Bad,
              Auth3, Auth3Role, Auth3Ok
<1>3. ASSUME NEW s \in Sessions, Enrolling(s)
      PROVE  used' = used \/ used' = Charge("keys") \/ used' = Charge("fails")
  BY <1>3 DEF Enrolling, Enroll, EnrollFull, EnrollStoreFails, EnrollAgain, EnrollNew, EnrollAssign,
              EnrollEvent
<1>4. ASSUME NEW s \in Sessions, Removing(s)
      PROVE  used' = used \/ used' = Charge("fails")
  BY <1>4 DEF Removing, Revoke, RevokeFind, RevokeGet, Unpair, UnpairGet, UnpairIndex,
              RemoveNotFound, RemoveEntry, DropSessions, UnpairedEvent
<1>5. ASSUME NEW s \in Sessions, Locking(s)
      PROVE  used' = used \/ used' = Charge("keys") \/ used' = Charge("pws") \/ used' = Charge("fails")
  BY <1>5 DEF Locking, PwSet, PwSetScan, PwSetNothingToRotate, PwClear, PwSetStore, PwSetRotate,
              PwClearStore, ClearPassword
<1>6. ASSUME NEW s \in Sessions, Resetting(s)
      PROVE  used' = used \/ used' = Charge("resets") \/ used' = Charge("fails")
  BY <1>6 DEF Resetting, Reset, ResetSessions, ResetEvent, ResetList, ResetPw, ClearPassword
<1>7. CASE Reboot
  BY <1>7 DEF Reboot
<1>8. CASE UNCHANGED vars
  BY <1>8 DEF vars
<1> QED
  BY <1>2, <1>3, <1>4, <1>5, <1>6, <1>7, <1>8 DEF Next

\* RESET commands are counted, and the count never goes back.
LEMMA ResetsCounted ==
  ASSUME Inv, [Next]_vars, used'.resets = 0
  PROVE  used.resets = 0
<1>1. used \in Counters
  BY DEF Inv, TypeOK
<1> QED
  BY <1>1, UsedNext DEF Charge, Counters

\* The inductive step, as long as it is not the one that resets the device.
LEMMA OwnerNext ==
  ASSUME OwnerInv, [Next]_vars, used'.resets = 0
  PROVE  OwnerInv'
<1>1. Inv'
  BY InvNext DEF OwnerInv
<1>2. ASSUME NEW s \in Sessions, Handshake(s)
      PROVE  AllHarmless' /\ Owned(list') /\ Owned(store'.list)
  <2>1. UNCHANGED <<list, store>>
    BY <1>2 DEF Handshake, Connect, Disconnect, RestartRefused, Pake1, Pake1Set, Pake3Malformed,
                Pake3, Pake3Bad, Pake3Good, Pake3Ok, Auth1, Auth1Find, Auth1Get, Auth1Set, Auth3Bad,
                Auth3, Auth3Role, Auth3Ok
  <2> QED
    BY <1>2, <2>1, HarmlessHandshake DEF OwnerInv
<1>3. ASSUME NEW s \in Sessions, Enrolling(s) \/ Removing(s) \/ Locking(s)
      PROVE  AllHarmless' /\ Owned(list') /\ Owned(store'.list)
  BY <1>3, OwnedEnrolling, OwnedRemoving, OwnedLocking
<1>4. ASSUME NEW s \in Sessions, Resetting(s)
      PROVE  FALSE
  <2>1. Harmless(sess[s], h[s]) /\ used \in Counters
    BY HarmlessNow DEF OwnerInv, Inv, TypeOK
  <2>2. ~Reset(s)
    <3>1. Charge("resets").resets = used.resets + 1 /\ used.resets \in Nat
      BY <2>1 DEF Charge, Counters
    <3> QED
      BY <3>1 DEF Reset
  <2> QED
    BY <1>4, <2>1, <2>2 DEF Resetting, ResetList, ResetPw, ResetSessions, ResetEvent, At, Harmless
<1>5. CASE Reboot
  <2>1. Harmless(Wiped, Idle)
    BY DEF Harmless, Wiped, Idle
  <2>2. AllHarmless'
    BY <1>5, <2>1 DEF Reboot, AllHarmless
  <2> QED
    BY <1>1, <1>5, <2>2 DEF Reboot, OwnerInv
<1>6. CASE UNCHANGED vars
  BY <1>1, <1>6 DEF vars, OwnerInv, AllHarmless
<1> QED
  BY <1>1, <1>2, <1>3, <1>4, <1>5, <1>6 DEF Next, OwnerInv

\* The device starts with nobody paired.
LEMMA OwnerInit == Init => OwnerInv
<1> SUFFICES ASSUME Init PROVE OwnerInv
  OBVIOUS
<1>1. Owned(EmptyList)
  BY DEF Owned, OwnerFirst, EmptyList, Count
<1>2. Harmless(Wiped, Idle)
  BY DEF Harmless, Wiped, Idle
<1> QED
  BY <1>1, <1>2, InvInit DEF Init, OwnerInv, AllHarmless

\* What is inductive: the argument above holds up to the first RESET.
OwnerUntilReset == Inv /\ (used.resets = 0 => OwnerInv)

\* Until a RESET the owner keeps its entry, in RAM and in NVS, for any number
\* of sessions and accounts, however REVOKE, UNPAIR, PWSET and ENROLL
\* interleave, whichever NVS writes fail and whenever the device reboots.
THEOREM OwnershipStays == Spec => []OwnerStaysPaired
<1>1. OwnerUntilReset => OwnerStaysPaired
  BY DEF OwnerUntilReset, OwnerInv, Owned, OwnerStaysPaired
<1>2. OwnerUntilReset /\ [Next]_vars => OwnerUntilReset'
  BY InvNext, ResetsCounted, OwnerNext DEF OwnerUntilReset
<1>3. Init => OwnerUntilReset
  BY OwnerInit DEF OwnerUntilReset, OwnerInv
<1> QED
  BY <1>1, <1>2, <1>3, PTL DEF Spec
-----------------------------------------------------------------------------
(***************************************************************************)
(* The owner's role.  A session with that role is bound to the first entry *)
(* (Harmless); what is left to show is that the index 1, once it has been  *)
(* looked up for an account, stands for the owner's account however late   *)
(* it is used: no other account is ever found at, or shifted to, the head. *)
(***************************************************************************)

\* Slot r and its handler q, on a device that account o owns.
Firsts(o, r, q) ==
    /\ r.paired_index = 1 => o # NoSub /\ r.who = o
    /\ q.pc \in {"auth1_get", "auth1_set", "assign"} /\ q.index = 1 => o # NoSub /\ q.sub = o

AllFirsts == \A s \in Sessions : Firsts(list.owner, sess[s], h[s])

FirstInv == OwnerInv /\ AllFirsts

\* A step of task s; the owner, once there is one, stays.
LEMMA FirstsStep ==
  ASSUME FirstInv, NEW s \in Sessions, NEW slot, NEW handler, Firsts(list'.owner, slot, handler),
         Update(s, slot), Proceed(s, handler), list.owner = NoSub \/ list'.owner = list.owner
  PROVE  AllFirsts'
<1>1. /\ sess'[s] = slot /\ h'[s] = handler
      /\ \A t \in Sessions \ {s} : sess'[t] = sess[t] /\ h'[t] = h[t]
  BY DEF FirstInv, OwnerInv, Inv, TypeOK, Update, Proceed
<1>2. ASSUME NEW t \in Sessions \ {s} PROVE Firsts(list'.owner, sess'[t], h'[t])
  <2>1. Firsts(list.owner, sess[t], h[t])
    BY DEF FirstInv, AllFirsts
  <2>2. Firsts(list'.owner, sess[t], h[t])
    BY <2>1 DEF Firsts
  <2> QED
    BY <1>1, <2>2
<1> QED
  BY <1>1, <1>2 DEF AllFirsts

\* A slot that keeps its binding or loses it, with a handler that has no
\* index to bind it to.
LEMMA FirstsKept ==
  ASSUME NEW o, NEW r, NEW q, NEW r1, NEW q1, Firsts(o, r, q),
         r1.paired_index = 0 \/ (r1.paired_index = r.paired_index /\ r1.who = r.who),
         q1.pc \notin {"auth1_get", "auth1_set", "assign"}
  PROVE  Firsts(o, r1, q1)
  BY DEF Firsts

\* What holds before a step of task s.
LEMMA FirstsNow ==
  ASSUME FirstInv, NEW s \in Sessions
  PROVE  /\ sess[s] \in Session /\ h[s] \in Handler
         /\ Harmless(sess[s], h[s]) /\ Firsts(list.owner, sess[s], h[s])
         /\ sess' = sess => Update(s, sess[s])
         /\ h' = h => Proceed(s, h[s])
         /\ Good(list) /\ Owned(list)
         /\ Idle.pc = "idle"
<1>1. Firsts(list.owner, sess[s], h[s])
  BY DEF FirstInv, AllFirsts
<1>2. Good(list) /\ Owned(list) /\ OwnerInv
  BY DEF FirstInv, OwnerInv, Inv
<1> QED
  BY <1>1, <1>2, HarmlessNow DEF Idle

\* Of an account's entry and the first one.
LEMMA FirstIsOwner ==
  ASSUME NEW L, Good(L), Owned(L), 1 \in 1..Count(L)
  PROVE  L.owner # NoSub /\ L.entries[1].sub = L.owner
<1>1. Count(L) \in Nat
  BY ListFacts DEF Good
<1> QED
  BY <1>1 DEF Owned, OwnerFirst

\* Handshakes: AUTH1 looks the account up, and binds the slot later.
LEMMA FirstsHandshake ==
  ASSUME FirstInv, NEW s \in Sessions, Handshake(s)
  PROVE  AllFirsts'
<1> DEFINE R == sess[s]
           Q == h[s]
           o == list.owner
<1> USE DEF Goto, Return, At, MayStart
<1>1. /\ R \in Session /\ Q \in Handler /\ Harmless(R, Q) /\ Firsts(o, R, Q)
      /\ sess' = sess => Update(s, R)
      /\ h' = h => Proceed(s, Q)
      /\ Good(list) /\ Owned(list) /\ Idle.pc = "idle"
  BY FirstsNow
<1>2. ASSUME NEW r, NEW q, Update(s, r), Proceed(s, q), list' = list,
             r.paired_index = 0 \/ (r.paired_index = R.paired_index /\ r.who = R.who),
             q.pc \notin {"auth1_get", "auth1_set", "assign"}
      PROVE  AllFirsts'
  <2>1. Firsts(o, r, q)
    BY <1>1, <1>2, FirstsKept
  <2> QED
    BY <1>2, <2>1, FirstsStep
<1>3. DropAuth(R).paired_index = 0 /\ Wiped.paired_index = 0 /\ Acquired.paired_index = 0
  BY DEF DropAuth, Wiped, Acquired
<1>4. CASE Connect(s) \/ Disconnect(s) \/ RestartRefused(s)
  <2>1. Q.pc = "idle"
    BY <1>1, <1>4 DEF Connect, Disconnect, RestartRefused, Harmless
  <2> QED
    BY <1>1, <1>2, <1>3, <1>4, <2>1 DEF Connect, Disconnect, RestartRefused
<1>5. CASE Pake1(s)
  <2>1. [Q EXCEPT !.pc = "pake1", !.epoch = pw].pc = "pake1"
    BY <1>1 DEF Handler
  <2> QED
    BY <1>2, <1>3, <1>5, <2>1 DEF Pake1
<1>6. CASE Pake1Set(s)
  <2> DEFINE r == [R EXCEPT !.key = <<"pake", Q.epoch>>, !.srp = TRUE, !.state = "LS_PAKE_WAIT_PROOF"]
  <2>1. r.paired_index = R.paired_index /\ r.who = R.who
    BY <1>1 DEF Session
  <2> QED
    BY <1>1, <1>2, <1>6, <2>1 DEF Pake1Set
<1>7. CASE Pake3Malformed(s) \/ Pake3Bad(s)
  <2> DEFINE r == [R EXCEPT !.srp = FALSE, !.key = NoKey, !.state = "LS_NEW"]
  <2>1. r.paired_index = R.paired_index /\ r.who = R.who
    BY <1>1 DEF Session
  <2> QED
    BY <1>1, <1>2, <1>7, <2>1 DEF Pake3Malformed, Pake3Bad, AbortPake
<1>8. CASE Pake3(s)
  <2>1. [Q EXCEPT !.pc = "exchange"].pc = "exchange"
    BY <1>1 DEF Handler
  <2> QED
    BY <1>1, <1>2, <1>8, <2>1 DEF Pake3
<1>9. CASE Pake3Good(s)
  <2> DEFINE r == [R EXCEPT !.srp = FALSE]
  <2>1. r.paired_index = R.paired_index /\ r.who = R.who /\ [Q EXCEPT !.pc = "pake3"].pc = "pake3"
    BY <1>1 DEF Session, Handler
  <2> QED
    BY <1>2, <1>9, <2>1 DEF Pake3Good
<1>10. CASE Pake3Ok(s) \/ Auth3Ok(s)
  <2> DEFINE r1 == [R EXCEPT !.state = "LS_PAKE_OK"]
             r2 == [R EXCEPT !.state = "LS_AUTH_OK"]
  <2>1. /\ r1.paired_index = R.paired_index /\ r1.who = R.who
        /\ r2.paired_index = R.paired_index /\ r2.who = R.who
    BY <1>1 DEF Session
  <2>2. CASE Pake3Ok(s)
    BY <1>1, <1>2, <2>1, <2>2 DEF Pake3Ok
  <2>3. CASE Auth3Ok(s)
    BY <1>1, <1>2, <2>1, <2>3 DEF Auth3Ok
  <2> QED
    BY <1>10, <2>2, <2>3
<1>11. ASSUME NEW u \in Subs, Auth1(s, u) PROVE AllFirsts'
  <2>1. [Q EXCEPT !.pc = "auth1_find", !.sub = u].pc = "auth1_find"
    BY <1>1 DEF Handler
  <2> QED
    BY <1>2, <1>3, <1>11, <2>1 DEF Auth1
<1>12. CASE Auth1Find(s)
  <2> DEFINE i == Find(list, Q.sub)
             q == [Q EXCEPT !.pc = "auth1_get", !.index = i]
  <2>1. q.pc = "auth1_get" /\ q.index = i /\ q.sub = Q.sub
    BY <1>1 DEF Handler
  <2>2. CASE Q.sub \in Accounts(list)
    <3>1. i \in 1..Count(list) /\ list.entries[i].sub = Q.sub
      BY <1>1, <2>2, FindProperties DEF Good
    <3>2. i = 1 => o # NoSub /\ Q.sub = o
      BY <1>1, <3>1, FirstIsOwner
    <3>3. Firsts(o, R, q)
      BY <1>1, <2>1, <3>2 DEF Firsts
    <3> QED
      BY <1>1, <1>12, <2>2, <3>3, FirstsStep DEF Auth1Find
  <2>3. CASE Q.sub \notin Accounts(list)
    BY <1>1, <1>2, <1>12, <2>3 DEF Auth1Find
  <2> QED
    BY <2>2, <2>3
<1>13. CASE Auth1Get(s)
  <2> DEFINE q == [Q EXCEPT !.pc = "auth1_set", !.key = list.entries[Q.index].key]
  <2>1. q.pc = "auth1_set" /\ q.index = Q.index /\ q.sub = Q.sub
    BY <1>1 DEF Handler
  <2>2. Firsts(o, R, q)
    BY <1>1, <1>13, <2>1 DEF Firsts, Auth1Get
  <2>3. CASE InRange(list, Q.index)
    BY <1>1, <1>13, <2>2, <2>3, FirstsStep DEF Auth1Get
  <2>4. CASE ~InRange(list, Q.index)
    BY <1>1, <1>2, <1>13, <2>4 DEF Auth1Get
  <2> QED
    BY <2>3, <2>4
<1>14. CASE Auth1Set(s)
  <2> DEFINE r == [R EXCEPT !.key = <<"acct", Q.key>>, !.paired_index = Q.index,
                            !.state = "LS_AUTH_WAIT_PROOF", !.who = Q.sub]
  <2>1. r.paired_index = Q.index /\ r.who = Q.sub
    BY <1>1 DEF Session
  <2>2. Firsts(o, r, Idle)
    BY <1>1, <1>14, <2>1 DEF Firsts, Auth1Set
  <2> QED
    BY <1>14, <2>2, FirstsStep DEF Auth1Set
<1>15. CASE Auth3Bad(s)
  <2> DEFINE r == [R EXCEPT !.key = NoKey, !.paired_index = 0, !.state = "LS_NEW", !.who = NoSub]
  <2>1. r.paired_index = 0
    BY <1>1 DEF Session
  <2> QED
    BY <1>1, <1>2, <1>15, <2>1 DEF Auth3Bad
<1>16. CASE Auth3(s)
  <2> DEFINE r == [R EXCEPT !.key = <<"sess", R.key[2]>>]
             q == [Q EXCEPT !.pc = "auth3_role"]
  <2>1. r.paired_index = R.paired_index /\ r.who = R.who /\ q.pc = "auth3_role"
    BY <1>1 DEF Session, Handler
  <2> QED
    BY <1>2, <1>16, <2>1 DEF Auth3
<1>17. CASE Auth3Role(s)
  <2> DEFINE x == IF InRange(list, R.paired_index) /\ list.entries[R.paired_index].role = "owner"
                  THEN "owner" ELSE "user"
             r == [R EXCEPT !.role = x]
             q == [Q EXCEPT !.pc = "auth3_ok"]
  <2>1. r.paired_index = R.paired_index /\ r.who = R.who /\ q.pc = "auth3_ok"
    BY <1>1 DEF Session, Handler
  <2> QED
    BY <1>2, <1>17, <2>1 DEF Auth3Role
<1> QED
  BY <1>4, <1>5, <1>6, <1>7, <1>8, <1>9, <1>10, <1>11, <1>12, <1>13, <1>14, <1>15, <1>16, <1>17
  DEF Handshake

\* Enrolling: an account that gets index 1 is, or becomes, the owner.
LEMMA FirstsEnrolling ==
  ASSUME FirstInv, NEW s \in Sessions, Enrolling(s)
  PROVE  AllFirsts'
<1> DEFINE R == sess[s]
           Q == h[s]
           o == list.owner
<1> USE DEF Goto, Return, At, MayStart
<1>1. /\ R \in Session /\ Q \in Handler /\ Harmless(R, Q) /\ Firsts(o, R, Q)
      /\ sess' = sess => Update(s, R)
      /\ h' = h => Proceed(s, Q)
      /\ Good(list) /\ Owned(list) /\ Idle.pc = "idle"
  BY FirstsNow
<1>2. Q.pc = "add" => Q.sub \in Subs
  BY DEF FirstInv, OwnerInv, Inv, EnrollsSomebody
<1>3. ASSUME NEW u \in Subs, Enroll(s, u) PROVE AllFirsts'
  <2> DEFINE q == [Q EXCEPT !.pc = "add", !.sub = u, !.epoch = R.key[2]]
  <2>1. q.pc = "add"
    BY <1>1 DEF Handler
  <2>2. Firsts(o, R, q)
    BY <1>1, <2>1 DEF Firsts
  <2> QED
    BY <1>1, <1>3, <2>2, FirstsStep DEF Enroll
<1>4. CASE EnrollFull(s) \/ EnrollStoreFails(s) \/ EnrollEvent(s)
  <2>1. Firsts(o, R, Idle)
    BY <1>1, FirstsKept
  <2> QED
    BY <1>1, <1>4, <2>1, FirstsStep DEF EnrollFull, EnrollStoreFails, EnrollEvent
<1>5. ASSUME NEW L, Good(L), Owned(L), AddIndex(list, Q.sub) \in 1..Count(L), At(s, "add"),
             L.entries[AddIndex(list, Q.sub)].sub = Q.sub,
             L.owner = IF o = NoSub THEN Q.sub ELSE o, Added(s, L), sess' = sess
      PROVE  AllFirsts'
  <2> DEFINE i == AddIndex(list, Q.sub)
             q == [Q EXCEPT !.pc = "assign", !.index = i,
                            !.role = L.entries[i].role, !.key = L.entries[i].key]
  <2>1. q.pc = "assign" /\ q.index = i /\ q.sub = Q.sub
    BY <1>1 DEF Handler
  <2>2. i = 1 => L.owner # NoSub /\ Q.sub = L.owner
    BY <1>5, FirstIsOwner
  <2>3. R.paired_index = 1 => L.owner # NoSub /\ R.who = L.owner
    BY <1>1, <1>5 DEF Firsts
  <2>4. Firsts(L.owner, R, q)
    BY <2>1, <2>2, <2>3 DEF Firsts
  <2>5. list' = L /\ Proceed(s, q) /\ Update(s, R)
    BY <1>1, <1>5 DEF Added
  <2> HIDE DEF q
  <2>6. o = NoSub \/ list'.owner = o
    BY <1>5, <2>5
  <2> QED
    BY <2>4, <2>5, <2>6, FirstsStep
<1>6. CASE EnrollAgain(s)
  <2> DEFINE A == Add(list, Q.sub, 0)
  <2>1. Q.sub \in Accounts(list) /\ AddIndex(list, Q.sub) = Find(list, Q.sub)
    BY <1>6 DEF EnrollAgain, AddIndex
  <2>2. Find(list, Q.sub) \in 1..Count(list) /\ list.entries[Find(list, Q.sub)].sub = Q.sub
    BY <1>1, <2>1, FindProperties DEF Good
  <2>3. /\ Good(A) /\ AddIndex(list, Q.sub) \in 1..Count(A)
        /\ A.owner = IF o = NoSub THEN Q.sub ELSE o
        /\ \A i \in 1..Count(list) : A.entries[i].sub = list.entries[i].sub
    BY <1>1, <2>1, AddAgain
  <2>4. Owned(A)
    BY <1>1, <1>2, <1>6, AddOwned DEF EnrollAgain
  <2>5. A.entries[AddIndex(list, Q.sub)].sub = Q.sub
    BY <2>1, <2>2, <2>3
  <2> QED
    BY <1>5, <1>6, <2>3, <2>4, <2>5 DEF EnrollAgain
<1>7. CASE EnrollNew(s)
  <2> DEFINE A == Add(list, Q.sub, used.keys + 1)
  <2>1. used.keys + 1 \in Nat
    BY Charged DEF FirstInv, OwnerInv
  <2>2. Q.sub \in Subs /\ Q.sub \notin Accounts(list) /\ Count(list) \in Nat
    BY <1>1, <1>2, <1>7, ListFacts DEF EnrollNew, Good
  <2>3. /\ Good(A) /\ Count(A) = Count(list) + 1 /\ AddIndex(list, Q.sub) = Count(list) + 1
        /\ A.owner = IF o = NoSub THEN Q.sub ELSE o
        /\ A.entries[Count(list) + 1].sub = Q.sub
    BY <1>1, <2>1, <2>2, AddNew
  <2>4. Owned(A)
    BY <1>1, <2>1, <2>2, AddOwned
  <2> QED
    BY <1>5, <1>7, <2>2, <2>3, <2>4 DEF EnrollNew
<1>8. CASE EnrollAssign(s)
  <2> DEFINE r == [R EXCEPT !.paired_index = Q.index, !.role = Q.role, !.who = Q.sub]
             q == [Q EXCEPT !.pc = "paired"]
  <2>1. r.paired_index = Q.index /\ r.who = Q.sub /\ q.pc = "paired"
    BY <1>1 DEF Session, Handler
  <2>2. Firsts(o, r, q)
    BY <1>1, <1>8, <2>1 DEF Firsts, EnrollAssign
  <2> QED
    BY <1>8, <2>2, FirstsStep DEF EnrollAssign
<1> QED
  BY <1>3, <1>4, <1>6, <1>7, <1>8 DEF Enrolling

\* A session told of a removal behind the head is not shifted to the head.
LEMMA FirstsRemoval ==
  ASSUME NEW o, NEW r \in Session, NEW q, Firsts(o, r, q), NEW i \in Nat, i >= 2
  PROVE  Firsts(o, OnPairedRemoved(r, i), q)
<1> DEFINE d == OnPairedRemoved(r, i)
<1>1. r.paired_index \in Nat /\ r.live \in BOOLEAN
  BY DEF Session
<1>2. CASE ~r.live \/ r.paired_index < i
  BY <1>1, <1>2 DEF OnPairedRemoved
<1>3. CASE r.live /\ r.paired_index = i
  <2>1. d.paired_index = 0
    BY <1>3 DEF OnPairedRemoved, DropAuth, Wiped
  <2> HIDE DEF d
  <2>2. Firsts(o, d, q)
    BY <2>1 DEF Firsts
  <2> QED
    BY <2>2 DEF d
<1>4. CASE r.live /\ r.paired_index > i
  <2>1. d = [r EXCEPT !.paired_index = r.paired_index - 1]
    <3>1. r.paired_index # i
      BY <1>1, <1>4
    <3> QED
      BY <1>4, <3>1 DEF OnPairedRemoved
  <2> HIDE DEF d
  <2>2. d.paired_index = r.paired_index - 1
    BY <2>1 DEF Session
  <2>3. d.paired_index # 1
    BY <1>1, <1>4, <2>2
  <2>4. Firsts(o, d, q)
    BY <2>3 DEF Firsts
  <2> QED
    BY <2>4 DEF d
<1> QED
  BY <1>1, <1>2, <1>3, <1>4

\* The other commands bind no session.  PWSET keeps the owner.
LEMMA FirstsCommands ==
  ASSUME FirstInv, NEW s \in Sessions, Removing(s) \/ Locking(s)
  PROVE  AllFirsts'
<1> DEFINE R == sess[s]
           Q == h[s]
           o == list.owner
<1>1. /\ R \in Session /\ Q \in Handler /\ Harmless(R, Q) /\ Firsts(o, R, Q)
      /\ sess' = sess => Update(s, R)
      /\ Good(list) /\ Owned(list) /\ Idle.pc = "idle"
  BY FirstsNow
<1>2. ASSUME sess' = sess, list'.owner = o, \A t \in Sessions \ {s} : h'[t] = h[t],
             h'[s].pc \notin {"auth1_get", "auth1_set", "assign"}
      PROVE  AllFirsts'
  <2>1. ASSUME NEW t \in Sessions PROVE Firsts(o, sess'[t], h'[t])
    <3>1. Firsts(o, sess[t], h[t])
      BY FirstsNow
    <3>2. CASE t = s
      BY <1>2, <3>1, <3>2 DEF Firsts
    <3>3. CASE t # s
      BY <1>2, <3>1, <3>3
    <3> QED
      BY <3>2, <3>3
  <2> QED
    BY <1>2, <2>1 DEF AllFirsts
<1>3. h \in [Sessions -> Handler]
  BY DEF FirstInv, OwnerInv, Inv, TypeOK
<1>4. \A i \in 1..Count(list) : Remove(list, i).owner = o
  BY <1>1, RemoveProperties
<1>5. HasOwnerEntry(list) => \A k \in Nat : RotateOwnerKey(list, k).owner = o
  BY <1>1, RotateProperties DEF Good
<1>6. used.keys + 1 \in Nat
  BY Charged DEF FirstInv, OwnerInv
<1>7. CASE DropSessions(s)
  <2> DEFINE q == [Q EXCEPT !.pc = "unpaired"]
  <2>1. q.pc = "unpaired" /\ Q.index \in Nat /\ Q.index >= 2
    BY <1>1, <1>7 DEF DropSessions, At, Harmless, Handler
  <2>2. /\ h' = [h EXCEPT ![s] = q] /\ list' = list
        /\ \A t \in Sessions : sess'[t] = OnPairedRemoved(sess[t], Q.index)
    BY <1>7 DEF DropSessions, Goto, Proceed
  <2> HIDE DEF q
  <2>3. ASSUME NEW t \in Sessions PROVE Firsts(o, sess'[t], h'[t])
    <3>1. sess[t] \in Session /\ Firsts(o, sess[t], h[t])
      BY FirstsNow
    <3>2. Firsts(o, sess'[t], h[t])
      BY <2>1, <2>2, <3>1, FirstsRemoval
    <3>3. h'[t] = h[t] \/ h'[t] = q
      BY <2>2 DEF FirstInv, OwnerInv, Inv, TypeOK
    <3> QED
      BY <2>1, <3>2, <3>3 DEF Firsts
  <2> QED
    BY <2>2, <2>3 DEF AllFirsts
<1>8. CASE Removing(s) /\ ~DropSessions(s)
  <2> USE DEF Goto, Return, At, NotRemoved, InRange, Proceed, Handler, Idle
  <2>1. ASSUME NEW u \in Subs, Revoke(s, u) PROVE AllFirsts'
    <3>1. h'[s].pc \notin {"auth1_get", "auth1_set", "assign"} /\ \A t \in Sessions \ {s} : h'[t] = h[t]
      BY <1>1, <1>3, <2>1 DEF Revoke
    <3>2. sess' = sess /\ list'.owner = o
      BY <2>1 DEF Revoke
    <3> QED
      BY <1>2, <3>1, <3>2
  <2>2. CASE RevokeFind(s)
    <3>1. h'[s].pc \notin {"auth1_get", "auth1_set", "assign"} /\ \A t \in Sessions \ {s} : h'[t] = h[t]
      BY <1>1, <1>3, <2>2 DEF RevokeFind
    <3>2. sess' = sess /\ list'.owner = o
      BY <2>2 DEF RevokeFind
    <3> QED
      BY <1>2, <3>1, <3>2
  <2>3. CASE RevokeGet(s)
    <3>1. h'[s].pc \notin {"auth1_get", "auth1_set", "assign"} /\ \A t \in Sessions \ {s} : h'[t] = h[t]
      BY <1>1, <1>3, <2>3 DEF RevokeGet
    <3>2. sess' = sess /\ list'.owner = o
      BY <2>3 DEF RevokeGet
    <3> QED
      BY <1>2, <3>1, <3>2
  <2>4. CASE Unpair(s)
    <3>1. h'[s].pc \notin {"auth1_get", "auth1_set", "assign"} /\ \A t \in Sessions \ {s} : h'[t] = h[t]
      BY <1>1, <1>3, <2>4 DEF Unpair
    <3>2. sess' = sess /\ list'.owner = o
      BY <2>4 DEF Unpair
    <3> QED
      BY <1>2, <3>1, <3>2
  <2>5. CASE UnpairGet(s)
    <3>1. h'[s].pc \notin {"auth1_get", "auth1_set", "assign"} /\ \A t \in Sessions \ {s} : h'[t] = h[t]
      BY <1>1, <1>3, <2>5 DEF UnpairGet
    <3>2. sess' = sess /\ list'.owner = o
      BY <2>5 DEF UnpairGet
    <3> QED
      BY <1>2, <3>1, <3>2
  <2>6. CASE UnpairIndex(s)
    <3>1. h'[s].pc \notin {"auth1_get", "auth1_set", "assign"} /\ \A t \in Sessions \ {s} : h'[t] = h[t]
      BY <1>1, <1>3, <2>6 DEF UnpairIndex
    <3>2. sess' = sess /\ list'.owner = o
      BY <2>6 DEF UnpairIndex
    <3> QED
      BY <1>2, <3>1, <3>2
  <2>7. CASE RemoveNotFound(s)
    <3>1. h'[s].pc \notin {"auth1_get", "auth1_set", "assign"} /\ \A t \in Sessions \ {s} : h'[t] = h[t]
      BY <1>1, <1>3, <2>7 DEF RemoveNotFound
    <3>2. sess' = sess /\ list'.owner = o
      BY <2>7 DEF RemoveNotFound
    <3> QED
      BY <1>2, <3>1, <3>2
  <2>8. ASSUME NEW ok \in BOOLEAN, RemoveEntry(s, ok) PROVE AllFirsts'
    <3>1. h'[s].pc \notin {"auth1_get", "auth1_set", "assign"} /\ \A t \in Sessions \ {s} : h'[t] = h[t]
      BY <1>1, <1>3, <2>8 DEF RemoveEntry
    <3>2. sess' = sess /\ list'.owner = o
      BY <1>4, <2>8 DEF RemoveEntry
    <3> QED
      BY <1>2, <3>1, <3>2
  <2>9. CASE UnpairedEvent(s)
    <3>1. h'[s].pc \notin {"auth1_get", "auth1_set", "assign"} /\ \A t \in Sessions \ {s} : h'[t] = h[t]
      BY <1>1, <1>3, <2>9 DEF UnpairedEvent
    <3>2. sess' = sess /\ list'.owner = o
      BY <2>9 DEF UnpairedEvent
    <3> QED
      BY <1>2, <3>1, <3>2
  <2> QED
    BY <1>8, <2>1, <2>2, <2>3, <2>4, <2>5, <2>6, <2>7, <2>8, <2>9 DEF Removing
<1>9. CASE Locking(s)
  <2> USE DEF Goto, Return, At, InRange, Proceed, Handler, Idle, ClearPassword
  <2>1. CASE PwSet(s)
    <3>1. h'[s].pc \notin {"auth1_get", "auth1_set", "assign"} /\ \A t \in Sessions \ {s} : h'[t] = h[t]
      BY <1>1, <1>3, <2>1 DEF PwSet
    <3>2. sess' = sess /\ list'.owner = o
      BY <2>1 DEF PwSet
    <3> QED
      BY <1>2, <3>1, <3>2
  <2>2. CASE PwSetScan(s)
    <3>1. h'[s].pc \notin {"auth1_get", "auth1_set", "assign"} /\ \A t \in Sessions \ {s} : h'[t] = h[t]
      BY <1>1, <1>3, <2>2 DEF PwSetScan
    <3>2. sess' = sess /\ list'.owner = o
      BY <2>2 DEF PwSetScan
    <3> QED
      BY <1>2, <3>1, <3>2
  <2>3. CASE PwSetNothingToRotate(s)
    <3>1. h'[s].pc \notin {"auth1_get", "auth1_set", "assign"} /\ \A t \in Sessions \ {s} : h'[t] = h[t]
      BY <1>1, <1>3, <2>3 DEF PwSetNothingToRotate
    <3>2. sess' = sess /\ list'.owner = o
      BY <2>3 DEF PwSetNothingToRotate
    <3> QED
      BY <1>2, <3>1, <3>2
  <2>4. CASE PwClear(s)
    <3>1. h'[s].pc \notin {"auth1_get", "auth1_set", "assign"} /\ \A t \in Sessions \ {s} : h'[t] = h[t]
      BY <1>1, <1>3, <2>4 DEF PwClear
    <3>2. sess' = sess /\ list'.owner = o
      BY <2>4 DEF PwClear
    <3> QED
      BY <1>2, <3>1, <3>2
  <2>5. ASSUME NEW ok \in BOOLEAN, PwSetStore(s, ok) PROVE AllFirsts'
    <3>1. h'[s].pc \notin {"auth1_get", "auth1_set", "assign"} /\ \A t \in Sessions \ {s} : h'[t] = h[t]
      BY <1>1, <1>3, <2>5 DEF PwSetStore
    <3>2. sess' = sess /\ list'.owner = o
      BY <2>5 DEF PwSetStore
    <3> QED
      BY <1>2, <3>1, <3>2
  <2>6. ASSUME NEW ok \in BOOLEAN, PwSetRotate(s, ok) PROVE AllFirsts'
    <3>1. h'[s].pc \notin {"auth1_get", "auth1_set", "assign"} /\ \A t \in Sessions \ {s} : h'[t] = h[t]
      BY <1>1, <1>3, <2>6 DEF PwSetRotate
    <3>2. sess' = sess /\ list'.owner = o
      BY <1>5, <1>6, <2>6 DEF PwSetRotate
    <3> QED
      BY <1>2, <3>1, <3>2
  <2>7. ASSUME NEW ok \in BOOLEAN, PwClearStore(s, ok) PROVE AllFirsts'
    <3>1. h'[s].pc \notin {"auth1_get", "auth1_set", "assign"} /\ \A t \in Sessions \ {s} : h'[t] = h[t]
      BY <1>1, <1>3, <2>7 DEF PwClearStore
    <3>2. sess' = sess /\ list'.owner = o
      BY <2>7 DEF PwClearStore
    <3> QED
      BY <1>2, <3>1, <3>2
  <2> QED
    BY <1>9, <2>1, <2>2, <2>3, <2>4, <2>5, <2>6, <2>7 DEF Locking
<1> QED
  BY <1>7, <1>8, <1>9

\* The inductive step, as long as it is not the one that resets the device.
LEMMA FirstNext ==
  ASSUME FirstInv, [Next]_vars, used'.resets = 0
  PROVE  FirstInv'
<1>1. OwnerInv'
  BY OwnerNext DEF FirstInv
<1>2. ASSUME NEW s \in Sessions, Resetting(s) PROVE FALSE
  <2>1. Harmless(sess[s], h[s]) /\ used \in Counters
    BY HarmlessNow DEF FirstInv, OwnerInv, Inv, TypeOK
  <2>2. ~Reset(s)
    <3>1. Charge("resets").resets = used.resets + 1 /\ used.resets \in Nat
      BY <2>1 DEF Charge, Counters
    <3> QED
      BY <3>1 DEF Reset
  <2> QED
    BY <1>2, <2>1, <2>2 DEF Resetting, ResetList, ResetPw, ResetSessions, ResetEvent, At, Harmless
<1>3. CASE Reboot
  <2>1. Wiped.paired_index = 0 /\ Idle.pc = "idle"
    BY DEF Wiped, Idle
  <2>2. \A s \in Sessions : sess'[s] = Wiped /\ h'[s] = Idle
    BY <1>3 DEF Reboot
  <2>3. AllFirsts'
    BY <2>1, <2>2 DEF AllFirsts, Firsts
  <2> QED
    BY <1>1, <2>3 DEF FirstInv
<1>4. CASE UNCHANGED vars
  BY <1>1, <1>4 DEF vars, FirstInv, AllFirsts
<1> QED
  BY <1>1, <1>2, <1>3, <1>4, FirstsHandshake, FirstsEnrolling, FirstsCommands DEF Next, FirstInv

\* What is inductive: the argument above holds up to the first RESET.
FirstUntilReset == Inv /\ (used.resets = 0 => FirstInv)

\* Until a RESET, a session with the owner's role is the owning account's, for
\* any number of sessions and accounts, however handshakes and commands
\* interleave, whichever NVS writes fail and whenever the device reboots.
THEOREM OwnerSessionsCorrect == Spec => []OwnerSessionsAreOwners
<1>1. FirstInv => \A s \in Sessions : sess[s].role = "owner" => sess[s].who = list.owner
  BY DEF FirstInv, OwnerInv, AllHarmless, Harmless, AllFirsts, Firsts
<1>2. FirstUntilReset => OwnerSessionsAreOwners
  BY <1>1 DEF FirstUntilReset, OwnerSessionsAreOwners
<1>3. FirstUntilReset /\ [Next]_vars => FirstUntilReset'
  BY InvNext, ResetsCounted, FirstNext DEF FirstUntilReset
<1>4. Init => FirstUntilReset
  <2> SUFFICES ASSUME Init PROVE FirstInv
    BY OwnerInit DEF FirstUntilReset, FirstInv, OwnerInv
  <2>1. Wiped.paired_index = 0 /\ Idle.pc = "idle"
    BY DEF Wiped, Idle
  <2> QED
    BY <2>1, OwnerInit DEF Init, FirstInv, AllFirsts, Firsts
<1> QED
  BY <1>2, <1>3, <1>4, PTL DEF Spec
=============================================================================
