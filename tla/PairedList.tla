----------------------------- MODULE PairedList -----------------------------
(***************************************************************************)
(* The paired list (security/paired_list.c) as a value: the account that   *)
(* owns the device (owner_sub) and one entry per paired account, in the    *)
(* order of the array.  Each operator is what one call computes under the  *)
(* list's mutex.  Indices are 1-based; 0 is the code's -1.                 *)
(*                                                                         *)
(* An entry keeps what access depends on, the account, its role and which  *)
(* K_account it has; the label (email) and the pairing time are left out.  *)
(***************************************************************************)
EXTENDS Integers, Sequences

CONSTANTS Subs,             \* user_sub of the accounts
          NoSub,            \* the empty user_sub
          PAIRED_LIST_MAX   \* entries of the array

ASSUME PairedListAssumption ==
    /\ NoSub \notin Subs
    /\ PAIRED_LIST_MAX \in Nat \ {0}

Roles == {"none", "user", "owner"}

Entry == [sub : Subs, role : {"user", "owner"}, key : Nat]

List == [owner : Subs \cup {NoSub}, entries : Seq(Entry)]

EmptyList == [owner |-> NoSub, entries |-> <<>>]

Count(L) == Len(L.entries)

InRange(L, i) == i \in 1..Count(L)

Accounts(L) == {L.entries[i].sub : i \in 1..Count(L)}

\* find_locked(): the first entry of u, or 0.
Find(L, u) ==
    IF u \in Accounts(L)
    THEN CHOOSE i \in 1..Count(L) :
            /\ L.entries[i].sub = u
            /\ \A j \in 1..(i - 1) : L.entries[j].sub # u
    ELSE 0

\* role_for_locked()
RoleFor(L, u) == IF L.owner # NoSub /\ u = L.owner THEN "owner" ELSE "user"

\* paired_list_add(): the first account to pair claims ownership.
Claim(L, u) == [L EXCEPT !.owner = IF @ = NoSub THEN u ELSE @]

\* paired_list_add(): an account that has no entry needs a free slot.
Fits(L, u) == u \in Accounts(L) \/ Count(L) < PAIRED_LIST_MAX

AddIndex(L, u) == IF u \in Accounts(L) THEN Find(L, u) ELSE Count(L) + 1

\* Mutant of Add: the account is not looked up first.
AddAppends(L, u, k) ==
    LET C == Claim(L, u)
    IN  [C EXCEPT !.entries = Append(@, [sub |-> u, role |-> RoleFor(C, u), key |-> k])]

\* paired_list_add(): an account that is paired keeps its entry and its key,
\* a new one is appended with the fresh key k; the role follows owner_sub.
Add(L, u, k) ==
    LET C == Claim(L, u)
    IN  IF u \in Accounts(L)
        THEN [C EXCEPT !.entries[Find(L, u)].role = RoleFor(C, u)]
        ELSE [C EXCEPT !.entries = Append(@, [sub |-> u, role |-> RoleFor(C, u), key |-> k])]

\* paired_list_remove(): the tail shifts down over slot i; owner_sub stays.
Remove(L, i) ==
    [L EXCEPT !.entries =
        [j \in 1..(Count(L) - 1) |-> IF j < i THEN L.entries[j] ELSE L.entries[j + 1]]]

\* paired_list_rotate_owner_key(): the first OWNER entry gets the fresh key k.
HasOwnerEntry(L) == \E i \in 1..Count(L) : L.entries[i].role = "owner"

OwnerEntry(L) ==
    CHOOSE i \in 1..Count(L) :
        /\ L.entries[i].role = "owner"
        /\ \A j \in 1..(i - 1) : L.entries[j].role # "owner"

RotateOwnerKey(L, k) == [L EXCEPT !.entries[OwnerEntry(L)].key = k]

\* nvs_store(): an empty list is stored by erasing the blob, owner_sub included.
Stored(L) == IF Count(L) = 0 THEN EmptyList ELSE L
=============================================================================
