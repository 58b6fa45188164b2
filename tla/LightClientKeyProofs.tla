-------------------------- MODULE LightClientKeyProofs --------------------------
(***************************************************************************)
(* More proofs about LightClient: what the operations on the keys and the   *)
(* saves between them do to secrets (NothingForgotten, EncryptedFile,        *)
(* UnlockWorks) and to the addresses derived from the seed (HdContiguous,    *)
(* GapKept), for every number of threads, passwords, keys and batches.       *)
(*                                                                         *)
(* The invariant says of a wallet's keys what holds whatever commands are at *)
(* work (Safe), what holds unless the user was faster than a check (Well),   *)
(* and what holds of derived keys if imports are of other wallets (Hd); and  *)
(* it says it of the keys in memory, of the file, and of every buffer that   *)
(* is going to be the file.                                                 *)
(***************************************************************************)
EXTENDS LightClientProofs

-----------------------------------------------------------------------------
(* The inductive invariant *)

(* A key of a wallet, encrypted or not (e), with password pw: an imported    *)
(* spending key is there or there is a copy, which that password opens.      *)
KeySafe(k, e, pw) ==
  /\ k.enc \in {NoPw, pw}
  /\ k.kind = "sk" => (k.key \/ k.enc # NoPw) /\ (k.locked \/ k.key)
  /\ k.locked => e

(* A key of a wallet that is unlocked or not (u), with password pw *)
KeyWhole(k, u, pw) ==
  /\ k.key <=> u /\ k.kind # "vk"
  /\ k.kind = "sk" => k.enc = pw
  /\ u => ~k.locked

AllSafe(s, e, pw)  == \A i \in DOMAIN s : KeySafe(s[i], e, pw)
AllWhole(s, u, pw) == \A i \in DOMAIN s : KeyWhole(s[i], u, pw)

(* An error of Keys::lock leaves a wallet unlocked that has no seed: then     *)
(* the first transparent key, which is derived, is locked already.           *)
FirstHd(ks) ==
  1 \in DOMAIN ks.t /\ ks.t[1].kind = "hd" /\ (ks.unlocked /\ ~ks.seed => ks.t[1].locked)

Safe(ks) ==
  /\ IF ks.encrypted THEN ks.encSeed # NoPw ELSE ks.encSeed = NoPw /\ ks.seed /\ ks.unlocked
  /\ FirstHd(ks)
  /\ AllSafe(ks.z, ks.encrypted, ks.encSeed) /\ AllSafe(ks.t, ks.encrypted, ks.encSeed)

Well(ks) ==
  /\ ks.seed = ks.unlocked
  /\ AllWhole(ks.z, ks.unlocked, ks.encSeed) /\ AllWhole(ks.t, ks.unlocked, ks.encSeed)

(* As it is written, unless the user was faster than a check *)
Sealed(ks) == ks.encrypted => ~ks.unlocked

(* The HD keys of a list are those with the first numbers, in order, and no   *)
(* other key has a number.                                                   *)
HdFrom(s) ==
  /\ Restorable(s) /\ \E n \in Nat : HdNums(s) = 0..(n - 1)
  /\ \A i \in DOMAIN s : s[i].kind # "hd" => s[i].id \notin Nat
Hd(ks)    == HdFrom(ks.o) /\ HdFrom(ks.z) /\ HdFrom(ks.t)

(* Only keys of other wallets are imported. *)
ForeignImports == Imports \cap Nat = {}

Good(ks, r)  == Safe(ks) /\ (r \/ Well(ks)) /\ (ForeignImports => Hd(ks))
Saved(ks, r) == Good(ks, r) /\ (r \/ Sealed(ks))
Gaps(ks, u)  == ForeignImports => GapAfter(ks, u)

(* What a thread knows of the keys ks and the addresses u that are used while *)
(* it does t, and of what it has copied: r is raced.                         *)
StepOK(t, ks, u, r) ==
  /\ t.step \in {"writeTxns", "bytes"} => Saved(t.buf.keys, r)
  /\ t.step = "writeTxns" => Gaps(t.buf.keys, u)
  /\ t.step = "bytes" => Gaps(t.buf.keys, t.buf.used)
  /\ t.step = "writeKeys" => r \/ Sealed(ks)
  /\ t.step \in {"mayImport", "push"} => t.arg[2] \in Imports
  /\ t.step = "push" => r \/ t.arg[1] = "vk" \/ ~ks.encrypted

KeysInv ==
  /\ raced \in BOOLEAN
  /\ running => Good(keys, raced) /\ Gaps(keys, used)
  /\ file.whole => Saved(file.keys, raced) /\ Gaps(file.keys, file.used)
  /\ \A p \in Tasks : StepOK(task[p], keys, used, raced)

-----------------------------------------------------------------------------
(* Lists of keys *)

(* r has the keys of s, in the same order. *)
SameNums(s, r) ==
  DOMAIN r = DOMAIN s /\ \A i \in DOMAIN s : r[i].id = s[i].id /\ r[i].kind = s[i].kind

LEMMA SameHd ==
  ASSUME NEW S, NEW s \in Seq(KeyIn(S)), NEW r, SameNums(s, r), HdFrom(s)
  PROVE  HdFrom(r)
<1>1. DOMAIN s = 1..Len(s) /\ Len(s) \in Nat
  OBVIOUS
<1>2. HdNums(r) = HdNums(s)
  BY DEF HdNums, SameNums
<1>3. ASSUME NEW i \in DOMAIN s
      PROVE  {r[j].id : j \in {j \in 1..(i - 1) : r[j].kind = "hd"}}
               = {s[j].id : j \in {j \in 1..(i - 1) : s[j].kind = "hd"}}
  <2>1. \A j \in 1..(i - 1) : j \in DOMAIN s
    BY <1>1
  <2> QED BY <2>1 DEF SameNums
<1> QED
  BY <1>2, <1>3 DEF HdFrom, Restorable, SameNums

(* The next position is the number of the HD keys. *)
LEMMA NextIsCount ==
  ASSUME NEW s, NEW n \in Nat, HdNums(s) = 0..(n - 1)
  PROVE  NextPosition(s) = n
<1> DEFINE nums == HdNums(s)
<1>1. NextPosition(s) = IF nums = {} THEN 0 ELSE 1 + CHOOSE m \in nums : \A k \in nums : k <= m
  BY DEF NextPosition, HdNums
<1>2. CASE n = 0
  BY <1>1, <1>2
<1>3. CASE n # 0
  <2>1. n - 1 \in nums /\ \A k \in nums : k \in Int /\ k <= n - 1
    BY <1>3
  <2> HIDE DEF nums
  <2>2. (CHOOSE m \in nums : \A k \in nums : k <= m) = n - 1
    <3> DEFINE c == CHOOSE m \in nums : \A k \in nums : k <= m
    <3>1. c \in nums /\ \A k \in nums : k <= c
      BY <2>1
    <3>2. c <= n - 1 /\ n - 1 <= c /\ c \in Int
      BY <2>1, <3>1
    <3> HIDE DEF c
    <3>3. c = n - 1
      BY <3>2
    <3> QED BY <3>3 DEF c
  <2>3. nums # {}
    BY <2>1
  <2>4. NextPosition(s) = 1 + (n - 1)
    BY <1>1, <2>2, <2>3
  <2> QED BY <2>4
<1> QED
  BY <1>2, <1>3

(* A longer list whose new keys are not HD keys *)
LEMMA OthersHd ==
  ASSUME NEW S, NEW s \in Seq(KeyIn(S)), NEW q \in Seq(KeyIn(S)), HdFrom(s), Len(s) <= Len(q),
         \A i \in DOMAIN s : q[i] = s[i],
         \A i \in DOMAIN q \ DOMAIN s : q[i].kind # "hd" /\ q[i].id \notin Nat
  PROVE  HdFrom(q)
<1>1. DOMAIN s = 1..Len(s) /\ DOMAIN q = 1..Len(q) /\ DOMAIN s \subseteq DOMAIN q
  OBVIOUS
<1>2. HdNums(q) = HdNums(s)
  BY <1>1 DEF HdNums
<1>3. ASSUME NEW i \in DOMAIN s
      PROVE  {q[j].id : j \in {j \in 1..(i - 1) : q[j].kind = "hd"}}
               = {s[j].id : j \in {j \in 1..(i - 1) : s[j].kind = "hd"}}
  <2>1. \A j \in 1..(i - 1) : j \in DOMAIN s
    BY <1>1
  <2> QED BY <2>1
<1> QED
  BY <1>2, <1>3 DEF HdFrom, Restorable

(* A longer list whose new keys are the next HD keys *)
LEMMA NextHd ==
  ASSUME NEW S, NEW s \in Seq(KeyIn(S)), NEW q \in Seq(KeyIn(S)), HdFrom(s), Len(s) <= Len(q),
         \A i \in DOMAIN s : q[i] = s[i],
         \A i \in DOMAIN q \ DOMAIN s : q[i].kind = "hd" /\ q[i].id = NextPosition(s) + i - Len(s) - 1
  PROVE  HdFrom(q) /\ HdNums(q) = 0..(NextPosition(s) + (Len(q) - Len(s)) - 1)
<1>1. DOMAIN s = 1..Len(s) /\ DOMAIN q = 1..Len(q) /\ Len(s) \in Nat /\ Len(q) \in Nat
  OBVIOUS
<1>2. PICK n \in Nat : HdNums(s) = 0..(n - 1)
  BY DEF HdFrom
<1>3. NextPosition(s) = n
  BY <1>2, NextIsCount
<1> DEFINE m == Len(s)
           Before(l, i) == {l[j].id : j \in {j \in 1..(i - 1) : l[j].kind = "hd"}}
<1>4. \A i \in (m + 1)..Len(q) : q[i].kind = "hd" /\ q[i].id = n + i - m - 1
  <2> SUFFICES ASSUME NEW i \in (m + 1)..Len(q)
               PROVE  q[i].kind = "hd" /\ q[i].id = n + i - m - 1
    OBVIOUS
  <2>1. i \in DOMAIN q \ DOMAIN s
    BY <1>1
  <2> QED BY <1>3, <2>1
<1>5. \A i \in 1..m : i \in DOMAIN s /\ q[i] = s[i]
  BY <1>1
<1>6. ASSUME NEW i \in 1..m
      PROVE  Before(q, i) = Before(s, i)
  <2>1. \A j \in 1..(i - 1) : j \in 1..m
    BY <1>1
  <2> QED BY <1>5, <2>1
<1>7. ASSUME NEW i \in (m + 1)..(Len(q) + 1)
      PROVE  Before(q, i) = 0..(n + (i - m) - 2)
  <2>1. ASSUME NEW x \in Before(q, i)
        PROVE  x \in 0..(n + (i - m) - 2)
    <3>1. PICK j \in 1..(i - 1) : q[j].kind = "hd" /\ x = q[j].id
      OBVIOUS
    <3>2. CASE j \in 1..m
      <4>1. x \in HdNums(s)
        BY <1>5, <3>1, <3>2 DEF HdNums
      <4>2. x \in 0..(n - 1)
        BY <1>2, <4>1
      <4> QED BY <1>1, <4>2
    <3>3. CASE j \in (m + 1)..Len(q)
      <4>1. x = n + j - m - 1
        BY <1>4, <3>1, <3>3
      <4> QED BY <1>1, <3>1, <3>3, <4>1
    <3>4. j \in 1..m \/ j \in (m + 1)..Len(q)
      BY <1>1
    <3> QED BY <3>2, <3>3, <3>4
  <2>2. ASSUME NEW x \in 0..(n + (i - m) - 2)
        PROVE  x \in Before(q, i)
    <3>1. CASE x < n
      <4>1. x \in HdNums(s)
        BY <1>2, <3>1
      <4>2. PICK j \in DOMAIN s : s[j].kind = "hd" /\ x = s[j].id
        BY <4>1 DEF HdNums
      <4>3. j \in 1..(i - 1) /\ q[j] = s[j]
        BY <1>1, <1>5
      <4> QED BY <4>2, <4>3
    <3>2. CASE ~(x < n)
      <4> DEFINE j == x - n + m + 1
      <4>1. j \in 1..(i - 1) /\ j \in (m + 1)..Len(q) /\ n + j - m - 1 = x
        BY <1>1, <3>2
      <4>2. q[j].kind = "hd" /\ q[j].id = x
        BY <1>4, <4>1
      <4> QED BY <4>1, <4>2
    <3> QED BY <3>1, <3>2
  <2> HIDE DEF Before
  <2> QED BY <2>1, <2>2
<1>8. ASSUME NEW i \in DOMAIN q, q[i].kind = "hd"
      PROVE  Before(q, i) = 0..(q[i].id - 1)
  <2>1. CASE i \in 1..m
    BY <1>5, <1>6, <1>8, <2>1 DEF HdFrom, Restorable
  <2>2. CASE i \in (m + 1)..Len(q)
    <3>1. q[i].id - 1 = n + (i - m) - 2 /\ i \in (m + 1)..(Len(q) + 1)
      BY <1>1, <1>4, <2>2
    <3>2. Before(q, i) = 0..(n + (i - m) - 2)
      BY <1>7, <3>1
    <3> HIDE DEF Before, m
    <3> QED BY <3>1, <3>2
  <2> QED BY <1>1, <2>1, <2>2
<1>9. HdNums(q) = 0..(n + (Len(q) - m) - 1)
  <2>1. HdNums(q) = Before(q, Len(q) + 1)
    BY <1>1 DEF HdNums
  <2>2. Len(q) + 1 \in (m + 1)..(Len(q) + 1) /\ n + ((Len(q) + 1) - m) - 2 = n + (Len(q) - m) - 1
    BY <1>1
  <2>3. Before(q, Len(q) + 1) = 0..(n + ((Len(q) + 1) - m) - 2)
    BY <1>7, <2>2
  <2> HIDE DEF Before, m
  <2> QED BY <2>1, <2>2, <2>3
<1>10. n + (Len(q) - m) \in Nat
  BY <1>1
<1>11. Restorable(q)
  BY <1>8 DEF Restorable
<1>12. HdFrom(q)
  <2> DEFINE k == n + (Len(q) - m)
  <2>1. k \in Nat /\ HdNums(q) = 0..(k - 1)
    BY <1>9, <1>10
  <2> HIDE DEF k
  <2>2. \A i \in DOMAIN q : q[i].kind # "hd" => q[i].id \notin Nat
    BY DEF HdFrom
  <2> QED BY <1>11, <2>1, <2>2 DEF HdFrom
<1> QED
  BY <1>3, <1>9, <1>12 DEF m

-----------------------------------------------------------------------------
(* What encryption does to a key: l is the key k locked, unlocked and so on.  *)

Locked(k, l, pw) ==
  /\ l.id = k.id /\ l.kind = k.kind /\ l.locked
  /\ KeySafe(k, TRUE, pw) /\ CanLock(k) => KeySafe(l, TRUE, pw)
  /\ (k.kind = "sk" => k.enc = pw) => KeyWhole(l, FALSE, pw)

Unlocked(k, l, pw) ==
  /\ l.id = k.id /\ l.kind = k.kind
  /\ KeySafe(k, TRUE, pw) => KeySafe(l, TRUE, pw)
  /\ KeyWhole(k, FALSE, pw) => CanUnlock(k, pw) /\ KeyWhole(l, TRUE, pw)

Removed(k, l, e, pw) ==
  /\ l.id = k.id /\ l.kind = k.kind /\ (l.locked <=> k.locked)
  /\ KeySafe(k, e, pw) /\ CanRemoveEncryption(k) => KeySafe(l, e, pw) /\ KeySafe(l, FALSE, NoPw)
  /\ KeyWhole(k, TRUE, pw) => CanRemoveEncryption(k) /\ KeyWhole(l, TRUE, NoPw)

Encrypted(k, l, pw) ==
  /\ l.id = k.id /\ l.kind = k.kind
  /\ KeySafe(k, FALSE, NoPw) => KeySafe(l, TRUE, pw)
  /\ k.kind = "sk" => l.enc = pw

LEMMA OneKey ==
  ASSUME NEW S, NEW k \in KeyIn(S), NEW e \in BOOLEAN, NEW pw
  PROVE  /\ Locked(k, LockKey(k), pw) /\ Unlocked(k, UnlockKey(k), pw)
         /\ Removed(k, RemoveKeyEncryption(k), e, pw)
         /\ pw \in Passwords => Encrypted(k, EncryptKey(k, pw), pw)
<1>1. Locked(k, LockKey(k), pw)
  BY DEF Locked, KeyIn, LockKey, KeySafe, KeyWhole, CanLock
<1>2. Unlocked(k, UnlockKey(k), pw)
  BY DEF Unlocked, KeyIn, UnlockKey, KeySafe, KeyWhole, CanUnlock
<1>3. Removed(k, RemoveKeyEncryption(k), e, pw)
  BY DEF Removed, KeyIn, RemoveKeyEncryption, KeySafe, KeyWhole, CanRemoveEncryption
<1>4. pw \in Passwords => Encrypted(k, EncryptKey(k, pw), pw)
  BY KeyAssumption DEF Encrypted, KeyIn, LockKey, EncryptKey, KeySafe
<1> QED
  BY <1>1, <1>2, <1>3, <1>4

(* What it does to a list *)

LEMMA LockedList ==
  ASSUME NEW S, NEW s \in Seq(KeyIn(S)), NEW pw
  PROVE  LET r == UpTo(s, CanLock, LockKey)
         IN /\ SameNums(s, r)
            /\ AllSafe(s, TRUE, pw) => AllSafe(r, TRUE, pw)
            /\ 1 \in DOMAIN s /\ s[1].kind = "hd" => r[1].locked
            /\ pw # NoPw /\ (\A i \in DOMAIN s : s[i].kind = "sk" => s[i].enc = pw) =>
                 All(s, CanLock) /\ AllWhole(r, FALSE, pw)
<1> DEFINE r == UpTo(s, CanLock, LockKey)
<1>1. DOMAIN s = 1..Len(s) /\ Len(s) \in Nat /\ \A i \in DOMAIN s : s[i] \in KeyIn(S)
  OBVIOUS
<1>2. /\ DOMAIN r = DOMAIN s
      /\ \A i \in DOMAIN s : r[i] = IF \A j \in 1..i : CanLock(s[j]) THEN LockKey(s[i]) ELSE s[i]
  BY DEF UpTo
<1> HIDE DEF r
<1>0. \A i \in DOMAIN s : Locked(s[i], LockKey(s[i]), pw)
  BY <1>1, OneKey
<1>3. \A i \in DOMAIN s : i \in 1..i
  BY <1>1
<1>4. \A i \in DOMAIN s : r[i] = s[i] \/ (CanLock(s[i]) /\ r[i] = LockKey(s[i]))
  BY <1>2, <1>3
<1>5. SameNums(s, r)
  BY <1>1, <1>2, <1>4, <1>0 DEF Locked, SameNums
<1>6. ASSUME AllSafe(s, TRUE, pw)
      PROVE  AllSafe(r, TRUE, pw)
  <2> SUFFICES ASSUME NEW i \in DOMAIN s PROVE KeySafe(r[i], TRUE, pw)
    BY <1>2 DEF AllSafe
  <2>1. KeySafe(s[i], TRUE, pw)
    BY <1>6 DEF AllSafe
  <2>2. r[i] = s[i] \/ KeySafe(r[i], TRUE, pw)
    BY <1>4, <1>0, <2>1 DEF Locked
  <2> QED BY <2>1, <2>2
<1>7. ASSUME 1 \in DOMAIN s, s[1].kind = "hd"
      PROVE  r[1].locked
  <2>1. \A j \in 1..1 : j = 1
    OBVIOUS
  <2>2. CanLock(s[1])
    BY <1>7 DEF CanLock
  <2>3. \A j \in 1..1 : CanLock(s[j])
    BY <2>1, <2>2
  <2>4. r[1] = LockKey(s[1])
    BY <1>2, <1>7, <2>3
  <2> QED BY <1>1, <1>7, <2>4, <1>0 DEF Locked
<1>8. ASSUME pw # NoPw, \A i \in DOMAIN s : s[i].kind = "sk" => s[i].enc = pw
      PROVE  All(s, CanLock) /\ AllWhole(r, FALSE, pw)
  <2>1. \A i \in DOMAIN s : CanLock(s[i])
    BY <1>8 DEF CanLock
  <2>2. \A i \in DOMAIN s : \A j \in 1..i : j \in DOMAIN s
    BY <1>1
  <2>3. \A i \in DOMAIN s : r[i] = LockKey(s[i])
    BY <1>2, <2>1, <2>2
  <2>4. AllWhole(r, FALSE, pw)
    BY <1>1, <1>2, <1>8, <2>3, <1>0 DEF Locked, AllWhole
  <2> QED BY <2>1, <2>4 DEF All
<1> QED
  BY <1>5, <1>6, <1>7, <1>8 DEF r

LEMMA UnlockedList ==
  ASSUME NEW S, NEW s \in Seq(KeyIn(S)), NEW pw
  PROVE  LET r == UpTo(s, LAMBDA k : CanUnlock(k, pw), UnlockKey)
         IN /\ SameNums(s, r)
            /\ AllSafe(s, TRUE, pw) => AllSafe(r, TRUE, pw)
            /\ AllWhole(s, FALSE, pw) =>
                 (\A i \in DOMAIN s : CanUnlock(s[i], pw)) /\ AllWhole(r, TRUE, pw)
<1> DEFINE r == UpTo(s, LAMBDA k : CanUnlock(k, pw), UnlockKey)
<1>1. DOMAIN s = 1..Len(s) /\ Len(s) \in Nat /\ \A i \in DOMAIN s : s[i] \in KeyIn(S)
  OBVIOUS
<1>2. /\ DOMAIN r = DOMAIN s
      /\ \A i \in DOMAIN s : r[i] = IF \A j \in 1..i : CanUnlock(s[j], pw) THEN UnlockKey(s[i]) ELSE s[i]
  BY DEF UpTo
<1> HIDE DEF r
<1>0. \A i \in DOMAIN s : Unlocked(s[i], UnlockKey(s[i]), pw)
  BY <1>1, OneKey
<1>4. \A i \in DOMAIN s : r[i] = s[i] \/ r[i] = UnlockKey(s[i])
  BY <1>2
<1>5. SameNums(s, r)
  BY <1>1, <1>2, <1>4, <1>0 DEF Unlocked, SameNums
<1>6. ASSUME AllSafe(s, TRUE, pw)
      PROVE  AllSafe(r, TRUE, pw)
  <2> SUFFICES ASSUME NEW i \in DOMAIN s PROVE KeySafe(r[i], TRUE, pw)
    BY <1>2 DEF AllSafe
  <2>1. KeySafe(s[i], TRUE, pw)
    BY <1>6 DEF AllSafe
  <2>2. r[i] = s[i] \/ KeySafe(r[i], TRUE, pw)
    BY <1>4, <1>0, <2>1 DEF Unlocked
  <2> QED BY <2>1, <2>2
<1>7. ASSUME AllWhole(s, FALSE, pw)
      PROVE  (\A i \in DOMAIN s : CanUnlock(s[i], pw)) /\ AllWhole(r, TRUE, pw)
  <2>1. \A i \in DOMAIN s : CanUnlock(s[i], pw) /\ KeyWhole(UnlockKey(s[i]), TRUE, pw)
    BY <1>1, <1>7, <1>0 DEF Unlocked, AllWhole
  <2>2. \A i \in DOMAIN s : \A j \in 1..i : j \in DOMAIN s
    BY <1>1
  <2>3. \A i \in DOMAIN s : r[i] = UnlockKey(s[i])
    BY <1>2, <2>1, <2>2
  <2> QED BY <1>2, <2>1, <2>3 DEF AllWhole
<1> QED
  BY <1>5, <1>6, <1>7 DEF r

LEMMA RemovedList ==
  ASSUME NEW S, NEW s \in Seq(KeyIn(S)), NEW e \in BOOLEAN, NEW pw
  PROVE  LET r == UpTo(s, CanRemoveEncryption, RemoveKeyEncryption)
         IN /\ SameNums(s, r) /\ (\A i \in DOMAIN s : r[i].locked <=> s[i].locked)
            /\ AllSafe(s, e, pw) => AllSafe(r, e, pw)
            /\ AllSafe(s, e, pw) /\ All(s, CanRemoveEncryption) => AllSafe(r, FALSE, NoPw)
            /\ AllWhole(s, TRUE, pw) => All(s, CanRemoveEncryption) /\ AllWhole(r, TRUE, NoPw)
<1> DEFINE r == UpTo(s, CanRemoveEncryption, RemoveKeyEncryption)
<1>1. DOMAIN s = 1..Len(s) /\ Len(s) \in Nat /\ \A i \in DOMAIN s : s[i] \in KeyIn(S)
  OBVIOUS
<1>2. /\ DOMAIN r = DOMAIN s
      /\ \A i \in DOMAIN s :
           r[i] = IF \A j \in 1..i : CanRemoveEncryption(s[j]) THEN RemoveKeyEncryption(s[i]) ELSE s[i]
  BY DEF UpTo
<1> HIDE DEF r
<1>0. \A i \in DOMAIN s : Removed(s[i], RemoveKeyEncryption(s[i]), e, pw)
  BY <1>1, OneKey
<1>3. \A i \in DOMAIN s : i \in 1..i /\ \A j \in 1..i : j \in DOMAIN s
  BY <1>1
<1>4. \A i \in DOMAIN s : r[i] = s[i] \/ (CanRemoveEncryption(s[i]) /\ r[i] = RemoveKeyEncryption(s[i]))
  BY <1>2, <1>3
<1>5. ASSUME \A i \in DOMAIN s : CanRemoveEncryption(s[i])
      PROVE  \A i \in DOMAIN s : r[i] = RemoveKeyEncryption(s[i])
  BY <1>2, <1>3, <1>5
<1>6. SameNums(s, r) /\ \A i \in DOMAIN s : r[i].locked <=> s[i].locked
  BY <1>1, <1>2, <1>4, <1>0 DEF Removed, SameNums
<1>7. ASSUME AllSafe(s, e, pw)
      PROVE  AllSafe(r, e, pw)
  BY <1>1, <1>2, <1>4, <1>7, <1>0 DEF Removed, AllSafe
<1>8. ASSUME AllSafe(s, e, pw), All(s, CanRemoveEncryption)
      PROVE  AllSafe(r, FALSE, NoPw)
  <2>1. \A i \in DOMAIN s : CanRemoveEncryption(s[i])
    BY <1>8 DEF All
  <2> QED BY <1>1, <1>2, <1>5, <1>8, <2>1, <1>0 DEF Removed, AllSafe
<1>9. ASSUME AllWhole(s, TRUE, pw)
      PROVE  All(s, CanRemoveEncryption) /\ AllWhole(r, TRUE, NoPw)
  <2>1. \A i \in DOMAIN s : CanRemoveEncryption(s[i]) /\ KeyWhole(RemoveKeyEncryption(s[i]), TRUE, NoPw)
    BY <1>1, <1>9, <1>0 DEF Removed, AllWhole
  <2>2. All(s, CanRemoveEncryption)
    BY <2>1 DEF All
  <2> QED BY <1>2, <1>5, <2>1, <2>2 DEF AllWhole
<1> QED
  BY <1>6, <1>7, <1>8, <1>9 DEF r

LEMMA EncryptedList ==
  ASSUME NEW S, NEW s \in Seq(KeyIn(S)), NEW pw \in Passwords
  PROVE  LET r == [i \in DOMAIN s |-> EncryptKey(s[i], pw)]
         IN /\ SameNums(s, r)
            /\ AllSafe(s, FALSE, NoPw) => AllSafe(r, TRUE, pw)
            /\ \A i \in DOMAIN r : r[i].kind = "sk" => r[i].enc = pw
<1> DEFINE r == [i \in DOMAIN s |-> EncryptKey(s[i], pw)]
<1>1. DOMAIN r = DOMAIN s /\ \A i \in DOMAIN s : s[i] \in KeyIn(S) /\ r[i] = EncryptKey(s[i], pw)
  OBVIOUS
<1> HIDE DEF r
<1>0. \A i \in DOMAIN s : Encrypted(s[i], EncryptKey(s[i], pw), pw)
  BY <1>1, OneKey
<1>2. SameNums(s, r) /\ \A i \in DOMAIN r : r[i].kind = "sk" => r[i].enc = pw
  BY <1>1, <1>0 DEF Encrypted, SameNums
<1>3. ASSUME AllSafe(s, FALSE, NoPw)
      PROVE  AllSafe(r, TRUE, pw)
  BY <1>1, <1>3, <1>0 DEF Encrypted, AllSafe
<1> QED
  BY <1>2, <1>3 DEF r

-----------------------------------------------------------------------------
(* The operations on the wallet's keys *)

(* ks2 is as safe as ks, and has the same kind of HD keys. *)
Fine(ks, ks2) ==
  /\ Safe(ks) => Safe(ks2)
  /\ Safe(ks) /\ Well(ks) => Well(ks2)
  /\ Hd(ks) => Hd(ks2)

LEMMA FineTwice ==
  ASSUME NEW a, NEW b, NEW c, Fine(a, b), Fine(b, c)
  PROVE  Fine(a, c)
BY DEF Fine

(* Lists that have the same keys are as good as the ones before. *)
LEMMA ListsHd ==
  ASSUME NEW S, NEW ks \in KeysIn(S), NEW ks2,
         ks2.o = ks.o, SameNums(ks.z, ks2.z), SameNums(ks.t, ks2.t)
  PROVE  Hd(ks) => Hd(ks2)
<1>1. ks.t \in Seq(KeyIn(S)) /\ ks.z \in Seq(KeyIn(S))
  BY DEF KeysIn
<1> QED
  BY <1>1, SameHd DEF Hd

LEMMA SameItself ==
  ASSUME NEW s PROVE SameNums(s, s)
BY DEF SameNums

(* Keys::lock; an error leaves some keys locked, the first one among them.   *)
LEMMA LockFine ==
  ASSUME NEW S, NEW ks \in KeysIn(S)
  PROVE  /\ Fine(ks, Lock(ks)) /\ Lock(ks).encrypted = ks.encrypted
         /\ Lock(ks).unlocked => ks.unlocked
         /\ Safe(ks) /\ ks.encrypted /\ ks.unlocked /\ ks.encSeed # NoPw
             /\ (\A i \in DOMAIN ks.t : ks.t[i].kind = "sk" => ks.t[i].enc = ks.encSeed)
             /\ (\A i \in DOMAIN ks.z : ks.z[i].kind = "sk" => ks.z[i].enc = ks.encSeed)
             => Well(Lock(ks)) /\ ~Lock(ks).unlocked
<1> DEFINE t == UpTo(ks.t, CanLock, LockKey)
           u == UpTo(ks.z, CanLock, LockKey)
           z == IF All(ks.t, CanLock) THEN u ELSE ks.z
           b == ~(All(ks.t, CanLock) /\ All(ks.z, CanLock))
           pw == ks.encSeed
           Copied(s) == \A i \in DOMAIN s : s[i].kind = "sk" => s[i].enc = pw
<1>1. ks.t \in Seq(KeyIn(S)) /\ ks.z \in Seq(KeyIn(S)) /\ ks.unlocked \in BOOLEAN /\ ks.encrypted \in BOOLEAN
  BY DEF KeysIn
<1>2. CASE LockError(ks)
  BY <1>2 DEF Lock, LockError, Fine
<1>3. CASE ~LockError(ks)
  <2>0. ks.encrypted /\ ks.unlocked
    BY <1>3 DEF LockError
  <2>1. Lock(ks) = [ks EXCEPT !.seed = FALSE, !.t = t, !.z = z, !.unlocked = b]
    BY <1>3 DEF Lock
  <2>2. /\ SameNums(ks.t, t) /\ (AllSafe(ks.t, TRUE, pw) => AllSafe(t, TRUE, pw))
        /\ 1 \in DOMAIN ks.t /\ ks.t[1].kind = "hd" => t[1].locked
        /\ pw # NoPw /\ Copied(ks.t) => All(ks.t, CanLock) /\ AllWhole(t, FALSE, pw)
    BY <1>1, LockedList
  <2>3. /\ SameNums(ks.z, u) /\ (AllSafe(ks.z, TRUE, pw) => AllSafe(u, TRUE, pw))
        /\ pw # NoPw /\ Copied(ks.z) => All(ks.z, CanLock) /\ AllWhole(u, FALSE, pw)
    BY <1>1, LockedList
  <2>4. /\ SameNums(ks.z, z) /\ (AllSafe(ks.z, TRUE, pw) => AllSafe(z, TRUE, pw))
        /\ pw # NoPw /\ Copied(ks.z) /\ Copied(ks.t) => z = u /\ AllWhole(z, FALSE, pw) /\ ~b
    BY <2>2, <2>3, SameItself
  <2>5. b \in BOOLEAN
    OBVIOUS
  <2> HIDE DEF t, u, z, b
  <2> DEFINE r == Lock(ks)
  <2>6. /\ r.seed = FALSE /\ r.t = t /\ r.z = z /\ r.o = ks.o /\ r.unlocked = b
        /\ r.encrypted = ks.encrypted /\ r.encSeed = pw
    BY <2>1 DEF KeysIn
  <2> HIDE DEF r
  <2>7. Safe(ks) => Safe(r)
    <3> SUFFICES ASSUME Safe(ks) PROVE Safe(r)
      OBVIOUS
    <3>1. AllSafe(r.z, TRUE, r.encSeed) /\ AllSafe(r.t, TRUE, r.encSeed)
      BY <1>1, <2>0, <2>2, <2>4, <2>6 DEF Safe
    <3>2. FirstHd(r)
      BY <2>2, <2>6 DEF Safe, FirstHd, SameNums
    <3> QED BY <1>1, <2>0, <2>6, <3>1, <3>2 DEF Safe
  <2>8. pw # NoPw /\ Copied(ks.z) /\ Copied(ks.t) => Well(r) /\ ~r.unlocked
    <3> SUFFICES ASSUME pw # NoPw, Copied(ks.z), Copied(ks.t) PROVE Well(r) /\ ~r.unlocked
      OBVIOUS
    <3>1. AllWhole(r.z, FALSE, pw) /\ AllWhole(r.t, FALSE, pw)
      BY <2>2, <2>4, <2>6
    <3>2. r.unlocked = FALSE
      BY <2>4, <2>5, <2>6
    <3> QED BY <2>6, <3>1, <3>2 DEF Well
  <2>9. Safe(ks) /\ Well(ks) => pw # NoPw /\ Copied(ks.z) /\ Copied(ks.t)
    BY <2>0 DEF Safe, Well, AllWhole, KeyWhole
  <2>10. Hd(ks) => Hd(r)
    BY <2>2, <2>4, <2>6, ListsHd
  <2> QED BY <2>0, <2>6, <2>7, <2>8, <2>9, <2>10 DEF Fine, r
<1> QED
  BY <1>2, <1>3

(* Keys::encrypt: of keys that are not encrypted, every one is there. *)
LEMMA EncryptFine ==
  ASSUME NEW S, NEW ks \in KeysIn(S), NEW p \in Passwords
  PROVE  Fine(ks, Encrypt(ks, p)) /\ (Safe(ks) /\ Sealed(ks) => Sealed(Encrypt(ks, p)))
<1> DEFINE t == [i \in DOMAIN ks.t |-> EncryptKey(ks.t[i], p)]
           z == [i \in DOMAIN ks.z |-> EncryptKey(ks.z[i], p)]
           e == [ks EXCEPT !.encSeed = p, !.encrypted = TRUE, !.z = z, !.t = t]
<1>1. ks.t \in Seq(KeyIn(S)) /\ ks.z \in Seq(KeyIn(S)) /\ ks.encrypted \in BOOLEAN /\ p # NoPw
  BY KeyAssumption DEF KeysIn
<1>2. SameKeys(S, ks.t, t) /\ SameKeys(S, ks.z, z)
  BY <1>1, PartChanged
<1>3. Encrypt(ks, p) = IF ks.encrypted THEN ks ELSE Lock(e)
  BY DEF Encrypt
<1>4. /\ SameNums(ks.t, t) /\ (AllSafe(ks.t, FALSE, NoPw) => AllSafe(t, TRUE, p))
      /\ \A i \in DOMAIN t : t[i].kind = "sk" => t[i].enc = p
  BY <1>1, EncryptedList
<1>5. /\ SameNums(ks.z, z) /\ (AllSafe(ks.z, FALSE, NoPw) => AllSafe(z, TRUE, p))
      /\ \A i \in DOMAIN z : z[i].kind = "sk" => z[i].enc = p
  BY <1>1, EncryptedList
<1> HIDE DEF t, z
<1>6. /\ e \in KeysIn(S) /\ e.t = t /\ e.z = z /\ e.o = ks.o /\ e.encSeed = p /\ e.encrypted = TRUE
      /\ e.seed = ks.seed /\ e.unlocked = ks.unlocked
  BY <1>2 DEF KeysIn, SameKeys
<1> HIDE DEF e
<1>7. CASE ks.encrypted
  BY <1>3, <1>7 DEF Fine
<1>8. CASE ~ks.encrypted
  <2>1. Safe(ks) => Safe(e)
    <3> SUFFICES ASSUME Safe(ks) PROVE Safe(e)
      OBVIOUS
    <3>1. AllSafe(ks.t, FALSE, NoPw) /\ AllSafe(ks.z, FALSE, NoPw) /\ ks.seed /\ ks.unlocked
      BY <1>1, <1>8 DEF Safe
    <3>2. FirstHd(e)
      BY <1>4, <1>6, <3>1 DEF Safe, FirstHd, SameNums
    <3> QED BY <1>1, <1>4, <1>5, <1>6, <3>1, <3>2 DEF Safe
  <2>2. Safe(ks) => Safe(Lock(e)) /\ Well(Lock(e)) /\ ~Lock(e).unlocked
    <3> SUFFICES ASSUME Safe(ks) PROVE Safe(Lock(e)) /\ Well(Lock(e)) /\ ~Lock(e).unlocked
      OBVIOUS
    <3>1. Safe(e) /\ e.encrypted /\ e.unlocked /\ e.encSeed # NoPw
      BY <1>1, <1>6, <1>8, <2>1 DEF Safe
    <3>2. /\ \A i \in DOMAIN e.t : e.t[i].kind = "sk" => e.t[i].enc = e.encSeed
          /\ \A i \in DOMAIN e.z : e.z[i].kind = "sk" => e.z[i].enc = e.encSeed
      BY <1>4, <1>5, <1>6
    <3> QED BY <1>6, <3>1, <3>2, LockFine DEF Fine
  <2>3. Hd(ks) => Hd(e)
    BY <1>4, <1>5, <1>6, ListsHd
  <2>4. Hd(e) => Hd(Lock(e))
    BY <1>6, LockFine DEF Fine
  <2> QED BY <1>3, <1>8, <2>2, <2>3, <2>4 DEF Fine, Sealed
<1> QED
  BY <1>7, <1>8

(* Keys::unlock; an error leaves the wallet locked, and without its seed. *)
LEMMA UnlockFine ==
  ASSUME NEW S, NEW ks \in KeysIn(S), NEW p
  PROVE  LET r == Unlock(ks, p)
         IN /\ Fine(ks, r) /\ r.encrypted = ks.encrypted
            /\ ks.encrypted /\ ~ks.unlocked /\ p = ks.encSeed /\ Safe(ks) /\ Well(ks) =>
                 r.unlocked /\ Well(r) /\ r.encSeed = p
<1> DEFINE ok(k) == CanUnlock(k, p)
           t == UpTo(ks.t, LAMBDA k : CanUnlock(k, p), UnlockKey)
           u == UpTo(ks.z, LAMBDA k : CanUnlock(k, p), UnlockKey)
           z == IF All(ks.t, ok) THEN u ELSE ks.z
           b == All(ks.t, ok) /\ All(ks.z, ok)
           r == Unlock(ks, p)
<1>1. ks.t \in Seq(KeyIn(S)) /\ ks.z \in Seq(KeyIn(S)) /\ ks.unlocked \in BOOLEAN /\ ks.encrypted \in BOOLEAN
  BY DEF KeysIn
<1>2. CASE ~ks.encrypted \/ ks.unlocked \/ ks.encSeed # p
  <2>1. r = ks
    BY <1>2 DEF Unlock
  <2> HIDE DEF r
  <2> QED BY <1>2, <2>1 DEF Fine, r
<1>3. CASE ks.encrypted /\ ~ks.unlocked /\ ks.encSeed = p
  <2>1. r = [ks EXCEPT !.t = t, !.z = z, !.seed = b, !.unlocked = b]
    <3>1. t = UpTo(ks.t, ok, UnlockKey) /\ u = UpTo(ks.z, ok, UnlockKey)
      BY DEF UpTo
    <3> QED BY <1>3, <3>1 DEF Unlock
  <2>2. /\ SameNums(ks.t, t) /\ (AllSafe(ks.t, TRUE, p) => AllSafe(t, TRUE, p))
        /\ AllWhole(ks.t, FALSE, p) => (\A i \in DOMAIN ks.t : CanUnlock(ks.t[i], p)) /\ AllWhole(t, TRUE, p)
    BY <1>1, UnlockedList DEF UpTo
  <2>3. /\ SameNums(ks.z, u) /\ (AllSafe(ks.z, TRUE, p) => AllSafe(u, TRUE, p))
        /\ AllWhole(ks.z, FALSE, p) => (\A i \in DOMAIN ks.z : CanUnlock(ks.z[i], p)) /\ AllWhole(u, TRUE, p)
    BY <1>1, UnlockedList DEF UpTo
  <2>4. /\ SameNums(ks.z, z) /\ (AllSafe(ks.z, TRUE, p) => AllSafe(z, TRUE, p))
        /\ AllWhole(ks.t, FALSE, p) /\ AllWhole(ks.z, FALSE, p) => AllWhole(z, TRUE, p) /\ b
    <3>1. AllWhole(ks.t, FALSE, p) => All(ks.t, ok)
      BY <2>2 DEF All
    <3>2. AllWhole(ks.z, FALSE, p) => All(ks.z, ok)
      BY <2>3 DEF All
    <3> HIDE DEF u
    <3> QED BY <2>3, <3>1, <3>2, SameItself
  <2>5. b \in BOOLEAN
    BY DEF All
  <2> HIDE DEF t, u, z, b, r
  <2>6. /\ r.seed = b /\ r.t = t /\ r.z = z /\ r.o = ks.o /\ r.unlocked = b
        /\ r.encrypted = ks.encrypted /\ r.encSeed = p
    BY <1>3, <2>1 DEF KeysIn
  <2>7. Safe(ks) => Safe(r)
    <3> SUFFICES ASSUME Safe(ks) PROVE Safe(r)
      OBVIOUS
    <3>1. AllSafe(r.z, TRUE, r.encSeed) /\ AllSafe(r.t, TRUE, r.encSeed)
      BY <1>1, <1>3, <2>2, <2>4, <2>6 DEF Safe
    <3>2. FirstHd(r)
      BY <2>2, <2>6 DEF Safe, FirstHd, SameNums
    <3> QED BY <1>1, <1>3, <2>6, <3>1, <3>2 DEF Safe
  <2>8. Well(ks) => Well(r) /\ r.unlocked
    <3> SUFFICES ASSUME Well(ks) PROVE Well(r) /\ r.unlocked
      OBVIOUS
    <3>1. AllWhole(ks.t, FALSE, p) /\ AllWhole(ks.z, FALSE, p)
      BY <1>1, <1>3 DEF Well
    <3>2. AllWhole(t, TRUE, p) /\ AllWhole(z, TRUE, p) /\ b = TRUE
      BY <2>2, <2>4, <2>5, <3>1
    <3> QED BY <2>6, <3>2 DEF Well
  <2>9. Hd(ks) => Hd(r)
    BY <2>2, <2>4, <2>6, ListsHd
  <2> QED BY <1>3, <2>6, <2>7, <2>8, <2>9 DEF Fine, r
<1> QED
  BY <1>1, <1>2, <1>3

(* Keys::remove_encryption, of keys that were unlocked *)
LEMMA DecryptFine ==
  ASSUME NEW S, NEW u \in KeysIn(S), NEW r,
         LET t == UpTo(u.t, CanRemoveEncryption, RemoveKeyEncryption)
             z == UpTo(u.z, CanRemoveEncryption, RemoveKeyEncryption)
         IN \/ ~All(u.t, CanRemoveEncryption) /\ r = [u EXCEPT !.t = t]
            \/ ~All(u.z, CanRemoveEncryption) /\ r = [u EXCEPT !.t = t, !.z = z]
            \/ /\ All(u.t, CanRemoveEncryption) /\ All(u.z, CanRemoveEncryption)
               /\ r = [u EXCEPT !.t = t, !.z = z, !.encrypted = FALSE, !.encSeed = NoPw],
         u.unlocked
  PROVE  /\ Fine(u, r)
         /\ Well(u) => ~r.encrypted
         /\ r.encrypted => u.encrypted
<1> DEFINE t == UpTo(u.t, CanRemoveEncryption, RemoveKeyEncryption)
           v == UpTo(u.z, CanRemoveEncryption, RemoveKeyEncryption)
           OkT == All(u.t, CanRemoveEncryption)
           OkZ == All(u.z, CanRemoveEncryption)
           pw == u.encSeed
           e == u.encrypted
<1>1. u.t \in Seq(KeyIn(S)) /\ u.z \in Seq(KeyIn(S)) /\ u.unlocked = TRUE /\ e \in BOOLEAN
  BY DEF KeysIn
<1>2. /\ SameNums(u.t, t) /\ (\A i \in DOMAIN u.t : t[i].locked <=> u.t[i].locked)
      /\ AllSafe(u.t, e, pw) => AllSafe(t, e, pw)
      /\ AllSafe(u.t, e, pw) /\ OkT => AllSafe(t, FALSE, NoPw)
      /\ AllWhole(u.t, TRUE, pw) => OkT /\ AllWhole(t, TRUE, NoPw)
  BY <1>1, RemovedList
<1>3. /\ SameNums(u.z, v)
      /\ AllSafe(u.z, e, pw) => AllSafe(v, e, pw)
      /\ AllSafe(u.z, e, pw) /\ OkZ => AllSafe(v, FALSE, NoPw)
      /\ AllWhole(u.z, TRUE, pw) => OkZ /\ AllWhole(v, TRUE, NoPw)
  BY <1>1, RemovedList
<1>4. OkT => \A i \in DOMAIN u.t : ~u.t[i].locked
  BY DEF All, CanRemoveEncryption
<1>5. \/ ~OkT /\ r = [u EXCEPT !.t = t]
      \/ ~OkZ /\ r = [u EXCEPT !.t = t, !.z = v]
      \/ OkT /\ OkZ /\ r = [u EXCEPT !.t = t, !.z = v, !.encrypted = FALSE, !.encSeed = NoPw]
  OBVIOUS
<1> HIDE DEF t, v, OkT, OkZ
<1>6. /\ r.t = t /\ r.z \in {u.z, v} /\ r.o = u.o /\ r.seed = u.seed /\ r.unlocked = u.unlocked
      /\ \/ (~OkT \/ ~OkZ) /\ r.encrypted = e /\ r.encSeed = pw
         \/ OkT /\ OkZ /\ r.z = v /\ r.encrypted = FALSE /\ r.encSeed = NoPw
  <2>1. CASE ~OkT /\ r = [u EXCEPT !.t = t]
    BY <2>1 DEF KeysIn
  <2>2. CASE ~OkZ /\ r = [u EXCEPT !.t = t, !.z = v]
    BY <2>2 DEF KeysIn
  <2>3. CASE OkT /\ OkZ /\ r = [u EXCEPT !.t = t, !.z = v, !.encrypted = FALSE, !.encSeed = NoPw]
    BY <2>3 DEF KeysIn
  <2> QED BY <1>5, <2>1, <2>2, <2>3
<1>7. Safe(u) => Safe(r)
  <2> SUFFICES ASSUME Safe(u) PROVE Safe(r)
    OBVIOUS
  <2>1. AllSafe(u.t, e, pw) /\ AllSafe(u.z, e, pw) /\ FirstHd(u)
    BY DEF Safe
  <2>2. FirstHd(r)
    BY <1>2, <1>6, <2>1 DEF FirstHd, SameNums
  <2>3. CASE (~OkT \/ ~OkZ) /\ r.encrypted = e /\ r.encSeed = pw
    BY <1>2, <1>3, <1>6, <2>1, <2>2, <2>3 DEF Safe
  <2>4. CASE OkT /\ OkZ /\ r.z = v /\ r.encrypted = FALSE /\ r.encSeed = NoPw
    <3>1. u.seed
      BY <1>1, <1>4, <2>1, <2>4 DEF FirstHd
    <3>2. AllSafe(r.t, FALSE, NoPw) /\ AllSafe(r.z, FALSE, NoPw)
      BY <1>2, <1>3, <1>6, <2>1, <2>4
    <3> QED BY <1>1, <1>6, <2>2, <2>4, <3>1, <3>2 DEF Safe
  <2> QED BY <1>6, <2>3, <2>4
<1>8. Well(u) => Well(r) /\ ~r.encrypted
  <2> SUFFICES ASSUME Well(u) PROVE Well(r) /\ ~r.encrypted
    OBVIOUS
  <2>1. AllWhole(u.t, TRUE, pw) /\ AllWhole(u.z, TRUE, pw) /\ u.seed = TRUE
    BY <1>1 DEF Well
  <2>2. OkT /\ OkZ /\ AllWhole(t, TRUE, NoPw) /\ AllWhole(v, TRUE, NoPw)
    BY <1>2, <1>3, <2>1
  <2> QED BY <1>1, <1>6, <2>1, <2>2 DEF Well
<1>9. Hd(u) => Hd(r)
  <2>1. SameNums(u.z, r.z) /\ SameNums(u.t, r.t)
    BY <1>2, <1>3, <1>6, SameItself
  <2> QED BY <1>6, <2>1, ListsHd
<1> QED
  BY <1>1, <1>6, <1>7, <1>8, <1>9 DEF Fine

LEMMA RemoveEncryptionFine ==
  ASSUME NEW S, NEW ks \in KeysIn(S), NEW p \in Passwords
  PROVE  LET r == RemoveEncryption(ks, p)
         IN /\ Fine(ks, r) /\ (r.encrypted => ks.encrypted)
            /\ Safe(ks) /\ Well(ks) => Sealed(r) \/ r = ks
<1> DEFINE u == IF ks.unlocked THEN ks ELSE Unlock(ks, p)
           r == RemoveEncryption(ks, p)
           t == UpTo(u.t, CanRemoveEncryption, RemoveKeyEncryption)
           z == UpTo(u.z, CanRemoveEncryption, RemoveKeyEncryption)
<1>1. Fine(ks, u) /\ u.encrypted = ks.encrypted /\ u \in KeysIn(S)
  BY UnlockFine, UnlockRegrows DEF Fine, Regrows
<1>2. \/ (~ks.encrypted \/ ~u.unlocked) /\ r = u
      \/ /\ u.unlocked
         /\ \/ ~All(u.t, CanRemoveEncryption) /\ r = [u EXCEPT !.t = t]
            \/ ~All(u.z, CanRemoveEncryption) /\ r = [u EXCEPT !.t = t, !.z = z]
            \/ /\ All(u.t, CanRemoveEncryption) /\ All(u.z, CanRemoveEncryption)
               /\ r = [u EXCEPT !.t = t, !.z = z, !.encrypted = FALSE, !.encSeed = NoPw]
  BY DEF RemoveEncryption
<1> HIDE DEF u, r
<1>3. CASE (~ks.encrypted \/ ~u.unlocked) /\ r = u
  BY <1>1, <1>3 DEF Sealed, r
<1>4. CASE ~((~ks.encrypted \/ ~u.unlocked) /\ r = u)
  <2>1. Fine(u, r) /\ (Well(u) => ~r.encrypted) /\ (r.encrypted => u.encrypted)
    BY <1>1, <1>2, <1>4, DecryptFine
  <2>2. Fine(ks, r)
    BY <1>1, <2>1, FineTwice
  <2> QED BY <1>1, <2>1, <2>2 DEF Fine, Sealed, r
<1> QED
  BY <1>3, <1>4

-----------------------------------------------------------------------------
(* Keys are added at the end of a list. *)

LEMMA FreshKeys ==
  ASSUME NEW x, NEW e, NEW u \in BOOLEAN, NEW pw
  PROVE  /\ KeySafe(NewHdKey(x), e, pw) /\ KeyWhole(NewHdKey(x), TRUE, pw)
         /\ KeySafe(NewImportedSk(x), e, pw) /\ KeyWhole(NewImportedSk(x), TRUE, NoPw)
         /\ KeySafe(NewImportedViewKey(x), e, pw) /\ KeyWhole(NewImportedViewKey(x), u, pw)
         /\ NewImportedSk(x).kind # "hd" /\ NewImportedViewKey(x).kind # "hd"
BY DEF NewHdKey, NewImportedSk, NewImportedViewKey, KeySafe, KeyWhole

Longer(s, q) == Len(s) <= Len(q) /\ \A i \in DOMAIN s : i \in DOMAIN q /\ q[i] = s[i]
Added(s, q)  == {q[i] : i \in DOMAIN q \ DOMAIN s}

LEMMA AppendLonger ==
  ASSUME NEW S, NEW s \in Seq(KeyIn(S)), NEW k \in KeyIn(S)
  PROVE  LET q == Append(s, k)
         IN /\ Longer(s, q) /\ q \in Seq(KeyIn(S)) /\ Added(s, q) = {k}
            /\ Len(q) = Len(s) + 1 /\ DOMAIN q \ DOMAIN s = {Len(s) + 1} /\ q[Len(s) + 1] = k
<1> DEFINE q == Append(s, k)
<1>1. /\ q \in Seq(KeyIn(S)) /\ Len(q) = Len(s) + 1
      /\ \A i \in 1..Len(s) : q[i] = s[i]
      /\ q[Len(s) + 1] = k
  BY AppendProperties
<1>2. DOMAIN s = 1..Len(s) /\ DOMAIN q = 1..(Len(s) + 1) /\ Len(s) \in Nat
  BY <1>1
<1> HIDE DEF q
<1>3. DOMAIN q \ DOMAIN s = {Len(s) + 1}
  BY <1>2
<1>4. Longer(s, q)
  BY <1>1, <1>2 DEF Longer
<1>5. Added(s, q) = {k}
  BY <1>1, <1>3 DEF Added
<1> QED
  BY <1>1, <1>3, <1>4, <1>5 DEF q

LEMMA SameLonger ==
  ASSUME NEW s, NEW r \in Nat, r = Len(s)
  PROVE  Longer(s, s) /\ Added(s, s) = {}
BY DEF Longer, Added

Extends(ks, ks2) ==
  /\ ks2.encrypted = ks.encrypted /\ ks2.unlocked = ks.unlocked
  /\ ks2.seed = ks.seed /\ ks2.encSeed = ks.encSeed
  /\ Longer(ks.z, ks2.z) /\ Longer(ks.t, ks2.t)

LEMMA ExtendFine ==
  ASSUME NEW ks, NEW ks2, Extends(ks, ks2)
  PROVE  /\ Safe(ks) /\ (\A k \in Added(ks.z, ks2.z) \cup Added(ks.t, ks2.t) :
                            KeySafe(k, ks.encrypted, ks.encSeed)) => Safe(ks2)
         /\ Well(ks) /\ (\A k \in Added(ks.z, ks2.z) \cup Added(ks.t, ks2.t) :
                            KeyWhole(k, ks.unlocked, ks.encSeed)) => Well(ks2)
<1> DEFINE e == ks.encrypted  u == ks.unlocked  pw == ks.encSeed
<1>1. ASSUME NEW s, NEW q, Longer(s, q)
      PROVE  /\ AllSafe(s, e, pw) /\ (\A k \in Added(s, q) : KeySafe(k, e, pw)) => AllSafe(q, e, pw)
             /\ AllWhole(s, u, pw) /\ (\A k \in Added(s, q) : KeyWhole(k, u, pw)) => AllWhole(q, u, pw)
  <2>1. \A i \in DOMAIN q : (i \in DOMAIN s /\ q[i] = s[i]) \/ q[i] \in Added(s, q)
    BY <1>1 DEF Longer, Added
  <2> HIDE DEF e, u, pw
  <2>2. ASSUME AllSafe(s, e, pw), \A k \in Added(s, q) : KeySafe(k, e, pw)
        PROVE  AllSafe(q, e, pw)
    BY <2>1, <2>2 DEF AllSafe
  <2>3. ASSUME AllWhole(s, u, pw), \A k \in Added(s, q) : KeyWhole(k, u, pw)
        PROVE  AllWhole(q, u, pw)
    BY <2>1, <2>3 DEF AllWhole
  <2> QED BY <2>2, <2>3
<1>2. FirstHd(ks) => FirstHd(ks2)
  BY DEF FirstHd, Extends, Longer
<1>3. Longer(ks.z, ks2.z) /\ Longer(ks.t, ks2.t)
  BY DEF Extends
<1>4. ASSUME Safe(ks), \A k \in Added(ks.z, ks2.z) \cup Added(ks.t, ks2.t) : KeySafe(k, e, pw)
      PROVE  Safe(ks2)
  <2>1. AllSafe(ks2.z, e, pw) /\ AllSafe(ks2.t, e, pw)
    BY <1>1, <1>3, <1>4 DEF Safe
  <2> QED BY <1>2, <1>4, <2>1 DEF Safe, Extends
<1>5. ASSUME Well(ks), \A k \in Added(ks.z, ks2.z) \cup Added(ks.t, ks2.t) : KeyWhole(k, u, pw)
      PROVE  Well(ks2)
  <2>1. AllWhole(ks2.z, u, pw) /\ AllWhole(ks2.t, u, pw)
    BY <1>1, <1>3, <1>5 DEF Well
  <2> QED BY <1>5, <2>1 DEF Well, Extends
<1> QED
  BY <1>4, <1>5

(* add_oaddr, add_zaddr, add_taddr *)
LEMMA AddAddressFine ==
  ASSUME NEW ks, IsKeys(ks), NEW pool \in {"u", "z", "t"}
  PROVE  LET r == AddAddress(ks, pool)
         IN Fine(ks, r) /\ r.encrypted = ks.encrypted /\ r.unlocked = ks.unlocked
<1> DEFINE list == Pool(ks, pool)
           n == NextPosition(list)
           q == Append(list, NewHdKey(n))
           r == AddAddress(ks, pool)
<1>1. PICK S : ks \in KeysIn(S)
  BY DEF IsKeys
<1> DEFINE T == S \cup {n}
<1>2. /\ ks \in KeysIn(T) /\ NewHdKey(n) \in KeyIn(T)
      /\ NewHdKey(n).id = n /\ NewHdKey(n).kind = "hd"
  BY <1>1, KeysInLarger, NewKeyIn
<1> HIDE DEF T
<1>3. list \in Seq(KeyIn(T)) /\ ks.o \in Seq(KeyIn(T)) /\ ks.z \in Seq(KeyIn(T)) /\ ks.t \in Seq(KeyIn(T))
  BY <1>2 DEF KeysIn, Pool
<1>4. /\ Longer(list, q) /\ q \in Seq(KeyIn(T)) /\ Added(list, q) = {NewHdKey(n)}
      /\ Len(q) = Len(list) + 1 /\ DOMAIN q \ DOMAIN list = {Len(list) + 1} /\ q[Len(list) + 1] = NewHdKey(n)
  BY <1>2, <1>3, AppendLonger
<1>5. HdFrom(list) => HdFrom(q)
  <2> SUFFICES ASSUME HdFrom(list) PROVE HdFrom(q)
    OBVIOUS
  <2>1. n \in Nat /\ Len(list) \in Nat
    <3>1. PICK m \in Nat : HdNums(list) = 0..(m - 1)
      BY DEF HdFrom
    <3>2. n = m
      BY <3>1, NextIsCount
    <3> QED BY <1>3, <3>2
  <2>2. Len(list) <= Len(q) /\ \A i \in DOMAIN list : q[i] = list[i]
    BY <1>4 DEF Longer
  <2>3. \A i \in DOMAIN q \ DOMAIN list : i = Len(list) + 1 /\ q[i] = NewHdKey(n)
    BY <1>4
  <2> HIDE DEF q, list
  <2>4. \A i \in DOMAIN q \ DOMAIN list : q[i].kind = "hd" /\ q[i].id = n + i - Len(list) - 1
    BY <1>2, <2>1, <2>3
  <2> QED BY <1>3, <1>4, <2>2, <2>4, NextHd
<1>6. CASE ~ks.unlocked
  <2>1. r = ks
    BY <1>6 DEF AddAddress
  <2> HIDE DEF r
  <2> QED BY <2>1 DEF Fine, r
<1>7. CASE ks.unlocked
  <2>1. /\ r = CASE pool = "u" -> [ks EXCEPT !.o = q]
                 [] pool = "z" -> [ks EXCEPT !.z = q]
                 [] pool = "t" -> [ks EXCEPT !.t = q]
    BY <1>7 DEF AddAddress, AddHdKey, Pool
  <2> HIDE DEF q, list, r, n
  <2>2. /\ r.encrypted = ks.encrypted /\ r.unlocked = ks.unlocked
        /\ r.seed = ks.seed /\ r.encSeed = ks.encSeed
        /\ r.o = (IF pool = "u" THEN q ELSE ks.o)
        /\ r.z = (IF pool = "z" THEN q ELSE ks.z)
        /\ r.t = (IF pool = "t" THEN q ELSE ks.t)
    BY <1>2, <2>1 DEF KeysIn
  <2>3. /\ pool = "u" => list = ks.o
        /\ pool = "z" => list = ks.z
        /\ pool = "t" => list = ks.t
    BY DEF list, Pool
  <2>4. /\ Longer(ks.z, r.z) /\ Added(ks.z, r.z) \subseteq {NewHdKey(n)}
        /\ Longer(ks.t, r.t) /\ Added(ks.t, r.t) \subseteq {NewHdKey(n)}
    <3>1. /\ Longer(ks.z, ks.z) /\ Added(ks.z, ks.z) = {}
          /\ Longer(ks.t, ks.t) /\ Added(ks.t, ks.t) = {}
      BY <1>3, SameLonger
    <3> QED BY <1>4, <2>2, <2>3, <3>1
  <2>5. Extends(ks, r)
    BY <2>2, <2>4 DEF Extends
  <2>6. ks.unlocked = TRUE
    BY <1>7, <1>2 DEF KeysIn
  <2>7. \A k \in Added(ks.z, r.z) \cup Added(ks.t, r.t) :
          KeySafe(k, ks.encrypted, ks.encSeed) /\ KeyWhole(k, ks.unlocked, ks.encSeed)
    BY <2>4, <2>6, FreshKeys
  <2>8. Hd(ks) => Hd(r)
    BY <1>5, <2>2, <2>3 DEF Hd
  <2> QED BY <2>2, <2>5, <2>7, <2>8, ExtendFine DEF Fine, r
<1> QED
  BY <1>6, <1>7

(* ensure_hd_taddresses: HD address n was used, and Gap others follow it. *)
LEMMA EnsureFine ==
  ASSUME NEW ks, IsKeys(ks), NEW n \in Nat
  PROVE  LET r == EnsureHdTaddresses(ks, n)
         IN /\ Fine(ks, r) /\ r.encrypted = ks.encrypted /\ r.unlocked = ks.unlocked
            /\ Hd(ks) /\ ks.unlocked /\ n \in Ids(ks.t) =>
                 \A i \in 1..Gap : n + i \in Ids(r.t)
<1> DEFINE next == NextPosition(ks.t)
           m == Gap - (next - 1 - n)
           new == [i \in 1..m |-> NewHdKey(next + i - 1)]
           q == ks.t \o new
           r == EnsureHdTaddresses(ks, n)
<1>1. ASSUME Hd(ks), n \in Ids(ks.t)
      PROVE  next \in Nat /\ n \in 0..(next - 1) /\ HdNums(ks.t) = 0..(next - 1)
  <2>1. PICK k \in Nat : HdNums(ks.t) = 0..(k - 1)
    BY <1>1 DEF Hd, HdFrom
  <2>2. next = k
    BY <2>1, NextIsCount
  <2>3. n \in HdNums(ks.t)
    BY <1>1 DEF Hd, HdFrom, HdNums, Ids
  <2> QED BY <2>1, <2>2, <2>3
<1>2. HdNums(ks.t) \subseteq Ids(ks.t)
  BY DEF HdNums, Ids
<1>3. CASE ~(ks.unlocked /\ n \in 0..(next - 1) /\ next - 1 - n < Gap)
  <2>1. r = ks
    BY <1>3 DEF EnsureHdTaddresses
  <2>2. ASSUME Hd(ks), ks.unlocked, n \in Ids(ks.t), NEW i \in 1..Gap
        PROVE  n + i \in Ids(ks.t)
    <3>1. next - 1 - n >= Gap
      BY <1>1, <1>3, <2>2, KeyAssumption
    <3>2. n + i \in 0..(next - 1)
      BY <1>1, <2>2, <3>1, KeyAssumption
    <3> QED BY <1>1, <1>2, <2>2, <3>2
  <2> HIDE DEF r
  <2> QED BY <2>1, <2>2 DEF Fine, r
<1>4. CASE ks.unlocked /\ n \in 0..(next - 1) /\ next - 1 - n < Gap
  <2>1. next \in Nat
    BY NextIsTop DEF IsKeys
  <2>2. m \in Nat \ {0}
    BY <1>4, <2>1, KeyAssumption
  <2>3. r = [ks EXCEPT !.t = q]
    BY <1>4 DEF EnsureHdTaddresses, AddHdKeys
  <2>4. PICK S : ks \in KeysIn(S)
    BY DEF IsKeys
  <2> DEFINE T == S \cup Nat
  <2>5. ks \in KeysIn(T) /\ \A k \in Nat : NewHdKey(k) \in KeyIn(T) /\ NewHdKey(k).id = k /\ NewHdKey(k).kind = "hd"
    BY <2>4, KeysInLarger, NewKeyIn
  <2> HIDE DEF T
  <2>6. \A i \in 1..m : next + i - 1 \in Nat
    BY <2>1, <2>2
  <2>7. new \in [1..m -> KeyIn(T)]
    BY <2>5, <2>6
  <2>8. /\ new \in Seq(KeyIn(T)) /\ DOMAIN new = 1..m /\ Len(new) = m
        /\ \A i \in 1..m : new[i] = NewHdKey(next + i - 1)
    BY <2>2, <2>7
  <2>9. ks.t \in Seq(KeyIn(T)) /\ ks.z \in Seq(KeyIn(T))
    BY <2>5 DEF KeysIn
  <2> HIDE DEF new
  <2>10. /\ q \in Seq(KeyIn(T)) /\ Len(q) = Len(ks.t) + m
         /\ \A i \in 1..Len(ks.t) + m : q[i] = IF i <= Len(ks.t) THEN ks.t[i] ELSE new[i - Len(ks.t)]
    <3> DEFINE s == ks.t
    <3>1. s \in Seq(KeyIn(T))
      BY <2>9
    <3> HIDE DEF s, m
    <3>2. /\ s \o new \in Seq(KeyIn(T)) /\ Len(s \o new) = Len(s) + m
          /\ \A i \in 1..Len(s) + m : (s \o new)[i] = IF i <= Len(s) THEN s[i] ELSE new[i - Len(s)]
      BY <2>8, <3>1, ConcatProperties
    <3> QED BY <3>2 DEF s
  <2>11. DOMAIN q = 1..(Len(ks.t) + m) /\ DOMAIN ks.t = 1..Len(ks.t) /\ Len(ks.t) \in Nat
    BY <2>9, <2>10
  <2> HIDE DEF q
  <2>12. Longer(ks.t, q)
    BY <2>2, <2>10, <2>11 DEF Longer
  <2>13. ASSUME NEW i \in DOMAIN q \ DOMAIN ks.t
         PROVE  /\ next + (i - Len(ks.t)) - 1 \in Nat
                /\ q[i] = NewHdKey(next + (i - Len(ks.t)) - 1)
    <3>1. i \in 1..(Len(ks.t) + m) /\ ~(i <= Len(ks.t)) /\ i - Len(ks.t) \in 1..m
      BY <2>2, <2>11
    <3> QED BY <2>6, <2>8, <2>10, <3>1
  <2> HIDE DEF m, r
  <2>14. /\ r.encrypted = ks.encrypted /\ r.unlocked = ks.unlocked /\ r.seed = ks.seed
         /\ r.encSeed = ks.encSeed /\ r.o = ks.o /\ r.z = ks.z /\ r.t = q
    BY <2>3, <2>5 DEF KeysIn
  <2>15. Longer(ks.z, r.z) /\ Added(ks.z, r.z) = {}
    BY <2>9, <2>14, SameLonger
  <2>16. Extends(ks, r)
    BY <2>12, <2>14, <2>15 DEF Extends
  <2>17. ks.unlocked = TRUE
    BY <1>4, <2>5 DEF KeysIn
  <2>18. \A k \in Added(ks.z, r.z) \cup Added(ks.t, r.t) :
           KeySafe(k, ks.encrypted, ks.encSeed) /\ KeyWhole(k, ks.unlocked, ks.encSeed)
    <3>1. \A k \in Added(ks.t, r.t) : \E x \in Nat : k = NewHdKey(x)
      BY <2>13, <2>14 DEF Added
    <3> QED BY <2>15, <2>17, <3>1, FreshKeys
  <2>19. Safe(ks) => Safe(r)
    BY <2>16, <2>18, ExtendFine
  <2>20. Well(ks) => Well(r)
    BY <2>16, <2>18, ExtendFine
  <2>21. HdFrom(ks.t) => HdFrom(q) /\ HdNums(q) = 0..(next + m - 1)
    <3> SUFFICES ASSUME HdFrom(ks.t) PROVE HdFrom(q) /\ HdNums(q) = 0..(next + m - 1)
      OBVIOUS
    <3>1. Len(ks.t) <= Len(q) /\ \A i \in DOMAIN ks.t : q[i] = ks.t[i]
      BY <2>12 DEF Longer
    <3>2. ASSUME NEW i \in DOMAIN q \ DOMAIN ks.t
          PROVE  q[i].kind = "hd" /\ q[i].id = next + i - Len(ks.t) - 1
      <4>1. next + (i - Len(ks.t)) - 1 = next + i - Len(ks.t) - 1
        BY <2>1, <2>11
      <4> QED BY <2>5, <2>13, <4>1
    <3>3. HdFrom(q) /\ HdNums(q) = 0..(next + (Len(q) - Len(ks.t)) - 1)
      BY <2>9, <2>10, <3>1, <3>2, NextHd
    <3>4. Len(q) - Len(ks.t) = m
      BY <2>2, <2>10, <2>11
    <3> QED BY <3>3, <3>4
  <2>22. Hd(ks) => Hd(r)
    BY <2>14, <2>21 DEF Hd
  <2>23. ASSUME Hd(ks), n \in Ids(ks.t), NEW i \in 1..Gap
         PROVE  n + i \in Ids(r.t)
    <3>1. HdNums(q) = 0..(next + m - 1)
      BY <2>21, <2>23 DEF Hd
    <3>2. n + i \in 0..(next + m - 1)
      BY <2>1, KeyAssumption DEF m
    <3>3. HdNums(q) \subseteq Ids(q)
      BY DEF HdNums, Ids
    <3> QED BY <2>14, <3>1, <3>2, <3>3
  <2> QED BY <2>14, <2>19, <2>20, <2>22, <2>23 DEF Fine, r
<1> QED
  BY <1>3, <1>4

(* add_imported_tk and add_imported_vk, and add_imported_sk of a new address *)
LEMMA AppendFine ==
  ASSUME NEW S, NEW ks \in KeysIn(S), NEW k \in KeyIn(S), k.kind # "hd", NEW r,
         \/ r = [ks EXCEPT !.t = Append(@, k)]
         \/ r = [ks EXCEPT !.z = Append(@, k)]
  PROVE  /\ r.encrypted = ks.encrypted /\ r.unlocked = ks.unlocked
         /\ KeySafe(k, ks.encrypted, ks.encSeed) /\ Safe(ks) => Safe(r)
         /\ KeyWhole(k, ks.unlocked, ks.encSeed) /\ Well(ks) => Well(r)
         /\ k.id \notin Nat /\ Hd(ks) => Hd(r)
<1>1. ks.z \in Seq(KeyIn(S)) /\ ks.t \in Seq(KeyIn(S))
  BY DEF KeysIn
<1>2. ASSUME NEW s \in Seq(KeyIn(S))
      PROVE  /\ Longer(s, Append(s, k)) /\ Added(s, Append(s, k)) = {k}
             /\ Longer(s, s) /\ Added(s, s) = {}
             /\ k.id \notin Nat /\ HdFrom(s) => HdFrom(Append(s, k))
  <2> DEFINE q == Append(s, k)
  <2>1. /\ Longer(s, q) /\ q \in Seq(KeyIn(S)) /\ Added(s, q) = {k}
        /\ Len(q) = Len(s) + 1 /\ DOMAIN q \ DOMAIN s = {Len(s) + 1} /\ q[Len(s) + 1] = k
    BY AppendLonger
  <2> HIDE DEF q
  <2>2. Len(s) <= Len(q) /\ \A i \in DOMAIN s : q[i] = s[i]
    BY <2>1 DEF Longer
  <2>3. \A i \in DOMAIN q \ DOMAIN s : q[i] = k
    BY <2>1
  <2>4. k.id \notin Nat /\ HdFrom(s) => HdFrom(q)
    BY <2>1, <2>2, <2>3, OthersHd
  <2>5. Longer(s, s) /\ Added(s, s) = {}
    <3>1. Len(s) \in Nat
      OBVIOUS
    <3> QED BY <3>1, SameLonger
  <2> QED BY <2>1, <2>4, <2>5 DEF q
<1> DEFINE t == Append(ks.t, k)
           z == Append(ks.z, k)
<1>3. \/ r = [ks EXCEPT !.t = t]
      \/ r = [ks EXCEPT !.z = z]
  OBVIOUS
<1>4. /\ Longer(ks.t, t) /\ Added(ks.t, t) = {k} /\ Longer(ks.z, z) /\ Added(ks.z, z) = {k}
      /\ Longer(ks.t, ks.t) /\ Added(ks.t, ks.t) = {} /\ Longer(ks.z, ks.z) /\ Added(ks.z, ks.z) = {}
      /\ k.id \notin Nat /\ HdFrom(ks.t) => HdFrom(t)
      /\ k.id \notin Nat /\ HdFrom(ks.z) => HdFrom(z)
  BY <1>1, <1>2
<1> HIDE DEF t, z
<1>5. /\ r.encrypted = ks.encrypted /\ r.unlocked = ks.unlocked /\ r.seed = ks.seed
      /\ r.encSeed = ks.encSeed /\ r.o = ks.o
      /\ (r.t = t /\ r.z = ks.z) \/ (r.t = ks.t /\ r.z = z)
  BY <1>3 DEF KeysIn
<1>6. Extends(ks, r) /\ Added(ks.z, r.z) \cup Added(ks.t, r.t) = {k}
  BY <1>4, <1>5 DEF Extends
<1>7. k.id \notin Nat /\ Hd(ks) => Hd(r)
  BY <1>4, <1>5 DEF Hd
<1>8. KeySafe(k, ks.encrypted, ks.encSeed) /\ Safe(ks) => Safe(r)
  BY <1>6, ExtendFine
<1>9. KeyWhole(k, ks.unlocked, ks.encSeed) /\ Well(ks) => Well(r)
  BY <1>6, ExtendFine
<1> QED
  BY <1>5, <1>7, <1>8, <1>9

(* add_imported_sk of an address whose view key is there *)
Replaced(k) == [k EXCEPT !.key = TRUE, !.kind = "sk"]
ReplacedIn(s, z, x) ==
  DOMAIN z = DOMAIN s /\ \A i \in DOMAIN z : z[i] = s[i] \/ (s[i].id = x /\ z[i] = Replaced(s[i]))

LEMMA ReplaceFine ==
  ASSUME NEW S, NEW ks \in KeysIn(S), NEW x, NEW z, NEW r, ReplacedIn(ks.z, z, x),
         r = [ks EXCEPT !.z = z]
  PROVE  /\ r.encrypted = ks.encrypted /\ r.unlocked = ks.unlocked
         /\ Safe(ks) => Safe(r)
         /\ Safe(ks) /\ Well(ks) /\ ~ks.encrypted => Well(r)
         /\ x \notin Nat /\ Hd(ks) => Hd(r)
<1> DEFINE e == ks.encrypted  u == ks.unlocked  pw == ks.encSeed
<1>1. ks.z \in Seq(KeyIn(S)) /\ ks.t \in Seq(KeyIn(S)) /\ e \in BOOLEAN /\ u \in BOOLEAN
  BY DEF KeysIn
<1>2. /\ r.encrypted = e /\ r.unlocked = u /\ r.seed = ks.seed
      /\ r.encSeed = pw /\ r.o = ks.o /\ r.t = ks.t /\ r.z = z
  BY DEF KeysIn
<1>3. DOMAIN ks.z = 1..Len(ks.z) /\ Len(ks.z) \in Nat /\ \A i \in DOMAIN ks.z : ks.z[i] \in KeyIn(S)
  <2>1. ASSUME NEW s \in Seq(KeyIn(S))
        PROVE  DOMAIN s = 1..Len(s) /\ Len(s) \in Nat /\ \A i \in DOMAIN s : s[i] \in KeyIn(S)
    OBVIOUS
  <2> QED BY <1>1, <2>1
<1> DEFINE Better(k) ==
             /\ Replaced(k).id = k.id /\ Replaced(k).kind = "sk"
             /\ KeySafe(k, e, pw) => KeySafe(Replaced(k), e, pw)
             /\ KeySafe(k, FALSE, NoPw) /\ KeyWhole(k, TRUE, NoPw) => KeyWhole(Replaced(k), TRUE, NoPw)
<1>4. ASSUME NEW k \in KeyIn(S)
      PROVE  Better(k)
  BY <1>1 DEF KeyIn, KeySafe, KeyWhole, Replaced
<1>5. \A i \in DOMAIN ks.z : Better(ks.z[i])
  BY <1>3, <1>4
<1>6. /\ DOMAIN z = DOMAIN ks.z
      /\ \A i \in DOMAIN z : z[i] = ks.z[i] \/ (ks.z[i].id = x /\ z[i] = Replaced(ks.z[i]))
  BY DEF ReplacedIn
<1>7. AllSafe(ks.z, e, pw) => AllSafe(z, e, pw)
  <2> HIDE DEF e, u, pw
  <2> QED BY <1>5, <1>6 DEF AllSafe
<1>8. AllSafe(ks.z, FALSE, NoPw) /\ AllWhole(ks.z, TRUE, NoPw) => AllWhole(z, TRUE, NoPw)
  <2> HIDE DEF e, u, pw
  <2> QED BY <1>5, <1>6 DEF AllSafe, AllWhole
<1>9. Safe(ks) => Safe(r)
  BY <1>2, <1>7 DEF Safe, FirstHd
<1>10. Safe(ks) /\ Well(ks) /\ ~ks.encrypted => Well(r)
  <2> SUFFICES ASSUME Safe(ks), Well(ks), ~ks.encrypted PROVE Well(r)
    OBVIOUS
  <2>1. u = TRUE /\ e = FALSE /\ pw = NoPw /\ AllSafe(ks.z, FALSE, NoPw)
    BY <1>1 DEF Safe
  <2>2. AllWhole(z, TRUE, NoPw)
    BY <1>8, <2>1 DEF Well
  <2> QED BY <1>2, <2>1, <2>2 DEF Well
<1>11. x \notin Nat /\ Hd(ks) => Hd(r)
  <2> SUFFICES ASSUME x \notin Nat, HdFrom(ks.z) PROVE HdFrom(z)
    BY <1>2 DEF Hd
  <2>1. ASSUME NEW i \in DOMAIN ks.z, ks.z[i].kind = "hd"
        PROVE  ks.z[i].id \in Nat
    <3>1. ks.z[i].id \in HdNums(ks.z)
      BY <2>1 DEF HdNums
    <3>2. PICK n \in Nat : HdNums(ks.z) = 0..(n - 1)
      BY DEF HdFrom
    <3> QED BY <3>1, <3>2
  <2>2. ASSUME NEW i \in DOMAIN ks.z
        PROVE  z[i].id = ks.z[i].id /\ (z[i].kind = "hd" <=> ks.z[i].kind = "hd")
    BY <1>5, <1>6, <2>1
  <2>3. HdNums(z) = HdNums(ks.z)
    <3> DEFINE s == ks.z
    <3>1. DOMAIN z = DOMAIN s /\ \A i \in DOMAIN s : z[i].id = s[i].id /\ (z[i].kind = "hd" <=> s[i].kind = "hd")
      BY <1>6, <2>2
    <3> HIDE DEF s
    <3>2. HdNums(z) = HdNums(s)
      BY <3>1 DEF HdNums
    <3> QED BY <3>2 DEF s
  <2>4. ASSUME NEW i \in DOMAIN ks.z
        PROVE  {z[j].id : j \in {j \in 1..(i - 1) : z[j].kind = "hd"}}
                 = {ks.z[j].id : j \in {j \in 1..(i - 1) : ks.z[j].kind = "hd"}}
    <3>1. \A j \in 1..(i - 1) : j \in DOMAIN ks.z
      BY <1>3
    <3> QED BY <2>2, <3>1
  <2> QED BY <1>6, <2>2, <2>3, <2>4 DEF HdFrom, Restorable
<1> QED
  BY <1>2, <1>9, <1>10, <1>11

(* The imports, of which those of spending keys come after a check that the  *)
(* wallet is not encrypted *)
LEMMA ImportFine ==
  ASSUME NEW ks, IsKeys(ks), NEW x, NEW r,
         NEW kind \in {"tk", "sk", "vk"},
         r = CASE kind = "tk" -> AddImportedTk(ks, x)
               [] kind = "sk" -> AddImportedSk(ks, x)
               [] kind = "vk" -> AddImportedVk(ks, x)
  PROVE  /\ r.encrypted = ks.encrypted /\ r.unlocked = ks.unlocked
         /\ Safe(ks) => Safe(r)
         /\ Safe(ks) /\ Well(ks) /\ (kind = "vk" \/ ~ks.encrypted) => Well(r)
         /\ x \notin Nat /\ Hd(ks) => Hd(r)
<1>1. PICK S : ks \in KeysIn(S)
  BY DEF IsKeys
<1> DEFINE T == S \cup {x}
           k == NewImportedSk(x)
           v == NewImportedViewKey(x)
<1>2. /\ ks \in KeysIn(T) /\ k \in KeyIn(T) /\ k.id = x /\ v \in KeyIn(T) /\ v.id = x
  BY <1>1, KeysInLarger, NewKeyIn
<1> HIDE DEF T
<1>3. ks.encrypted \in BOOLEAN /\ ks.unlocked \in BOOLEAN
  BY <1>2 DEF KeysIn
<1>4. /\ \A e, pw : KeySafe(k, e, pw) /\ KeySafe(v, e, pw)
      /\ KeyWhole(k, TRUE, NoPw) /\ \A pw : KeyWhole(v, ks.unlocked, pw)
      /\ k.kind # "hd" /\ v.kind # "hd"
  BY <1>3, FreshKeys
<1>5. Safe(ks) /\ ~ks.encrypted => ks.unlocked = TRUE /\ ks.encSeed = NoPw
  BY <1>3 DEF Safe
<1> HIDE DEF k, v
<1>6. CASE kind = "tk"
  <2>1. r = [ks EXCEPT !.t = Append(@, k)]
    BY <1>6 DEF AddImportedTk, k
  <2>2. /\ r.encrypted = ks.encrypted /\ r.unlocked = ks.unlocked
        /\ KeySafe(k, ks.encrypted, ks.encSeed) /\ Safe(ks) => Safe(r)
        /\ KeyWhole(k, ks.unlocked, ks.encSeed) /\ Well(ks) => Well(r)
        /\ k.id \notin Nat /\ Hd(ks) => Hd(r)
    BY <1>2, <1>4, <2>1, AppendFine
  <2> QED BY <1>2, <1>4, <1>5, <1>6, <2>2
<1>7. CASE kind = "vk"
  <2>1. r = [ks EXCEPT !.z = Append(@, v)]
    BY <1>7 DEF AddImportedVk, v
  <2>2. /\ r.encrypted = ks.encrypted /\ r.unlocked = ks.unlocked
        /\ KeySafe(v, ks.encrypted, ks.encSeed) /\ Safe(ks) => Safe(r)
        /\ KeyWhole(v, ks.unlocked, ks.encSeed) /\ Well(ks) => Well(r)
        /\ v.id \notin Nat /\ Hd(ks) => Hd(r)
    BY <1>2, <1>4, <2>1, AppendFine
  <2> QED BY <1>2, <1>4, <1>7, <2>2
<1>8. CASE kind = "sk" /\ x \notin Ids(ks.z)
  <2>1. r = [ks EXCEPT !.z = Append(@, k)]
    BY <1>8 DEF AddImportedSk, k
  <2>2. /\ r.encrypted = ks.encrypted /\ r.unlocked = ks.unlocked
        /\ KeySafe(k, ks.encrypted, ks.encSeed) /\ Safe(ks) => Safe(r)
        /\ KeyWhole(k, ks.unlocked, ks.encSeed) /\ Well(ks) => Well(r)
        /\ k.id \notin Nat /\ Hd(ks) => Hd(r)
    BY <1>2, <1>4, <2>1, AppendFine
  <2> QED BY <1>2, <1>4, <1>5, <1>8, <2>2
<1>9. CASE kind = "sk" /\ x \in Ids(ks.z)
  <2> DEFINE z == [i \in DOMAIN ks.z |->
            IF ks.z[i].id = x /\ \A j \in 1..(i - 1) : ks.z[j].id # x
              THEN [ks.z[i] EXCEPT !.key = TRUE, !.kind = "sk"] ELSE ks.z[i]]
  <2>1. r = [ks EXCEPT !.z = z]
    BY <1>9 DEF AddImportedSk
  <2>2. ReplacedIn(ks.z, z, x)
    BY DEF Replaced, ReplacedIn
  <2> HIDE DEF z
  <2>3. /\ r.encrypted = ks.encrypted /\ r.unlocked = ks.unlocked
        /\ Safe(ks) => Safe(r)
        /\ Safe(ks) /\ Well(ks) /\ ~ks.encrypted => Well(r)
        /\ x \notin Nat /\ Hd(ks) => Hd(r)
    BY <1>2, <2>1, <2>2, ReplaceFine
  <2> QED BY <1>9, <2>3
<1> QED
  BY <1>6, <1>7, <1>8, <1>9

-----------------------------------------------------------------------------
(* New keys, keys that are read, and what is known of keys that changed *)

LEMMA NewFine ==
  ASSUME NEW z \in Nat, NEW o \in Nat
  PROVE  Good(NewKeys(z, o), FALSE) /\ Sealed(NewKeys(z, o))
<1>1. ASSUME NEW n \in Nat
      PROVE  /\ HdFrom(HdKeys(n)) /\ AllWhole(HdKeys(n), TRUE, NoPw)
             /\ AllSafe(HdKeys(n), FALSE, NoPw)
  <2> DEFINE s == HdKeys(n)
  <2>1. DOMAIN s = 1..n /\ \A i \in 1..n : s[i] = NewHdKey(i - 1)
    BY DEF HdKeys
  <2>2. \A i \in 1..n : s[i].id = i - 1 /\ s[i].kind = "hd"
    BY <2>1 DEF NewHdKey
  <2>3. AllWhole(s, TRUE, NoPw) /\ AllSafe(s, FALSE, NoPw)
    BY <2>1, FreshKeys DEF AllWhole, AllSafe
  <2> HIDE DEF s
  <2>4. HdNums(s) = {i - 1 : i \in 1..n}
    BY <2>1, <2>2 DEF HdNums
  <2>5. {i - 1 : i \in 1..n} = 0..(n - 1)
    <3>1. ASSUME NEW x \in 0..(n - 1)
          PROVE  x + 1 \in 1..n /\ x = (x + 1) - 1
      OBVIOUS
    <3> QED BY <3>1
  <2>6. ASSUME NEW i \in DOMAIN s
        PROVE  {s[j].id : j \in {j \in 1..(i - 1) : s[j].kind = "hd"}} = 0..(s[i].id - 1)
    <3>1. \A j \in 1..(i - 1) : j \in 1..n
      BY <2>1
    <3>2. {s[j].id : j \in {j \in 1..(i - 1) : s[j].kind = "hd"}} = {j - 1 : j \in 1..(i - 1)}
      BY <2>2, <3>1
    <3>3. \A x \in 0..((i - 1) - 1) : x + 1 \in 1..(i - 1) /\ x = (x + 1) - 1
      BY <2>1
    <3>4. {j - 1 : j \in 1..(i - 1)} = 0..((i - 1) - 1)
      BY <2>1, <3>3
    <3> QED BY <2>1, <2>2, <3>2, <3>4
  <2>7. HdFrom(s)
    BY <2>1, <2>2, <2>4, <2>5, <2>6 DEF HdFrom, Restorable
  <2> QED BY <2>3, <2>7 DEF s
<1> DEFINE ks == NewKeys(z, o)
<1>2. /\ ks.encrypted = FALSE /\ ks.unlocked = TRUE /\ ks.seed = TRUE /\ ks.encSeed = NoPw
      /\ ks.o = HdKeys(o) /\ ks.z = HdKeys(z) /\ ks.t = HdKeys(1)
  BY DEF NewKeys
<1> HIDE DEF ks
<1>3. 1 \in DOMAIN HdKeys(1) /\ HdKeys(1)[1].kind = "hd"
  BY DEF HdKeys, NewHdKey
<1>4. Safe(ks)
  BY <1>1, <1>2, <1>3 DEF Safe, FirstHd
<1>5. Well(ks)
  BY <1>1, <1>2 DEF Well
<1>6. Hd(ks)
  BY <1>1, <1>2 DEF Hd
<1> QED
  BY <1>2, <1>4, <1>5, <1>6 DEF Good, Sealed, ks

(* What was written is read as it was, and locked if it is encrypted. *)
LEMMA ReadFine ==
  ASSUME NEW ks, IsKeys(ks), NEW r \in BOOLEAN, Saved(ks, r)
  PROVE  Good(ReadWallet(ks), r)
<1> DEFINE b == Read(ks)
<1>1. PICK S : ks \in KeysIn(S)
  BY DEF IsKeys
<1>2. /\ b \in KeysIn(S) /\ b.o = ks.o /\ b.z = ks.z /\ b.t = ks.t /\ b.seed = ks.seed
      /\ b.encSeed = ks.encSeed /\ b.encrypted = ks.encrypted /\ b.unlocked = ~ks.encrypted
  BY <1>1 DEF Read, KeysIn
<1>3. ks.encrypted \in BOOLEAN /\ ks.unlocked \in BOOLEAN
  BY <1>1 DEF KeysIn
<1>4. ReadWallet(ks) = b \/ ReadWallet(ks) = AddAddress(b, "u")
  BY DEF ReadWallet
<1> HIDE DEF b
<1>5. IsKeys(b)
  BY <1>2 DEF IsKeys
<1>6. Safe(b)
  BY <1>2, <1>3 DEF Saved, Good, Safe, FirstHd
<1>7. r \/ Well(b)
  <2> SUFFICES ASSUME ~r PROVE Well(b)
    OBVIOUS
  <2>1. Safe(ks) /\ Well(ks) /\ Sealed(ks)
    BY DEF Saved, Good
  <2>2. b.unlocked = ks.unlocked
    BY <1>2, <1>3, <2>1 DEF Safe, Sealed
  <2> QED BY <1>2, <2>1, <2>2 DEF Well
<1>8. ForeignImports => Hd(b)
  BY <1>2 DEF Saved, Good, Hd
<1>9. Fine(b, AddAddress(b, "u"))
  BY <1>5, AddAddressFine
<1> QED
  BY <1>4, <1>6, <1>7, <1>8, <1>9 DEF Good, Fine

LEMMA FineGood ==
  ASSUME NEW ks, NEW ks2, Fine(ks, ks2), NEW r, Good(ks, r)
  PROVE  Good(ks2, r)
BY DEF Fine, Good

(* The user may be faster than a check, then less is known. *)
LEMMA RacedLess ==
  ASSUME NEW r \in BOOLEAN, NEW r2 \in BOOLEAN, r => r2, NEW ks
  PROVE  (Good(ks, r) => Good(ks, r2)) /\ (Saved(ks, r) => Saved(ks, r2))
BY DEF Good, Saved

LEMMA GapsLess ==
  ASSUME NEW ks, NEW ks2, Keeps(ks, ks2), NEW u, NEW u2 \in SUBSET u, Gaps(ks, u)
  PROVE  Gaps(ks2, u2)
BY DEF Gaps, GapAfter, Keeps

-----------------------------------------------------------------------------
(* Steps preserve the invariant. *)

(* What a thread that does t needs of a step of somebody else *)
Undisturbed(t) ==
  /\ t.step = "writeTxns" => used' \subseteq used
  /\ t.step = "writeKeys" => raced' \/ (Sealed(keys) => Sealed(keys'))
  /\ t.step = "push" => raced' \/ (keys'.encrypted => keys.encrypted)

(* A step of the program that goes on running *)
LEMMA StepGood ==
  ASSUME KeysInv, running, raced' \in BOOLEAN, raced => raced',
         Good(keys', raced'), Gaps(keys', used'),
         \/ file' = file
         \/ file'.whole => Saved(file'.keys, raced') /\ Gaps(file'.keys, file'.used),
         \A q \in Tasks : \/ task'[q] = task[q] /\ Undisturbed(task[q])
                          \/ StepOK(task'[q], keys', used', raced')
  PROVE  KeysInv'
<1>1. raced \in BOOLEAN /\ \A ks : Saved(ks, raced) => Saved(ks, raced')
  BY RacedLess DEF KeysInv
<1>2. file'.whole => Saved(file'.keys, raced') /\ Gaps(file'.keys, file'.used)
  BY <1>1 DEF KeysInv
<1>3. ASSUME NEW t, StepOK(t, keys, used, raced), Undisturbed(t)
      PROVE  StepOK(t, keys', used', raced')
  <2>1. t.step \in {"writeTxns", "bytes"} => Saved(t.buf.keys, raced')
    BY <1>1, <1>3 DEF StepOK
  <2>2. t.step = "writeTxns" => Gaps(t.buf.keys, used')
    BY <1>3 DEF StepOK, Undisturbed, Gaps, GapAfter
  <2>3. t.step = "writeKeys" => raced' \/ Sealed(keys')
    BY <1>3 DEF StepOK, Undisturbed
  <2>4. t.step = "push" => raced' \/ t.arg[1] = "vk" \/ ~keys'.encrypted
    BY <1>3 DEF StepOK, Undisturbed
  <2> QED BY <1>3, <2>1, <2>2, <2>3, <2>4 DEF StepOK
<1>4. \A q \in Tasks : StepOK(task'[q], keys', used', raced')
  <2> SUFFICES ASSUME NEW q \in Tasks PROVE StepOK(task'[q], keys', used', raced')
    OBVIOUS
  <2>1. StepOK(task[q], keys, used, raced)
    BY DEF KeysInv
  <2>2. CASE StepOK(task'[q], keys', used', raced')
    BY <2>2
  <2>3. CASE task'[q] = task[q] /\ Undisturbed(task[q])
    <3>1. StepOK(task[q], keys', used', raced')
      BY <1>3, <2>1, <2>3
    <3> QED BY <2>3, <3>1
  <2> QED BY <2>2, <2>3
<1> QED
  BY <1>2, <1>4 DEF KeysInv

(* A step of thread p, after which it does r *)
LEMMA OwnStep ==
  ASSUME Inv, NEW p \in Tasks, NEW r, task' = [task EXCEPT ![p] = r]
  PROVE  task'[p] = r /\ \A q \in Tasks : q # p => task'[q] = task[q]
BY DEF Inv

Harmless == {"idle", "derive", "clear", "sync", "batch", "relock1", "relock2", "relock3", "grab", "write"}

(* A step of p that leaves the keys alone *)
LEMMA MoveGood ==
  ASSUME Inv, KeysInv, running, NEW p \in Tasks, NEW r, task' = [task EXCEPT ![p] = r],
         UNCHANGED <<keys, raced>>, used' \subseteq used,
         r.step \in Harmless \/ StepOK(r, keys, used', raced),
         \/ file' = file
         \/ file'.whole => Saved(file'.keys, raced) /\ Gaps(file'.keys, file'.used)
  PROVE  KeysInv'
<1>1. StepOK(r, keys', used', raced')
  BY DEF StepOK, Harmless
<1>2. \A q \in Tasks : Undisturbed(task[q])
  BY DEF Undisturbed
<1>3. Good(keys', raced') /\ raced' \in BOOLEAN
  BY DEF KeysInv
<1>4. Gaps(keys', used')
  BY DEF KeysInv, Gaps, GapAfter
<1>5. \A q \in Tasks : \/ task'[q] = task[q] /\ Undisturbed(task[q])
                       \/ StepOK(task'[q], keys', used', raced')
  BY <1>1, <1>2, OwnStep
<1> QED
  BY <1>3, <1>4, <1>5, StepGood

(* Most steps: on to one that needs nothing *)
LEMMA GotoGood ==
  ASSUME Inv, KeysInv, running, NEW p \in Tasks, NEW s \in Harmless,
         Goto(p, s) \/ End(p),
         UNCHANGED <<keys, raced, file>>, used' \subseteq used
  PROVE  KeysInv'
<1>1. PICK X : task[p] \in TaskIn(X)
  BY DEF Inv
<1> DEFINE a == [task[p] EXCEPT !.step = s]
<1>2. a.step = s /\ Idle.step = "idle"
  BY <1>1 DEF TaskIn, Idle
<1>3. CASE Goto(p, s)
  <2>1. task' = [task EXCEPT ![p] = a]
    BY <1>3 DEF Goto
  <2> HIDE DEF a
  <2> QED BY <1>2, <2>1, MoveGood
<1>4. CASE End(p)
  <2>1. task' = [task EXCEPT ![p] = Idle] /\ Idle.step \in Harmless
    BY <1>2, <1>4 DEF End, Harmless
  <2> QED BY <2>1, MoveGood
<1> QED
  BY <1>3, <1>4

LEMMA CommandGood ==
  ASSUME Inv, KeysInv, SaveCommand \/ NewAddressCommand
                \/ \E p \in Background : SyncCommand(p) \/ RescanCommand(p) \/ ImportCommand(p)
  PROVE  KeysInv'
<1>1. User \in Tasks /\ Background \subseteq Tasks
  BY DEF Tasks
<1>2. ASSUME NEW p \in Tasks, running, NEW cmd, NEW step, NEW arg,
             StartCommand(p, Begin(cmd, step, arg)),
             step \in Harmless \/ (step = "mayImport" /\ arg[2] \in Imports)
      PROVE  KeysInv'
  <2> DEFINE r == Begin(cmd, step, arg)
  <2>1. r.step = step /\ r.arg = arg
    BY DEF Begin, Idle
  <2>2. /\ task' = [task EXCEPT ![p] = r]
        /\ UNCHANGED <<keys, used, file, raced>>
    BY <1>2 DEF StartCommand
  <2> HIDE DEF r
  <2>3. r.step \in Harmless \/ StepOK(r, keys, used', raced)
    BY <1>2, <2>1 DEF StepOK
  <2> QED BY <1>2, <2>2, <2>3, MoveGood
<1>3. CASE SaveCommand
  BY <1>1, <1>2, <1>3 DEF SaveCommand, CallerFree, Harmless
<1>4. CASE NewAddressCommand
  BY <1>1, <1>2, <1>4 DEF NewAddressCommand, CallerFree, Harmless
<1>5. ASSUME NEW p \in Background, SyncCommand(p) \/ RescanCommand(p)
      PROVE  KeysInv'
  BY <1>1, <1>2, <1>5 DEF SyncCommand, RescanCommand, CallerFree, Harmless
<1>6. ASSUME NEW p \in Background, ImportCommand(p)
      PROVE  KeysInv'
  <2>1. PICK x \in Imports, kind \in {"tk", "sk", "vk"} :
           StartCommand(p, Begin("import", "mayImport", <<kind, x>>))
    BY <1>6 DEF ImportCommand
  <2>2. running
    BY <1>6 DEF ImportCommand, CallerFree
  <2>3. <<kind, x>>[2] \in Imports
    OBVIOUS
  <2> QED BY <1>1, <1>2, <2>1, <2>2, <2>3
<1> QED
  BY <1>3, <1>4, <1>5, <1>6

(* encrypt, unlock, lock and decrypt, while others look at the keys *)
LEMMA KeyCommandGood ==
  ASSUME Inv, KeysInv, EncryptCommand \/ UnlockCommand \/ LockCommand \/ DecryptCommand
  PROVE  KeysInv'
<1>1. /\ running /\ IsKeys(keys) /\ UNCHANGED <<used, task, file>>
      /\ Good(keys, raced) /\ Gaps(keys, used) /\ raced \in BOOLEAN
  BY DEF EncryptCommand, UnlockCommand, LockCommand, DecryptCommand, KeyCommand, CallerFree, Inv, KeysInv
<1>2. PICK S : keys \in KeysIn(S)
  BY <1>1 DEF IsKeys
<1>3. ASSUME Fine(keys, keys'), Keeps(keys, keys'), raced' \in BOOLEAN, raced => raced',
             \A q \in Tasks : Undisturbed(task[q])
      PROVE  KeysInv'
  <2>1. Good(keys', raced')
    BY <1>1, <1>3, FineGood, RacedLess
  <2>2. Gaps(keys', used')
    BY <1>1, <1>3, GapsLess
  <2> QED BY <1>1, <1>3, <2>1, <2>2, StepGood
<1>4. CASE EncryptCommand
  <2>1. PICK p \in Passwords : keys' = Encrypt(keys, p)
    BY <1>4 DEF EncryptCommand, KeyCommand
  <2>2. raced' = (raced \/ Between({"push"}))
    BY <1>4 DEF EncryptCommand
  <2>3. Fine(keys, keys') /\ Keeps(keys, keys') /\ (Safe(keys) /\ Sealed(keys) => Sealed(keys'))
    BY <1>2, <2>1, EncryptFine, EncryptRegrows DEF Regrows
  <2>4. ASSUME NEW q \in Tasks PROVE Undisturbed(task[q])
    <3>1. task[q].step = "push" => raced'
      BY <2>2 DEF Between
    <3> QED BY <1>1, <2>3, <3>1 DEF Undisturbed, Good
  <2> QED BY <1>1, <1>3, <2>2, <2>3, <2>4 DEF Between
<1>5. CASE UnlockCommand
  <2>1. PICK p \in Passwords : keys' = Unlock(keys, p)
    BY <1>5 DEF UnlockCommand, KeyCommand
  <2>2. raced' = (raced \/ Between({"writeKeys"}))
    BY <1>5 DEF UnlockCommand
  <2>3. Fine(keys, keys') /\ Keeps(keys, keys') /\ keys'.encrypted = keys.encrypted
    BY <1>2, <2>1, UnlockFine, UnlockRegrows DEF Regrows
  <2>4. ASSUME NEW q \in Tasks PROVE Undisturbed(task[q])
    <3>1. task[q].step = "writeKeys" => raced'
      BY <2>2 DEF Between
    <3> QED BY <1>1, <2>3, <3>1 DEF Undisturbed
  <2> QED BY <1>1, <1>3, <2>2, <2>3, <2>4 DEF Between
<1>6. CASE LockCommand
  <2>1. keys' = Lock(keys) /\ raced' = raced
    BY <1>6 DEF LockCommand, KeyCommand
  <2>2. /\ Fine(keys, keys') /\ Keeps(keys, keys') /\ keys'.encrypted = keys.encrypted
        /\ keys'.unlocked => keys.unlocked
    BY <1>2, <2>1, LockFine, LockRegrows DEF Regrows
  <2>3. \A q \in Tasks : Undisturbed(task[q])
    BY <1>1, <2>2 DEF Undisturbed, Sealed
  <2> QED BY <1>1, <1>3, <2>1, <2>2, <2>3
<1>7. CASE DecryptCommand
  <2>1. PICK p \in Passwords : keys' = RemoveEncryption(keys, p)
    BY <1>7 DEF DecryptCommand, KeyCommand
  <2>2. raced' = raced
    BY <1>7 DEF DecryptCommand
  <2>3. /\ Fine(keys, keys') /\ Keeps(keys, keys') /\ (keys'.encrypted => keys.encrypted)
        /\ Safe(keys) /\ Well(keys) => Sealed(keys') \/ keys' = keys
    BY <1>2, <2>1, RemoveEncryptionFine, RemoveEncryptionRegrows DEF Regrows
  <2>4. \A q \in Tasks : Undisturbed(task[q])
    BY <1>1, <2>2, <2>3 DEF Undisturbed, Good
  <2> QED BY <1>1, <1>3, <2>2, <2>3, <2>4
<1> QED
  BY <1>4, <1>5, <1>6, <1>7

(* Steps that leave the keys alone, and copy nothing *)
LEMMA PlainGood ==
  ASSUME Inv, KeysInv, NEW p \in Tasks,
         \/ ClearState(p) \/ LockSync(p) \/ EndBatch(p) \/ FailBatch(p)
         \/ SeeEncrypted(p) \/ SeeUnlocked(p)
  PROVE  KeysInv'
<1>1. running /\ UNCHANGED <<keys, raced, file>> /\ used' \subseteq used
  BY DEF ClearState, LockSync, EndBatch, FailBatch, SeeEncrypted, SeeUnlocked, At
<1>2. PICK X : task[p] \in TaskIn(X)
  BY <1>1, TaskKnown
<1>3. CASE ClearState(p) \/ FailBatch(p) \/ SeeEncrypted(p) \/ SeeUnlocked(p)
  <2>1. \E s \in Harmless : Goto(p, s) \/ End(p)
    BY <1>3 DEF ClearState, FailBatch, Fails, SeeEncrypted, SeeUnlocked, Harmless
  <2> QED BY <1>1, <2>1, GotoGood
<1>4. CASE LockSync(p)
  <2>1. PICK n \in 1..MaxBatches :
          task' = [task EXCEPT ![p].step = "batch", ![p].left = n, ![p].grab = FALSE]
    BY <1>4 DEF LockSync
  <2> DEFINE r == [[[task[p] EXCEPT !.step = "batch"] EXCEPT !.left = n] EXCEPT !.grab = FALSE]
  <2>2. task' = [task EXCEPT ![p] = r] /\ r.step \in Harmless
    BY <1>2, <2>1 DEF TaskIn, Harmless, Inv
  <2> HIDE DEF r
  <2> QED BY <1>1, <2>2, MoveGood
<1>5. CASE EndBatch(p)
  <2> DEFINE r == [task[p] EXCEPT !.step = "relock1", !.left = @ - 1]
  <2>1. task' = [task EXCEPT ![p] = r] /\ r.step \in Harmless
    BY <1>2, <1>5 DEF EndBatch, TaskIn, Harmless
  <2> HIDE DEF r
  <2> QED BY <1>1, <2>1, MoveGood
<1> QED
  BY <1>3, <1>4, <1>5

(* A step of p that changes keys: nobody needs more than that encrypted and  *)
(* locked keys stay so.                                                      *)
LEMMA ChangeGood ==
  ASSUME Inv, KeysInv, running, NEW p \in Tasks, NEW r, task' = [task EXCEPT ![p] = r],
         r.step \in Harmless, Good(keys', raced), Keeps(keys, keys'),
         keys'.encrypted = keys.encrypted, keys'.unlocked => keys.unlocked,
         UNCHANGED <<used, raced, file>>
  PROVE  KeysInv'
<1>1. StepOK(r, keys', used', raced')
  BY DEF StepOK, Harmless
<1>2. \A q \in Tasks : Undisturbed(task[q])
  BY DEF Undisturbed, Sealed
<1>3. \A q \in Tasks : \/ task'[q] = task[q] /\ Undisturbed(task[q])
                       \/ StepOK(task'[q], keys', used', raced')
  BY <1>1, <1>2, OwnStep
<1>4. Gaps(keys', used')
  BY GapsLess DEF KeysInv
<1>5. raced' \in BOOLEAN /\ Good(keys', raced')
  BY DEF KeysInv
<1> QED
  BY <1>3, <1>4, <1>5, StepGood

LEMMA DeriveGood == ASSUME Inv, KeysInv, NEW p \in Tasks, Derive(p) PROVE KeysInv'
<1> DEFINE t == task[p]
           pool == t.arg[1]
           more == Pool(AddAddress(keys, pool), pool)
           a == <<pool, more[Len(more)].id>>
           r == [t EXCEPT !.step = "relock1", !.arg = a]
<1>1. /\ running /\ t.step = "derive" /\ UNCHANGED <<used, file, raced>>
      /\ Good(keys, raced)
  BY DEF Derive, At, KeysInv
<1>2. (\E X : t \in TaskIn(X)) /\ TaskOK(t, p, keys, promised, syncLock) /\ IsKeys(keys)
  BY <1>1, TaskKnown
<1>3. CASE ~keys.unlocked
  <2>1. End(p) /\ UNCHANGED keys
    BY <1>3 DEF Derive
  <2> QED BY <1>1, <2>1, GotoGood DEF Harmless
<1>4. CASE keys.unlocked
  <2>1. keys' = AddAddress(keys, pool) /\ task' = [task EXCEPT ![p] = r]
    BY <1>4 DEF Derive
  <2>2. pool \in {"u", "z", "t"}
    BY <1>1, <1>2 DEF TaskOK, Pools
  <2> HIDE DEF a, t
  <2>3. r.step \in Harmless
    BY <1>2 DEF TaskIn, Harmless
  <2> HIDE DEF r, pool
  <2>4. /\ Fine(keys, keys') /\ Keeps(keys, keys')
        /\ keys'.encrypted = keys.encrypted /\ keys'.unlocked = keys.unlocked
    BY <1>2, <2>1, <2>2, AddAddressFine, AddAddressGrows DEF Grows
  <2>5. Good(keys', raced)
    BY <1>1, <2>4, FineGood
  <2> QED BY <1>1, <2>1, <2>3, <2>4, <2>5, ChangeGood
<1> QED
  BY <1>3, <1>4

LEMMA MayImportGood == ASSUME Inv, KeysInv, NEW p \in Tasks, MayImport(p) PROVE KeysInv'
<1> DEFINE t == task[p]
           r == [t EXCEPT !.step = "push"]
<1>1. /\ running /\ t.step = "mayImport" /\ UNCHANGED <<keys, used, file, raced>>
      /\ StepOK(t, keys, used, raced)
  BY DEF MayImport, At, KeysInv
<1>2. PICK X : t \in TaskIn(X)
  BY <1>1, TaskKnown
<1>3. CASE End(p)
  BY <1>1, <1>3, GotoGood DEF Harmless
<1>4. CASE ~End(p)
  <2>1. Goto(p, "push") /\ (t.arg[1] = "vk" \/ ~keys.encrypted)
    BY <1>4 DEF MayImport
  <2>2. task' = [task EXCEPT ![p] = r]
    BY <2>1 DEF Goto
  <2> HIDE DEF t
  <2>3. r.step = "push" /\ r.arg = t.arg
    BY <1>2, StepTo
  <2> HIDE DEF r
  <2>4. StepOK(r, keys, used', raced)
    BY <1>1, <2>1, <2>3 DEF StepOK
  <2> QED BY <1>1, <2>2, <2>4, MoveGood
<1> QED
  BY <1>3, <1>4

LEMMA PushKeyGood == ASSUME Inv, KeysInv, NEW p \in Tasks, PushKey(p) PROVE KeysInv'
<1> DEFINE t == task[p]
           kind == t.arg[1]
           x == t.arg[2]
           a == <<IF kind = "tk" THEN "t" ELSE "z", x>>
           r == [t EXCEPT !.step = "relock1", !.arg = a]
<1>1. /\ running /\ t.step = "push" /\ UNCHANGED <<used, file, raced>>
      /\ Good(keys, raced) /\ StepOK(t, keys, used, raced) /\ raced \in BOOLEAN
  BY DEF PushKey, At, KeysInv
<1>2. (\E X : t \in TaskIn(X)) /\ TaskOK(t, p, keys, promised, syncLock) /\ IsKeys(keys)
  BY <1>1, TaskKnown
<1>3. /\ keys' = CASE kind = "tk" -> AddImportedTk(keys, x)
                   [] kind = "sk" -> AddImportedSk(keys, x)
                   [] kind = "vk" -> AddImportedVk(keys, x)
      /\ task' = [task EXCEPT ![p] = r]
  BY DEF PushKey
<1>4. kind \in {"tk", "sk", "vk"}
  BY <1>1, <1>2 DEF TaskOK
<1>5. x \in Imports /\ (raced \/ kind = "vk" \/ ~keys.encrypted)
  BY <1>1 DEF StepOK
<1> HIDE DEF a, t
<1>6. r.step \in Harmless
  BY <1>2 DEF TaskIn, Harmless
<1> HIDE DEF r, kind, x
<1>7. /\ keys'.encrypted = keys.encrypted /\ keys'.unlocked = keys.unlocked
      /\ Safe(keys) => Safe(keys')
      /\ Safe(keys) /\ Well(keys) /\ (kind = "vk" \/ ~keys.encrypted) => Well(keys')
      /\ x \notin Nat /\ Hd(keys) => Hd(keys')
  BY <1>2, <1>3, <1>4, ImportFine
<1>8. Good(keys', raced)
  BY <1>1, <1>5, <1>7 DEF Good, ForeignImports
<1>9. Keeps(keys, keys')
  BY <1>2, <1>3, <1>4, ImportGrows DEF Grows
<1> QED
  BY <1>1, <1>3, <1>6, <1>7, <1>8, <1>9, ChangeGood

LEMMA LockAgainGood == ASSUME Inv, KeysInv, NEW p \in Tasks, LockAgain(p) PROVE KeysInv'
<1>1. /\ running /\ UNCHANGED <<used, file, raced>> /\ keys' = Lock(keys)
      /\ Good(keys, raced)
      /\ End(p) \/ Goto(p, "grab")
  BY DEF LockAgain, At, Fails, KeysInv
<1>2. PICK S : keys \in KeysIn(S)
  BY <1>1, TaskKnown DEF IsKeys
<1>3. /\ Fine(keys, keys') /\ keys'.encrypted = keys.encrypted /\ (keys'.unlocked => keys.unlocked)
      /\ Keeps(keys, keys')
  BY <1>1, <1>2, LockFine, LockRegrows DEF Regrows
<1>4. Good(keys', raced)
  BY <1>1, <1>3, FineGood
<1>5. ASSUME NEW r, task' = [task EXCEPT ![p] = r], r.step \in Harmless
      PROVE  KeysInv'
  BY <1>1, <1>3, <1>4, <1>5, ChangeGood
<1>6. CASE End(p)
  BY <1>5, <1>6 DEF End, Idle, Harmless
<1>7. CASE Goto(p, "grab")
  <2> DEFINE r == [task[p] EXCEPT !.step = "grab"]
  <2>1. PICK X : task[p] \in TaskIn(X)
    BY <1>1, TaskKnown
  <2>2. task' = [task EXCEPT ![p] = r] /\ r.step \in Harmless
    BY <1>7, <2>1 DEF Goto, TaskIn, Harmless
  <2> HIDE DEF r
  <2> QED BY <1>5, <2>2
<1> QED
  BY <1>1, <1>6, <1>7

(* A wallet is written only when it was seen to be locked, or not encrypted. *)
LEMMA SeenLockedGood ==
  ASSUME Inv, KeysInv, NEW p \in Tasks, GrabLock(p) \/ ReadUnlocked(p)
  PROVE  KeysInv'
<1> DEFINE r == [task[p] EXCEPT !.step = "writeKeys"]
<1>1. running /\ UNCHANGED <<keys, used, file, raced>>
  BY DEF GrabLock, ReadUnlocked, At
<1>2. Goto(p, "write") \/ End(p) \/ (Goto(p, "writeKeys") /\ Sealed(keys))
  BY DEF GrabLock, ReadUnlocked, Fails, Sealed
<1>3. CASE Goto(p, "write") \/ End(p)
  BY <1>1, <1>3, GotoGood DEF Harmless
<1>4. CASE Goto(p, "writeKeys") /\ Sealed(keys)
  <2>1. PICK X : task[p] \in TaskIn(X)
    BY <1>1, TaskKnown
  <2>2. task' = [task EXCEPT ![p] = r] /\ r.step = "writeKeys"
    BY <1>4, <2>1 DEF Goto, TaskIn
  <2> HIDE DEF r
  <2>3. StepOK(r, keys, used', raced)
    BY <1>4, <2>2 DEF StepOK
  <2> QED BY <1>1, <2>2, <2>3, MoveGood
<1> QED
  BY <1>2, <1>3, <1>4

(* The keys are copied as they were seen; those transactions are copied that *)
(* the wallet knows by then, and nobody has added to them.                   *)
LEMMA CopyGood ==
  ASSUME Inv, KeysInv, NEW p \in Tasks, WriteKeys(p) \/ WriteTxns(p)
  PROVE  KeysInv'
<1> DEFINE t == task[p]
           k == keys
           u == used
<1>1. running /\ UNCHANGED <<keys, used, raced>> /\ StepOK(t, keys, used, raced)
  BY DEF WriteKeys, WriteTxns, At, KeysInv
<1>2. PICK X : t \in TaskIn(X)
  BY <1>1, TaskKnown
<1>3. CASE WriteKeys(p)
  <2> DEFINE r == [t EXCEPT !.step = "writeTxns", !.buf.keys = k]
  <2>1. t.step = "writeKeys" /\ task' = [task EXCEPT ![p] = r] /\ file' = file
    BY <1>3 DEF WriteKeys, At
  <2> HIDE DEF t, k
  <2>2. r.step = "writeTxns" /\ r.buf.keys = k
    BY <1>2 DEF TaskIn
  <2> HIDE DEF r
  <2>3. Good(keys, raced) /\ Gaps(keys, used) /\ (raced \/ Sealed(keys))
    BY <1>1, <2>1 DEF KeysInv, StepOK
  <2>4. StepOK(r, keys, used', raced)
    BY <1>1, <2>2, <2>3 DEF StepOK, Saved, k
  <2> QED BY <1>1, <2>1, <2>4, MoveGood
<1>4. CASE WriteTxns(p)
  <2> DEFINE r == [t EXCEPT !.step = "bytes", !.buf.used = u]
  <2>1. t.step = "writeTxns" /\ task' = [task EXCEPT ![p] = r] /\ ~file'.whole
    BY <1>4 DEF WriteTxns, At
  <2> HIDE DEF t, u
  <2>2. r.step = "bytes" /\ r.buf.keys = t.buf.keys /\ r.buf.used = u
    BY <1>2 DEF TaskIn
  <2> HIDE DEF r
  <2>3. StepOK(r, keys, used', raced)
    BY <1>1, <2>1, <2>2 DEF StepOK, u
  <2> QED BY <1>1, <2>1, <2>3, MoveGood
<1> QED
  BY <1>3, <1>4

LEMMA WriteFileGood == ASSUME Inv, KeysInv, NEW p \in Tasks, WriteFile(p) PROVE KeysInv'
<1> DEFINE t == task[p]
           e == Empty
           b == Begin("rescan", "clear", <<>>)
<1>1. /\ running /\ t.step = "bytes" /\ AfterSave(p) /\ StepOK(t, keys, used, raced)
      /\ file' = [whole |-> TRUE, keys |-> t.buf.keys, used |-> t.buf.used]
      /\ UNCHANGED <<keys, used, raced>>
  BY DEF WriteFile, At, KeysInv
<1>2. PICK X : t \in TaskIn(X)
  BY <1>1, TaskKnown
<1>3. file'.whole => Saved(file'.keys, raced) /\ Gaps(file'.keys, file'.used)
  BY <1>1 DEF StepOK
<1>4. ASSUME NEW r, r.step \in Harmless, task' = [task EXCEPT ![p] = r]
      PROVE  KeysInv'
  BY <1>1, <1>3, <1>4, MoveGood
<1>5. \/ End(p) \/ task' = [task EXCEPT ![p] = b]
      \/ task' = [task EXCEPT ![p] = [[t EXCEPT !.buf = e] EXCEPT !.step = "batch"]]
      \/ task' = [task EXCEPT ![p] = [[t EXCEPT !.buf = e] EXCEPT !.step = "relock1", !.grab = TRUE]]
  BY <1>1 DEF AfterSave
<1>6. b.step \in Harmless /\ Idle.step \in Harmless
  BY DEF Begin, Idle, Harmless
<1> HIDE DEF b, e, t
<1>7. CASE End(p) \/ task' = [task EXCEPT ![p] = b]
  BY <1>4, <1>6, <1>7 DEF End
<1>8. CASE task' = [task EXCEPT ![p] = [[t EXCEPT !.buf = e] EXCEPT !.step = "batch"]]
  <2> DEFINE r == [[t EXCEPT !.buf = e] EXCEPT !.step = "batch"]
  <2>1. r.step \in Harmless
    BY <1>2 DEF TaskIn, Harmless
  <2> HIDE DEF r
  <2> QED BY <1>4, <1>8, <2>1 DEF r
<1>9. CASE task' = [task EXCEPT ![p] = [[t EXCEPT !.buf = e] EXCEPT !.step = "relock1", !.grab = TRUE]]
  <2> DEFINE r == [[t EXCEPT !.buf = e] EXCEPT !.step = "relock1", !.grab = TRUE]
  <2>1. r.step \in Harmless
    BY <1>2 DEF TaskIn, Harmless
  <2> HIDE DEF r
  <2> QED BY <1>4, <1>9, <2>1 DEF r
<1> QED
  BY <1>5, <1>7, <1>8, <1>9

(* A sync that finds a used address holds sync_lock, so no save is between   *)
(* the copy of the keys and that of the transactions.                        *)
LEMMA FindAddressGood == ASSUME Inv, KeysInv, NEW p \in Tasks, FindAddress(p) PROVE KeysInv'
<1>1. /\ running /\ keys.unlocked /\ UNCHANGED <<task, file, raced>> /\ IsKeys(keys)
      /\ task[p].step = "batch" /\ Good(keys, raced) /\ Gaps(keys, used) /\ raced \in BOOLEAN
  BY DEF FindAddress, At, Inv, KeysInv
<1>2. PICK n \in Nat : /\ n \in Ids(keys.t) /\ keys' = EnsureHdTaddresses(keys, n)
                       /\ used' = used \cup {n}
  BY ClientAssumption DEF FindAddress
<1>3. /\ Fine(keys, keys') /\ Keeps(keys, keys')
      /\ keys'.encrypted = keys.encrypted /\ keys'.unlocked = keys.unlocked
      /\ Hd(keys) => \A i \in 1..Gap : n + i \in Ids(keys'.t)
  BY <1>1, <1>2, EnsureFine, EnsureGrows DEF Grows
<1>4. Good(keys', raced')
  BY <1>1, <1>3, FineGood
<1>5. Gaps(keys', used')
  <2> SUFFICES ASSUME ForeignImports, NEW k \in used', NEW i \in 1..Gap
               PROVE  k + i \in Ids(keys'.t)
    BY DEF Gaps, GapAfter
  <2>1. CASE k \in used
    BY <1>1, <1>3, <2>1 DEF Gaps, GapAfter, Keeps
  <2>2. CASE k = n
    BY <1>1, <1>3, <2>2 DEF Good
  <2> QED BY <1>2, <2>1, <2>2
<1>6. ASSUME NEW q \in Tasks
      PROVE  Undisturbed(task[q])
  <2>1. task[q].step = "writeTxns" => syncLock = q
    BY <1>1, TaskKnown DEF TaskOK, Writing
  <2>2. syncLock = p
    BY <1>1, TaskKnown DEF TaskOK
  <2>3. task[q].step # "writeTxns"
    BY <1>1, <2>1, <2>2
  <2> QED BY <1>1, <1>3, <2>3 DEF Undisturbed, Sealed
<1> QED
  BY <1>1, <1>4, <1>5, <1>6, StepGood

LEMMA StopGood == ASSUME Inv, KeysInv, Stop PROVE KeysInv'
<1>1. running' = FALSE /\ task' = [p \in Tasks |-> Idle] /\ UNCHANGED <<file, raced>>
  BY DEF Stop
<1>2. \A p \in Tasks : StepOK(task'[p], keys', used', raced')
  BY <1>1 DEF StepOK, Idle
<1> QED
  BY <1>1, <1>2 DEF KeysInv

LEMMA LaunchGood == ASSUME Inv, KeysInv, Launch PROVE KeysInv'
<1>1. /\ ~running /\ file.whole /\ keys' = ReadWallet(file.keys) /\ used' = file.used
      /\ UNCHANGED <<task, file, raced>> /\ IsKeys(file.keys) /\ raced \in BOOLEAN
      /\ Saved(file.keys, raced) /\ Gaps(file.keys, file.used)
  BY DEF Launch, Inv, KeysInv
<1>2. Good(keys', raced')
  BY <1>1, ReadFine
<1>3. Gaps(keys', used')
  BY <1>1, ReadGrows, GapsLess DEF Grows
<1>4. \A p \in Tasks : StepOK(task'[p], keys', used', raced')
  <2>1. \A p \in Tasks : task'[p] = Idle
    BY <1>1 DEF Inv
  <2> QED BY <2>1 DEF StepOK, Idle
<1> QED
  BY <1>1, <1>2, <1>3, <1>4 DEF KeysInv

-----------------------------------------------------------------------------
(* The theorems *)

LEMMA InitGood == Init => KeysInv
<1> SUFFICES ASSUME Init PROVE KeysInv
  OBVIOUS
<1>1. /\ raced = FALSE /\ used = {} /\ keys = NewKeys(NewZ, NewO) /\ file.keys = keys /\ file.used = {}
      /\ \A p \in Tasks : task[p] = Idle
  BY DEF Init
<1>2. Good(keys, raced) /\ Saved(file.keys, raced)
  BY <1>1, ClientAssumption, NewFine DEF Saved
<1>3. Gaps(keys, used) /\ Gaps(file.keys, file.used)
  BY <1>1 DEF Gaps, GapAfter
<1>4. \A p \in Tasks : StepOK(task[p], keys, used, raced)
  BY <1>1 DEF StepOK, Idle
<1> QED
  BY <1>1, <1>2, <1>3, <1>4 DEF KeysInv

LEMMA NextGood == Inv /\ KeysInv /\ [Next]_vars => KeysInv'
<1> SUFFICES ASSUME Inv, KeysInv, [Next]_vars PROVE KeysInv'
  OBVIOUS
<1>1. CASE EncryptCommand \/ UnlockCommand \/ LockCommand \/ DecryptCommand
  BY <1>1, KeyCommandGood
<1>2. CASE SaveCommand \/ NewAddressCommand
             \/ \E p \in Background : SyncCommand(p) \/ RescanCommand(p) \/ ImportCommand(p)
  BY <1>2, CommandGood
<1>3. ASSUME NEW p \in Tasks, Step(p)
      PROVE  KeysInv'
  BY <1>3, DeriveGood, MayImportGood, PushKeyGood, PlainGood, LockAgainGood, SeenLockedGood,
     CopyGood, WriteFileGood DEF Step
<1>4. ASSUME NEW p \in Tasks, FindAddress(p)
      PROVE  KeysInv'
  BY <1>4, FindAddressGood
<1>5. CASE Stop \/ Launch
  BY <1>5, StopGood, LaunchGood
<1>6. CASE UNCHANGED vars
  BY <1>6 DEF vars, KeysInv
<1> QED
  BY <1>1, <1>2, <1>3, <1>4, <1>5, <1>6 DEF Next

LEMMA KeysInvCorrect == Spec => []KeysInv
BY InvCorrect, InitGood, NextGood, PTL DEF Spec

(* No order of encrypt, lock, unlock, decrypt, import, save, stop and start  *)
(* loses the seed or an imported key, also when the user is faster than a    *)
(* check: each is there, or encrypted with the wallet's password.            *)
THEOREM NothingForgottenCorrect == Spec => []NothingForgotten
<1>1. ASSUME NEW ks, Safe(ks) PROVE Recoverable(ks)
  <2>1. ks.seed \/ ks.encSeed # NoPw
    BY <1>1 DEF Safe
  <2>2. \A list \in {ks.z, ks.t} : AllSafe(list, ks.encrypted, ks.encSeed)
    BY <1>1 DEF Safe
  <2> QED BY <2>1, <2>2 DEF Recoverable, AllSafe, KeySafe
<1>2. KeysInv => NothingForgotten
  BY <1>1 DEF KeysInv, Good, Saved, NothingForgotten
<1> QED
  BY <1>2, KeysInvCorrect, PTL

(* The file of an encrypted wallet holds no seed and no key that spends,      *)
(* unless the user unlocked it between the check of a save and its copy, or   *)
(* encrypted it between the check of an import and the new key.               *)
THEOREM EncryptedFileCorrect == Spec => []EncryptedFile
<1>1. ASSUME Inv, KeysInv, ~raced, file.whole, file.keys.encrypted
      PROVE  NoSecrets(file.keys)
  <2> DEFINE ks == file.keys
  <2>1. Well(ks) /\ Sealed(ks) /\ IsKeys(ks)
    BY <1>1 DEF KeysInv, Saved, Good, Inv
  <2>2. ks.unlocked = FALSE
    BY <1>1, <2>1 DEF Sealed, IsKeys, KeysIn
  <2>3. ~ks.seed /\ AllWhole(ks.z, FALSE, ks.encSeed) /\ AllWhole(ks.t, FALSE, ks.encSeed)
    BY <2>1, <2>2 DEF Well
  <2> HIDE DEF ks
  <2>4. ASSUME NEW s, AllWhole(s, FALSE, ks.encSeed) PROVE Spendable(s) = {}
    BY <2>4 DEF AllWhole, KeyWhole, Spendable
  <2>5. NoSecrets(ks)
    BY <2>3, <2>4 DEF NoSecrets
  <2> QED BY <2>5 DEF ks
<1>2. Inv /\ KeysInv => EncryptedFile
  BY <1>1 DEF EncryptedFile
<1> QED
  BY <1>2, InvCorrect, KeysInvCorrect, PTL

(* A wallet is locked or unlocked in all its parts, and the password it was   *)
(* encrypted with unlocks all of it, also after a restart.                   *)
THEOREM UnlockWorksCorrect == Spec => []UnlockWorks
<1>1. ASSUME NEW ks, IsKeys(ks), Well(ks) PROVE Whole(ks)
  <2>1. PICK S : ks \in KeysIn(S)
    BY <1>1 DEF IsKeys
  <2>2. /\ ks.unlocked \in BOOLEAN
        /\ \A s \in {ks.z, ks.t} : s \in Seq(KeyIn(S)) /\ AllWhole(s, ks.unlocked, ks.encSeed)
    BY <1>1, <2>1 DEF KeysIn, Well
  <2>3. ASSUME NEW s \in {ks.z, ks.t}, NEW i \in DOMAIN s, s[i].kind # "vk"
        PROVE  s[i].key = ks.unlocked
    <3>1. s[i] \in KeyIn(S)
      BY <2>2, <2>3
    <3>2. s[i].key \in BOOLEAN
      BY <3>1 DEF KeyIn
    <3>3. s[i].key <=> ks.unlocked
      BY <2>2, <2>3 DEF AllWhole, KeyWhole
    <3> QED BY <2>2, <3>2, <3>3
  <2> QED BY <1>1, <2>3 DEF Whole, Well
<1>2. ASSUME NEW ks, IsKeys(ks), Safe(ks), Well(ks)
      PROVE  Whole(ks) /\ Whole(IF ks.unlocked THEN ks ELSE Unlock(ks, ks.encSeed))
  <2>1. CASE ks.unlocked
    BY <1>1, <1>2, <2>1
  <2>2. CASE ~ks.unlocked
    <3> DEFINE r == Unlock(ks, ks.encSeed)
    <3>1. PICK S : ks \in KeysIn(S)
      BY <1>2 DEF IsKeys
    <3>2. ks.encrypted /\ ks.encSeed # NoPw
      BY <1>2, <2>2 DEF Safe
    <3>3. ks.encSeed \in Passwords
      BY <3>1, <3>2 DEF KeysIn
    <3>4. Well(r)
      BY <1>2, <2>2, <3>1, <3>2, UnlockFine
    <3>5. IsKeys(r)
      BY <1>2, <3>1, <3>3, UnlockRegrows DEF Regrows, IsKeys
    <3> HIDE DEF r
    <3>6. Whole(r) /\ Whole(ks)
      BY <1>1, <1>2, <3>4, <3>5
    <3> QED BY <2>2, <3>6 DEF r
  <2> QED BY <2>1, <2>2
<1>3. ASSUME Inv, KeysInv, ~raced PROVE UnlockWorks
  <2>1. running => IsKeys(keys) /\ Safe(keys) /\ Well(keys)
    BY <1>3 DEF Inv, KeysInv, Good
  <2>2. file.whole => Good(ReadWallet(file.keys), raced) /\ IsKeys(ReadWallet(file.keys))
    BY <1>3, ReadFine, ReadGrows DEF Inv, KeysInv, Grows
  <2>3. file.whole => /\ IsKeys(ReadWallet(file.keys)) /\ Safe(ReadWallet(file.keys))
                      /\ Well(ReadWallet(file.keys))
    BY <1>3, <2>2 DEF Good
  <2> QED BY <1>2, <2>1, <2>3 DEF UnlockWorks
<1>4. Inv /\ KeysInv => UnlockWorks
  BY <1>3 DEF UnlockWorks
<1> QED
  BY <1>4, InvCorrect, KeysInvCorrect, PTL

(* If the keys that are imported are of other wallets, new addresses,        *)
(* imports and syncs between them leave no hole in the derived addresses.    *)
THEOREM HdContiguousCorrect == ASSUME ForeignImports PROVE Spec => []HdContiguous
<1>1. KeysInv => HdContiguous
  BY DEF KeysInv, Good, Saved, Hd, HdFrom, HdContiguous
<1> QED
  BY <1>1, KeysInvCorrect, PTL

(* And after every address that was used the wallet has the next Gap, in      *)
(* memory and in the file, whose parts are copied one after the other.        *)
THEOREM GapKeptCorrect == ASSUME ForeignImports PROVE Spec => []GapKept
<1>1. KeysInv => GapKept
  BY DEF KeysInv, Gaps, GapKept
<1> QED
  BY <1>1, KeysInvCorrect, PTL
=============================================================================
