--------------------------- MODULE LightClientProofs ---------------------------
(***************************************************************************)
(* Proofs about LightClient, for every number of threads, passwords, keys   *)
(* and batches: what a user was told about is kept (PromisedKept), because   *)
(* one thread at a time writes the file (OneWriter) and no operation on the *)
(* keys drops an address.                                                  *)
(***************************************************************************)
EXTENDS LightClient, SequenceTheorems, TLAPS

-----------------------------------------------------------------------------
(* Keys whose addresses are in S.  What the numbers of HD keys are is said    *)
(* only of the transparent ones: a sync adds as many of them as the          *)
(* difference of two such numbers.                                          *)

KeyIn(S) == [id : S, kind : {"hd", "sk", "vk"}, locked : BOOLEAN, key : BOOLEAN,
             enc : Passwords \cup {NoPw}]

KeysIn(S) == [encrypted : BOOLEAN, unlocked : BOOLEAN, seed : BOOLEAN,
              encSeed : Passwords \cup {NoPw},
              o : Seq(KeyIn(S)), z : Seq(KeyIn(S)), t : Seq(KeyIn(S))]

HdNums(s) == {s[i].id : i \in {j \in DOMAIN s : s[j].kind = "hd"}}
IsTop(m, S) == m \in S /\ m \in Nat /\ \A n \in S : n \in Int /\ n <= m
HasTop(s) == HdNums(s) = {} \/ \E m : IsTop(m, HdNums(s))

IsKeys(ks) == (\E S : ks \in KeysIn(S)) /\ HasTop(ks.t)

(* ks2 has every address of ks. *)
Keeps(ks, ks2) ==
  Ids(ks.o) \subseteq Ids(ks2.o) /\ Ids(ks.z) \subseteq Ids(ks2.z) /\ Ids(ks.t) \subseteq Ids(ks2.t)

Grows(ks, ks2) == IsKeys(ks2) /\ Keeps(ks, ks2)

LEMMA KeysKept ==
  ASSUME NEW ks, NEW ks2, NEW a, Keeps(ks, ks2), a[1] \in {"u", "z", "t"}, Knows(ks, a)
  PROVE  Knows(ks2, a)
BY DEF Keeps, Knows, Pool

-----------------------------------------------------------------------------
(* One key *)

(* What is done to a key leaves its address and its kind alone. *)
LEMMA KeyOps ==
  ASSUME NEW S, NEW k \in KeyIn(S), NEW p \in Passwords \cup {NoPw}
  PROVE  /\ LockKey(k) \in KeyIn(S) /\ LockKey(k).id = k.id /\ LockKey(k).kind = k.kind
         /\ UnlockKey(k) \in KeyIn(S) /\ UnlockKey(k).id = k.id /\ UnlockKey(k).kind = k.kind
         /\ EncryptKey(k, p) \in KeyIn(S) /\ EncryptKey(k, p).id = k.id
         /\ EncryptKey(k, p).kind = k.kind
         /\ RemoveKeyEncryption(k) \in KeyIn(S) /\ RemoveKeyEncryption(k).id = k.id
         /\ RemoveKeyEncryption(k).kind = k.kind
BY DEF KeyIn, LockKey, UnlockKey, EncryptKey, RemoveKeyEncryption

LEMMA NewKeyIn ==
  ASSUME NEW S, NEW x \in S
  PROVE  /\ NewHdKey(x) \in KeyIn(S) /\ NewHdKey(x).id = x /\ NewHdKey(x).kind = "hd"
         /\ NewImportedSk(x) \in KeyIn(S) /\ NewImportedSk(x).id = x /\ NewImportedSk(x).kind = "sk"
         /\ NewImportedViewKey(x) \in KeyIn(S) /\ NewImportedViewKey(x).id = x
BY DEF KeyIn, NewHdKey, NewImportedSk, NewImportedViewKey

-----------------------------------------------------------------------------
(* Lists of keys *)

(* A list whose keys were changed one by one *)
LEMMA Changed ==
  ASSUME NEW S, NEW s \in Seq(KeyIn(S)), NEW r, r = [i \in DOMAIN s |-> r[i]],
         \A i \in DOMAIN s : r[i] \in KeyIn(S) /\ r[i].id = s[i].id
  PROVE  r \in Seq(KeyIn(S)) /\ Ids(r) = Ids(s)
<1>1. Len(s) \in Nat /\ DOMAIN s = 1..Len(s) /\ DOMAIN r = DOMAIN s
  OBVIOUS
<1>2. r \in [1..Len(s) -> KeyIn(S)]
  BY <1>1
<1>3. r \in Seq(KeyIn(S))
  BY <1>1, <1>2
<1> QED
  BY <1>1, <1>3 DEF Ids

LEMMA ChangedTop ==
  ASSUME NEW S, NEW s \in Seq(KeyIn(S)), NEW r, r = [i \in DOMAIN s |-> r[i]],
         \A i \in DOMAIN s : r[i] \in KeyIn(S) /\ r[i].id = s[i].id /\ r[i].kind = s[i].kind
  PROVE  r \in Seq(KeyIn(S)) /\ Ids(r) = Ids(s) /\ (HasTop(s) => HasTop(r))
<1>1. r \in Seq(KeyIn(S)) /\ Ids(r) = Ids(s)
  BY Changed
<1>2. DOMAIN r = DOMAIN s
  OBVIOUS
<1>3. HdNums(r) = HdNums(s)
  BY <1>2 DEF HdNums
<1> QED
  BY <1>1, <1>3 DEF HasTop

(* Lists grow at the end. *)
LEMMA Joined ==
  ASSUME NEW S, NEW s \in Seq(KeyIn(S)), NEW r \in Seq(KeyIn(S))
  PROVE  /\ s \o r \in Seq(KeyIn(S))
         /\ Ids(s \o r) = Ids(s) \cup Ids(r)
         /\ HdNums(s \o r) = HdNums(s) \cup HdNums(r)
<1> DEFINE q == s \o r
<1>1. /\ q \in Seq(KeyIn(S)) /\ Len(q) = Len(s) + Len(r)
      /\ \A i \in 1..Len(s) + Len(r) : q[i] = IF i <= Len(s) THEN s[i] ELSE r[i - Len(s)]
  BY ConcatProperties
<1>2. \A i \in DOMAIN q : (i \in DOMAIN s /\ q[i] = s[i]) \/ (i - Len(s) \in DOMAIN r /\ q[i] = r[i - Len(s)])
  BY <1>1
<1>3. \A i \in DOMAIN s : i \in DOMAIN q /\ q[i] = s[i]
  BY <1>1
<1>4. \A i \in DOMAIN r : i + Len(s) \in DOMAIN q /\ q[i + Len(s)] = r[i]
  BY <1>1
<1> HIDE DEF q
<1>5. Ids(q) = Ids(s) \cup Ids(r)
  BY <1>2, <1>3, <1>4 DEF Ids
<1>6. HdNums(q) = HdNums(s) \cup HdNums(r)
  BY <1>2, <1>3, <1>4 DEF HdNums
<1> QED
  BY <1>1, <1>5, <1>6 DEF q

LEMMA Appended ==
  ASSUME NEW S, NEW s \in Seq(KeyIn(S)), NEW k \in KeyIn(S)
  PROVE  /\ Append(s, k) \in Seq(KeyIn(S)) /\ Ids(Append(s, k)) = Ids(s) \cup {k.id}
         /\ HdNums(Append(s, k)) = HdNums(s) \cup (IF k.kind = "hd" THEN {k.id} ELSE {})
<1> DEFINE q == Append(s, k)
<1>1. /\ q \in Seq(KeyIn(S)) /\ Len(q) = Len(s) + 1
      /\ \A i \in 1..Len(s) : q[i] = s[i]
      /\ q[Len(s) + 1] = k
  BY AppendProperties
<1>2. \A i \in DOMAIN q : (i \in DOMAIN s /\ q[i] = s[i]) \/ q[i] = k
  BY <1>1
<1>3. \A i \in DOMAIN s : i \in DOMAIN q /\ q[i] = s[i]
  BY <1>1
<1>4. Len(s) + 1 \in DOMAIN q
  BY <1>1
<1> HIDE DEF q
<1>5. Ids(q) = Ids(s) \cup {k.id}
  BY <1>1, <1>2, <1>3, <1>4 DEF Ids
<1>6. HdNums(q) = HdNums(s) \cup (IF k.kind = "hd" THEN {k.id} ELSE {})
  BY <1>1, <1>2, <1>3, <1>4 DEF HdNums
<1> QED
  BY <1>1, <1>5, <1>6 DEF q

(* A new number on top is the top. *)
LEMMA NewTop ==
  ASSUME NEW S, NEW m \in Nat, \A n \in S : n \in Int /\ n <= m
  PROVE  IsTop(m, S \cup {m})
BY DEF IsTop

-----------------------------------------------------------------------------
(* The wallet's keys *)

(* r has the addresses of s, and its HD keys. *)
SameKeys(S, s, r) ==
  r \in Seq(KeyIn(S)) /\ Ids(r) = Ids(s) /\ (HasTop(s) => HasTop(r))

(* A list up to the first key that an operation fails on, and all of it *)
LEMMA PartChanged ==
  ASSUME NEW S, NEW s \in Seq(KeyIn(S)), NEW p \in Passwords \cup {NoPw}
  PROVE  /\ SameKeys(S, s, UpTo(s, CanLock, LockKey))
         /\ SameKeys(S, s, UpTo(s, LAMBDA k : CanUnlock(k, p), UnlockKey))
         /\ SameKeys(S, s, UpTo(s, CanRemoveEncryption, RemoveKeyEncryption))
         /\ SameKeys(S, s, [i \in DOMAIN s |-> EncryptKey(s[i], p)])
<1>1. \A i \in DOMAIN s : s[i] \in KeyIn(S)
  OBVIOUS
<1>2. ASSUME NEW r, r = [i \in DOMAIN s |-> r[i]],
             \A i \in DOMAIN s : r[i] \in KeyIn(S) /\ r[i].id = s[i].id /\ r[i].kind = s[i].kind
      PROVE  SameKeys(S, s, r)
  BY <1>2, ChangedTop DEF SameKeys
<1>3. SameKeys(S, s, UpTo(s, CanLock, LockKey))
  <2> DEFINE r == UpTo(s, CanLock, LockKey)
  <2>1. /\ r = [i \in DOMAIN s |-> r[i]]
        /\ \A i \in DOMAIN s : r[i] \in KeyIn(S) /\ r[i].id = s[i].id /\ r[i].kind = s[i].kind
    BY <1>1, KeyOps DEF UpTo
  <2> QED BY <1>2, <2>1
<1>4. SameKeys(S, s, UpTo(s, LAMBDA k : CanUnlock(k, p), UnlockKey))
  <2> DEFINE r == UpTo(s, LAMBDA k : CanUnlock(k, p), UnlockKey)
  <2>1. /\ r = [i \in DOMAIN s |-> r[i]]
        /\ \A i \in DOMAIN s : r[i] \in KeyIn(S) /\ r[i].id = s[i].id /\ r[i].kind = s[i].kind
    BY <1>1, KeyOps DEF UpTo
  <2> QED BY <1>2, <2>1
<1>5. SameKeys(S, s, UpTo(s, CanRemoveEncryption, RemoveKeyEncryption))
  <2> DEFINE r == UpTo(s, CanRemoveEncryption, RemoveKeyEncryption)
  <2>1. /\ r = [i \in DOMAIN s |-> r[i]]
        /\ \A i \in DOMAIN s : r[i] \in KeyIn(S) /\ r[i].id = s[i].id /\ r[i].kind = s[i].kind
    BY <1>1, KeyOps DEF UpTo
  <2> QED BY <1>2, <2>1
<1>6. SameKeys(S, s, [i \in DOMAIN s |-> EncryptKey(s[i], p)])
  <2> DEFINE r == [i \in DOMAIN s |-> EncryptKey(s[i], p)]
  <2>1. /\ r = [i \in DOMAIN s |-> r[i]]
        /\ \A i \in DOMAIN s : r[i] \in KeyIn(S) /\ r[i].id = s[i].id /\ r[i].kind = s[i].kind
    BY <1>1, KeyOps
  <2> QED BY <1>2, <2>1
<1> QED
  BY <1>3, <1>4, <1>5, <1>6

(* Keys with other lists, of the same addresses *)
Regrows(S, ks, ks2) ==
  ks2 \in KeysIn(S) /\ (HasTop(ks.t) => HasTop(ks2.t)) /\ Keeps(ks, ks2)

LEMMA LockRegrows ==
  ASSUME NEW S, NEW ks \in KeysIn(S)
  PROVE  Regrows(S, ks, Lock(ks))
<1> DEFINE t == UpTo(ks.t, CanLock, LockKey)
<1> DEFINE u == UpTo(ks.z, CanLock, LockKey)
<1>2. ks.t \in Seq(KeyIn(S)) /\ ks.z \in Seq(KeyIn(S)) /\ ks.o \in Seq(KeyIn(S))
  BY DEF KeysIn
<1>3. SameKeys(S, ks.t, t) /\ SameKeys(S, ks.z, u)
  BY <1>2, PartChanged
<1>4. CASE LockError(ks)
  BY <1>4 DEF Lock, Regrows, Keeps
<1>5. CASE ~LockError(ks)
  <2> DEFINE z == IF All(ks.t, CanLock) THEN u ELSE ks.z
  <2> DEFINE b == ~(All(ks.t, CanLock) /\ All(ks.z, CanLock))
  <2>1. Lock(ks) = [ks EXCEPT !.seed = FALSE, !.t = t, !.z = z, !.unlocked = b]
    BY <1>5 DEF Lock
  <2>2. SameKeys(S, ks.z, z)
    BY <1>2, <1>3 DEF SameKeys
  <2> HIDE DEF t, u, z
  <2>3. b \in BOOLEAN
    OBVIOUS
  <2> HIDE DEF b
  <2>4. /\ Lock(ks) \in KeysIn(S) /\ Lock(ks).t = t /\ Lock(ks).z = z /\ Lock(ks).o = ks.o
    BY <1>3, <2>1, <2>2, <2>3 DEF KeysIn, SameKeys
  <2> QED BY <1>3, <2>2, <2>4 DEF Regrows, Keeps, SameKeys
<1> QED
  BY <1>4, <1>5

LEMMA EncryptRegrows ==
  ASSUME NEW S, NEW ks \in KeysIn(S), NEW p \in Passwords
  PROVE  Regrows(S, ks, Encrypt(ks, p))
<1> DEFINE t == [i \in DOMAIN ks.t |-> EncryptKey(ks.t[i], p)]
<1> DEFINE z == [i \in DOMAIN ks.z |-> EncryptKey(ks.z[i], p)]
<1> DEFINE e == [ks EXCEPT !.encSeed = p, !.encrypted = TRUE, !.z = z, !.t = t]
<1>1. ks.t \in Seq(KeyIn(S)) /\ ks.z \in Seq(KeyIn(S)) /\ ks.o \in Seq(KeyIn(S))
  BY DEF KeysIn
<1>2. SameKeys(S, ks.t, t) /\ SameKeys(S, ks.z, z)
  BY <1>1, PartChanged
<1>3. Encrypt(ks, p) = IF ks.encrypted THEN ks ELSE Lock(e)
  BY DEF Encrypt
<1> HIDE DEF t, z
<1>4. e \in KeysIn(S) /\ e.t = t /\ e.z = z /\ e.o = ks.o
  BY <1>2 DEF KeysIn, SameKeys
<1> HIDE DEF e
<1>5. Regrows(S, e, Lock(e))
  BY <1>4, LockRegrows
<1> QED
  BY <1>2, <1>3, <1>4, <1>5 DEF Regrows, Keeps, SameKeys

LEMMA UnlockRegrows ==
  ASSUME NEW S, NEW ks \in KeysIn(S), NEW p \in Passwords
  PROVE  Regrows(S, ks, Unlock(ks, p))
<1> DEFINE ok(k) == CanUnlock(k, p)
<1> DEFINE t == UpTo(ks.t, LAMBDA k : CanUnlock(k, p), UnlockKey)
<1> DEFINE u == UpTo(ks.z, LAMBDA k : CanUnlock(k, p), UnlockKey)
<1> DEFINE z == IF All(ks.t, ok) THEN u ELSE ks.z
<1> DEFINE b == All(ks.t, ok) /\ All(ks.z, ok)
<1>1. ks.t \in Seq(KeyIn(S)) /\ ks.z \in Seq(KeyIn(S)) /\ ks.o \in Seq(KeyIn(S))
  BY DEF KeysIn
<1>2. SameKeys(S, ks.t, t) /\ SameKeys(S, ks.z, u)
  BY <1>1, PartChanged DEF UpTo
<1>3. SameKeys(S, ks.z, z)
  BY <1>1, <1>2 DEF SameKeys
<1>4. \/ Unlock(ks, p) = ks
      \/ Unlock(ks, p) = [ks EXCEPT !.t = t, !.z = z, !.seed = b, !.unlocked = b]
  <2>1. t = UpTo(ks.t, ok, UnlockKey) /\ u = UpTo(ks.z, ok, UnlockKey)
    BY DEF UpTo
  <2> QED BY <2>1 DEF Unlock
<1>5. b \in BOOLEAN
  BY DEF All
<1> HIDE DEF t, z, b
<1>6. CASE Unlock(ks, p) = ks
  BY <1>6 DEF Regrows, Keeps
<1>7. CASE Unlock(ks, p) = [ks EXCEPT !.t = t, !.z = z, !.seed = b, !.unlocked = b]
  <2>1. Unlock(ks, p) \in KeysIn(S) /\ Unlock(ks, p).t = t /\ Unlock(ks, p).z = z /\ Unlock(ks, p).o = ks.o
    BY <1>2, <1>3, <1>5, <1>7 DEF KeysIn, SameKeys
  <2> QED BY <1>2, <1>3, <2>1 DEF Regrows, Keeps, SameKeys
<1> QED
  BY <1>4, <1>6, <1>7

LEMMA RemoveEncryptionRegrows ==
  ASSUME NEW S, NEW ks \in KeysIn(S), NEW p \in Passwords
  PROVE  Regrows(S, ks, RemoveEncryption(ks, p))
<1> DEFINE u == IF ks.unlocked THEN ks ELSE Unlock(ks, p)
<1> DEFINE t == UpTo(u.t, CanRemoveEncryption, RemoveKeyEncryption)
<1> DEFINE z == UpTo(u.z, CanRemoveEncryption, RemoveKeyEncryption)
<1>1. Regrows(S, ks, u)
  BY UnlockRegrows DEF Regrows, Keeps
<1>2. u \in KeysIn(S) /\ u.t \in Seq(KeyIn(S)) /\ u.z \in Seq(KeyIn(S)) /\ u.o \in Seq(KeyIn(S))
  BY <1>1 DEF Regrows, KeysIn
<1>3. \E r \in {u, [u EXCEPT !.t = t], [u EXCEPT !.t = t, !.z = z],
                 [u EXCEPT !.t = t, !.z = z, !.encrypted = FALSE, !.encSeed = NoPw]} :
        RemoveEncryption(ks, p) = r
  BY DEF RemoveEncryption
<1> HIDE DEF u
<1>4. SameKeys(S, u.t, t) /\ SameKeys(S, u.z, z)
  BY <1>2, PartChanged
<1> HIDE DEF t, z
<1>5. ASSUME NEW r \in {u, [u EXCEPT !.t = t], [u EXCEPT !.t = t, !.z = z],
                        [u EXCEPT !.t = t, !.z = z, !.encrypted = FALSE, !.encSeed = NoPw]}
      PROVE  r \in KeysIn(S) /\ r.t \in {u.t, t} /\ r.z \in {u.z, z} /\ r.o = u.o
  BY <1>2, <1>4, <1>5 DEF KeysIn, SameKeys
<1>6. PICK r : /\ RemoveEncryption(ks, p) = r
               /\ r \in KeysIn(S) /\ r.t \in {u.t, t} /\ r.z \in {u.z, z} /\ r.o = u.o
  BY <1>3, <1>5
<1> QED
  BY <1>1, <1>4, <1>6 DEF Regrows, Keeps, SameKeys

LEMMA KeysInLarger ==
  ASSUME NEW S, NEW T, S \subseteq T
  PROVE  KeyIn(S) \subseteq KeyIn(T) /\ KeysIn(S) \subseteq KeysIn(T)
<1>1. KeyIn(S) \subseteq KeyIn(T)
  BY DEF KeyIn
<1>2. Seq(KeyIn(S)) \subseteq Seq(KeyIn(T))
  BY <1>1, SeqMonotonic
<1> HIDE DEF KeyIn
<1> QED
  BY <1>1, <1>2 DEF KeysIn

(* The next HD key's number is one above the others'. *)
LEMMA NextIsTop ==
  ASSUME NEW s, HasTop(s)
  PROVE  NextPosition(s) \in Nat /\ \A n \in HdNums(s) : n \in Int /\ n < NextPosition(s)
<1> DEFINE nums == HdNums(s)
<1> DEFINE Top(n) == \A m \in nums : m <= n
<1>1. NextPosition(s) = IF nums = {} THEN 0 ELSE 1 + CHOOSE n \in nums : Top(n)
  BY DEF NextPosition, HdNums
<1>2. CASE nums = {}
  BY <1>1, <1>2
<1>3. CASE nums # {}
  <2>1. PICK m : IsTop(m, nums)
    BY <1>3 DEF HasTop
  <2> DEFINE c == CHOOSE n \in nums : Top(n)
  <2>2. c \in nums /\ Top(c)
    <3>1. m \in nums /\ Top(m)
      BY <2>1 DEF IsTop
    <3> HIDE DEF nums, Top
    <3> QED BY <3>1
  <2>3. c \in Int /\ c <= m /\ m <= c /\ m \in Nat /\ \A n \in nums : n \in Int
    BY <2>1, <2>2 DEF IsTop
  <2>4. NextPosition(s) = 1 + c
    BY <1>1, <1>3
  <2> HIDE DEF c
  <2> QED BY <2>2, <2>3, <2>4
<1> QED
  BY <1>2, <1>3

LEMMA AddAddressGrows ==
  ASSUME NEW ks, IsKeys(ks), NEW pool \in {"u", "z", "t"}
  PROVE  /\ Grows(ks, AddAddress(ks, pool))
         /\ ks.unlocked =>
              LET more == Pool(AddAddress(ks, pool), pool)
              IN Knows(AddAddress(ks, pool), <<pool, more[Len(more)].id>>)
<1> DEFINE list == Pool(ks, pool)
<1> DEFINE n == NextPosition(list)
<1> DEFINE q == Append(list, NewHdKey(n))
<1> DEFINE ks2 == AddAddress(ks, pool)
<1>1. PICK S : ks \in KeysIn(S)
  BY DEF IsKeys
<1> DEFINE T == S \cup {n}
<1>2. /\ ks \in KeysIn(T) /\ NewHdKey(n) \in KeyIn(T)
      /\ NewHdKey(n).id = n /\ NewHdKey(n).kind = "hd"
  BY <1>1, KeysInLarger, NewKeyIn
<1> HIDE DEF T
<1>3. list \in Seq(KeyIn(T))
  BY <1>2 DEF KeysIn, Pool
<1>4. /\ q \in Seq(KeyIn(T)) /\ Ids(q) = Ids(list) \cup {n} /\ HdNums(q) = HdNums(list) \cup {n}
  BY <1>2, <1>3, Appended
<1>5. q[Len(q)].id = n
  <2>1. Len(q) = Len(list) + 1 /\ q[Len(list) + 1] = NewHdKey(n)
    BY <1>2, <1>3, AppendProperties
  <2> QED BY <1>2, <2>1
<1>6. HasTop(list) => HasTop(q)
  <2> SUFFICES ASSUME HasTop(list) PROVE IsTop(n, HdNums(list) \cup {n})
    BY <1>4 DEF HasTop
  <2> QED BY NextIsTop, NewTop
<1>7. CASE ~ks.unlocked
  <2>1. ks2 = ks
    BY <1>7 DEF AddAddress
  <2>2. Grows(ks, ks2)
    <3> HIDE DEF ks2
    <3> QED BY <2>1 DEF Grows, Keeps
  <2> QED BY <1>7, <2>2
<1>8. CASE ks.unlocked
  <2>1. /\ ks2 = CASE pool = "u" -> [ks EXCEPT !.o = q]
                   [] pool = "z" -> [ks EXCEPT !.z = q]
                   [] pool = "t" -> [ks EXCEPT !.t = q]
    BY <1>8 DEF AddAddress, AddHdKey, Pool
  <2> HIDE DEF q, list, ks2
  <2>2. ks2 \in KeysIn(T)
    BY <1>2, <1>4, <2>1 DEF KeysIn
  <2>3. Pool(ks2, pool) = q
    BY <1>2, <2>1 DEF KeysIn, Pool
  <2>4. /\ ks2.o = IF pool = "u" THEN q ELSE ks.o
        /\ ks2.z = IF pool = "z" THEN q ELSE ks.z
        /\ ks2.t = IF pool = "t" THEN q ELSE ks.t
    BY <1>2, <2>1 DEF KeysIn
  <2>5. /\ pool = "u" => list = ks.o
        /\ pool = "z" => list = ks.z
        /\ pool = "t" => list = ks.t
    BY DEF list, Pool
  <2>6. HasTop(ks2.t)
    BY <1>6, <2>4, <2>5 DEF IsKeys
  <2>7. Keeps(ks, ks2)
    <3>1. Ids(list) \subseteq Ids(q)
      BY <1>4
    <3>2. CASE pool = "u"
      BY <2>4, <2>5, <3>1, <3>2 DEF Keeps
    <3>3. CASE pool = "z"
      BY <2>4, <2>5, <3>1, <3>3 DEF Keeps
    <3>4. CASE pool = "t"
      BY <2>4, <2>5, <3>1, <3>4 DEF Keeps
    <3> QED BY <3>2, <3>3, <3>4
  <2>8. Knows(ks2, <<pool, q[Len(q)].id>>)
    BY <1>4, <1>5, <2>3 DEF Knows
  <2> QED BY <2>2, <2>3, <2>6, <2>7, <2>8 DEF Grows, IsKeys, ks2
<1> QED
  BY <1>7, <1>8, <1>2 DEF KeysIn

LEMMA EnsureGrows ==
  ASSUME NEW ks, IsKeys(ks), NEW n \in Nat
  PROVE  Grows(ks, EnsureHdTaddresses(ks, n))
<1> DEFINE top == NextPosition(ks.t) - 1
<1> DEFINE m == Gap - (top - n)
<1> DEFINE new == [i \in 1..m |-> NewHdKey(NextPosition(ks.t) + i - 1)]
<1> DEFINE ks2 == EnsureHdTaddresses(ks, n)
<1>1. CASE ~(ks.unlocked /\ n \in 0..top /\ top - n < Gap)
  <2>1. ks2 = ks
    BY <1>1 DEF EnsureHdTaddresses
  <2> HIDE DEF ks2
  <2> QED BY <2>1 DEF Grows, Keeps, ks2
<1>2. CASE ks.unlocked /\ n \in 0..top /\ top - n < Gap
  <2>1. NextPosition(ks.t) \in Nat /\ \A k \in HdNums(ks.t) : k \in Int /\ k < NextPosition(ks.t)
    BY NextIsTop DEF IsKeys
  <2>2. m \in Nat \ {0}
    BY <1>2, <2>1, KeyAssumption
  <2>3. ks2 = [ks EXCEPT !.t = ks.t \o new]
    BY <1>2 DEF EnsureHdTaddresses, AddHdKeys
  <2>4. PICK S : ks \in KeysIn(S)
    BY DEF IsKeys
  <2> DEFINE T == S \cup Nat
  <2>5. ks \in KeysIn(T) /\ \A k \in Nat : NewHdKey(k) \in KeyIn(T) /\ NewHdKey(k).id = k /\ NewHdKey(k).kind = "hd"
    BY <2>4, KeysInLarger, NewKeyIn
  <2> HIDE DEF T
  <2>6. \A i \in 1..m : NextPosition(ks.t) + i - 1 \in Nat
    BY <2>1, <2>2
  <2>7. new \in [1..m -> KeyIn(T)]
    BY <2>5, <2>6
  <2>8. new \in Seq(KeyIn(T)) /\ DOMAIN new = 1..m
    BY <2>2, <2>7
  <2>9. HdNums(new) = {NextPosition(ks.t) + i - 1 : i \in 1..m}
    BY <2>5, <2>6, <2>8 DEF HdNums
  <2> HIDE DEF new, ks2
  <2>10. /\ ks.t \o new \in Seq(KeyIn(T)) /\ Ids(ks.t) \subseteq Ids(ks.t \o new)
         /\ HdNums(ks.t \o new) = HdNums(ks.t) \cup HdNums(new)
    <3>1. ks.t \in Seq(KeyIn(T))
      BY <2>5 DEF KeysIn
    <3> QED BY <2>8, <3>1, Joined
  <2>11. IsTop(NextPosition(ks.t) + m - 1, HdNums(ks.t \o new))
    <3> DEFINE high == NextPosition(ks.t) + m - 1
    <3>1. high \in Nat /\ m \in 1..m
      BY <2>1, <2>2
    <3>2. high \in HdNums(new)
      BY <2>9, <3>1
    <3>3. \A k \in HdNums(new) : k \in Int /\ k <= high
      BY <2>1, <2>2, <2>9
    <3>4. \A k \in HdNums(ks.t) : k \in Int /\ k <= high
      BY <2>1, <2>2
    <3> HIDE DEF high
    <3>5. IsTop(high, HdNums(ks.t \o new))
      BY <2>10, <3>1, <3>2, <3>3, <3>4 DEF IsTop
    <3> QED BY <3>5 DEF high
  <2>12. ks2 \in KeysIn(T) /\ ks2.t = ks.t \o new /\ ks2.o = ks.o /\ ks2.z = ks.z
    BY <2>3, <2>5, <2>10 DEF KeysIn
  <2> QED BY <2>10, <2>11, <2>12 DEF Grows, Keeps, IsKeys, HasTop, ks2
<1> QED
  BY <1>1, <1>2

LEMMA ImportGrows ==
  ASSUME NEW ks, IsKeys(ks), NEW x
  PROVE  /\ Grows(ks, AddImportedTk(ks, x)) /\ x \in Ids(AddImportedTk(ks, x).t)
         /\ Grows(ks, AddImportedSk(ks, x)) /\ x \in Ids(AddImportedSk(ks, x).z)
         /\ Grows(ks, AddImportedVk(ks, x)) /\ x \in Ids(AddImportedVk(ks, x).z)
<1>1. PICK S : ks \in KeysIn(S)
  BY DEF IsKeys
<1> DEFINE T == S \cup {x}
<1>2. /\ ks \in KeysIn(T)
      /\ NewImportedSk(x) \in KeyIn(T) /\ NewImportedSk(x).id = x /\ NewImportedSk(x).kind = "sk"
      /\ NewImportedViewKey(x) \in KeyIn(T) /\ NewImportedViewKey(x).id = x
  BY <1>1, KeysInLarger, NewKeyIn
<1> HIDE DEF T
<1>3. ks.o \in Seq(KeyIn(T)) /\ ks.z \in Seq(KeyIn(T)) /\ ks.t \in Seq(KeyIn(T)) /\ HasTop(ks.t)
  BY <1>2 DEF KeysIn, IsKeys
<1>4. ASSUME NEW z \in Seq(KeyIn(T)), Ids(ks.z) \subseteq Ids(z), x \in Ids(z)
      PROVE  Grows(ks, [ks EXCEPT !.z = z]) /\ x \in Ids([ks EXCEPT !.z = z].z)
  <2> DEFINE r == [ks EXCEPT !.z = z]
  <2>1. r \in KeysIn(T) /\ r.z = z /\ r.o = ks.o /\ r.t = ks.t
    BY <1>2, <1>4 DEF KeysIn
  <2> HIDE DEF r
  <2>2. Grows(ks, r) /\ x \in Ids(r.z)
    BY <1>3, <1>4, <2>1 DEF Grows, Keeps, IsKeys
  <2> QED BY <2>2 DEF r
<1>5. Grows(ks, AddImportedTk(ks, x)) /\ x \in Ids(AddImportedTk(ks, x).t)
  <2> DEFINE q == Append(ks.t, NewImportedSk(x))
  <2> DEFINE r == [ks EXCEPT !.t = q]
  <2>1. /\ q \in Seq(KeyIn(T)) /\ Ids(q) = Ids(ks.t) \cup {x}
        /\ HdNums(q) = HdNums(ks.t)
    <3> DEFINE k == NewImportedSk(x)
    <3>1. k \in KeyIn(T) /\ k.id = x /\ k.kind = "sk"
      BY <1>2
    <3> HIDE DEF k
    <3>2. /\ Append(ks.t, k) \in Seq(KeyIn(T)) /\ Ids(Append(ks.t, k)) = Ids(ks.t) \cup {k.id}
          /\ HdNums(Append(ks.t, k)) = HdNums(ks.t) \cup (IF k.kind = "hd" THEN {k.id} ELSE {})
      BY <1>3, <3>1, Appended
    <3>3. HdNums(Append(ks.t, k)) = HdNums(ks.t)
      BY <3>1, <3>2
    <3> QED BY <3>1, <3>2, <3>3 DEF k
  <2> HIDE DEF q
  <2>2. r \in KeysIn(T) /\ r.t = q /\ r.o = ks.o /\ r.z = ks.z
    BY <1>2, <2>1 DEF KeysIn
  <2> HIDE DEF r
  <2>3. Grows(ks, r) /\ x \in Ids(r.t)
    BY <1>3, <2>1, <2>2 DEF Grows, Keeps, IsKeys, HasTop
  <2>4. AddImportedTk(ks, x) = r
    BY DEF AddImportedTk, q, r
  <2> QED BY <2>3, <2>4
<1>6. Grows(ks, AddImportedVk(ks, x)) /\ x \in Ids(AddImportedVk(ks, x).z)
  <2> DEFINE q == Append(ks.z, NewImportedViewKey(x))
  <2>1. q \in Seq(KeyIn(T)) /\ Ids(q) = Ids(ks.z) \cup {x}
    BY <1>2, <1>3, Appended
  <2>2. AddImportedVk(ks, x) = [ks EXCEPT !.z = q]
    BY DEF AddImportedVk
  <2> HIDE DEF q
  <2> QED BY <1>4, <2>1, <2>2
<1>7. Grows(ks, AddImportedSk(ks, x)) /\ x \in Ids(AddImportedSk(ks, x).z)
  <2>1. CASE x \in Ids(ks.z)
    <3> DEFINE q == [i \in DOMAIN ks.z |->
              IF ks.z[i].id = x /\ \A j \in 1..(i - 1) : ks.z[j].id # x
                THEN [ks.z[i] EXCEPT !.key = TRUE, !.kind = "sk"] ELSE ks.z[i]]
    <3>1. \A i \in DOMAIN ks.z : ks.z[i] \in KeyIn(T)
      BY <1>3
    <3>2. ASSUME NEW k \in KeyIn(T)
          PROVE  /\ [k EXCEPT !.key = TRUE, !.kind = "sk"] \in KeyIn(T)
                 /\ [k EXCEPT !.key = TRUE, !.kind = "sk"].id = k.id
      BY DEF KeyIn
    <3>3. /\ q = [i \in DOMAIN ks.z |-> q[i]]
          /\ \A i \in DOMAIN ks.z : q[i] \in KeyIn(T) /\ q[i].id = ks.z[i].id
      BY <3>1, <3>2
    <3>4. AddImportedSk(ks, x) = [ks EXCEPT !.z = q]
      BY <2>1 DEF AddImportedSk
    <3> HIDE DEF q
    <3>5. q \in Seq(KeyIn(T)) /\ Ids(q) = Ids(ks.z)
      BY <1>3, <3>3, Changed
    <3> QED BY <1>4, <2>1, <3>4, <3>5
  <2>2. CASE x \notin Ids(ks.z)
    <3> DEFINE q == Append(ks.z, NewImportedSk(x))
    <3>1. q \in Seq(KeyIn(T)) /\ Ids(q) = Ids(ks.z) \cup {x}
      BY <1>2, <1>3, Appended
    <3>2. AddImportedSk(ks, x) = [ks EXCEPT !.z = q]
      BY <2>2 DEF AddImportedSk
    <3> HIDE DEF q
    <3> QED BY <1>4, <3>1, <3>2
  <2> QED BY <2>1, <2>2
<1> QED
  BY <1>5, <1>6, <1>7

LEMMA ReadGrows ==
  ASSUME NEW ks, IsKeys(ks)
  PROVE  Grows(ks, ReadWallet(ks))
<1> DEFINE r == Read(ks)
<1>1. PICK S : ks \in KeysIn(S)
  BY DEF IsKeys
<1>2. r \in KeysIn(S) /\ r.o = ks.o /\ r.z = ks.z /\ r.t = ks.t
  BY <1>1 DEF Read, KeysIn
<1>3. ReadWallet(ks) = r \/ ReadWallet(ks) = AddAddress(r, "u")
  BY DEF ReadWallet
<1> HIDE DEF r
<1>4. IsKeys(r) /\ Grows(ks, r)
  BY <1>2 DEF IsKeys, Grows, Keeps
<1>5. Grows(r, AddAddress(r, "u"))
  BY <1>4, AddAddressGrows
<1> QED
  BY <1>3, <1>4, <1>5 DEF Grows, Keeps

LEMMA NewIsKeys ==
  ASSUME NEW z \in Nat, NEW o \in Nat
  PROVE  IsKeys(NewKeys(z, o))
<1>1. ASSUME NEW n \in Nat PROVE HdKeys(n) \in Seq(KeyIn(Nat))
  <2>1. \A i \in 1..n : NewHdKey(i - 1) \in KeyIn(Nat)
    BY NewKeyIn
  <2>2. HdKeys(n) \in [1..n -> KeyIn(Nat)]
    BY <2>1 DEF HdKeys
  <2> QED BY <2>2
<1>2. NewKeys(z, o) \in KeysIn(Nat)
  BY <1>1 DEF NewKeys, KeysIn
<1>3. HdNums(HdKeys(1)) = {0}
  <2>1. DOMAIN HdKeys(1) = {1} /\ HdKeys(1)[1].id = 0 /\ HdKeys(1)[1].kind = "hd"
    BY DEF HdKeys, NewHdKey
  <2> QED BY <2>1 DEF HdNums
<1>4. HasTop(HdKeys(1))
  BY <1>3 DEF HasTop, IsTop
<1>5. NewKeys(z, o).t = HdKeys(1)
  BY DEF NewKeys
<1> QED
  BY <1>2, <1>4, <1>5 DEF IsKeys

-----------------------------------------------------------------------------
(* The inductive invariant *)

Commands == {"none", "save", "new", "sync", "rescan", "import"}
Steps    == {"idle", "derive", "mayImport", "push", "clear", "sync", "batch",
             "relock1", "relock2", "relock3", "grab", "write", "writeKeys", "writeTxns", "bytes"}

TaskIn(X) == [cmd : Commands, step : Steps, arg : X, buf : [keys : X, used : X],
              grab : BOOLEAN, left : X]

Pools   == {"u", "z", "t"}
Tells   == {"new", "import"}   \* the commands that promise an address
Writing == {"write", "writeKeys", "writeTxns", "bytes"}
Saving  == {"relock1", "relock2", "relock3", "grab"} \cup Writing

(* What thread p knows of the keys ks, the promises prom and sync_lock lock   *)
(* while it does t: it holds the lock while it writes, and in a sync; the    *)
(* address of its command is in the wallet while it saves; and what it has   *)
(* copied is all that was promised, which nobody else can add to.            *)
TaskOK(t, p, ks, prom, lock) ==
  /\ t.step \in Writing \/ ~t.grab => lock = p
  /\ t.step = "batch" => ~t.grab
  /\ t.step \in {"sync", "clear"} \/ ~t.grab => t.cmd \notin Tells
  /\ t.step = "derive" => t.cmd = "new" /\ t.arg[1] \in Pools
  /\ t.step \in {"mayImport", "push"} => t.arg[1] \in {"tk", "sk", "vk"}
  /\ t.cmd \in Tells /\ t.step \in Saving => t.arg[1] \in Pools /\ Knows(ks, t.arg)
  /\ t.step \in {"writeTxns", "bytes"} =>
       /\ IsKeys(t.buf.keys)
       /\ \A a \in prom : Knows(t.buf.keys, a)
       /\ t.cmd \in Tells => Knows(t.buf.keys, t.arg)

Inv ==
  /\ \E X : task \in [Tasks -> TaskIn(X)]
  /\ running => IsKeys(keys)
  /\ file.whole => IsKeys(file.keys)
  /\ \A p \in Tasks : TaskOK(task[p], p, keys, promised, syncLock)
  /\ ~running => \A p \in Tasks : task[p] = Idle
  /\ \A a \in promised : a[1] \in Pools
  /\ PromisedKept

LEMMA IdleOK ==
  ASSUME NEW p, NEW ks, NEW prom, NEW lock
  PROVE  TaskOK(Idle, p, ks, prom, lock)
BY DEF TaskOK, Idle, Writing, Saving, Tells

LEMMA IdleIn == \E Y : Idle \in TaskIn(Y)
<1> DEFINE k == Empty.keys
           u == Empty.used
           n == <<>>
           b == [keys |-> k, used |-> u]
           Y == {n, k, u, 0}
           t == [cmd |-> "none", step |-> "idle", arg |-> n, buf |-> b, grab |-> TRUE, left |-> 0]
<1>1. Empty = [keys |-> k, used |-> u]
  BY DEF Empty
<1> HIDE DEF k, u
<1>2. Idle = t
  BY <1>1 DEF Idle
<1>3. n \in Y /\ 0 \in Y /\ b \in [keys : Y, used : Y]
  OBVIOUS
<1> HIDE DEF n, b, Y
<1>4. t \in TaskIn(Y)
  BY <1>3 DEF TaskIn, Commands, Steps
<1> QED
  BY <1>2, <1>4

(* What the others know stays true, if p drops no address, takes and gives   *)
(* back the lock for itself only, and promises only with the lock in hand.   *)
LEMMA OthersOK ==
  ASSUME NEW p \in Tasks, NEW q \in Tasks, q # p, NEW t,
         NEW ks, NEW prom, NEW lock, NEW ks2, NEW prom2, NEW lock2,
         TaskOK(t, q, ks, prom, lock), Keeps(ks, ks2),
         lock2 = lock \/ lock \in {Nobody, p}, prom2 = prom \/ lock = p
  PROVE  TaskOK(t, q, ks2, prom2, lock2)
<1>1. q # Nobody
  BY ClientAssumption
<1>2. t.step \in Writing \/ ~t.grab => lock2 = q /\ prom2 = prom
  BY <1>1 DEF TaskOK
<1>3. t.cmd \in Tells /\ t.step \in Saving => t.arg[1] \in Pools /\ Knows(ks2, t.arg)
  BY KeysKept DEF TaskOK, Pools
<1>4. t.step \in {"writeTxns", "bytes"} => t.step \in Writing
  BY DEF Writing
<1> QED
  BY <1>2, <1>3, <1>4 DEF TaskOK

(* A step of thread p *)
LEMMA StepKeeps ==
  ASSUME Inv, running, NEW p \in Tasks, NEW Y, NEW r \in TaskIn(Y),
         task' = [task EXCEPT ![p] = r], running' = running,
         IsKeys(keys'), Keeps(keys, keys'),
         syncLock' = syncLock \/ syncLock \in {Nobody, p},
         promised' = promised \/ syncLock = p, \A a \in promised' : a[1] \in Pools,
         file'.whole => IsKeys(file'.keys), PromisedKept',
         TaskOK(r, p, keys', promised', syncLock')
  PROVE  Inv'
<1>1. \E X : task' \in [Tasks -> TaskIn(X)]
  <2>1. PICK X : task \in [Tasks -> TaskIn(X)]
    BY DEF Inv
  <2>2. TaskIn(X) \subseteq TaskIn(X \cup Y) /\ TaskIn(Y) \subseteq TaskIn(X \cup Y)
    BY DEF TaskIn
  <2>3. task' \in [Tasks -> TaskIn(X \cup Y)]
    BY <2>1, <2>2
  <2> QED BY <2>3
<1>2. task'[p] = r /\ \A q \in Tasks : q # p => task'[q] = task[q]
  BY DEF Inv
<1>3. ASSUME NEW q \in Tasks PROVE TaskOK(task'[q], q, keys', promised', syncLock')
  <2>1. CASE q = p
    BY <1>2, <2>1
  <2>2. CASE q # p
    <3>1. TaskOK(task[q], q, keys, promised, syncLock)
      BY DEF Inv
    <3> QED BY <1>2, <2>2, <3>1, OthersOK
  <2> QED BY <2>1, <2>2
<1> QED
  BY <1>1, <1>3 DEF Inv

(* The promises stay kept when no file is completed and no address dropped. *)
LEMMA StillKept ==
  ASSUME Inv, running, running' = running, promised' = promised, Keeps(keys, keys'),
         file' = file \/ ~file'.whole
  PROVE  PromisedKept' /\ (\A a \in promised' : a[1] \in Pools)
                       /\ (file'.whole => IsKeys(file'.keys))
<1>1. ASSUME NEW a \in promised
      PROVE  (running' => Knows(keys', a)) /\ (file'.whole => Knows(file'.keys, a))
  <2>1. a[1] \in {"u", "z", "t"} /\ Knows(keys, a) /\ (file.whole => Knows(file.keys, a))
    BY DEF Inv, PromisedKept, Pools
  <2>2. Knows(keys', a)
    BY <2>1, KeysKept
  <2> QED BY <2>1, <2>2
<1> QED
  BY <1>1 DEF Inv, PromisedKept

(* A step that promises nothing and completes no file, and ends the command *)
(* or brings it to its next step                                            *)
LEMMA EndKeeps ==
  ASSUME Inv, running, NEW p \in Tasks, End(p), running' = running, promised' = promised,
         IsKeys(keys'), Keeps(keys, keys'),
         syncLock' = syncLock \/ syncLock \in {Nobody, p},
         file' = file \/ ~file'.whole
  PROVE  Inv'
<1>1. PICK Y : Idle \in TaskIn(Y)
  BY IdleIn
<1>2. TaskOK(Idle, p, keys', promised', syncLock')
  BY IdleOK
<1>3. task' = [task EXCEPT ![p] = Idle]
  BY DEF End
<1> QED
  BY <1>1, <1>2, <1>3, StillKept, StepKeeps

LEMMA GotoKeeps ==
  ASSUME Inv, running, NEW p \in Tasks, NEW s \in Steps, Goto(p, s),
         running' = running, promised' = promised,
         IsKeys(keys'), Keeps(keys, keys'),
         syncLock' = syncLock \/ syncLock \in {Nobody, p},
         file' = file \/ ~file'.whole,
         TaskOK([task[p] EXCEPT !.step = s], p, keys', promised', syncLock')
  PROVE  Inv'
<1> DEFINE r == [task[p] EXCEPT !.step = s]
<1>1. PICK X : task \in [Tasks -> TaskIn(X)]
  BY DEF Inv
<1>2. r \in TaskIn(X)
  <2>1. task[p] \in TaskIn(X)
    BY <1>1
  <2> QED BY <2>1 DEF TaskIn
<1>3. task' = [task EXCEPT ![p] = r]
  BY DEF Goto
<1> HIDE DEF r
<1>4. TaskOK(r, p, keys', promised', syncLock')
  BY DEF r
<1> QED
  BY <1>2, <1>3, <1>4, StillKept, StepKeeps

(* The commands of one step: no thread is disturbed. *)
LEMMA QuietKeeps ==
  ASSUME Inv, running, UNCHANGED <<running, syncLock, task, file, promised>>,
         IsKeys(keys'), Keeps(keys, keys')
  PROVE  Inv'
<1>1. \E X : task' \in [Tasks -> TaskIn(X)]
  BY DEF Inv
<1>2. ASSUME NEW q \in Tasks PROVE TaskOK(task'[q], q, keys', promised', syncLock')
  <2>1. TaskOK(task[q], q, keys, promised, syncLock)
    BY DEF Inv
  <2>2. task[q].cmd \in Tells /\ task[q].step \in Saving =>
          task[q].arg[1] \in Pools /\ Knows(keys', task[q].arg)
    BY <2>1, KeysKept DEF TaskOK, Pools
  <2> QED BY <2>1, <2>2 DEF TaskOK
<1>3. PromisedKept'
  BY StillKept
<1> QED
  BY <1>1, <1>2, <1>3 DEF Inv

-----------------------------------------------------------------------------
(* The initial state *)

LEMMA InitInv == Init => Inv
<1> SUFFICES ASSUME Init PROVE Inv
  OBVIOUS
<1>1. IsKeys(keys) /\ IsKeys(file.keys)
  BY ClientAssumption, NewIsKeys DEF Init
<1>2. \E X : task \in [Tasks -> TaskIn(X)]
  BY IdleIn DEF Init
<1>3. \A p \in Tasks : task[p] = Idle
  BY DEF Init
<1>4. \A p \in Tasks : TaskOK(task[p], p, keys, promised, syncLock)
  BY <1>3, IdleOK
<1>5. promised = {} /\ running = TRUE
  BY DEF Init
<1>6. PromisedKept
  BY <1>5 DEF PromisedKept
<1> QED
  BY <1>1, <1>2, <1>3, <1>4, <1>5, <1>6 DEF Inv

-----------------------------------------------------------------------------
(* The commands the caller gives *)

LEMMA Untouched == ASSUME Inv, running, UNCHANGED keys PROVE IsKeys(keys') /\ Keeps(keys, keys')
BY DEF Inv, Keeps

LEMMA KeyCommandInv ==
  ASSUME Inv, EncryptCommand \/ UnlockCommand \/ LockCommand \/ DecryptCommand
  PROVE  Inv'
<1>1. running /\ IsKeys(keys)
  BY DEF EncryptCommand, UnlockCommand, LockCommand, DecryptCommand, KeyCommand, CallerFree, Inv
<1>2. PICK S : keys \in KeysIn(S)
  BY <1>1 DEF IsKeys
<1>3. ASSUME NEW ks, Regrows(S, keys, ks)
      PROVE  Grows(keys, ks)
  BY <1>1, <1>3 DEF Regrows, Grows, IsKeys
<1>4. UNCHANGED <<running, syncLock, task, file, promised>> /\ Grows(keys, keys')
  <2>1. CASE EncryptCommand
    BY <1>2, <1>3, <2>1, EncryptRegrows DEF EncryptCommand, KeyCommand
  <2>2. CASE UnlockCommand
    BY <1>2, <1>3, <2>2, UnlockRegrows DEF UnlockCommand, KeyCommand
  <2>3. CASE LockCommand
    BY <1>2, <1>3, <2>3, LockRegrows DEF LockCommand, KeyCommand
  <2>4. CASE DecryptCommand
    BY <1>2, <1>3, <2>4, RemoveEncryptionRegrows DEF DecryptCommand, KeyCommand
  <2> QED BY <2>1, <2>2, <2>3, <2>4
<1> QED
  BY <1>1, <1>4, QuietKeeps DEF Grows

LEMMA BeginIn ==
  ASSUME NEW cmd \in Commands, NEW step \in Steps, NEW arg
  PROVE  \E Y : LET t == Begin(cmd, step, arg)
                IN t \in TaskIn(Y) /\ t.cmd = cmd /\ t.step = step /\ t.arg = arg /\ t.grab
<1>1. PICK Y : Idle \in TaskIn(Y)
  BY IdleIn
<1>2. Idle.grab = TRUE
  BY DEF Idle
<1> HIDE DEF Idle
<1>3. Begin(cmd, step, arg) \in TaskIn(Y \cup {arg})
  BY <1>1 DEF Begin, TaskIn
<1> QED
  BY <1>1, <1>2, <1>3 DEF Begin, TaskIn

LEMMA StartInv ==
  ASSUME Inv, running, NEW p \in Tasks, NEW cmd \in Commands, NEW step \in Steps, NEW arg,
         StartCommand(p, Begin(cmd, step, arg)),
         step \notin Saving \/ cmd \notin Tells, step \notin Writing, step # "batch",
         step \in {"sync", "clear"} => cmd \notin Tells,
         step = "derive" => cmd = "new" /\ arg[1] \in Pools,
         step \in {"mayImport", "push"} => arg[1] \in {"tk", "sk", "vk"}
  PROVE  Inv'
<1> DEFINE t == Begin(cmd, step, arg)
<1>1. PICK Y : t \in TaskIn(Y) /\ t.cmd = cmd /\ t.step = step /\ t.arg = arg /\ t.grab
  BY BeginIn
<1>2. task' = [task EXCEPT ![p] = t] /\ UNCHANGED <<running, keys, syncLock, file, promised>>
  BY DEF StartCommand
<1> HIDE DEF t
<1>3. TaskOK(t, p, keys', promised', syncLock')
  BY <1>1 DEF TaskOK, Writing
<1>4. IsKeys(keys') /\ Keeps(keys, keys')
  BY <1>2, Untouched
<1> QED
  BY <1>1, <1>2, <1>3, <1>4, StillKept, StepKeeps

LEMMA CommandInv ==
  ASSUME Inv, SaveCommand \/ NewAddressCommand
                \/ \E p \in Background : SyncCommand(p) \/ RescanCommand(p) \/ ImportCommand(p)
  PROVE  Inv'
<1>1. User \in Tasks /\ Background \subseteq Tasks
  BY DEF Tasks
<1>2. CASE SaveCommand
  BY <1>1, <1>2, StartInv DEF SaveCommand, CallerFree, Commands, Steps, Saving, Writing, Tells
<1>3. CASE NewAddressCommand
  <2>1. PICK pool \in NewPools : StartCommand(User, Begin("new", "derive", <<pool, 0>>))
    BY <1>3 DEF NewAddressCommand
  <2>2. running /\ pool \in Pools
    BY <1>3, ClientAssumption DEF NewAddressCommand, CallerFree, Pools
  <2> QED BY <1>1, <2>1, <2>2, StartInv DEF Commands, Steps, Saving, Writing
<1>4. ASSUME NEW p \in Background, SyncCommand(p)
      PROVE  Inv'
  BY <1>1, <1>4, StartInv DEF SyncCommand, Commands, Steps, Saving, Writing, Tells
<1>5. ASSUME NEW p \in Background, RescanCommand(p)
      PROVE  Inv'
  BY <1>1, <1>5, StartInv DEF RescanCommand, CallerFree, Commands, Steps, Saving, Writing, Tells
<1>6. ASSUME NEW p \in Background, ImportCommand(p)
      PROVE  Inv'
  <2>1. PICK x \in Imports, kind \in {"tk", "sk", "vk"} :
           StartCommand(p, Begin("import", "mayImport", <<kind, x>>))
    BY <1>6 DEF ImportCommand
  <2>2. running
    BY <1>6 DEF ImportCommand, CallerFree
  <2> QED BY <1>1, <2>1, <2>2, StartInv DEF Commands, Steps, Saving, Writing
<1> QED
  BY <1>2, <1>3, <1>4, <1>5, <1>6

-----------------------------------------------------------------------------
(* The steps of a thread *)

LEMMA TaskKnown ==
  ASSUME Inv, running, NEW p \in Tasks
  PROVE  /\ \E X : task[p] \in TaskIn(X)
         /\ TaskOK(task[p], p, keys, promised, syncLock)
         /\ IsKeys(keys)
BY DEF Inv

LEMMA StepTo ==
  ASSUME NEW X, NEW t \in TaskIn(X), NEW s
  PROVE  LET r == [t EXCEPT !.step = s]
         IN r.step = s /\ r.cmd = t.cmd /\ r.arg = t.arg /\ r.buf = t.buf /\ r.grab = t.grab
BY DEF TaskIn

(* A step that neither the lock nor the keys are touched by, to one that asks *)
(* nothing of the thread but what it knew                                    *)
LEMMA MoveInv ==
  ASSUME Inv, running, NEW p \in Tasks, NEW s \in Steps, Goto(p, s),
         UNCHANGED <<running, keys, syncLock, file, promised>>,
         \/ task[p].step \in Saving \ {"bytes"} /\ s \in {"relock2", "relock3", "grab"}
         \/ task[p].step = "mayImport" /\ s = "push"
         \/ task[p].step = "clear" /\ s = "sync"
         \/ task[p].step = "write" /\ s = "writeKeys"
  PROVE  Inv'
<1> DEFINE t == task[p]
<1> DEFINE r == [t EXCEPT !.step = s]
<1>1. PICK X : t \in TaskIn(X)
  BY TaskKnown
<1>2. TaskOK(t, p, keys, promised, syncLock) /\ IsKeys(keys') /\ Keeps(keys, keys')
  BY TaskKnown, Untouched
<1> HIDE DEF t
<1>3. r.step = s /\ r.cmd = t.cmd /\ r.arg = t.arg /\ r.buf = t.buf /\ r.grab = t.grab
  BY <1>1, StepTo
<1> HIDE DEF r
<1>4. TaskOK(r, p, keys', promised', syncLock')
  BY <1>2, <1>3 DEF TaskOK, Saving, Writing, t
<1>5. TaskOK([task[p] EXCEPT !.step = s], p, keys', promised', syncLock')
  BY <1>4 DEF r, t
<1> QED
  BY <1>2, <1>5, GotoKeeps

LEMMA MoveStepsInv ==
  ASSUME Inv, NEW p \in Tasks,
         MayImport(p) \/ ClearState(p) \/ SeeEncrypted(p) \/ SeeUnlocked(p)
  PROVE  Inv'
<1>1. running /\ UNCHANGED <<running, keys, syncLock, file, promised>>
  BY DEF MayImport, ClearState, SeeEncrypted, SeeUnlocked, At
<1>2. End(p) \/ \E s \in Steps :
        /\ Goto(p, s)
        /\ \/ task[p].step \in Saving \ {"bytes"} /\ s \in {"relock2", "relock3", "grab"}
           \/ task[p].step = "mayImport" /\ s = "push"
           \/ task[p].step = "clear" /\ s = "sync"
  <2>1. CASE MayImport(p)
    BY <2>1 DEF MayImport, At, Steps
  <2>2. CASE ClearState(p)
    BY <2>2 DEF ClearState, At, Steps
  <2>3. CASE SeeEncrypted(p)
    BY <2>3 DEF SeeEncrypted, At, Steps, Saving
  <2>4. CASE SeeUnlocked(p)
    BY <2>4 DEF SeeUnlocked, At, Steps, Saving
  <2> QED BY <2>1, <2>2, <2>3, <2>4
<1>3. IsKeys(keys') /\ Keeps(keys, keys')
  BY <1>1, Untouched
<1> QED
  BY <1>1, <1>2, <1>3, MoveInv, EndKeeps

LEMMA FailsInv ==
  ASSUME Inv, running, NEW p \in Tasks, Fails(p), UNCHANGED <<running, file, promised>>,
         IsKeys(keys'), Keeps(keys, keys')
  PROVE  Inv'
<1>1. End(p) /\ (syncLock' = syncLock \/ syncLock \in {Nobody, p})
  BY DEF Fails
<1> QED
  BY <1>1, EndKeeps

LEMMA FailStepsInv ==
  ASSUME Inv, NEW p \in Tasks, FailBatch(p) \/ ReadUnlocked(p)
  PROVE  Inv'
<1>1. running /\ UNCHANGED <<running, keys, file, promised>>
  BY DEF FailBatch, ReadUnlocked, At
<1>2. IsKeys(keys') /\ Keeps(keys, keys')
  BY <1>1, Untouched
<1>3. CASE Fails(p)
  BY <1>1, <1>2, <1>3, FailsInv
<1>4. CASE ~Fails(p)
  <2>1. task[p].step = "write" /\ Goto(p, "writeKeys") /\ UNCHANGED syncLock
    BY <1>4 DEF FailBatch, ReadUnlocked, At
  <2> QED BY <1>1, <2>1, MoveInv DEF Steps
<1> QED
  BY <1>3, <1>4

LEMMA LockAgainInv == ASSUME Inv, NEW p \in Tasks, LockAgain(p) PROVE Inv'
<1>1. running /\ UNCHANGED <<running, file, promised>> /\ keys' = Lock(keys)
      /\ task[p].step = "relock3"
  BY DEF LockAgain, At
<1>2. IsKeys(keys') /\ Keeps(keys, keys')
  <2>1. PICK S : keys \in KeysIn(S)
    BY <1>1, TaskKnown DEF IsKeys
  <2>2. Regrows(S, keys, keys')
    BY <1>1, <2>1, LockRegrows
  <2> QED BY <1>1, <2>2, TaskKnown DEF Regrows, IsKeys
<1>3. CASE Fails(p)
  BY <1>1, <1>2, <1>3, FailsInv
<1>4. CASE ~Fails(p)
  <2>1. Goto(p, "grab") /\ UNCHANGED syncLock
    BY <1>4 DEF LockAgain
  <2> DEFINE t == task[p]
  <2> DEFINE r == [t EXCEPT !.step = "grab"]
  <2>2. PICK X : t \in TaskIn(X)
    BY <1>1, TaskKnown
  <2>3. TaskOK(t, p, keys, promised, syncLock) /\ t.step = "relock3"
    BY <1>1, TaskKnown
  <2> HIDE DEF t
  <2>4. r.step = "grab" /\ r.cmd = t.cmd /\ r.arg = t.arg /\ r.buf = t.buf /\ r.grab = t.grab
    BY <2>2, StepTo
  <2>5. t.cmd \in Tells => t.arg[1] \in Pools /\ Knows(keys', t.arg)
    BY <1>2, <2>3, KeysKept DEF TaskOK, Saving, Pools
  <2> HIDE DEF r
  <2>6. TaskOK(r, p, keys', promised', syncLock')
    BY <1>1, <2>1, <2>3, <2>4, <2>5 DEF TaskOK, Saving, Writing
  <2>7. TaskOK([task[p] EXCEPT !.step = "grab"], p, keys', promised', syncLock')
    BY <2>6 DEF r, t
  <2> QED BY <1>1, <1>2, <2>1, <2>7, GotoKeeps DEF Steps
<1> QED
  BY <1>3, <1>4

LEMMA LockSyncInv == ASSUME Inv, NEW p \in Tasks, LockSync(p) PROVE Inv'
<1> DEFINE t == task[p]
<1>1. /\ running /\ t.step = "sync" /\ syncLock' = p /\ syncLock = Nobody
      /\ UNCHANGED <<running, keys, file, promised>>
  BY DEF LockSync, At
<1>2. PICK X : t \in TaskIn(X)
  BY <1>1, TaskKnown
<1>3. TaskOK(t, p, keys, promised, syncLock)
  BY <1>1, TaskKnown
<1>4. PICK n \in 1..MaxBatches :
         task' = [task EXCEPT ![p] = [t EXCEPT !.step = "batch", !.left = n, !.grab = FALSE]]
  BY DEF LockSync
<1> DEFINE r == [t EXCEPT !.step = "batch", !.left = n, !.grab = FALSE]
<1> HIDE DEF t
<1>5. r.step = "batch" /\ r.grab = FALSE /\ r.cmd = t.cmd
  BY <1>2 DEF TaskIn
<1>6. r \in TaskIn(X \cup {n})
  BY <1>2 DEF TaskIn, Steps
<1> HIDE DEF r
<1>7. TaskOK(r, p, keys', promised', syncLock')
  BY <1>1, <1>3, <1>5 DEF TaskOK, Saving, Writing
<1>8. IsKeys(keys') /\ Keeps(keys, keys')
  BY <1>1, Untouched
<1>9. task' = [task EXCEPT ![p] = r]
  BY <1>4 DEF r
<1> QED
  BY <1>1, <1>6, <1>7, <1>8, <1>9, StillKept, StepKeeps

LEMMA EndBatchInv == ASSUME Inv, NEW p \in Tasks, EndBatch(p) PROVE Inv'
<1> DEFINE t == task[p]
<1> DEFINE n == t.left - 1
<1> DEFINE r == [t EXCEPT !.step = "relock1", !.left = n]
<1>1. /\ running /\ t.step = "batch"
      /\ UNCHANGED <<running, keys, syncLock, file, promised>>
  BY DEF EndBatch, At
<1>2. PICK X : t \in TaskIn(X)
  BY <1>1, TaskKnown
<1>3. TaskOK(t, p, keys, promised, syncLock)
  BY <1>1, TaskKnown
<1>4. task' = [task EXCEPT ![p] = r]
  BY DEF EndBatch
<1> HIDE DEF t, n
<1>5. r.step = "relock1" /\ r.grab = t.grab /\ r.cmd = t.cmd
  BY <1>2 DEF TaskIn
<1>6. r \in TaskIn(X \cup {n})
  BY <1>2 DEF TaskIn, Steps
<1> HIDE DEF r
<1>7. TaskOK(r, p, keys', promised', syncLock')
  BY <1>1, <1>3, <1>5 DEF TaskOK, Saving, Writing
<1>8. IsKeys(keys') /\ Keeps(keys, keys')
  BY <1>1, Untouched
<1> QED
  BY <1>1, <1>4, <1>6, <1>7, <1>8, StillKept, StepKeeps

LEMMA DeriveInv == ASSUME Inv, NEW p \in Tasks, Derive(p) PROVE Inv'
<1> DEFINE t == task[p]
<1> DEFINE pool == t.arg[1]
<1> DEFINE more == Pool(AddAddress(keys, pool), pool)
<1> DEFINE a == <<pool, more[Len(more)].id>>
<1> DEFINE r == [t EXCEPT !.step = "relock1", !.arg = a]
<1>1. /\ running /\ t.step = "derive"
      /\ UNCHANGED <<running, syncLock, file, promised>>
  BY DEF Derive, At
<1>2. PICK X : t \in TaskIn(X)
  BY <1>1, TaskKnown
<1>3. TaskOK(t, p, keys, promised, syncLock) /\ IsKeys(keys)
  BY <1>1, TaskKnown
<1>4. CASE ~keys.unlocked
  <2>1. End(p) /\ UNCHANGED keys
    BY <1>4 DEF Derive
  <2> QED BY <1>1, <2>1, Untouched, EndKeeps
<1>5. CASE keys.unlocked
  <2>1. keys' = AddAddress(keys, pool) /\ task' = [task EXCEPT ![p] = r]
    BY <1>5 DEF Derive
  <2>2. t.cmd = "new" /\ pool \in {"u", "z", "t"} /\ t.grab
    BY <1>1, <1>3 DEF TaskOK, Pools, Tells
  <2>3. Grows(keys, keys') /\ Knows(keys', a)
    BY <1>3, <1>5, <2>1, <2>2, AddAddressGrows
  <2>4. a[1] \in Pools
    BY <2>2 DEF Pools
  <2> HIDE DEF a, t
  <2>5. r.step = "relock1" /\ r.grab = t.grab /\ r.cmd = t.cmd /\ r.arg = a
    BY <1>2 DEF TaskIn
  <2>6. r \in TaskIn(X \cup {a})
    BY <1>2 DEF TaskIn, Steps
  <2> HIDE DEF r
  <2>7. TaskOK(r, p, keys', promised', syncLock')
    BY <2>2, <2>3, <2>4, <2>5 DEF TaskOK, Saving, Writing
  <2> QED BY <1>1, <2>1, <2>3, <2>6, <2>7, StillKept, StepKeeps DEF Grows
<1> QED
  BY <1>4, <1>5

LEMMA PushKeyInv == ASSUME Inv, NEW p \in Tasks, PushKey(p) PROVE Inv'
<1> DEFINE t == task[p]
<1> DEFINE kind == t.arg[1]
<1> DEFINE x == t.arg[2]
<1> DEFINE a == <<IF kind = "tk" THEN "t" ELSE "z", x>>
<1> DEFINE r == [t EXCEPT !.step = "relock1", !.arg = a]
<1>1. /\ running /\ t.step = "push"
      /\ UNCHANGED <<running, syncLock, file, promised>>
  BY DEF PushKey, At
<1>2. PICK X : t \in TaskIn(X)
  BY <1>1, TaskKnown
<1>3. TaskOK(t, p, keys, promised, syncLock) /\ IsKeys(keys)
  BY <1>1, TaskKnown
<1>4. /\ keys' = CASE kind = "tk" -> AddImportedTk(keys, x)
                   [] kind = "sk" -> AddImportedSk(keys, x)
                   [] kind = "vk" -> AddImportedVk(keys, x)
      /\ task' = [task EXCEPT ![p] = r]
  BY DEF PushKey
<1>5. kind \in {"tk", "sk", "vk"}
  BY <1>1, <1>3 DEF TaskOK
<1>6. Grows(keys, keys') /\ Knows(keys', a)
  <2> HIDE DEF t
  <2>1. /\ Grows(keys, AddImportedTk(keys, x)) /\ x \in Ids(AddImportedTk(keys, x).t)
        /\ Grows(keys, AddImportedSk(keys, x)) /\ x \in Ids(AddImportedSk(keys, x).z)
        /\ Grows(keys, AddImportedVk(keys, x)) /\ x \in Ids(AddImportedVk(keys, x).z)
    BY <1>3, ImportGrows
  <2> HIDE DEF x, kind
  <2>2. CASE kind = "tk"
    BY <1>4, <2>1, <2>2 DEF Knows, Pool
  <2>3. CASE kind = "sk"
    BY <1>4, <2>1, <2>3 DEF Knows, Pool
  <2>4. CASE kind = "vk"
    BY <1>4, <2>1, <2>4 DEF Knows, Pool
  <2> QED BY <1>5, <2>2, <2>3, <2>4
<1>7. a[1] \in Pools
  BY DEF Pools
<1> HIDE DEF a, t
<1>8. r.step = "relock1" /\ r.grab = t.grab /\ r.cmd = t.cmd /\ r.arg = a
  BY <1>2 DEF TaskIn
<1>9. r \in TaskIn(X \cup {a})
  BY <1>2 DEF TaskIn, Steps
<1> HIDE DEF r
<1>10. TaskOK(r, p, keys', promised', syncLock')
  BY <1>1, <1>3, <1>6, <1>7, <1>8 DEF TaskOK, Saving, Writing
<1> QED
  BY <1>1, <1>4, <1>6, <1>9, <1>10, StillKept, StepKeeps DEF Grows

LEMMA GrabLockInv == ASSUME Inv, NEW p \in Tasks, GrabLock(p) PROVE Inv'
<1> DEFINE t == task[p]
<1>1. /\ running /\ t.step = "grab" /\ syncLock' = p /\ (t.grab => syncLock = Nobody)
      /\ UNCHANGED <<running, keys, file, promised>>
  BY DEF GrabLock, At, MayWrite
<1>2. PICK s \in {"write", "writeKeys"} : Goto(p, s)
  BY DEF GrabLock
<1> DEFINE r == [t EXCEPT !.step = s]
<1>3. PICK X : t \in TaskIn(X)
  BY <1>1, TaskKnown
<1>4. TaskOK(t, p, keys, promised, syncLock)
  BY <1>1, TaskKnown
<1>5. IsKeys(keys') /\ Keeps(keys, keys')
  BY <1>1, Untouched
<1> HIDE DEF t
<1>6. r.step = s /\ r.cmd = t.cmd /\ r.arg = t.arg /\ r.buf = t.buf /\ r.grab = t.grab
  BY <1>3, StepTo
<1> HIDE DEF r
<1>7. syncLock \in {Nobody, p}
  BY <1>1, <1>4 DEF TaskOK
<1>8. TaskOK(r, p, keys', promised', syncLock')
  BY <1>1, <1>4, <1>6 DEF TaskOK, Saving, Writing
<1>9. TaskOK([task[p] EXCEPT !.step = s], p, keys', promised', syncLock')
  BY <1>8 DEF r, t
<1> QED
  BY <1>1, <1>2, <1>5, <1>7, <1>9, GotoKeeps DEF Steps

(* The copy of the keys has what was promised, and what is going to be. *)
LEMMA WriteKeysInv == ASSUME Inv, NEW p \in Tasks, WriteKeys(p) PROVE Inv'
<1> DEFINE t == task[p]
<1> DEFINE k == keys
<1> DEFINE r == [t EXCEPT !.step = "writeTxns", !.buf.keys = k]
<1>1. /\ running /\ t.step = "writeKeys" /\ task' = [task EXCEPT ![p] = r]
      /\ UNCHANGED <<running, keys, syncLock, file, promised>>
  BY DEF WriteKeys, At
<1>2. PICK X : t \in TaskIn(X)
  BY <1>1, TaskKnown
<1>3. TaskOK(t, p, keys, promised, syncLock) /\ IsKeys(keys)
  BY <1>1, TaskKnown
<1>4. \A a \in promised : Knows(keys, a)
  BY <1>1 DEF Inv, PromisedKept
<1>5. IsKeys(keys') /\ Keeps(keys, keys')
  BY <1>1, Untouched
<1> HIDE DEF t, k
<1>6. r.step = "writeTxns" /\ r.cmd = t.cmd /\ r.arg = t.arg /\ r.buf.keys = k /\ r.grab = t.grab
  BY <1>2 DEF TaskIn
<1>7. r \in TaskIn(X \cup {k})
  BY <1>2 DEF TaskIn, Steps
<1> HIDE DEF r
<1>8. TaskOK(r, p, keys', promised', syncLock')
  BY <1>1, <1>3, <1>4, <1>6 DEF TaskOK, Saving, Writing, k
<1> QED
  BY <1>1, <1>5, <1>7, <1>8, StillKept, StepKeeps

LEMMA WriteTxnsInv == ASSUME Inv, NEW p \in Tasks, WriteTxns(p) PROVE Inv'
<1> DEFINE t == task[p]
<1> DEFINE u == used
<1> DEFINE r == [t EXCEPT !.step = "bytes", !.buf.used = u]
<1>1. /\ running /\ t.step = "writeTxns" /\ task' = [task EXCEPT ![p] = r] /\ ~file'.whole
      /\ UNCHANGED <<running, keys, syncLock, promised>>
  BY DEF WriteTxns, At
<1>2. PICK X : t \in TaskIn(X)
  BY <1>1, TaskKnown
<1>3. TaskOK(t, p, keys, promised, syncLock) /\ IsKeys(keys') /\ Keeps(keys, keys')
  BY <1>1, TaskKnown, Untouched
<1> HIDE DEF t, u
<1>4. r.step = "bytes" /\ r.cmd = t.cmd /\ r.arg = t.arg /\ r.buf.keys = t.buf.keys /\ r.grab = t.grab
  BY <1>2 DEF TaskIn
<1>5. r \in TaskIn(X \cup {u})
  BY <1>2 DEF TaskIn, Steps
<1> HIDE DEF r
<1>6. TaskOK(r, p, keys', promised', syncLock')
  BY <1>1, <1>3, <1>4 DEF TaskOK, Saving, Writing
<1> QED
  BY <1>1, <1>3, <1>5, <1>6, StillKept, StepKeeps

(* The file is complete, and the command's address is promised. *)
LEMMA WriteFileInv == ASSUME Inv, NEW p \in Tasks, WriteFile(p) PROVE Inv'
<1> DEFINE t == task[p]
<1> DEFINE done == [t EXCEPT !.buf = Empty]
<1>1. /\ running /\ t.step = "bytes" /\ AfterSave(p)
      /\ file' = [whole |-> TRUE, keys |-> t.buf.keys, used |-> t.buf.used]
      /\ promised' = IF t.cmd \in Tells THEN promised \cup {t.arg} ELSE promised
      /\ UNCHANGED <<running, keys>>
  BY DEF WriteFile, At, Tells
<1>2. PICK X : t \in TaskIn(X)
  BY <1>1, TaskKnown
<1>3. TaskOK(t, p, keys, promised, syncLock) /\ IsKeys(keys') /\ Keeps(keys, keys')
  BY <1>1, TaskKnown, Untouched
<1>4. syncLock = p /\ syncLock' \in {p, Nobody}
  BY <1>1, <1>3 DEF TaskOK, Writing, AfterSave
<1>5. IsKeys(file'.keys) /\ \A a \in promised' : a[1] \in Pools /\ Knows(keys', a) /\ Knows(file'.keys, a)
  <2>1. \A a \in promised : a[1] \in Pools /\ Knows(keys, a)
    BY <1>1 DEF Inv, PromisedKept
  <2>2. \A a \in promised : Knows(t.buf.keys, a)
    BY <1>1, <1>3 DEF TaskOK
  <2>3. t.cmd \in Tells => t.arg[1] \in Pools /\ Knows(keys, t.arg) /\ Knows(t.buf.keys, t.arg)
    BY <1>1, <1>3 DEF TaskOK, Saving, Writing
  <2>4. IsKeys(t.buf.keys) /\ file'.keys = t.buf.keys
    BY <1>1, <1>3 DEF TaskOK
  <2> HIDE DEF t
  <2> QED BY <1>1, <2>1, <2>2, <2>3, <2>4
<1>6. PromisedKept'
  BY <1>5 DEF PromisedKept
<1>7. ASSUME NEW Y, NEW r \in TaskIn(Y), task' = [task EXCEPT ![p] = r],
             TaskOK(r, p, keys', promised', syncLock')
      PROVE  Inv'
  BY <1>1, <1>3, <1>4, <1>5, <1>6, <1>7, StepKeeps
<1>8. CASE End(p)
  BY <1>7, <1>8, IdleIn, IdleOK DEF End
<1>9. CASE t.grab /\ ~End(p)
  <2> DEFINE b == Begin("rescan", "clear", <<>>)
  <2>1. task' = [task EXCEPT ![p] = b]
    BY <1>1, <1>9 DEF AfterSave
  <2>2. PICK Y : b \in TaskIn(Y) /\ b.cmd = "rescan" /\ b.step = "clear" /\ b.grab
    BY BeginIn DEF Commands, Steps
  <2> HIDE DEF b
  <2>3. TaskOK(b, p, keys', promised', syncLock')
    BY <2>2 DEF TaskOK, Saving, Writing, Tells
  <2> QED BY <1>7, <2>1, <2>2, <2>3
<1>10. CASE ~t.grab /\ ~End(p)
  <2> DEFINE e == Empty
  <2>1. e \in [keys : {e.keys}, used : {e.used}]
    BY DEF Empty
  <2>2. t.cmd \notin Tells
    BY <1>3, <1>10 DEF TaskOK
  <2>3. \/ syncLock' = p /\ task' = [task EXCEPT ![p] = [[t EXCEPT !.buf = e] EXCEPT !.step = "batch"]]
        \/ task' = [task EXCEPT ![p] = [[t EXCEPT !.buf = e] EXCEPT !.step = "relock1", !.grab = TRUE]]
    BY <1>1, <1>10 DEF AfterSave
  <2> HIDE DEF e, t
  <2>4. CASE syncLock' = p /\ task' = [task EXCEPT ![p] = [[t EXCEPT !.buf = e] EXCEPT !.step = "batch"]]
    <3> DEFINE r == [[t EXCEPT !.buf = e] EXCEPT !.step = "batch"]
    <3>1. r \in TaskIn(X \cup {e.keys, e.used}) /\ r.step = "batch" /\ r.grab = t.grab /\ r.cmd = t.cmd
      BY <1>2, <2>1 DEF TaskIn, Steps
    <3> HIDE DEF r
    <3>2. TaskOK(r, p, keys', promised', syncLock')
      BY <1>10, <2>2, <2>4, <3>1 DEF TaskOK, Saving, Writing
    <3> QED BY <1>7, <2>4, <3>1, <3>2 DEF r
  <2>5. CASE task' = [task EXCEPT ![p] = [[t EXCEPT !.buf = e] EXCEPT !.step = "relock1", !.grab = TRUE]]
    <3> DEFINE r == [[t EXCEPT !.buf = e] EXCEPT !.step = "relock1", !.grab = TRUE]
    <3>1. r \in TaskIn(X \cup {e.keys, e.used}) /\ r.step = "relock1" /\ r.grab = TRUE /\ r.cmd = t.cmd
      BY <1>2, <2>1 DEF TaskIn, Steps
    <3> HIDE DEF r
    <3>2. TaskOK(r, p, keys', promised', syncLock')
      BY <1>10, <2>2, <3>1 DEF TaskOK, Saving, Writing
    <3> QED BY <1>7, <2>5, <3>1, <3>2 DEF r
  <2> QED BY <2>3, <2>4, <2>5
<1> QED
  BY <1>8, <1>9, <1>10

-----------------------------------------------------------------------------
(* What a sync finds, and the program that stops and starts *)

LEMMA FindAddressInv == ASSUME Inv, NEW p \in Tasks, FindAddress(p) PROVE Inv'
<1>1. running /\ UNCHANGED <<running, syncLock, task, file, promised>> /\ IsKeys(keys)
  BY DEF FindAddress, At, Inv
<1>2. PICK n \in Nat : keys' = EnsureHdTaddresses(keys, n)
  BY ClientAssumption DEF FindAddress
<1>3. Grows(keys, keys')
  BY <1>1, <1>2, EnsureGrows
<1> QED
  BY <1>1, <1>3, QuietKeeps DEF Grows

LEMMA StopInv == ASSUME Inv, Stop PROVE Inv'
<1>1. running' = FALSE /\ task' = [p \in Tasks |-> Idle] /\ UNCHANGED <<file, promised>>
  BY DEF Stop
<1>2. PICK Y : Idle \in TaskIn(Y)
  BY IdleIn
<1>3. \E X : task' \in [Tasks -> TaskIn(X)]
  BY <1>1, <1>2
<1>4. \A p \in Tasks : task'[p] = Idle /\ TaskOK(task'[p], p, keys', promised', syncLock')
  BY <1>1, IdleOK
<1>5. PromisedKept'
  BY <1>1 DEF Inv, PromisedKept
<1> QED
  BY <1>1, <1>3, <1>4, <1>5 DEF Inv

LEMMA LaunchInv == ASSUME Inv, Launch PROVE Inv'
<1>1. /\ ~running /\ file.whole /\ running' = TRUE /\ keys' = ReadWallet(file.keys)
      /\ UNCHANGED <<syncLock, task, file, promised>>
  BY DEF Launch
<1>2. Grows(file.keys, keys')
  BY <1>1, ReadGrows DEF Inv
<1>3. \A p \in Tasks : task'[p] = Idle /\ TaskOK(task'[p], p, keys', promised', syncLock')
  BY <1>1, IdleOK DEF Inv
<1>4. ASSUME NEW a \in promised
      PROVE  a[1] \in Pools /\ Knows(file.keys, a) /\ Knows(keys', a)
  <2>1. a[1] \in Pools /\ Knows(file.keys, a)
    BY <1>1 DEF Inv, PromisedKept
  <2> QED BY <1>2, <2>1, KeysKept DEF Grows, Pools
<1>5. PromisedKept'
  BY <1>1, <1>4 DEF PromisedKept
<1> QED
  BY <1>1, <1>2, <1>3, <1>5 DEF Inv, Grows

-----------------------------------------------------------------------------
(* The theorems *)

LEMMA NextInv == Inv /\ [Next]_vars => Inv'
<1> SUFFICES ASSUME Inv, [Next]_vars PROVE Inv'
  OBVIOUS
<1>1. CASE EncryptCommand \/ UnlockCommand \/ LockCommand \/ DecryptCommand
  BY <1>1, KeyCommandInv
<1>2. CASE SaveCommand \/ NewAddressCommand
             \/ \E p \in Background : SyncCommand(p) \/ RescanCommand(p) \/ ImportCommand(p)
  BY <1>2, CommandInv
<1>3. ASSUME NEW p \in Tasks, Step(p)
      PROVE  Inv'
  BY <1>3, DeriveInv, PushKeyInv, MoveStepsInv, LockSyncInv, EndBatchInv, FailStepsInv,
     LockAgainInv, GrabLockInv, WriteKeysInv, WriteTxnsInv, WriteFileInv DEF Step
<1>4. ASSUME NEW p \in Tasks, FindAddress(p)
      PROVE  Inv'
  BY <1>4, FindAddressInv
<1>5. CASE Stop \/ Launch
  BY <1>5, StopInv, LaunchInv
<1>6. CASE UNCHANGED vars
  BY <1>6 DEF vars, Inv, PromisedKept
<1> QED
  BY <1>1, <1>2, <1>3, <1>4, <1>5, <1>6 DEF Next

LEMMA InvCorrect == Spec => []Inv
BY InitInv, NextInv, PTL DEF Spec

(* An address or key the user was told the wallet has stays in memory and in *)
(* the file, whatever syncs, imports, saves and stops come between.          *)
THEOREM PromisedKeptCorrect == Spec => []PromisedKept
<1>1. Inv => PromisedKept
  BY DEF Inv
<1> QED
  BY <1>1, InvCorrect, PTL

(* Whatever commands are at work, the file is written by the thread that     *)
(* holds sync_lock only.                                                     *)
THEOREM OneWriterCorrect == Spec => []OneWriter
<1>1. Inv => OneWriter
  <2> SUFFICES ASSUME Inv PROVE OneWriter
    OBVIOUS
  <2>1. CASE running
    BY <2>1, TaskKnown DEF OneWriter, TaskOK, Writing
  <2>2. CASE ~running
    BY <2>2 DEF Inv, OneWriter, Idle
  <2> QED BY <2>1, <2>2
<1> QED
  BY <1>1, InvCorrect, PTL
=============================================================================
