------------------------------ MODULE WalletKeys ------------------------------
(***************************************************************************)
(* The keys of a wallet (lightwallet/keys.rs and wallet{z,t,o}key.rs) and   *)
(* what their operations do to them.  The whole of Keys is behind one       *)
(* RwLock, so an operation is one step of the modules that use this one.    *)
(*                                                                         *)
(* A key is named by its address: HD key n is the number n, a key of        *)
(* another wallet is an element of Foreign.  What is secret is modelled by  *)
(* where it is: key says that the spending key is in memory, enc is the     *)
(* password a copy is encrypted with.                                       *)
(***************************************************************************)
EXTENDS Integers, Sequences

CONSTANTS
  Passwords,  \* what the user may type
  NoPw,       \* no encrypted copy
  Foreign,    \* addresses that are not derived from this wallet's seed
  Gap         \* GAP_RULE_UNUSED_ADDRESSES

ASSUME KeyAssumption ==
  /\ NoPw \notin Passwords
  /\ Foreign \cap Nat = {}
  /\ Gap \in Nat

Address == Nat \cup Foreign

(* keytype, locked, whether extsk, key or sk is there, and enc_key.  The     *)
(* kinds are HdKey, ImportedSpendingKey (ImportedKey) and ImportedViewKey.  *)
Key  == [id : Address, kind : {"hd", "sk", "vk"}, locked : BOOLEAN, key : BOOLEAN,
         enc : Passwords \cup {NoPw}]

(* seed: is it in memory?  encSeed: the password enc_seed is encrypted with. *)
Keys == [encrypted : BOOLEAN, unlocked : BOOLEAN, seed : BOOLEAN,
         encSeed : Passwords \cup {NoPw}, o : Seq(Key), z : Seq(Key), t : Seq(Key)]

-----------------------------------------------------------------------------
(* One key *)

NewHdKey(n)          == [id |-> n, kind |-> "hd", locked |-> FALSE, key |-> TRUE, enc |-> NoPw]
NewImportedSk(x)     == [NewHdKey(x) EXCEPT !.kind = "sk"]
NewImportedViewKey(x) == [NewHdKey(x) EXCEPT !.kind = "vk", !.key = FALSE]

(* An imported key without an encrypted copy is an error. *)
CanLock(k) == k.kind = "sk" => k.enc # NoPw
LockKey(k) == [k EXCEPT !.key = FALSE, !.locked = TRUE]

(* A slip: the key is cleared before the copy is made. *)
EncryptNothing(k, p) == LockKey(k)

(* encrypt always locks; the copy is made only of what cannot be derived. *)
EncryptKey(k, p) == LockKey([k EXCEPT !.enc = IF k.kind = "sk" THEN p ELSE @])

(* HD keys are derived from the seed again, imported ones decrypted.  With   *)
(* another password, or without a copy to decrypt, this fails.               *)
CanUnlock(k, p) == k.kind = "sk" => k.enc = p
UnlockKey(k)    == [k EXCEPT !.key = (k.kind # "vk"), !.locked = FALSE]

CanRemoveEncryption(k) == ~k.locked
RemoveKeyEncryption(k) == [k EXCEPT !.enc = NoPw]

(* The keys of a list are visited in order, up to the first one that fails: *)
(* the ones before it have been changed.                                    *)
All(list, Ok(_))        == \A i \in DOMAIN list : Ok(list[i])
UpTo(list, Ok(_), F(_)) ==
  [i \in DOMAIN list |-> IF \A j \in 1..i : Ok(list[j]) THEN F(list[i]) ELSE list[i]]

-----------------------------------------------------------------------------
(* The wallet's keys *)

HdKeys(n) == [i \in 1..n |-> NewHdKey(i - 1)]

(* Keys::new: the first transparent key, and as many others as asked for *)
NewKeys(zaddrs, oaddrs) ==
  [encrypted |-> FALSE, unlocked |-> TRUE, seed |-> TRUE, encSeed |-> NoPw,
   o |-> HdKeys(oaddrs), z |-> HdKeys(zaddrs), t |-> HdKeys(1)]

(* Keys::lock: an error leaves the keys as far as they had come. *)
LockError(ks) == ~ks.encrypted \/ ~ks.unlocked
Lock(ks) ==
  IF LockError(ks) THEN ks
  ELSE LET t == UpTo(ks.t, CanLock, LockKey)
           z == IF All(ks.t, CanLock) THEN UpTo(ks.z, CanLock, LockKey) ELSE ks.z
       IN [ks EXCEPT !.seed = FALSE, !.t = t, !.z = z,
                     !.unlocked = ~(All(ks.t, CanLock) /\ All(ks.z, CanLock))]

(* Keys::encrypt encrypts and locks each key, then itself.  A view key or    *)
(* an unlocked key is there to be encrypted.                                 *)
Encrypt(ks, p) ==
  LET e(k) == EncryptKey(k, p)
  IN IF ks.encrypted THEN ks
     ELSE Lock([ks EXCEPT !.encSeed = p, !.encrypted = TRUE,
                          !.z = [i \in DOMAIN @ |-> e(@[i])], !.t = [i \in DOMAIN @ |-> e(@[i])]])

(* Keys::unlock; with a wrong password nothing changes. *)
Unlock(ks, p) ==
  LET ok(k) == CanUnlock(k, p)
  IN IF ~ks.encrypted \/ ks.unlocked \/ ks.encSeed # p THEN ks
     ELSE LET t  == UpTo(ks.t, ok, UnlockKey)
              z  == IF All(ks.t, ok) THEN UpTo(ks.z, ok, UnlockKey) ELSE ks.z
              ended == All(ks.t, ok) /\ All(ks.z, ok)
          IN [ks EXCEPT !.t = t, !.z = z, !.seed = ended, !.unlocked = ended]

(* A slip: the encryption is removed from a locked wallet as it is. *)
RemoveEncryptionLocked(ks, p) ==
  IF ~ks.encrypted \/ ks.encSeed # p THEN ks
  ELSE [ks EXCEPT !.encrypted = FALSE, !.encSeed = NoPw,
                  !.t = [i \in DOMAIN @ |-> RemoveKeyEncryption(@[i])],
                  !.z = [i \in DOMAIN @ |-> RemoveKeyEncryption(@[i])]]

(* Keys::remove_encryption unlocks a locked wallet first; of an unlocked one *)
(* it asks no password.                                                      *)
RemoveEncryption(ks, p) ==
  LET u == IF ks.unlocked THEN ks ELSE Unlock(ks, p)
      t == UpTo(u.t, CanRemoveEncryption, RemoveKeyEncryption)
      z == UpTo(u.z, CanRemoveEncryption, RemoveKeyEncryption)
      ok == All(u.t, CanRemoveEncryption) /\ All(u.z, CanRemoveEncryption)
  IN IF ~ks.encrypted \/ ~u.unlocked THEN u
     ELSE IF ~All(u.t, CanRemoveEncryption) THEN [u EXCEPT !.t = t]
     ELSE IF ~ok THEN [u EXCEPT !.t = t, !.z = z]
     ELSE [u EXCEPT !.t = t, !.z = z, !.encrypted = FALSE, !.encSeed = NoPw]

(* A slip: imported keys count as well. *)
NumberOfKeys(list) == Len(list)

(* The position after the highest HD key's *)
NextPosition(list) ==
  LET nums == {list[i].id : i \in {j \in DOMAIN list : list[j].kind = "hd"}}
  IN IF nums = {} THEN 0 ELSE 1 + CHOOSE n \in nums : \A m \in nums : m <= n

AddHdKey(list) == Append(list, NewHdKey(NextPosition(list)))

(* add_oaddr, add_zaddr, add_taddr: an error when the wallet is locked *)
AddAddress(ks, pool) ==
  IF ~ks.unlocked THEN ks
  ELSE CASE pool = "u" -> [ks EXCEPT !.o = AddHdKey(@)]
         [] pool = "z" -> [ks EXCEPT !.z = AddHdKey(@)]
         [] pool = "t" -> [ks EXCEPT !.t = AddHdKey(@)]

(* n HD keys more *)
AddHdKeys(list, n) == list \o [i \in 1..n |-> NewHdKey(NextPosition(list) + i - 1)]

(* A slip: one address too few. *)
EnsureTooFew(ks, n) ==
  LET top == NextPosition(ks.t) - 1
  IN IF ks.unlocked /\ n \in 0..top /\ top - n < Gap
       THEN [ks EXCEPT !.t = AddHdKeys(@, Gap - (top - n) - 1)] ELSE ks

(* ensure_hd_taddresses: HD address n was used.  If it is one of the last    *)
(* Gap, so many are added that Gap unused ones follow it.                    *)
EnsureHdTaddresses(ks, n) ==
  LET top == NextPosition(ks.t) - 1
  IN IF ks.unlocked /\ n \in 0..top /\ top - n < Gap
       THEN [ks EXCEPT !.t = AddHdKeys(@, Gap - (top - n))] ELSE ks

Ids(list) == {list[i].id : i \in DOMAIN list}

(* add_imported_tk, add_imported_sk and add_imported_vk, without the checks  *)
(* that come before: a view key that becomes a spending key stays in place.  *)
AddImportedTk(ks, x) == [ks EXCEPT !.t = Append(@, NewImportedSk(x))]
AddImportedSk(ks, x) ==
  IF x \in Ids(ks.z)
    THEN [ks EXCEPT !.z = [i \in DOMAIN @ |->
            IF @[i].id = x /\ \A j \in 1..(i - 1) : @[j].id # x
              THEN [@[i] EXCEPT !.key = TRUE, !.kind = "sk"] ELSE @[i]]]
    ELSE [ks EXCEPT !.z = Append(@, NewImportedSk(x))]
AddImportedVk(ks, x) == [ks EXCEPT !.z = Append(@, NewImportedViewKey(x))]

(* What Keys::read makes of what Keys::write has written *)
Read(ks) == [ks EXCEPT !.unlocked = ~ks.encrypted]

(* LightWallet::read adds an Orchard address where there is none. *)
ReadWallet(ks) ==
  IF ks.o = <<>> THEN AddAddress(Read(ks), "u") ELSE Read(ks)

-----------------------------------------------------------------------------
(* What the keys are for *)

(* The spending keys the transparent and Sapling key of an address can use  *)
Spendable(list) == {list[i].id : i \in {j \in DOMAIN list : list[j].key}}

(* Neither the seed nor a key of the two lists that are encrypted is readable. *)
NoSecrets(ks) == ~ks.seed /\ Spendable(ks.z) = {} /\ Spendable(ks.t) = {}

(* The seed, and every key that is not derived from it, is there or can be   *)
(* decrypted with the wallet's password.                                    *)
Recoverable(ks) ==
  /\ ks.seed \/ ks.encSeed # NoPw
  /\ \A list \in {ks.z, ks.t} : \A i \in DOMAIN list :
       list[i].kind = "sk" => list[i].key \/ (list[i].enc # NoPw /\ list[i].enc = ks.encSeed)

(* The wallet is locked or unlocked in all its parts. *)
Whole(ks) ==
  /\ ks.seed = ks.unlocked
  /\ \A list \in {ks.z, ks.t} : \A i \in DOMAIN list :
       list[i].kind # "vk" => list[i].key = ks.unlocked

(* The HD keys of a list are found again from the seed only when no number is *)
(* left out: the HD keys before one have the numbers below its own.          *)
Restorable(list) ==
  \A i \in DOMAIN list : list[i].kind = "hd" =>
    {list[j].id : j \in {j \in 1..(i - 1) : list[j].kind = "hd"}} = 0..(list[i].id - 1)

(* After an address that is used there are Gap that one may look for. *)
GapAfter(ks, used) == \A n \in used : \A i \in 1..Gap : n + i \in Ids(ks.t)
=============================================================================
