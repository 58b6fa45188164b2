--------------------------- MODULE WalletTxnsProofs ---------------------------
(***************************************************************************)
(* Proofs about WalletTxns, for any transactions, any notes they pay and   *)
(* spend, any number of blocks, reorgs and streamed transactions.          *)
(***************************************************************************)
EXTENDS WalletTxns, SequenceTheorems, TLAPS

-----------------------------------------------------------------------------
(* Types *)

WitnessRec == [from : Int, top : Int, whole : BOOLEAN]

NoteRec == [spent : Txs \cup {NoTx}, at : Nat, pending : Txs \cup {NoTx}, keyed : BOOLEAN,
            witness : WitnessRec, placed : BOOLEAN, change : BOOLEAN]

IsNotes(m) == DOMAIN m \subseteq Pools /\ m \in [DOMAIN m -> NoteRec]

IsTx(r) ==
  /\ r \in [block : Nat, unconfirmed : BOOLEAN, paid : SUBSET Note, notes : {r.notes}]
  /\ IsNotes(r.notes)

(* WalletTxns.current: some of the transactions, each with some of its notes *)
IsWallet(w) == DOMAIN w \subseteq Txs /\ \A t \in DOMAIN w : IsTx(w[t])

ScanRec ==
  [by : {"taddr", "full", "mempool", "send"}, tx : Txs, height : Nat, unconfirmed : BOOLEAN,
   step : {"outputs", "inputs", "mark", "spends", "notes"}, utxos : SUBSET Note, toMark : SUBSET Note]

Blocks == SUBSET Txs

ServerTypes ==
  /\ chain \in Seq(Blocks) /\ mempool \in SUBSET Txs /\ expiry \in [Txs -> Nat] /\ reorgs \in Nat
  /\ shared \in Nat /\ synced \in Seq(Blocks)

WalletTypes == IsWallet(txns) /\ IsWallet(saved)

SyncTypes ==
  /\ phase \in {"idle", "reorg", "scan", "orchard", "send", "sendscan"}
  /\ view \in Seq(Blocks) /\ left \in Nat /\ keep \in Nat
  /\ detect \in SUBSET Note /\ oldNotes \in BOOLEAN /\ upd \in SUBSET [note : Note, at : Nat]
  /\ found \in SUBSET [note : Note, spender : Txs]
  /\ taddrQ \in SUBSET Txs /\ fullQ \in SUBSET Txs

ScanTypes ==
  /\ scans \in SUBSET ScanRec /\ streamQ \in Seq([tx : Txs, height : Nat])
  /\ sending \in Txs \cup {NoTx}

TypeOK == ServerTypes /\ WalletTypes /\ SyncTypes /\ ScanTypes

-----------------------------------------------------------------------------
(* The operations of WalletTxns: types, which notes they keep, which they    *)
(* change.                                                                   *)

(* The two wallets have the same notes, with the same records. *)
SameNotes(w, g) ==
  \A n \in Note : /\ Known(g, n) <=> Known(w, n)
                  /\ Known(w, n) => NoteOf(g, n) = NoteOf(w, n)

(* The transaction has the same fields in both, apart from its notes. *)
SameHead(w, g, t) ==
  g[t].block = w[t].block /\ g[t].unconfirmed = w[t].unconfirmed /\ g[t].paid = w[t].paid

LEMMA PutIs ==
  ASSUME NEW f, NEW k, NEW v
  PROVE  /\ DOMAIN Put(f, k, v) = DOMAIN f \cup {k}
         /\ Put(f, k, v)[k] = v
         /\ \A x \in DOMAIN f : x # k => Put(f, k, v)[x] = f[x]
BY DEF Put

LEMMA NoteParts ==
  ASSUME NEW n \in Note
  PROVE  n[1] \in Txs /\ n[2] \in Pools /\ n = <<n[1], n[2]>>
BY DEF Note

LEMMA NoteOfType ==
  ASSUME NEW w, IsWallet(w), NEW n \in Note, Known(w, n)
  PROVE  NoteOf(w, n) \in NoteRec
<1>1. IsNotes(w[n[1]].notes) /\ n[2] \in DOMAIN w[n[1]].notes
  BY DEF IsWallet, IsTx, Known
<1> QED BY <1>1 DEF IsNotes, NoteOf

(* A record with its notes replaced. *)
LEMMA NewNotes ==
  ASSUME NEW r, IsTx(r), NEW m, IsNotes(m)
  PROVE  LET q == [r EXCEPT !.notes = m]
         IN  /\ IsTx(q) /\ q.notes = m
             /\ q.block = r.block /\ q.unconfirmed = r.unconfirmed /\ q.paid = r.paid
BY DEF IsTx

LEMMA PutNotes ==
  ASSUME NEW m, IsNotes(m), NEW p \in Pools, NEW d \in NoteRec
  PROVE  IsNotes(Put(m, p, d))
BY DEF IsNotes, Put

LEMMA SetNoteIs ==
  ASSUME NEW w, IsWallet(w), NEW n \in Note, n[1] \in DOMAIN w, NEW d \in NoteRec
  PROVE  LET g == SetNote(w, n, d)
         IN  /\ IsWallet(g) /\ DOMAIN g = DOMAIN w
             /\ \A t \in DOMAIN w : SameHead(w, g, t)
             /\ Known(g, n) /\ NoteOf(g, n) = d
             /\ \A m \in Note : m # n => /\ Known(g, m) <=> Known(w, m)
                                         /\ Known(w, m) => NoteOf(g, m) = NoteOf(w, m)
<1> DEFINE g == SetNote(w, n, d)
           old == w[n[1]].notes
           new == Put(old, n[2], d)
           q == [w[n[1]] EXCEPT !.notes = new]
<1>1. /\ DOMAIN g = DOMAIN w /\ g[n[1]] = q
      /\ \A t \in DOMAIN w : t # n[1] => g[t] = w[t]
  BY DEF SetNote
<1>2. IsTx(w[n[1]]) /\ IsNotes(old)
  BY DEF IsWallet, IsTx
<1>3. IsNotes(new)
  BY <1>2, NoteParts, PutNotes
<1>4. /\ IsTx(q) /\ q.notes = new
      /\ q.block = w[n[1]].block /\ q.unconfirmed = w[n[1]].unconfirmed /\ q.paid = w[n[1]].paid
  BY <1>2, <1>3, NewNotes
<1>9. /\ DOMAIN new = DOMAIN old \cup {n[2]} /\ new[n[2]] = d
      /\ \A p \in DOMAIN old : p # n[2] => new[p] = old[p]
  BY DEF Put
<1> HIDE DEF g, q, new
<1>5. IsWallet(g)
  BY <1>1, <1>4 DEF IsWallet
<1>6. \A t \in DOMAIN w : SameHead(w, g, t)
  BY <1>1, <1>4 DEF SameHead
<1>7. Known(g, n) /\ NoteOf(g, n) = d
  BY <1>1, <1>4, <1>9 DEF Known, NoteOf
<1>8. ASSUME NEW m \in Note, m # n
      PROVE  (Known(g, m) <=> Known(w, m)) /\ (Known(w, m) => NoteOf(g, m) = NoteOf(w, m))
  <2>1. CASE m[1] # n[1]
    BY <1>1, <2>1 DEF Known, NoteOf
  <2>2. CASE m[1] = n[1]
    <3>1. m[2] # n[2]
      BY <1>8, <2>2, NoteParts
    <3>2. g[m[1]].notes = new /\ w[m[1]].notes = old /\ m[1] \in DOMAIN g /\ m[1] \in DOMAIN w
      BY <1>1, <1>4, <2>2
    <3>3. m[2] \in DOMAIN new <=> m[2] \in DOMAIN old
      BY <1>9, <3>1
    <3>4. m[2] \in DOMAIN old => new[m[2]] = old[m[2]]
      BY <1>9, <3>1
    <3> HIDE DEF old
    <3> QED BY <3>2, <3>3, <3>4 DEF Known, NoteOf
  <2> QED BY <2>1, <2>2
<1> QED BY <1>1, <1>5, <1>6, <1>7, <1>8 DEF g

(* get_or_create_tx *)
NewTx(height, unconfirmed) ==
  [block |-> height, unconfirmed |-> unconfirmed, paid |-> {}, notes |-> <<>>]

LEMMA NoNotes == IsNotes(<<>>)
BY DEF IsNotes

LEMMA NewTxIs ==
  ASSUME NEW h \in Nat, NEW u \in BOOLEAN
  PROVE  /\ IsTx(NewTx(h, u)) /\ DOMAIN NewTx(h, u).notes = {}
         /\ NewTx(h, u).block = h /\ NewTx(h, u).unconfirmed = u /\ NewTx(h, u).paid = {}
BY NoNotes DEF IsTx, NewTx

(* A wallet with one transaction replaced, whose notes stay. *)
LEMMA HeadIs ==
  ASSUME NEW w, IsWallet(w), NEW t \in DOMAIN w, NEW r, IsTx(r), r.notes = w[t].notes,
         NEW g, DOMAIN g = DOMAIN w, g[t] = r, \A x \in DOMAIN w : x # t => g[x] = w[x]
  PROVE  IsWallet(g) /\ SameNotes(w, g)
BY DEF IsWallet, SameNotes, Known, NoteOf

GotTx(w, g, t, h, u) ==
  /\ IsWallet(g) /\ DOMAIN g = DOMAIN w \cup {t} /\ SameNotes(w, g)
  /\ \A x \in DOMAIN w : x # t => g[x] = w[x]
  /\ g[t].unconfirmed = u
  /\ g[t].paid = FundsSpentIn(w, t)
  /\ g[t].block = IF t \in DOMAIN w /\ w[t].unconfirmed = u THEN w[t].block ELSE h

LEMMA GetOrCreateIs ==
  ASSUME NEW w, IsWallet(w), NEW t \in Txs, NEW h \in Nat, NEW u \in BOOLEAN
  PROVE  GotTx(w, GetOrCreateTx(w, t, h, u), t, h, u)
<1> USE DEF FundsSpentIn, GotTx
<1> DEFINE g == GetOrCreateTx(w, t, h, u)
<1>1. CASE t \notin DOMAIN w
  <2> DEFINE r == NewTx(h, u)
  <2>1. g = Put(w, t, r)
    BY <1>1 DEF GetOrCreateTx, NewTx
  <2>2. IsTx(r) /\ DOMAIN r.notes = {} /\ r.block = h /\ r.unconfirmed = u /\ r.paid = {}
    BY NewTxIs
  <2> HIDE DEF r
  <2>3. DOMAIN g = DOMAIN w \cup {t} /\ g[t] = r /\ \A x \in DOMAIN w : x # t => g[x] = w[x]
    BY <2>1 DEF Put
  <2> HIDE DEF g
  <2>4. IsWallet(g) /\ SameNotes(w, g)
    BY <1>1, <2>2, <2>3 DEF IsWallet, SameNotes, Known, NoteOf
  <2> QED BY <1>1, <2>2, <2>3, <2>4 DEF g
<1>2. CASE t \in DOMAIN w /\ w[t].unconfirmed # u
  <2> DEFINE r == [w[t] EXCEPT !.block = h, !.unconfirmed = u]
  <2>1. IsTx(w[t])
    BY <1>2 DEF IsWallet
  <2>2. IsTx(r) /\ r.notes = w[t].notes /\ r.block = h /\ r.unconfirmed = u /\ r.paid = w[t].paid
    BY <2>1 DEF IsTx
  <2>3. DOMAIN g = DOMAIN w /\ g[t] = r /\ \A x \in DOMAIN w : x # t => g[x] = w[x]
    BY <1>2 DEF GetOrCreateTx
  <2> HIDE DEF g, r
  <2>4. IsWallet(g) /\ SameNotes(w, g)
    BY <1>2, <2>2, <2>3, HeadIs
  <2> QED BY <1>2, <2>2, <2>3, <2>4 DEF g
<1>3. CASE t \in DOMAIN w /\ w[t].unconfirmed = u
  <2>1. g = w
    BY <1>3 DEF GetOrCreateTx
  <2> QED BY <1>3, <2>1 DEF SameNotes
<1> QED BY <1>1, <1>2, <1>3

(* What check_notes_mark_change leaves of a note's record: all but "change". *)
SameButChange(d, e) ==
  /\ d.spent = e.spent /\ d.at = e.at /\ d.pending = e.pending
  /\ d.keyed = e.keyed /\ d.witness = e.witness /\ d.placed = e.placed

MadeChange(p, d) == IF p = "t" THEN d ELSE [d EXCEPT !.change = TRUE]

LEMMA MadeChangeIs ==
  ASSUME NEW p, NEW d \in NoteRec
  PROVE  /\ MadeChange(p, d) \in NoteRec /\ SameButChange(MadeChange(p, d), d)
         /\ MadeChange(p, d).change = IF p = "t" THEN d.change ELSE TRUE
BY DEF MadeChange, NoteRec, SameButChange

(* The record of a note m of which transaction t's notes were marked. *)
LEMMA ChangeWithinIs ==
  ASSUME NEW t, NEW m, NEW e \in NoteRec
  PROVE  LET d == IF m[1] = t THEN MadeChange(m[2], e) ELSE e
         IN  /\ d \in NoteRec /\ SameButChange(d, e)
             /\ d.change = IF m[1] = t /\ m[2] # "t" THEN TRUE ELSE e.change
<1>1. CASE m[1] = t
  BY <1>1, MadeChangeIs
<1>2. CASE m[1] # t
  BY <1>2 DEF SameButChange
<1> QED BY <1>1, <1>2

LEMMA MarkChangeIs ==
  ASSUME NEW w, IsWallet(w), NEW t \in DOMAIN w
  PROVE  LET g == CheckNotesMarkChange(w, t)
         IN  /\ IsWallet(g) /\ DOMAIN g = DOMAIN w
             /\ \A x \in DOMAIN w : SameHead(w, g, x)
             /\ \A n \in Note : Known(g, n) <=> Known(w, n)
             /\ \A n \in Note : Known(w, n) =>
                  NoteOf(g, n) = IF n[1] = t /\ w[t].paid # {} THEN MadeChange(n[2], NoteOf(w, n))
                                 ELSE NoteOf(w, n)
<1> DEFINE g == CheckNotesMarkChange(w, t)
<1>1. CASE w[t].paid = {}
  <2>1. g = w
    BY <1>1 DEF CheckNotesMarkChange, FundsSpentIn
  <2> QED BY <1>1, <2>1 DEF SameHead
<1>2. CASE w[t].paid # {}
  <2> DEFINE m == [p \in DOMAIN w[t].notes |-> MadeChange(p, w[t].notes[p])]
             q == [w[t] EXCEPT !.notes = m]
  <2>1. g = [w EXCEPT ![t].notes = m]
    BY <1>2 DEF CheckNotesMarkChange, FundsSpentIn, MadeChange
  <2>2. DOMAIN g = DOMAIN w /\ g[t] = q /\ \A x \in DOMAIN w : x # t => g[x] = w[x]
    BY <2>1
  <2>3. IsTx(w[t]) /\ IsNotes(w[t].notes)
    BY DEF IsWallet, IsTx
  <2>4. IsNotes(m)
    BY <2>3, MadeChangeIs DEF IsNotes
  <2>5. IsTx(q) /\ q.notes = m /\ q.block = w[t].block /\ q.unconfirmed = w[t].unconfirmed /\ q.paid = w[t].paid
    BY <2>3, <2>4, NewNotes
  <2>6. DOMAIN m = DOMAIN w[t].notes /\ \A p \in DOMAIN m : m[p] = MadeChange(p, w[t].notes[p])
    OBVIOUS
  <2> HIDE DEF g, q, m
  <2>7. IsWallet(g) /\ \A x \in DOMAIN w : SameHead(w, g, x)
    BY <2>2, <2>5 DEF IsWallet, SameHead
  <2>8. \A n \in Note : Known(g, n) <=> Known(w, n)
    BY <2>2, <2>5, <2>6 DEF Known
  <2>9. \A n \in Note : Known(w, n) =>
          NoteOf(g, n) = IF n[1] = t THEN MadeChange(n[2], NoteOf(w, n)) ELSE NoteOf(w, n)
    BY <2>2, <2>5, <2>6 DEF Known, NoteOf
  <2> QED BY <1>2, <2>2, <2>7, <2>8, <2>9 DEF g
<1> QED BY <1>1, <1>2

LEMMA NewNoteIs ==
  ASSUME NEW keyed \in BOOLEAN, NEW witness \in WitnessRec, NEW change \in BOOLEAN
  PROVE  LET d == NewNote(keyed, witness, change)
         IN  /\ d \in NoteRec /\ d.spent = NoTx /\ d.at = 0 /\ d.pending = NoTx
             /\ d.keyed = keyed /\ d.witness = witness /\ d.placed = FALSE /\ d.change = change
BY DEF NewNote, NoteRec

LEMMA WitnessTypes ==
  /\ NoWitness \in WitnessRec
  /\ \A h \in Nat : FirstWitness(h) \in WitnessRec
BY DEF NoWitness, FirstWitness, WitnessRec

LEMMA NoteOfPool ==
  ASSUME NEW t \in Txs, NEW p \in Pools
  PROVE  <<t, p>> \in Note /\ <<t, p>>[1] = t /\ <<t, p>>[2] = p
BY DEF Note

(* A wallet with a note added, unless it is there already, to a wallet that  *)
(* has its transaction.                                                      *)
Added(w, g, n, d) ==
  \A m \in Note : /\ Known(g, m) <=> Known(w, m) \/ m = n
                  /\ Known(w, m) => NoteOf(g, m) = NoteOf(w, m)
                  /\ m = n /\ ~Known(w, n) => NoteOf(g, m) = d

LEMMA AddUnlessKnown ==
  ASSUME NEW w, IsWallet(w), NEW v, IsWallet(v), SameNotes(w, v),
         NEW n \in Note, n[1] \in DOMAIN v, NEW d \in NoteRec
  PROVE  LET g == IF Known(v, n) THEN v ELSE SetNote(v, n, d)
         IN  /\ IsWallet(g) /\ DOMAIN g = DOMAIN v
             /\ \A x \in DOMAIN v : SameHead(v, g, x)
             /\ Added(w, g, n, d)
<1> DEFINE s == SetNote(v, n, d)
<1>1. CASE Known(v, n)
  <2>1. \A x \in DOMAIN v : SameHead(v, v, x)
    BY DEF SameHead
  <2> QED BY <1>1, <2>1 DEF Added, SameNotes
<1>2. CASE ~Known(v, n)
  <2>1. /\ IsWallet(s) /\ DOMAIN s = DOMAIN v
        /\ \A t \in DOMAIN v : SameHead(v, s, t)
        /\ Known(s, n) /\ NoteOf(s, n) = d
        /\ \A m \in Note : m # n => /\ Known(s, m) <=> Known(v, m)
                                    /\ Known(v, m) => NoteOf(s, m) = NoteOf(v, m)
    BY SetNoteIs
  <2> HIDE DEF s
  <2>2. Added(w, s, n, d)
    BY <1>2, <2>1 DEF Added, SameNotes
  <2> QED BY <1>2, <2>1, <2>2 DEF s
<1> QED BY <1>1, <1>2

LEMMA AddNewTaddrOutputIs ==
  ASSUME NEW w, IsWallet(w), NEW t \in Txs, NEW h \in Nat, NEW u \in BOOLEAN
  PROVE  LET g == AddNewTaddrOutput(w, t, h, u)
             v == GetOrCreateTx(w, t, h, u)
         IN  /\ IsWallet(g) /\ DOMAIN g = DOMAIN w \cup {t}
             /\ \A x \in DOMAIN g : SameHead(v, g, x)
             /\ Added(w, g, <<t, "t">>, NewNote(TRUE, NoWitness, FALSE))
<1> DEFINE v == GetOrCreateTx(w, t, h, u)
<1>1. GotTx(w, v, t, h, u)
  BY GetOrCreateIs
<1> DEFINE n == <<t, "t">>
           d == NewNote(TRUE, NoWitness, FALSE)
<1>2. n \in Note /\ n[1] = t
  BY NoteOfPool DEF Pools
<1>3. d \in NoteRec
  BY NewNoteIs, WitnessTypes
<1>4. AddNewTaddrOutput(w, t, h, u) = IF Known(v, n) THEN v ELSE SetNote(v, n, d)
  BY DEF AddNewTaddrOutput
<1> DEFINE g == IF Known(v, n) THEN v ELSE SetNote(v, n, d)
<1> HIDE DEF v, n, d
<1>5. IsWallet(v) /\ DOMAIN v = DOMAIN w \cup {t} /\ SameNotes(w, v) /\ n[1] \in DOMAIN v
  BY <1>1, <1>2 DEF GotTx
<1>6. /\ IsWallet(g) /\ DOMAIN g = DOMAIN v
      /\ \A x \in DOMAIN v : SameHead(v, g, x)
      /\ Added(w, g, n, d)
  BY <1>2, <1>3, <1>5, AddUnlessKnown
<1>7. g = AddNewTaddrOutput(w, t, h, u)
  BY <1>4
<1> HIDE DEF g
<1> QED BY <1>5, <1>6, <1>7 DEF v, n, d

(* A wallet with one transaction's head replaced: block and paid. *)
LEMMA SetHead ==
  ASSUME NEW w, IsWallet(w), NEW t \in DOMAIN w, NEW h \in Nat, NEW ns \in SUBSET Note
  PROVE  LET g == [w EXCEPT ![t].block = h, ![t].paid = ns]
         IN  /\ IsWallet(g) /\ DOMAIN g = DOMAIN w /\ SameNotes(w, g)
             /\ g[t].block = h /\ g[t].unconfirmed = w[t].unconfirmed /\ g[t].paid = ns
             /\ \A x \in DOMAIN w : x # t => g[x] = w[x]
<1> DEFINE g == [w EXCEPT ![t].block = h, ![t].paid = ns]
           r == [w[t] EXCEPT !.block = h, !.paid = ns]
<1>1. IsTx(w[t])
  BY DEF IsWallet
<1>2. IsTx(r) /\ r.notes = w[t].notes /\ r.block = h /\ r.unconfirmed = w[t].unconfirmed /\ r.paid = ns
  BY <1>1 DEF IsTx
<1>3. DOMAIN g = DOMAIN w /\ g[t] = r /\ \A x \in DOMAIN w : x # t => g[x] = w[x]
  OBVIOUS
<1> HIDE DEF g, r
<1>4. IsWallet(g) /\ SameNotes(w, g)
  BY <1>2, <1>3, HeadIs
<1> QED BY <1>2, <1>3, <1>4 DEF g

(* A wallet with one transaction's total replaced. *)
LEMMA SetPaid ==
  ASSUME NEW w, IsWallet(w), NEW t \in DOMAIN w, NEW ns \in SUBSET Note
  PROVE  LET g == [w EXCEPT ![t].paid = ns]
         IN  /\ IsWallet(g) /\ DOMAIN g = DOMAIN w /\ SameNotes(w, g)
             /\ g[t].block = w[t].block /\ g[t].unconfirmed = w[t].unconfirmed /\ g[t].paid = ns
             /\ \A x \in DOMAIN w : x # t => g[x] = w[x]
<1> DEFINE g == [w EXCEPT ![t].paid = ns]
           r == [w[t] EXCEPT !.paid = ns]
<1>1. IsTx(w[t])
  BY DEF IsWallet
<1>2. IsTx(r) /\ r.notes = w[t].notes /\ r.block = w[t].block /\ r.unconfirmed = w[t].unconfirmed /\ r.paid = ns
  BY <1>1 DEF IsTx
<1>3. DOMAIN g = DOMAIN w /\ g[t] = r /\ \A x \in DOMAIN w : x # t => g[x] = w[x]
  OBVIOUS
<1> HIDE DEF g, r
<1>4. IsWallet(g) /\ SameNotes(w, g)
  BY <1>2, <1>3, HeadIs
<1> QED BY <1>2, <1>3, <1>4 DEF g

(* A wallet with one transaction's height replaced. *)
LEMMA SetBlock ==
  ASSUME NEW w, IsWallet(w), NEW t \in DOMAIN w, NEW h \in Nat
  PROVE  LET g == [w EXCEPT ![t].block = h]
         IN  /\ IsWallet(g) /\ DOMAIN g = DOMAIN w /\ SameNotes(w, g)
             /\ g[t].block = h /\ g[t].unconfirmed = w[t].unconfirmed /\ g[t].paid = w[t].paid
             /\ \A x \in DOMAIN w : x # t => g[x] = w[x]
<1> DEFINE g == [w EXCEPT ![t].block = h]
           r == [w[t] EXCEPT !.block = h]
<1>1. IsTx(w[t])
  BY DEF IsWallet
<1>2. IsTx(r) /\ r.notes = w[t].notes /\ r.block = h /\ r.unconfirmed = w[t].unconfirmed /\ r.paid = w[t].paid
  BY <1>1 DEF IsTx
<1>3. DOMAIN g = DOMAIN w /\ g[t] = r /\ \A x \in DOMAIN w : x # t => g[x] = w[x]
  OBVIOUS
<1> HIDE DEF g, r
<1>4. IsWallet(g) /\ SameNotes(w, g)
  BY <1>2, <1>3, HeadIs
<1> QED BY <1>2, <1>3, <1>4 DEF g

(* The notes of the changed wallet when transaction t has spent something. *)
ChangedNotes(w, g, t) ==
  \A n \in Note : /\ Known(g, n) <=> Known(w, n)
                  /\ Known(w, n) => NoteOf(g, n) = IF n[1] = t /\ g[t].paid # {}
                                                     THEN MadeChange(n[2], NoteOf(w, n))
                                                     ELSE NoteOf(w, n)

(* add_taddr_spent *)
UtxosAdded(w, g, t, h, u, utxos) ==
  LET v == GetOrCreateTx(w, t, h, u)
  IN  /\ IsWallet(g) /\ DOMAIN g = DOMAIN w \cup {t}
      /\ \A x \in DOMAIN w : x # t => SameHead(w, g, x)
      /\ g[t].block = v[t].block /\ g[t].unconfirmed = u
      /\ g[t].paid = {n \in v[t].paid : n[2] # "t"} \cup utxos
      /\ ChangedNotes(w, g, t)

LEMMA AddTaddrSpentIs ==
  ASSUME NEW w, IsWallet(w), NEW t \in Txs, NEW h \in Nat, NEW u \in BOOLEAN, NEW utxos \in SUBSET Note
  PROVE  UtxosAdded(w, AddTaddrSpent(w, t, h, u, utxos), t, h, u, utxos)
<1> DEFINE v == GetOrCreateTx(w, t, h, u)
           ns == {n \in v[t].paid : n[2] # "t"} \cup utxos
           q == [v EXCEPT ![t].paid = ns]
           g == CheckNotesMarkChange(q, t)
<1>1. /\ IsWallet(v) /\ DOMAIN v = DOMAIN w \cup {t} /\ SameNotes(w, v)
      /\ \A x \in DOMAIN w : x # t => v[x] = w[x]
      /\ v[t].unconfirmed = u
  BY GetOrCreateIs DEF GotTx
<1>2. AddTaddrSpent(w, t, h, u, utxos) = g
  BY DEF AddTaddrSpent
<1> HIDE DEF v
<1>3. ns \in SUBSET Note
  <2>1. IsTx(v[t])
    BY <1>1 DEF IsWallet
  <2> QED BY <2>1 DEF IsTx
<1> HIDE DEF ns
<1>4. /\ IsWallet(q) /\ DOMAIN q = DOMAIN v /\ SameNotes(v, q)
      /\ q[t].block = v[t].block /\ q[t].unconfirmed = v[t].unconfirmed /\ q[t].paid = ns
      /\ \A x \in DOMAIN v : x # t => q[x] = v[x]
  BY <1>1, <1>3, SetPaid
<1> HIDE DEF q
<1>5. /\ IsWallet(g) /\ DOMAIN g = DOMAIN q
      /\ \A x \in DOMAIN q : SameHead(q, g, x)
      /\ \A n \in Note : Known(g, n) <=> Known(q, n)
      /\ \A n \in Note : Known(q, n) =>
           NoteOf(g, n) = IF n[1] = t /\ q[t].paid # {} THEN MadeChange(n[2], NoteOf(q, n))
                          ELSE NoteOf(q, n)
  BY <1>1, <1>4, MarkChangeIs
<1> HIDE DEF g
<1>6. \A x \in DOMAIN w : x # t => SameHead(w, g, x)
  BY <1>1, <1>4, <1>5 DEF SameHead
<1>7. g[t].block = v[t].block /\ g[t].unconfirmed = u /\ g[t].paid = ns
  BY <1>1, <1>4, <1>5 DEF SameHead
<1>8. ChangedNotes(w, g, t)
  BY <1>1, <1>4, <1>5, <1>7 DEF ChangedNotes, SameNotes
<1> QED BY <1>1, <1>2, <1>4, <1>5, <1>6, <1>7, <1>8 DEF v, ns, UtxosAdded

(* A note marked spent: mark_txid_utxo_spent, mark_txid_s_nf_spent *)
Marked(d, y, h) == [d EXCEPT !.spent = y, !.at = h, !.pending = NoTx]

LEMMA MarkedIs ==
  ASSUME NEW d \in NoteRec, NEW y \in Txs, NEW h \in Nat
  PROVE  LET e == Marked(d, y, h)
         IN  /\ e \in NoteRec /\ e.spent = y /\ e.at = h /\ e.pending = NoTx
             /\ e.keyed = d.keyed /\ e.witness = d.witness /\ e.placed = d.placed /\ e.change = d.change
BY DEF Marked, NoteRec

(* A wallet with the record of one known note replaced. *)
Replaced(w, g, n, d) ==
  /\ DOMAIN g = DOMAIN w
  /\ \A x \in DOMAIN w : SameHead(w, g, x)
  /\ \A m \in Note : /\ Known(g, m) <=> Known(w, m)
                     /\ Known(w, m) => NoteOf(g, m) = IF m = n THEN d ELSE NoteOf(w, m)

LEMMA ReplaceIs ==
  ASSUME NEW w, IsWallet(w), NEW n \in Note, Known(w, n), NEW d \in NoteRec
  PROVE  IsWallet(SetNote(w, n, d)) /\ Replaced(w, SetNote(w, n, d), n, d)
<1>1. n[1] \in DOMAIN w
  BY DEF Known
<1> DEFINE g == SetNote(w, n, d)
<1>2. /\ IsWallet(g) /\ DOMAIN g = DOMAIN w
      /\ \A t \in DOMAIN w : SameHead(w, g, t)
      /\ Known(g, n) /\ NoteOf(g, n) = d
      /\ \A m \in Note : m # n => /\ Known(g, m) <=> Known(w, m)
                                  /\ Known(w, m) => NoteOf(g, m) = NoteOf(w, m)
  BY <1>1, SetNoteIs
<1> HIDE DEF g
<1> QED BY <1>2 DEF Replaced, g

LEMMA MarkNfIs ==
  ASSUME NEW w, IsWallet(w), NEW n \in Note, Known(w, n), NEW y \in Txs, NEW h \in Nat
  PROVE  LET g == MarkTxidNfSpent(w, n, y, h)
         IN  IsWallet(g) /\ Replaced(w, g, n, Marked(NoteOf(w, n), y, h))
BY NoteOfType, MarkedIs, ReplaceIs DEF MarkTxidNfSpent, Marked

LEMMA MarkUtxoIs ==
  ASSUME NEW w, IsWallet(w), NEW n \in Note, NEW y \in Txs, NEW h \in Nat
  PROVE  LET g == MarkTxidUtxoSpent(w, n, y, h)
         IN  /\ IsWallet(g)
             /\ Known(w, n) => Replaced(w, g, n, Marked(NoteOf(w, n), y, h))
             /\ ~Known(w, n) => g = w
BY NoteOfType, MarkedIs, ReplaceIs DEF MarkTxidUtxoSpent, Marked

(* add_new_s_spent, add_new_o_spent *)
SpentAdded(w, g, t, h, u, n) ==
  /\ IsWallet(g) /\ DOMAIN g = DOMAIN w \cup {t}
  /\ \A x \in DOMAIN w : x # t => SameHead(w, g, x)
  /\ g[t].block = h /\ g[t].unconfirmed = u /\ g[t].paid = FundsSpentIn(w, t) \cup {n}
  /\ \A m \in Note :
       /\ Known(g, m) <=> Known(w, m)
       /\ Known(w, m) =>
            LET d == IF m[1] = t THEN MadeChange(m[2], NoteOf(w, m)) ELSE NoteOf(w, m)
            IN  NoteOf(g, m) = IF ~u /\ m = n THEN [d EXCEPT !.spent = t, !.at = h] ELSE d

LEMMA AddNewSpentIs ==
  ASSUME NEW w, IsWallet(w), NEW t \in Txs, NEW h \in Nat, NEW u \in BOOLEAN, NEW n \in Note
  PROVE  SpentAdded(w, AddNewSpent(w, t, h, u, n), t, h, u, n)
<1> DEFINE v == GetOrCreateTx(w, t, h, u)
           q == [v EXCEPT ![t].block = h, ![t].paid = @ \cup {n}]
           c == CheckNotesMarkChange(q, t)
           g == IF u \/ ~Known(c, n) THEN c
                ELSE SetNote(c, n, [NoteOf(c, n) EXCEPT !.spent = t, !.at = h])
<1>1. AddNewSpent(w, t, h, u, n) = g
  BY DEF AddNewSpent
<1>2. GotTx(w, v, t, h, u)
  BY GetOrCreateIs
<1> HIDE DEF v
<1>3. t \in DOMAIN v /\ IsTx(v[t]) /\ IsWallet(v) /\ v[t].paid = FundsSpentIn(w, t)
  BY <1>2 DEF GotTx, IsWallet
<1>4. /\ IsWallet(q) /\ DOMAIN q = DOMAIN v /\ SameNotes(v, q)
      /\ q[t].block = h /\ q[t].unconfirmed = v[t].unconfirmed /\ q[t].paid = v[t].paid \cup {n}
      /\ \A x \in DOMAIN v : x # t => q[x] = v[x]
  <2> DEFINE r == [v[t] EXCEPT !.block = h, !.paid = v[t].paid \cup {n}]
  <2>1. /\ IsTx(r) /\ r.notes = v[t].notes /\ r.block = h /\ r.unconfirmed = v[t].unconfirmed
        /\ r.paid = v[t].paid \cup {n}
    BY <1>3 DEF IsTx
  <2>2. DOMAIN q = DOMAIN v /\ q[t] = r /\ \A x \in DOMAIN v : x # t => q[x] = v[x]
    BY <1>3
  <2> HIDE DEF q, r
  <2>3. IsWallet(q) /\ SameNotes(v, q)
    BY <1>3, <2>1, <2>2, HeadIs
  <2> QED BY <2>1, <2>2, <2>3
<1> HIDE DEF q
<1>5. /\ IsWallet(c) /\ DOMAIN c = DOMAIN q
      /\ \A x \in DOMAIN q : SameHead(q, c, x)
      /\ \A m \in Note : Known(c, m) <=> Known(q, m)
      /\ \A m \in Note : Known(q, m) =>
           NoteOf(c, m) = IF m[1] = t /\ q[t].paid # {} THEN MadeChange(m[2], NoteOf(q, m))
                          ELSE NoteOf(q, m)
  BY <1>3, <1>4, MarkChangeIs
<1> HIDE DEF c
<1>6. /\ IsWallet(c) /\ DOMAIN c = DOMAIN w \cup {t}
      /\ \A x \in DOMAIN w : x # t => SameHead(w, c, x)
      /\ c[t].block = h /\ c[t].unconfirmed = u /\ c[t].paid = FundsSpentIn(w, t) \cup {n}
  BY <1>2, <1>3, <1>4, <1>5 DEF GotTx, SameHead
<1>7. \A m \in Note :
        /\ Known(c, m) <=> Known(w, m)
        /\ Known(w, m) =>
             NoteOf(c, m) = IF m[1] = t THEN MadeChange(m[2], NoteOf(w, m)) ELSE NoteOf(w, m)
  <2>1. q[t].paid # {}
    BY <1>4
  <2> QED BY <1>2, <1>4, <1>5, <2>1 DEF GotTx, SameNotes
<1>8. CASE u \/ ~Known(c, n)
  <2>1. g = c
    BY <1>8
  <2>2. \A m \in Note : ~u /\ m = n => ~Known(w, m)
    BY <1>7, <1>8
  <2> HIDE DEF g
  <2> QED BY <1>1, <1>6, <1>7, <2>1, <2>2 DEF SpentAdded
<1>9. CASE ~u /\ Known(c, n)
  <2> DEFINE d == [NoteOf(c, n) EXCEPT !.spent = t, !.at = h]
  <2>1. g = SetNote(c, n, d)
    BY <1>9
  <2>2. d \in NoteRec
    BY <1>6, <1>9, NoteOfType DEF NoteRec
  <2> HIDE DEF g, d
  <2>3. IsWallet(g) /\ Replaced(c, g, n, d)
    BY <1>6, <1>9, <2>1, <2>2, ReplaceIs
  <2>4. \A x \in DOMAIN w : x # t => SameHead(w, g, x)
    BY <1>6, <2>3 DEF Replaced, SameHead
  <2>5. DOMAIN g = DOMAIN w \cup {t} /\ g[t].block = h /\ g[t].unconfirmed = u
        /\ g[t].paid = FundsSpentIn(w, t) \cup {n}
    BY <1>6, <2>3 DEF Replaced, SameHead
  <2>6. \A m \in Note :
          /\ Known(g, m) <=> Known(w, m)
          /\ Known(w, m) => NoteOf(g, m) = IF m = n THEN d ELSE NoteOf(c, m)
    BY <1>7, <2>3 DEF Replaced
  <2> QED BY <1>1, <1>7, <1>9, <2>3, <2>4, <2>5, <2>6 DEF SpentAdded, d
<1> QED BY <1>8, <1>9

(* A transaction brought up to date by a note that is found. *)
HeadSet(w, g, t, h, u) ==
  /\ IsWallet(g) /\ DOMAIN g = DOMAIN w \cup {t}
  /\ \A x \in DOMAIN w : x # t => SameHead(w, g, x)
  /\ g[t].block = h /\ g[t].unconfirmed = u /\ g[t].paid = FundsSpentIn(w, t)

LEMMA HeadSetIs ==
  ASSUME NEW w, IsWallet(w), NEW t \in Txs, NEW h \in Nat, NEW u \in BOOLEAN
  PROVE  LET g == [GetOrCreateTx(w, t, h, u) EXCEPT ![t].block = h]
         IN  HeadSet(w, g, t, h, u) /\ SameNotes(w, g)
<1> DEFINE v == GetOrCreateTx(w, t, h, u)
           g == [v EXCEPT ![t].block = h]
<1>1. GotTx(w, v, t, h, u)
  BY GetOrCreateIs
<1> HIDE DEF v
<1>2. t \in DOMAIN v /\ IsWallet(v)
  BY <1>1 DEF GotTx
<1>3. /\ IsWallet(g) /\ DOMAIN g = DOMAIN v /\ SameNotes(v, g)
      /\ g[t].block = h /\ g[t].unconfirmed = v[t].unconfirmed /\ g[t].paid = v[t].paid
      /\ \A x \in DOMAIN v : x # t => g[x] = v[x]
  BY <1>2, SetBlock
<1> HIDE DEF g
<1>4. HeadSet(w, g, t, h, u)
  BY <1>1, <1>3 DEF HeadSet, GotTx, SameHead
<1>5. SameNotes(w, g)
  BY <1>1, <1>3 DEF GotTx, SameNotes
<1> QED BY <1>4, <1>5 DEF g, v

(* ... and a note added to it, unless it is there *)
LEMMA NoteAddedIs ==
  ASSUME NEW w, IsWallet(w), NEW t \in Txs, NEW h \in Nat, NEW u \in BOOLEAN,
         NEW p \in Pools, NEW d \in NoteRec
  PROVE  LET v == [GetOrCreateTx(w, t, h, u) EXCEPT ![t].block = h]
             g == IF Known(v, <<t, p>>) THEN v ELSE SetNote(v, <<t, p>>, d)
         IN  HeadSet(w, g, t, h, u) /\ Added(w, g, <<t, p>>, d)
<1> DEFINE v == [GetOrCreateTx(w, t, h, u) EXCEPT ![t].block = h]
           n == <<t, p>>
           g == IF Known(v, n) THEN v ELSE SetNote(v, n, d)
<1>1. HeadSet(w, v, t, h, u) /\ SameNotes(w, v)
  BY HeadSetIs
<1>2. n \in Note /\ n[1] = t
  BY NoteOfPool
<1> HIDE DEF v, n
<1>3. IsWallet(v) /\ n[1] \in DOMAIN v
  BY <1>1, <1>2 DEF HeadSet
<1>4. /\ IsWallet(g) /\ DOMAIN g = DOMAIN v
      /\ \A x \in DOMAIN v : SameHead(v, g, x)
      /\ Added(w, g, n, d)
  BY <1>1, <1>2, <1>3, AddUnlessKnown
<1> HIDE DEF g
<1>5. HeadSet(w, g, t, h, u)
  BY <1>1, <1>4 DEF HeadSet, SameHead
<1> QED BY <1>4, <1>5 DEF g, v, n

LEMMA AddPendingNoteIs ==
  ASSUME NEW w, IsWallet(w), NEW t \in Txs, NEW h \in Nat
  PROVE  LET g == AddPendingNote(w, t, h)
         IN  /\ HeadSet(w, g, t, h, TRUE)
             /\ Added(w, g, <<t, "s">>, NewNote(FALSE, NoWitness, FundsSpentIn(w, t) # {}))
<1>1. NewNote(FALSE, NoWitness, FundsSpentIn(w, t) # {}) \in NoteRec
  BY NewNoteIs, WitnessTypes
<1>2. "s" \in Pools
  BY DEF Pools
<1> QED BY <1>1, <1>2, NoteAddedIs DEF AddPendingNote

LEMMA AddNewOrchardNoteIs ==
  ASSUME NEW w, IsWallet(w), NEW t \in Txs, NEW h \in Nat
  PROVE  LET g == AddNewOrchardNote(w, t, h)
         IN  /\ HeadSet(w, g, t, h, FALSE)
             /\ Added(w, g, <<t, "o">>, NewNote(TRUE, NoWitness, FundsSpentIn(w, t) # {}))
<1>1. NewNote(TRUE, NoWitness, FundsSpentIn(w, t) # {}) \in NoteRec
  BY NewNoteIs, WitnessTypes
<1>2. "o" \in Pools
  BY DEF Pools
<1> QED BY <1>1, <1>2, NoteAddedIs DEF AddNewOrchardNote

(* The record of a Sapling note after trial decryption found it *)
FoundNote(w, n, h) ==
  IF Known(w, n) /\ NoteOf(w, n).keyed
    THEN [NoteOf(w, n) EXCEPT !.witness = FirstWitness(h)]
    ELSE NewNote(TRUE, FirstWitness(h), FundsSpentIn(w, n[1]) # {})

LEMMA AddNewSaplingNoteIs ==
  ASSUME NEW w, IsWallet(w), NEW t \in Txs, NEW h \in Nat
  PROVE  LET g == AddNewSaplingNote(w, t, h)
             n == <<t, "s">>
         IN  /\ HeadSet(w, g, t, h, FALSE)
             /\ FoundNote(w, n, h) \in NoteRec
             /\ \A m \in Note :
                  /\ Known(g, m) <=> Known(w, m) \/ m = n
                  /\ m = n => NoteOf(g, m) = FoundNote(w, n, h)
                  /\ m # n /\ Known(w, m) => NoteOf(g, m) = NoteOf(w, m)
<1> DEFINE v == [GetOrCreateTx(w, t, h, FALSE) EXCEPT ![t].block = h]
           n == <<t, "s">>
           d == FoundNote(w, n, h)
           g == SetNote(v, n, d)
<1>1. HeadSet(w, v, t, h, FALSE) /\ SameNotes(w, v)
  BY HeadSetIs
<1>2. n \in Note /\ n[1] = t
  BY NoteOfPool DEF Pools
<1>3. AddNewSaplingNote(w, t, h) =
        IF Known(v, n) /\ NoteOf(v, n).keyed
          THEN SetNote(v, n, [NoteOf(v, n) EXCEPT !.witness = FirstWitness(h)])
          ELSE SetNote(v, n, NewNote(TRUE, FirstWitness(h), FundsSpentIn(w, t) # {}))
  BY DEF AddNewSaplingNote
<1> HIDE DEF v, n
<1>4. d \in NoteRec
  <2>1. FirstWitness(h) \in WitnessRec
    BY WitnessTypes
  <2>2. NewNote(TRUE, FirstWitness(h), FundsSpentIn(w, n[1]) # {}) \in NoteRec
    BY <2>1, NewNoteIs
  <2>3. Known(w, n) => [NoteOf(w, n) EXCEPT !.witness = FirstWitness(h)] \in NoteRec
    BY <1>2, <2>1, NoteOfType DEF NoteRec
  <2> QED BY <2>2, <2>3 DEF FoundNote
<1>5. AddNewSaplingNote(w, t, h) = g
  BY <1>1, <1>2, <1>3 DEF SameNotes, FoundNote
<1> HIDE DEF d
<1>6. IsWallet(v) /\ n[1] \in DOMAIN v
  BY <1>1, <1>2 DEF HeadSet
<1>7. /\ IsWallet(g) /\ DOMAIN g = DOMAIN v
      /\ \A x \in DOMAIN v : SameHead(v, g, x)
      /\ Known(g, n) /\ NoteOf(g, n) = d
      /\ \A m \in Note : m # n => /\ Known(g, m) <=> Known(v, m)
                                  /\ Known(v, m) => NoteOf(g, m) = NoteOf(v, m)
  BY <1>2, <1>4, <1>6, SetNoteIs
<1> HIDE DEF g
<1>8. HeadSet(w, g, t, h, FALSE)
  BY <1>1, <1>7 DEF HeadSet, SameHead
<1>9. \A m \in Note :
        /\ Known(g, m) <=> Known(w, m) \/ m = n
        /\ m = n => NoteOf(g, m) = d
        /\ m # n /\ Known(w, m) => NoteOf(g, m) = NoteOf(w, m)
  BY <1>1, <1>7 DEF SameNotes
<1> QED BY <1>4, <1>5, <1>8, <1>9 DEF d, n

(* Every note of a wallet mapped, and some transactions left out. *)
NotesMapped(w, g, m) ==
  /\ DOMAIN g \subseteq DOMAIN w
  /\ \A t \in DOMAIN g : /\ g[t] = [w[t] EXCEPT !.notes = m[t]]
                         /\ DOMAIN m[t] = DOMAIN w[t].notes
                         /\ m[t] \in [DOMAIN m[t] -> NoteRec]

Mapped(w, g) ==
  /\ IsWallet(g) /\ DOMAIN g \subseteq DOMAIN w
  /\ \A t \in DOMAIN g : SameHead(w, g, t)
  /\ \A n \in Note : Known(g, n) <=> Known(w, n) /\ n[1] \in DOMAIN g

LEMMA MapNotesIs ==
  ASSUME NEW w, IsWallet(w), NEW g, NEW m, NotesMapped(w, g, m)
  PROVE  /\ Mapped(w, g)
         /\ \A n \in Note : Known(g, n) => NoteOf(g, n) = m[n[1]][n[2]]
<1> USE DEF NotesMapped
<1>1. ASSUME NEW t \in DOMAIN g
      PROVE  /\ IsTx(g[t]) /\ g[t].notes = m[t] /\ SameHead(w, g, t)
  <2>1. IsTx(w[t]) /\ DOMAIN w[t].notes \subseteq Pools
    BY DEF IsWallet, IsTx, IsNotes
  <2>2. IsNotes(m[t])
    BY <2>1 DEF IsNotes
  <2> DEFINE q == [w[t] EXCEPT !.notes = m[t]]
  <2>3. /\ IsTx(q) /\ q.notes = m[t]
        /\ q.block = w[t].block /\ q.unconfirmed = w[t].unconfirmed /\ q.paid = w[t].paid
    BY <2>1, <2>2, NewNotes
  <2>4. g[t] = q
    OBVIOUS
  <2> HIDE DEF q
  <2> QED BY <2>3, <2>4 DEF SameHead
<1>2. IsWallet(g)
  BY <1>1 DEF IsWallet
<1>3. \A n \in Note : Known(g, n) <=> Known(w, n) /\ n[1] \in DOMAIN g
  BY <1>1 DEF Known
<1>4. \A n \in Note : Known(g, n) => NoteOf(g, n) = m[n[1]][n[2]]
  BY <1>1 DEF Known, NoteOf
<1> QED BY <1>1, <1>2, <1>3, <1>4 DEF Mapped

(* A note's record after the transactions in removed are taken out *)
LEMMA RollBackIs ==
  ASSUME NEW p, NEW d \in NoteRec, NEW removed
  PROVE  LET e == RollBack(p, d, removed)
         IN  /\ e \in NoteRec
             /\ e.keyed = d.keyed /\ e.witness = d.witness /\ e.placed = d.placed /\ e.change = d.change
             /\ e.spent = IF p # "o" /\ d.spent \in removed THEN NoTx ELSE d.spent
             /\ e.at = IF p # "o" /\ d.spent \in removed THEN 0 ELSE d.at
             /\ e.pending = IF p # "o" /\ d.pending \in removed THEN NoTx ELSE d.pending
BY DEF RollBack, NoteRec

LEMMA RemoveTxidsIs ==
  ASSUME NEW w, IsWallet(w), NEW removed
  PROVE  LET g == RemoveTxids(w, removed)
         IN  /\ Mapped(w, g) /\ DOMAIN g = DOMAIN w \ removed
             /\ \A n \in Note : Known(g, n) => NoteOf(g, n) = RollBack(n[2], NoteOf(w, n), removed)
<1> DEFINE g == RemoveTxids(w, removed)
           m == [t \in DOMAIN w |-> [p \in DOMAIN w[t].notes |-> RollBack(p, w[t].notes[p], removed)]]
<1>1. DOMAIN g = DOMAIN w \ removed /\ \A t \in DOMAIN g : g[t] = [w[t] EXCEPT !.notes = m[t]]
  BY DEF RemoveTxids
<1>2. ASSUME NEW t \in DOMAIN g
      PROVE  DOMAIN m[t] = DOMAIN w[t].notes /\ m[t] \in [DOMAIN m[t] -> NoteRec]
  <2>1. IsNotes(w[t].notes) /\ t \in DOMAIN w
    BY <1>1 DEF IsWallet, IsTx
  <2> QED BY <2>1, RollBackIs DEF IsNotes
<1>3. \A n \in Note : Known(w, n) => m[n[1]][n[2]] = RollBack(n[2], NoteOf(w, n), removed)
  BY DEF Known, NoteOf
<1> HIDE DEF g, m
<1>4. NotesMapped(w, g, m)
  BY <1>1, <1>2 DEF NotesMapped
<1>5. Mapped(w, g) /\ \A n \in Note : Known(g, n) => NoteOf(g, n) = m[n[1]][n[2]]
  BY <1>4, MapNotesIs
<1> QED BY <1>1, <1>3, <1>5 DEF Mapped, g

(* The witnesses popped *)
LEMMA PopIs ==
  ASSUME NEW c \in WitnessRec, NEW h \in Int
  PROVE  /\ Pop(c, h) \in WitnessRec
         /\ Pop(c, h).from = c.from /\ Pop(c, h).whole = c.whole
         /\ Pop(c, h).top = Larger(c.from - 1, Smaller(c.top, h - 1))
BY DEF Pop, WitnessRec, Larger, Smaller

LEMMA PopNoteIs ==
  ASSUME NEW d \in NoteRec, NEW h \in Int
  PROVE  LET e == PopNote(d, h)
         IN  /\ e \in NoteRec /\ e.witness = Pop(d.witness, h)
             /\ e.spent = d.spent /\ e.at = d.at /\ e.pending = d.pending
             /\ e.keyed = d.keyed /\ e.placed = d.placed /\ e.change = d.change
BY PopIs DEF PopNote, NoteRec

LEMMA RemoveAtHeightIs ==
  ASSUME NEW w, IsWallet(w), NEW h \in Nat
  PROVE  LET g == RemoveTxnsAtHeight(w, h)
             removed == {t \in DOMAIN w : w[t].block >= h}
         IN  /\ Mapped(w, g) /\ DOMAIN g = DOMAIN w \ removed
             /\ \A n \in Note : Known(g, n) =>
                  NoteOf(g, n) = PopNote(RollBack(n[2], NoteOf(w, n), removed), h)
<1> DEFINE removed == {t \in DOMAIN w : w[t].block >= h}
           v == RemoveTxids(w, removed)
           g == RemoveTxnsAtHeight(w, h)
           m == [t \in DOMAIN v |-> [p \in DOMAIN v[t].notes |-> PopNote(v[t].notes[p], h)]]
<1>1. /\ Mapped(w, v) /\ DOMAIN v = DOMAIN w \ removed
      /\ \A n \in Note : Known(v, n) => NoteOf(v, n) = RollBack(n[2], NoteOf(w, n), removed)
  BY RemoveTxidsIs
<1>2. DOMAIN g = DOMAIN v /\ \A t \in DOMAIN g : g[t] = [v[t] EXCEPT !.notes = m[t]]
  BY DEF RemoveTxnsAtHeight
<1> HIDE DEF v, removed
<1>3. IsWallet(v)
  BY <1>1 DEF Mapped
<1>4. ASSUME NEW t \in DOMAIN g
      PROVE  DOMAIN m[t] = DOMAIN v[t].notes /\ m[t] \in [DOMAIN m[t] -> NoteRec]
  <2>1. IsNotes(v[t].notes) /\ t \in DOMAIN v
    BY <1>2, <1>3 DEF IsWallet, IsTx
  <2> QED BY <2>1, PopNoteIs DEF IsNotes
<1>5. \A n \in Note : Known(v, n) => m[n[1]][n[2]] = PopNote(NoteOf(v, n), h)
  BY DEF Known, NoteOf
<1> HIDE DEF g, m
<1>8. NotesMapped(v, g, m)
  BY <1>2, <1>4 DEF NotesMapped
<1>6. Mapped(v, g) /\ \A n \in Note : Known(g, n) => NoteOf(g, n) = m[n[1]][n[2]]
  BY <1>3, <1>8, MapNotesIs
<1>7. Mapped(w, g)
  BY <1>1, <1>2, <1>6 DEF Mapped, SameHead
<1> QED BY <1>1, <1>2, <1>5, <1>6, <1>7 DEF Mapped, g, removed

LEMMA ClearExpiredIs ==
  ASSUME NEW w, IsWallet(w), NEW latest \in Nat
  PROVE  LET g == ClearExpiredMempool(w, latest)
             removed == {t \in DOMAIN w : w[t].unconfirmed /\ w[t].block < latest - MaxReorg}
         IN  /\ Mapped(w, g) /\ DOMAIN g = DOMAIN w \ removed
             /\ \A n \in Note : Known(g, n) => NoteOf(g, n) = RollBack(n[2], NoteOf(w, n), removed)
BY RemoveTxidsIs DEF ClearExpiredMempool

(* A note's record after clear_old_witnesses *)
Cleared(p, d, latest) ==
  IF p = "s" /\ d.spent # NoTx /\ d.at < latest - MaxReorg THEN [d EXCEPT !.witness = NoWitness] ELSE d

LEMMA ClearedIs ==
  ASSUME NEW p, NEW d \in NoteRec, NEW latest
  PROVE  LET e == Cleared(p, d, latest)
         IN  /\ e \in NoteRec /\ e.spent = d.spent /\ e.at = d.at /\ e.pending = d.pending
             /\ e.keyed = d.keyed /\ e.placed = d.placed /\ e.change = d.change
             /\ e.witness = d.witness \/ (p = "s" /\ d.spent # NoTx /\ e.witness = NoWitness)
BY WitnessTypes DEF Cleared, NoteRec

LEMMA ClearOldIs ==
  ASSUME NEW w, IsWallet(w), NEW latest \in Nat
  PROVE  LET g == ClearOldWitnesses(w, latest)
         IN  /\ Mapped(w, g) /\ DOMAIN g = DOMAIN w
             /\ \A n \in Note : Known(g, n) => NoteOf(g, n) = Cleared(n[2], NoteOf(w, n), latest)
<1> DEFINE g == ClearOldWitnesses(w, latest)
           m == [t \in DOMAIN w |-> [p \in DOMAIN w[t].notes |-> Cleared(p, w[t].notes[p], latest)]]
<1>1. DOMAIN g = DOMAIN w /\ \A t \in DOMAIN g : g[t] = [w[t] EXCEPT !.notes = m[t]]
  BY DEF ClearOldWitnesses, Cleared
<1>2. ASSUME NEW t \in DOMAIN g
      PROVE  DOMAIN m[t] = DOMAIN w[t].notes /\ m[t] \in [DOMAIN m[t] -> NoteRec]
  <2>1. IsNotes(w[t].notes) /\ t \in DOMAIN w
    BY <1>1 DEF IsWallet, IsTx
  <2> QED BY <2>1, ClearedIs DEF IsNotes
<1>3. \A n \in Note : Known(w, n) => m[n[1]][n[2]] = Cleared(n[2], NoteOf(w, n), latest)
  BY DEF Known, NoteOf
<1> HIDE DEF g, m
<1>4. NotesMapped(w, g, m)
  BY <1>1, <1>2 DEF NotesMapped
<1>5. Mapped(w, g) /\ \A n \in Note : Known(g, n) => NoteOf(g, n) = m[n[1]][n[2]]
  BY <1>4, MapNotesIs
<1> QED BY <1>1, <1>3, <1>5 DEF Mapped, g

(* update_orchard_spends_and_witnesses: the notes of the batch get positions *)
Placed(w, new) ==
  [t \in DOMAIN w |-> [w[t] EXCEPT !.notes =
     [p \in DOMAIN @ |-> IF p = "o" /\ t \in new THEN [@[p] EXCEPT !.placed = TRUE] ELSE @[p]]]]

(* A note's record there *)
PlacedNote(n, d, new) == IF n[2] = "o" /\ n[1] \in new THEN [d EXCEPT !.placed = TRUE] ELSE d

LEMMA PlacedNoteIs ==
  ASSUME NEW n, NEW d \in NoteRec, NEW new
  PROVE  LET e == PlacedNote(n, d, new)
         IN  /\ e \in NoteRec /\ e.spent = d.spent /\ e.at = d.at /\ e.pending = d.pending
             /\ e.keyed = d.keyed /\ e.witness = d.witness /\ e.change = d.change
BY DEF PlacedNote, NoteRec

LEMMA PlacedIs ==
  ASSUME NEW w, IsWallet(w), NEW new
  PROVE  LET g == Placed(w, new)
         IN  /\ Mapped(w, g) /\ DOMAIN g = DOMAIN w
             /\ \A n \in Note : Known(g, n) => NoteOf(g, n) = PlacedNote(n, NoteOf(w, n), new)
<1> DEFINE g == Placed(w, new)
           m == [t \in DOMAIN w |-> [p \in DOMAIN w[t].notes |->
                   PlacedNote(<<t, p>>, w[t].notes[p], new)]]
<1>1. DOMAIN g = DOMAIN w /\ \A t \in DOMAIN g : g[t] = [w[t] EXCEPT !.notes = m[t]]
  BY DEF Placed, PlacedNote
<1>2. ASSUME NEW t \in DOMAIN g
      PROVE  DOMAIN m[t] = DOMAIN w[t].notes /\ m[t] \in [DOMAIN m[t] -> NoteRec]
  <2>1. IsNotes(w[t].notes) /\ t \in DOMAIN w
    BY <1>1 DEF IsWallet, IsTx
  <2> QED BY <2>1, PlacedNoteIs DEF IsNotes
<1>3. \A n \in Note : Known(w, n) => m[n[1]][n[2]] = PlacedNote(n, NoteOf(w, n), new)
  BY NoteParts DEF Known, NoteOf
<1> HIDE DEF g, m
<1>4. NotesMapped(w, g, m)
  BY <1>1, <1>2 DEF NotesMapped
<1>5. Mapped(w, g) /\ \A n \in Note : Known(g, n) => NoteOf(g, n) = m[n[1]][n[2]]
  BY <1>4, MapNotesIs
<1> QED BY <1>1, <1>3, <1>5 DEF Mapped, g

(* A send reserves the notes it spends. *)
Reserved(w, ns, y) ==
  [t \in DOMAIN w |-> [w[t] EXCEPT !.notes =
     [p \in DOMAIN @ |-> IF <<t, p>> \in ns THEN [@[p] EXCEPT !.pending = y] ELSE @[p]]]]

ReservedNote(n, d, ns, y) == IF n \in ns THEN [d EXCEPT !.pending = y] ELSE d

LEMMA ReservedNoteIs ==
  ASSUME NEW n, NEW d \in NoteRec, NEW ns, NEW y \in Txs
  PROVE  LET e == ReservedNote(n, d, ns, y)
         IN  /\ e \in NoteRec /\ e.spent = d.spent /\ e.at = d.at
             /\ e.pending = IF n \in ns THEN y ELSE d.pending
             /\ e.keyed = d.keyed /\ e.witness = d.witness /\ e.placed = d.placed /\ e.change = d.change
BY DEF ReservedNote, NoteRec

LEMMA ReservedIs ==
  ASSUME NEW w, IsWallet(w), NEW ns, NEW y \in Txs
  PROVE  LET g == Reserved(w, ns, y)
         IN  /\ Mapped(w, g) /\ DOMAIN g = DOMAIN w
             /\ \A n \in Note : Known(g, n) => NoteOf(g, n) = ReservedNote(n, NoteOf(w, n), ns, y)
<1> DEFINE g == Reserved(w, ns, y)
           m == [t \in DOMAIN w |-> [p \in DOMAIN w[t].notes |->
                   ReservedNote(<<t, p>>, w[t].notes[p], ns, y)]]
<1>1. DOMAIN g = DOMAIN w /\ \A t \in DOMAIN g : g[t] = [w[t] EXCEPT !.notes = m[t]]
  BY DEF Reserved, ReservedNote
<1>2. ASSUME NEW t \in DOMAIN g
      PROVE  DOMAIN m[t] = DOMAIN w[t].notes /\ m[t] \in [DOMAIN m[t] -> NoteRec]
  <2>1. IsNotes(w[t].notes) /\ t \in DOMAIN w
    BY <1>1 DEF IsWallet, IsTx
  <2> QED BY <2>1, ReservedNoteIs DEF IsNotes
<1>3. \A n \in Note : Known(w, n) => m[n[1]][n[2]] = ReservedNote(n, NoteOf(w, n), ns, y)
  BY NoteParts DEF Known, NoteOf
<1> HIDE DEF g, m
<1>4. NotesMapped(w, g, m)
  BY <1>1, <1>2 DEF NotesMapped
<1>5. Mapped(w, g) /\ \A n \in Note : Known(g, n) => NoteOf(g, n) = m[n[1]][n[2]]
  BY <1>4, MapNotesIs
<1> QED BY <1>1, <1>3, <1>5 DEF Mapped, g

-----------------------------------------------------------------------------
(* What is true of a wallet between any two operations.                      *)

(* A note is one its transaction pays; a note without nullifier has no       *)
(* witness, so that it is never selected.                                    *)
ShapeOf(w) ==
  \A n \in Note : Known(w, n) =>
    /\ n[2] \in Outs[n[1]]
    /\ n[2] = "s" /\ ~NoteOf(w, n).keyed => Witnesses(NoteOf(w, n).witness) <= 0

(* A shielded note is change exactly if its transaction spends something. *)
ChangeOf(w) ==
  \A n \in Note : Known(w, n) /\ n[2] # "t" => (NoteOf(w, n).change <=> w[n[1]].paid # {})

GoodWallet(w) == IsWallet(w) /\ ShapeOf(w) /\ ChangeOf(w)

(* What every operation but a removal does to a wallet *)
Grows(w, g) ==
  /\ DOMAIN w \subseteq DOMAIN g
  /\ \A n \in Note : Known(w, n) =>
       Known(g, n) /\ (NoteOf(w, n).keyed => NoteOf(g, n).keyed)

(* The marks of g are those of w, or by somebody in S, or reservations by R. *)
MarksFrom(w, g, S, R) ==
  \A n \in Note : Known(g, n) =>
    /\ \/ NoteOf(g, n).spent \in {NoTx} \cup S
       \/ Known(w, n) /\ NoteOf(g, n).spent = NoteOf(w, n).spent
    /\ \/ NoteOf(g, n).pending \in {NoTx} \cup R
       \/ Known(w, n) /\ NoteOf(g, n).pending = NoteOf(w, n).pending

Step(w, g, S, R) == GoodWallet(g) /\ Grows(w, g) /\ MarksFrom(w, g, S, R)

LEMMA StaysPut ==
  ASSUME NEW w, GoodWallet(w)
  PROVE  Step(w, w, {}, {})
BY DEF Step, Grows, MarksFrom

LEMMA NewWitnesses ==
  /\ Witnesses(NoWitness) = 0
  /\ \A h \in Nat : Witnesses(FirstWitness(h)) = 1
BY DEF Witnesses, NoWitness, FirstWitness

LEMMA AddNewTaddrOutputStep ==
  ASSUME NEW w, GoodWallet(w), NEW t \in Txs, NEW h \in Nat, NEW u \in BOOLEAN, "t" \in Outs[t]
  PROVE  Step(w, AddNewTaddrOutput(w, t, h, u), {}, {})
<1> DEFINE g == AddNewTaddrOutput(w, t, h, u)
           v == GetOrCreateTx(w, t, h, u)
           n == <<t, "t">>
           d == NewNote(TRUE, NoWitness, FALSE)
<1>1. /\ IsWallet(g) /\ DOMAIN g = DOMAIN w \cup {t}
      /\ \A x \in DOMAIN g : SameHead(v, g, x)
      /\ Added(w, g, n, d)
  BY AddNewTaddrOutputIs DEF GoodWallet
<1>2. GotTx(w, v, t, h, u)
  BY GetOrCreateIs DEF GoodWallet
<1>3. d.spent = NoTx /\ d.pending = NoTx /\ d.keyed = TRUE
  BY NewNoteIs, WitnessTypes
<1>4. n[1] = t /\ n[2] = "t"
  OBVIOUS
<1> HIDE DEF g, v, d, n
<1>5. ShapeOf(g)
  BY <1>1, <1>3, <1>4 DEF GoodWallet, ShapeOf, Added
<1>6. ChangeOf(g)
  <2>1. ASSUME NEW m \in Note, Known(g, m), m[2] # "t"
        PROVE  NoteOf(g, m).change <=> g[m[1]].paid # {}
    <3>1. Known(w, m) /\ NoteOf(g, m) = NoteOf(w, m)
      BY <1>1, <1>4, <2>1 DEF Added
    <3>2. m[1] \in DOMAIN w
      BY <3>1 DEF Known
    <3>3. g[m[1]].paid = w[m[1]].paid
      BY <1>1, <1>2, <3>2 DEF SameHead, GotTx, FundsSpentIn
    <3> QED BY <2>1, <3>1, <3>3 DEF GoodWallet, ChangeOf
  <2> QED BY <2>1 DEF ChangeOf
<1>7. Grows(w, g) /\ MarksFrom(w, g, {}, {})
  BY <1>1, <1>3 DEF Grows, MarksFrom, Added
<1> QED BY <1>1, <1>5, <1>6, <1>7 DEF Step, GoodWallet, g

(* One record replaced, by one that differs in marks or witnesses *)
LEMMA ReplacedStep ==
  ASSUME NEW w, GoodWallet(w), NEW g, IsWallet(g), NEW n \in Note, Known(w, n), NEW d,
         Replaced(w, g, n, d), NEW S,
         d.keyed = NoteOf(w, n).keyed, d.change = NoteOf(w, n).change,
         d.witness = NoteOf(w, n).witness \/ NoteOf(w, n).keyed,
         d.spent \in {NoTx, NoteOf(w, n).spent} \cup S,
         d.pending \in {NoTx, NoteOf(w, n).pending}
  PROVE  Step(w, g, S, {})
<1>1. ShapeOf(g)
  BY DEF GoodWallet, ShapeOf, Replaced
<1>2. ChangeOf(g)
  <2>1. ASSUME NEW m \in Note, Known(g, m), m[2] # "t"
        PROVE  NoteOf(g, m).change <=> g[m[1]].paid # {}
    <3>1. Known(w, m) /\ NoteOf(g, m).change = NoteOf(w, m).change
      BY <2>1 DEF Replaced
    <3>2. g[m[1]].paid = w[m[1]].paid
      BY <3>1 DEF Known, Replaced, SameHead
    <3> QED BY <2>1, <3>1, <3>2 DEF GoodWallet, ChangeOf
  <2> QED BY <2>1 DEF ChangeOf
<1>3. Grows(w, g) /\ MarksFrom(w, g, S, {})
  BY DEF Grows, MarksFrom, Replaced
<1> QED BY <1>1, <1>2, <1>3 DEF Step, GoodWallet

LEMMA MarkNfStep ==
  ASSUME NEW w, GoodWallet(w), NEW n \in Note, Known(w, n), NEW y \in Txs, NEW h \in Nat
  PROVE  Step(w, MarkTxidNfSpent(w, n, y, h), {y}, {})
<1> DEFINE g == MarkTxidNfSpent(w, n, y, h)
           d == Marked(NoteOf(w, n), y, h)
<1>1. IsWallet(g) /\ Replaced(w, g, n, d)
  BY MarkNfIs DEF GoodWallet
<1>2. /\ d.spent = y /\ d.pending = NoTx /\ d.keyed = NoteOf(w, n).keyed
      /\ d.witness = NoteOf(w, n).witness /\ d.change = NoteOf(w, n).change
  BY NoteOfType, MarkedIs DEF GoodWallet
<1> HIDE DEF g, d
<1>3. Step(w, g, {y}, {})
  BY <1>1, <1>2, ReplacedStep
<1> QED BY <1>3 DEF g

LEMMA MarkUtxoStep ==
  ASSUME NEW w, GoodWallet(w), NEW n \in Note, NEW y \in Txs, NEW h \in Nat
  PROVE  Step(w, MarkTxidUtxoSpent(w, n, y, h), {y}, {})
<1>1. CASE Known(w, n)
  <2>1. MarkTxidUtxoSpent(w, n, y, h) = MarkTxidNfSpent(w, n, y, h)
    BY <1>1 DEF MarkTxidUtxoSpent, MarkTxidNfSpent
  <2> QED BY <1>1, <2>1, MarkNfStep
<1>2. CASE ~Known(w, n)
  <2>1. MarkTxidUtxoSpent(w, n, y, h) = w
    BY <1>2 DEF MarkTxidUtxoSpent
  <2>2. Step(w, w, {y}, {})
    BY DEF Step, Grows, MarksFrom
  <2> QED BY <2>1, <2>2
<1> QED BY <1>1, <1>2

LEMMA SetWitnessStep ==
  ASSUME NEW w, GoodWallet(w), NEW n \in Note, Known(w, n), NoteOf(w, n).keyed, NEW c \in WitnessRec
  PROVE  Step(w, SetNote(w, n, [NoteOf(w, n) EXCEPT !.witness = c]), {}, {})
<1> DEFINE d == [NoteOf(w, n) EXCEPT !.witness = c]
           g == SetNote(w, n, d)
<1>1. NoteOf(w, n) \in NoteRec
  BY NoteOfType DEF GoodWallet
<1>2. /\ d \in NoteRec /\ d.spent = NoteOf(w, n).spent /\ d.pending = NoteOf(w, n).pending
      /\ d.keyed = NoteOf(w, n).keyed /\ d.change = NoteOf(w, n).change
  BY <1>1 DEF NoteRec
<1> HIDE DEF d
<1>3. IsWallet(g) /\ Replaced(w, g, n, d)
  BY <1>2, ReplaceIs DEF GoodWallet
<1> HIDE DEF g
<1>4. Step(w, g, {}, {})
  BY <1>2, <1>3, ReplacedStep
<1> QED BY <1>4 DEF g, d

(* A transaction's spends counted, its notes made change *)
LEMMA ChangeStep ==
  ASSUME NEW w, GoodWallet(w), NEW g, IsWallet(g), NEW t \in Txs, DOMAIN g = DOMAIN w \cup {t},
         g[t].paid # {}, \A x \in DOMAIN w : x # t => g[x].paid = w[x].paid,
         NEW S,
         \A m \in Note : Known(g, m) <=> Known(w, m),
         \A m \in Note : Known(w, m) =>
           /\ NoteOf(g, m).keyed = NoteOf(w, m).keyed /\ NoteOf(g, m).witness = NoteOf(w, m).witness
           /\ NoteOf(g, m).spent \in {NoteOf(w, m).spent} \cup S
           /\ NoteOf(g, m).pending = NoteOf(w, m).pending
           /\ NoteOf(g, m).change = IF m[1] = t /\ m[2] # "t" THEN TRUE ELSE NoteOf(w, m).change
  PROVE  Step(w, g, S, {}) /\ t \in DOMAIN g
<1>1. ShapeOf(g)
  BY DEF GoodWallet, ShapeOf
<1>2. ChangeOf(g)
  <2>1. ASSUME NEW m \in Note, Known(g, m), m[2] # "t"
        PROVE  NoteOf(g, m).change <=> g[m[1]].paid # {}
    <3>1. Known(w, m) /\ m[1] \in DOMAIN w
      BY <2>1 DEF Known
    <3>2. CASE m[1] = t
      BY <2>1, <3>1, <3>2
    <3>3. CASE m[1] # t
      BY <2>1, <3>1, <3>3 DEF GoodWallet, ChangeOf
    <3> QED BY <3>2, <3>3
  <2> QED BY <2>1 DEF ChangeOf
<1>3. Grows(w, g) /\ MarksFrom(w, g, S, {})
  BY DEF Grows, MarksFrom
<1> QED BY <1>1, <1>2, <1>3 DEF Step, GoodWallet

LEMMA AddTaddrSpentStep ==
  ASSUME NEW w, GoodWallet(w), NEW t \in Txs, NEW h \in Nat, NEW u \in BOOLEAN,
         NEW utxos \in SUBSET Note, utxos # {}
  PROVE  LET g == AddTaddrSpent(w, t, h, u, utxos) IN Step(w, g, {}, {}) /\ t \in DOMAIN g
<1> DEFINE g == AddTaddrSpent(w, t, h, u, utxos)
<1>0. UtxosAdded(w, g, t, h, u, utxos)
  BY AddTaddrSpentIs DEF GoodWallet
<1> HIDE DEF g
<1>1. /\ IsWallet(g) /\ DOMAIN g = DOMAIN w \cup {t}
      /\ \A x \in DOMAIN w : x # t => SameHead(w, g, x)
      /\ g[t].paid # {}
      /\ ChangedNotes(w, g, t)
  BY <1>0 DEF UtxosAdded
<1>2. \A m \in Note : Known(g, m) <=> Known(w, m)
  BY <1>1 DEF ChangedNotes
<1>3. ASSUME NEW m \in Note, Known(w, m)
      PROVE  /\ NoteOf(g, m).keyed = NoteOf(w, m).keyed /\ NoteOf(g, m).witness = NoteOf(w, m).witness
             /\ NoteOf(g, m).spent = NoteOf(w, m).spent
             /\ NoteOf(g, m).pending = NoteOf(w, m).pending
             /\ NoteOf(g, m).change = IF m[1] = t /\ m[2] # "t" THEN TRUE ELSE NoteOf(w, m).change
  <2> DEFINE d == IF m[1] = t THEN MadeChange(m[2], NoteOf(w, m)) ELSE NoteOf(w, m)
  <2>1. NoteOf(g, m) = d
    BY <1>1, <1>3 DEF ChangedNotes
  <2>2. NoteOf(w, m) \in NoteRec
    BY <1>3, NoteOfType DEF GoodWallet
  <2>3. /\ SameButChange(d, NoteOf(w, m))
        /\ d.change = IF m[1] = t /\ m[2] # "t" THEN TRUE ELSE NoteOf(w, m).change
    BY <2>2, ChangeWithinIs
  <2> HIDE DEF d
  <2> QED BY <2>1, <2>3 DEF SameButChange
<1>4. \A x \in DOMAIN w : x # t => g[x].paid = w[x].paid
  BY <1>1 DEF SameHead
<1>5. Step(w, g, {}, {}) /\ t \in DOMAIN g
  BY <1>1, <1>2, <1>3, <1>4, ChangeStep
<1> QED BY <1>5 DEF g

LEMMA AddNewSpentStep ==
  ASSUME NEW w, GoodWallet(w), NEW t \in Txs, NEW h \in Nat, NEW u \in BOOLEAN, NEW n \in Note
  PROVE  LET g == AddNewSpent(w, t, h, u, n) IN Step(w, g, IF u THEN {} ELSE {t}, {}) /\ t \in DOMAIN g
<1> DEFINE g == AddNewSpent(w, t, h, u, n)
<1>1. SpentAdded(w, g, t, h, u, n)
  BY AddNewSpentIs DEF GoodWallet
<1> HIDE DEF g
<1>2. /\ IsWallet(g) /\ DOMAIN g = DOMAIN w \cup {t} /\ g[t].paid # {}
      /\ \A m \in Note : Known(g, m) <=> Known(w, m)
      /\ \A x \in DOMAIN w : x # t => g[x].paid = w[x].paid
  BY <1>1 DEF SpentAdded, SameHead
<1>3. ASSUME NEW m \in Note, Known(w, m)
      PROVE  /\ NoteOf(g, m).keyed = NoteOf(w, m).keyed /\ NoteOf(g, m).witness = NoteOf(w, m).witness
             /\ NoteOf(g, m).spent \in {NoteOf(w, m).spent} \cup (IF u THEN {} ELSE {t})
             /\ NoteOf(g, m).pending = NoteOf(w, m).pending
             /\ NoteOf(g, m).change = IF m[1] = t /\ m[2] # "t" THEN TRUE ELSE NoteOf(w, m).change
  <2> DEFINE d == IF m[1] = t THEN MadeChange(m[2], NoteOf(w, m)) ELSE NoteOf(w, m)
  <2>1. NoteOf(g, m) = IF ~u /\ m = n THEN [d EXCEPT !.spent = t, !.at = h] ELSE d
    BY <1>1, <1>3 DEF SpentAdded
  <2>2. NoteOf(w, m) \in NoteRec
    BY <1>3, NoteOfType DEF GoodWallet
  <2>3. /\ d \in NoteRec /\ SameButChange(d, NoteOf(w, m))
        /\ d.change = IF m[1] = t /\ m[2] # "t" THEN TRUE ELSE NoteOf(w, m).change
    BY <2>2, ChangeWithinIs
  <2> HIDE DEF d
  <2> QED BY <2>1, <2>3 DEF SameButChange, NoteRec
<1> DEFINE S == IF u THEN {} ELSE {t}
<1>4. \A m \in Note : Known(w, m) =>
        /\ NoteOf(g, m).keyed = NoteOf(w, m).keyed /\ NoteOf(g, m).witness = NoteOf(w, m).witness
        /\ NoteOf(g, m).spent \in {NoteOf(w, m).spent} \cup S
        /\ NoteOf(g, m).pending = NoteOf(w, m).pending
        /\ NoteOf(g, m).change = IF m[1] = t /\ m[2] # "t" THEN TRUE ELSE NoteOf(w, m).change
  BY <1>3
<1> HIDE DEF S
<1>5. Step(w, g, S, {}) /\ t \in DOMAIN g
  BY <1>2, <1>4, ChangeStep DEF GoodWallet
<1> QED BY <1>5 DEF g, S

(* A shielded note found by a scan or by trial decryption *)
LEMMA FoundStep ==
  ASSUME NEW w, GoodWallet(w), NEW t \in Txs, NEW h \in Nat, NEW u \in BOOLEAN,
         NEW g, HeadSet(w, g, t, h, u), NEW n \in Note, n[1] = t, n[2] \in Outs[t], n[2] # "t",
         \A m \in Note : /\ Known(g, m) <=> Known(w, m) \/ m = n
                         /\ Known(w, m) /\ m # n => NoteOf(g, m) = NoteOf(w, m),
         NEW d, NoteOf(g, n) = d,
         \/ Known(w, n) /\ d = NoteOf(w, n)
         \/ /\ Known(w, n) /\ NoteOf(w, n).keyed
            /\ d.spent = NoteOf(w, n).spent /\ d.pending = NoteOf(w, n).pending
            /\ d.keyed /\ d.change = NoteOf(w, n).change
         \/ /\ d.spent = NoTx /\ d.pending = NoTx /\ d.change = (FundsSpentIn(w, t) # {})
            /\ d.keyed \/ (~Known(w, n) /\ Witnesses(d.witness) <= 0)
  PROVE  Step(w, g, {}, {})
<1>1. ShapeOf(g)
  <2>1. ASSUME NEW m \in Note, Known(g, m)
        PROVE  /\ m[2] \in Outs[m[1]]
               /\ m[2] = "s" /\ ~NoteOf(g, m).keyed => Witnesses(NoteOf(g, m).witness) <= 0
    <3>1. CASE m = n
      BY <3>1 DEF GoodWallet, ShapeOf
    <3>2. CASE m # n
      BY <2>1, <3>2 DEF GoodWallet, ShapeOf
    <3> QED BY <3>1, <3>2
  <2> QED BY <2>1 DEF ShapeOf
<1>2. ChangeOf(g)
  <2>1. ASSUME NEW m \in Note, Known(g, m), m[2] # "t"
        PROVE  NoteOf(g, m).change <=> g[m[1]].paid # {}
    <3>1. ASSUME Known(w, m)
          PROVE  g[m[1]].paid = w[m[1]].paid /\ (m[1] = t => FundsSpentIn(w, t) = w[m[1]].paid)
      BY <3>1 DEF Known, HeadSet, SameHead, FundsSpentIn
    <3>2. CASE m # n
      BY <2>1, <3>1, <3>2 DEF GoodWallet, ChangeOf
    <3>3. CASE m = n /\ Known(w, n) /\ d.change = NoteOf(w, n).change
      BY <2>1, <3>1, <3>3 DEF GoodWallet, ChangeOf
    <3>4. CASE m = n /\ d.change = (FundsSpentIn(w, t) # {})
      BY <3>4 DEF HeadSet
    <3> QED BY <3>2, <3>3, <3>4
  <2> QED BY <2>1 DEF ChangeOf
<1>3. Grows(w, g) /\ MarksFrom(w, g, {}, {})
  <2>1. ASSUME NEW m \in Note, Known(w, m)
        PROVE  Known(g, m) /\ (NoteOf(w, m).keyed => NoteOf(g, m).keyed)
    BY <2>1
  <2>2. MarksFrom(w, g, {}, {})
    BY DEF MarksFrom
  <2> QED BY <2>1, <2>2 DEF Grows, HeadSet
<1> QED BY <1>1, <1>2, <1>3 DEF Step, GoodWallet, HeadSet

LEMMA AddPendingNoteStep ==
  ASSUME NEW w, GoodWallet(w), NEW t \in Txs, NEW h \in Nat, "s" \in Outs[t]
  PROVE  Step(w, AddPendingNote(w, t, h), {}, {})
<1> DEFINE g == AddPendingNote(w, t, h)
           n == <<t, "s">>
           new == NewNote(FALSE, NoWitness, FundsSpentIn(w, t) # {})
           d == NoteOf(g, n)
<1>1. HeadSet(w, g, t, h, TRUE) /\ Added(w, g, n, new)
  BY AddPendingNoteIs DEF GoodWallet
<1>2. /\ new.spent = NoTx /\ new.pending = NoTx /\ new.change = (FundsSpentIn(w, t) # {})
      /\ new.witness = NoWitness
  BY NewNoteIs, WitnessTypes
<1>3. n \in Note /\ n[1] = t /\ n[2] = "s"
  BY NoteOfPool DEF Pools
<1> HIDE DEF g, new, n
<1>4. \A m \in Note : /\ Known(g, m) <=> Known(w, m) \/ m = n
                      /\ Known(w, m) /\ m # n => NoteOf(g, m) = NoteOf(w, m)
  BY <1>1 DEF Added
<1>5. \/ Known(w, n) /\ d = NoteOf(w, n)
      \/ ~Known(w, n) /\ d = new
  BY <1>1, <1>3 DEF Added
<1>6. Witnesses(new.witness) <= 0
  BY <1>2, NewWitnesses
<1> HIDE DEF d
<1>7. Step(w, g, {}, {})
  BY <1>1, <1>2, <1>3, <1>4, <1>5, <1>6, FoundStep DEF d
<1> QED BY <1>7 DEF g

LEMMA AddNewOrchardNoteStep ==
  ASSUME NEW w, GoodWallet(w), NEW t \in Txs, NEW h \in Nat, "o" \in Outs[t]
  PROVE  Step(w, AddNewOrchardNote(w, t, h), {}, {})
<1> DEFINE g == AddNewOrchardNote(w, t, h)
           n == <<t, "o">>
           new == NewNote(TRUE, NoWitness, FundsSpentIn(w, t) # {})
           d == NoteOf(g, n)
<1>1. HeadSet(w, g, t, h, FALSE) /\ Added(w, g, n, new)
  BY AddNewOrchardNoteIs DEF GoodWallet
<1>2. /\ new.spent = NoTx /\ new.pending = NoTx /\ new.change = (FundsSpentIn(w, t) # {})
      /\ new.keyed = TRUE
  BY NewNoteIs, WitnessTypes
<1>3. n \in Note /\ n[1] = t /\ n[2] = "o"
  BY NoteOfPool DEF Pools
<1> HIDE DEF g, new, n
<1>4. \A m \in Note : /\ Known(g, m) <=> Known(w, m) \/ m = n
                      /\ Known(w, m) /\ m # n => NoteOf(g, m) = NoteOf(w, m)
  BY <1>1 DEF Added
<1>5. \/ Known(w, n) /\ d = NoteOf(w, n)
      \/ ~Known(w, n) /\ d = new
  BY <1>1, <1>3 DEF Added
<1> HIDE DEF d
<1>7. Step(w, g, {}, {})
  BY <1>1, <1>2, <1>3, <1>4, <1>5, FoundStep DEF d
<1> QED BY <1>7 DEF g

LEMMA FoundNoteIs ==
  ASSUME NEW w, IsWallet(w), NEW n \in Note, NEW h \in Nat
  PROVE  LET d == FoundNote(w, n, h)
         IN  /\ d.keyed /\ d.witness = FirstWitness(h)
             /\ \/ /\ Known(w, n) /\ NoteOf(w, n).keyed
                   /\ d.spent = NoteOf(w, n).spent /\ d.at = NoteOf(w, n).at
                   /\ d.pending = NoteOf(w, n).pending /\ d.change = NoteOf(w, n).change
                \/ /\ ~(Known(w, n) /\ NoteOf(w, n).keyed)
                   /\ d.spent = NoTx /\ d.at = 0 /\ d.pending = NoTx
                   /\ d.change = (FundsSpentIn(w, n[1]) # {})
<1>1. CASE Known(w, n) /\ NoteOf(w, n).keyed
  <2>1. NoteOf(w, n) \in NoteRec
    BY <1>1, NoteOfType
  <2>2. FoundNote(w, n, h) = [NoteOf(w, n) EXCEPT !.witness = FirstWitness(h)]
    BY <1>1 DEF FoundNote
  <2> QED BY <1>1, <2>1, <2>2 DEF NoteRec
<1>2. CASE ~(Known(w, n) /\ NoteOf(w, n).keyed)
  <2>1. FoundNote(w, n, h) = NewNote(TRUE, FirstWitness(h), FundsSpentIn(w, n[1]) # {})
    BY <1>2 DEF FoundNote
  <2> DEFINE e == NewNote(TRUE, FirstWitness(h), FundsSpentIn(w, n[1]) # {})
  <2>2. /\ e.spent = NoTx /\ e.at = 0 /\ e.pending = NoTx /\ e.keyed = TRUE
        /\ e.witness = FirstWitness(h) /\ e.change = (FundsSpentIn(w, n[1]) # {})
    BY NewNoteIs, WitnessTypes
  <2> HIDE DEF e
  <2>3. FoundNote(w, n, h) = e
    BY <2>1 DEF e
  <2> QED BY <1>2, <2>2, <2>3
<1> QED BY <1>1, <1>2

LEMMA AddNewSaplingNoteStep ==
  ASSUME NEW w, GoodWallet(w), NEW t \in Txs, NEW h \in Nat, "s" \in Outs[t]
  PROVE  LET g == AddNewSaplingNote(w, t, h)
         IN  Step(w, g, {}, {}) /\ Known(g, <<t, "s">>) /\ NoteOf(g, <<t, "s">>).keyed
<1>0. \A x \in Txs, e \in Nat :
        LET new == AddNewSaplingNote(w, x, e)
            k == <<x, "s">>
        IN  /\ HeadSet(w, new, x, e, FALSE)
            /\ FoundNote(w, k, e) \in NoteRec
            /\ \A m \in Note :
                 /\ Known(new, m) <=> Known(w, m) \/ m = k
                 /\ m = k => NoteOf(new, m) = FoundNote(w, k, e)
                 /\ m # k /\ Known(w, m) => NoteOf(new, m) = NoteOf(w, m)
  BY AddNewSaplingNoteIs DEF GoodWallet
<1> DEFINE g == AddNewSaplingNote(w, t, h)
           n == <<t, "s">>
           d == FoundNote(w, n, h)
<1>1. /\ HeadSet(w, g, t, h, FALSE)
      /\ d \in NoteRec
      /\ \A m \in Note :
           /\ Known(g, m) <=> Known(w, m) \/ m = n
           /\ m = n => NoteOf(g, m) = d
           /\ m # n /\ Known(w, m) => NoteOf(g, m) = NoteOf(w, m)
  BY <1>0
<1>2. n \in Note /\ n[1] = t /\ n[2] = "s"
  BY NoteOfPool DEF Pools
<1> HIDE DEF g, n
<1>3. /\ d.keyed
      /\ \/ /\ Known(w, n) /\ NoteOf(w, n).keyed
            /\ d.spent = NoteOf(w, n).spent
            /\ d.pending = NoteOf(w, n).pending /\ d.change = NoteOf(w, n).change
         \/ /\ d.spent = NoTx /\ d.pending = NoTx
            /\ d.change = (FundsSpentIn(w, t) # {})
  BY <1>2, FoundNoteIs DEF GoodWallet
<1> HIDE DEF d
<1>4. NoteOf(g, n) = d /\ Known(g, n)
  BY <1>1, <1>2
<1>5. Step(w, g, {}, {})
  BY <1>1, <1>2, <1>3, <1>4, FoundStep
<1> QED BY <1>3, <1>4, <1>5 DEF g, n

LEMMA PlacedStep ==
  ASSUME NEW w, GoodWallet(w), NEW new
  PROVE  Step(w, Placed(w, new), {}, {})
<1> DEFINE g == Placed(w, new)
<1>1. /\ Mapped(w, g) /\ DOMAIN g = DOMAIN w
      /\ \A n \in Note : Known(g, n) => NoteOf(g, n) = PlacedNote(n, NoteOf(w, n), new)
  BY PlacedIs DEF GoodWallet
<1> HIDE DEF g
<1>2. \A m \in Note : Known(g, m) <=> Known(w, m)
  BY <1>1 DEF Mapped, Known
<1>3. ASSUME NEW m \in Note, Known(w, m)
      PROVE  /\ NoteOf(g, m).keyed = NoteOf(w, m).keyed /\ NoteOf(g, m).witness = NoteOf(w, m).witness
             /\ NoteOf(g, m).spent = NoteOf(w, m).spent
             /\ NoteOf(g, m).pending = NoteOf(w, m).pending
             /\ NoteOf(g, m).change = NoteOf(w, m).change
  <2>1. NoteOf(w, m) \in NoteRec
    BY <1>3, NoteOfType DEF GoodWallet
  <2>2. NoteOf(g, m) = PlacedNote(m, NoteOf(w, m), new)
    BY <1>1, <1>2, <1>3
  <2> QED BY <2>1, <2>2, PlacedNoteIs
<1>4. ASSUME NEW m \in Note, Known(w, m)
      PROVE  g[m[1]].paid = w[m[1]].paid
  BY <1>1, <1>4 DEF Mapped, Known, SameHead
<1>5. IsWallet(g) /\ ShapeOf(g)
  BY <1>1, <1>2, <1>3 DEF Mapped, GoodWallet, ShapeOf
<1>6. ChangeOf(g)
  BY <1>2, <1>3, <1>4 DEF GoodWallet, ChangeOf
<1>7. Grows(w, g) /\ MarksFrom(w, g, {}, {})
  BY <1>1, <1>2, <1>3 DEF Grows, MarksFrom
<1> QED BY <1>5, <1>6, <1>7 DEF Step, GoodWallet, g

LEMMA ReservedStep ==
  ASSUME NEW w, GoodWallet(w), NEW ns, NEW y \in Txs
  PROVE  Step(w, Reserved(w, ns, y), {}, {y})
<1> DEFINE g == Reserved(w, ns, y)
<1>1. /\ Mapped(w, g) /\ DOMAIN g = DOMAIN w
      /\ \A n \in Note : Known(g, n) => NoteOf(g, n) = ReservedNote(n, NoteOf(w, n), ns, y)
  BY ReservedIs DEF GoodWallet
<1> HIDE DEF g
<1>2. \A m \in Note : Known(g, m) <=> Known(w, m)
  BY <1>1 DEF Mapped, Known
<1>3. ASSUME NEW m \in Note, Known(w, m)
      PROVE  /\ NoteOf(g, m).keyed = NoteOf(w, m).keyed /\ NoteOf(g, m).witness = NoteOf(w, m).witness
             /\ NoteOf(g, m).spent = NoteOf(w, m).spent
             /\ NoteOf(g, m).pending \in {y, NoteOf(w, m).pending}
             /\ NoteOf(g, m).change = NoteOf(w, m).change
  <2>1. NoteOf(w, m) \in NoteRec
    BY <1>3, NoteOfType DEF GoodWallet
  <2>2. NoteOf(g, m) = ReservedNote(m, NoteOf(w, m), ns, y)
    BY <1>1, <1>2, <1>3
  <2> QED BY <2>1, <2>2, ReservedNoteIs
<1>4. ASSUME NEW m \in Note, Known(w, m)
      PROVE  g[m[1]].paid = w[m[1]].paid
  BY <1>1, <1>4 DEF Mapped, Known, SameHead
<1>5. IsWallet(g) /\ ShapeOf(g)
  BY <1>1, <1>2, <1>3 DEF Mapped, GoodWallet, ShapeOf
<1>6. ChangeOf(g)
  BY <1>2, <1>3, <1>4 DEF GoodWallet, ChangeOf
<1>7. Grows(w, g) /\ MarksFrom(w, g, {}, {y})
  BY <1>1, <1>2, <1>3 DEF Grows, MarksFrom
<1> QED BY <1>5, <1>6, <1>7 DEF Step, GoodWallet, g

(* What a removal does to a wallet: reorg, expiry.  Orchard notes keep their *)
(* marks.                                                                    *)
Removal(w, g, removed) ==
  /\ Mapped(w, g) /\ DOMAIN g = DOMAIN w \ removed
  /\ \A n \in Note : Known(g, n) =>
       LET d == NoteOf(w, n)
           e == NoteOf(g, n)
       IN  /\ e.keyed = d.keyed /\ e.change = d.change
           /\ e.spent = IF n[2] # "o" /\ d.spent \in removed THEN NoTx ELSE d.spent
           /\ e.at = IF n[2] # "o" /\ d.spent \in removed THEN 0 ELSE d.at
           /\ e.pending = IF n[2] # "o" /\ d.pending \in removed THEN NoTx ELSE d.pending
           /\ Witnesses(d.witness) <= 0 => Witnesses(e.witness) <= 0

LEMMA PopWitnesses ==
  ASSUME NEW c \in WitnessRec, NEW h \in Int, Witnesses(c) <= 0
  PROVE  Witnesses(Pop(c, h)) <= 0
<1>1. /\ Pop(c, h).from = c.from
      /\ Pop(c, h).top = Larger(c.from - 1, Smaller(c.top, h - 1))
  BY PopIs
<1>2. c.from \in Int /\ c.top \in Int
  BY DEF WitnessRec
<1> QED BY <1>1, <1>2 DEF Witnesses, Larger, Smaller

LEMMA ReorgRemoval ==
  ASSUME NEW w, IsWallet(w), NEW h \in Nat
  PROVE  Removal(w, RemoveTxnsAtHeight(w, h), {t \in DOMAIN w : w[t].block >= h})
<1> DEFINE g == RemoveTxnsAtHeight(w, h)
           removed == {t \in DOMAIN w : w[t].block >= h}
<1>1. /\ Mapped(w, g) /\ DOMAIN g = DOMAIN w \ removed
      /\ \A n \in Note : Known(g, n) =>
           NoteOf(g, n) = PopNote(RollBack(n[2], NoteOf(w, n), removed), h)
  BY RemoveAtHeightIs
<1> HIDE DEF g, removed
<1>2. ASSUME NEW n \in Note, Known(g, n)
      PROVE  LET d == NoteOf(w, n)
                 e == NoteOf(g, n)
             IN  /\ e.keyed = d.keyed /\ e.change = d.change
                 /\ e.spent = IF n[2] # "o" /\ d.spent \in removed THEN NoTx ELSE d.spent
                 /\ e.at = IF n[2] # "o" /\ d.spent \in removed THEN 0 ELSE d.at
                 /\ e.pending = IF n[2] # "o" /\ d.pending \in removed THEN NoTx ELSE d.pending
                 /\ Witnesses(d.witness) <= 0 => Witnesses(e.witness) <= 0
  <2> DEFINE d == NoteOf(w, n)
             c == RollBack(n[2], d, removed)
             e == NoteOf(g, n)
  <2>1. d \in NoteRec
    BY <1>1, <1>2, NoteOfType DEF Mapped
  <2>2. e = PopNote(c, h)
    BY <1>1, <1>2
  <2> HIDE DEF d, e
  <2>3. /\ c \in NoteRec /\ c.keyed = d.keyed /\ c.witness = d.witness /\ c.change = d.change
        /\ c.spent = IF n[2] # "o" /\ d.spent \in removed THEN NoTx ELSE d.spent
        /\ c.at = IF n[2] # "o" /\ d.spent \in removed THEN 0 ELSE d.at
        /\ c.pending = IF n[2] # "o" /\ d.pending \in removed THEN NoTx ELSE d.pending
    BY <2>1, RollBackIs
  <2> HIDE DEF c
  <2>4. /\ e.witness = Pop(c.witness, h)
        /\ e.spent = c.spent /\ e.at = c.at /\ e.pending = c.pending
        /\ e.keyed = c.keyed /\ e.change = c.change
    BY <2>2, <2>3, PopNoteIs
  <2>5. Witnesses(d.witness) <= 0 => Witnesses(e.witness) <= 0
    BY <2>1, <2>3, <2>4, PopWitnesses DEF NoteRec
  <2> QED BY <2>3, <2>4, <2>5 DEF d, e
<1> QED BY <1>1, <1>2 DEF Removal, g, removed

(* The end of a batch: clear_old_witnesses, then clear_expired_mempool *)
ExpiredIn(w, latest) == {t \in DOMAIN w : w[t].unconfirmed /\ w[t].block < latest - MaxReorg}

LEMMA ExpiryRemoval ==
  ASSUME NEW w, IsWallet(w), NEW h \in Nat
  PROVE  Removal(w, ClearExpiredMempool(ClearOldWitnesses(w, h), h), ExpiredIn(w, h))
<1> DEFINE v == ClearOldWitnesses(w, h)
           g == ClearExpiredMempool(v, h)
           removed == {t \in DOMAIN v : v[t].unconfirmed /\ v[t].block < h - MaxReorg}
<1>1. /\ Mapped(w, v) /\ DOMAIN v = DOMAIN w
      /\ \A n \in Note : Known(v, n) => NoteOf(v, n) = Cleared(n[2], NoteOf(w, n), h)
  BY ClearOldIs
<1> HIDE DEF v
<1>2. /\ Mapped(v, g) /\ DOMAIN g = DOMAIN v \ removed
      /\ \A n \in Note : Known(g, n) => NoteOf(g, n) = RollBack(n[2], NoteOf(v, n), removed)
  BY <1>1, ClearExpiredIs DEF Mapped
<1>3. removed = ExpiredIn(w, h)
  BY <1>1 DEF Mapped, SameHead, ExpiredIn
<1> HIDE DEF g, removed
<1>4. Mapped(w, g)
  BY <1>1, <1>2 DEF Mapped, SameHead
<1>5. ASSUME NEW n \in Note, Known(g, n)
      PROVE  LET d == NoteOf(w, n)
                 e == NoteOf(g, n)
             IN  /\ e.keyed = d.keyed /\ e.change = d.change
                 /\ e.spent = IF n[2] # "o" /\ d.spent \in removed THEN NoTx ELSE d.spent
                 /\ e.at = IF n[2] # "o" /\ d.spent \in removed THEN 0 ELSE d.at
                 /\ e.pending = IF n[2] # "o" /\ d.pending \in removed THEN NoTx ELSE d.pending
                 /\ Witnesses(d.witness) <= 0 => Witnesses(e.witness) <= 0
  <2> DEFINE d == NoteOf(w, n)
             c == NoteOf(v, n)
             e == NoteOf(g, n)
  <2>1. Known(v, n) /\ Known(w, n)
    BY <1>1, <1>2, <1>5 DEF Mapped
  <2>2. c = Cleared(n[2], d, h) /\ e = RollBack(n[2], c, removed) /\ d \in NoteRec
    BY <1>1, <1>2, <1>5, <2>1, NoteOfType
  <2> HIDE DEF d, c, e
  <2>3. /\ c \in NoteRec /\ c.spent = d.spent /\ c.at = d.at /\ c.pending = d.pending
        /\ c.keyed = d.keyed /\ c.change = d.change
        /\ c.witness = d.witness \/ c.witness = NoWitness
    BY <2>2, ClearedIs
  <2>4. /\ e.keyed = c.keyed /\ e.witness = c.witness /\ e.change = c.change
        /\ e.spent = IF n[2] # "o" /\ c.spent \in removed THEN NoTx ELSE c.spent
        /\ e.at = IF n[2] # "o" /\ c.spent \in removed THEN 0 ELSE c.at
        /\ e.pending = IF n[2] # "o" /\ c.pending \in removed THEN NoTx ELSE c.pending
    BY <2>2, <2>3, RollBackIs
  <2>5. Witnesses(d.witness) <= 0 => Witnesses(e.witness) <= 0
    BY <2>3, <2>4, NewWitnesses
  <2> QED BY <2>3, <2>4, <2>5 DEF d, e
<1>6. Removal(w, g, removed)
  BY <1>1, <1>2, <1>4, <1>5 DEF Removal
<1> QED BY <1>3, <1>6 DEF g, v

LEMMA RemovalStep ==
  ASSUME NEW w, GoodWallet(w), NEW g, NEW removed, Removal(w, g, removed)
  PROVE  GoodWallet(g)
<1>1. ASSUME NEW n \in Note, Known(g, n)
      PROVE  /\ Known(w, n) /\ n[1] \in DOMAIN g
             /\ NoteOf(g, n).keyed = NoteOf(w, n).keyed /\ NoteOf(g, n).change = NoteOf(w, n).change
             /\ Witnesses(NoteOf(w, n).witness) <= 0 => Witnesses(NoteOf(g, n).witness) <= 0
             /\ g[n[1]].paid = w[n[1]].paid
  <2>1. Known(w, n) /\ n[1] \in DOMAIN g
    BY <1>1 DEF Removal, Mapped
  <2>2. g[n[1]].paid = w[n[1]].paid
    BY <2>1 DEF Removal, Mapped, SameHead
  <2> QED BY <1>1, <2>1, <2>2 DEF Removal
<1>2. ShapeOf(g)
  BY <1>1 DEF GoodWallet, ShapeOf
<1>3. ChangeOf(g)
  BY <1>1 DEF GoodWallet, ChangeOf
<1> QED BY <1>2, <1>3 DEF GoodWallet, Removal, Mapped

-----------------------------------------------------------------------------
(* What the actions rely on *)

Batch == {"scan", "orchard"}

(* A batch's work concerns its own transactions, and notes the wallet has.   *)
QueueInv ==
  /\ phase \notin Batch =>
       detect = {} /\ ~oldNotes /\ upd = {} /\ found = {} /\ taddrQ = {} /\ fullQ = {}
  /\ phase = "orchard" => detect = {} /\ ~oldNotes
  /\ taddrQ \subseteq NewTxs /\ fullQ \subseteq NewTxs
  /\ \A n \in detect : n[1] \in NewTxs /\ n[2] \in {"s", "o"} /\ n[2] \in Outs[n[1]]
  /\ \A u \in upd : Known(txns, u.note) /\ NoteOf(txns, u.note).keyed
  /\ \A f \in found : f.spender \in NewTxs

(* A scan outside a batch is the monitor's, or the only one of the send that *)
(* holds the lock.                                                           *)
ScanInv ==
  /\ streamQ # <<>> => Monitor
  /\ \A s \in scans :
       /\ s.unconfirmed <=> s.by \in {"mempool", "send"}
       /\ phase \notin Batch => s.by \in {"mempool", "send"}
       /\ s.by = "mempool" => Monitor
       /\ s.by = "send" => phase = "sendscan" /\ s.tx = sending
       /\ s.step = "mark" => s.utxos # {} /\ \A n \in s.toMark : n[2] = "t"
       /\ \A r \in scans : s.by = "send" /\ r.by = "send" => r = s
  /\ phase \in {"send", "sendscan"} => sending \in Sent

GoodInv == GoodWallet(txns) /\ GoodWallet(saved)

CoreInv == TypeOK /\ QueueInv /\ ScanInv /\ GoodInv

LEMMA HeightIs ==
  ASSUME NEW c \in Seq(Blocks), NEW t \in Mined(c)
  PROVE  HeightIn(c, t) \in 1..Len(c) /\ t \in c[HeightIn(c, t)] /\ HeightIn(c, t) \in Nat /\ t \in Txs
<1>1. PICK h \in 1..Len(c) : t \in c[h]
  BY DEF Mined
<1>2. HeightIn(c, t) \in 1..Len(c) /\ t \in c[HeightIn(c, t)]
  BY <1>1 DEF HeightIn
<1>3. \A i \in 1..Len(c) : c[i] \subseteq Txs
  BY DEF Blocks
<1> QED BY <1>2, <1>3

LEMMA NewTxsAre ==
  ASSUME SyncTypes
  PROVE  /\ NewTxs \subseteq Mined(view) /\ NewTxs \subseteq Txs
         /\ \A t \in NewTxs : HeightIn(view, t) \in Nat
<1>1. view \in Seq(Blocks) /\ keep \in Nat
  BY DEF SyncTypes
<1>2. \A h \in (keep + 1)..Len(view) : h \in 1..Len(view)
  BY <1>1
<1>3. NewTxs \subseteq Mined(view)
  BY <1>2 DEF NewTxs, Mined
<1> QED BY <1>1, <1>3, HeightIs

LEMMA InitCore == Init => CoreInv
<1> SUFFICES ASSUME Init PROVE CoreInv
  OBVIOUS
<1> USE DEF Init
<1>1. <<{}>> \in Seq(Blocks) /\ <<>> \in Seq(Blocks)
  BY DEF Blocks
<1>2. ServerTypes
  BY <1>1 DEF ServerTypes
<1>3. WalletTypes /\ GoodInv
  <2>1. DOMAIN txns = {} /\ DOMAIN saved = {}
    OBVIOUS
  <2> QED BY <2>1 DEF WalletTypes, GoodInv, GoodWallet, IsWallet, ShapeOf, ChangeOf, Known
<1>4. SyncTypes
  BY <1>1 DEF SyncTypes
<1>5. ScanTypes
  BY DEF ScanTypes
<1>6. QueueInv /\ ScanInv
  BY DEF QueueInv, ScanInv
<1> QED BY <1>2, <1>3, <1>4, <1>5, <1>6 DEF CoreInv, TypeOK

(* The parts of the invariant that an action leaves alone *)
LEMMA SameServer ==
  ASSUME ServerTypes, UNCHANGED <<serverVars, shared, synced>>
  PROVE  ServerTypes'
BY DEF ServerTypes, serverVars

LEMMA SameSync ==
  ASSUME SyncTypes, UNCHANGED syncVars
  PROVE  SyncTypes'
BY DEF SyncTypes, syncVars, queueVars

LEMMA SameScans ==
  ASSUME ScanTypes, ScanInv, UNCHANGED <<phase, scans, streamQ, sending>>
  PROVE  ScanTypes' /\ ScanInv'
BY DEF ScanTypes, ScanInv

LEMMA SameWallet ==
  ASSUME GoodInv, UNCHANGED <<txns, saved>>
  PROVE  GoodInv'
BY DEF GoodInv

LEMMA GrownWallet ==
  ASSUME GoodInv, NEW S, NEW R, Step(txns, txns', S, R), UNCHANGED saved
  PROVE  GoodInv'
BY DEF GoodInv, Step

LEMMA GoodIsTyped ==
  ASSUME GoodInv
  PROVE  WalletTypes
BY DEF GoodInv, GoodWallet, WalletTypes

LEMMA UpdKept ==
  ASSUME QueueInv, SyncTypes, Grows(txns, txns')
  PROVE  \A u \in upd : Known(txns, u.note)' /\ (NoteOf(txns, u.note).keyed)'
BY DEF QueueInv, SyncTypes, Grows

LEMMA SameQueues ==
  ASSUME QueueInv, SyncTypes, Grows(txns, txns'), UNCHANGED syncVars
  PROVE  QueueInv'
<1>1. \A u \in upd : Known(txns, u.note)' /\ (NoteOf(txns, u.note).keyed)'
  BY UpdKept
<1>2. NewTxs' = NewTxs
  BY DEF NewTxs, syncVars
<1> QED BY <1>1, <1>2 DEF QueueInv, syncVars, queueVars

LEMMA SameTxnsGrow ==
  ASSUME UNCHANGED txns
  PROVE  Grows(txns, txns')
BY DEF Grows

LEMMA NewChain ==
  ASSUME ServerTypes, chain' \in Seq(Blocks), mempool' \in SUBSET Txs, expiry' \in [Txs -> Nat],
         reorgs' \in Nat, shared' \in Nat, UNCHANGED synced
  PROVE  ServerTypes'
BY DEF ServerTypes

LEMMA ServerCore == CoreInv /\ Server => CoreInv'
<1> SUFFICES ASSUME CoreInv, Server PROVE CoreInv'
  OBVIOUS
<1>0. ServerTypes /\ SyncTypes /\ ScanTypes /\ QueueInv /\ ScanInv /\ GoodInv
  BY DEF CoreInv, TypeOK
<1>1. UNCHANGED <<txns, saved, synced, syncVars, scans, sending>>
  BY DEF Server, Mine, Reorg, Arrive, Stream
<1>2. SyncTypes' /\ QueueInv' /\ GoodInv'
  BY <1>0, <1>1, SameSync, SameQueues, SameTxnsGrow, SameWallet
<1>3. ASSUME UNCHANGED <<streamQ>>, ServerTypes'
      PROVE  CoreInv'
  <2>1. ScanTypes' /\ ScanInv'
    BY <1>0, <1>1, <1>3, SameScans DEF syncVars
  <2> QED BY <1>2, <1>3, <2>1, GoodIsTyped DEF CoreInv, TypeOK, GoodInv, WalletTypes, GoodWallet
<1>4. ASSUME NEW S \in SUBSET Txs, Mine(S)
      PROVE  CoreInv'
  <2>1. chain' \in Seq(Blocks) /\ mempool' \in SUBSET Txs
    BY <1>0, <1>4 DEF Mine, ServerTypes, Blocks
  <2> QED BY <1>0, <1>3, <1>4, <2>1 DEF Mine, ServerTypes
<1>5. ASSUME NEW k \in 1..Len(chain), NEW back \in SUBSET Txs, Reorg(k, back)
      PROVE  CoreInv'
  <2>1. chain' \in Seq(Blocks) /\ mempool' \in SUBSET Txs
    BY <1>0, <1>5 DEF Reorg, ServerTypes
  <2>2. shared' \in Nat /\ reorgs' \in Nat
    BY <1>0, <1>5 DEF Reorg, ServerTypes, Smaller
  <2> QED BY <1>0, <1>3, <1>5, <2>1, <2>2 DEF Reorg, ServerTypes
<1>6. ASSUME NEW t \in Txs, Arrive(t)
      PROVE  CoreInv'
  <2>1. expiry' \in [Txs -> Nat]
    <3>1. Len(chain) + 1 + ExpiryDelta \in Nat
      BY <1>0, BoundAssumption DEF ServerTypes
    <3> QED BY <1>0, <1>6, <3>1 DEF Arrive, ServerTypes
  <2> QED BY <1>0, <1>3, <1>6, <2>1 DEF Arrive, ServerTypes
<1>7. ASSUME NEW t \in Txs, Stream(t)
      PROVE  CoreInv'
  <2>1. ServerTypes'
    BY <1>0, <1>7, SameServer DEF Stream
  <2>2. ScanTypes' /\ ScanInv'
    <3>1. streamQ' \in Seq([tx : Txs, height : Nat])
      BY <1>0, <1>7 DEF Stream, ScanTypes, ServerTypes
    <3> QED BY <1>0, <1>1, <1>7, <3>1 DEF Stream, ScanTypes, ScanInv, syncVars
  <2> QED BY <1>2, <2>1, <2>2, GoodIsTyped DEF CoreInv, TypeOK, GoodInv, WalletTypes, GoodWallet
<1> QED BY <1>4, <1>5, <1>6, <1>7 DEF Server

LEMMA CoreFrom ==
  ASSUME ServerTypes', SyncTypes', ScanTypes', QueueInv', ScanInv', GoodInv'
  PROVE  CoreInv'
BY DEF CoreInv, TypeOK, GoodInv, WalletTypes, GoodWallet

LEMMA StartSyncCore == CoreInv /\ StartSync => CoreInv'
<1> SUFFICES ASSUME CoreInv, StartSync PROVE CoreInv'
  OBVIOUS
<1>0. ServerTypes /\ SyncTypes /\ ScanTypes /\ QueueInv /\ ScanInv /\ GoodInv
  BY DEF CoreInv, TypeOK
<1> USE DEF StartSync
<1>1. shared' \in Nat /\ keep' \in Nat
  BY <1>0 DEF ServerTypes, Smaller
<1>2. ServerTypes' /\ GoodInv'
  BY <1>0, <1>1, SameWallet DEF ServerTypes, serverVars
<1>3. SyncTypes'
  BY <1>0, <1>1 DEF SyncTypes, ServerTypes, queueVars
<1>4. ScanTypes' /\ ScanInv'
  BY <1>0 DEF ScanTypes, ScanInv, Batch
<1>5. QueueInv'
  BY <1>0 DEF QueueInv, Batch, queueVars
<1> QED BY <1>2, <1>3, <1>4, <1>5, CoreFrom

LEMMA InvalidateCore == CoreInv /\ InvalidateBlock => CoreInv'
<1> SUFFICES ASSUME CoreInv, InvalidateBlock PROVE CoreInv'
  OBVIOUS
<1>0. ServerTypes /\ SyncTypes /\ ScanTypes /\ QueueInv /\ ScanInv /\ GoodInv
  BY DEF CoreInv, TypeOK
<1> USE DEF InvalidateBlock
<1>1. left' \in Nat
  BY <1>0 DEF SyncTypes
<1>2. ServerTypes'
  BY <1>0, SameServer
<1>3. SyncTypes'
  BY <1>0, <1>1 DEF SyncTypes, queueVars
<1>4. ScanTypes' /\ ScanInv'
  BY <1>0, SameScans
<1>5. QueueInv'
  <2>1. QueueInv /\ phase = "reorg" /\ phase \notin Batch
    BY <1>0 DEF Batch
  <2>2. UNCHANGED <<phase, queueVars>>
    OBVIOUS
  <2> QED BY <2>1, <2>2 DEF QueueInv, queueVars
<1>6. GoodInv'
  <2>1. GoodWallet(txns) /\ left \in Nat
    BY <1>0 DEF GoodInv, SyncTypes
  <2>2. GoodWallet(RemoveTxnsAtHeight(txns, left))
    BY <2>1, ReorgRemoval, RemovalStep DEF GoodWallet
  <2> QED BY <1>0, <2>2 DEF GoodInv
<1> QED BY <1>2, <1>3, <1>4, <1>5, <1>6, CoreFrom

LEMMA BlocksDoneCore == CoreInv /\ BlocksDone => CoreInv'
<1> SUFFICES ASSUME CoreInv, BlocksDone PROVE CoreInv'
  OBVIOUS
<1>0. ServerTypes /\ SyncTypes /\ ScanTypes /\ QueueInv /\ ScanInv /\ GoodInv
  BY DEF CoreInv, TypeOK
<1> USE DEF BlocksDone
<1>1. NewTxs \subseteq Txs /\ NewTxs' = NewTxs
  BY <1>0, NewTxsAre DEF NewTxs
<1>2. ServerTypes' /\ GoodInv'
  BY <1>0, SameServer, SameWallet
<1>3. detect' \in SUBSET Note /\ \A n \in detect' : n[1] \in NewTxs /\ n[2] \in {"s", "o"} /\ n[2] \in Outs[n[1]]
  BY <1>1 DEF Note, Pools
<1>4. SyncTypes'
  BY <1>0, <1>1, <1>3 DEF SyncTypes
<1>5. ScanTypes' /\ ScanInv'
  BY <1>0 DEF ScanTypes, ScanInv, Batch
<1>6. QueueInv'
  BY <1>0, <1>1, <1>3 DEF QueueInv, Batch
<1> QED BY <1>2, <1>4, <1>5, <1>6, CoreFrom

LEMMA FullScans ==
  ASSUME SyncTypes, QueueInv
  PROVE  /\ \A t \in NewTxs : FullScan(t) \subseteq NewTxs
         /\ \A n \in Note : FreshScan(n) \subseteq NewTxs
         /\ fullQ \subseteq NewTxs /\ NewTxs \subseteq Txs
<1>1. fullQ \subseteq NewTxs /\ NewTxs \subseteq Txs
  BY NewTxsAre DEF QueueInv
<1>2. \A t \in NewTxs : FullScan(t) \subseteq NewTxs
  BY DEF FullScan
<1> QED BY <1>1, <1>2 DEF FreshScan

(* The rest of the proof for the actions of a batch that change the wallet *)
LEMMA BatchStep ==
  ASSUME CoreInv, phase \in Batch, NEW S, NEW R, Step(txns, txns', S, R),
         UNCHANGED <<serverVars, shared, synced, saved, phase, view, left, keep, taddrQ,
                     scans, streamQ, sending>>,
         detect' \subseteq detect, oldNotes' \in BOOLEAN, oldNotes' => oldNotes,
         upd' \in SUBSET [note : Note, at : Nat],
         \A u \in upd' : u \in upd \/ (Known(txns, u.note)' /\ (NoteOf(txns, u.note).keyed)'),
         found' \in SUBSET [note : Note, spender : Txs],
         \A f \in found' : f.spender \in NewTxs,
         fullQ' \subseteq NewTxs
  PROVE  CoreInv'
<1>0. ServerTypes /\ SyncTypes /\ ScanTypes /\ QueueInv /\ ScanInv /\ GoodInv
  BY DEF CoreInv, TypeOK
<1>1. ServerTypes' /\ GoodInv' /\ ScanTypes' /\ ScanInv'
  BY <1>0, SameServer, GrownWallet, SameScans
<1>2. NewTxs' = NewTxs /\ NewTxs \subseteq Txs
  BY <1>0, NewTxsAre DEF NewTxs
<1>3. SyncTypes'
  BY <1>0, <1>2 DEF SyncTypes
<1>4. \A u \in upd : Known(txns, u.note)' /\ (NoteOf(txns, u.note).keyed)'
  BY <1>0, UpdKept DEF Step
<1>5. \A n \in detect' : n[1] \in NewTxs /\ n[2] \in {"s", "o"} /\ n[2] \in Outs[n[1]]
  BY <1>0 DEF QueueInv
<1>6. QueueInv'
  BY <1>0, <1>2, <1>4, <1>5 DEF QueueInv
<1> QED BY <1>1, <1>3, <1>6, CoreFrom

LEMMA DetectCore ==
  ASSUME CoreInv, NEW n \in detect, Detect(n)
  PROVE  CoreInv' /\ Step(txns, txns', {}, {})
<1>0. ServerTypes /\ SyncTypes /\ ScanTypes /\ QueueInv /\ ScanInv /\ GoodInv
  BY DEF CoreInv, TypeOK
<1> DEFINE h == HeightIn(view, n[1])
<1>1. n \in Note /\ n[1] \in NewTxs /\ n[1] \in Txs /\ n[2] \in {"s", "o"} /\ n[2] \in Outs[n[1]] /\ h \in Nat
  BY <1>0, NewTxsAre DEF QueueInv, SyncTypes
<1>2. GoodWallet(txns) /\ phase \in Batch /\ oldNotes \in BOOLEAN
  BY <1>0 DEF GoodInv, Detect, Batch, SyncTypes
<1>3. /\ detect' \subseteq detect
      /\ UNCHANGED <<serverVars, shared, synced, saved, phase, view, left, keep, oldNotes, found, taddrQ,
                     scans, streamQ, sending>>
  BY DEF Detect
<1>4. fullQ \subseteq NewTxs /\ FullScan(n[1]) \subseteq NewTxs
  BY <1>0, <1>1, FullScans
<1>5. found \in SUBSET [note : Note, spender : Txs] /\ upd \in SUBSET [note : Note, at : Nat]
      /\ \A f \in found : f.spender \in NewTxs
  BY <1>0 DEF QueueInv, SyncTypes
<1> HIDE DEF h
<1>6. CASE n[2] = "o"
  <2>1. txns' = AddNewOrchardNote(txns, n[1], h) /\ fullQ' = fullQ \cup FullScan(n[1]) /\ upd' = upd
    BY <1>6 DEF Detect, h
  <2>2. Step(txns, txns', {}, {})
    BY <1>1, <1>2, <1>6, <2>1, AddNewOrchardNoteStep
  <2> QED BY <1>2, <1>3, <1>4, <1>5, <2>1, <2>2, BatchStep
<1>7. CASE n[2] = "s"
  <2>1. txns' = AddNewSaplingNote(txns, n[1], h) /\ upd' = upd \cup {[note |-> n, at |-> h]} /\ fullQ' = fullQ
    BY <1>7 DEF Detect, h
  <2>2. n = <<n[1], "s">>
    BY <1>1, <1>7, NoteParts
  <2>3. Step(txns, txns', {}, {}) /\ Known(txns', n) /\ NoteOf(txns', n).keyed
    BY <1>1, <1>2, <1>7, <2>1, <2>2, AddNewSaplingNoteStep
  <2>4. upd' \in SUBSET [note : Note, at : Nat]
    BY <1>1, <1>5, <2>1
  <2>5. \A u \in upd' : u \in upd \/ (Known(txns, u.note)' /\ (NoteOf(txns, u.note).keyed)')
    BY <2>1, <2>3
  <2> QED BY <1>2, <1>3, <1>4, <1>5, <2>1, <2>3, <2>4, <2>5, BatchStep
<1> QED BY <1>1, <1>6, <1>7

LEMMA NoteUpdatable ==
  ASSUME GoodInv, NEW n \in NotesForUpdating(txns, keep)
  PROVE  n \in Note /\ Known(txns, n) /\ NoteOf(txns, n).keyed
<1>1. n \in Note /\ n[2] = "s" /\ Known(txns, n) /\ Witnesses(NoteOf(txns, n).witness) > 0
  BY DEF NotesForUpdating
<1>2. NoteOf(txns, n) \in NoteRec
  BY <1>1, NoteOfType DEF GoodInv, GoodWallet
<1>3. Witnesses(NoteOf(txns, n).witness) \in Int
  BY <1>2 DEF NoteRec, WitnessRec, Witnesses
<1> QED BY <1>1, <1>3 DEF GoodInv, GoodWallet, ShapeOf

LEMMA ReadOldNotesCore == CoreInv /\ ReadOldNotes => CoreInv'
<1> SUFFICES ASSUME CoreInv, ReadOldNotes PROVE CoreInv'
  OBVIOUS
<1>0. SyncTypes /\ QueueInv /\ GoodInv
  BY DEF CoreInv, TypeOK
<1> USE DEF ReadOldNotes
<1>1. Step(txns, txns', {}, {}) /\ phase \in Batch
  BY <1>0, StaysPut DEF GoodInv, Batch
<1>2. /\ upd' \in SUBSET [note : Note, at : Nat]
      /\ \A u \in upd' : u \in upd \/ (Known(txns, u.note)' /\ (NoteOf(txns, u.note).keyed)')
  <2>1. keep + 1 \in Nat
    BY <1>0 DEF SyncTypes
  <2>2. \A n \in NotesForUpdating(txns, keep) : n \in Note /\ Known(txns, n) /\ NoteOf(txns, n).keyed
    BY <1>0, NoteUpdatable
  <2> QED BY <1>0, <2>1, <2>2 DEF SyncTypes
<1>3. /\ detect' \subseteq detect /\ oldNotes' \in BOOLEAN /\ (oldNotes' => oldNotes)
      /\ found' \in SUBSET [note : Note, spender : Txs]
      /\ \A f \in found' : f.spender \in NewTxs
      /\ fullQ' \subseteq NewTxs
  BY <1>0 DEF SyncTypes, QueueInv
<1> QED BY <1>1, <1>2, <1>3, BatchStep

LEMMA LookUpSpentCore ==
  ASSUME CoreInv, NEW u \in upd, LookUpSpent(u)
  PROVE  /\ CoreInv'
         /\ \E y \in NewTxs : /\ Step(txns, txns', {y}, {})
                              /\ found' = found \cup {[note |-> u.note, spender |-> y]}
<1>0. SyncTypes /\ QueueInv /\ GoodInv
  BY DEF CoreInv, TypeOK
<1>1. PICK y \in SpendingTxs(u) :
        /\ txns' = MarkTxidNfSpent(txns, u.note, y, HeightIn(view, y))
        /\ found' = found \cup {[note |-> u.note, spender |-> y]}
  BY DEF LookUpSpent
<1>2. y \in NewTxs /\ y \in Txs /\ HeightIn(view, y) \in Nat
  BY <1>0, <1>1, NewTxsAre DEF SpendingTxs
<1>3. u.note \in Note /\ Known(txns, u.note) /\ GoodWallet(txns)
  BY <1>0 DEF SyncTypes, QueueInv, GoodInv
<1>4. Step(txns, txns', {y}, {})
  BY <1>1, <1>2, <1>3, MarkNfStep
<1>5. phase \in Batch
  BY <1>0 DEF QueueInv
<1>6. /\ UNCHANGED <<serverVars, shared, synced, saved, phase, view, left, keep, detect, oldNotes, taddrQ,
                     fullQ, scans, streamQ, sending>>
      /\ upd' = upd \ {u}
  BY DEF LookUpSpent
<1>7. /\ detect' \subseteq detect /\ oldNotes' \in BOOLEAN /\ (oldNotes' => oldNotes)
      /\ upd' \in SUBSET [note : Note, at : Nat] /\ \A v \in upd' : v \in upd
      /\ found' \in SUBSET [note : Note, spender : Txs]
      /\ fullQ' \subseteq NewTxs
  BY <1>0, <1>1, <1>2, <1>3, <1>6 DEF SyncTypes, QueueInv
<1>8. \A f \in found' : f.spender \in NewTxs
  BY <1>0, <1>1, <1>2 DEF QueueInv
<1>9. CoreInv'
  BY <1>4, <1>5, <1>6, <1>7, <1>8, BatchStep
<1> QED BY <1>1, <1>2, <1>4, <1>9

LEMMA UpdateTypes ==
  ASSUME NEW c \in WitnessRec, NEW last \in Nat
  PROVE  UpdateAfterBlock(c, last) \in WitnessRec
<1>1. MaxReorg \in Nat /\ c.from \in Int /\ c.top \in Int
  BY BoundAssumption DEF WitnessRec
<1>2. Larger(c.from, last - MaxReorg + 1) \in Int /\ last \in Int
  BY <1>1 DEF Larger
<1> QED BY <1>2 DEF UpdateAfterBlock, WitnessRec

LEMMA LookUpUnspentCore ==
  ASSUME CoreInv, NEW u \in upd, LookUpUnspent(u)
  PROVE  CoreInv' /\ Step(txns, txns', {}, {})
<1>0. SyncTypes /\ QueueInv /\ GoodInv
  BY DEF CoreInv, TypeOK
<1> DEFINE start == IF u.note[1] \in NewTxs THEN [FirstWitness(u.at) EXCEPT !.whole = TRUE]
                    ELSE NoteOf(txns, u.note).witness
           c == UpdateAfterBlock(start, Len(view))
<1>1. txns' = SetNote(txns, u.note, [NoteOf(txns, u.note) EXCEPT !.witness = c])
  BY DEF LookUpUnspent
<1>2. u.note \in Note /\ u.at \in Nat /\ Known(txns, u.note) /\ NoteOf(txns, u.note).keyed /\ GoodWallet(txns)
  BY <1>0 DEF SyncTypes, QueueInv, GoodInv
<1>3. c \in WitnessRec
  <2>1. NoteOf(txns, u.note) \in NoteRec
    BY <1>2, NoteOfType DEF GoodWallet
  <2>2. FirstWitness(u.at) \in WitnessRec
    BY <1>2, WitnessTypes
  <2>3. start \in WitnessRec
    BY <2>1, <2>2 DEF NoteRec, WitnessRec
  <2>4. Len(view) \in Nat
    BY <1>0 DEF SyncTypes
  <2> HIDE DEF start
  <2> QED BY <2>3, <2>4, UpdateTypes
<1> HIDE DEF c
<1>4. Step(txns, txns', {}, {})
  BY <1>1, <1>2, <1>3, SetWitnessStep
<1>5. phase \in Batch
  BY <1>0 DEF QueueInv
<1>6. /\ UNCHANGED <<serverVars, shared, synced, saved, phase, view, left, keep, detect, oldNotes, taddrQ,
                     found, scans, streamQ, sending>>
      /\ upd' = upd \ {u}
      /\ fullQ' = fullQ \cup FreshScan(u.note)
  BY DEF LookUpUnspent
<1>7. fullQ' \subseteq NewTxs
  BY <1>0, <1>2, <1>6, FullScans
<1>8. /\ detect' \subseteq detect /\ oldNotes' \in BOOLEAN /\ (oldNotes' => oldNotes)
      /\ upd' \in SUBSET [note : Note, at : Nat] /\ \A v \in upd' : v \in upd
      /\ found' \in SUBSET [note : Note, spender : Txs]
      /\ \A f \in found' : f.spender \in NewTxs
  BY <1>0, <1>6 DEF SyncTypes, QueueInv
<1>9. CoreInv'
  BY <1>4, <1>5, <1>6, <1>7, <1>8, BatchStep
<1> QED BY <1>4, <1>9

LEMMA RecordSpendCore ==
  ASSUME CoreInv, NEW f \in found, RecordSpend(f)
  PROVE  CoreInv' /\ Step(txns, txns', {f.spender}, {}) /\ f.spender \in DOMAIN txns'
<1>0. SyncTypes /\ QueueInv /\ GoodInv
  BY DEF CoreInv, TypeOK
<1> DEFINE h == HeightIn(view, f.spender)
<1>1. txns' = AddNewSpent(txns, f.spender, h, FALSE, f.note)
  BY DEF RecordSpend
<1>2. f.note \in Note /\ f.spender \in NewTxs /\ f.spender \in Txs /\ h \in Nat /\ GoodWallet(txns)
  BY <1>0, NewTxsAre DEF SyncTypes, QueueInv, GoodInv
<1> HIDE DEF h
<1>4. Step(txns, txns', {f.spender}, {}) /\ f.spender \in DOMAIN txns'
  BY <1>1, <1>2, AddNewSpentStep
<1>5. phase \in Batch
  BY <1>0 DEF QueueInv
<1>6. /\ UNCHANGED <<serverVars, shared, synced, saved, phase, view, left, keep, detect, oldNotes, taddrQ,
                     upd, scans, streamQ, sending>>
      /\ found' = found \ {f}
      /\ fullQ' = fullQ \cup FullScan(f.spender) \cup FreshScan(f.note)
  BY DEF RecordSpend
<1>7. fullQ' \subseteq NewTxs
  BY <1>0, <1>2, <1>6, FullScans
<1>8. /\ detect' \subseteq detect /\ oldNotes' \in BOOLEAN /\ (oldNotes' => oldNotes)
      /\ upd' \in SUBSET [note : Note, at : Nat] /\ \A v \in upd' : v \in upd
      /\ found' \in SUBSET [note : Note, spender : Txs]
      /\ \A e \in found' : e.spender \in NewTxs
  BY <1>0, <1>6 DEF SyncTypes, QueueInv
<1>9. CoreInv'
  BY <1>4, <1>5, <1>6, <1>7, <1>8, BatchStep
<1> QED BY <1>4, <1>9

LEMMA OrchardPassCore == CoreInv /\ OrchardPass => CoreInv' /\ Step(txns, txns', {}, {})
<1> SUFFICES ASSUME CoreInv, OrchardPass PROVE CoreInv' /\ Step(txns, txns', {}, {})
  OBVIOUS
<1>0. ServerTypes /\ SyncTypes /\ ScanTypes /\ QueueInv /\ ScanInv /\ GoodInv
  BY DEF CoreInv, TypeOK
<1>1. txns' = Placed(txns, NewTxs) /\ GoodWallet(txns)
  BY <1>0 DEF OrchardPass, Placed, GoodInv
<1>2. Step(txns, txns', {}, {})
  BY <1>1, PlacedStep
<1>3. /\ phase = "scan" /\ phase' = "orchard" /\ detect = {} /\ ~oldNotes
      /\ upd' = {u \in [note : UnspentNullifiers(txns, "o"), at : {keep + 1}] : SpendingTxs(u) # {}}
      /\ UNCHANGED <<serverVars, shared, synced, saved, view, left, keep, detect, oldNotes, found,
                     taddrQ, fullQ, scans, streamQ, sending>>
  BY DEF OrchardPass
<1>4. ServerTypes' /\ GoodInv'
  BY <1>0, <1>2, <1>3, SameServer, GrownWallet
<1>5. ScanTypes' /\ ScanInv'
  BY <1>0, <1>3 DEF ScanTypes, ScanInv, Batch
<1>6. ASSUME NEW u \in upd'
      PROVE  u \in [note : Note, at : Nat] /\ Known(txns, u.note) /\ NoteOf(txns, u.note).keyed
  <2>1. keep + 1 \in Nat
    BY <1>0 DEF SyncTypes
  <2>2. \A n \in UnspentNullifiers(txns, "o") : n \in Note /\ Known(txns, n) /\ NoteOf(txns, n).keyed
    BY DEF UnspentNullifiers
  <2> QED BY <1>3, <1>6, <2>1, <2>2
<1>7. SyncTypes'
  BY <1>0, <1>3, <1>6 DEF SyncTypes
<1>8. QueueInv'
  <2>1. \A u \in upd' : Known(txns', u.note) /\ NoteOf(txns', u.note).keyed
    BY <1>2, <1>6 DEF Step, Grows
  <2>2. NewTxs' = NewTxs
    BY <1>3 DEF NewTxs
  <2> QED BY <1>0, <1>3, <2>1, <2>2 DEF QueueInv, Batch
<1> QED BY <1>2, <1>4, <1>5, <1>7, <1>8, CoreFrom

LEMMA FinishCore == CoreInv /\ FinishSync => CoreInv'
<1> SUFFICES ASSUME CoreInv, FinishSync PROVE CoreInv'
  OBVIOUS
<1>0. ServerTypes /\ SyncTypes /\ ScanTypes /\ QueueInv /\ ScanInv /\ GoodInv
  BY DEF CoreInv, TypeOK
<1> USE DEF FinishSync
<1>1. Len(view) \in Nat /\ view \in Seq(Blocks) /\ <<>> \in Seq(Blocks)
  BY <1>0 DEF SyncTypes
<1>2. ServerTypes'
  BY <1>0, <1>1 DEF ServerTypes, serverVars
<1>3. GoodInv'
  <2>1. GoodWallet(txns)
    BY <1>0 DEF GoodInv
  <2>2. GoodWallet(txns')
    BY <1>1, <2>1, ExpiryRemoval, RemovalStep DEF GoodWallet
  <2> QED BY <2>2 DEF GoodInv
<1>4. SyncTypes'
  BY <1>0, <1>1 DEF SyncTypes, queueVars
<1>5. ScanTypes' /\ ScanInv'
  BY <1>0 DEF ScanTypes, ScanInv, Batch
<1>6. QueueInv'
  <2>1. detect = {} /\ ~oldNotes
    BY <1>0 DEF QueueInv
  <2> QED BY <1>0, <2>1 DEF QueueInv, queueVars
<1> QED BY <1>2, <1>3, <1>4, <1>5, <1>6, CoreFrom

(* A scan starts that is not a send's. *)
LEMMA ScanStarts ==
  ASSUME ScanTypes, ScanInv, NEW s \in ScanRec, s.step = "outputs", s.by # "send",
         s.unconfirmed <=> s.by = "mempool", phase \notin Batch => s.by = "mempool",
         s.by = "mempool" => Monitor,
         scans' = scans \cup {s}, UNCHANGED <<phase, sending>>,
         streamQ' \in Seq([tx : Txs, height : Nat]), streamQ' # <<>> => Monitor
  PROVE  ScanTypes' /\ ScanInv'
<1>1. ScanTypes'
  BY DEF ScanTypes
<1>2. ASSUME NEW r \in scans'
      PROVE  /\ r.unconfirmed <=> r.by \in {"mempool", "send"}
             /\ phase \notin Batch => r.by \in {"mempool", "send"}
             /\ r.by = "mempool" => Monitor
             /\ r.by = "send" => phase = "sendscan" /\ r.tx = sending
             /\ r.step = "mark" => r.utxos # {} /\ \A n \in r.toMark : n[2] = "t"
             /\ \A q \in scans' : r.by = "send" /\ q.by = "send" => q = r
  BY <1>2 DEF ScanInv
<1>3. ScanInv'
  BY <1>2 DEF ScanInv
<1> QED BY <1>1, <1>3

LEMMA ScanTaddrCore ==
  ASSUME CoreInv, NEW t \in taddrQ, ScanTaddr(t)
  PROVE  CoreInv'
<1>0. ServerTypes /\ SyncTypes /\ ScanTypes /\ QueueInv /\ ScanInv /\ GoodInv
  BY DEF CoreInv, TypeOK
<1> DEFINE s == NewScan("taddr", t, HeightIn(view, t), FALSE)
<1>1. t \in NewTxs /\ t \in Txs /\ HeightIn(view, t) \in Nat /\ phase \in Batch
  BY <1>0, NewTxsAre DEF SyncTypes, QueueInv
<1>2. s \in ScanRec /\ s.by = "taddr" /\ s.unconfirmed = FALSE /\ s.step = "outputs"
  BY <1>1 DEF NewScan, ScanRec
<1>3. /\ scans' = scans \cup {s} /\ taddrQ' = taddrQ \ {t}
      /\ UNCHANGED <<serverVars, shared, txns, synced, saved, phase, view, left, keep, detect, oldNotes,
                     upd, found, fullQ, streamQ, sending>>
  BY DEF ScanTaddr
<1> HIDE DEF s
<1>4. ScanTypes' /\ ScanInv'
  BY <1>0, <1>1, <1>2, <1>3, ScanStarts DEF ScanTypes, ScanInv
<1>5. ServerTypes' /\ GoodInv'
  BY <1>0, <1>3, SameServer, SameWallet
<1>6. SyncTypes'
  BY <1>0, <1>3 DEF SyncTypes
<1>7. QueueInv'
  BY <1>0, <1>3 DEF QueueInv, NewTxs
<1> QED BY <1>4, <1>5, <1>6, <1>7, CoreFrom

LEMMA ScanFullCore ==
  ASSUME CoreInv, NEW t \in fullQ, ScanFull(t)
  PROVE  CoreInv'
<1>0. ServerTypes /\ SyncTypes /\ ScanTypes /\ QueueInv /\ ScanInv /\ GoodInv
  BY DEF CoreInv, TypeOK
<1> DEFINE s == NewScan("full", t, HeightIn(view, t), FALSE)
<1>1. t \in NewTxs /\ t \in Txs /\ HeightIn(view, t) \in Nat /\ phase \in Batch
  BY <1>0, NewTxsAre DEF SyncTypes, QueueInv
<1>2. s \in ScanRec /\ s.by = "full" /\ s.unconfirmed = FALSE /\ s.step = "outputs"
  BY <1>1 DEF NewScan, ScanRec
<1>3. /\ scans' = scans \cup {s} /\ fullQ' = fullQ \ {t}
      /\ UNCHANGED <<serverVars, shared, txns, synced, saved, phase, view, left, keep, detect, oldNotes,
                     upd, found, taddrQ, streamQ, sending>>
  BY DEF ScanFull
<1> HIDE DEF s
<1>4. ScanTypes' /\ ScanInv'
  BY <1>0, <1>1, <1>2, <1>3, ScanStarts DEF ScanTypes, ScanInv
<1>5. ServerTypes' /\ GoodInv'
  BY <1>0, <1>3, SameServer, SameWallet
<1>6. SyncTypes'
  BY <1>0, <1>3 DEF SyncTypes
<1>7. QueueInv'
  BY <1>0, <1>3 DEF QueueInv, NewTxs
<1> QED BY <1>4, <1>5, <1>6, <1>7, CoreFrom

LEMMA ScanStreamedCore == CoreInv /\ ScanStreamed => CoreInv'
<1> SUFFICES ASSUME CoreInv, ScanStreamed PROVE CoreInv'
  OBVIOUS
<1>0. ServerTypes /\ SyncTypes /\ ScanTypes /\ QueueInv /\ ScanInv /\ GoodInv
  BY DEF CoreInv, TypeOK
<1> DEFINE e == Head(streamQ)
           s == NewScan("mempool", e.tx, e.height, TRUE)
<1>1. /\ streamQ # <<>> /\ scans' = scans \cup {s} /\ streamQ' = Tail(streamQ)
      /\ UNCHANGED <<serverVars, shared, txns, synced, saved, syncVars, sending>>
  BY DEF ScanStreamed
<1>2. Monitor
  BY <1>0, <1>1 DEF ScanInv
<1>3. streamQ \in Seq([tx : Txs, height : Nat])
  BY <1>0 DEF ScanTypes
<1>4. e \in [tx : Txs, height : Nat] /\ streamQ' \in Seq([tx : Txs, height : Nat])
  BY <1>1, <1>3, HeadTailProperties
<1> HIDE DEF e
<1>8. e.tx \in Txs /\ e.height \in Nat
  BY <1>4
<1>5. s \in ScanRec /\ s.by = "mempool" /\ s.unconfirmed = TRUE /\ s.step = "outputs"
  BY <1>8 DEF NewScan, ScanRec
<1> HIDE DEF s
<1>6. ScanTypes' /\ ScanInv'
  BY <1>0, <1>1, <1>2, <1>4, <1>5, ScanStarts DEF syncVars
<1>7. ServerTypes' /\ GoodInv' /\ SyncTypes' /\ QueueInv'
  BY <1>0, <1>1, SameServer, SameWallet, SameSync, SameQueues, SameTxnsGrow
<1> QED BY <1>6, <1>7, CoreFrom

(* A scan goes on, *)
LEMMA GotoKeeps ==
  ASSUME CoreInv, NEW s \in scans, NEW r \in ScanRec, Goto(s, r), InScan,
         r.by = s.by, r.tx = s.tx, r.unconfirmed = s.unconfirmed,
         r.step = "mark" => r.utxos # {} /\ \A n \in r.toMark : n[2] = "t",
         NEW S, Step(txns, txns', S, {})
  PROVE  CoreInv'
<1>0. ServerTypes /\ SyncTypes /\ ScanTypes /\ QueueInv /\ ScanInv /\ GoodInv
  BY DEF CoreInv, TypeOK
<1>1. /\ scans' = (scans \ {s}) \cup {r}
      /\ UNCHANGED <<serverVars, shared, synced, saved, syncVars, streamQ, sending>>
  BY DEF Goto, InScan, Scanning, syncVars
<1>2. ScanTypes'
  BY <1>0, <1>1 DEF ScanTypes
<1>3. ASSUME NEW q \in scans'
      PROVE  /\ q.unconfirmed <=> q.by \in {"mempool", "send"}
             /\ phase \notin Batch => q.by \in {"mempool", "send"}
             /\ q.by = "mempool" => Monitor
             /\ q.by = "send" => phase = "sendscan" /\ q.tx = sending
             /\ q.step = "mark" => q.utxos # {} /\ \A n \in q.toMark : n[2] = "t"
             /\ \A p \in scans' : q.by = "send" /\ p.by = "send" => p = q
  BY <1>0, <1>1, <1>3 DEF ScanInv
<1>4. ScanInv'
  BY <1>0, <1>1, <1>3 DEF ScanInv, syncVars
<1>5. ServerTypes' /\ GoodInv' /\ SyncTypes' /\ QueueInv'
  BY <1>0, <1>1, SameServer, GrownWallet, SameSync, SameQueues DEF Step
<1> QED BY <1>2, <1>4, <1>5, CoreFrom

(* or ends. *)
LEMMA DoneKeeps ==
  ASSUME CoreInv, NEW s \in scans, Done(s), Scanning, NEW S, Step(txns, txns', S, {})
  PROVE  CoreInv' /\ (s.by # "send" => UNCHANGED <<phase, sending>>)
                  /\ (s.by = "send" => phase = "sendscan" /\ phase' = "idle")
<1>0. ServerTypes /\ SyncTypes /\ ScanTypes /\ QueueInv /\ ScanInv /\ GoodInv
  BY DEF CoreInv, TypeOK
<1>1. /\ scans' = scans \ {s}
      /\ UNCHANGED <<serverVars, shared, synced, saved, view, left, keep, queueVars, streamQ>>
  BY DEF Done, Scanning
<1>2. CASE s.by # "send"
  <2>1. UNCHANGED <<phase, sending>>
    BY <1>2 DEF Done
  <2>2. ScanTypes' /\ ScanInv'
    BY <1>0, <1>1, <2>1 DEF ScanTypes, ScanInv
  <2>3. ServerTypes' /\ GoodInv' /\ SyncTypes' /\ QueueInv'
    BY <1>0, <1>1, <2>1, SameServer, GrownWallet, SameSync, SameQueues DEF Step, syncVars
  <2> QED BY <1>2, <2>1, <2>2, <2>3, CoreFrom
<1>3. CASE s.by = "send"
  <2>1. phase' = "idle" /\ sending' = NoTx /\ phase = "sendscan"
    BY <1>0, <1>3 DEF Done, ScanInv
  <2>2. \A q \in scans' : q \in scans /\ q.by = "mempool"
    BY <1>0, <1>1, <1>3, <2>1 DEF ScanInv, Batch
  <2>3. ScanTypes' /\ ScanInv'
    BY <1>0, <1>1, <2>1, <2>2 DEF ScanTypes, ScanInv
  <2>4. ServerTypes' /\ GoodInv'
    BY <1>0, <1>1, SameServer, GrownWallet
  <2>5. SyncTypes'
    BY <1>0, <1>1, <2>1 DEF SyncTypes, queueVars
  <2>6. QueueInv'
    BY <1>0, <1>1, <2>1 DEF QueueInv, queueVars, Batch
  <2> QED BY <1>3, <2>1, <2>3, <2>4, <2>5, <2>6, CoreFrom
<1> QED BY <1>2, <1>3

LEMMA ScanIs ==
  ASSUME CoreInv, NEW s \in scans
  PROVE  /\ s \in ScanRec /\ s.tx \in Txs /\ s.height \in Nat /\ s.unconfirmed \in BOOLEAN
         /\ s.utxos \in SUBSET Note /\ s.toMark \in SUBSET Note /\ GoodWallet(txns)
BY DEF CoreInv, TypeOK, ScanTypes, ScanRec, GoodInv

LEMMA ScanOutputsCore ==
  ASSUME CoreInv, NEW s \in scans, ScanOutputs(s)
  PROVE  CoreInv' /\ Step(txns, txns', {}, {})
<1> DEFINE r == [s EXCEPT !.step = "inputs"]
<1>1. s \in ScanRec /\ s.tx \in Txs /\ s.height \in Nat /\ s.unconfirmed \in BOOLEAN /\ GoodWallet(txns)
  BY ScanIs
<1>2. r \in ScanRec /\ r.by = s.by /\ r.tx = s.tx /\ r.unconfirmed = s.unconfirmed /\ r.step = "inputs"
  BY <1>1 DEF ScanRec
<1>3. Step(txns, txns', {}, {})
  BY <1>1, AddNewTaddrOutputStep, StaysPut DEF ScanOutputs
<1>4. Goto(s, r) /\ InScan
  BY DEF ScanOutputs
<1> HIDE DEF r
<1> QED BY <1>2, <1>3, <1>4, GotoKeeps

LEMMA ScanInputsCore ==
  ASSUME CoreInv, NEW s \in scans, ScanInputs(s)
  PROVE  /\ CoreInv' /\ UNCHANGED <<txns, phase, sending>>
<1> DEFINE mine == {n \in Spends[s.tx] : n[2] = "t" /\ Known(txns, n)}
<1>1. s \in ScanRec /\ s.tx \in Txs /\ GoodWallet(txns)
  BY ScanIs
<1>2. mine \in SUBSET Note
  BY <1>1, TxAssumption
<1>3. UNCHANGED txns /\ Step(txns, txns', {}, {})
  BY <1>1, StaysPut DEF ScanInputs
<1>4. CASE mine # {} /\ Goto(s, [s EXCEPT !.step = "mark", !.utxos = mine, !.toMark = mine]) /\ InScan
  <2> DEFINE r == [s EXCEPT !.step = "mark", !.utxos = mine, !.toMark = mine]
  <2>1. \A n \in mine : n[2] = "t"
    OBVIOUS
  <2> HIDE DEF mine
  <2>2. /\ r \in ScanRec /\ r.by = s.by /\ r.tx = s.tx /\ r.unconfirmed = s.unconfirmed
        /\ r.utxos = mine /\ r.toMark = mine
    BY <1>1, <1>2 DEF ScanRec
  <2>3. CoreInv'
    <3> HIDE DEF r
    <3> QED BY <1>3, <1>4, <2>1, <2>2, GotoKeeps DEF r
  <2> QED BY <1>3, <1>4, <2>3 DEF InScan
<1>5. CASE Goto(s, [s EXCEPT !.step = "spends"]) /\ InScan
  <2> DEFINE r == [s EXCEPT !.step = "spends"]
  <2>2. r \in ScanRec /\ r.by = s.by /\ r.tx = s.tx /\ r.unconfirmed = s.unconfirmed /\ r.step = "spends"
    BY <1>1 DEF ScanRec
  <2>3. CoreInv'
    <3> HIDE DEF r
    <3> QED BY <1>3, <1>5, <2>2, GotoKeeps DEF r
  <2> QED BY <1>3, <1>5, <2>3 DEF InScan
<1>6. CASE ~s.unconfirmed /\ Done(s) /\ Scanning
  <2>1. s.by # "send"
    BY <1>6 DEF CoreInv, ScanInv
  <2>2. CoreInv' /\ UNCHANGED <<phase, sending>>
    BY <1>3, <1>6, <2>1, DoneKeeps
  <2> QED BY <1>3, <2>2
<1>7. \/ mine # {} /\ Goto(s, [s EXCEPT !.step = "mark", !.utxos = mine, !.toMark = mine]) /\ InScan
      \/ Goto(s, [s EXCEPT !.step = "spends"]) /\ InScan
      \/ ~s.unconfirmed /\ Done(s) /\ Scanning
  BY DEF ScanInputs
<1> QED BY <1>4, <1>5, <1>6, <1>7

LEMMA MarkUtxoCore ==
  ASSUME CoreInv, NEW s \in scans, MarkUtxo(s)
  PROVE  /\ CoreInv' /\ Step(txns, txns', {s.tx}, {}) /\ s.step = "mark"
         /\ \A n \in Note : Known(txns, n) /\ n[2] # "t" => NoteOf(txns', n) = NoteOf(txns, n)
<1>1. /\ s \in ScanRec /\ s.tx \in Txs /\ s.height \in Nat /\ s.toMark \in SUBSET Note /\ GoodWallet(txns)
  BY ScanIs
<1>2. PICK n \in s.toMark : /\ txns' = MarkTxidUtxoSpent(txns, n, s.tx, s.height)
                            /\ Goto(s, [s EXCEPT !.toMark = @ \ {n}])
  BY DEF MarkUtxo
<1>3. s.step = "mark" /\ InScan
  BY DEF MarkUtxo, At
<1> DEFINE r == [s EXCEPT !.toMark = @ \ {n}]
<1>4. s.utxos # {} /\ \A m \in s.toMark : m[2] = "t"
  BY <1>3 DEF CoreInv, ScanInv
<1>5. /\ r \in ScanRec /\ r.by = s.by /\ r.tx = s.tx /\ r.unconfirmed = s.unconfirmed
      /\ r.utxos = s.utxos /\ r.toMark \subseteq s.toMark
  BY <1>1 DEF ScanRec
<1>6. Step(txns, txns', {s.tx}, {})
  BY <1>1, <1>2, MarkUtxoStep
<1>7. Goto(s, r)
  BY <1>2
<1> HIDE DEF r
<1>8. CoreInv'
  BY <1>3, <1>4, <1>5, <1>6, <1>7, GotoKeeps
<1>9. ASSUME NEW m \in Note, Known(txns, m), m[2] # "t"
      PROVE  NoteOf(txns', m) = NoteOf(txns, m)
  <2>1. n \in Note /\ m # n /\ IsWallet(txns)
    BY <1>1, <1>4, <1>9 DEF GoodWallet
  <2> QED BY <1>1, <1>2, <1>9, <2>1, MarkUtxoIs DEF Replaced
<1> QED BY <1>3, <1>6, <1>8, <1>9

LEMMA RecordUtxosCore ==
  ASSUME CoreInv, NEW s \in scans, RecordUtxos(s)
  PROVE  CoreInv' /\ Step(txns, txns', {}, {}) /\ s.tx \in DOMAIN txns' /\ UNCHANGED <<phase, sending>>
<1>1. /\ s \in ScanRec /\ s.tx \in Txs /\ s.height \in Nat /\ s.unconfirmed \in BOOLEAN
      /\ s.utxos \in SUBSET Note /\ GoodWallet(txns)
  BY ScanIs
<1>2. s.step = "mark" /\ txns' = AddTaddrSpent(txns, s.tx, s.height, s.unconfirmed, s.utxos)
  BY DEF RecordUtxos, At
<1>3. s.utxos # {}
  BY <1>2 DEF CoreInv, ScanInv
<1>4. Step(txns, txns', {}, {}) /\ s.tx \in DOMAIN txns'
  BY <1>1, <1>2, <1>3, AddTaddrSpentStep
<1>5. CASE Goto(s, [s EXCEPT !.step = "spends"]) /\ InScan
  <2> DEFINE r == [s EXCEPT !.step = "spends"]
  <2>2. r \in ScanRec /\ r.by = s.by /\ r.tx = s.tx /\ r.unconfirmed = s.unconfirmed /\ r.step = "spends"
    BY <1>1 DEF ScanRec
  <2>3. CoreInv'
    <3> HIDE DEF r
    <3> QED BY <1>4, <1>5, <2>2, GotoKeeps DEF r
  <2> QED BY <1>4, <1>5, <2>3 DEF InScan
<1>6. CASE ~s.unconfirmed /\ Done(s) /\ Scanning
  <2>1. s.by # "send"
    BY <1>6 DEF CoreInv, ScanInv
  <2>2. CoreInv' /\ UNCHANGED <<phase, sending>>
    BY <1>4, <1>6, <2>1, DoneKeeps
  <2> QED BY <1>4, <2>2
<1> QED BY <1>5, <1>6 DEF RecordUtxos

LEMMA ScanSpendsCore ==
  ASSUME CoreInv, NEW s \in scans, ScanSpends(s)
  PROVE  CoreInv' /\ UNCHANGED <<txns, phase, sending>>
<1> DEFINE ns == Spends[s.tx] \cap UnspentNullifiers(txns, "s")
           r == [s EXCEPT !.step = "notes", !.toMark = ns]
<1>1. s \in ScanRec /\ s.tx \in Txs /\ GoodWallet(txns)
  BY ScanIs
<1>2. ns \in SUBSET Note
  BY DEF UnspentNullifiers
<1>3. Goto(s, r) /\ InScan /\ UNCHANGED txns
  BY DEF ScanSpends
<1>4. Step(txns, txns', {}, {})
  BY <1>1, <1>3, StaysPut
<1> HIDE DEF ns
<1>5. r \in ScanRec /\ r.by = s.by /\ r.tx = s.tx /\ r.unconfirmed = s.unconfirmed /\ r.step = "notes"
  BY <1>1, <1>2 DEF ScanRec
<1> HIDE DEF r
<1>6. CoreInv'
  BY <1>3, <1>4, <1>5, GotoKeeps
<1> QED BY <1>3, <1>6 DEF InScan

LEMMA RecordSpendsCore ==
  ASSUME CoreInv, NEW s \in scans, RecordSpends(s)
  PROVE  CoreInv' /\ Step(txns, txns', {}, {}) /\ s.tx \in DOMAIN txns' /\ UNCHANGED <<phase, sending>>
<1>1. /\ s \in ScanRec /\ s.tx \in Txs /\ s.height \in Nat /\ s.toMark \in SUBSET Note /\ GoodWallet(txns)
  BY ScanIs
<1>2. PICK n \in s.toMark : /\ txns' = AddNewSpent(txns, s.tx, s.height, TRUE, n)
                            /\ Goto(s, [s EXCEPT !.toMark = @ \ {n}])
  BY DEF RecordSpends
<1>3. s.step = "notes" /\ InScan
  BY DEF RecordSpends, At
<1> DEFINE r == [s EXCEPT !.toMark = @ \ {n}]
<1>5. r \in ScanRec /\ r.by = s.by /\ r.tx = s.tx /\ r.unconfirmed = s.unconfirmed /\ r.step = "notes"
  BY <1>1, <1>3 DEF ScanRec
<1>6. Step(txns, txns', {}, {}) /\ s.tx \in DOMAIN txns'
  BY <1>1, <1>2, AddNewSpentStep
<1>7. Goto(s, r)
  BY <1>2
<1> HIDE DEF r
<1>8. CoreInv'
  BY <1>3, <1>5, <1>6, <1>7, GotoKeeps
<1> QED BY <1>3, <1>6, <1>8 DEF InScan

LEMMA ScanNotesCore ==
  ASSUME CoreInv, NEW s \in scans, ScanNotes(s)
  PROVE  /\ CoreInv' /\ Step(txns, txns', {}, {})
         /\ s.by # "send" => UNCHANGED <<phase, sending>>
         /\ s.by = "send" => phase = "sendscan" /\ phase' = "idle"
<1>1. /\ s \in ScanRec /\ s.tx \in Txs /\ s.height \in Nat /\ GoodWallet(txns)
  BY ScanIs
<1>2. Step(txns, txns', {}, {})
  BY <1>1, AddPendingNoteStep, StaysPut DEF ScanNotes
<1>3. Done(s) /\ Scanning
  BY DEF ScanNotes
<1> QED BY <1>2, <1>3, DoneKeeps

LEMMA BroadcastCore ==
  ASSUME CoreInv, NEW t \in Sent, Broadcast(t)
  PROVE  CoreInv'
<1>0. ServerTypes /\ SyncTypes /\ ScanTypes /\ QueueInv /\ ScanInv /\ GoodInv
  BY DEF CoreInv, TypeOK
<1>1. /\ phase = "idle" /\ phase' = "send" /\ sending' = t /\ mempool' = mempool \cup {t}
      /\ expiry' = [expiry EXCEPT ![t] = Len(synced) + 1 + ExpiryDelta]
      /\ UNCHANGED <<chain, reorgs, shared, txns, synced, saved, view, left, keep, queueVars, scans, streamQ>>
  BY DEF Broadcast
<1>2. t \in Txs
  BY TxAssumption
<1>3. Len(synced) + 1 + ExpiryDelta \in Nat
  BY <1>0, BoundAssumption DEF ServerTypes
<1>4. ServerTypes'
  BY <1>0, <1>1, <1>2, <1>3 DEF ServerTypes
<1>5. SyncTypes' /\ GoodInv'
  BY <1>0, <1>1, SameWallet DEF SyncTypes, queueVars
<1>6. QueueInv'
  BY <1>0, <1>1 DEF QueueInv, queueVars, Batch
<1>7. ScanTypes' /\ ScanInv'
  BY <1>0, <1>1, <1>2 DEF ScanTypes, ScanInv, Batch
<1> QED BY <1>4, <1>5, <1>6, <1>7, CoreFrom

LEMMA MarkSelectedCore ==
  CoreInv /\ MarkSelected => CoreInv' /\ Step(txns, txns', {}, {sending})
<1> SUFFICES ASSUME CoreInv, MarkSelected PROVE CoreInv' /\ Step(txns, txns', {}, {sending})
  OBVIOUS
<1>0. ServerTypes /\ SyncTypes /\ ScanTypes /\ QueueInv /\ ScanInv /\ GoodInv
  BY DEF CoreInv, TypeOK
<1> DEFINE s == NewScan("send", sending, Len(synced) + 1, TRUE)
<1>1. /\ phase = "send" /\ phase' = "sendscan" /\ scans' = scans \cup {s}
      /\ txns' = Reserved(txns, Spends[sending], sending)
      /\ UNCHANGED <<serverVars, shared, synced, saved, view, left, keep, queueVars, streamQ, sending>>
  BY DEF MarkSelected, Reserved
<1>2. sending \in Txs /\ GoodWallet(txns) /\ Len(synced) + 1 \in Nat
  BY <1>0, <1>1, TxAssumption DEF ScanInv, GoodInv, ServerTypes
<1>3. Step(txns, txns', {}, {sending})
  BY <1>1, <1>2, ReservedStep
<1>4. s \in ScanRec /\ s.by = "send" /\ s.tx = sending /\ s.unconfirmed = TRUE /\ s.step = "outputs"
  BY <1>2 DEF NewScan, ScanRec
<1> HIDE DEF s
<1>5. ServerTypes' /\ GoodInv'
  BY <1>0, <1>1, <1>3, SameServer, GrownWallet
<1>6. SyncTypes'
  BY <1>0, <1>1 DEF SyncTypes, queueVars
<1>7. QueueInv'
  BY <1>0, <1>1 DEF QueueInv, queueVars, Batch
<1>8. \A q \in scans : q.by = "mempool" /\ q.by # "send"
  BY <1>0, <1>1 DEF ScanInv, Batch
<1>9. ScanTypes' /\ ScanInv'
  BY <1>0, <1>1, <1>4, <1>8 DEF ScanTypes, ScanInv, Batch
<1> QED BY <1>3, <1>5, <1>6, <1>7, <1>9, CoreFrom

LEMMA SaveCore == CoreInv /\ Save => CoreInv'
<1> SUFFICES ASSUME CoreInv, Save PROVE CoreInv'
  OBVIOUS
<1>0. ServerTypes /\ SyncTypes /\ ScanTypes /\ QueueInv /\ ScanInv /\ GoodInv
  BY DEF CoreInv, TypeOK
<1> USE DEF Save
<1>1. ServerTypes' /\ SyncTypes' /\ QueueInv'
  BY <1>0, SameServer, SameSync, SameQueues, SameTxnsGrow
<1>2. ScanTypes' /\ ScanInv'
  BY <1>0, SameScans DEF syncVars
<1>3. GoodInv'
  BY <1>0 DEF GoodInv
<1> QED BY <1>1, <1>2, <1>3, CoreFrom

LEMMA RestartCore == CoreInv /\ Restart => CoreInv'
<1> SUFFICES ASSUME CoreInv, Restart PROVE CoreInv'
  OBVIOUS
<1>0. ServerTypes /\ SyncTypes /\ ScanTypes /\ QueueInv /\ ScanInv /\ GoodInv
  BY DEF CoreInv, TypeOK
<1> USE DEF Restart
<1>1. Len(synced) \in Nat /\ <<>> \in Seq(Blocks)
  BY <1>0 DEF ServerTypes
<1>2. shared' \in Nat
  BY <1>0 DEF ServerTypes, SyncTypes, Smaller
<1>3. ServerTypes'
  BY <1>0, <1>2 DEF ServerTypes, serverVars
<1>4. SyncTypes'
  BY <1>0, <1>1 DEF SyncTypes
<1>5. QueueInv'
  BY DEF QueueInv
<1>6. ScanTypes' /\ ScanInv'
  BY DEF ScanTypes, ScanInv
<1>7. GoodInv'
  BY <1>0 DEF GoodInv, Loaded
<1> QED BY <1>3, <1>4, <1>5, <1>6, <1>7, CoreFrom

LEMMA StutterCore == CoreInv /\ UNCHANGED vars => CoreInv'
<1> SUFFICES ASSUME CoreInv, UNCHANGED vars PROVE CoreInv'
  OBVIOUS
<1>0. ServerTypes /\ SyncTypes /\ ScanTypes /\ QueueInv /\ ScanInv /\ GoodInv
  BY DEF CoreInv, TypeOK
<1>1. ServerTypes' /\ SyncTypes' /\ QueueInv' /\ ScanTypes' /\ ScanInv' /\ GoodInv'
  BY <1>0, SameServer, SameSync, SameQueues, SameTxnsGrow, SameScans, SameWallet DEF vars, syncVars
<1> QED BY <1>1, CoreFrom

LEMMA NextCore == CoreInv /\ [Next]_vars => CoreInv'
<1> SUFFICES ASSUME CoreInv, [Next]_vars PROVE CoreInv'
  OBVIOUS
<1>1. CASE Server
  BY <1>1, ServerCore
<1>2. CASE Sync
  <2>1. CASE StartSync \/ InvalidateBlock \/ BlocksDone \/ ReadOldNotes \/ OrchardPass \/ FinishSync
    BY <2>1, StartSyncCore, InvalidateCore, BlocksDoneCore, ReadOldNotesCore, OrchardPassCore, FinishCore
  <2>2. CASE \E n \in detect : Detect(n)
    BY <2>2, DetectCore
  <2>3. CASE \E u \in upd : LookUpSpent(u) \/ LookUpUnspent(u)
    BY <2>3, LookUpSpentCore, LookUpUnspentCore
  <2>4. CASE \E f \in found : RecordSpend(f)
    BY <2>4, RecordSpendCore
  <2>5. CASE (\E t \in taddrQ : ScanTaddr(t)) \/ (\E t \in fullQ : ScanFull(t))
    BY <2>5, ScanTaddrCore, ScanFullCore
  <2> QED BY <1>2, <2>1, <2>2, <2>3, <2>4, <2>5 DEF Sync
<1>3. CASE Scan
  <2>1. CASE ScanStreamed
    BY <2>1, ScanStreamedCore
  <2>2. ASSUME NEW s \in scans, ScanStep(s) PROVE CoreInv'
    BY <2>2, ScanOutputsCore, ScanInputsCore, MarkUtxoCore, RecordUtxosCore, ScanSpendsCore,
       RecordSpendsCore, ScanNotesCore DEF ScanStep
  <2> QED BY <1>3, <2>1, <2>2 DEF Scan
<1>4. CASE User
  BY <1>4, BroadcastCore, MarkSelectedCore, SaveCore, RestartCore DEF User
<1>5. CASE UNCHANGED vars
  BY <1>5, StutterCore
<1> QED BY <1>1, <1>2, <1>3, <1>4, <1>5 DEF Next

(* CoreInv holds in every reachable state. *)
LEMMA CoreHolds == Spec => []CoreInv
BY InitCore, NextCore, PTL DEF Spec

(* Every variable has its type: the wallet never holds a note of a pool that *)
(* does not exist, a height or a mark that is none, whatever batches, reorgs,*)
(* scans, sends and restarts interleave.                                     *)
THEOREM TypeCorrect == Spec => []TypeOK
<1>1. CoreInv => TypeOK
  BY DEF CoreInv
<1> QED BY <1>1, CoreHolds, PTL

(* A shielded note is change exactly if its transaction spends the wallet's  *)
(* money (check_notes_mark_change, is_change of add_new_sapling_note): in    *)
(* whichever order outputs and spends are found, by whichever of the scans.  *)
THEOREM ChangeMarkedCorrect == Spec => []ChangeMarked
<1>1. CoreInv => ChangeMarked
  BY DEF CoreInv, GoodInv, GoodWallet, ChangeOf, ChangeMarked, WalletNotes
<1> QED BY <1>1, CoreHolds, PTL

-----------------------------------------------------------------------------
(* Whoever a note is spent or reserved by is in the wallet                   *)

(* remove_txids leaves the marks of Orchard notes alone: with them the       *)
(* property does not hold.                                                   *)
NoOrchard == \A t \in Txs : "o" \notin Outs[t]

(* Marks whose transaction is still to be recorded: by scans between marking *)
(* a UTXO and adding the total, and by update_notes; by a send that marked   *)
(* what it selected and has not scanned its transaction.                     *)
Marking   == {s.tx : s \in {r \in scans : r.step = "mark"}} \cup {f.spender : f \in found}
Reserving == IF phase = "sendscan" THEN {sending} ELSE {}

MarksIn(w, S, R) ==
  \A n \in Note : Known(w, n) =>
    /\ NoteOf(w, n).spent \in DOMAIN w \cup {NoTx} \cup S
    /\ NoteOf(w, n).pending \in DOMAIN w \cup {NoTx} \cup R

MarkInv == MarksIn(txns, Marking, Reserving) /\ (Restarts => MarksIn(saved, {}, {}))

(* The scan of a send finds something of the wallet's to record, so that the *)
(* transaction is there when the lock is released.                           *)
SendInv ==
  phase \in {"send", "sendscan"} =>
    /\ Spends[sending] # {}
    /\ \A n \in Spends[sending] :
         Known(txns, n) /\ (n[2] = "s" => NoteOf(txns, n).keyed /\ NoteOf(txns, n).spent = NoTx)
    /\ \A s \in scans : s.by = "send" =>
         /\ s.step = "spends" => sending \in DOMAIN txns \/ \E n \in Spends[sending] : n[2] = "s"
         /\ s.step = "notes" => sending \in DOMAIN txns \/ s.toMark # {}

LEMMA MarksStep ==
  ASSUME NEW w, NEW g, NEW S, NEW R, Step(w, g, S, R), NEW S0, NEW R0, MarksIn(w, S0, R0),
         NEW S1, NEW R1, S \cup S0 \subseteq S1 \cup DOMAIN g, R \cup R0 \subseteq R1 \cup DOMAIN g
  PROVE  MarksIn(g, S1, R1)
<1> SUFFICES ASSUME NEW n \in Note, Known(g, n)
             PROVE  /\ NoteOf(g, n).spent \in DOMAIN g \cup {NoTx} \cup S1
                    /\ NoteOf(g, n).pending \in DOMAIN g \cup {NoTx} \cup R1
  BY DEF MarksIn
<1>1. DOMAIN w \subseteq DOMAIN g
  BY DEF Step, Grows
<1>2. /\ \/ NoteOf(g, n).spent \in {NoTx} \cup S
         \/ Known(w, n) /\ NoteOf(g, n).spent = NoteOf(w, n).spent
      /\ \/ NoteOf(g, n).pending \in {NoTx} \cup R
         \/ Known(w, n) /\ NoteOf(g, n).pending = NoteOf(w, n).pending
  BY DEF Step, MarksFrom
<1>3. Known(w, n) => /\ NoteOf(w, n).spent \in DOMAIN w \cup {NoTx} \cup S0
                     /\ NoteOf(w, n).pending \in DOMAIN w \cup {NoTx} \cup R0
  BY DEF MarksIn
<1> QED BY <1>1, <1>2, <1>3

LEMMA RemovalMarks ==
  ASSUME NoOrchard, NEW w, GoodWallet(w), NEW g, NEW removed, Removal(w, g, removed),
         NEW S, NEW R, MarksIn(w, S, R)
  PROVE  MarksIn(g, S, R)
<1> SUFFICES ASSUME NEW n \in Note, Known(g, n)
             PROVE  /\ NoteOf(g, n).spent \in DOMAIN g \cup {NoTx} \cup S
                    /\ NoteOf(g, n).pending \in DOMAIN g \cup {NoTx} \cup R
  BY DEF MarksIn
<1>1. Known(w, n) /\ DOMAIN g = DOMAIN w \ removed
  BY DEF Removal, Mapped
<1>2. n[2] # "o"
  BY <1>1, NoteParts DEF GoodWallet, ShapeOf, NoOrchard
<1>3. /\ NoteOf(g, n).spent = IF NoteOf(w, n).spent \in removed THEN NoTx ELSE NoteOf(w, n).spent
      /\ NoteOf(g, n).pending = IF NoteOf(w, n).pending \in removed THEN NoTx ELSE NoteOf(w, n).pending
  BY <1>2 DEF Removal
<1>4. /\ NoteOf(w, n).spent \in DOMAIN w \cup {NoTx} \cup S
      /\ NoteOf(w, n).pending \in DOMAIN w \cup {NoTx} \cup R
  BY <1>1 DEF MarksIn
<1> QED BY <1>1, <1>3, <1>4

LEMMA MarkingGoto ==
  ASSUME NEW s \in scans, NEW r, Goto(s, r), UNCHANGED found, r.tx = s.tx
  PROVE  /\ Marking \subseteq Marking' \cup {s.tx}
         /\ s.step # "mark" \/ r.step = "mark" => Marking \subseteq Marking'
         /\ r.step = "mark" => s.tx \in Marking'
BY DEF Goto, Marking

LEMMA MarkingDone ==
  ASSUME NEW s \in scans, Done(s), UNCHANGED found
  PROVE  /\ Marking \subseteq Marking' \cup {s.tx}
         /\ s.step # "mark" => Marking \subseteq Marking'
BY DEF Done, Marking

(* Nobody is marking outside a batch and without the monitor. *)
LEMMA NotMarking ==
  ASSUME CoreInv, phase \notin Batch, phase # "sendscan", ~Monitor
  PROVE  Marking = {} /\ Reserving = {}
BY DEF CoreInv, QueueInv, ScanInv, Marking, Reserving

(* A step that leaves the marking and reserving transactions alone *)
LEMMA MarksGrow ==
  ASSUME MarkInv, NEW S, Step(txns, txns', S, {}), UNCHANGED <<saved, phase, sending>>,
         S \subseteq Marking' \cup DOMAIN txns', Marking \subseteq Marking' \cup DOMAIN txns'
  PROVE  MarkInv'
<1>1. Reserving' = Reserving
  BY DEF Reserving
<1>2. S \cup Marking \subseteq Marking' \cup DOMAIN txns'
  OBVIOUS
<1>3. {} \cup Reserving \subseteq Reserving \cup DOMAIN txns'
  OBVIOUS
<1>4. MarksIn(txns, Marking, Reserving)
  BY DEF MarkInv
<1> HIDE DEF Marking, Reserving
<1>5. MarksIn(txns', Marking', Reserving)
  BY <1>2, <1>3, <1>4, MarksStep
<1> QED BY <1>1, <1>5 DEF MarkInv

LEMMA SendingKept ==
  ASSUME SendInv, Grows(txns, txns'), UNCHANGED <<phase, sending>>, sending \in Txs,
         \A n \in Note : Known(txns, n) /\ n[2] = "s" /\ NoteOf(txns, n).spent = NoTx
                           => NoteOf(txns', n).spent = NoTx,
         phase \in {"send", "sendscan"} =>
           \A s \in scans' : s.by = "send" =>
             /\ s.step = "spends" => sending \in DOMAIN txns' \/ \E n \in Spends[sending] : n[2] = "s"
             /\ s.step = "notes" => sending \in DOMAIN txns' \/ s.toMark # {}
  PROVE  SendInv'
<1>1. Spends[sending] \subseteq Note
  BY TxAssumption
<1> QED BY <1>1 DEF SendInv, Grows

LEMMA NotSending ==
  ASSUME phase' \notin {"send", "sendscan"}
  PROVE  SendInv'
BY DEF SendInv

SpendInv == MarkInv /\ SendInv

LEMMA SpendStay ==
  ASSUME SpendInv, UNCHANGED <<txns, saved, phase, sending, found>>,
         \A s \in scans' : s \in scans \/ s.step = "outputs", scans \subseteq scans'
  PROVE  SpendInv'
<1>1. Marking' = Marking /\ Reserving' = Reserving
  BY DEF Marking, Reserving
<1>2. MarkInv'
  BY <1>1 DEF SpendInv, MarkInv
<1>3. SendInv'
  BY DEF SpendInv, SendInv
<1> QED BY <1>2, <1>3 DEF SpendInv

(* The steps of a batch *)
LEMMA SpendBatch ==
  ASSUME SpendInv, phase \in Batch, NEW S, Step(txns, txns', S, {}),
         UNCHANGED <<saved, phase, sending, scans>>,
         S \subseteq Marking' \cup DOMAIN txns', Marking \subseteq Marking' \cup DOMAIN txns'
  PROVE  SpendInv'
BY MarksGrow, NotSending DEF SpendInv, Batch

LEMMA SpendServer == ASSUME SpendInv, Server PROVE SpendInv'
<1>1. UNCHANGED <<txns, saved, phase, sending, found, scans>>
  BY DEF Server, Mine, Reorg, Arrive, Stream, syncVars, queueVars
<1> QED BY <1>1, SpendStay

LEMMA SpendSync ==
  ASSUME NoOrchard, Restarts => ~Monitor, CoreInv, SpendInv, Sync
  PROVE  SpendInv'
<1>0. SyncTypes /\ QueueInv /\ GoodInv
  BY DEF CoreInv, TypeOK
<1>1. CASE StartSync \/ BlocksDone
  <2>1. UNCHANGED <<txns, saved, sending, found, scans>> /\ phase \in {"idle", "reorg"} /\ phase' \in {"reorg", "scan"}
    BY <1>1 DEF StartSync, BlocksDone, queueVars
  <2>2. Marking' = Marking /\ Reserving' = Reserving
    BY <2>1 DEF Marking, Reserving
  <2>3. MarkInv'
    BY <2>1, <2>2 DEF SpendInv, MarkInv
  <2> QED BY <2>1, <2>3, NotSending DEF SpendInv
<1>2. CASE InvalidateBlock
  <2>1. /\ txns' = RemoveTxnsAtHeight(txns, left) /\ phase = "reorg"
        /\ UNCHANGED <<saved, phase, sending, found, scans>>
    BY <1>2 DEF InvalidateBlock, queueVars
  <2>2. Marking' = Marking /\ Reserving' = Reserving
    BY <2>1 DEF Marking, Reserving
  <2>3. GoodWallet(txns) /\ left \in Nat /\ MarksIn(txns, Marking, Reserving)
    BY <1>0 DEF GoodInv, SyncTypes, SpendInv, MarkInv
  <2>4. Removal(txns, txns', {t \in DOMAIN txns : txns[t].block >= left})
    BY <2>1, <2>3, ReorgRemoval DEF GoodWallet
  <2>5. MarksIn(txns', Marking, Reserving)
    BY <2>3, <2>4, RemovalMarks
  <2>6. MarkInv'
    BY <2>1, <2>2, <2>5 DEF SpendInv, MarkInv
  <2> QED BY <2>1, <2>6, NotSending DEF SpendInv
<1>3. CASE ReadOldNotes
  <2>1. UNCHANGED <<txns, saved, phase, sending, found, scans>>
    BY <1>3 DEF ReadOldNotes
  <2> QED BY <2>1, SpendStay
<1>4. CASE OrchardPass
  <2>1. UNCHANGED <<saved, sending, found, scans>> /\ phase = "scan" /\ phase' = "orchard"
    BY <1>4 DEF OrchardPass
  <2>2. Marking' = Marking /\ Reserving' = Reserving
    BY <2>1 DEF Marking, Reserving
  <2>3. Step(txns, txns', {}, {})
    BY <1>4, OrchardPassCore
  <2>4. MarksIn(txns', Marking, Reserving)
    <3>1. MarksIn(txns, Marking, Reserving)
      BY DEF SpendInv, MarkInv
    <3> HIDE DEF Marking, Reserving
    <3> QED BY <2>3, <3>1, MarksStep
  <2>5. MarkInv'
    BY <2>1, <2>2, <2>4 DEF SpendInv, MarkInv
  <2> QED BY <2>1, <2>5, NotSending DEF SpendInv
<1>5. CASE FinishSync
  <2>1. /\ txns' = ClearExpiredMempool(ClearOldWitnesses(txns, Len(view)), Len(view)) /\ saved' = txns'
        /\ phase = "orchard" /\ phase' = "idle" /\ UNCHANGED <<found, scans, sending>>
        /\ found = {} /\ \A s \in scans : s.by = "mempool"
    BY <1>5 DEF FinishSync, queueVars
  <2>2. Marking' = Marking /\ Reserving' = {} /\ Reserving = {}
    BY <2>1 DEF Marking, Reserving
  <2>3. GoodWallet(txns) /\ Len(view) \in Nat /\ MarksIn(txns, Marking, {})
    BY <1>0, <2>2 DEF GoodInv, SyncTypes, SpendInv, MarkInv
  <2>4. MarksIn(txns', Marking, {})
    BY <2>1, <2>3, ExpiryRemoval, RemovalMarks DEF GoodWallet
  <2>5. Restarts => Marking = {}
    BY <2>1 DEF CoreInv, ScanInv, Marking
  <2>6. MarkInv'
    BY <2>1, <2>2, <2>4, <2>5 DEF MarkInv
  <2> QED BY <2>1, <2>6, NotSending DEF SpendInv
<1>6. ASSUME NEW n \in detect, Detect(n) PROVE SpendInv'
  <2>1. UNCHANGED <<saved, phase, sending, found, scans>> /\ phase \in Batch
    BY <1>6 DEF Detect, Batch
  <2>2. Marking' = Marking
    BY <2>1 DEF Marking
  <2> QED BY <1>6, <2>1, <2>2, DetectCore, SpendBatch
<1>7. ASSUME NEW u \in upd, LookUpSpent(u) PROVE SpendInv'
  <2>1. UNCHANGED <<saved, phase, sending, scans>> /\ phase \in Batch
    BY <1>0, <1>7 DEF LookUpSpent, QueueInv
  <2>2. PICK y \in NewTxs : Step(txns, txns', {y}, {}) /\ found' = found \cup {[note |-> u.note, spender |-> y]}
    BY <1>7, LookUpSpentCore
  <2>3. Marking \subseteq Marking' /\ y \in Marking'
    <3> DEFINE f == [note |-> u.note, spender |-> y]
    <3>1. f.spender = y /\ f \in found' /\ found \subseteq found'
      BY <2>2
    <3> HIDE DEF f
    <3> QED BY <2>1, <3>1 DEF Marking
  <2> QED BY <2>1, <2>2, <2>3, SpendBatch
<1>8. ASSUME NEW u \in upd, LookUpUnspent(u) PROVE SpendInv'
  <2>1. UNCHANGED <<saved, phase, sending, scans, found>> /\ phase \in Batch
    BY <1>0, <1>8 DEF LookUpUnspent, QueueInv
  <2>2. Marking' = Marking
    BY <2>1 DEF Marking
  <2> QED BY <1>8, <2>1, <2>2, LookUpUnspentCore, SpendBatch
<1>9. ASSUME NEW f \in found, RecordSpend(f) PROVE SpendInv'
  <2>1. UNCHANGED <<saved, phase, sending, scans>> /\ phase \in Batch /\ found' = found \ {f}
    BY <1>0, <1>9 DEF RecordSpend, QueueInv
  <2>2. Step(txns, txns', {f.spender}, {}) /\ f.spender \in DOMAIN txns'
    BY <1>9, RecordSpendCore
  <2>3. Marking \subseteq Marking' \cup {f.spender}
    BY <2>1 DEF Marking
  <2> QED BY <2>1, <2>2, <2>3, SpendBatch
<1>10. ASSUME NEW t, ScanTaddr(t) \/ ScanFull(t) PROVE SpendInv'
  <2>1. UNCHANGED <<txns, saved, phase, sending, found>> /\ scans \subseteq scans'
        /\ \A s \in scans' : s \in scans \/ s.step = "outputs"
    BY <1>10 DEF ScanTaddr, ScanFull, NewScan
  <2> QED BY <2>1, SpendStay
<1> QED BY <1>1, <1>2, <1>3, <1>4, <1>5, <1>6, <1>7, <1>8, <1>9, <1>10 DEF Sync

(* The steps of a scan that goes on *)
LEMMA SpendScan ==
  ASSUME CoreInv, SpendInv, NEW s \in scans, NEW S, Step(txns, txns', S, {}),
         UNCHANGED <<saved, phase, sending>>,
         S \subseteq Marking' \cup DOMAIN txns', Marking \subseteq Marking' \cup DOMAIN txns',
         \A n \in Note : Known(txns, n) /\ n[2] = "s" /\ NoteOf(txns, n).spent = NoTx
                           => NoteOf(txns', n).spent = NoTx,
         s.by = "send" => sending = s.tx,
         \A r \in scans' : r \in scans \/ (r.by = s.by /\
           (s.by = "send" =>
             /\ r.step = "spends" => s.tx \in DOMAIN txns' \/ \E n \in Spends[s.tx] : n[2] = "s"
             /\ r.step = "notes" => s.tx \in DOMAIN txns' \/ r.toMark # {}))
  PROVE  SpendInv'
<1>1. MarkInv'
  BY MarksGrow DEF SpendInv
<1>2. CASE phase \in {"send", "sendscan"}
  <2>1. sending \in Txs /\ DOMAIN txns \subseteq DOMAIN txns'
    BY <1>2, TxAssumption DEF CoreInv, ScanInv, Step, Grows
  <2>2. \A r \in scans' : r.by = "send" =>
          /\ r.step = "spends" => sending \in DOMAIN txns' \/ \E n \in Spends[sending] : n[2] = "s"
          /\ r.step = "notes" => sending \in DOMAIN txns' \/ r.toMark # {}
    BY <1>2, <2>1 DEF SpendInv, SendInv
  <2>3. SendInv'
    BY <2>1, <2>2, SendingKept DEF SpendInv, Step
  <2> QED BY <1>1, <2>3 DEF SpendInv
<1>3. CASE phase \notin {"send", "sendscan"}
  BY <1>1, <1>3, NotSending DEF SpendInv
<1> QED BY <1>2, <1>3

LEMMA StepKeepsUnspent ==
  ASSUME NEW w, NEW g, NEW R, Step(w, g, {}, R), NEW n \in Note, Known(w, n), NoteOf(w, n).spent = NoTx
  PROVE  NoteOf(g, n).spent = NoTx
BY DEF Step, Grows, MarksFrom

LEMMA SendsOwn ==
  ASSUME CoreInv, NEW s \in scans
  PROVE  s.by = "send" => sending = s.tx /\ phase = "sendscan"
BY DEF CoreInv, ScanInv

(* A send's scan without UTXOs to mark still has a Sapling note to record. *)
LEMMA SendHasNote ==
  ASSUME NoOrchard, CoreInv, SpendInv, NEW s \in scans, s.by = "send",
         {n \in Spends[s.tx] : n[2] = "t" /\ Known(txns, n)} = {}
  PROVE  \E n \in Spends[s.tx] : n[2] = "s"
<1>1. sending = s.tx /\ phase = "sendscan" /\ s.tx \in Txs
  BY SendsOwn, ScanIs
<1>2. PICK n \in Spends[s.tx] : Known(txns, n)
  BY <1>1 DEF SpendInv, SendInv
<1>3. n \in Note /\ n[2] \in Outs[n[1]] /\ n[2] # "t"
  BY <1>1, <1>2, TxAssumption
<1>4. n[2] = "s"
  BY <1>3, NoteParts DEF NoOrchard, Pools
<1> QED BY <1>2, <1>4

LEMMA SpendScanStep ==
  ASSUME NoOrchard, CoreInv, SpendInv, NEW s \in scans, ScanStep(s)
  PROVE  SpendInv'
<1>0. s \in ScanRec /\ s.tx \in Txs /\ (s.by = "send" => sending = s.tx /\ phase = "sendscan")
  BY ScanIs, SendsOwn
<1>1. CASE ScanOutputs(s)
  <2> DEFINE r == [s EXCEPT !.step = "inputs"]
  <2>1. Goto(s, r) /\ UNCHANGED <<saved, phase, sending, found>> /\ s.step = "outputs"
    BY <1>1 DEF ScanOutputs, At, InScan, Scanning, queueVars
  <2>2. r.tx = s.tx /\ r.by = s.by /\ r.step = "inputs"
    BY <1>0 DEF ScanRec
  <2> HIDE DEF r
  <2>3. Step(txns, txns', {}, {})
    BY <1>1, ScanOutputsCore
  <2>4. Marking \subseteq Marking'
    BY <2>1, <2>2, MarkingGoto
  <2>5. \A q \in scans' : q \in scans \/ q = r
    BY <2>1 DEF Goto
  <2> QED BY <1>0, <2>1, <2>2, <2>3, <2>4, <2>5, StepKeepsUnspent, SpendScan
<1>2. CASE ScanInputs(s)
  <2> DEFINE mine == {n \in Spends[s.tx] : n[2] = "t" /\ Known(txns, n)}
  <2>1. UNCHANGED <<txns, phase, sending, saved, found>> /\ s.step = "inputs"
    BY <1>2, ScanInputsCore DEF ScanInputs, At, InScan, Scanning, queueVars
  <2>2. Step(txns, txns', {}, {})
    BY <2>1, StaysPut, ScanIs
  <2>3. ASSUME NEW r, Goto(s, r), r.tx = s.tx, r.by = s.by,
               r.step = "mark" \/ (r.step = "spends" /\ mine = {})
        PROVE  SpendInv'
    <3>1. Marking \subseteq Marking'
      BY <2>1, <2>3, MarkingGoto
    <3>2. s.by = "send" /\ r.step = "spends" => \E n \in Spends[s.tx] : n[2] = "s"
      BY <2>3, SendHasNote
    <3>3. \A q \in scans' : q \in scans \/ q = r
      BY <2>3 DEF Goto
    <3> HIDE DEF mine
    <3> QED BY <1>0, <2>1, <2>2, <2>3, <3>1, <3>2, <3>3, StepKeepsUnspent, SpendScan
  <2>4. CASE mine # {} /\ Goto(s, [s EXCEPT !.step = "mark", !.utxos = mine, !.toMark = mine])
    <3> DEFINE r == [s EXCEPT !.step = "mark", !.utxos = mine, !.toMark = mine]
    <3>1. r.tx = s.tx /\ r.by = s.by /\ r.step = "mark"
      BY <1>0 DEF ScanRec
    <3> HIDE DEF mine, r
    <3> QED BY <2>3, <2>4, <3>1 DEF r
  <2>5. CASE mine = {} /\ Goto(s, [s EXCEPT !.step = "spends"])
    <3> DEFINE r == [s EXCEPT !.step = "spends"]
    <3>1. r.tx = s.tx /\ r.by = s.by /\ r.step = "spends"
      BY <1>0 DEF ScanRec
    <3> HIDE DEF mine, r
    <3> QED BY <2>3, <2>5, <3>1 DEF r
  <2>6. CASE Done(s)
    <3>1. Marking \subseteq Marking'
      BY <2>1, <2>6, MarkingDone
    <3>2. \A q \in scans' : q \in scans
      BY <2>6 DEF Done
    <3> QED BY <1>0, <2>1, <2>2, <3>1, <3>2, StepKeepsUnspent, SpendScan
  <2> QED BY <1>2, <2>4, <2>5, <2>6 DEF ScanInputs
<1>3. CASE MarkUtxo(s)
  <2>1. PICK n \in s.toMark : Goto(s, [s EXCEPT !.toMark = @ \ {n}])
    BY <1>3 DEF MarkUtxo
  <2> DEFINE r == [s EXCEPT !.toMark = @ \ {n}]
  <2>2. UNCHANGED <<saved, phase, sending, found>> /\ s.step = "mark"
    BY <1>3 DEF MarkUtxo, At, InScan, Scanning, queueVars
  <2>3. r.tx = s.tx /\ r.by = s.by /\ r.step = "mark"
    BY <1>0, <2>2 DEF ScanRec
  <2>4. Goto(s, r)
    BY <2>1
  <2> HIDE DEF r
  <2>5. /\ Step(txns, txns', {s.tx}, {})
        /\ \A m \in Note : Known(txns, m) /\ m[2] # "t" => NoteOf(txns', m) = NoteOf(txns, m)
    BY <1>3, MarkUtxoCore
  <2>6. Marking \subseteq Marking' /\ s.tx \in Marking'
    BY <2>2, <2>3, <2>4, MarkingGoto
  <2>7. \A q \in scans' : q \in scans \/ q = r
    BY <2>4 DEF Goto
  <2> QED BY <1>0, <2>2, <2>3, <2>5, <2>6, <2>7, SpendScan
<1>4. CASE RecordUtxos(s)
  <2>1. /\ Step(txns, txns', {}, {}) /\ s.tx \in DOMAIN txns'
        /\ UNCHANGED <<saved, phase, sending, found>>
    BY <1>4, RecordUtxosCore DEF RecordUtxos, InScan, Scanning, queueVars
  <2>2. CASE Goto(s, [s EXCEPT !.step = "spends"])
    <3> DEFINE r == [s EXCEPT !.step = "spends"]
    <3>1. r.tx = s.tx /\ r.by = s.by
      BY <1>0 DEF ScanRec
    <3>2. Goto(s, r)
      BY <2>2
    <3> HIDE DEF r
    <3>3. Marking \subseteq Marking' \cup {s.tx}
      BY <2>1, <3>1, <3>2, MarkingGoto
    <3>4. \A q \in scans' : q \in scans \/ q = r
      BY <3>2 DEF Goto
    <3> QED BY <1>0, <2>1, <3>1, <3>3, <3>4, StepKeepsUnspent, SpendScan
  <2>3. CASE Done(s)
    <3>1. Marking \subseteq Marking' \cup {s.tx}
      BY <2>1, <2>3, MarkingDone
    <3>2. \A q \in scans' : q \in scans
      BY <2>3 DEF Done
    <3> QED BY <1>0, <2>1, <3>1, <3>2, StepKeepsUnspent, SpendScan
  <2> QED BY <1>4, <2>2, <2>3 DEF RecordUtxos
<1>5. CASE ScanSpends(s)
  <2> DEFINE ns == Spends[s.tx] \cap UnspentNullifiers(txns, "s")
             r == [s EXCEPT !.step = "notes", !.toMark = ns]
  <2>1. UNCHANGED <<txns, saved, phase, sending, found>> /\ Goto(s, r) /\ s.step = "spends"
    BY <1>5 DEF ScanSpends, At, InScan, Scanning, queueVars
  <2>2. s.by = "send" => s.tx \in DOMAIN txns \/ ns # {}
    <3>1. SUFFICES ASSUME s.by = "send", s.tx \notin DOMAIN txns
                   PROVE  ns # {}
      OBVIOUS
    <3>2. sending = s.tx /\ phase = "sendscan"
      BY <1>0, <3>1
    <3>3. PICK n \in Spends[s.tx] : n[2] = "s"
      BY <2>1, <3>1, <3>2 DEF SpendInv, SendInv
    <3>4. n \in Note /\ Known(txns, n) /\ NoteOf(txns, n).keyed /\ NoteOf(txns, n).spent = NoTx
      BY <1>0, <3>2, <3>3, TxAssumption DEF SpendInv, SendInv
    <3>5. n \in ns
      BY <3>3, <3>4 DEF UnspentNullifiers
    <3> QED BY <3>5
  <2> HIDE DEF ns
  <2>3. r.tx = s.tx /\ r.by = s.by /\ r.step = "notes" /\ r.toMark = ns
    BY <1>0 DEF ScanRec
  <2> HIDE DEF r
  <2>4. Step(txns, txns', {}, {})
    BY <2>1, StaysPut, ScanIs
  <2>5. Marking \subseteq Marking'
    BY <2>1, <2>3, MarkingGoto
  <2>6. \A q \in scans' : q \in scans \/ q = r
    BY <2>1 DEF Goto
  <2> QED BY <1>0, <2>1, <2>2, <2>3, <2>4, <2>5, <2>6, StepKeepsUnspent, SpendScan
<1>6. CASE RecordSpends(s)
  <2>1. /\ Step(txns, txns', {}, {}) /\ s.tx \in DOMAIN txns'
        /\ UNCHANGED <<saved, phase, sending, found>> /\ s.step = "notes"
    BY <1>6, RecordSpendsCore DEF RecordSpends, At, InScan, Scanning, queueVars
  <2>2. PICK n \in s.toMark : Goto(s, [s EXCEPT !.toMark = @ \ {n}])
    BY <1>6 DEF RecordSpends
  <2> DEFINE r == [s EXCEPT !.toMark = @ \ {n}]
  <2>3. r.tx = s.tx /\ r.by = s.by /\ Goto(s, r)
    BY <1>0, <2>2 DEF ScanRec
  <2> HIDE DEF r
  <2>4. Marking \subseteq Marking'
    BY <2>1, <2>3, MarkingGoto
  <2>5. \A q \in scans' : q \in scans \/ q = r
    BY <2>3 DEF Goto
  <2> QED BY <1>0, <2>1, <2>3, <2>4, <2>5, StepKeepsUnspent, SpendScan
<1>7. CASE ScanNotes(s)
  <2>1. /\ Step(txns, txns', {}, {}) /\ Done(s) /\ UNCHANGED <<saved, found>>
        /\ s.step = "notes" /\ s.toMark = {}
        /\ s.by # "send" => UNCHANGED <<phase, sending>>
        /\ s.by = "send" => phase = "sendscan" /\ phase' = "idle"
    BY <1>7, ScanNotesCore DEF ScanNotes, At, Scanning, queueVars
  <2>2. Marking \subseteq Marking' /\ \A q \in scans' : q \in scans
    BY <2>1, MarkingDone DEF Done
  <2>3. CASE s.by # "send"
    BY <1>0, <2>1, <2>2, <2>3, StepKeepsUnspent, SpendScan
  <2>4. CASE s.by = "send"
    <3>1. sending \in DOMAIN txns /\ DOMAIN txns \subseteq DOMAIN txns'
      BY <1>0, <2>1, <2>4 DEF SpendInv, SendInv, Step, Grows
    <3>2. Reserving = {sending} /\ Reserving' = {}
      BY <2>1, <2>4 DEF Reserving
    <3>3. MarksIn(txns, Marking, Reserving)
      BY DEF SpendInv, MarkInv
    <3>4. MarksIn(txns', Marking', Reserving')
      <4> HIDE DEF Marking, Reserving
      <4> QED BY <2>1, <2>2, <3>1, <3>2, <3>3, MarksStep
    <3>5. MarkInv'
      BY <2>1, <3>4 DEF SpendInv, MarkInv
    <3> QED BY <2>1, <2>4, <3>5, NotSending DEF SpendInv
  <2> QED BY <2>3, <2>4
<1> QED BY <1>1, <1>2, <1>3, <1>4, <1>5, <1>6, <1>7 DEF ScanStep

LEMMA SpendUser ==
  ASSUME Restarts => ~Monitor, CoreInv, SpendInv, User
  PROVE  SpendInv'
<1>0. SyncTypes /\ QueueInv /\ ScanInv /\ GoodInv
  BY DEF CoreInv, TypeOK
<1>1. ASSUME NEW t \in Sent, Broadcast(t) PROVE SpendInv'
  <2>1. /\ UNCHANGED <<txns, saved, scans, found>> /\ phase = "idle" /\ phase' = "send" /\ sending' = t
        /\ Spends[t] # {} /\ Spends[t] \subseteq Selectable(txns, Len(synced))
    BY <1>1 DEF Broadcast, queueVars
  <2>2. Marking' = Marking /\ Reserving' = {} /\ Reserving = {}
    BY <2>1 DEF Marking, Reserving
  <2>3. MarkInv'
    BY <2>1, <2>2 DEF SpendInv, MarkInv
  <2>4. ASSUME NEW n \in Spends[t]
        PROVE  Known(txns, n) /\ (n[2] = "s" => NoteOf(txns, n).keyed /\ NoteOf(txns, n).spent = NoTx)
    <3>1. /\ n \in Note /\ Known(txns, n) /\ NoteOf(txns, n).spent = NoTx
          /\ n[2] = "s" => Witnesses(NoteOf(txns, n).witness) > AnchorOffset
      BY <2>1 DEF Selectable
    <3>2. NoteOf(txns, n) \in NoteRec /\ AnchorOffset \in Nat
      BY <1>0, <3>1, NoteOfType, BoundAssumption DEF GoodInv, GoodWallet
    <3>3. Witnesses(NoteOf(txns, n).witness) \in Int
      BY <3>2 DEF NoteRec, WitnessRec, Witnesses
    <3>4. n[2] = "s" => ~(Witnesses(NoteOf(txns, n).witness) <= 0)
      BY <3>1, <3>2, <3>3
    <3> QED BY <1>0, <3>1, <3>4 DEF GoodInv, GoodWallet, ShapeOf
  <2>5. \A s \in scans : s.by # "send"
    BY <1>0, <2>1 DEF ScanInv
  <2>6. SendInv'
    BY <2>1, <2>4, <2>5 DEF SendInv
  <2> QED BY <2>3, <2>6 DEF SpendInv
<1>2. CASE MarkSelected
  <2> DEFINE s == NewScan("send", sending, Len(synced) + 1, TRUE)
  <2>1. /\ phase = "send" /\ phase' = "sendscan" /\ scans' = scans \cup {s}
        /\ UNCHANGED <<saved, sending, found>>
    BY <1>2 DEF MarkSelected, queueVars
  <2>2. s.step = "outputs" /\ s.by = "send"
    BY DEF NewScan
  <2> HIDE DEF s
  <2>3. Step(txns, txns', {}, {sending})
    BY <1>2, MarkSelectedCore
  <2>4. Marking \subseteq Marking' /\ Reserving = {} /\ Reserving' = {sending}
    BY <2>1, <2>2 DEF Marking, Reserving
  <2>5. MarksIn(txns', Marking', Reserving')
    <3>1. MarksIn(txns, Marking, Reserving)
      BY DEF SpendInv, MarkInv
    <3> HIDE DEF Marking, Reserving
    <3> QED BY <2>3, <2>4, <3>1, MarksStep
  <2>6. MarkInv'
    BY <2>1, <2>5 DEF SpendInv, MarkInv
  <2>7. sending \in Txs /\ \A q \in scans : q.by # "send"
    BY <1>0, <2>1, TxAssumption DEF ScanInv
  <2>8. SendInv'
    <3>1. Spends[sending] \subseteq Note /\ Spends[sending] # {}
      BY <2>1, <2>7, TxAssumption DEF SpendInv, SendInv
    <3>2. ASSUME NEW n \in Spends[sending]
          PROVE  Known(txns', n) /\ (n[2] = "s" => NoteOf(txns', n).keyed /\ NoteOf(txns', n).spent = NoTx)
      <4>1. n \in Note /\ Known(txns, n) /\ (n[2] = "s" => NoteOf(txns, n).keyed /\ NoteOf(txns, n).spent = NoTx)
        BY <2>1, <3>1 DEF SpendInv, SendInv
      <4>2. Known(txns', n) /\ (NoteOf(txns, n).keyed => NoteOf(txns', n).keyed)
        BY <2>3, <4>1 DEF Step, Grows
      <4> QED BY <2>3, <4>1, <4>2, StepKeepsUnspent
    <3> QED BY <2>1, <2>2, <2>7, <3>1, <3>2 DEF SendInv
  <2> QED BY <2>6, <2>8 DEF SpendInv
<1>3. CASE Save
  <2>1. UNCHANGED <<txns, scans, found, phase, sending>> /\ saved' = txns /\ phase = "idle"
    BY <1>3 DEF Save, syncVars, queueVars
  <2>2. Marking' = Marking /\ Reserving' = Reserving /\ Reserving = {}
    BY <2>1 DEF Marking, Reserving
  <2>3. Restarts => Marking = {}
    BY <2>1, NotMarking DEF Batch
  <2>4. MarkInv'
    BY <2>1, <2>2, <2>3 DEF SpendInv, MarkInv
  <2> QED BY <2>1, <2>4, NotSending DEF SpendInv
<1>4. CASE Restart
  <2>1. /\ Restarts /\ txns' = saved /\ saved' = saved /\ phase' = "idle" /\ scans' = {} /\ found' = {}
    BY <1>4 DEF Restart, Loaded
  <2>2. Marking' = {} /\ Reserving' = {}
    BY <2>1 DEF Marking, Reserving
  <2>3. MarkInv'
    BY <2>1, <2>2 DEF SpendInv, MarkInv
  <2> QED BY <2>1, <2>3, NotSending DEF SpendInv
<1> QED BY <1>1, <1>2, <1>3, <1>4 DEF User

LEMMA SpendStutter == ASSUME SpendInv, UNCHANGED vars PROVE SpendInv'
<1>1. UNCHANGED <<txns, saved, phase, sending, found, scans>>
  BY DEF vars, syncVars, queueVars
<1> QED BY <1>1, SpendStay

LEMMA SpendNext ==
  ASSUME NoOrchard, Restarts => ~Monitor, CoreInv, SpendInv, [Next]_vars
  PROVE  SpendInv'
<1>1. CASE Scan
  <2>1. CASE ScanStreamed
    <3>1. UNCHANGED <<txns, saved, phase, sending, found>> /\ scans \subseteq scans'
          /\ \A s \in scans' : s \in scans \/ s.step = "outputs"
      BY <2>1 DEF ScanStreamed, NewScan, syncVars, queueVars
    <3> QED BY <3>1, SpendStay
  <2> QED BY <1>1, <2>1, SpendScanStep DEF Scan
<1> QED BY <1>1, SpendServer, SpendSync, SpendUser, SpendStutter DEF Next

LEMMA SpendInit == Init => SpendInv
<1> SUFFICES ASSUME Init PROVE SpendInv
  OBVIOUS
<1>1. DOMAIN txns = {} /\ DOMAIN saved = {} /\ phase = "idle"
  BY DEF Init
<1> QED BY <1>1 DEF SpendInv, MarkInv, SendInv, MarksIn, Known

(* What a note is spent or reserved by is in the wallet (remove_txids, the   *)
(* full scans, the end of a send), whenever nobody is changing the wallet:   *)
(* for wallets without Orchard notes, and if the program does not restart    *)
(* from a file saved while the monitor was marking.                          *)
THEOREM SpendersKeptCorrect ==
  ASSUME NoOrchard, ~(Monitor /\ Restarts)
  PROVE  Spec => []SpendersKept
<1>0. NoOrchard /\ (Restarts => ~Monitor)
  OBVIOUS
<1>1. Init => CoreInv /\ SpendInv
  BY InitCore, SpendInit
<1>2. CoreInv /\ SpendInv /\ [Next]_vars => CoreInv' /\ SpendInv'
  BY <1>0, NextCore, SpendNext
<1>3. CoreInv /\ SpendInv => SpendersKept
  <2> SUFFICES ASSUME CoreInv, SpendInv, AtRest, NEW n \in Note, Known(txns, n)
               PROVE  {NoteOf(txns, n).spent, NoteOf(txns, n).pending} \subseteq DOMAIN txns \cup {NoTx}
    BY DEF SpendersKept, WalletNotes
  <2>1. phase = "idle" /\ scans = {} /\ found = {}
    BY DEF AtRest, CoreInv, QueueInv, Batch
  <2>2. Marking = {} /\ Reserving = {}
    BY <2>1 DEF Marking, Reserving
  <2> QED BY <2>2 DEF SpendInv, MarkInv, MarksIn
<1> QED BY <1>1, <1>2, <1>3, PTL DEF Spec

-----------------------------------------------------------------------------
(* The chain                                                                 *)

Syncing == phase \in {"reorg", "scan", "orchard"}

(* The blocks the wallet is brought to, or was *)
Goal == IF Syncing THEN view ELSE synced

(* A transaction is mined once. *)
Once(bs) == \A i, j \in 1..Len(bs) : i # j => bs[i] \cap bs[j] = {}

(* bs and cs begin with the same k blocks. *)
Agree(bs, cs, k) == k <= Len(bs) /\ k <= Len(cs) /\ \A i \in 1..k : bs[i] = cs[i]

(* What was mined had an expiry height (e is the variable expiry). *)
Made(bs, e) == \A t \in Mined(bs) : e[t] # 0

(* The server's chain agrees with the wallet's goal as far as shared says,   *)
(* the wallet's blocks with it as far as keep says: no reorg is deeper than  *)
(* MaxDepth.  Of the wallet's blocks, invalidate_block has left the first    *)
(* left, and in a batch just those that are kept.                            *)
ChainInv ==
  /\ Once(chain) /\ Once(synced) /\ Once(view)
  /\ Made(chain, expiry) /\ Made(synced, expiry) /\ Made(view, expiry)
  /\ Agree(chain, Goal, shared) /\ shared + MaxDepth >= Len(Goal)
  /\ Agree(synced, Goal, keep) /\ keep + MaxDepth >= Len(synced)
  /\ keep <= left /\ left <= Len(synced) /\ Len(synced) <= Len(Goal)
  /\ ~Syncing => left = Len(synced) /\ keep = Len(synced)
  /\ phase \in Batch => left = keep

-----------------------------------------------------------------------------
(* What is true of a wallet that holds transactions of the blocks bs         *)

Confirmed(w, t) == t \in DOMAIN w /\ ~w[t].unconfirmed

(* What the wallet takes for mined is in these blocks, at its height, and    *)
(* not above the l-th.                                                       *)
ConfirmedIn(w, bs, l) ==
  \A t \in Txs : Confirmed(w, t) => t \in Mined(bs) /\ w[t].block = HeightIn(bs, t) /\ w[t].block <= l

(* A note is marked by a transaction that spends it.  That of a Sapling note *)
(* is in the wallet, at the height of the mark, or among the spends F that   *)
(* update_notes has found and will record.                                   *)
Settled(w, d)           == Confirmed(w, d.spent) /\ w[d.spent].block = d.at
Unrecorded(F, bs, n, d) == [note |-> n, spender |-> d.spent] \in F /\ d.at = HeightIn(bs, d.spent)

SpentOK(w, F, bs, n) ==
  LET d == NoteOf(w, n)
  IN  d.spent # NoTx =>
        /\ n \in Spends[d.spent]
        /\ n[2] = "s" => Settled(w, d) \/ Unrecorded(F, bs, n, d)

SpentIn(w, F, bs) == \A n \in Note : Known(w, n) => SpentOK(w, F, bs, n)

(* A note's witnesses reach back to its block, or as far as a reorg of l     *)
(* blocks can.                                                               *)
Reaches(ws, block, l) == ws.from <= ws.top /\ (ws.from <= block \/ ws.from <= l - MaxReorg + 1)
NoteReaches(w, n, l) == Reaches(NoteOf(w, n).witness, w[n[1]].block, l)

WitnessOK(w, l, n) ==
  n[2] = "s" /\ NoteOf(w, n).keyed =>
    /\ Confirmed(w, n[1])
    /\ NoteReaches(w, n, l) \/ (NoteOf(w, n).spent # NoTx /\ NoteOf(w, n).at < l - MaxReorg)

WitnessIn(w, l) == \A n \in Note : Known(w, n) => WitnessOK(w, l, n)

(* No reorg reaches below the oldest witness. *)
Shallow == MaxDepth < MaxReorg

Sound(w, bs, l, F) ==
  /\ ConfirmedIn(w, bs, l) /\ SpentIn(w, F, bs)
  /\ Shallow => WitnessIn(w, Len(bs))

(* The file is a wallet of the synced blocks; the wallet is one, too, and in *)
(* a batch one of the blocks it is brought to.                               *)
WalletInv ==
  /\ Sound(saved, synced, Len(synced), {})
  /\ IF phase \in Batch THEN Sound(txns, view, Len(view), found) ELSE Sound(txns, synced, left, {})
  /\ phase \in {"send", "sendscan"} => sending \notin Mined(synced)

(* What the tasks of a batch are about to do *)
Waiting == {u.note : u \in upd} \cup {f.note : f \in found}

ScanWork ==
  \A s \in scans :
    /\ s.toMark \subseteq Spends[s.tx]
    /\ s.step \in {"spends", "notes"} => s.unconfirmed
    /\ phase \in Batch /\ ~s.unconfirmed => s.tx \in NewTxs /\ s.height = HeightIn(view, s.tx)

NoteWork ==
  /\ \A f \in found : f.note \in Spends[f.spender]
  /\ \A u \in upd : u.note[2] = "s" /\ u.note[1] \in NewTxs => u.at = HeightIn(view, u.note[1])
  /\ Shallow => \A n \in Waiting : n[2] = "s" =>
                  Known(txns, n) /\ NoteOf(txns, n).keyed /\ NoteReaches(txns, n, Len(view))

(* What waits at the server is not mined, and nothing mined spends the same. *)
WaitInv ==
  \A t \in mempool : t \notin Mined(chain) /\ \A n \in Spends[t] : SpendersIn(chain, n) = {}

(* The server has not reorganised: the wallet's blocks stay, and the goal is *)
(* on the server's chain.                                                    *)
CalmInv == keep = Len(synced) /\ shared = Len(Goal)

(* Beside a monitor there is no reorg, and what is streamed or being scanned *)
(* still waits.                                                              *)
MonitorInv == Monitor => CalmInv /\ StreamedTxs \subseteq mempool

(* The monitor is off, or the server keeps its chain and mines nothing that  *)
(* the monitor has still to scan.                                            *)
InTime == Monitor => MaxReorgs = 0 /\ ~LateMempool

(* What relates the wallet's transactions to the blocks: together with       *)
(* CoreInv it is inductive.                                                  *)
HistInv == ChainInv /\ WaitInv /\ MonitorInv /\ WalletInv /\ ScanWork /\ NoteWork

LEMMA AgreeKept ==
  ASSUME NEW bs \in Seq(Blocks), NEW cs \in Seq(Blocks), NEW ds \in Seq(Blocks),
         NEW k \in Nat, NEW i \in Nat, Agree(bs, cs, k), Agree(ds, cs, i)
  PROVE  Agree(bs, ds, Smaller(k, i))
BY DEF Agree, Smaller

LEMMA OnceHeight ==
  ASSUME NEW bs \in Seq(Blocks), Once(bs), NEW i \in 1..Len(bs), NEW t \in bs[i]
  PROVE  t \in Mined(bs) /\ HeightIn(bs, t) = i
<1>1. t \in Mined(bs)
  BY DEF Mined
<1>2. HeightIn(bs, t) \in 1..Len(bs) /\ t \in bs[HeightIn(bs, t)]
  BY <1>1, HeightIs
<1> QED BY <1>1, <1>2 DEF Once

(* A block more, of transactions that were in none *)
LEMMA AppendOnce ==
  ASSUME NEW bs \in Seq(Blocks), Once(bs), NEW e, Made(bs, e), NEW S \in SUBSET Txs,
         \A t \in S : t \notin Mined(bs) /\ e[t] # 0
  PROVE  LET cs == Append(bs, S)
         IN  /\ cs \in Seq(Blocks) /\ Len(cs) = Len(bs) + 1 /\ \A i \in 1..Len(bs) : cs[i] = bs[i]
             /\ Once(cs) /\ Made(cs, e)
<1> DEFINE cs == Append(bs, S)
<1>1. /\ cs \in Seq(Blocks) /\ Len(cs) = Len(bs) + 1 /\ Len(bs) \in Nat
      /\ cs[Len(bs) + 1] = S /\ \A i \in 1..Len(bs) : cs[i] = bs[i]
  BY DEF Blocks
<1> HIDE DEF cs
<1>2. \A i \in 1..Len(bs) : bs[i] \cap S = {}
  BY DEF Mined
<1>3. \A i \in 1..Len(cs) : i \in 1..Len(bs) \/ i = Len(bs) + 1
  BY <1>1
<1>4. Once(cs)
  <2> SUFFICES ASSUME NEW i \in 1..Len(cs), NEW j \in 1..Len(cs), i # j
               PROVE  cs[i] \cap cs[j] = {}
    BY DEF Once
  <2>1. CASE i \in 1..Len(bs) /\ j \in 1..Len(bs)
    BY <1>1, <2>1 DEF Once
  <2>2. CASE i = Len(bs) + 1
    BY <1>1, <1>2, <1>3, <2>2
  <2>3. CASE j = Len(bs) + 1
    BY <1>1, <1>2, <1>3, <2>3
  <2> QED BY <1>3, <2>1, <2>2, <2>3
<1>5. Made(cs, e)
  <2> SUFFICES ASSUME NEW i \in 1..Len(cs), NEW t \in cs[i]
               PROVE  e[t] # 0
    BY DEF Made, Mined
  <2>1. CASE i \in 1..Len(bs)
    BY <1>1, <2>1 DEF Made, Mined
  <2>2. CASE i = Len(bs) + 1
    BY <1>1, <2>2
  <2> QED BY <1>3, <2>1, <2>2
<1> QED BY <1>1, <1>4, <1>5 DEF cs

LEMMA PrefixOnce ==
  ASSUME NEW bs \in Seq(Blocks), Once(bs), NEW e, Made(bs, e), NEW k \in 1..Len(bs)
  PROVE  LET cs == SubSeq(bs, 1, k)
         IN  /\ cs \in Seq(Blocks) /\ Len(cs) = k /\ \A i \in 1..k : cs[i] = bs[i]
             /\ Once(cs) /\ Made(cs, e)
<1> DEFINE cs == SubSeq(bs, 1, k)
<1>1. cs \in Seq(Blocks) /\ Len(cs) = k /\ \A i \in 1..k : cs[i] = bs[i]
  OBVIOUS
<1> HIDE DEF cs
<1>2. \A i \in 1..k : i \in 1..Len(bs)
  OBVIOUS
<1>3. Once(cs) /\ Made(cs, e)
  BY <1>1, <1>2 DEF Once, Made, Mined
<1> QED BY <1>1, <1>3 DEF cs

ChainVars == <<synced, view, left, keep, phase>>

LEMMA ChainInit == Init => ChainInv
<1> SUFFICES ASSUME Init PROVE ChainInv
  OBVIOUS
<1> USE DEF Init
<1>1. /\ Len(<<{}>>) = 1 /\ Mined(<<{}>>) = {} /\ <<{}>>[1] = {}
      /\ Len(<<>>) = 0 /\ Mined(<<>>) = {}
  BY DEF Mined
<1>2. Once(chain) /\ Once(synced) /\ Once(view)
  BY <1>1 DEF Once
<1>3. Made(chain, expiry) /\ Made(synced, expiry) /\ Made(view, expiry)
  BY <1>1 DEF Made
<1>4. Goal = synced /\ ~Syncing /\ phase \notin Batch
  BY DEF Goal, Syncing, Batch
<1>5. Agree(chain, Goal, shared) /\ Agree(synced, Goal, keep)
  BY <1>1, <1>4 DEF Agree
<1>6. MaxDepth \in Nat
  BY BoundAssumption
<1> QED BY <1>1, <1>2, <1>3, <1>4, <1>5, <1>6 DEF ChainInv

LEMMA GoalIs ==
  ASSUME TypeOK
  PROVE  /\ chain \in Seq(Blocks) /\ synced \in Seq(Blocks) /\ view \in Seq(Blocks) /\ Goal \in Seq(Blocks)
         /\ Len(chain) \in Nat /\ Len(synced) \in Nat /\ Len(view) \in Nat /\ Len(Goal) \in Nat
         /\ left \in Nat /\ keep \in Nat /\ shared \in Nat /\ MaxDepth \in Nat
BY BoundAssumption DEF TypeOK, ServerTypes, SyncTypes, Goal

LEMMA MadeKept ==
  ASSUME NEW bs \in Seq(Blocks), NEW e, Made(bs, e), NEW f, \A t \in Txs : e[t] # 0 => f[t] # 0
  PROVE  Made(bs, f)
BY HeightIs DEF Made

(* The server's chain changes, and what it shares with the wallet. *)
LEMMA ChainMoves ==
  ASSUME TypeOK, ChainInv, UNCHANGED ChainVars, \A t \in Txs : expiry[t] # 0 => expiry'[t] # 0,
         Once(chain'), Made(chain', expiry), chain' \in Seq(Blocks),
         Agree(chain', Goal, shared'), shared' + MaxDepth >= Len(Goal)
  PROVE  ChainInv'
<1>1. Goal' = Goal /\ Syncing' = Syncing
  BY DEF Goal, Syncing, ChainVars
<1>2. Made(synced, expiry') /\ Made(view, expiry') /\ Made(chain', expiry')
  BY GoalIs, MadeKept DEF ChainInv
<1> QED BY <1>1, <1>2 DEF ChainInv, ChainVars

LEMMA ServerChain ==
  ASSUME CoreInv, ChainInv, Server
  PROVE  ChainInv'
<1>0. TypeOK /\ UNCHANGED ChainVars
  BY DEF CoreInv, Server, Mine, Reorg, Arrive, Stream, ChainVars, syncVars
<1>t. /\ chain \in Seq(Blocks) /\ Len(chain) \in Nat /\ Len(synced) \in Nat /\ Len(view) \in Nat
      /\ shared \in Nat /\ MaxDepth \in Nat
  BY <1>0, GoalIs
<1>c. Agree(chain, Goal, shared) /\ shared + MaxDepth >= Len(Goal) /\ Once(chain) /\ Made(chain, expiry)
  BY DEF ChainInv
<1>1. ASSUME NEW S \in SUBSET Txs, Mine(S)
      PROVE  ChainInv'
  <2>1. chain' = Append(chain, S) /\ UNCHANGED <<expiry, shared>>
    BY <1>1 DEF Mine
  <2>2. ASSUME NEW t \in S PROVE t \notin Mined(chain) /\ expiry[t] # 0
    <3>1. t \notin Mined(chain) /\ Len(chain) < expiry[t]
      BY <1>1 DEF Mine, Valid
    <3> QED BY <1>t, <3>1
  <2>3. /\ chain' \in Seq(Blocks) /\ Len(chain') = Len(chain) + 1
        /\ \A i \in 1..Len(chain) : chain'[i] = chain[i]
        /\ Once(chain') /\ Made(chain', expiry)
    BY <1>t, <1>c, <2>1, <2>2, AppendOnce
  <2>4. Agree(chain', Goal, shared')
    BY <1>t, <1>c, <2>1, <2>3 DEF Agree
  <2> QED BY <1>0, <1>c, <2>1, <2>3, <2>4, ChainMoves
<1>2. ASSUME NEW k \in 1..Len(chain), NEW back \in SUBSET Txs, Reorg(k, back)
      PROVE  ChainInv'
  <2>1. /\ chain' = SubSeq(chain, 1, k) /\ shared' = Smaller(shared, k) /\ UNCHANGED expiry
        /\ k + MaxDepth >= Len(synced) /\ k + MaxDepth >= Len(view)
    BY <1>2 DEF Reorg
  <2>2. /\ chain' \in Seq(Blocks) /\ Len(chain') = k /\ \A i \in 1..k : chain'[i] = chain[i]
        /\ Once(chain') /\ Made(chain', expiry)
    BY <1>t, <1>c, <2>1, PrefixOnce
  <2>4. Agree(chain', Goal, shared')
    BY <1>t, <1>c, <2>1, <2>2 DEF Agree, Smaller
  <2>5. shared' + MaxDepth >= Len(Goal)
    BY <1>t, <1>c, <2>1 DEF Smaller, Goal
  <2> QED BY <1>0, <2>1, <2>2, <2>4, <2>5, ChainMoves
<1>3. ASSUME NEW t \in Txs, Arrive(t) \/ Stream(t)
      PROVE  ChainInv'
  <2>1. UNCHANGED <<chain, shared>>
    BY <1>3 DEF Arrive, Stream, serverVars
  <2>2. \A x \in Txs : expiry[x] # 0 => expiry'[x] # 0
    <3>1. Len(chain) + 1 + ExpiryDelta # 0
      BY <1>t, BoundAssumption
    <3>2. expiry \in [Txs -> Nat]
      BY <1>0 DEF TypeOK, ServerTypes
    <3> QED BY <1>3, <3>1, <3>2 DEF Arrive, Stream, serverVars
  <2> QED BY <1>0, <1>t, <1>c, <2>1, <2>2, ChainMoves
<1> QED BY <1>1, <1>2, <1>3 DEF Server

LEMMA SyncChain ==
  ASSUME CoreInv, ChainInv, Sync
  PROVE  ChainInv'
<1>0. TypeOK
  BY DEF CoreInv
<1>t. /\ chain \in Seq(Blocks) /\ synced \in Seq(Blocks) /\ view \in Seq(Blocks)
      /\ Len(chain) \in Nat /\ Len(synced) \in Nat /\ Len(view) \in Nat
      /\ left \in Nat /\ keep \in Nat /\ shared \in Nat /\ MaxDepth \in Nat
  BY <1>0, GoalIs
<1> USE DEF ChainInv
<1>1. CASE StartSync
  <2>1. /\ phase = "idle" /\ phase' = "reorg" /\ view' = chain /\ shared' = Len(chain)
        /\ keep' = Smaller(shared, Len(synced)) /\ Len(chain) >= Len(synced)
        /\ UNCHANGED <<chain, expiry, synced, left>>
    BY <1>1 DEF StartSync, serverVars
  <2>2. Goal = synced /\ ~Syncing /\ Goal' = chain /\ Syncing' /\ phase' \notin Batch
    BY <2>1 DEF Goal, Syncing, Batch
  <2>3. Agree(chain, chain, Len(chain)) /\ Agree(synced, chain, keep') /\ keep' + MaxDepth >= Len(synced)
        /\ keep' <= left
    BY <1>t, <2>1, <2>2 DEF Agree, Smaller
  <2> QED BY <1>t, <2>1, <2>2, <2>3
<1>2. CASE InvalidateBlock
  <2>1. /\ phase = "reorg" /\ left > keep /\ left' = left - 1
        /\ UNCHANGED <<chain, expiry, synced, view, keep, shared, phase>>
    BY <1>2 DEF InvalidateBlock, serverVars
  <2>2. Goal' = Goal /\ Syncing /\ Syncing' /\ phase' \notin Batch
    BY <2>1 DEF Goal, Syncing, Batch
  <2> QED BY <1>t, <2>1, <2>2
<1>3. CASE FinishSync
  <2>1. /\ phase = "orchard" /\ phase' = "idle" /\ synced' = view /\ view' = <<>>
        /\ left' = Len(view) /\ keep' = Len(view) /\ UNCHANGED <<chain, expiry, shared>>
    BY <1>3 DEF FinishSync, serverVars
  <2>2. Goal = view /\ Goal' = view /\ ~Syncing' /\ phase' \notin Batch
    BY <2>1 DEF Goal, Syncing, Batch
  <2>3. Once(<<>>) /\ Made(<<>>, expiry) /\ Agree(view, view, Len(view))
    BY <1>t DEF Once, Made, Mined, Agree
  <2> QED BY <1>t, <2>1, <2>2, <2>3
<1>4. CASE BlocksDone
  <2>1. /\ phase = "reorg" /\ phase' = "scan" /\ left = keep
        /\ UNCHANGED <<chain, expiry, synced, view, keep, shared, left>>
    BY <1>4 DEF BlocksDone, serverVars
  <2>2. Goal' = Goal /\ Syncing /\ Syncing'
    BY <2>1 DEF Goal, Syncing
  <2> QED BY <2>1, <2>2
<1>5. CASE OrchardPass
  <2>1. /\ phase = "scan" /\ phase' = "orchard"
        /\ UNCHANGED <<chain, expiry, synced, view, keep, shared, left>>
    BY <1>5 DEF OrchardPass, serverVars
  <2>2. Goal' = Goal /\ Syncing /\ Syncing' /\ phase \in Batch
    BY <2>1 DEF Goal, Syncing, Batch
  <2> QED BY <2>1, <2>2
<1>6. CASE UNCHANGED <<chain, expiry, synced, view, keep, shared, left, phase>>
  <2>1. Goal' = Goal /\ Syncing' = Syncing
    BY <1>6 DEF Goal, Syncing
  <2> QED BY <1>6, <2>1
<1>7. \/ StartSync \/ InvalidateBlock \/ FinishSync \/ BlocksDone \/ OrchardPass
      \/ UNCHANGED <<chain, expiry, synced, view, keep, shared, left, phase>>
  BY DEF Sync, ReadOldNotes, Detect, LookUpSpent, LookUpUnspent, RecordSpend, ScanTaddr, ScanFull, serverVars
<1> QED BY <1>1, <1>2, <1>3, <1>4, <1>5, <1>6, <1>7

LEMMA OtherChain ==
  ASSUME CoreInv, ChainInv, Scan \/ User \/ UNCHANGED vars
  PROVE  ChainInv'
<1>0. TypeOK
  BY DEF CoreInv
<1>t. /\ chain \in Seq(Blocks) /\ synced \in Seq(Blocks) /\ view \in Seq(Blocks)
      /\ Len(chain) \in Nat /\ Len(synced) \in Nat /\ Len(view) \in Nat
      /\ left \in Nat /\ keep \in Nat /\ shared \in Nat /\ MaxDepth \in Nat
  BY <1>0, GoalIs
<1>1. ASSUME UNCHANGED <<chain, synced, view, keep, shared, left>>,
             \A t \in Txs : expiry[t] # 0 => expiry'[t] # 0,
             phase' = phase \/ (~Syncing /\ ~Syncing')
      PROVE  ChainInv'
  <2>1. Goal' = Goal /\ Syncing' = Syncing
    BY <1>1 DEF Goal, Syncing
  <2>2. Made(chain, expiry') /\ Made(synced, expiry') /\ Made(view, expiry')
    BY <1>t, <1>1, MadeKept DEF ChainInv
  <2>3. phase' \in Batch => phase \in Batch
    BY <1>1 DEF Batch, Syncing
  <2> QED BY <1>1, <2>1, <2>2, <2>3 DEF ChainInv
<1>2. ASSUME NEW t \in Sent, Broadcast(t) PROVE ChainInv'
  <2>1. \A x \in Txs : expiry[x] # 0 => expiry'[x] # 0
    <3>1. Len(synced) + 1 + ExpiryDelta # 0
      BY <1>t, BoundAssumption
    <3>2. expiry \in [Txs -> Nat]
      BY <1>0 DEF TypeOK, ServerTypes
    <3> QED BY <1>2, <3>1, <3>2 DEF Broadcast
  <2>2. UNCHANGED <<chain, synced, view, keep, shared, left>> /\ phase = "idle" /\ phase' = "send"
    BY <1>2 DEF Broadcast
  <2> QED BY <1>1, <2>1, <2>2 DEF Syncing
<1>3. CASE MarkSelected
  BY <1>1, <1>3 DEF MarkSelected, Syncing, serverVars
<1>4. CASE Restart
  <2>1. /\ UNCHANGED <<chain, expiry, synced>> /\ phase' = "idle" /\ view' = <<>>
        /\ left' = Len(synced) /\ keep' = Len(synced)
        /\ shared' = IF Syncing THEN Smaller(shared, keep) ELSE shared
    BY <1>4 DEF Restart, serverVars, Syncing
  <2>2. Goal' = synced /\ ~Syncing' /\ phase' \notin Batch
    BY <2>1 DEF Goal, Syncing, Batch
  <2>3. Once(<<>>) /\ Made(<<>>, expiry) /\ Agree(synced, synced, Len(synced))
    BY <1>t DEF Once, Made, Mined, Agree
  <2>4. Agree(chain, synced, shared') /\ shared' + MaxDepth >= Len(synced)
    <3>1. CASE Syncing
      <4>1. Agree(chain, view, shared) /\ Agree(synced, view, keep) /\ shared' = Smaller(shared, keep)
        BY <2>1, <3>1 DEF ChainInv, Goal
      <4>2. Agree(chain, synced, shared')
        BY <1>t, <4>1, AgreeKept
      <4>3. shared + MaxDepth >= Len(view) /\ Len(view) >= Len(synced) /\ keep + MaxDepth >= Len(synced)
        BY <3>1 DEF ChainInv, Goal
      <4>4. shared' + MaxDepth >= Len(synced)
        BY <1>t, <4>1, <4>3 DEF Smaller
      <4> QED BY <4>2, <4>4
    <3>2. CASE ~Syncing
      BY <2>1, <3>2 DEF ChainInv, Goal
    <3> QED BY <3>1, <3>2
  <2> QED BY <1>t, <2>1, <2>2, <2>3, <2>4 DEF ChainInv
<1>5. CASE Save \/ UNCHANGED vars
  BY <1>1, <1>5 DEF Save, vars, syncVars, serverVars
<1>6. CASE Scan
  <2>1. UNCHANGED <<chain, expiry, synced, view, keep, shared, left>>
    BY <1>6 DEF Scan, ScanStreamed, ScanStep, ScanOutputs, ScanInputs, MarkUtxo, RecordUtxos,
       ScanSpends, RecordSpends, ScanNotes, InScan, Scanning, serverVars, syncVars
  <2>2. phase' = phase \/ (phase = "sendscan" /\ phase' = "idle")
    <3>1. ScanInv
      BY DEF CoreInv
    <3> QED BY <1>6, <3>1 DEF Scan, ScanStreamed, ScanStep, ScanOutputs, ScanInputs, MarkUtxo, RecordUtxos,
            ScanSpends, RecordSpends, ScanNotes, InScan, Done, ScanInv, syncVars
  <2> QED BY <1>1, <2>1, <2>2 DEF Syncing
<1> QED BY <1>2, <1>3, <1>4, <1>5, <1>6 DEF User

LEMMA ChainNext ==
  ASSUME CoreInv, ChainInv, [Next]_vars
  PROVE  ChainInv'
BY ServerChain, SyncChain, OtherChain DEF Next

-----------------------------------------------------------------------------
(* What the monitor sees                                                     *)

LEMMA GoalStays ==
  ASSUME UNCHANGED <<phase, synced, view>>
  PROVE  Goal' = Goal
BY DEF Goal, Syncing

LEMMA CalmNext ==
  ASSUME MaxReorgs = 0, CoreInv, ChainInv, CalmInv, [Next]_vars
  PROVE  CalmInv'
<1>1. CASE Server \/ UNCHANGED vars
  <2>1. UNCHANGED <<phase, synced, view, keep, shared>>
    <3>1. \A k \in 1..Len(chain), back \in SUBSET Txs : ~Reorg(k, back)
      BY DEF Reorg, CoreInv, TypeOK, ServerTypes
    <3> QED BY <1>1, <3>1 DEF Server, Mine, Arrive, Stream, syncVars, serverVars, vars
  <2> QED BY <2>1, GoalStays DEF CalmInv
<1>2. CASE StartSync
  <2>1. /\ phase = "idle" /\ phase' = "reorg" /\ view' = chain /\ synced' = synced
        /\ keep' = Smaller(shared, Len(synced)) /\ shared' = Len(chain)
    BY <1>2 DEF StartSync
  <2>2. Goal = synced /\ Goal' = view'
    BY <2>1 DEF Goal, Syncing
  <2> QED BY <2>1, <2>2 DEF CalmInv, Smaller
<1>3. CASE FinishSync
  <2>1. /\ phase = "orchard" /\ phase' = "idle" /\ synced' = view /\ keep' = Len(view) /\ shared' = shared
    BY <1>3 DEF FinishSync
  <2>2. Goal = view /\ Goal' = synced'
    BY <2>1 DEF Goal, Syncing
  <2> QED BY <2>1, <2>2 DEF CalmInv
<1>4. CASE Restart
  <2>1. /\ phase' = "idle" /\ synced' = synced /\ keep' = Len(synced)
        /\ shared' = IF Syncing THEN Smaller(shared, keep) ELSE shared
    BY <1>4 DEF Restart, Syncing
  <2>2. Goal' = synced
    BY <2>1 DEF Goal, Syncing
  <2>3. Len(synced) <= Len(Goal) /\ Len(synced) \in Nat /\ Len(Goal) \in Nat
    BY GoalIs DEF ChainInv, CoreInv
  <2>4. CASE Syncing
    BY <2>1, <2>2, <2>3, <2>4 DEF CalmInv, Smaller
  <2>5. CASE ~Syncing
    BY <2>1, <2>2, <2>5 DEF CalmInv, Goal
  <2> QED BY <2>4, <2>5
<1>5. CASE InvalidateBlock \/ BlocksDone \/ ReadOldNotes \/ OrchardPass
  <2>1. UNCHANGED <<synced, view, keep, shared>> /\ Syncing /\ Syncing'
    BY <1>5 DEF InvalidateBlock, BlocksDone, ReadOldNotes, OrchardPass, Syncing
  <2> QED BY <2>1 DEF CalmInv, Goal
<1>6. CASE \/ \E n \in detect : Detect(n)
           \/ \E u \in upd : LookUpSpent(u) \/ LookUpUnspent(u)
           \/ \E f \in found : RecordSpend(f)
           \/ \E t \in taddrQ : ScanTaddr(t)
           \/ \E t \in fullQ : ScanFull(t)
  <2>1. UNCHANGED <<phase, synced, view, keep, shared>>
    BY <1>6 DEF Detect, LookUpSpent, LookUpUnspent, RecordSpend, ScanTaddr, ScanFull
  <2> QED BY <2>1, GoalStays DEF CalmInv
<1>7. CASE Scan
  <2>1. UNCHANGED <<synced, view, keep, shared>> /\ (phase' = phase \/ (phase = "sendscan" /\ phase' = "idle"))
    BY <1>7 DEF Scan, ScanStep, ScanStreamed, ScanOutputs, ScanInputs, MarkUtxo, RecordUtxos, ScanSpends,
        RecordSpends, ScanNotes, InScan, Scanning, Done, At, CoreInv, ScanInv, syncVars
  <2> QED BY <2>1 DEF CalmInv, Goal, Syncing
<1>8. CASE (\E t \in Sent : Broadcast(t)) \/ MarkSelected \/ Save
  <2>1. /\ UNCHANGED <<synced, view, keep, shared>>
        /\ phase \in {"idle", "send"} /\ phase' \in {"idle", "send", "sendscan"}
    BY <1>8 DEF Broadcast, MarkSelected, Save, syncVars
  <2> QED BY <2>1 DEF CalmInv, Goal, Syncing
<1> QED BY <1>1, <1>2, <1>3, <1>4, <1>5, <1>6, <1>7, <1>8 DEF Next, Sync, User

LEMMA CalmInit == Init => CalmInv
<1>1. Len(<<{}>>) = 1
  OBVIOUS
<1> QED BY <1>1 DEF Init, CalmInv, Goal, Syncing

LEMMA WaitNext ==
  ASSUME CoreInv, ChainInv, WaitInv, [Next]_vars
  PROVE  WaitInv'
<1>1. ASSUME NEW S, Mine(S) PROVE WaitInv'
  BY <1>1 DEF Mine, Valid, WaitInv
<1>2. ASSUME NEW k, NEW back, Reorg(k, back) PROVE WaitInv'
  BY <1>2 DEF Reorg, Valid, WaitInv
<1>3. ASSUME NEW t, expiry[t] = 0, mempool' = mempool \cup {t}, chain' = chain,
             \A n \in Spends[t] : SpendersIn(chain, n) = {}
      PROVE  WaitInv'
  BY <1>3 DEF WaitInv, ChainInv, Made
<1>4. ASSUME NEW t \in Txs, Arrive(t) PROVE WaitInv'
  BY <1>3, <1>4 DEF Arrive
<1>5. ASSUME NEW t \in Sent, Broadcast(t) PROVE WaitInv'
  BY <1>3, <1>5 DEF Broadcast
<1>6. CASE UNCHANGED <<chain, mempool>>
  BY <1>6 DEF WaitInv
<1>7. Sync => UNCHANGED <<chain, mempool>>
  BY DEF Sync, StartSync, InvalidateBlock, BlocksDone, ReadOldNotes, OrchardPass, FinishSync, Detect,
         LookUpSpent, LookUpUnspent, RecordSpend, ScanTaddr, ScanFull, serverVars
<1>8. Scan => UNCHANGED <<chain, mempool>>
  BY DEF Scan, ScanStep, ScanStreamed, ScanOutputs, ScanInputs, MarkUtxo, RecordUtxos, ScanSpends,
         RecordSpends, ScanNotes, InScan, Scanning, serverVars
<1>9. MarkSelected \/ Save \/ Restart \/ (\E t \in Txs : Stream(t)) \/ UNCHANGED vars =>
        UNCHANGED <<chain, mempool>>
  BY DEF MarkSelected, Save, Restart, Stream, serverVars, vars
<1> QED BY <1>1, <1>2, <1>4, <1>5, <1>6, <1>7, <1>8, <1>9 DEF Next, Server, User

LEMMA StreamedAre ==
  ASSUME NEW t
  PROVE  t \in StreamedTxs <=> \/ \E i \in 1..Len(streamQ) : streamQ[i].tx = t
                              \/ \E s \in scans : s.by = "mempool" /\ s.tx = t
<1>1. ASSUME NEW i \in 1..Len(streamQ) PROVE streamQ[i] \in Streamed
  BY DEF Streamed
<1>2. ASSUME NEW s \in scans, s.by = "mempool"
      PROVE  [tx |-> s.tx, height |-> s.height] \in Streamed
  BY <1>2 DEF Streamed
<1>3. ASSUME NEW r \in Streamed
      PROVE  \/ \E i \in 1..Len(streamQ) : streamQ[i].tx = r.tx
             \/ \E s \in scans : s.by = "mempool" /\ s.tx = r.tx
  <2>1. CASE \E i \in 1..Len(streamQ) : r = streamQ[i]
    BY <2>1
  <2>2. CASE \E s \in scans : s.by = "mempool" /\ r = [tx |-> s.tx, height |-> s.height]
    BY <2>2
  <2>3. \/ \E i \in 1..Len(streamQ) : r = streamQ[i]
        \/ \E s \in scans : s.by = "mempool" /\ r = [tx |-> s.tx, height |-> s.height]
    BY DEF Streamed
  <2> QED BY <2>1, <2>2, <2>3
<1>4. ASSUME NEW i \in 1..Len(streamQ), streamQ[i].tx = t PROVE t \in StreamedTxs
  BY <1>1, <1>4 DEF StreamedTxs
<1>5. ASSUME NEW s \in scans, s.by = "mempool", s.tx = t PROVE t \in StreamedTxs
  <2> DEFINE r == [tx |-> s.tx, height |-> s.height]
  <2>1. r \in Streamed /\ r.tx = t
    BY <1>2, <1>5
  <2> HIDE DEF r
  <2> QED BY <2>1 DEF StreamedTxs
<1>6. ASSUME t \in StreamedTxs
      PROVE  \/ \E i \in 1..Len(streamQ) : streamQ[i].tx = t
             \/ \E s \in scans : s.by = "mempool" /\ s.tx = t
  <2>1. PICK r \in Streamed : t = r.tx
    BY <1>6 DEF StreamedTxs
  <2> QED BY <1>3, <2>1
<1> QED BY <1>4, <1>5, <1>6

(* Nothing more is streamed. *)
LEMMA StreamedShrinks ==
  ASSUME streamQ' = streamQ,
         \A r \in scans' : r.by = "mempool" => \E s \in scans : s.by = "mempool" /\ s.tx = r.tx
  PROVE  StreamedTxs' \subseteq StreamedTxs
<1> SUFFICES ASSUME NEW r \in Streamed' PROVE r.tx \in StreamedTxs
  BY DEF StreamedTxs
<1>1. CASE \E i \in 1..Len(streamQ) : r = streamQ[i]
  BY <1>1, StreamedAre
<1>2. CASE \E s \in scans' : s.by = "mempool" /\ r = [tx |-> s.tx, height |-> s.height]
  BY <1>2, StreamedAre
<1> QED BY <1>1, <1>2 DEF Streamed

LEMMA ScanStreams ==
  ASSUME CoreInv, NEW s \in scans, ScanStep(s)
  PROVE  StreamedTxs' \subseteq StreamedTxs
<1>1. s \in ScanRec
  BY DEF CoreInv, TypeOK, ScanTypes
<1>2. streamQ' = streamQ
  BY DEF ScanStep, ScanOutputs, ScanInputs, MarkUtxo, RecordUtxos, ScanSpends, RecordSpends, ScanNotes,
         InScan, Scanning
<1>3. Done(s) \/ \E r : Goto(s, r) /\ r.by = s.by /\ r.tx = s.tx
  <2>1. \A step, marks :
          /\ [s EXCEPT !.step = step].by = s.by /\ [s EXCEPT !.step = step].tx = s.tx
          /\ [s EXCEPT !.toMark = marks].by = s.by /\ [s EXCEPT !.toMark = marks].tx = s.tx
    BY <1>1 DEF ScanRec
  <2>2. CASE ScanOutputs(s) \/ RecordUtxos(s)
    <3>1. Done(s) \/ \E step : Goto(s, [s EXCEPT !.step = step])
      BY <2>2 DEF ScanOutputs, RecordUtxos
    <3> QED BY <2>1, <3>1
  <2>3. CASE ScanInputs(s)
    <3>1. \/ Done(s)
          \/ \E step : Goto(s, [s EXCEPT !.step = step])
          \/ \E step, marks : Goto(s, [s EXCEPT !.step = step, !.utxos = marks, !.toMark = marks])
      BY <2>3 DEF ScanInputs
    <3>2. ASSUME NEW step, NEW marks, Goto(s, [s EXCEPT !.step = step, !.utxos = marks, !.toMark = marks])
          PROVE  \E r : Goto(s, r) /\ r.by = s.by /\ r.tx = s.tx
      <4> DEFINE r == [s EXCEPT !.step = step, !.utxos = marks, !.toMark = marks]
      <4>1. Goto(s, r) /\ r.by = s.by /\ r.tx = s.tx
        BY <1>1, <3>2 DEF ScanRec
      <4> HIDE DEF r
      <4> QED BY <4>1
    <3> QED BY <2>1, <3>1, <3>2
  <2>4. CASE MarkUtxo(s) \/ RecordSpends(s)
    <3>1. \E marks : Goto(s, [s EXCEPT !.toMark = marks])
      BY <2>4 DEF MarkUtxo, RecordSpends
    <3> QED BY <2>1, <3>1
  <2>5. CASE ScanSpends(s) \/ ScanNotes(s)
    <3>1. Done(s) \/ \E step, marks : Goto(s, [s EXCEPT !.step = step, !.toMark = marks])
      BY <2>5 DEF ScanSpends, ScanNotes
    <3>2. ASSUME NEW step, NEW marks, Goto(s, [s EXCEPT !.step = step, !.toMark = marks])
          PROVE  \E r : Goto(s, r) /\ r.by = s.by /\ r.tx = s.tx
      <4> DEFINE r == [s EXCEPT !.step = step, !.toMark = marks]
      <4>1. Goto(s, r) /\ r.by = s.by /\ r.tx = s.tx
        BY <1>1, <3>2 DEF ScanRec
      <4> HIDE DEF r
      <4> QED BY <4>1
    <3> QED BY <3>1, <3>2
  <2> QED BY <2>2, <2>3, <2>4, <2>5 DEF ScanStep
<1>4. \A r \in scans' : r.by = "mempool" => \E q \in scans : q.by = "mempool" /\ q.tx = r.tx
  <2>1. CASE Done(s)
    BY <2>1 DEF Done
  <2>2. ASSUME NEW r, Goto(s, r), r.by = s.by, r.tx = s.tx
        PROVE  \A q \in scans' : q.by = "mempool" => \E x \in scans : x.by = "mempool" /\ x.tx = q.tx
    BY <2>2 DEF Goto
  <2> QED BY <1>3, <2>1, <2>2
<1> QED BY <1>2, <1>4, StreamedShrinks

LEMMA MonitorNext ==
  ASSUME InTime, CoreInv, ChainInv, MonitorInv, [Next]_vars
  PROVE  MonitorInv'
<1> SUFFICES ASSUME Monitor, MaxReorgs = 0, ~LateMempool, CalmInv, StreamedTxs \subseteq mempool
             PROVE  CalmInv' /\ StreamedTxs' \subseteq mempool'
  BY DEF InTime, MonitorInv
<1>1. CalmInv'
  BY CalmNext
<1>2. ASSUME UNCHANGED <<scans, streamQ>> PROVE StreamedTxs' = StreamedTxs
  BY <1>2 DEF StreamedTxs, Streamed
<1>3. ASSUME NEW S, Mine(S) PROVE StreamedTxs' \subseteq mempool'
  BY <1>2, <1>3 DEF Mine
<1>4. \A k \in 1..Len(chain), back \in SUBSET Txs : ~Reorg(k, back)
  BY DEF Reorg, CoreInv, TypeOK, ServerTypes
<1>5. ASSUME NEW t, Arrive(t) PROVE StreamedTxs' \subseteq mempool'
  BY <1>2, <1>5 DEF Arrive
<1>6. ASSUME NEW t \in Txs, Stream(t) PROVE StreamedTxs' \subseteq mempool'
  <2> DEFINE e == [tx |-> t, height |-> Len(chain)]
  <2>1. /\ streamQ' = Append(streamQ, e) /\ scans' = scans /\ mempool' = mempool /\ t \in mempool
        /\ streamQ \in Seq([tx : Txs, height : Nat])
    BY <1>6 DEF Stream, serverVars, CoreInv, TypeOK, ScanTypes
  <2>2. e.tx = t
    OBVIOUS
  <2> HIDE DEF e
  <2>3. \A i \in 1..Len(streamQ') : streamQ'[i] = e \/ \E j \in 1..Len(streamQ) : streamQ'[i] = streamQ[j]
    BY <2>1
  <2> SUFFICES ASSUME NEW r \in Streamed' PROVE r.tx \in mempool
    BY <2>1 DEF StreamedTxs
  <2>4. CASE \E i \in 1..Len(streamQ') : r = streamQ'[i]
    BY <2>1, <2>2, <2>3, <2>4, StreamedAre
  <2>5. CASE \E s \in scans : s.by = "mempool" /\ r = [tx |-> s.tx, height |-> s.height]
    BY <2>5, StreamedAre
  <2> QED BY <2>1, <2>4, <2>5 DEF Streamed
<1>7. ASSUME Sync PROVE StreamedTxs' \subseteq mempool'
  <2>1. UNCHANGED <<mempool, streamQ>>
    BY <1>7 DEF Sync, StartSync, InvalidateBlock, BlocksDone, ReadOldNotes, OrchardPass, FinishSync, Detect,
         LookUpSpent, LookUpUnspent, RecordSpend, ScanTaddr, ScanFull, serverVars
  <2>2. \A s \in scans' : s \in scans \/ s.by # "mempool"
    <3>1. CASE \E t \in taddrQ : ScanTaddr(t)
      BY <3>1 DEF ScanTaddr, NewScan
    <3>2. CASE \E t \in fullQ : ScanFull(t)
      BY <3>2 DEF ScanFull, NewScan
    <3>3. (\E t \in taddrQ : ScanTaddr(t)) \/ (\E t \in fullQ : ScanFull(t)) \/ scans' = scans
      BY <1>7 DEF Sync, StartSync, InvalidateBlock, BlocksDone, ReadOldNotes, OrchardPass, FinishSync,
           Detect, LookUpSpent, LookUpUnspent, RecordSpend
    <3> QED BY <3>1, <3>2, <3>3
  <2> QED BY <2>1, <2>2, StreamedShrinks
<1>8. ASSUME ScanStreamed PROVE StreamedTxs' \subseteq mempool'
  <2>1. /\ streamQ # <<>> /\ streamQ' = Tail(streamQ) /\ mempool' = mempool
        /\ scans' = scans \cup {NewScan("mempool", Head(streamQ).tx, Head(streamQ).height, TRUE)}
        /\ streamQ \in Seq([tx : Txs, height : Nat])
    BY <1>8 DEF ScanStreamed, serverVars, CoreInv, TypeOK, ScanTypes
  <2>2. /\ Head(streamQ) = streamQ[1] /\ 1 \in 1..Len(streamQ)
        /\ \A i \in 1..Len(streamQ') : i + 1 \in 1..Len(streamQ) /\ streamQ'[i] = streamQ[i + 1]
    BY <2>1
  <2> SUFFICES ASSUME NEW r \in Streamed' PROVE r.tx \in mempool
    BY <2>1 DEF StreamedTxs
  <2>4. CASE \E i \in 1..Len(streamQ') : r = streamQ'[i]
    BY <2>2, <2>4, StreamedAre
  <2>5. CASE \E s \in scans' : s.by = "mempool" /\ r = [tx |-> s.tx, height |-> s.height]
    <3>1. PICK s \in scans' : s.by = "mempool" /\ r = [tx |-> s.tx, height |-> s.height]
      BY <2>5
    <3>2. s \in scans \/ s.tx = streamQ[1].tx
      BY <2>1, <2>2 DEF NewScan
    <3> QED BY <2>2, <3>1, <3>2, StreamedAre
  <2> QED BY <2>4, <2>5 DEF Streamed
<1>9. ASSUME Scan PROVE StreamedTxs' \subseteq mempool'
  <2>1. ASSUME NEW s \in scans, ScanStep(s) PROVE StreamedTxs' \subseteq mempool'
    <3>1. mempool' = mempool
      BY <2>1 DEF ScanStep, ScanOutputs, ScanInputs, MarkUtxo, RecordUtxos, ScanSpends, RecordSpends,
                  ScanNotes, InScan, Scanning, serverVars
    <3> QED BY <2>1, <3>1, ScanStreams
  <2> QED BY <1>8, <1>9, <2>1 DEF Scan
<1>10. ASSUME User PROVE StreamedTxs' \subseteq mempool'
  <2>1. ASSUME NEW t, Broadcast(t) PROVE StreamedTxs' \subseteq mempool'
    BY <1>2, <2>1 DEF Broadcast
  <2>2. CASE MarkSelected
    <3>1. UNCHANGED <<mempool, streamQ>> /\ \A s \in scans' : s \in scans \/ s.by = "send"
      BY <2>2 DEF MarkSelected, NewScan, serverVars
    <3> QED BY <3>1, StreamedShrinks
  <2>3. CASE Save
    BY <1>2, <2>3 DEF Save, serverVars
  <2>4. CASE Restart
    BY <2>4 DEF Restart, StreamedTxs, Streamed
  <2> QED BY <1>10, <2>1, <2>2, <2>3, <2>4 DEF User
<1>11. CASE UNCHANGED vars
  BY <1>1, <1>2, <1>11 DEF vars, serverVars
<1> QED BY <1>1, <1>3, <1>4, <1>5, <1>6, <1>7, <1>9, <1>10, <1>11 DEF Next, Server

-----------------------------------------------------------------------------
(* What the operations of a wallet do to it, all but the removals            *)

(* At most transaction t is added, or gets another height or status. *)
HeadsFrom(w, g, t, h, u) ==
  /\ \A x \in DOMAIN w :
       /\ x \in DOMAIN g
       /\ \/ g[x].block = w[x].block /\ g[x].unconfirmed = w[x].unconfirmed
          \/ x = t /\ g[x].unconfirmed = u /\ g[x].block = h
  /\ \A x \in DOMAIN g : x \in DOMAIN w \/ (x = t /\ g[x].unconfirmed = u /\ g[x].block = h)

(* The spend and the witness of a note are what they were. *)
SameSpend(d, e) == e.spent = d.spent /\ e.at = d.at
SameUse(d, e)   == SameSpend(d, e) /\ e.keyed = d.keyed /\ e.witness = d.witness

(* At most the notes M change their spend or their witness; new ones are     *)
(* unspent, and Sapling notes among them have no nullifier.                  *)
NotesFrom(w, g, M) ==
  \A n \in Note :
    /\ Known(w, n) => Known(g, n)
    /\ Known(g, n) /\ n \notin M =>
         IF Known(w, n) THEN SameUse(NoteOf(w, n), NoteOf(g, n))
         ELSE NoteOf(g, n).spent = NoTx /\ (n[2] = "s" => ~NoteOf(g, n).keyed)

Ledger(w, g, t, h, u, M) == IsWallet(g) /\ HeadsFrom(w, g, t, h, u) /\ NotesFrom(w, g, M)

LEMMA SameLedger ==
  ASSUME NEW w, IsWallet(w), NEW t, NEW h, NEW u
  PROVE  Ledger(w, w, t, h, u, {})
BY DEF Ledger, HeadsFrom, NotesFrom, SameUse, SameSpend

LEMMA MappedLedger ==
  ASSUME NEW w, IsWallet(w), NEW g, Mapped(w, g), DOMAIN g = DOMAIN w,
         \A n \in Note : Known(g, n) => SameUse(NoteOf(w, n), NoteOf(g, n)),
         NEW t, NEW h, NEW u
  PROVE  Ledger(w, g, t, h, u, {})
<1>1. HeadsFrom(w, g, t, h, u)
  BY DEF HeadsFrom, Mapped, SameHead
<1>2. NotesFrom(w, g, {})
  <2>1. \A n \in Note : Known(w, n) => n[1] \in DOMAIN w
    BY DEF Known
  <2> QED BY <2>1 DEF NotesFrom, Mapped
<1> QED BY <1>1, <1>2 DEF Ledger, Mapped

LEMMA PlacedLedger ==
  ASSUME NEW w, IsWallet(w), NEW new, NEW t, NEW h, NEW u
  PROVE  Ledger(w, Placed(w, new), t, h, u, {})
<1> DEFINE g == Placed(w, new)
<1>1. /\ Mapped(w, g) /\ DOMAIN g = DOMAIN w
      /\ \A n \in Note : Known(g, n) => NoteOf(g, n) = PlacedNote(n, NoteOf(w, n), new)
  BY PlacedIs
<1> HIDE DEF g
<1>2. ASSUME NEW n \in Note, Known(g, n) PROVE SameUse(NoteOf(w, n), NoteOf(g, n))
  <2>1. NoteOf(w, n) \in NoteRec
    BY <1>1, <1>2, NoteOfType DEF Mapped
  <2> QED BY <1>1, <1>2, <2>1, PlacedNoteIs DEF SameUse, SameSpend
<1>3. Ledger(w, g, t, h, u, {})
  BY <1>1, <1>2, MappedLedger
<1> QED BY <1>3 DEF g

LEMMA ReservedLedger ==
  ASSUME NEW w, IsWallet(w), NEW ns, NEW y \in Txs, NEW t, NEW h, NEW u
  PROVE  Ledger(w, Reserved(w, ns, y), t, h, u, {})
<1> DEFINE g == Reserved(w, ns, y)
<1>1. /\ Mapped(w, g) /\ DOMAIN g = DOMAIN w
      /\ \A n \in Note : Known(g, n) => NoteOf(g, n) = ReservedNote(n, NoteOf(w, n), ns, y)
  BY ReservedIs
<1> HIDE DEF g
<1>2. ASSUME NEW n \in Note, Known(g, n) PROVE SameUse(NoteOf(w, n), NoteOf(g, n))
  <2>1. NoteOf(w, n) \in NoteRec
    BY <1>1, <1>2, NoteOfType DEF Mapped
  <2> QED BY <1>1, <1>2, <2>1, ReservedNoteIs DEF SameUse, SameSpend
<1>3. Ledger(w, g, t, h, u, {})
  BY <1>1, <1>2, MappedLedger
<1> QED BY <1>3 DEF g

(* One known note is replaced. *)
LEMMA ReplacedLedger ==
  ASSUME NEW w, NEW g, IsWallet(g), NEW n \in Note, NEW d, Replaced(w, g, n, d),
         NEW t, NEW h, NEW u
  PROVE  Ledger(w, g, t, h, u, {n})
<1>1. HeadsFrom(w, g, t, h, u)
  BY DEF HeadsFrom, Replaced, SameHead
<1>2. NotesFrom(w, g, {n})
  BY DEF NotesFrom, Replaced, SameUse, SameSpend
<1> QED BY <1>1, <1>2 DEF Ledger

LEMMA GotHeads ==
  ASSUME NEW w, NEW g, NEW t, NEW h, NEW u, GotTx(w, g, t, h, u)
  PROVE  HeadsFrom(w, g, t, h, u)
BY DEF GotTx, HeadsFrom

LEMMA TaddrOutputLedger ==
  ASSUME NEW w, IsWallet(w), NEW t \in Txs, NEW h \in Nat, NEW u \in BOOLEAN
  PROVE  Ledger(w, AddNewTaddrOutput(w, t, h, u), t, h, u, {})
<1> DEFINE g == AddNewTaddrOutput(w, t, h, u)
           v == GetOrCreateTx(w, t, h, u)
           d == NewNote(TRUE, NoWitness, FALSE)
           n == <<t, "t">>
<1>1. /\ IsWallet(g) /\ DOMAIN g = DOMAIN w \cup {t}
      /\ \A x \in DOMAIN g : SameHead(v, g, x)
      /\ Added(w, g, n, d)
  BY AddNewTaddrOutputIs
<1>2. GotTx(w, v, t, h, u)
  BY GetOrCreateIs
<1>3. HeadsFrom(w, v, t, h, u) /\ DOMAIN v = DOMAIN g
  BY <1>1, <1>2, GotHeads DEF GotTx
<1>4. d.spent = NoTx /\ n[2] = "t"
  BY NewNoteIs, WitnessTypes
<1> HIDE DEF g, v, d, n
<1>5. HeadsFrom(w, g, t, h, u)
  BY <1>1, <1>3 DEF HeadsFrom, SameHead
<1>6. NotesFrom(w, g, {})
  BY <1>1, <1>4 DEF NotesFrom, Added, SameUse, SameSpend
<1> QED BY <1>1, <1>5, <1>6 DEF Ledger, g

LEMMA TaddrSpentLedger ==
  ASSUME NEW w, IsWallet(w), NEW t \in Txs, NEW h \in Nat, NEW u \in BOOLEAN, NEW utxos \in SUBSET Note
  PROVE  Ledger(w, AddTaddrSpent(w, t, h, u, utxos), t, h, u, {})
<1> DEFINE g == AddTaddrSpent(w, t, h, u, utxos)
           v == GetOrCreateTx(w, t, h, u)
<1>1. UtxosAdded(w, g, t, h, u, utxos)
  BY AddTaddrSpentIs
<1>2. GotTx(w, v, t, h, u)
  BY GetOrCreateIs
<1> HIDE DEF g
<1>3. HeadsFrom(w, g, t, h, u)
  BY <1>1, <1>2 DEF UtxosAdded, HeadsFrom, SameHead, GotTx
<1>4. NotesFrom(w, g, {})
  <2>1. ChangedNotes(w, g, t)
    BY <1>1 DEF UtxosAdded
  <2>2. ASSUME NEW n \in Note, Known(w, n) PROVE SameUse(NoteOf(w, n), NoteOf(g, n))
    <3> DEFINE d == IF n[1] = t THEN MadeChange(n[2], NoteOf(w, n)) ELSE NoteOf(w, n)
    <3>1. NoteOf(w, n) \in NoteRec
      BY <2>2, NoteOfType
    <3>2. SameButChange(d, NoteOf(w, n))
      BY <3>1, ChangeWithinIs
    <3>3. NoteOf(g, n) = d \/ NoteOf(g, n) = NoteOf(w, n)
      BY <2>1, <2>2 DEF ChangedNotes
    <3> HIDE DEF d
    <3> QED BY <3>2, <3>3 DEF SameUse, SameSpend, SameButChange
  <2> QED BY <2>1, <2>2 DEF ChangedNotes, NotesFrom
<1>5. IsWallet(g)
  BY <1>1 DEF UtxosAdded
<1> QED BY <1>3, <1>4, <1>5 DEF Ledger, g

(* add_new_s_spent, add_new_o_spent mark the note only of a mined spend. *)
LEMMA NewSpentLedger ==
  ASSUME NEW w, IsWallet(w), NEW t \in Txs, NEW h \in Nat, NEW u \in BOOLEAN, NEW n \in Note
  PROVE  LET g == AddNewSpent(w, t, h, u, n)
         IN  /\ Ledger(w, g, t, h, u, IF u THEN {} ELSE {n})
             /\ t \in DOMAIN g /\ g[t].block = h /\ g[t].unconfirmed = u
             /\ Known(g, n) => Known(w, n)
             /\ ~u /\ Known(w, n) =>
                  /\ NoteOf(g, n).spent = t /\ NoteOf(g, n).at = h
                  /\ NoteOf(g, n).keyed = NoteOf(w, n).keyed /\ NoteOf(g, n).witness = NoteOf(w, n).witness
<1> DEFINE g == AddNewSpent(w, t, h, u, n)
<1>1. SpentAdded(w, g, t, h, u, n)
  BY AddNewSpentIs
<1> HIDE DEF g
<1>2. /\ IsWallet(g) /\ t \in DOMAIN g /\ g[t].block = h /\ g[t].unconfirmed = u
      /\ Known(g, n) => Known(w, n)
  BY <1>1 DEF SpentAdded
<1>3. HeadsFrom(w, g, t, h, u)
  BY <1>1 DEF SpentAdded, HeadsFrom, SameHead
<1>4. ASSUME NEW m \in Note, Known(w, m)
      PROVE  /\ NoteOf(g, m).keyed = NoteOf(w, m).keyed /\ NoteOf(g, m).witness = NoteOf(w, m).witness
             /\ IF ~u /\ m = n THEN NoteOf(g, m).spent = t /\ NoteOf(g, m).at = h
                ELSE SameSpend(NoteOf(w, m), NoteOf(g, m))
  <2> DEFINE d == IF m[1] = t THEN MadeChange(m[2], NoteOf(w, m)) ELSE NoteOf(w, m)
  <2>1. NoteOf(g, m) = IF ~u /\ m = n THEN [d EXCEPT !.spent = t, !.at = h] ELSE d
    BY <1>1, <1>4 DEF SpentAdded
  <2>2. NoteOf(w, m) \in NoteRec
    BY <1>4, NoteOfType
  <2>3. d \in NoteRec /\ SameButChange(d, NoteOf(w, m))
    BY <2>2, ChangeWithinIs
  <2> HIDE DEF d
  <2>4. CASE ~u /\ m = n
    BY <2>1, <2>3, <2>4 DEF SameButChange, NoteRec
  <2>5. CASE ~(~u /\ m = n)
    BY <2>1, <2>3, <2>5 DEF SameButChange, SameSpend
  <2> QED BY <2>4, <2>5
<1>5. NotesFrom(w, g, IF u THEN {} ELSE {n})
  <2>1. \A m \in Note : Known(g, m) <=> Known(w, m)
    BY <1>1 DEF SpentAdded
  <2> QED BY <1>4, <2>1 DEF NotesFrom, SameUse
<1> QED BY <1>2, <1>3, <1>4, <1>5 DEF Ledger, g

LEMMA HeadSetHeads ==
  ASSUME NEW w, NEW g, NEW t, NEW h, NEW u, HeadSet(w, g, t, h, u)
  PROVE  HeadsFrom(w, g, t, h, u)
BY DEF HeadSet, HeadsFrom, SameHead

LEMMA PendingNoteLedger ==
  ASSUME NEW w, IsWallet(w), NEW t \in Txs, NEW h \in Nat, NEW u, u = TRUE
  PROVE  Ledger(w, AddPendingNote(w, t, h), t, h, u, {})
<1> DEFINE g == AddPendingNote(w, t, h)
           d == NewNote(FALSE, NoWitness, FundsSpentIn(w, t) # {})
           n == <<t, "s">>
<1>0. HeadSet(w, g, t, h, TRUE) /\ Added(w, g, n, d)
  BY AddPendingNoteIs
<1>2. d.spent = NoTx /\ ~d.keyed
  BY NewNoteIs, WitnessTypes
<1> HIDE DEF g, d, n
<1>1. HeadSet(w, g, t, h, u) /\ Added(w, g, n, d)
  BY <1>0 DEF HeadSet
<1>3. NotesFrom(w, g, {})
  BY <1>1, <1>2 DEF NotesFrom, Added, SameUse, SameSpend
<1>4. IsWallet(g)
  BY <1>1 DEF HeadSet
<1> QED BY <1>1, <1>3, <1>4, HeadSetHeads DEF Ledger, g

LEMMA OrchardNoteLedger ==
  ASSUME NEW w, IsWallet(w), NEW t \in Txs, NEW h \in Nat
  PROVE  Ledger(w, AddNewOrchardNote(w, t, h), t, h, FALSE, {})
<1> DEFINE g == AddNewOrchardNote(w, t, h)
           d == NewNote(TRUE, NoWitness, FundsSpentIn(w, t) # {})
           n == <<t, "o">>
<1>1. HeadSet(w, g, t, h, FALSE) /\ Added(w, g, n, d)
  BY AddNewOrchardNoteIs
<1>2. d.spent = NoTx /\ n[2] = "o"
  BY NewNoteIs, WitnessTypes
<1> HIDE DEF g, d, n
<1>3. NotesFrom(w, g, {})
  BY <1>1, <1>2 DEF NotesFrom, Added, SameUse, SameSpend
<1>4. IsWallet(g)
  BY <1>1 DEF HeadSet
<1> QED BY <1>1, <1>3, <1>4, HeadSetHeads DEF Ledger, g

LEMMA SaplingNoteLedger ==
  ASSUME NEW w, IsWallet(w), NEW t \in Txs, NEW h \in Nat
  PROVE  LET g == AddNewSaplingNote(w, t, h)
             n == <<t, "s">>
         IN  /\ Ledger(w, g, t, h, FALSE, {n})
             /\ t \in DOMAIN g /\ g[t].block = h /\ ~g[t].unconfirmed
             /\ Known(g, n) /\ NoteOf(g, n).keyed /\ NoteOf(g, n).witness = FirstWitness(h)
             /\ \/ NoteOf(g, n).spent = NoTx
                \/ Known(w, n) /\ SameSpend(NoteOf(w, n), NoteOf(g, n))
<1>0. \A x \in Txs, e \in Nat :
        LET new == AddNewSaplingNote(w, x, e)
            k == <<x, "s">>
        IN  /\ HeadSet(w, new, x, e, FALSE)
            /\ FoundNote(w, k, e) \in NoteRec
            /\ \A m \in Note :
                 /\ Known(new, m) <=> Known(w, m) \/ m = k
                 /\ m = k => NoteOf(new, m) = FoundNote(w, k, e)
                 /\ m # k /\ Known(w, m) => NoteOf(new, m) = NoteOf(w, m)
  BY AddNewSaplingNoteIs
<1> DEFINE g == AddNewSaplingNote(w, t, h)
           n == <<t, "s">>
           d == FoundNote(w, n, h)
<1>1. /\ HeadSet(w, g, t, h, FALSE)
      /\ d \in NoteRec
      /\ \A m \in Note :
           /\ Known(g, m) <=> Known(w, m) \/ m = n
           /\ m = n => NoteOf(g, m) = d
           /\ m # n /\ Known(w, m) => NoteOf(g, m) = NoteOf(w, m)
  BY <1>0
<1>2. n \in Note
  BY NoteOfPool DEF Pools
<1>3. /\ d.keyed /\ d.witness = FirstWitness(h)
      /\ d.spent = NoTx \/ (Known(w, n) /\ SameSpend(NoteOf(w, n), d))
  BY <1>2, FoundNoteIs DEF SameSpend
<1> HIDE DEF g, d, n
<1>4. NotesFrom(w, g, {n})
  BY <1>1 DEF NotesFrom, SameUse, SameSpend
<1>5. IsWallet(g) /\ t \in DOMAIN g /\ g[t].block = h /\ ~g[t].unconfirmed
  BY <1>1 DEF HeadSet
<1>6. Ledger(w, g, t, h, FALSE, {n})
  BY <1>1, <1>4, <1>5, HeadSetHeads DEF Ledger
<1>7. Known(g, n) /\ NoteOf(g, n) = d
  BY <1>1, <1>2
<1> QED BY <1>3, <1>5, <1>6, <1>7 DEF g, n

-----------------------------------------------------------------------------
(* ... and what stays true of it                                             *)

(* What is mined stays so, at its height. *)
Kept(w, g) == \A x \in Txs : Confirmed(w, x) => Confirmed(g, x) /\ g[x].block = w[x].block

(* The transaction that is touched is mined there in bs, or not mined yet. *)
Fits(bs, l, t, h, u) == IF u THEN t \notin Mined(bs) ELSE t \in Mined(bs) /\ h = HeightIn(bs, t) /\ h <= l

LEMMA HeadsKept ==
  ASSUME NEW w, IsWallet(w), NEW g, IsWallet(g), NEW t, NEW h, NEW u \in BOOLEAN, HeadsFrom(w, g, t, h, u),
         NEW bs, NEW l, ConfirmedIn(w, bs, l), Fits(bs, l, t, h, u)
  PROVE  Kept(w, g) /\ ConfirmedIn(g, bs, l)
<1>1. ASSUME NEW x \in Txs, Confirmed(w, x)
      PROVE  Confirmed(g, x) /\ g[x].block = w[x].block
  <2>1. x \in Mined(bs) /\ w[x].block = HeightIn(bs, x) /\ x \in DOMAIN w /\ ~w[x].unconfirmed
    BY <1>1 DEF ConfirmedIn, Confirmed
  <2>2. x = t => ~u /\ h = HeightIn(bs, t)
    BY <2>1 DEF Fits
  <2> QED BY <2>1, <2>2 DEF HeadsFrom, Confirmed
<1>2. ASSUME NEW x \in Txs, Confirmed(g, x)
      PROVE  x \in Mined(bs) /\ g[x].block = HeightIn(bs, x) /\ g[x].block <= l
  <2>1. CASE Confirmed(w, x)
    BY <1>1, <2>1 DEF ConfirmedIn
  <2>2. CASE ~Confirmed(w, x)
    <3>1. x = t /\ g[x].unconfirmed = u /\ g[x].block = h
      BY <1>2, <2>2 DEF HeadsFrom, Confirmed
    <3>2. ~u
      BY <1>2, <3>1 DEF Confirmed
    <3> QED BY <3>1, <3>2 DEF Fits
  <2> QED BY <2>1, <2>2
<1> QED BY <1>1, <1>2 DEF Kept, ConfirmedIn

LEMMA SpenderIs ==
  ASSUME NEW w, IsWallet(w), NEW n \in Note, Known(w, n), NoteOf(w, n).spent # NoTx
  PROVE  NoteOf(w, n).spent \in Txs
BY NoteOfType DEF NoteRec

(* A note marked as before is still marked rightly. *)
LEMMA SpendCarries ==
  ASSUME NEW w, IsWallet(w), NEW g, Kept(w, g), NEW bs, NEW F, NEW G, NEW n \in Note,
         Known(w, n), SpentOK(w, F, bs, n), SameSpend(NoteOf(w, n), NoteOf(g, n)),
         \A f \in F : f \in G \/ f.note # n
  PROVE  SpentOK(g, G, bs, n)
<1> DEFINE d == NoteOf(w, n)
           e == NoteOf(g, n)
<1>1. e.spent = d.spent /\ e.at = d.at
  BY DEF SameSpend
<1>2. SUFFICES ASSUME d.spent # NoTx
               PROVE  /\ n \in Spends[e.spent]
                      /\ n[2] = "s" => Settled(g, e) \/ Unrecorded(G, bs, n, e)
  BY <1>1 DEF SpentOK
<1>3. d.spent \in Txs
  BY <1>2, SpenderIs
<1>4. /\ n \in Spends[d.spent]
      /\ n[2] = "s" => Settled(w, d) \/ Unrecorded(F, bs, n, d)
  BY <1>2 DEF SpentOK
<1> HIDE DEF d, e
<1>5. Settled(w, d) => Settled(g, e)
  BY <1>1, <1>3 DEF Settled, Kept
<1>6. Unrecorded(F, bs, n, d) => Unrecorded(G, bs, n, e)
  BY <1>1 DEF Unrecorded
<1> QED BY <1>1, <1>4, <1>5, <1>6

LEMMA ReachCarries ==
  ASSUME NEW w, NEW g, Kept(w, g), NEW n \in Note, Confirmed(w, n[1]), NEW l,
         NoteOf(g, n).witness = NoteOf(w, n).witness, NoteReaches(w, n, l)
  PROVE  NoteReaches(g, n, l) /\ Confirmed(g, n[1])
<1>1. n[1] \in Txs
  BY NoteParts
<1>2. Confirmed(g, n[1]) /\ g[n[1]].block = w[n[1]].block
  BY <1>1 DEF Kept
<1> QED BY <1>2 DEF NoteReaches

LEMMA WitnessCarries ==
  ASSUME NEW w, NEW g, Kept(w, g), NEW n \in Note, NEW l, WitnessOK(w, l, n),
         SameUse(NoteOf(w, n), NoteOf(g, n))
  PROVE  WitnessOK(g, l, n)
<1>1. SUFFICES ASSUME n[2] = "s", NoteOf(w, n).keyed
               PROVE  WitnessOK(g, l, n)
  BY DEF WitnessOK, SameUse
<1>2. Confirmed(w, n[1]) /\ (NoteReaches(w, n, l) \/ (NoteOf(w, n).spent # NoTx /\ NoteOf(w, n).at < l - MaxReorg))
  BY <1>1 DEF WitnessOK
<1>3. Confirmed(g, n[1])
  BY <1>2, NoteParts DEF Kept
<1>4. NoteReaches(w, n, l) => NoteReaches(g, n, l)
  BY <1>2, ReachCarries DEF SameUse
<1> QED BY <1>2, <1>3, <1>4 DEF WitnessOK, SameUse, SameSpend

LEMMA SoundStep ==
  ASSUME NEW w, IsWallet(w), NEW g, NEW t, NEW h, NEW u \in BOOLEAN, NEW M, Ledger(w, g, t, h, u, M),
         NEW bs, NEW l, NEW F, Sound(w, bs, l, F), Fits(bs, l, t, h, u),
         NEW G, \A f \in F : f \in G \/ f.note \in M,
         \A n \in Note : Known(g, n) /\ n \in M => SpentOK(g, G, bs, n) /\ (Shallow => WitnessOK(g, Len(bs), n))
  PROVE  Sound(g, bs, l, G)
<1>1. Kept(w, g) /\ ConfirmedIn(g, bs, l)
  BY HeadsKept DEF Sound, Ledger
<1>2. ASSUME NEW n \in Note, Known(g, n), n \notin M
      PROVE  IF Known(w, n) THEN SameUse(NoteOf(w, n), NoteOf(g, n))
             ELSE NoteOf(g, n).spent = NoTx /\ (n[2] = "s" => ~NoteOf(g, n).keyed)
  BY <1>2 DEF Ledger, NotesFrom
<1>3. SpentIn(g, G, bs)
  <2> SUFFICES ASSUME NEW n \in Note, Known(g, n)
               PROVE  SpentOK(g, G, bs, n)
    BY DEF SpentIn
  <2>1. CASE n \in M
    BY <2>1
  <2>2. CASE n \notin M /\ ~Known(w, n)
    BY <1>2, <2>2 DEF SpentOK
  <2>3. CASE n \notin M /\ Known(w, n)
    <3>1. SameSpend(NoteOf(w, n), NoteOf(g, n)) /\ SpentOK(w, F, bs, n)
      BY <1>2, <2>3 DEF SameUse, Sound, SpentIn
    <3>2. \A f \in F : f \in G \/ f.note # n
      BY <2>3
    <3> QED BY <1>1, <2>3, <3>1, <3>2, SpendCarries
  <2> QED BY <2>1, <2>2, <2>3
<1>4. ASSUME Shallow PROVE WitnessIn(g, Len(bs))
  <2> SUFFICES ASSUME NEW n \in Note, Known(g, n)
               PROVE  WitnessOK(g, Len(bs), n)
    BY DEF WitnessIn
  <2>1. CASE n \in M
    BY <1>4, <2>1
  <2>2. CASE n \notin M /\ ~Known(w, n)
    BY <1>2, <2>2 DEF WitnessOK
  <2>3. CASE n \notin M /\ Known(w, n)
    <3>1. SameUse(NoteOf(w, n), NoteOf(g, n)) /\ WitnessOK(w, Len(bs), n)
      BY <1>2, <1>4, <2>3 DEF Sound, WitnessIn
    <3> QED BY <1>1, <3>1, WitnessCarries
  <2> QED BY <2>1, <2>2, <2>3
<1> QED BY <1>1, <1>3, <1>4 DEF Sound

-----------------------------------------------------------------------------
(* The steps of a batch *)

LEMMA NewFits ==
  ASSUME CoreInv, NEW t \in NewTxs, NEW u, u = FALSE
  PROVE  /\ Fits(view, Len(view), t, HeightIn(view, t), u)
         /\ t \in Txs /\ HeightIn(view, t) \in Nat /\ HeightIn(view, t) <= Len(view)
<1>1. SyncTypes /\ view \in Seq(Blocks)
  BY DEF CoreInv, TypeOK, SyncTypes
<1>2. t \in Mined(view) /\ t \in Txs
  BY <1>1, NewTxsAre
<1>3. HeightIn(view, t) \in 1..Len(view) /\ HeightIn(view, t) \in Nat
  BY <1>1, <1>2, HeightIs
<1> QED BY <1>1, <1>2, <1>3 DEF Fits

(* Beside the monitor, nobody but the tasks of the batch works then, and     *)
(* nobody scans without a batch or a send.                                   *)
LEMMA WhoScans ==
  ASSUME CoreInv, NEW s \in scans
  PROVE  /\ phase \in Batch => s.by # "send" /\ (s.unconfirmed <=> s.by = "mempool")
         /\ phase \notin Batch => /\ s.unconfirmed
                                 /\ \/ s.by = "mempool"
                                    \/ s.by = "send" /\ phase = "sendscan" /\ s.tx = sending
<1>1. ScanInv
  BY DEF CoreInv
<1>2. s.by = "send" => phase = "sendscan" /\ s.tx = sending
  BY <1>1 DEF ScanInv
<1>3. s.unconfirmed <=> s.by \in {"mempool", "send"}
  BY <1>1 DEF ScanInv
<1>4. phase \notin Batch => s.by \in {"mempool", "send"}
  BY <1>1 DEF ScanInv
<1>5. phase = "sendscan" => phase \notin Batch
  BY DEF Batch
<1> QED BY <1>2, <1>3, <1>4, <1>5

(* What the monitor scans is in no block of the wallet's, nor is another     *)
(* transaction that spends the same.                                         *)
LEMMA ScannedWaits ==
  ASSUME CoreInv, HistInv, NEW s \in scans, s.by = "mempool"
  PROVE  /\ keep = Len(synced) /\ left = Len(synced)
         /\ s.tx \notin Mined(synced) /\ \A y \in Mined(synced) : Spends[s.tx] \cap Spends[y] = {}
         /\ Syncing => s.tx \notin Mined(view) /\ \A y \in Mined(view) : Spends[s.tx] \cap Spends[y] = {}
<1>1. TypeOK /\ Monitor
  BY DEF CoreInv, ScanInv
<1>2. CalmInv /\ s.tx \in mempool
  BY <1>1, StreamedAre DEF HistInv, MonitorInv
<1>3. keep = Len(synced) /\ left = Len(synced)
  BY <1>1, <1>2, GoalIs DEF CalmInv, HistInv, ChainInv
<1>4. Agree(chain, Goal, Len(Goal)) /\ Agree(synced, Goal, Len(synced))
  BY <1>2 DEF CalmInv, HistInv, ChainInv
<1>5. Mined(Goal) \subseteq Mined(chain)
  BY <1>1, <1>4, GoalIs DEF Agree, Mined
<1>6. Mined(synced) \subseteq Mined(Goal)
  BY <1>1, <1>4, GoalIs DEF Agree, Mined
<1>7. s.tx \notin Mined(chain) /\ \A y \in Mined(chain) : Spends[s.tx] \cap Spends[y] = {}
  BY <1>2 DEF HistInv, WaitInv, SpendersIn
<1>8. Syncing => Goal = view
  BY DEF Goal
<1> QED BY <1>3, <1>5, <1>6, <1>7, <1>8

LEMMA CoreWallet ==
  ASSUME CoreInv
  PROVE  IsWallet(txns) /\ IsWallet(saved) /\ GoodWallet(txns) /\ view \in Seq(Blocks) /\ synced \in Seq(Blocks)
BY DEF CoreInv, GoodInv, GoodWallet, TypeOK, SyncTypes, ServerTypes

LEMMA BatchWallet ==
  ASSUME CoreInv, HistInv, phase \in Batch, phase' \in Batch, UNCHANGED <<saved, synced, view>>,
         NEW t, NEW h, NEW u \in BOOLEAN, NEW M, Ledger(txns, txns', t, h, u, M),
         Fits(view, Len(view), t, h, u),
         \A f \in found : f \in found' \/ f.note \in M,
         \A n \in Note : Known(txns', n) /\ n \in M =>
           SpentOK(txns', found', view, n) /\ (Shallow => WitnessOK(txns', Len(view), n))
  PROVE  WalletInv'
<1>1. IsWallet(txns) /\ Sound(txns, view, Len(view), found) /\ Sound(saved, synced, Len(synced), {})
  BY CoreWallet DEF HistInv, WalletInv
<1>2. Sound(txns', view, Len(view), found')
  BY <1>1, SoundStep
<1>3. phase' \notin {"send", "sendscan"}
  BY DEF Batch
<1> QED BY <1>1, <1>2, <1>3 DEF WalletInv

(* A batch's note that waits is mined. *)
LEMMA WaitingIs ==
  ASSUME CoreInv, HistInv, phase \in Batch, Shallow, NEW n \in Waiting, n[2] = "s"
  PROVE  /\ n \in Note /\ Known(txns, n) /\ NoteOf(txns, n).keyed
         /\ NoteReaches(txns, n, Len(view)) /\ Confirmed(txns, n[1])
<1>1. n \in Note
  BY DEF CoreInv, TypeOK, SyncTypes, Waiting
<1>2. Known(txns, n) /\ NoteOf(txns, n).keyed /\ NoteReaches(txns, n, Len(view))
  BY DEF HistInv, NoteWork
<1>3. WitnessOK(txns, Len(view), n)
  BY <1>1, <1>2 DEF HistInv, WalletInv, Sound, WitnessIn
<1> QED BY <1>1, <1>2, <1>3 DEF WitnessOK

LEMMA BatchNotes ==
  ASSUME CoreInv, HistInv, phase \in Batch, UNCHANGED <<view, keep>>,
         NEW t, NEW h, NEW u \in BOOLEAN, NEW M, Ledger(txns, txns', t, h, u, M),
         Fits(view, Len(view), t, h, u),
         \A f \in found' : f \in found \/ f.note \in Spends[f.spender],
         \A v \in upd' : v \in upd \/ (v.note[2] = "s" /\ v.note[1] \in NewTxs => v.at = HeightIn(view, v.note[1])),
         Shallow => \A n \in Waiting' : n[2] = "s" /\ (n \notin Waiting \/ n \in M) =>
           Known(txns', n) /\ NoteOf(txns', n).keyed /\ NoteReaches(txns', n, Len(view))
  PROVE  NoteWork'
<1>1. NewTxs' = NewTxs
  BY DEF NewTxs
<1>2. \A f \in found' : f.note \in Spends[f.spender]
  BY DEF HistInv, NoteWork
<1>3. \A v \in upd' : v.note[2] = "s" /\ v.note[1] \in NewTxs => v.at = HeightIn(view, v.note[1])
  BY DEF HistInv, NoteWork
<1>4. ASSUME Shallow, NEW n \in Waiting', n[2] = "s"
      PROVE  Known(txns', n) /\ NoteOf(txns', n).keyed /\ NoteReaches(txns', n, Len(view))
  <2>1. CASE n \notin Waiting \/ n \in M
    BY <1>4, <2>1
  <2>2. CASE n \in Waiting /\ n \notin M
    <3>1. /\ n \in Note /\ Known(txns, n) /\ NoteOf(txns, n).keyed
          /\ NoteReaches(txns, n, Len(view)) /\ Confirmed(txns, n[1])
      BY <1>4, <2>2, WaitingIs
    <3>2. Known(txns', n) /\ SameUse(NoteOf(txns, n), NoteOf(txns', n))
      BY <2>2, <3>1 DEF Ledger, NotesFrom
    <3>3. Kept(txns, txns')
      <4>1. IsWallet(txns) /\ IsWallet(txns') /\ HeadsFrom(txns, txns', t, h, u)
        BY CoreWallet DEF Ledger
      <4>2. ConfirmedIn(txns, view, Len(view))
        BY DEF HistInv, WalletInv, Sound
      <4> QED BY <4>1, <4>2, HeadsKept
    <3> QED BY <3>1, <3>2, <3>3, ReachCarries DEF SameUse
  <2> QED BY <2>1, <2>2
<1> HIDE DEF Waiting
<1> QED BY <1>1, <1>2, <1>3, <1>4 DEF NoteWork

(* The steps that leave the scans alone *)
LEMMA ScansStay ==
  ASSUME ScanWork, UNCHANGED <<scans, view, keep>>, phase' \in Batch => phase \in Batch
  PROVE  ScanWork'
<1>1. NewTxs' = NewTxs
  BY DEF NewTxs
<1> QED BY <1>1 DEF ScanWork

BatchSame == UNCHANGED <<saved, synced, view, keep, scans>>

LEMMA DetectHist ==
  ASSUME CoreInv, HistInv, NEW n \in detect, Detect(n)
  PROVE  WalletInv' /\ ScanWork' /\ NoteWork'
<1> DEFINE t == n[1]
           h == HeightIn(view, t)
           no == FALSE
<1>0. /\ phase \in Batch /\ phase' = phase /\ BatchSame /\ UNCHANGED found
  BY DEF Detect, Batch, BatchSame
<1>1. /\ n \in Note /\ t \in NewTxs /\ n[2] \in {"s", "o"} /\ n = <<t, n[2]>>
  BY NoteParts DEF CoreInv, TypeOK, SyncTypes, QueueInv
<1>b. no = FALSE /\ no \in BOOLEAN
  OBVIOUS
<1> HIDE DEF no
<1>2. Fits(view, Len(view), t, h, no) /\ t \in Txs /\ h \in Nat /\ h <= Len(view)
  BY <1>1, <1>b, NewFits
<1>3. IsWallet(txns) /\ view \in Seq(Blocks)
  BY CoreWallet
<1>4. ScanWork'
  BY <1>0, ScansStay DEF HistInv, BatchSame
<1> HIDE DEF t, h
<1>5. CASE n[2] = "o"
  <2>1. txns' = AddNewOrchardNote(txns, t, h) /\ UNCHANGED upd
    BY <1>5 DEF Detect, t, h
  <2>2. Ledger(txns, txns', t, h, no, {})
    BY <1>2, <1>3, <2>1, OrchardNoteLedger DEF no
  <2>3. WalletInv'
    BY <1>0, <1>b, <1>2, <2>2, BatchWallet DEF BatchSame
  <2>4. Waiting' = Waiting
    BY <1>0, <2>1 DEF Waiting
  <2>5. NoteWork'
    BY <1>0, <1>b, <1>2, <2>1, <2>2, <2>4, BatchNotes DEF BatchSame
  <2> QED BY <1>4, <2>3, <2>5
<1>6. CASE n[2] = "s"
  <2>0. n = <<t, "s">>
    BY <1>1, <1>6
  <2>1. txns' = AddNewSaplingNote(txns, t, h) /\ upd' = upd \cup {[note |-> n, at |-> h]}
    BY <1>6 DEF Detect, t, h
  <2>2. /\ Ledger(txns, txns', t, h, no, {n})
        /\ t \in DOMAIN txns' /\ txns'[t].block = h /\ ~txns'[t].unconfirmed
        /\ Known(txns', n) /\ NoteOf(txns', n).keyed /\ NoteOf(txns', n).witness = FirstWitness(h)
        /\ \/ NoteOf(txns', n).spent = NoTx
           \/ Known(txns, n) /\ SameSpend(NoteOf(txns, n), NoteOf(txns', n))
    <3> DEFINE g == AddNewSaplingNote(txns, t, h)
               m == <<t, "s">>
    <3>1. /\ Ledger(txns, g, t, h, FALSE, {m})
          /\ t \in DOMAIN g /\ g[t].block = h /\ ~g[t].unconfirmed
          /\ Known(g, m) /\ NoteOf(g, m).keyed /\ NoteOf(g, m).witness = FirstWitness(h)
          /\ \/ NoteOf(g, m).spent = NoTx
             \/ Known(txns, m) /\ SameSpend(NoteOf(txns, m), NoteOf(g, m))
      BY <1>2, <1>3, SaplingNoteLedger
    <3>2. g = txns' /\ m = n
      BY <2>0, <2>1
    <3> HIDE DEF g, m
    <3> QED BY <3>1, <3>2 DEF no
  <2>3. n[1] = t
    BY DEF t
  <2>4. NoteReaches(txns', n, Len(view)) /\ Confirmed(txns', n[1])
    BY <1>2, <2>2, <2>3 DEF NoteReaches, Reaches, FirstWitness, Confirmed
  <2>5. SpentOK(txns', found', view, n)
    <3>1. CASE NoteOf(txns', n).spent = NoTx
      BY <3>1 DEF SpentOK
    <3>2. CASE Known(txns, n) /\ SameSpend(NoteOf(txns, n), NoteOf(txns', n))
      <4>1. SpentOK(txns, found, view, n) /\ ConfirmedIn(txns, view, Len(view))
        BY <1>0, <1>1, <3>2 DEF HistInv, WalletInv, Sound, SpentIn
      <4>2. Kept(txns, txns')
        BY <1>b, <1>2, <1>3, <2>2, <4>1, HeadsKept DEF Ledger
      <4> QED BY <1>0, <1>1, <1>3, <3>2, <4>1, <4>2, SpendCarries
    <3> QED BY <2>2, <3>1, <3>2
  <2>6. WitnessOK(txns', Len(view), n)
    BY <2>2, <2>4 DEF WitnessOK
  <2>7. WalletInv'
    BY <1>0, <1>b, <1>2, <2>2, <2>5, <2>6, BatchWallet DEF BatchSame
  <2>8. \A m \in Waiting' : m \in Waiting \/ m = n
    <3>1. upd' = upd \cup {[note |-> n, at |-> h]} /\ found' = found
      BY <1>0, <2>1
    <3> QED BY <3>1 DEF Waiting
  <2>9. \A v \in upd' : v \in upd \/ (v.note[1] = t /\ v.at = h)
    BY <2>1, <2>3
  <2>10. NoteWork'
    <3>1. \A v \in upd' : v \in upd \/ (v.note[2] = "s" /\ v.note[1] \in NewTxs => v.at = HeightIn(view, v.note[1]))
      BY <2>9 DEF h
    <3>2. \A m \in Waiting' : m \notin Waiting \/ m \in {n} => m = n
      BY <2>8
    <3> HIDE DEF Waiting
    <3> QED BY <1>0, <1>b, <1>2, <2>2, <2>4, <3>1, <3>2, BatchNotes DEF BatchSame
  <2> QED BY <1>4, <2>7, <2>10
<1> QED BY <1>1, <1>5, <1>6

(* A step that touches no transaction *)
LEMMA NoneFits ==
  ASSUME NEW bs \in Seq(Blocks), NEW l, NEW h, NEW u, u = TRUE
  PROVE  Fits(bs, l, NoTx, h, u)
<1>1. \A t \in Mined(bs) : t \in Txs
  BY HeightIs
<1> QED BY <1>1, TxAssumption DEF Fits

(* ... and no note's use *)
LEMMA BatchQuiet ==
  ASSUME CoreInv, HistInv, phase \in Batch, phase' \in Batch, BatchSame,
         NEW yes, yes = TRUE, NEW none, none = {}, Ledger(txns, txns', NoTx, 0, yes, none),
         found' = found,
         \A v \in upd' : v \in upd \/ (v.note[2] = "s" /\ v.note[1] \in NewTxs => v.at = HeightIn(view, v.note[1])),
         Shallow => \A n \in Waiting' : n[2] = "s" /\ n \notin Waiting =>
           Known(txns', n) /\ NoteOf(txns', n).keyed /\ NoteReaches(txns', n, Len(view))
  PROVE  WalletInv' /\ NoteWork'
<1>1. Fits(view, Len(view), NoTx, 0, yes) /\ yes \in BOOLEAN
  BY CoreWallet, NoneFits
<1>a. /\ \A f \in found : f \in found' \/ f.note \in none
      /\ \A n \in Note : Known(txns', n) /\ n \in none =>
           SpentOK(txns', found', view, n) /\ (Shallow => WitnessOK(txns', Len(view), n))
  OBVIOUS
<1>2. WalletInv'
  BY <1>1, <1>a, BatchWallet DEF BatchSame
<1>3. NoteWork'
  <2>1. \A f \in found' : f \in found \/ f.note \in Spends[f.spender]
    OBVIOUS
  <2>2. Shallow => \A n \in Waiting' : n[2] = "s" /\ (n \notin Waiting \/ n \in none) =>
          Known(txns', n) /\ NoteOf(txns', n).keyed /\ NoteReaches(txns', n, Len(view))
    OBVIOUS
  <2> HIDE DEF Waiting
  <2> QED BY <1>1, <2>1, <2>2, BatchNotes DEF BatchSame
<1> QED BY <1>2, <1>3

LEMMA ReadOldHist ==
  ASSUME CoreInv, HistInv, ReadOldNotes
  PROVE  WalletInv' /\ ScanWork' /\ NoteWork'
<1> DEFINE yes == TRUE
           none == {}
           old == NotesForUpdating(txns, keep)
<1>0. /\ phase \in Batch /\ phase' = phase /\ BatchSame /\ txns' = txns /\ found' = found
      /\ upd' = upd \cup {[note |-> n, at |-> keep + 1] : n \in old}
  BY DEF ReadOldNotes, Batch, BatchSame
<1>1. ScanWork'
  BY <1>0, ScansStay DEF HistInv, BatchSame
<1>2. ASSUME NEW n \in old
      PROVE  /\ n[1] \notin NewTxs
             /\ Known(txns, n) /\ NoteOf(txns, n).keyed
             /\ Shallow => NoteReaches(txns, n, Len(view))
  <2>1. n \in Note /\ Known(txns, n) /\ NoteOf(txns, n).keyed
    BY <1>2, NoteUpdatable DEF CoreInv
  <2>2. n[2] = "s" /\ Confirmed(txns, n[1]) /\ txns[n[1]].block <= keep /\ NoteOf(txns, n).spent = NoTx
    BY <1>2 DEF NotesForUpdating, Confirmed, Known
  <2>3. Sound(txns, view, Len(view), found)
    BY <1>0 DEF HistInv, WalletInv
  <2>4. Shallow => NoteReaches(txns, n, Len(view))
    BY <2>1, <2>2, <2>3 DEF Sound, WitnessIn, WitnessOK
  <2>5. HeightIn(view, n[1]) <= keep
    BY <2>1, <2>2, <2>3, NoteParts DEF Sound, ConfirmedIn
  <2>6. ASSUME NEW h \in (keep + 1)..Len(view), n[1] \in view[h]
        PROVE  FALSE
    <3>1. view \in Seq(Blocks) /\ keep \in Nat /\ Once(view)
      BY CoreWallet DEF CoreInv, TypeOK, SyncTypes, HistInv, ChainInv
    <3>2. h \in 1..Len(view) /\ h > keep
      BY <3>1
    <3>3. HeightIn(view, n[1]) = h
      BY <2>6, <3>1, <3>2, OnceHeight
    <3> QED BY <2>5, <3>1, <3>2, <3>3
  <2> QED BY <2>1, <2>4, <2>6 DEF NewTxs
<1>3. Ledger(txns, txns', NoTx, 0, yes, none) /\ yes = TRUE /\ none = {}
  <2> HIDE DEF old
  <2>1. Ledger(txns, txns, NoTx, 0, yes, {})
    BY CoreWallet, SameLedger
  <2> QED BY <1>0, <2>1 DEF none
<1> HIDE DEF old, yes, none
<1>4. \A v \in upd' : v \in upd \/ (v.note[2] = "s" /\ v.note[1] \in NewTxs => v.at = HeightIn(view, v.note[1]))
  BY <1>0, <1>2
<1>5. \A n \in Waiting' : n \in Waiting \/ n \in old
  BY <1>0 DEF Waiting
<1>6. Shallow => \A n \in Waiting' : n[2] = "s" /\ n \notin Waiting =>
        Known(txns', n) /\ NoteOf(txns', n).keyed /\ NoteReaches(txns', n, Len(view))
  <2> HIDE DEF Waiting
  <2> QED BY <1>0, <1>2, <1>5
<1> HIDE DEF Waiting
<1> QED BY <1>0, <1>1, <1>3, <1>4, <1>6, BatchQuiet

LEMMA OrchardPassHist ==
  ASSUME CoreInv, HistInv, OrchardPass
  PROVE  WalletInv' /\ ScanWork' /\ NoteWork'
<1> DEFINE yes == TRUE
           none == {}
<1>0. /\ phase \in Batch /\ phase' \in Batch /\ BatchSame /\ txns' = Placed(txns, NewTxs)
      /\ found' = found /\ found = {}
      /\ upd' \subseteq [note : UnspentNullifiers(txns, "o"), at : {keep + 1}]
  BY DEF OrchardPass, Batch, BatchSame, Placed
<1>1. ScanWork'
  BY <1>0, ScansStay DEF HistInv, BatchSame
<1>2. \A v \in upd' : v.note[2] = "o"
  <2>1. \A n \in UnspentNullifiers(txns, "o") : n[2] = "o"
    BY DEF UnspentNullifiers
  <2> QED BY <1>0, <2>1
<1>3. Ledger(txns, txns', NoTx, 0, yes, none) /\ yes = TRUE /\ none = {}
  <2>1. Ledger(txns, Placed(txns, NewTxs), NoTx, 0, yes, {})
    BY CoreWallet, PlacedLedger
  <2> QED BY <1>0, <2>1 DEF none
<1> HIDE DEF yes, none
<1>4. \A n \in Waiting' : n[2] = "o"
  BY <1>0, <1>2 DEF Waiting
<1> HIDE DEF Waiting
<1> QED BY <1>0, <1>1, <1>2, <1>3, <1>4, BatchQuiet

LEMMA ScanBegunHist ==
  ASSUME CoreInv, HistInv, NEW t, (t \in taddrQ /\ ScanTaddr(t)) \/ (t \in fullQ /\ ScanFull(t))
  PROVE  WalletInv' /\ ScanWork' /\ NoteWork'
<1>0. /\ UNCHANGED <<txns, saved, synced, view, left, keep, phase, upd, found, sending>>
      /\ \E by \in {"taddr", "full"} : scans' = scans \cup {NewScan(by, t, HeightIn(view, t), FALSE)}
  BY DEF ScanTaddr, ScanFull
<1>1. t \in NewTxs /\ NewTxs' = NewTxs
  BY <1>0 DEF CoreInv, QueueInv, NewTxs
<1>2. WalletInv'
  BY <1>0 DEF HistInv, WalletInv
<1>3. NoteWork'
  BY <1>0, <1>1 DEF HistInv, NoteWork, Waiting
<1>4. ScanWork'
  BY <1>0, <1>1 DEF HistInv, ScanWork, NewScan
<1> QED BY <1>2, <1>3, <1>4

(* One waiting note changes. *)
LEMMA BatchOne ==
  ASSUME CoreInv, HistInv, phase \in Batch, phase' \in Batch, BatchSame,
         NEW t, NEW h, NEW u \in BOOLEAN, NEW n \in Note, NEW one, one = {n},
         Ledger(txns, txns', t, h, u, one), Fits(view, Len(view), t, h, u),
         \A f \in found : f \in found' \/ f.note = n,
         \A f \in found' : f \in found \/ f.note \in Spends[f.spender],
         upd' \subseteq upd, \A m \in Waiting' : m \in Waiting \/ m = n,
         Known(txns', n) => SpentOK(txns', found', view, n),
         Known(txns', n) /\ Shallow => WitnessOK(txns', Len(view), n),
         n[2] = "s" /\ Shallow => Known(txns', n) /\ NoteOf(txns', n).keyed /\ NoteReaches(txns', n, Len(view))
  PROVE  WalletInv' /\ NoteWork'
<1>1. /\ \A f \in found : f \in found' \/ f.note \in one
      /\ \A m \in Note : Known(txns', m) /\ m \in one =>
           SpentOK(txns', found', view, m) /\ (Shallow => WitnessOK(txns', Len(view), m))
  OBVIOUS
<1>2. WalletInv'
  BY <1>1, BatchWallet DEF BatchSame
<1>3. NoteWork'
  <2>1. \A v \in upd' : v \in upd \/ (v.note[2] = "s" /\ v.note[1] \in NewTxs => v.at = HeightIn(view, v.note[1]))
    OBVIOUS
  <2> HIDE DEF Waiting
  <2>2. Shallow => \A m \in Waiting' : m[2] = "s" /\ (m \notin Waiting \/ m \in one) =>
          Known(txns', m) /\ NoteOf(txns', m).keyed /\ NoteReaches(txns', m, Len(view))
    OBVIOUS
  <2> QED BY <2>1, <2>2, BatchNotes DEF BatchSame
<1> QED BY <1>2, <1>3

(* The note of a waiting task keeps its witness and its transaction. *)
LEMMA WaitingKept ==
  ASSUME CoreInv, HistInv, phase \in Batch, NEW n \in Waiting, n \in Note,
         NEW g, Kept(txns, g), Known(txns, n) => Known(g, n),
         NoteOf(g, n).keyed = NoteOf(txns, n).keyed, NoteOf(g, n).witness = NoteOf(txns, n).witness
  PROVE  /\ Shallow /\ Known(g, n) => WitnessOK(g, Len(view), n)
         /\ n[2] = "s" /\ Shallow => Known(g, n) /\ NoteOf(g, n).keyed /\ NoteReaches(g, n, Len(view))
<1> SUFFICES ASSUME Shallow, n[2] = "s"
             PROVE  WitnessOK(g, Len(view), n) /\ Known(g, n) /\ NoteOf(g, n).keyed /\ NoteReaches(g, n, Len(view))
  BY DEF WitnessOK
<1>1. /\ Known(txns, n) /\ NoteOf(txns, n).keyed
      /\ NoteReaches(txns, n, Len(view)) /\ Confirmed(txns, n[1])
  BY WaitingIs
<1>2. NoteReaches(g, n, Len(view)) /\ Confirmed(g, n[1])
  BY <1>1, ReachCarries
<1> QED BY <1>1, <1>2 DEF WitnessOK

LEMMA LookUpSpentHist ==
  ASSUME CoreInv, HistInv, NEW v \in upd, LookUpSpent(v)
  PROVE  WalletInv' /\ ScanWork' /\ NoteWork'
<1> DEFINE n == v.note
           one == {n}
           yes == TRUE
<1>1. PICK y \in SpendingTxs(v) :
        /\ txns' = MarkTxidNfSpent(txns, n, y, HeightIn(view, y))
        /\ found' = found \cup {[note |-> n, spender |-> y]}
  BY DEF LookUpSpent
<1> DEFINE h == HeightIn(view, y)
<1>2. /\ phase \in Batch /\ phase' = phase /\ BatchSame /\ upd' = upd \ {v}
  BY DEF LookUpSpent, BatchSame, CoreInv, QueueInv
<1>3. n \in Note /\ Known(txns, n) /\ IsWallet(txns) /\ n \in Waiting
  BY CoreWallet DEF CoreInv, TypeOK, SyncTypes, QueueInv, Waiting
<1>4. y \in NewTxs /\ y \in Txs /\ h \in Nat /\ n \in Spends[y]
  BY <1>1, NewTxsAre DEF SpendingTxs, CoreInv, TypeOK
<1>5. ScanWork'
  BY <1>2, ScansStay DEF HistInv, BatchSame
<1>6. \A m \in Waiting' : m \in Waiting
  BY <1>1, <1>2, <1>3 DEF Waiting
<1>7. yes = TRUE /\ yes \in BOOLEAN /\ one = {n}
  OBVIOUS
<1> HIDE DEF n, h, one, yes, Waiting
<1> DEFINE d == NoteOf(txns, n)
           e == Marked(d, y, h)
<1>8. IsWallet(txns') /\ Replaced(txns, txns', n, e)
  BY <1>1, <1>3, <1>4, MarkNfIs DEF h
<1>9. /\ Known(txns', n) /\ NoteOf(txns', n) = e
      /\ e.spent = y /\ e.at = h /\ e.keyed = d.keyed /\ e.witness = d.witness
  <2>1. d \in NoteRec
    BY <1>3, NoteOfType
  <2> QED BY <1>3, <1>4, <1>8, <2>1, MarkedIs DEF Replaced
<1> HIDE DEF e
<1>10. Ledger(txns, txns', NoTx, 0, yes, one)
  <2>1. Ledger(txns, txns', NoTx, 0, yes, {n})
    BY <1>3, <1>8, ReplacedLedger
  <2> QED BY <2>1 DEF one
<1>11. Fits(view, Len(view), NoTx, 0, yes)
  BY <1>7, CoreWallet, NoneFits
<1>12. Kept(txns, txns')
  <2>1. ConfirmedIn(txns, view, Len(view))
    BY <1>2 DEF HistInv, WalletInv, Sound
  <2> QED BY <1>3, <1>7, <1>10, <1>11, <2>1, HeadsKept DEF Ledger
<1>13. SpentOK(txns', found', view, n)
  BY <1>1, <1>4, <1>9 DEF SpentOK, Unrecorded, h
<1>14. /\ Shallow /\ Known(txns', n) => WitnessOK(txns', Len(view), n)
       /\ n[2] = "s" /\ Shallow => Known(txns', n) /\ NoteOf(txns', n).keyed /\ NoteReaches(txns', n, Len(view))
  BY <1>2, <1>3, <1>9, <1>12, WaitingKept
<1>15. \A f \in found' : f \in found \/ f.note \in Spends[f.spender]
  BY <1>1, <1>4
<1>16. \A f \in found : f \in found' \/ f.note = n
  BY <1>1
<1> QED BY <1>2, <1>3, <1>5, <1>6, <1>7, <1>10, <1>11, <1>13, <1>14, <1>15, <1>16, BatchOne

LEMMA RecordSpendHist ==
  ASSUME CoreInv, HistInv, NEW f \in found, RecordSpend(f)
  PROVE  WalletInv' /\ ScanWork' /\ NoteWork'
<1> DEFINE n == f.note
           t == f.spender
           h == HeightIn(view, t)
           one == {n}
           no == FALSE
<1>1. /\ phase \in Batch /\ phase' = phase /\ BatchSame /\ upd' = upd /\ found' = found \ {f}
      /\ txns' = AddNewSpent(txns, t, h, FALSE, n)
  BY DEF RecordSpend, BatchSame, CoreInv, QueueInv
<1>2. n \in Note /\ IsWallet(txns) /\ n \in Waiting /\ n \in Spends[t] /\ t \in NewTxs
  BY CoreWallet DEF CoreInv, TypeOK, SyncTypes, QueueInv, Waiting, HistInv, NoteWork
<1>3. ScanWork'
  BY <1>1, ScansStay DEF HistInv, BatchSame
<1>4. \A m \in Waiting' : m \in Waiting
  BY <1>1 DEF Waiting
<1>5. no = FALSE /\ no \in BOOLEAN /\ one = {n}
  OBVIOUS
<1>b. no \in BOOLEAN
  OBVIOUS
<1>6. \A e \in found : e \in found' \/ e.note = n
  BY <1>1
<1> HIDE DEF no, one, Waiting
<1>7. Fits(view, Len(view), t, h, no) /\ t \in Txs /\ h \in Nat
  BY <1>2, <1>5, NewFits
<1> HIDE DEF n, t, h
<1>8. /\ Ledger(txns, txns', t, h, no, one)
      /\ t \in DOMAIN txns' /\ txns'[t].block = h /\ ~txns'[t].unconfirmed
      /\ Known(txns', n) => Known(txns, n)
      /\ Known(txns, n) =>
           /\ NoteOf(txns', n).spent = t /\ NoteOf(txns', n).at = h
           /\ NoteOf(txns', n).keyed = NoteOf(txns, n).keyed /\ NoteOf(txns', n).witness = NoteOf(txns, n).witness
  <2> DEFINE g == AddNewSpent(txns, t, h, no, n)
             M == IF no THEN {} ELSE {n}
  <2>1. /\ Ledger(txns, g, t, h, no, M)
        /\ t \in DOMAIN g /\ g[t].block = h /\ g[t].unconfirmed = no
        /\ Known(g, n) => Known(txns, n)
        /\ ~no /\ Known(txns, n) =>
             /\ NoteOf(g, n).spent = t /\ NoteOf(g, n).at = h
             /\ NoteOf(g, n).keyed = NoteOf(txns, n).keyed /\ NoteOf(g, n).witness = NoteOf(txns, n).witness
    BY <1>2, <1>7, <1>b, NewSpentLedger
  <2>2. M = one /\ g = txns'
    BY <1>1, <1>5 DEF no
  <2> HIDE DEF g, M
  <2> QED BY <1>5, <2>1, <2>2
<1>9. Kept(txns, txns')
  <2>1. ConfirmedIn(txns, view, Len(view))
    BY <1>1 DEF HistInv, WalletInv, Sound
  <2> QED BY <1>2, <1>5, <1>7, <1>8, <2>1, HeadsKept DEF Ledger
<1>10. ASSUME Known(txns', n) PROVE SpentOK(txns', found', view, n)
  BY <1>2, <1>8, <1>10 DEF SpentOK, Settled, Confirmed
<1>11. Known(txns, n) => Known(txns', n)
  BY <1>2, <1>8 DEF Ledger, NotesFrom
<1>12. /\ Shallow /\ Known(txns', n) => WitnessOK(txns', Len(view), n)
       /\ n[2] = "s" /\ Shallow => Known(txns', n) /\ NoteOf(txns', n).keyed /\ NoteReaches(txns', n, Len(view))
  <2>1. CASE Known(txns, n)
    BY <1>1, <1>2, <1>8, <1>9, <1>11, <2>1, WaitingKept
  <2>2. CASE ~Known(txns, n)
    BY <1>1, <1>2, <1>8, <2>2, WaitingIs
  <2> QED BY <2>1, <2>2
<1> QED BY <1>1, <1>2, <1>3, <1>4, <1>5, <1>6, <1>7, <1>8, <1>10, <1>12, BatchOne

LEMMA UpdateReaches ==
  ASSUME NEW c \in WitnessRec, NEW block \in Nat, NEW last \in Nat, Reaches(c, block, last)
  PROVE  Reaches(UpdateAfterBlock(c, last), block, last)
<1>1. MaxReorg \in Nat \ {0} /\ c.from \in Int /\ c.top \in Int
  BY BoundAssumption DEF WitnessRec
<1>2. CASE c.top >= last
  BY <1>2 DEF UpdateAfterBlock
<1>3. CASE ~(c.top >= last)
  <2> DEFINE e == UpdateAfterBlock(c, last)
  <2>1. e.from = Larger(c.from, last - MaxReorg + 1) /\ e.top = last
    BY <1>3 DEF UpdateAfterBlock, WitnessRec
  <2> HIDE DEF e
  <2> QED BY <1>1, <1>3, <2>1 DEF Reaches, Larger, e
<1> QED BY <1>2, <1>3

LEMMA LookUpUnspentHist ==
  ASSUME CoreInv, HistInv, NEW v \in upd, LookUpUnspent(v)
  PROVE  WalletInv' /\ ScanWork' /\ NoteWork'
<1> DEFINE n == v.note
           d == NoteOf(txns, n)
           fresh == [FirstWitness(v.at) EXCEPT !.whole = TRUE]
           start == IF n[1] \in NewTxs THEN fresh ELSE d.witness
           c == UpdateAfterBlock(start, Len(view))
           e == [d EXCEPT !.witness = c]
           one == {n}
           yes == TRUE
<1>1. /\ phase \in Batch /\ phase' = phase /\ BatchSame /\ upd' = upd \ {v} /\ found' = found
      /\ txns' = SetNote(txns, n, e)
  BY DEF LookUpUnspent, BatchSame, CoreInv, QueueInv
<1>2. n \in Note /\ Known(txns, n) /\ IsWallet(txns) /\ n \in Waiting /\ v.at \in Nat /\ view \in Seq(Blocks)
  BY CoreWallet DEF CoreInv, TypeOK, SyncTypes, QueueInv, Waiting
<1>3. ScanWork'
  BY <1>1, ScansStay DEF HistInv, BatchSame
<1>4. \A m \in Waiting' : m \in Waiting
  BY <1>1 DEF Waiting
<1>5. yes = TRUE /\ yes \in BOOLEAN /\ one = {n}
  OBVIOUS
<1>6. d \in NoteRec /\ Len(view) \in Nat
  BY <1>2, NoteOfType
<1>f. fresh \in WitnessRec /\ fresh.from = v.at /\ fresh.top = v.at
  <2> DEFINE r == FirstWitness(v.at)
  <2>1. r \in WitnessRec
    BY <1>2, WitnessTypes
  <2>2. r.from = v.at /\ r.top = v.at
    BY DEF FirstWitness
  <2> HIDE DEF r
  <2>3. LET w == [r EXCEPT !.whole = TRUE]
        IN  w \in WitnessRec /\ w.from = r.from /\ w.top = r.top
    BY <2>1 DEF WitnessRec
  <2> QED BY <2>2, <2>3 DEF r
<1> HIDE DEF n, d, fresh, one, yes, Waiting
<1>7. start \in WitnessRec /\ c \in WitnessRec
  <2>1. start \in WitnessRec
    BY <1>6, <1>f DEF NoteRec
  <2> HIDE DEF start
  <2> QED BY <1>6, <2>1, UpdateTypes
<1> HIDE DEF start, c
<1>8. e \in NoteRec /\ e.spent = d.spent /\ e.at = d.at /\ e.keyed = d.keyed /\ e.witness = c
  BY <1>6, <1>7 DEF NoteRec
<1> HIDE DEF e
<1>9. IsWallet(txns') /\ Replaced(txns, txns', n, e)
  BY <1>1, <1>2, <1>8, ReplaceIs
<1>10. Known(txns', n) /\ NoteOf(txns', n) = e
  BY <1>2, <1>9 DEF Replaced
<1>11. Ledger(txns, txns', NoTx, 0, yes, one)
  <2>1. Ledger(txns, txns', NoTx, 0, yes, {n})
    BY <1>2, <1>9, ReplacedLedger
  <2> QED BY <2>1 DEF one
<1>12. Fits(view, Len(view), NoTx, 0, yes)
  BY <1>5, CoreWallet, NoneFits
<1>s. Sound(txns, view, Len(view), found)
  BY <1>1 DEF HistInv, WalletInv
<1>13. Kept(txns, txns')
  BY <1>2, <1>5, <1>11, <1>12, <1>s, HeadsKept DEF Ledger, Sound
<1>14. SpentOK(txns', found', view, n)
  <2>1. SpentOK(txns, found, view, n) /\ SameSpend(NoteOf(txns, n), NoteOf(txns', n))
    BY <1>2, <1>8, <1>10, <1>s DEF Sound, SpentIn, SameSpend, d
  <2> QED BY <1>1, <1>2, <1>13, <2>1, SpendCarries
<1>15. ASSUME Shallow, n[2] = "s"
       PROVE  WitnessOK(txns', Len(view), n) /\ NoteOf(txns', n).keyed /\ NoteReaches(txns', n, Len(view))
  <2>1. d.keyed /\ NoteReaches(txns, n, Len(view)) /\ Confirmed(txns, n[1])
    BY <1>1, <1>2, <1>15, WaitingIs DEF d
  <2>2. /\ n[1] \in Txs /\ txns[n[1]].block \in Nat /\ txns[n[1]].block = HeightIn(view, n[1])
        /\ Confirmed(txns', n[1]) /\ txns'[n[1]].block = txns[n[1]].block
    <3>1. n[1] \in Txs
      BY <1>2, NoteParts
    <3>2. txns[n[1]].block = HeightIn(view, n[1]) /\ n[1] \in Mined(view)
      BY <1>s, <2>1, <3>1 DEF Sound, ConfirmedIn
    <3> QED BY <1>2, <1>13, <2>1, <3>1, <3>2, HeightIs DEF Kept
  <2>3. Reaches(start, txns[n[1]].block, Len(view))
    <3>1. CASE n[1] \in NewTxs
      <4>1. v.at = HeightIn(view, n[1])
        BY <1>15, <3>1 DEF HistInv, NoteWork, n
      <4>2. start = fresh
        BY <3>1 DEF start
      <4> QED BY <1>2, <1>f, <2>2, <4>1, <4>2 DEF Reaches
    <3>2. CASE n[1] \notin NewTxs
      BY <2>1, <3>2 DEF start, NoteReaches, d
    <3> QED BY <3>1, <3>2
  <2>4. Reaches(c, txns[n[1]].block, Len(view))
    BY <1>6, <1>7, <2>2, <2>3, UpdateReaches DEF c
  <2>5. NoteReaches(txns', n, Len(view))
    BY <1>8, <1>10, <2>2, <2>4 DEF NoteReaches
  <2> QED BY <1>8, <1>10, <2>1, <2>2, <2>5 DEF WitnessOK
<1>16. /\ Shallow /\ Known(txns', n) => WitnessOK(txns', Len(view), n)
       /\ n[2] = "s" /\ Shallow => Known(txns', n) /\ NoteOf(txns', n).keyed /\ NoteReaches(txns', n, Len(view))
  BY <1>10, <1>15 DEF WitnessOK
<1>17. \A f \in found : f.note \in Spends[f.spender] /\ f \in found'
  BY <1>1 DEF HistInv, NoteWork
<1> QED BY <1>1, <1>2, <1>3, <1>4, <1>5, <1>11, <1>12, <1>14, <1>16, <1>17, BatchOne

-----------------------------------------------------------------------------
(* The removals *)

LEMMA RemovalHeads ==
  ASSUME NEW w, NEW g, NEW removed, Removal(w, g, removed), NEW t \in Txs
  PROVE  /\ Confirmed(g, t) <=> Confirmed(w, t) /\ t \notin removed
         /\ Confirmed(g, t) => g[t].block = w[t].block
BY DEF Removal, Mapped, SameHead, Confirmed

LEMMA RemovalSpends ==
  ASSUME NEW w, IsWallet(w), NEW g, NEW removed, Removal(w, g, removed), NEW bs, SpentIn(w, {}, bs)
  PROVE  SpentIn(g, {}, bs)
<1> SUFFICES ASSUME NEW n \in Note, Known(g, n), NoteOf(g, n).spent # NoTx
             PROVE  /\ n \in Spends[NoteOf(g, n).spent]
                    /\ n[2] = "s" => Settled(g, NoteOf(g, n))
  BY DEF SpentIn, SpentOK
<1> DEFINE d == NoteOf(w, n)
           e == NoteOf(g, n)
<1>1. Known(w, n)
  BY DEF Removal, Mapped
<1>2. /\ e.spent = d.spent /\ e.at = d.at
      /\ d.spent \notin removed \/ n[2] = "o"
  BY DEF Removal
<1>3. d.spent \in Txs
  BY <1>1, <1>2, SpenderIs
<1>4. n \in Spends[d.spent] /\ (n[2] = "s" => Settled(w, d))
  BY <1>1, <1>2 DEF SpentIn, SpentOK, Unrecorded
<1> HIDE DEF d, e
<1>5. ASSUME n[2] = "s" PROVE Settled(g, e)
  <2>1. Confirmed(w, d.spent) /\ w[d.spent].block = d.at
    BY <1>4, <1>5 DEF Settled
  <2>2. Confirmed(g, d.spent) /\ g[d.spent].block = w[d.spent].block
    BY <1>2, <1>3, <1>5, <2>1, RemovalHeads
  <2> QED BY <1>2, <2>1, <2>2 DEF Settled
<1> QED BY <1>2, <1>4, <1>5 DEF e

(* A spent note whose witnesses may be gone stays spent. *)
LEMMA RemovalOldSpend ==
  ASSUME NEW w, IsWallet(w), NEW g, NEW removed, Removal(w, g, removed), NEW bs, SpentIn(w, {}, bs),
         NEW l, \A t \in removed : Confirmed(w, t) => ~(w[t].block < l),
         NEW n \in Note, Known(g, n), n[2] = "s", NoteOf(w, n).spent # NoTx, NoteOf(w, n).at < l
  PROVE  NoteOf(g, n).spent # NoTx /\ NoteOf(g, n).at < l
<1>1. Known(w, n)
  BY DEF Removal, Mapped
<1>2. Settled(w, NoteOf(w, n))
  BY <1>1 DEF SpentIn, SpentOK, Unrecorded
<1>3. NoteOf(w, n).spent \notin removed
  BY <1>2 DEF Settled
<1> QED BY <1>3 DEF Removal

(* A reorg pops no witness that a note of a kept block needs. *)
LEMMA PopReaches ==
  ASSUME NEW c \in WitnessRec, NEW block \in Nat, NEW last \in Nat, NEW l \in Nat,
         Reaches(c, block, last), block < l, l > last - MaxReorg + 1
  PROVE  Reaches(Pop(c, l), block, last)
<1>1. MaxReorg \in Nat /\ c.from \in Int /\ c.top \in Int
  BY BoundAssumption DEF WitnessRec
<1>2. Pop(c, l).from = c.from /\ Pop(c, l).top = Larger(c.from - 1, Smaller(c.top, l - 1))
  BY PopIs
<1> QED BY <1>1, <1>2 DEF Reaches, Larger, Smaller

LEMMA ReorgWitness ==
  ASSUME NEW w, IsWallet(w), NEW h \in Nat, NEW n \in Note, Known(RemoveTxnsAtHeight(w, h), n)
  PROVE  NoteOf(RemoveTxnsAtHeight(w, h), n).witness = Pop(NoteOf(w, n).witness, h)
<1> DEFINE removed == {t \in DOMAIN w : w[t].block >= h}
           g == RemoveTxnsAtHeight(w, h)
           c == RollBack(n[2], NoteOf(w, n), removed)
<1>1. Mapped(w, g) /\ NoteOf(g, n) = PopNote(c, h)
  BY RemoveAtHeightIs
<1>2. NoteOf(w, n) \in NoteRec
  BY <1>1, NoteOfType DEF Mapped
<1> HIDE DEF g, removed
<1>3. c \in NoteRec /\ c.witness = NoteOf(w, n).witness
  BY <1>2, RollBackIs
<1> HIDE DEF c
<1>4. PopNote(c, h).witness = Pop(c.witness, h)
  BY <1>3, PopNoteIs
<1> QED BY <1>1, <1>3, <1>4 DEF g

LEMMA ReorgSound ==
  ASSUME NEW w, IsWallet(w), NEW bs \in Seq(Blocks), NEW l \in Nat, Sound(w, bs, l, {}),
         l + MaxDepth > Len(bs), l <= Len(bs)
  PROVE  Sound(RemoveTxnsAtHeight(w, l), bs, l - 1, {})
<1> DEFINE g == RemoveTxnsAtHeight(w, l)
           removed == {t \in DOMAIN w : w[t].block >= l}
<1>1. Removal(w, g, removed)
  BY ReorgRemoval
<1>2. \A t \in DOMAIN w : t \in Txs /\ w[t].block \in Nat
  BY DEF IsWallet, IsTx
<1>3. \A t \in Txs : Confirmed(w, t) => (t \in removed <=> ~(w[t].block < l))
  BY <1>2 DEF Confirmed
<1>4. \A n \in Note : Known(g, n) => NoteOf(g, n).witness = Pop(NoteOf(w, n).witness, l)
  BY ReorgWitness
<1>5. removed \subseteq Txs
  BY <1>2
<1> HIDE DEF g, removed
<1>6. ConfirmedIn(g, bs, l - 1)
  <2> SUFFICES ASSUME NEW t \in Txs, Confirmed(g, t)
               PROVE  t \in Mined(bs) /\ g[t].block = HeightIn(bs, t) /\ g[t].block <= l - 1
    BY DEF ConfirmedIn
  <2>1. Confirmed(w, t) /\ t \notin removed /\ g[t].block = w[t].block
    BY <1>1, RemovalHeads
  <2>2. t \in Mined(bs) /\ w[t].block = HeightIn(bs, t) /\ w[t].block < l
    BY <1>3, <2>1 DEF Sound, ConfirmedIn
  <2>3. w[t].block \in Nat
    BY <1>2, <2>1 DEF Confirmed
  <2> QED BY <2>1, <2>2, <2>3
<1>7. SpentIn(w, {}, bs) /\ SpentIn(g, {}, bs)
  BY <1>1, RemovalSpends DEF Sound
<1>8. ASSUME Shallow PROVE WitnessIn(g, Len(bs))
  <2> SUFFICES ASSUME NEW n \in Note, Known(g, n), n[2] = "s", NoteOf(g, n).keyed
               PROVE  /\ Confirmed(g, n[1])
                      /\ \/ NoteReaches(g, n, Len(bs))
                         \/ NoteOf(g, n).spent # NoTx /\ NoteOf(g, n).at < Len(bs) - MaxReorg
    BY DEF WitnessIn, WitnessOK
  <2>b. MaxReorg \in Nat /\ MaxDepth \in Nat /\ Len(bs) \in Nat /\ MaxDepth < MaxReorg
    BY <1>8, BoundAssumption DEF Shallow
  <2>1. Known(w, n) /\ n[1] \in Txs /\ NoteOf(w, n).keyed /\ n[1] \in DOMAIN g
    BY <1>1, NoteParts DEF Removal, Mapped
  <2>2. WitnessOK(w, Len(bs), n)
    BY <1>8, <2>1 DEF Sound, WitnessIn
  <2>3. Confirmed(w, n[1]) /\ n[1] \notin removed
    BY <1>1, <2>1, <2>2 DEF WitnessOK, Removal
  <2>4. Confirmed(g, n[1]) /\ g[n[1]].block = w[n[1]].block /\ w[n[1]].block < l /\ w[n[1]].block \in Nat
    BY <1>1, <1>2, <1>3, <2>1, <2>3, RemovalHeads DEF Confirmed
  <2>5. CASE NoteReaches(w, n, Len(bs))
    <3>1. NoteOf(w, n).witness \in WitnessRec
      BY <2>1, NoteOfType DEF NoteRec
    <3>2. Reaches(Pop(NoteOf(w, n).witness, l), w[n[1]].block, Len(bs))
      BY <2>b, <2>4, <2>5, <3>1, PopReaches DEF NoteReaches
    <3> QED BY <1>4, <2>4, <3>2 DEF NoteReaches
  <2>6. CASE NoteOf(w, n).spent # NoTx /\ NoteOf(w, n).at < Len(bs) - MaxReorg
    <3>1. \A t \in removed : Confirmed(w, t) => ~(w[t].block < Len(bs) - MaxReorg)
      BY <1>2, <1>3, <1>5, <2>b DEF Confirmed
    <3>2. NoteOf(g, n).spent # NoTx /\ NoteOf(g, n).at < Len(bs) - MaxReorg
      BY <1>1, <1>7, <2>6, <3>1, RemovalOldSpend
    <3> QED BY <2>4, <3>2
  <2> QED BY <2>1, <2>2, <2>5, <2>6 DEF WitnessOK
<1> QED BY <1>6, <1>7, <1>8 DEF Sound, g

LEMMA ExpiryWitness ==
  ASSUME NEW w, IsWallet(w), NEW h \in Nat, NEW n \in Note,
         Known(ClearExpiredMempool(ClearOldWitnesses(w, h), h), n)
  PROVE  LET d == NoteOf(w, n)
             e == NoteOf(ClearExpiredMempool(ClearOldWitnesses(w, h), h), n)
         IN  e.witness = d.witness \/ (d.spent # NoTx /\ d.at < h - MaxReorg)
<1> DEFINE v == ClearOldWitnesses(w, h)
           g == ClearExpiredMempool(v, h)
           removed == {t \in DOMAIN v : v[t].unconfirmed /\ v[t].block < h - MaxReorg}
           d == NoteOf(w, n)
           c == Cleared(n[2], d, h)
<1>1. Mapped(w, v) /\ (Known(v, n) => NoteOf(v, n) = c)
  BY ClearOldIs
<1> HIDE DEF v
<1>2. /\ Mapped(v, g)
      /\ NoteOf(g, n) = RollBack(n[2], NoteOf(v, n), removed)
  BY <1>1, ClearExpiredIs DEF Mapped, v
<1> HIDE DEF g, removed
<1>3. Known(v, n) /\ Known(w, n)
  BY <1>1, <1>2 DEF Mapped, g, v
<1>4. d \in NoteRec
  BY <1>3, NoteOfType
<1> HIDE DEF d
<1>5. c \in NoteRec /\ (c.witness = d.witness \/ (d.spent # NoTx /\ d.at < h - MaxReorg))
  BY <1>4, ClearedIs DEF Cleared
<1> HIDE DEF c
<1>6. NoteOf(g, n).witness = c.witness
  BY <1>1, <1>2, <1>3, <1>5, RollBackIs
<1> QED BY <1>5, <1>6 DEF g, v, d

LEMMA ExpirySound ==
  ASSUME NEW w, IsWallet(w), NEW bs \in Seq(Blocks), Sound(w, bs, Len(bs), {})
  PROVE  Sound(ClearExpiredMempool(ClearOldWitnesses(w, Len(bs)), Len(bs)), bs, Len(bs), {})
<1> DEFINE h == Len(bs)
           g == ClearExpiredMempool(ClearOldWitnesses(w, h), h)
           removed == ExpiredIn(w, h)
<1>0. h \in Nat
  OBVIOUS
<1>1. Removal(w, g, removed)
  BY <1>0, ExpiryRemoval
<1>2. \A t \in removed : ~Confirmed(w, t)
  BY DEF ExpiredIn, Confirmed
<1>3. \A n \in Note : Known(g, n) =>
        \/ NoteOf(g, n).witness = NoteOf(w, n).witness
        \/ NoteOf(w, n).spent # NoTx /\ NoteOf(w, n).at < h - MaxReorg
  BY <1>0, ExpiryWitness
<1> HIDE DEF g, removed, h
<1>4. Kept(w, g)
  BY <1>1, <1>2, RemovalHeads DEF Kept
<1>5. ConfirmedIn(g, bs, h)
  BY <1>1, RemovalHeads DEF Sound, ConfirmedIn, h
<1>6. SpentIn(w, {}, bs) /\ SpentIn(g, {}, bs)
  BY <1>1, RemovalSpends DEF Sound
<1>7. ASSUME Shallow PROVE WitnessIn(g, h)
  <2> SUFFICES ASSUME NEW n \in Note, Known(g, n), n[2] = "s", NoteOf(g, n).keyed
               PROVE  /\ Confirmed(g, n[1])
                      /\ NoteReaches(g, n, h) \/ (NoteOf(g, n).spent # NoTx /\ NoteOf(g, n).at < h - MaxReorg)
    BY DEF WitnessIn, WitnessOK
  <2>1. Known(w, n) /\ n[1] \in Txs /\ NoteOf(w, n).keyed
    BY <1>1, NoteParts DEF Removal, Mapped
  <2>2. WitnessOK(w, h, n)
    BY <1>7, <2>1 DEF Sound, WitnessIn, h
  <2>3. Confirmed(w, n[1]) /\ Confirmed(g, n[1])
    BY <1>4, <2>1, <2>2 DEF WitnessOK, Kept
  <2>4. CASE NoteOf(w, n).spent # NoTx /\ NoteOf(w, n).at < h - MaxReorg
    <3>1. NoteOf(g, n).spent # NoTx /\ NoteOf(g, n).at < h - MaxReorg
      BY <1>1, <1>2, <1>6, <2>4, RemovalOldSpend
    <3> QED BY <2>3, <3>1
  <2>5. CASE NoteReaches(w, n, h) /\ NoteOf(g, n).witness = NoteOf(w, n).witness
    BY <1>4, <2>3, <2>5, ReachCarries
  <2> QED BY <1>3, <2>1, <2>2, <2>4, <2>5 DEF WitnessOK
<1> QED BY <1>5, <1>6, <1>7 DEF Sound, g, h

-----------------------------------------------------------------------------
(* The steps outside a batch, and those that begin and end one               *)

LEMMA NoWork ==
  ASSUME upd' = {}, found' = {}
  PROVE  NoteWork'
BY DEF NoteWork, Waiting

LEMMA Quiet ==
  ASSUME CoreInv, phase \notin Batch
  PROVE  upd = {} /\ found = {}
BY DEF CoreInv, QueueInv

LEMMA StartSyncHist ==
  ASSUME CoreInv, HistInv, StartSync
  PROVE  WalletInv' /\ ScanWork' /\ NoteWork'
<1>1. /\ phase = "idle" /\ phase' = "reorg" /\ phase \notin Batch /\ phase' \notin Batch
      /\ UNCHANGED <<txns, saved, synced, left, scans, upd, found>>
  BY DEF StartSync, Batch, queueVars
<1>2. WalletInv'
  BY <1>1 DEF HistInv, WalletInv
<1>3. ScanWork'
  BY <1>1 DEF HistInv, ScanWork
<1> QED BY <1>1, <1>2, <1>3, Quiet, NoWork

LEMMA InvalidateHist ==
  ASSUME CoreInv, HistInv, InvalidateBlock
  PROVE  WalletInv' /\ ScanWork' /\ NoteWork'
<1>1. /\ phase = "reorg" /\ phase' = phase /\ phase \notin Batch /\ phase' \notin Batch
      /\ left > keep /\ left' = left - 1 /\ txns' = RemoveTxnsAtHeight(txns, left)
      /\ UNCHANGED <<saved, synced, scans, upd, found>>
  BY DEF InvalidateBlock, Batch, queueVars
<1>2. left \in Nat /\ keep \in Nat /\ MaxDepth \in Nat /\ IsWallet(txns) /\ synced \in Seq(Blocks)
      /\ Len(synced) \in Nat
  BY CoreWallet, BoundAssumption DEF CoreInv, TypeOK, SyncTypes
<1>3. left + MaxDepth > Len(synced) /\ left <= Len(synced)
  <2>1. keep + MaxDepth >= Len(synced) /\ left <= Len(synced)
    BY DEF HistInv, ChainInv
  <2> QED BY <1>1, <1>2, <2>1
<1>4. Sound(txns, synced, left, {}) /\ Sound(saved, synced, Len(synced), {})
  BY <1>1 DEF HistInv, WalletInv
<1>5. Sound(txns', synced, left', {})
  BY <1>1, <1>2, <1>3, <1>4, ReorgSound
<1>6. WalletInv'
  BY <1>1, <1>4, <1>5 DEF WalletInv
<1>7. ScanWork'
  BY <1>1 DEF HistInv, ScanWork
<1> QED BY <1>1, <1>6, <1>7, Quiet, NoWork

(* A wallet of the first k blocks of bs, which cs begins with, too *)
LEMMA SoundMoves ==
  ASSUME NEW w, IsWallet(w), NEW bs \in Seq(Blocks), NEW cs \in Seq(Blocks), NEW k \in Nat,
         Once(cs), Agree(bs, cs, k), Len(bs) <= Len(cs), Sound(w, bs, k, {})
  PROVE  Sound(w, cs, Len(cs), {})
<1>0. Len(bs) \in Nat /\ Len(cs) \in Nat /\ MaxReorg \in Nat
  BY BoundAssumption
<1>1. ASSUME NEW t \in Txs, Confirmed(w, t)
      PROVE  t \in Mined(cs) /\ w[t].block = HeightIn(cs, t) /\ w[t].block <= Len(cs)
  <2> DEFINE h == HeightIn(bs, t)
  <2>1. t \in Mined(bs) /\ w[t].block = h /\ h <= k
    BY <1>1 DEF Sound, ConfirmedIn
  <2>2. h \in 1..Len(bs) /\ t \in bs[h]
    BY <2>1, HeightIs
  <2> HIDE DEF h
  <2>3. k <= Len(cs) /\ h \in 1..Len(cs) /\ t \in cs[h]
    BY <1>0, <2>1, <2>2 DEF Agree
  <2>4. t \in Mined(cs) /\ HeightIn(cs, t) = h
    BY <2>3, OnceHeight
  <2> QED BY <1>0, <2>1, <2>3, <2>4
<1>2. SpentIn(w, {}, cs)
  BY DEF Sound, SpentIn, SpentOK, Unrecorded
<1>3. ASSUME Shallow PROVE WitnessIn(w, Len(cs))
  <2> SUFFICES ASSUME NEW n \in Note, Known(w, n), n[2] = "s", NoteOf(w, n).keyed
               PROVE  WitnessOK(w, Len(cs), n)
    BY DEF WitnessIn, WitnessOK
  <2>1. WitnessOK(w, Len(bs), n)
    BY <1>3 DEF Sound, WitnessIn
  <2>2. NoteOf(w, n).at \in Nat /\ NoteOf(w, n).witness.from \in Int
    BY NoteOfType DEF NoteRec, WitnessRec
  <2>3. NoteReaches(w, n, Len(bs)) => NoteReaches(w, n, Len(cs))
    BY <1>0, <2>2 DEF NoteReaches, Reaches
  <2>4. NoteOf(w, n).at < Len(bs) - MaxReorg => NoteOf(w, n).at < Len(cs) - MaxReorg
    BY <1>0, <2>2
  <2> QED BY <2>1, <2>3, <2>4 DEF WitnessOK
<1> QED BY <1>1, <1>2, <1>3 DEF Sound, ConfirmedIn

LEMMA BlocksDoneHist ==
  ASSUME CoreInv, HistInv, BlocksDone
  PROVE  WalletInv' /\ ScanWork' /\ NoteWork'
<1>1. /\ phase = "reorg" /\ phase' = "scan" /\ phase \notin Batch /\ phase' \in Batch /\ left = keep
      /\ UNCHANGED <<txns, saved, synced, view, keep, scans, upd, found>>
  BY DEF BlocksDone, Batch
<1>2. upd = {} /\ found = {} /\ \A s \in scans : s.unconfirmed
  BY <1>1, WhoScans, Quiet
<1>3. /\ IsWallet(txns) /\ synced \in Seq(Blocks) /\ view \in Seq(Blocks) /\ keep \in Nat
  BY CoreWallet DEF CoreInv, TypeOK, SyncTypes
<1>4. Sound(txns, synced, keep, {}) /\ Sound(saved, synced, Len(synced), {})
  BY <1>1 DEF HistInv, WalletInv
<1>5. Once(view) /\ Agree(synced, view, keep) /\ Len(synced) <= Len(view)
  BY <1>1 DEF HistInv, ChainInv, Goal, Syncing
<1>6. Sound(txns, view, Len(view), {})
  BY <1>3, <1>4, <1>5, SoundMoves
<1>7. WalletInv'
  BY <1>1, <1>2, <1>4, <1>6 DEF WalletInv
<1>8. ScanWork'
  BY <1>1, <1>2 DEF HistInv, ScanWork
<1> QED BY <1>1, <1>2, <1>7, <1>8, NoWork

LEMMA FinishHist ==
  ASSUME CoreInv, HistInv, FinishSync
  PROVE  WalletInv' /\ ScanWork' /\ NoteWork'
<1>1. /\ phase = "orchard" /\ phase' = "idle" /\ phase \in Batch /\ phase' \notin Batch
      /\ upd = {} /\ found = {}
      /\ txns' = ClearExpiredMempool(ClearOldWitnesses(txns, Len(view)), Len(view))
      /\ saved' = txns' /\ synced' = view /\ left' = Len(view)
      /\ UNCHANGED <<upd, found, scans>>
  BY DEF FinishSync, Batch, queueVars
<1>2. IsWallet(txns) /\ view \in Seq(Blocks)
  BY CoreWallet
<1>3. Sound(txns, view, Len(view), {})
  BY <1>1 DEF HistInv, WalletInv
<1>4. Sound(txns', view, Len(view), {})
  BY <1>1, <1>2, <1>3, ExpirySound
<1>5. WalletInv'
  BY <1>1, <1>4 DEF WalletInv
<1>6. ScanWork'
  BY <1>1 DEF HistInv, ScanWork
<1> QED BY <1>1, <1>5, <1>6, NoWork

-----------------------------------------------------------------------------
(* The full scans *)

ScanSame == UNCHANGED <<saved, synced, view, left, keep, upd, found>>

(* A scan goes on, *)
LEMMA GotoWork ==
  ASSUME ScanWork, NEW s \in scans, NEW r, Goto(s, r), UNCHANGED <<phase, view, keep>>,
         r.tx = s.tx, r.height = s.height, r.unconfirmed = s.unconfirmed, r.toMark \subseteq Spends[s.tx],
         r.step \in {"spends", "notes"} => s.unconfirmed
  PROVE  ScanWork'
<1>1. NewTxs' = NewTxs
  BY DEF NewTxs
<1>2. \A q \in scans' : q \in scans \/ q = r
  BY DEF Goto
<1> QED BY <1>1, <1>2 DEF ScanWork

(* or ends. *)
LEMMA DoneWork ==
  ASSUME ScanWork, NEW s \in scans, Done(s), UNCHANGED <<view, keep>>, phase' \in Batch => phase \in Batch
  PROVE  ScanWork'
<1>1. NewTxs' = NewTxs
  BY DEF NewTxs
<1>2. \A q \in scans' : q \in scans
  BY DEF Done
<1> QED BY <1>1, <1>2 DEF ScanWork

(* A scan changes no Sapling or Orchard note's use. *)
LEMMA ScanWallet ==
  ASSUME CoreInv, HistInv, NEW s \in scans, ScanSame,
         UNCHANGED <<phase, sending>> \/ (phase = "sendscan" /\ phase' = "idle"),
         NEW M, Ledger(txns, txns', s.tx, s.height, s.unconfirmed, M),
         \A n \in Note : Known(txns', n) /\ n \in M =>
           n[2] = "t" /\ (NoteOf(txns', n).spent # NoTx => n \in Spends[NoteOf(txns', n).spent])
  PROVE  WalletInv' /\ NoteWork'
<1> DEFINE t == s.tx
           h == s.height
           u == s.unconfirmed
<1>1. u \in BOOLEAN /\ t \in Txs /\ IsWallet(txns)
  BY ScanIs, CoreWallet
<1>2. \A n \in Note : Known(txns', n) /\ n \in M =>
        n[2] # "s" /\ \A G, bs, l : SpentOK(txns', G, bs, n) /\ (Shallow => WitnessOK(txns', l, n))
  BY DEF SpentOK, WitnessOK
<1>3. CASE phase \in Batch
  <2>1. Fits(view, Len(view), t, h, u)
    <3>1. CASE u
      BY <1>3, <3>1, WhoScans, ScannedWaits DEF Fits, Syncing, Batch
    <3>2. CASE ~u
      <4>1. t \in NewTxs /\ h = HeightIn(view, t) /\ u = FALSE
        BY <1>1, <1>3, <3>2 DEF HistInv, ScanWork
      <4> QED BY <4>1, NewFits
    <3> QED BY <3>1, <3>2
  <2>2. Fits(view, Len(view), t, h, u)
    BY <2>1
  <2>3. phase' \in Batch
    BY <1>3 DEF Batch
  <2>4. /\ UNCHANGED <<saved, synced, view, keep, upd, found>>
        /\ Ledger(txns, txns', t, h, u, M)
    BY DEF ScanSame
  <2> HIDE DEF t, h, u
  <2>5. /\ \A f \in found : f \in found' \/ f.note \in M
        /\ \A f \in found' : f \in found \/ f.note \in Spends[f.spender]
        /\ \A v \in upd' : v \in upd \/ (v.note[2] = "s" /\ v.note[1] \in NewTxs => v.at = HeightIn(view, v.note[1]))
    BY <2>4
  <2>6. \A n \in Note : Known(txns', n) /\ n \in M =>
          SpentOK(txns', found', view, n) /\ (Shallow => WitnessOK(txns', Len(view), n))
    BY <1>2
  <2>7. WalletInv'
    BY <1>1, <1>3, <2>2, <2>3, <2>4, <2>5, <2>6, BatchWallet
  <2>8. Waiting' = Waiting
    BY <2>4 DEF Waiting
  <2>9. Shallow => \A n \in Waiting' : n[2] = "s" /\ (n \notin Waiting \/ n \in M) =>
          Known(txns', n) /\ NoteOf(txns', n).keyed /\ NoteReaches(txns', n, Len(view))
    <3> SUFFICES ASSUME Shallow, NEW n \in Waiting, n[2] = "s", n \in M
                 PROVE  FALSE
      BY <2>8
    <3>1. n \in Note /\ Known(txns, n)
      BY <1>3, WaitingIs
    <3>2. Known(txns', n)
      BY <2>4, <3>1 DEF Ledger, NotesFrom
    <3> QED BY <1>2, <3>1, <3>2
  <2> HIDE DEF Waiting
  <2>10. NoteWork'
    BY <1>1, <1>3, <2>2, <2>4, <2>5, <2>9, BatchNotes
  <2> QED BY <2>7, <2>10
<1>4. CASE phase \notin Batch
  <2>1. u = TRUE
    BY <1>1, <1>4, WhoScans
  <2>2. /\ Sound(txns, synced, left, {}) /\ Sound(saved, synced, Len(synced), {})
        /\ phase \in {"send", "sendscan"} => sending \notin Mined(synced)
    BY <1>4 DEF HistInv, WalletInv
  <2>3. Fits(synced, left, t, h, u)
    BY <1>4, <2>1, <2>2, WhoScans, ScannedWaits DEF Fits
  <2>4. Ledger(txns, txns', t, h, u, M)
    OBVIOUS
  <2> HIDE DEF t, h, u
  <2> DEFINE none == {}
  <2>5. /\ \A f \in none : f \in none \/ f.note \in M
        /\ \A n \in Note : Known(txns', n) /\ n \in M =>
             SpentOK(txns', none, synced, n) /\ (Shallow => WitnessOK(txns', Len(synced), n))
    BY <1>2
  <2>6. Sound(txns, synced, left, none)
    BY <2>2
  <2> HIDE DEF none
  <2>7. Sound(txns', synced, left, none)
    BY <1>1, <2>3, <2>4, <2>5, <2>6, SoundStep
  <2>8. /\ phase' \notin Batch
        /\ phase' \in {"send", "sendscan"} => sending' = sending /\ phase \in {"send", "sendscan"}
    BY <1>4 DEF Batch
  <2>9. WalletInv'
    BY <2>2, <2>7, <2>8 DEF WalletInv, ScanSame, none
  <2>10. upd' = {} /\ found' = {}
    BY <1>4, Quiet DEF ScanSame
  <2> QED BY <2>9, <2>10, NoWork
<1> QED BY <1>3, <1>4

(* A step of a scan that changes no note *)
LEMMA ScanQuiet ==
  ASSUME CoreInv, HistInv, NEW s \in scans, ScanSame,
         UNCHANGED <<phase, sending>> \/ (phase = "sendscan" /\ phase' = "idle"),
         NEW none, none = {}, Ledger(txns, txns', s.tx, s.height, s.unconfirmed, none)
  PROVE  WalletInv' /\ NoteWork'
<1>1. \A n \in Note : Known(txns', n) /\ n \in none =>
        n[2] = "t" /\ (NoteOf(txns', n).spent # NoTx => n \in Spends[NoteOf(txns', n).spent])
  OBVIOUS
<1> QED BY <1>1, ScanWallet

LEMMA ScanOutputsHist ==
  ASSUME CoreInv, HistInv, NEW s \in scans, ScanOutputs(s)
  PROVE  WalletInv' /\ ScanWork' /\ NoteWork'
<1> DEFINE r == [s EXCEPT !.step = "inputs"]
           none == {}
<1>1. /\ s \in ScanRec /\ s.tx \in Txs /\ s.height \in Nat /\ s.unconfirmed \in BOOLEAN
      /\ s.toMark \subseteq Spends[s.tx] /\ IsWallet(txns)
  BY ScanIs, CoreWallet DEF HistInv, ScanWork
<1>2. /\ r.tx = s.tx /\ r.height = s.height /\ r.unconfirmed = s.unconfirmed
      /\ r.toMark = s.toMark /\ r.step = "inputs"
  BY <1>1 DEF ScanRec
<1>3. Goto(s, r) /\ ScanSame /\ UNCHANGED <<phase, sending>>
  BY DEF ScanOutputs, InScan, Scanning, ScanSame, queueVars
<1>4. Ledger(txns, txns', s.tx, s.height, s.unconfirmed, none) /\ none = {}
  <2>1. Ledger(txns, txns, s.tx, s.height, s.unconfirmed, {})
    BY <1>1, SameLedger
  <2>2. Ledger(txns, AddNewTaddrOutput(txns, s.tx, s.height, s.unconfirmed), s.tx, s.height, s.unconfirmed, {})
    BY <1>1, TaddrOutputLedger
  <2>3. txns' = txns \/ txns' = AddNewTaddrOutput(txns, s.tx, s.height, s.unconfirmed)
    BY DEF ScanOutputs
  <2> QED BY <2>1, <2>2, <2>3 DEF none
<1> HIDE DEF r, none
<1>5. ScanWork'
  BY <1>1, <1>2, <1>3, GotoWork DEF HistInv, ScanSame
<1> QED BY <1>3, <1>4, <1>5, ScanQuiet

(* The steps that only read the wallet *)
LEMMA ScanReadsHist ==
  ASSUME CoreInv, HistInv, NEW s \in scans, ScanInputs(s) \/ ScanSpends(s)
  PROVE  WalletInv' /\ ScanWork' /\ NoteWork'
<1> DEFINE none == {}
           mine == {n \in Spends[s.tx] : n[2] = "t" /\ Known(txns, n)}
           keys == Spends[s.tx] \cap UnspentNullifiers(txns, "s")
           r1 == [s EXCEPT !.step = "mark", !.utxos = mine, !.toMark = mine]
           r2 == [s EXCEPT !.step = "spends"]
           r3 == [s EXCEPT !.step = "notes", !.toMark = keys]
<1>1. /\ s \in ScanRec /\ s.toMark \subseteq Spends[s.tx] /\ IsWallet(txns)
  BY ScanIs, CoreWallet DEF HistInv, ScanWork
<1>2. txns' = txns /\ ScanSame /\ (UNCHANGED <<phase, sending>> \/ (phase = "sendscan" /\ phase' = "idle"))
  <2>1. txns' = txns /\ ScanSame
    BY DEF ScanInputs, ScanSpends, InScan, Scanning, ScanSame, queueVars
  <2>2. UNCHANGED <<phase, sending>>
    BY ScanInputsCore, ScanSpendsCore
  <2> QED BY <2>1, <2>2
<1>3. Ledger(txns, txns', s.tx, s.height, s.unconfirmed, none) /\ none = {}
  <2>1. Ledger(txns, txns, s.tx, s.height, s.unconfirmed, {})
    BY <1>1, SameLedger
  <2> QED BY <1>2, <2>1 DEF none
<1>4. WalletInv' /\ NoteWork'
  <2> HIDE DEF none
  <2> QED BY <1>2, <1>3, ScanQuiet
<1>5. UNCHANGED <<view, keep>> /\ ScanWork
  BY <1>2 DEF ScanSame, HistInv
<1>6. CASE InScan /\ Goto(s, r1)
  <2>1. mine \subseteq Spends[s.tx]
    OBVIOUS
  <2> HIDE DEF mine
  <2>2. /\ r1.tx = s.tx /\ r1.height = s.height /\ r1.unconfirmed = s.unconfirmed
        /\ r1.toMark = mine /\ r1.step = "mark"
    BY <1>1 DEF ScanRec
  <2>3. UNCHANGED phase /\ Goto(s, r1)
    BY <1>6 DEF InScan
  <2> HIDE DEF r1
  <2>4. ScanWork'
    BY <1>5, <2>1, <2>2, <2>3, GotoWork
  <2> QED BY <1>4, <2>4
<1>7. CASE InScan /\ Goto(s, r2) /\ s.unconfirmed
  <2>2. /\ r2.tx = s.tx /\ r2.height = s.height /\ r2.unconfirmed = s.unconfirmed
        /\ r2.toMark = s.toMark
    BY <1>1 DEF ScanRec
  <2>3. UNCHANGED phase /\ Goto(s, r2)
    BY <1>7 DEF InScan
  <2> HIDE DEF r2
  <2>4. ScanWork'
    BY <1>1, <1>5, <1>7, <2>2, <2>3, GotoWork
  <2> QED BY <1>4, <2>4
<1>8. CASE ScanSpends(s)
  <2>1. keys \subseteq Spends[s.tx]
    OBVIOUS
  <2>2. InScan /\ Goto(s, r3) /\ s.step = "spends"
    BY <1>8 DEF ScanSpends, At
  <2>3. s.unconfirmed
    BY <1>5, <2>2 DEF ScanWork
  <2> HIDE DEF keys
  <2>4. /\ r3.tx = s.tx /\ r3.height = s.height /\ r3.unconfirmed = s.unconfirmed
        /\ r3.toMark = keys
    BY <1>1 DEF ScanRec
  <2>5. UNCHANGED phase
    BY <2>2 DEF InScan
  <2> HIDE DEF r3
  <2>6. ScanWork'
    BY <1>5, <2>1, <2>2, <2>3, <2>4, <2>5, GotoWork
  <2> QED BY <1>4, <2>6
<1>9. CASE Done(s)
  <2>1. phase' \in Batch => phase \in Batch
    BY <1>2 DEF Batch
  <2>2. ScanWork'
    BY <1>5, <1>9, <2>1, DoneWork
  <2> QED BY <1>4, <2>2
<1>10. ScanInputs(s) => (InScan /\ Goto(s, r1)) \/ (InScan /\ Goto(s, r2) /\ s.unconfirmed) \/ Done(s)
  BY DEF ScanInputs
<1> QED BY <1>6, <1>7, <1>8, <1>9, <1>10

LEMMA MarkUtxoHist ==
  ASSUME CoreInv, HistInv, NEW s \in scans, MarkUtxo(s)
  PROVE  WalletInv' /\ ScanWork' /\ NoteWork'
<1>1. /\ s \in ScanRec /\ s.tx \in Txs /\ s.height \in Nat /\ s.unconfirmed \in BOOLEAN
      /\ s.toMark \in SUBSET Note /\ s.toMark \subseteq Spends[s.tx] /\ IsWallet(txns)
  BY ScanIs, CoreWallet DEF HistInv, ScanWork
<1>2. PICK n \in s.toMark : /\ txns' = MarkTxidUtxoSpent(txns, n, s.tx, s.height)
                            /\ Goto(s, [s EXCEPT !.toMark = @ \ {n}])
  BY DEF MarkUtxo
<1> DEFINE r == [s EXCEPT !.toMark = @ \ {n}]
           one == {n}
           none == {}
<1>3. /\ r.tx = s.tx /\ r.height = s.height /\ r.unconfirmed = s.unconfirmed
      /\ r.toMark \subseteq s.toMark /\ r.step = s.step
  BY <1>1 DEF ScanRec
<1>4. Goto(s, r) /\ ScanSame /\ UNCHANGED <<phase, sending>> /\ s.step = "mark"
  BY <1>2 DEF MarkUtxo, At, InScan, Scanning, ScanSame, queueVars
<1>5. n \in Note /\ n[2] = "t" /\ n \in Spends[s.tx]
  BY <1>1, <1>2, <1>4 DEF CoreInv, ScanInv
<1> HIDE DEF r
<1>6. ScanWork'
  BY <1>1, <1>3, <1>4, GotoWork DEF HistInv, ScanSame
<1>7. CASE Known(txns, n)
  <2> DEFINE e == Marked(NoteOf(txns, n), s.tx, s.height)
  <2>1. IsWallet(txns') /\ Replaced(txns, txns', n, e)
    BY <1>1, <1>2, <1>5, <1>7, MarkUtxoIs
  <2>2. e.spent = s.tx
    BY <1>1, <1>5, <1>7, NoteOfType, MarkedIs
  <2> HIDE DEF e
  <2>3. NoteOf(txns', n).spent = s.tx
    BY <1>5, <1>7, <2>1, <2>2 DEF Replaced
  <2>4. Ledger(txns, txns', s.tx, s.height, s.unconfirmed, one) /\ one = {n}
    <3>1. Ledger(txns, txns', s.tx, s.height, s.unconfirmed, {n})
      BY <1>5, <2>1, ReplacedLedger
    <3> QED BY <3>1 DEF one
  <2> HIDE DEF one
  <2>5. \A m \in Note : Known(txns', m) /\ m \in one =>
          m[2] = "t" /\ (NoteOf(txns', m).spent # NoTx => m \in Spends[NoteOf(txns', m).spent])
    BY <1>5, <2>3, <2>4
  <2> QED BY <1>4, <1>6, <2>4, <2>5, ScanWallet
<1>8. CASE ~Known(txns, n)
  <2>1. Ledger(txns, txns', s.tx, s.height, s.unconfirmed, none) /\ none = {}
    <3>1. Ledger(txns, txns, s.tx, s.height, s.unconfirmed, {})
      BY <1>1, SameLedger
    <3>2. txns' = txns
      BY <1>1, <1>2, <1>5, <1>8, MarkUtxoIs
    <3> QED BY <3>1, <3>2 DEF none
  <2> HIDE DEF none
  <2> QED BY <1>4, <1>6, <2>1, ScanQuiet
<1> QED BY <1>7, <1>8

LEMMA RecordUtxosHist ==
  ASSUME CoreInv, HistInv, NEW s \in scans, RecordUtxos(s)
  PROVE  WalletInv' /\ ScanWork' /\ NoteWork'
<1> DEFINE r == [s EXCEPT !.step = "spends"]
           none == {}
<1>1. /\ s \in ScanRec /\ s.tx \in Txs /\ s.height \in Nat /\ s.unconfirmed \in BOOLEAN
      /\ s.utxos \in SUBSET Note /\ s.toMark \subseteq Spends[s.tx] /\ IsWallet(txns)
  BY ScanIs, CoreWallet DEF HistInv, ScanWork
<1>2. ScanSame /\ UNCHANGED <<phase, sending>> /\ txns' = AddTaddrSpent(txns, s.tx, s.height, s.unconfirmed, s.utxos)
  <2>1. ScanSame /\ txns' = AddTaddrSpent(txns, s.tx, s.height, s.unconfirmed, s.utxos)
    BY DEF RecordUtxos, InScan, Scanning, ScanSame, queueVars
  <2> QED BY <2>1, RecordUtxosCore
<1>3. Ledger(txns, txns', s.tx, s.height, s.unconfirmed, none) /\ none = {}
  <2>1. Ledger(txns, txns', s.tx, s.height, s.unconfirmed, {})
    BY <1>1, <1>2, TaddrSpentLedger
  <2> QED BY <2>1 DEF none
<1>4. WalletInv' /\ NoteWork'
  <2> HIDE DEF none
  <2> QED BY <1>2, <1>3, ScanQuiet
<1>5. UNCHANGED <<phase, view, keep>> /\ ScanWork
  BY <1>2 DEF ScanSame, HistInv
<1>6. CASE s.unconfirmed /\ Goto(s, r)
  <2>1. /\ r.tx = s.tx /\ r.height = s.height /\ r.unconfirmed = s.unconfirmed
        /\ r.toMark = s.toMark
    BY <1>1 DEF ScanRec
  <2> HIDE DEF r
  <2>2. ScanWork'
    BY <1>1, <1>5, <1>6, <2>1, GotoWork
  <2> QED BY <1>4, <2>2
<1>7. CASE Done(s)
  <2>1. ScanWork'
    BY <1>5, <1>7, DoneWork
  <2> QED BY <1>4, <2>1
<1> QED BY <1>6, <1>7 DEF RecordUtxos

LEMMA RecordSpendsHist ==
  ASSUME CoreInv, HistInv, NEW s \in scans, RecordSpends(s)
  PROVE  WalletInv' /\ ScanWork' /\ NoteWork'
<1>1. /\ s \in ScanRec /\ s.tx \in Txs /\ s.height \in Nat
      /\ s.toMark \in SUBSET Note /\ s.toMark \subseteq Spends[s.tx] /\ IsWallet(txns)
  BY ScanIs, CoreWallet DEF HistInv, ScanWork
<1>2. PICK n \in s.toMark : /\ txns' = AddNewSpent(txns, s.tx, s.height, TRUE, n)
                            /\ Goto(s, [s EXCEPT !.toMark = @ \ {n}])
  BY DEF RecordSpends
<1> DEFINE r == [s EXCEPT !.toMark = @ \ {n}]
           none == {}
           yes == TRUE
<1>3. /\ r.tx = s.tx /\ r.height = s.height /\ r.unconfirmed = s.unconfirmed
      /\ r.toMark \subseteq s.toMark /\ r.step = s.step
  BY <1>1 DEF ScanRec
<1>4. Goto(s, r) /\ ScanSame /\ UNCHANGED <<phase, sending>> /\ s.step = "notes"
  BY <1>2 DEF RecordSpends, At, InScan, Scanning, ScanSame, queueVars
<1>5. s.unconfirmed = yes /\ yes \in BOOLEAN /\ n \in Note
  BY <1>1, <1>2, <1>4, ScanIs DEF HistInv, ScanWork
<1>u. s.unconfirmed
  BY <1>4 DEF HistInv, ScanWork
<1>6. txns' = AddNewSpent(txns, s.tx, s.height, yes, n)
  BY <1>2
<1>7. (IF yes THEN {} ELSE {n}) = none /\ none = {}
  OBVIOUS
<1> HIDE DEF r, yes, none
<1>8. ScanWork'
  BY <1>1, <1>3, <1>4, <1>u, GotoWork DEF HistInv, ScanSame
<1>9. Ledger(txns, txns', s.tx, s.height, s.unconfirmed, none)
  <2>1. Ledger(txns, txns', s.tx, s.height, yes, IF yes THEN {} ELSE {n})
    <3> DEFINE t == s.tx
               h == s.height
    <3>1. t \in Txs /\ h \in Nat /\ yes \in BOOLEAN
      BY <1>1, <1>5
    <3>2. txns' = AddNewSpent(txns, t, h, yes, n)
      BY <1>6
    <3>b. n \in Note
      BY <1>5
    <3> HIDE DEF t, h
    <3>3. Ledger(txns, AddNewSpent(txns, t, h, yes, n), t, h, yes, IF yes THEN {} ELSE {n})
      BY <1>1, <3>1, <3>b, NewSpentLedger
    <3> QED BY <3>2, <3>3 DEF t, h
  <2> QED BY <1>5, <1>7, <2>1
<1> QED BY <1>4, <1>7, <1>8, <1>9, ScanQuiet

LEMMA ScanNotesHist ==
  ASSUME CoreInv, HistInv, NEW s \in scans, ScanNotes(s)
  PROVE  WalletInv' /\ ScanWork' /\ NoteWork'
<1> DEFINE none == {}
<1>1. s.tx \in Txs /\ s.height \in Nat /\ IsWallet(txns)
  BY ScanIs, CoreWallet
<1>2. Done(s) /\ ScanSame /\ s.step = "notes"
  BY DEF ScanNotes, At, Scanning, ScanSame, queueVars
<1>3. s.unconfirmed = TRUE
  BY <1>2, ScanIs DEF HistInv, ScanWork
<1>4. UNCHANGED <<phase, sending>> \/ (phase = "sendscan" /\ phase' = "idle")
  BY ScanNotesCore
<1>5. ScanWork'
  <2>1. phase' \in Batch => phase \in Batch
    BY <1>4 DEF Batch
  <2> QED BY <1>2, <2>1, DoneWork DEF HistInv, ScanSame
<1>6. Ledger(txns, txns', s.tx, s.height, s.unconfirmed, none) /\ none = {}
  <2>1. Ledger(txns, txns, s.tx, s.height, s.unconfirmed, {})
    BY <1>1, SameLedger
  <2>2. Ledger(txns, AddPendingNote(txns, s.tx, s.height), s.tx, s.height, s.unconfirmed, {})
    BY <1>1, <1>3, PendingNoteLedger
  <2>3. txns' = txns \/ txns' = AddPendingNote(txns, s.tx, s.height)
    BY DEF ScanNotes
  <2> QED BY <2>1, <2>2, <2>3 DEF none
<1> HIDE DEF none
<1> QED BY <1>2, <1>4, <1>5, <1>6, ScanQuiet

LEMMA ScanHist ==
  ASSUME CoreInv, HistInv, Scan
  PROVE  WalletInv' /\ ScanWork' /\ NoteWork'
<1>1. CASE ScanStreamed
  <2>1. /\ UNCHANGED <<txns, saved, synced, view, left, keep, phase, upd, found, sending>>
        /\ scans' = scans \cup {NewScan("mempool", Head(streamQ).tx, Head(streamQ).height, TRUE)}
    BY <1>1 DEF ScanStreamed, syncVars, queueVars
  <2>2. WalletInv'
    BY <2>1 DEF HistInv, WalletInv
  <2>3. NewTxs' = NewTxs /\ Waiting' = Waiting
    BY <2>1 DEF NewTxs, Waiting
  <2>4. NoteWork'
    <3> HIDE DEF Waiting
    <3> QED BY <2>1, <2>3 DEF HistInv, NoteWork
  <2>5. ScanWork'
    BY <2>1, <2>3 DEF HistInv, ScanWork, NewScan
  <2> QED BY <2>2, <2>4, <2>5
<1> QED BY <1>1, ScanOutputsHist, ScanReadsHist, MarkUtxoHist, RecordUtxosHist, RecordSpendsHist, ScanNotesHist
    DEF Scan, ScanStep

-----------------------------------------------------------------------------
(* A send, a save, a restart, the server                                     *)

(* What the wallet is made of stays. *)
LEMMA HistStay ==
  ASSUME HistInv, UNCHANGED <<txns, saved, synced, view, left, keep, phase, scans, upd, found, sending>>
  PROVE  WalletInv' /\ ScanWork' /\ NoteWork'
<1>1. WalletInv'
  BY DEF HistInv, WalletInv
<1>2. NewTxs' = NewTxs /\ Waiting' = Waiting
  BY DEF NewTxs, Waiting
<1>3. ScanWork'
  BY <1>2 DEF HistInv, ScanWork
<1>4. NoteWork'
  <2> HIDE DEF Waiting
  <2> QED BY <1>2 DEF HistInv, NoteWork
<1> QED BY <1>1, <1>3, <1>4

LEMMA BroadcastHist ==
  ASSUME CoreInv, HistInv, NEW t \in Sent, Broadcast(t)
  PROVE  WalletInv' /\ ScanWork' /\ NoteWork'
<1>1. /\ phase = "idle" /\ phase' = "send" /\ sending' = t /\ phase \notin Batch /\ phase' \notin Batch
      /\ expiry[t] = 0 /\ UNCHANGED <<txns, saved, synced, left, scans, upd, found>>
  BY DEF Broadcast, Batch, queueVars
<1>2. t \notin Mined(synced)
  BY <1>1 DEF HistInv, ChainInv, Made
<1>3. WalletInv'
  BY <1>1, <1>2 DEF HistInv, WalletInv
<1>4. ScanWork'
  BY <1>1 DEF HistInv, ScanWork
<1> QED BY <1>1, <1>3, <1>4, Quiet, NoWork

LEMMA MarkSelectedHist ==
  ASSUME CoreInv, HistInv, MarkSelected
  PROVE  WalletInv' /\ ScanWork' /\ NoteWork'
<1> DEFINE yes == TRUE
           none == {}
           s == NewScan("send", sending, Len(synced) + 1, TRUE)
<1>1. /\ phase = "send" /\ phase' = "sendscan" /\ phase \notin Batch /\ phase' \notin Batch
      /\ txns' = Reserved(txns, Spends[sending], sending) /\ scans' = scans \cup {s}
      /\ UNCHANGED <<saved, synced, left, upd, found, sending>>
  BY DEF MarkSelected, Reserved, Batch, queueVars
<1>2. /\ s.toMark = {} /\ s.step = "outputs"
  BY DEF NewScan
<1> HIDE DEF s
<1>3. ScanWork'
  BY <1>1, <1>2 DEF HistInv, ScanWork
<1>4. IsWallet(txns) /\ sending \in Txs /\ synced \in Seq(Blocks)
  BY <1>1, CoreWallet, TxAssumption DEF CoreInv, ScanInv
<1>5. /\ Sound(txns, synced, left, none) /\ Sound(saved, synced, Len(synced), {})
      /\ sending \notin Mined(synced)
  BY <1>1 DEF HistInv, WalletInv
<1>6. Ledger(txns, txns', NoTx, 0, yes, none)
  <2>1. Ledger(txns, Reserved(txns, Spends[sending], sending), NoTx, 0, yes, {})
    BY <1>4, ReservedLedger
  <2> QED BY <1>1, <2>1 DEF none
<1>7. yes = TRUE /\ yes \in BOOLEAN
  OBVIOUS
<1>8. /\ \A f \in none : f \in none \/ f.note \in none
      /\ \A n \in Note : Known(txns', n) /\ n \in none =>
           SpentOK(txns', none, synced, n) /\ (Shallow => WitnessOK(txns', Len(synced), n))
  OBVIOUS
<1> HIDE DEF yes, none
<1>9. Fits(synced, left, NoTx, 0, yes)
  BY <1>4, <1>7, NoneFits
<1>10. Sound(txns', synced, left, none)
  BY <1>4, <1>5, <1>6, <1>7, <1>8, <1>9, SoundStep
<1>11. WalletInv'
  BY <1>1, <1>5, <1>10 DEF WalletInv, none
<1> QED BY <1>1, <1>3, <1>11, Quiet, NoWork

LEMMA SaveHist ==
  ASSUME CoreInv, HistInv, Save
  PROVE  WalletInv' /\ ScanWork' /\ NoteWork'
<1>1. /\ phase = "idle" /\ phase' = phase /\ phase \notin Batch /\ phase' \notin Batch /\ saved' = txns
      /\ UNCHANGED <<txns, synced, left, scans, upd, found>>
  BY DEF Save, Batch, syncVars, queueVars
<1>2. left = Len(synced)
  BY <1>1 DEF HistInv, ChainInv, Syncing
<1>3. Sound(txns, synced, Len(synced), {})
  BY <1>1, <1>2 DEF HistInv, WalletInv
<1>4. WalletInv'
  BY <1>1, <1>2, <1>3 DEF WalletInv
<1>5. ScanWork'
  BY <1>1 DEF HistInv, ScanWork
<1> QED BY <1>1, <1>4, <1>5, Quiet, NoWork

LEMMA RestartHist ==
  ASSUME CoreInv, HistInv, Restart
  PROVE  WalletInv' /\ ScanWork' /\ NoteWork'
<1>1. /\ phase' = "idle" /\ phase' \notin Batch /\ txns' = saved /\ saved' = saved
      /\ synced' = synced /\ left' = Len(synced) /\ scans' = {} /\ upd' = {} /\ found' = {}
  BY DEF Restart, Loaded, Batch
<1>2. WalletInv'
  BY <1>1 DEF HistInv, WalletInv
<1>3. ScanWork'
  BY <1>1 DEF ScanWork
<1> QED BY <1>1, <1>2, <1>3, NoWork

LEMMA SyncHist ==
  ASSUME CoreInv, HistInv, Sync
  PROVE  WalletInv' /\ ScanWork' /\ NoteWork'
<1>1. CASE StartSync
  BY <1>1, StartSyncHist
<1>2. CASE InvalidateBlock
  BY <1>2, InvalidateHist
<1>3. CASE BlocksDone
  BY <1>3, BlocksDoneHist
<1>4. CASE ReadOldNotes
  BY <1>4, ReadOldHist
<1>5. CASE OrchardPass
  BY <1>5, OrchardPassHist
<1>6. CASE FinishSync
  BY <1>6, FinishHist
<1>7. CASE \E n \in detect : Detect(n)
  BY <1>7, DetectHist
<1>8. CASE \E u \in upd : LookUpSpent(u) \/ LookUpUnspent(u)
  BY <1>8, LookUpSpentHist, LookUpUnspentHist
<1>9. CASE \E f \in found : RecordSpend(f)
  BY <1>9, RecordSpendHist
<1>10. CASE (\E t \in taddrQ : ScanTaddr(t)) \/ \E t \in fullQ : ScanFull(t)
  <2>1. PICK t : (t \in taddrQ /\ ScanTaddr(t)) \/ (t \in fullQ /\ ScanFull(t))
    BY <1>10
  <2> HIDE <1>10
  <2> QED BY <2>1, ScanBegunHist
<1> QED BY <1>1, <1>2, <1>3, <1>4, <1>5, <1>6, <1>7, <1>8, <1>9, <1>10 DEF Sync

LEMMA HistNext ==
  ASSUME InTime, CoreInv, HistInv, [Next]_vars
  PROVE  HistInv'
<1>1. ChainInv' /\ WaitInv' /\ MonitorInv'
  BY ChainNext, WaitNext, MonitorNext DEF HistInv
<1>2. CASE Server
  <2>1. UNCHANGED <<txns, saved, synced, view, left, keep, phase, scans, upd, found, sending>>
    BY <1>2 DEF Server, Mine, Reorg, Arrive, Stream, syncVars, queueVars
  <2> QED BY <1>1, <2>1, HistStay DEF HistInv
<1>3. CASE UNCHANGED vars
  <2>1. UNCHANGED <<txns, saved, synced, view, left, keep, phase, scans, upd, found, sending>>
    BY <1>3 DEF vars, syncVars, queueVars
  <2> QED BY <1>1, <2>1, HistStay DEF HistInv
<1>4. CASE User
  BY <1>1, <1>4, BroadcastHist, MarkSelectedHist, SaveHist, RestartHist DEF User, HistInv
<1> QED BY <1>1, <1>2, <1>3, <1>4, SyncHist, ScanHist DEF Next, HistInv

LEMMA HistInit == Init => HistInv
<1> SUFFICES ASSUME Init PROVE HistInv
  OBVIOUS
<1>1. /\ DOMAIN txns = {} /\ DOMAIN saved = {} /\ phase = "idle" /\ phase \notin Batch
      /\ scans = {} /\ upd = {} /\ found = {}
  BY DEF Init, Batch
<1>2. \A bs, l : Sound(txns, bs, l, {}) /\ Sound(saved, bs, l, {})
  BY <1>1 DEF Sound, ConfirmedIn, SpentIn, WitnessIn, Confirmed, Known
<1>3. WalletInv
  BY <1>1, <1>2 DEF WalletInv
<1>4. ScanWork /\ NoteWork
  BY <1>1 DEF ScanWork, NoteWork, Waiting
<1>5. WaitInv /\ MonitorInv
  BY CalmInit DEF Init, WaitInv, MonitorInv, StreamedTxs, Streamed
<1> QED BY <1>3, <1>4, <1>5, ChainInit DEF HistInv

LEMMA HistHolds ==
  ASSUME InTime
  PROVE  Spec => [](CoreInv /\ HistInv)
<1>1. Init => CoreInv /\ HistInv
  BY InitCore, HistInit
<1>2. CoreInv /\ HistInv /\ [Next]_vars => CoreInv' /\ HistInv'
  BY NextCore, HistNext
<1> QED BY <1>1, <1>2, PTL DEF Spec

(* A Sapling note that may still be spent has witnesses, in every state, also *)
(* after a reorg takes back its spend (clear_old_witnesses, invalidate_block, *)
(* update_witness_after_block): for any number of blocks, reorgs, restarts and *)
(* sends, if no reorg is deeper than the witnesses that are kept.  With the   *)
(* mempool monitor on, without reorgs and as long as a transaction is scanned *)
(* before it is mined.                                                        *)
THEOREM UnspentKeepsWitnessCorrect ==
  ASSUME InTime, MaxDepth < MaxReorg
  PROVE  Spec => []UnspentKeepsWitness
<1>1. CoreInv /\ HistInv => UnspentKeepsWitness
  <2> SUFFICES ASSUME CoreInv, HistInv, NEW n \in Note, Known(txns, n),
                      n[2] = "s", NoteOf(txns, n).keyed, NoteOf(txns, n).spent = NoTx
               PROVE  Witnesses(NoteOf(txns, n).witness) > 0
    BY DEF UnspentKeepsWitness, WalletNotes
  <2> DEFINE c == NoteOf(txns, n).witness
  <2>1. c.from \in Int /\ c.top \in Int
    BY NoteOfType, CoreWallet DEF NoteRec, WitnessRec
  <2>2. \E bs : WitnessIn(txns, Len(bs))
    BY DEF HistInv, WalletInv, Sound, Shallow
  <2>3. \E l : NoteReaches(txns, n, l)
    BY <2>2 DEF WitnessIn, WitnessOK
  <2>4. c.from <= c.top
    BY <2>3 DEF NoteReaches, Reaches
  <2> HIDE DEF c
  <2>5. Witnesses(c) > 0
    BY <2>1, <2>4 DEF Witnesses
  <2> QED BY <2>5 DEF c
<1> QED BY <1>1, HistHolds, PTL

(* Whenever nobody is changing the wallet, a note is marked spent only by a   *)
(* transaction of the wallet's chain that spends it, a UTXO also by one that  *)
(* waits to be mined: a reorg and an expiry give both back (remove_txids).    *)
(* For wallets without Orchard notes.  With the mempool monitor on, without   *)
(* reorgs and restarts, and as long as a transaction is scanned before it is  *)
(* mined.                                                                     *)
THEOREM SpendsRealCorrect ==
  ASSUME InTime, NoOrchard, ~(Monitor /\ Restarts)
  PROVE  Spec => []SpendsReal
<1>1. Init => SpendInv
  BY SpendInit
<1>2. CoreInv /\ HistInv /\ SpendInv /\ [Next]_vars => SpendInv'
  BY SpendNext
<1>3. CoreInv /\ HistInv /\ SpendInv => SpendsReal
  <2> SUFFICES ASSUME CoreInv, HistInv, SpendInv, AtRest, NEW n \in Note, Known(txns, n),
                      NoteOf(txns, n).spent # NoTx
               PROVE  \/ NoteOf(txns, n).spent \in SpendersIn(synced, n)
                      \/ /\ n[2] = "t" /\ NoteOf(txns, n).spent \in DOMAIN txns
                         /\ txns[NoteOf(txns, n).spent].unconfirmed
    BY DEF SpendsReal, WalletNotes
  <2> DEFINE d == NoteOf(txns, n)
             t == d.spent
  <2>1. phase = "idle" /\ phase \notin Batch /\ scans = {} /\ found = {}
    BY DEF AtRest, CoreInv, QueueInv, Batch
  <2>2. Marking = {}
    BY <2>1 DEF Marking
  <2>3. t \in DOMAIN txns /\ t \in Txs
    <3>1. t \in DOMAIN txns
      BY <2>2 DEF SpendInv, MarkInv, MarksIn
    <3> QED BY <3>1, CoreWallet DEF IsWallet
  <2>4. SpentOK(txns, {}, synced, n) /\ ConfirmedIn(txns, synced, left)
    BY <2>1 DEF HistInv, WalletInv, Sound, SpentIn
  <2>5. n \in Spends[t] /\ (n[2] = "s" => Settled(txns, d))
    BY <2>4 DEF SpentOK, Unrecorded
  <2>6. n[2] = "s" \/ n[2] = "t"
    <3>1. n[2] \in Outs[n[1]] /\ n[1] \in Txs /\ n[2] \in Pools
      BY <2>3, <2>5, TxAssumption, NoteParts
    <3> QED BY <3>1 DEF NoOrchard, Pools
  <2>7. Confirmed(txns, t) => t \in SpendersIn(synced, n)
    BY <2>3, <2>4, <2>5 DEF ConfirmedIn, SpendersIn
  <2>8. ~Confirmed(txns, t) => txns[t].unconfirmed /\ n[2] = "t"
    BY <2>3, <2>5, <2>6 DEF Confirmed, Settled
  <2> QED BY <2>3, <2>7, <2>8
<1> QED BY <1>1, <1>2, <1>3, HistHolds, PTL DEF Spec
=============================================================================
