------------------------ MODULE WalletTxnsWholeProofs ------------------------
(***************************************************************************)
(* Proofs about WalletTxns: that nothing of the blocks is missing from the *)
(* wallet when a sync is over, neither an output nor a spend nor what was  *)
(* spent, that a spend is not forgotten, that the newest witness of a note *)
(* is of the newest block, and that what waits at the server keeps the     *)
(* notes it spends from being offered.  With the mempool monitor, as long  *)
(* as it scans a transaction before that is mined (InTime).                *)
(***************************************************************************)
EXTENDS WalletTxnsProofs

-----------------------------------------------------------------------------
(* A chain of transactions that spend what was paid before                   *)

(* The transactions of the first l blocks *)
Below(bs, l) == UNION {bs[h] : h \in 1..l}

(* A spend is not before its note, and in a later block unless the note is   *)
(* transparent. *)
PaidBefore(bs) ==
  \A t \in Mined(bs) : \A n \in Spends[t] :
    /\ n[1] \in Mined(bs) /\ HeightIn(bs, n[1]) <= HeightIn(bs, t)
    /\ n[2] # "t" => HeightIn(bs, n[1]) < HeightIn(bs, t)

(* A note is spent once. *)
OneSpender(bs) == \A t, u \in Mined(bs) : Spends[t] \cap Spends[u] # {} => t = u

Proper(bs) == PaidBefore(bs) /\ OneSpender(bs)

ProperInv == Proper(chain) /\ Proper(synced) /\ Proper(view)

LEMMA BelowIs ==
  ASSUME NEW bs \in Seq(Blocks), Once(bs), NEW l \in Nat, l <= Len(bs), NEW t
  PROVE  /\ t \in Below(bs, l) <=> t \in Mined(bs) /\ HeightIn(bs, t) <= l
         /\ Below(bs, l) \subseteq Mined(bs) /\ Mined(bs) \subseteq Txs
         /\ l = Len(bs) => Below(bs, l) = Mined(bs)
<1>1. \A h \in 1..l : h \in 1..Len(bs)
  OBVIOUS
<1>2. Below(bs, l) \subseteq Mined(bs)
  BY <1>1 DEF Below, Mined
<1>3. Mined(bs) \subseteq Txs
  BY HeightIs
<1>4. l = Len(bs) => Below(bs, l) = Mined(bs)
  BY DEF Below, Mined
<1>5. ASSUME t \in Below(bs, l) PROVE t \in Mined(bs) /\ HeightIn(bs, t) <= l
  <2>1. PICK h \in 1..l : t \in bs[h]
    BY <1>5 DEF Below
  <2>2. HeightIn(bs, t) = h
    BY <1>1, <2>1, OnceHeight
  <2> QED BY <1>2, <1>5, <2>1, <2>2
<1>6. ASSUME t \in Mined(bs), HeightIn(bs, t) <= l PROVE t \in Below(bs, l)
  <2>1. HeightIn(bs, t) \in 1..Len(bs) /\ t \in bs[HeightIn(bs, t)]
    BY <1>6, HeightIs
  <2>2. HeightIn(bs, t) \in 1..l
    BY <1>6, <2>1
  <2> QED BY <2>1, <2>2 DEF Below
<1> QED BY <1>2, <1>3, <1>4, <1>5, <1>6

LEMMA BelowAgrees ==
  ASSUME NEW bs, NEW cs, NEW k \in Nat, Agree(bs, cs, k)
  PROVE  Below(bs, k) = Below(cs, k)
BY DEF Below, Agree

(* What is new in view is above what is kept. *)
LEMMA NewIs ==
  ASSUME CoreInv, ChainInv, phase \in Batch \cup {"reorg"}
  PROVE  /\ NewTxs \subseteq Mined(view)
         /\ \A t \in Mined(view) : t \in NewTxs <=> t \notin Below(view, keep)
         /\ \A t \in NewTxs : HeightIn(view, t) > keep /\ t \in Txs
         /\ keep \in Nat /\ keep <= Len(view) /\ view \in Seq(Blocks) /\ Once(view)
<1>1. /\ view \in Seq(Blocks) /\ Once(view) /\ keep \in Nat /\ keep <= Len(view)
      /\ Len(view) \in Nat
  <2>1. view \in Seq(Blocks) /\ synced \in Seq(Blocks) /\ keep \in Nat /\ left \in Nat
    BY GoalIs DEF CoreInv
  <2>2. Goal = view
    BY DEF Goal, Syncing, Batch
  <2>3. Once(view) /\ Agree(synced, view, keep)
    BY <2>2 DEF ChainInv
  <2> QED BY <2>1, <2>3 DEF Agree
<1>2. ASSUME NEW t \in NewTxs PROVE t \in Mined(view) /\ HeightIn(view, t) > keep /\ t \in Txs
  <2>1. PICK h \in (keep + 1)..Len(view) : t \in view[h]
    BY DEF NewTxs
  <2>2. h \in 1..Len(view)
    BY <1>1
  <2>3. t \in Mined(view) /\ HeightIn(view, t) = h
    BY <1>1, <2>1, <2>2, OnceHeight
  <2> QED BY <1>1, <2>1, <2>3, HeightIs
<1>3. ASSUME NEW t \in Mined(view) PROVE t \in NewTxs \/ HeightIn(view, t) <= keep
  <2>1. HeightIn(view, t) \in 1..Len(view) /\ t \in view[HeightIn(view, t)]
    BY <1>1, HeightIs
  <2>2. HeightIn(view, t) \in (keep + 1)..Len(view) \/ HeightIn(view, t) <= keep
    BY <1>1, <2>1
  <2> QED BY <2>1, <2>2 DEF NewTxs
<1>4. ASSUME NEW t \in Mined(view) PROVE t \in Below(view, keep) <=> HeightIn(view, t) <= keep
  BY <1>1, BelowIs
<1>5. \A t \in Mined(view) : HeightIn(view, t) \in Nat
  BY <1>1, HeightIs
<1> QED BY <1>1, <1>2, <1>3, <1>4, <1>5

(* What is spent in the first blocks was paid there. *)
LEMMA BelowClosed ==
  ASSUME NEW bs \in Seq(Blocks), Once(bs), PaidBefore(bs), NEW l \in Nat, l <= Len(bs),
         NEW t \in Below(bs, l), NEW n \in Spends[t]
  PROVE  n[1] \in Below(bs, l)
<1>1. t \in Mined(bs) /\ HeightIn(bs, t) <= l
  BY BelowIs
<1>2. n[1] \in Mined(bs) /\ HeightIn(bs, n[1]) <= HeightIn(bs, t)
  BY <1>1 DEF PaidBefore
<1>3. HeightIn(bs, n[1]) \in Nat /\ HeightIn(bs, t) \in Nat
  BY <1>1, <1>2, HeightIs
<1> QED BY <1>1, <1>2, <1>3, BelowIs

LEMMA SameHeight ==
  ASSUME NEW bs \in Seq(Blocks), NEW cs \in Seq(Blocks), Once(bs), Once(cs),
         NEW k \in Nat, k <= Len(bs), k <= Len(cs), \A i \in 1..k : bs[i] = cs[i], NEW t \in Below(bs, k)
  PROVE  t \in Mined(bs) /\ t \in Mined(cs) /\ HeightIn(cs, t) = HeightIn(bs, t) /\ HeightIn(bs, t) \in 1..k
<1>1. PICK i \in 1..k : t \in bs[i]
  BY DEF Below
<1>2. i \in 1..Len(bs) /\ i \in 1..Len(cs) /\ t \in cs[i]
  BY <1>1
<1> QED BY <1>1, <1>2, OnceHeight

(* A block is mined: what it spends is mined and unspent, or its own. *)
LEMMA AppendProper ==
  ASSUME NEW bs \in Seq(Blocks), Once(bs), Proper(bs), NEW S \in SUBSET Txs,
         \A t \in S : /\ t \notin Mined(bs)
                      /\ \A n \in Spends[t] : /\ n[1] \in Mined(bs) \/ (n[2] = "t" /\ n[1] \in S)
                                              /\ SpendersIn(bs, n) = {}
                      /\ \A u \in S : ~Conflict(t, u)
  PROVE  Proper(Append(bs, S))
<1> DEFINE cs == Append(bs, S)
           l == Len(bs)
<1>1. /\ cs \in Seq(Blocks) /\ Len(cs) = l + 1 /\ \A i \in 1..l : bs[i] = cs[i]
      /\ cs[l + 1] = S /\ l \in Nat /\ l <= Len(bs) /\ l <= Len(cs)
  BY DEF Blocks
<1>2. Once(cs)
  <2> SUFFICES ASSUME NEW i \in 1..(l + 1), NEW j \in 1..(l + 1), i # j PROVE cs[i] \cap cs[j] = {}
    BY <1>1 DEF Once
  <2>1. \A h \in 1..l : bs[h] \cap S = {}
    BY DEF Mined
  <2>2. CASE i \in 1..l /\ j \in 1..l
    BY <1>1, <2>2 DEF Once
  <2>3. CASE i = l + 1 \/ j = l + 1
    <3>1. (i = l + 1 /\ j \in 1..l) \/ (j = l + 1 /\ i \in 1..l)
      BY <1>1, <2>3
    <3> QED BY <1>1, <2>1, <3>1
  <2> QED BY <1>1, <2>2, <2>3
<1> HIDE DEF cs
<1>3. Below(bs, l) = Mined(bs)
  BY <1>1, BelowIs
<1>4. \A t \in Mined(bs) : t \in Mined(cs) /\ HeightIn(cs, t) = HeightIn(bs, t) /\ HeightIn(cs, t) \in 1..l
  BY <1>1, <1>2, <1>3, SameHeight
<1>5. \A t \in S : t \in Mined(cs) /\ HeightIn(cs, t) = l + 1
  <2>1. l + 1 \in 1..Len(cs)
    BY <1>1
  <2> QED BY <1>1, <1>2, <2>1, OnceHeight
<1>6. \A t \in Mined(cs) : t \in Mined(bs) \/ t \in S
  <2> SUFFICES ASSUME NEW t \in Mined(cs) PROVE t \in Mined(bs) \/ t \in S
    OBVIOUS
  <2>1. PICK i \in 1..Len(cs) : t \in cs[i]
    BY DEF Mined
  <2>2. i \in 1..l \/ i = l + 1
    BY <1>1
  <2> QED BY <1>1, <2>1, <2>2 DEF Mined
<1>7. PaidBefore(cs)
  <2> SUFFICES ASSUME NEW t \in Mined(cs), NEW n \in Spends[t]
               PROVE  /\ n[1] \in Mined(cs) /\ HeightIn(cs, n[1]) <= HeightIn(cs, t)
                      /\ n[2] # "t" => HeightIn(cs, n[1]) < HeightIn(cs, t)
    BY DEF PaidBefore
  <2>1. CASE t \in Mined(bs)
    BY <1>4, <2>1 DEF Proper, PaidBefore
  <2>2. CASE t \in S
    <3>1. CASE n[1] \in Mined(bs)
      BY <1>1, <1>4, <1>5, <2>2, <3>1
    <3>2. CASE n[2] = "t" /\ n[1] \in S
      BY <1>1, <1>5, <2>2, <3>2
    <3> QED BY <2>2, <3>1, <3>2
  <2> QED BY <1>6, <2>1, <2>2
<1>8. OneSpender(cs)
  <2> SUFFICES ASSUME NEW t \in Mined(cs), NEW u \in Mined(cs), NEW n \in Spends[t] \cap Spends[u]
               PROVE  t = u
    BY DEF OneSpender
  <2>1. \A x \in S : \A y \in Mined(bs) : ~(n \in Spends[x] /\ n \in Spends[y])
    BY DEF SpendersIn
  <2>2. CASE t \in Mined(bs) /\ u \in Mined(bs)
    BY <2>2 DEF Proper, OneSpender
  <2>3. CASE t \in S /\ u \in S
    BY <2>3 DEF Conflict
  <2> QED BY <1>6, <2>1, <2>2, <2>3
<1> QED BY <1>7, <1>8 DEF Proper, cs

LEMMA PrefixProper ==
  ASSUME NEW bs \in Seq(Blocks), Once(bs), Proper(bs), NEW e, Made(bs, e), NEW k \in 1..Len(bs)
  PROVE  Proper(SubSeq(bs, 1, k))
<1> DEFINE cs == SubSeq(bs, 1, k)
<1>1. cs \in Seq(Blocks) /\ Len(cs) = k /\ (\A i \in 1..k : cs[i] = bs[i]) /\ Once(cs)
  BY PrefixOnce
<1> HIDE DEF cs
<1>2. k \in Nat /\ k <= Len(bs) /\ k <= Len(cs) /\ \A i \in 1..k : bs[i] = cs[i]
  BY <1>1
<1>3. Below(bs, k) = Mined(cs)
  BY <1>1 DEF Below, Mined
<1>4. \A t \in Mined(cs) : t \in Mined(bs) /\ HeightIn(cs, t) = HeightIn(bs, t)
  BY <1>1, <1>2, <1>3, SameHeight
<1>5. \A t \in Mined(cs) : \A n \in Spends[t] : n[1] \in Mined(cs)
  BY <1>2, <1>3, BelowClosed DEF Proper
<1>6. PaidBefore(cs) /\ OneSpender(cs)
  BY <1>4, <1>5 DEF Proper, PaidBefore, OneSpender
<1> QED BY <1>6 DEF Proper, cs

LEMMA EmptyProper ==
  ASSUME NEW bs, Mined(bs) = {}
  PROVE  Proper(bs)
BY DEF Proper, PaidBefore, OneSpender

LEMMA NoBlocks == Mined(<<>>) = {} /\ Mined(<<{}>>) = {}
<1>1. 1..Len(<<>>) = {} /\ Len(<<{}>>) = 1 /\ <<{}>>[1] = {}
  OBVIOUS
<1> QED BY <1>1 DEF Mined

LEMMA ProperInit == Init => ProperInv
BY NoBlocks, EmptyProper DEF Init, ProperInv

LEMMA ProperNext ==
  ASSUME CoreInv, ChainInv, ProperInv, [Next]_vars
  PROVE  ProperInv'
<1>1. chain \in Seq(Blocks) /\ Once(chain) /\ Made(chain, expiry) /\ Proper(chain)
  BY GoalIs DEF CoreInv, ChainInv, ProperInv
<1>2. CASE \E S \in SUBSET Txs : Mine(S)
  <2>1. PICK S \in SUBSET Txs : Mine(S)
    BY <1>2
  <2>2. chain' = Append(chain, S) /\ synced' = synced /\ view' = view
    BY <2>1 DEF Mine, syncVars
  <2>3. Proper(Append(chain, S))
    BY <1>1, <2>1, AppendProper DEF Mine, Valid
  <2> QED BY <2>2, <2>3 DEF ProperInv
<1>3. CASE \E k \in 1..Len(chain), back \in SUBSET Txs : Reorg(k, back)
  <2>1. PICK k \in 1..Len(chain), back \in SUBSET Txs : Reorg(k, back)
    BY <1>3
  <2>2. chain' = SubSeq(chain, 1, k) /\ synced' = synced /\ view' = view
    BY <2>1 DEF Reorg, syncVars
  <2>3. Proper(SubSeq(chain, 1, k))
    BY <1>1, PrefixProper
  <2> QED BY <2>2, <2>3 DEF ProperInv
<1>4. CASE \E t \in Txs : Arrive(t) \/ Stream(t)
  BY <1>4 DEF Arrive, Stream, syncVars, serverVars, ProperInv
<1>5. CASE Sync
  <2>1. /\ chain' = chain
        /\ \/ view' = view /\ synced' = synced
           \/ view' = chain /\ synced' = synced
           \/ view' = <<>> /\ synced' = view
    BY <1>5 DEF Sync, StartSync, InvalidateBlock, BlocksDone, ReadOldNotes, OrchardPass, FinishSync,
        Detect, LookUpSpent, LookUpUnspent, RecordSpend, ScanTaddr, ScanFull, serverVars
  <2> QED BY <2>1, NoBlocks, EmptyProper DEF ProperInv
<1>6. CASE Scan
  <2>1. UNCHANGED <<chain, view, synced>>
    BY <1>6 DEF Scan, ScanStep, ScanStreamed, ScanOutputs, ScanInputs, MarkUtxo, RecordUtxos, ScanSpends,
        RecordSpends, ScanNotes, InScan, Scanning, syncVars, serverVars
  <2> QED BY <2>1 DEF ProperInv
<1>7. CASE User
  <2>1. /\ chain' = chain /\ synced' = synced /\ (view' = view \/ view' = <<>>)
    BY <1>7 DEF User, Broadcast, MarkSelected, Save, Restart, syncVars, serverVars
  <2> QED BY <2>1, NoBlocks, EmptyProper DEF ProperInv
<1>8. CASE UNCHANGED vars
  BY <1>8 DEF vars, syncVars, serverVars, ProperInv
<1> QED BY <1>2, <1>3, <1>4, <1>5, <1>6, <1>7, <1>8 DEF Next, Server

-----------------------------------------------------------------------------
(* What a wallet has of a chain                                              *)

(* Nobody spends two of the wallet's UTXOs. *)
OneUtxo == \A t \in Txs : \A n, m \in Spends[t] : n[2] = "t" /\ m[2] = "t" => n = m

(* The wallet has the note, and the nullifier of a Sapling note. *)
Ours(w, n) == Known(w, n) /\ (n[2] = "s" => NoteOf(w, n).keyed)

(* The note is there with its transaction, the spend is marked, and counted. *)
Got(w, n)        == Ours(w, n) /\ Confirmed(w, n[1])
Seen(w, n, t)    == Ours(w, n) /\ NoteOf(w, n).spent = t
Counted(w, n, t) == Confirmed(w, t) /\ (n \in w[t].paid \/ (n[2] = "t" /\ ~OneUtxo))

HasAll(w, T) ==
  \A t \in T : /\ \A p \in Outs[t] : Got(w, <<t, p>>)
               /\ \A n \in Spends[t] : Seen(w, n, t) /\ Counted(w, n, t)

(* Only what a transaction spends is counted. *)
InSpends(w) == \A t \in DOMAIN w : w[t].paid \subseteq Spends[t]

(* From w to g, what is counted stays so. *)
PaidKept(w, g) ==
  \A t \in DOMAIN w : t \in DOMAIN g =>
    \A n \in w[t].paid : n \in g[t].paid \/ (n[2] = "t" /\ ~OneUtxo)

Funds(w, g) == InSpends(g) /\ PaidKept(w, g)

(* From w to g, nothing is lost, and only y's spends, if any, are marked anew. *)
Carries(w, g, y) ==
  /\ \A t \in Txs : Confirmed(w, t) => Confirmed(g, t)
  /\ \A n \in Note : Ours(w, n) =>
       /\ Ours(g, n)
       /\ \/ NoteOf(g, n).spent = NoteOf(w, n).spent
          \/ y \in Txs /\ NoteOf(g, n).spent = y /\ n \in Spends[y]
  /\ PaidKept(w, g)

(* y spends nothing that another of the transactions T spends. *)
Alone(y, T) == y \in Txs => \A t \in T : Spends[t] \cap Spends[y] # {} => t = y

LEMMA SpendsAreNotes ==
  ASSUME NEW t \in Txs
  PROVE  /\ \A n \in Spends[t] : n \in Note /\ n[1] \in Txs /\ n[2] \in Pools /\ n[2] \in Outs[n[1]]
                                 /\ n = <<n[1], n[2]>>
         /\ \A p \in Outs[t] : p \in Pools /\ <<t, p>> \in Note /\ <<t, p>>[1] = t /\ <<t, p>>[2] = p
<1>1. Outs[t] \subseteq Pools /\ Spends[t] \subseteq Note
  BY TxAssumption
<1> QED BY <1>1, NoteParts, NoteOfPool, TxAssumption

LEMMA GotCarries ==
  ASSUME NEW w, NEW g, NEW y, Carries(w, g, y), NEW n \in Note, Got(w, n)
  PROVE  Got(g, n)
BY NoteParts DEF Carries, Got

LEMMA SeenCarries ==
  ASSUME NEW w, NEW g, NEW y, Carries(w, g, y), NEW n \in Note, NEW t, Seen(w, n, t),
         n \in Spends[t], NEW T, t \in T, Alone(y, T)
  PROVE  Seen(g, n, t)
BY DEF Carries, Seen, Alone

LEMMA CountedCarries ==
  ASSUME NEW w, NEW g, NEW y, Carries(w, g, y), NEW n, NEW t \in Txs, Counted(w, n, t)
  PROVE  Counted(g, n, t)
BY DEF Carries, Counted, PaidKept, Confirmed

LEMMA HasAllCarries ==
  ASSUME NEW w, NEW g, NEW y, Carries(w, g, y), NEW T, T \subseteq Txs, Alone(y, T), HasAll(w, T)
  PROVE  HasAll(g, T)
<1> SUFFICES ASSUME NEW t \in T
             PROVE  /\ \A p \in Outs[t] : Got(g, <<t, p>>)
                    /\ \A n \in Spends[t] : Seen(g, n, t) /\ Counted(g, n, t)
  BY DEF HasAll
<1>1. \A p \in Outs[t] : Got(g, <<t, p>>)
  BY SpendsAreNotes, GotCarries DEF HasAll
<1>2. \A n \in Spends[t] : Seen(g, n, t) /\ Counted(g, n, t)
  BY SpendsAreNotes, SeenCarries, CountedCarries DEF HasAll
<1> QED BY <1>1, <1>2

LEMMA LedgerCarries ==
  ASSUME NEW w, IsWallet(w), NEW g, NEW t, NEW h, NEW u \in BOOLEAN, NEW M, Ledger(w, g, t, h, u, M),
         NEW bs, NEW l, ConfirmedIn(w, bs, l), Fits(bs, l, t, h, u), PaidKept(w, g),
         NEW y,
         \A n \in Note : n \in M /\ Ours(w, n) =>
           /\ Ours(g, n)
           /\ \/ NoteOf(g, n).spent = NoteOf(w, n).spent
              \/ y \in Txs /\ NoteOf(g, n).spent = y /\ n \in Spends[y]
  PROVE  Carries(w, g, y)
<1>1. Kept(w, g)
  BY HeadsKept DEF Ledger
<1>2. ASSUME NEW n \in Note, n \notin M, Ours(w, n)
      PROVE  Ours(g, n) /\ NoteOf(g, n).spent = NoteOf(w, n).spent
  <2>1. Known(g, n)
    BY <1>2 DEF Ours, Ledger, NotesFrom
  <2>2. SameUse(NoteOf(w, n), NoteOf(g, n))
    BY <1>2, <2>1 DEF Ours, Ledger, NotesFrom
  <2> QED BY <1>2, <2>1, <2>2 DEF Ours, SameUse, SameSpend
<1> QED BY <1>1, <1>2 DEF Carries, Kept

LEMMA StillCarries ==
  ASSUME NEW w, NEW y
  PROVE  Carries(w, w, y)
BY DEF Carries, PaidKept

(* A removal takes away only what it removes. *)
LEMMA RemovalHasAll ==
  ASSUME NEW w, NEW g, NEW removed, Removal(w, g, removed), NEW T, T \subseteq Txs, HasAll(w, T),
         \A t \in T : \A n \in Spends[t] : n[1] \in T,
         \A t \in T : Confirmed(w, t) => t \notin removed
  PROVE  HasAll(g, T)
<1>1. ASSUME NEW n \in Note, Known(w, n), n[1] \notin removed
      PROVE  Known(g, n) /\ NoteOf(g, n).keyed = NoteOf(w, n).keyed
  <2>1. n[1] \in DOMAIN g
    BY <1>1 DEF Removal, Known
  <2>2. Known(g, n)
    BY <1>1, <2>1 DEF Removal, Mapped
  <2> QED BY <2>2 DEF Removal
<1>2. ASSUME NEW t \in T, Confirmed(w, t) PROVE Confirmed(g, t) /\ g[t].paid = w[t].paid
  BY <1>2 DEF Removal, Mapped, SameHead, Confirmed
<1>3. ASSUME NEW t \in T, NEW p \in Outs[t] PROVE Got(g, <<t, p>>)
  <2>1. Got(w, <<t, p>>) /\ <<t, p>> \in Note /\ <<t, p>>[1] = t
    BY SpendsAreNotes DEF HasAll
  <2>2. Confirmed(w, t)
    BY <2>1 DEF Got
  <2> QED BY <1>1, <1>2, <2>1, <2>2 DEF Got, Ours
<1>4. ASSUME NEW t \in T, NEW n \in Spends[t] PROVE Seen(g, n, t) /\ Counted(g, n, t)
  <2>1. Seen(w, n, t) /\ Counted(w, n, t) /\ n \in Note /\ n[1] \in T /\ n[2] \in Outs[n[1]] /\ n = <<n[1], n[2]>>
    BY SpendsAreNotes DEF HasAll
  <2>2. Confirmed(w, t) /\ t \notin removed
    BY <2>1 DEF Counted
  <2>3. Got(w, n)
    BY <2>1 DEF HasAll
  <2>4. n[1] \notin removed
    BY <2>1, <2>3 DEF Got
  <2>5. Known(g, n) /\ NoteOf(g, n).keyed = NoteOf(w, n).keyed
    BY <1>1, <2>1, <2>4 DEF Seen, Ours
  <2>6. NoteOf(g, n).spent = NoteOf(w, n).spent
    BY <2>1, <2>2, <2>5 DEF Removal, Seen
  <2> QED BY <1>2, <2>1, <2>2, <2>5, <2>6 DEF Seen, Counted, Ours
<1> QED BY <1>3, <1>4 DEF HasAll

-----------------------------------------------------------------------------
(* What the operations do to the totals *)

LEMMA FundsSame ==
  ASSUME NEW w, InSpends(w)
  PROVE  Funds(w, w)
BY DEF Funds, PaidKept

LEMMA FundsMapped ==
  ASSUME NEW w, InSpends(w), NEW g, Mapped(w, g)
  PROVE  Funds(w, g)
BY DEF InSpends, Funds, PaidKept, Mapped, SameHead

LEMMA FundsReplaced ==
  ASSUME NEW w, InSpends(w), NEW g, NEW n, NEW d, Replaced(w, g, n, d)
  PROVE  Funds(w, g)
BY DEF InSpends, Funds, PaidKept, Replaced, SameHead

(* One transaction's total is set. *)
LEMMA FundsOne ==
  ASSUME NEW w, InSpends(w), NEW g, NEW t, DOMAIN g = DOMAIN w \cup {t},
         \A x \in DOMAIN w : x # t => g[x].paid = w[x].paid,
         g[t].paid \subseteq Spends[t],
         \A n \in FundsSpentIn(w, t) : n \in g[t].paid \/ (n[2] = "t" /\ ~OneUtxo)
  PROVE  Funds(w, g)
<1>1. InSpends(g)
  BY DEF InSpends
<1>2. t \in DOMAIN w => FundsSpentIn(w, t) = w[t].paid
  BY DEF FundsSpentIn
<1> QED BY <1>1, <1>2 DEF Funds, PaidKept

LEMMA SpentFunds ==
  ASSUME NEW w, InSpends(w), NEW t
  PROVE  FundsSpentIn(w, t) \subseteq Spends[t]
BY DEF InSpends, FundsSpentIn

LEMMA FundsHeadSet ==
  ASSUME NEW w, InSpends(w), NEW g, NEW t, NEW h, NEW u, HeadSet(w, g, t, h, u)
  PROVE  Funds(w, g)
<1>1. /\ DOMAIN g = DOMAIN w \cup {t} /\ g[t].paid = FundsSpentIn(w, t)
      /\ \A x \in DOMAIN w : x # t => g[x].paid = w[x].paid
  BY DEF HeadSet, SameHead
<1> QED BY <1>1, FundsOne, SpentFunds

LEMMA FundsTaddrOutput ==
  ASSUME NEW w, IsWallet(w), InSpends(w), NEW t \in Txs, NEW h \in Nat, NEW u \in BOOLEAN
  PROVE  Funds(w, AddNewTaddrOutput(w, t, h, u))
<1> DEFINE g == AddNewTaddrOutput(w, t, h, u)
           v == GetOrCreateTx(w, t, h, u)
<1>1. GotTx(w, v, t, h, u)
  BY GetOrCreateIs
<1>2. DOMAIN g = DOMAIN w \cup {t} /\ \A x \in DOMAIN g : SameHead(v, g, x)
  BY AddNewTaddrOutputIs
<1> HIDE DEF g, v
<1>3. /\ g[t].paid = FundsSpentIn(w, t)
      /\ \A x \in DOMAIN w : x # t => g[x].paid = w[x].paid
  BY <1>1, <1>2 DEF GotTx, SameHead
<1>4. Funds(w, g)
  BY <1>2, <1>3, FundsOne, SpentFunds
<1> QED BY <1>4 DEF g

(* add_taddr_spent keeps the shielded part of the total, and the wallet's    *)
(* only UTXO among the spends.                                               *)
LEMMA FundsTaddrSpent ==
  ASSUME NEW w, IsWallet(w), InSpends(w), NEW t \in Txs, NEW h \in Nat, NEW u \in BOOLEAN,
         NEW utxos, utxos # {}, \A n \in utxos : n \in Spends[t] /\ n[2] = "t"
  PROVE  Funds(w, AddTaddrSpent(w, t, h, u, utxos)) /\ AddTaddrSpent(w, t, h, u, utxos)[t].unconfirmed = u
         /\ t \in DOMAIN AddTaddrSpent(w, t, h, u, utxos)
         /\ utxos \subseteq AddTaddrSpent(w, t, h, u, utxos)[t].paid
<1> DEFINE g == AddTaddrSpent(w, t, h, u, utxos)
           v == GetOrCreateTx(w, t, h, u)
<1>1. utxos \in SUBSET Note
  BY SpendsAreNotes
<1>2. GotTx(w, v, t, h, u)
  BY GetOrCreateIs
<1>3. UtxosAdded(w, g, t, h, u, utxos)
  BY <1>1, AddTaddrSpentIs
<1> HIDE DEF g
<1>4. /\ DOMAIN g = DOMAIN w \cup {t} /\ g[t].unconfirmed = u
      /\ \A x \in DOMAIN w : x # t => g[x].paid = w[x].paid
      /\ g[t].paid = {n \in v[t].paid : n[2] # "t"} \cup utxos
  BY <1>3 DEF UtxosAdded, SameHead
<1>5. v[t].paid = FundsSpentIn(w, t)
  BY <1>2 DEF GotTx
<1> HIDE DEF v
<1>6. FundsSpentIn(w, t) \subseteq Spends[t]
  BY SpentFunds
<1>7. \A n \in FundsSpentIn(w, t) : n \in g[t].paid \/ (n[2] = "t" /\ ~OneUtxo)
  <2> SUFFICES ASSUME NEW n \in FundsSpentIn(w, t), n[2] = "t", OneUtxo PROVE n \in g[t].paid
    BY <1>4, <1>5
  <2>1. PICK m \in utxos : m \in Spends[t] /\ m[2] = "t"
    OBVIOUS
  <2>2. n = m
    BY <1>6, <2>1 DEF OneUtxo
  <2> QED BY <1>4, <2>1, <2>2
<1>8. g[t].paid \subseteq Spends[t]
  BY <1>4, <1>5, <1>6
<1>9. Funds(w, g)
  BY <1>4, <1>7, <1>8, FundsOne
<1> QED BY <1>4, <1>9 DEF g

LEMMA FundsNewSpent ==
  ASSUME NEW w, IsWallet(w), InSpends(w), NEW t \in Txs, NEW h \in Nat, NEW u \in BOOLEAN,
         NEW n \in Spends[t]
  PROVE  LET g == AddNewSpent(w, t, h, u, n)
         IN  Funds(w, g) /\ t \in DOMAIN g /\ g[t].unconfirmed = u /\ n \in g[t].paid
<1> DEFINE g == AddNewSpent(w, t, h, u, n)
<1>1. n \in Note
  BY SpendsAreNotes
<1>2. SpentAdded(w, g, t, h, u, n)
  BY <1>1, AddNewSpentIs
<1> HIDE DEF g
<1>3. /\ DOMAIN g = DOMAIN w \cup {t} /\ g[t].paid = FundsSpentIn(w, t) \cup {n} /\ g[t].unconfirmed = u
      /\ \A x \in DOMAIN w : x # t => g[x].paid = w[x].paid
  BY <1>2 DEF SpentAdded, SameHead
<1>4. Funds(w, g)
  BY <1>3, FundsOne, SpentFunds
<1> QED BY <1>3, <1>4 DEF g

LEMMA FundsPendingNote ==
  ASSUME NEW w, IsWallet(w), InSpends(w), NEW t \in Txs, NEW h \in Nat
  PROVE  Funds(w, AddPendingNote(w, t, h))
BY AddPendingNoteIs, FundsHeadSet

LEMMA FundsSaplingNote ==
  ASSUME NEW w, IsWallet(w), InSpends(w), NEW t \in Txs, NEW h \in Nat
  PROVE  Funds(w, AddNewSaplingNote(w, t, h))
<1> DEFINE g == AddNewSaplingNote(w, t, h)
<1>1. HeadSet(w, g, t, h, FALSE)
  BY AddNewSaplingNoteIs
<1> HIDE DEF g
<1>2. Funds(w, g)
  BY <1>1, FundsHeadSet
<1> QED BY <1>2 DEF g

-----------------------------------------------------------------------------
(* What a batch still has to do                                              *)

TaddrScan(t) == {s \in scans : s.by = "taddr" /\ s.tx = t}

(* Somebody will still record the output, *)
OutputDue(n) ==
  IF n[2] = "t" THEN n[1] \in taddrQ \/ \E s \in TaddrScan(n[1]) : s.step = "outputs"
  ELSE n \in detect

(* ... find that t spends the note, *)
Searching(n, t) ==
  \/ n \in detect
  \/ oldNotes /\ n[1] \notin NewTxs /\ NoteOf(txns, n).spent = NoTx
  \/ \E u \in upd : u.note = n /\ u.at <= HeightIn(view, t)
SpendDue(n, t) ==
  IF n[2] = "t" THEN \/ t \in taddrQ
                     \/ \E s \in TaddrScan(t) : s.step \in {"outputs", "inputs"} \/ n \in s.toMark
  ELSE Searching(n, t)

(* ... and add it to the total. *)
CountDue(n, t) ==
  IF n[2] = "t" THEN \E s \in TaddrScan(t) : s.step = "mark" /\ n \in s.utxos
  ELSE [note |-> n, spender |-> t] \in found

(* Every new transaction is in the wallet, or somebody will see to it. *)
Seeks(t) ==
  /\ \A p \in Outs[t] : OutputDue(<<t, p>>) \/ Got(txns, <<t, p>>)
  /\ \A n \in Spends[t] :
       SpendDue(n, t) \/ (Seen(txns, n, t) /\ (CountDue(n, t) \/ Counted(txns, n, t)))

BatchInv ==
  phase \in Batch => HasAll(txns, Below(view, keep)) /\ \A t \in NewTxs : Seeks(t)

(* The wallet has what is left of the chain, and the file all of it. *)
IdleInv  == phase \notin Batch => HasAll(txns, Below(synced, left))
SavedInv == HasAll(saved, Mined(synced))
PaidInv  == InSpends(txns) /\ InSpends(saved)

(* What is being sent spends nothing that the wallet's chain spends. *)
SendFree ==
  phase \in {"send", "sendscan"} => \A y \in Mined(synced) : Spends[sending] \cap Spends[y] = {}

(* The transparent transactions are scanned in order. *)
TaddrInv ==
  /\ \A s \in scans : s.by = "taddr" => \A u \in taddrQ : ~Before(u, s.tx)
  /\ \A r, s \in scans : r.by = "taddr" /\ s.by = "taddr" => r = s
UtxoInv ==
  \A s \in scans : /\ \A n \in s.utxos : n \in Spends[s.tx] /\ n[2] = "t"
                   /\ s.step = "mark" => s.toMark \subseteq s.utxos

WholeInv == /\ ProperInv /\ BatchInv /\ IdleInv /\ SavedInv /\ PaidInv
            /\ SendFree /\ TaddrInv /\ UtxoInv

(* From now on, what was due is done or still due. *)
Delivers ==
  \A t \in NewTxs :
    /\ \A p \in Outs[t] : OutputDue(<<t, p>>) => OutputDue(<<t, p>>)' \/ Got(txns', <<t, p>>)
    /\ \A n \in Spends[t] :
         /\ SpendDue(n, t) =>
              SpendDue(n, t)' \/ (Seen(txns', n, t) /\ (CountDue(n, t)' \/ Counted(txns', n, t)))
         /\ CountDue(n, t) => CountDue(n, t)' \/ Counted(txns', n, t)

(* What the actions of a batch have in common *)
LEMMA BatchHas ==
  ASSUME CoreInv, ChainInv, ProperInv, phase \in Batch
  PROVE  /\ \A y \in NewTxs : Alone(y, Mined(view))
         /\ Below(view, keep) \subseteq Mined(view) /\ NewTxs \subseteq Mined(view) /\ Mined(view) \subseteq Txs
         /\ \A t \in NewTxs : \A n \in Spends[t] :
              /\ n[1] \in Below(view, keep) \/ n[1] \in NewTxs
              /\ HeightIn(view, n[1]) <= HeightIn(view, t)
              /\ HeightIn(view, t) \in Nat /\ HeightIn(view, t) > keep
              /\ \A y \in NewTxs : n \in Spends[y] => y = t
<1>1. NewTxs \subseteq Mined(view) /\ \A t \in Mined(view) : t \in NewTxs \/ t \in Below(view, keep)
  BY NewIs
<1>2. Below(view, keep) \subseteq Mined(view) /\ Mined(view) \subseteq Txs
  BY NewIs, BelowIs
<1>3. PaidBefore(view) /\ OneSpender(view)
  BY DEF ProperInv, Proper
<1>4. \A y \in NewTxs : Alone(y, Mined(view))
  BY <1>1, <1>3 DEF OneSpender, Alone
<1>5. ASSUME NEW t \in NewTxs, NEW n \in Spends[t]
      PROVE  /\ n[1] \in Below(view, keep) \/ n[1] \in NewTxs
             /\ HeightIn(view, n[1]) <= HeightIn(view, t)
             /\ HeightIn(view, t) \in Nat /\ HeightIn(view, t) > keep
             /\ \A y \in NewTxs : n \in Spends[y] => y = t
  <2>1. n[1] \in Mined(view) /\ HeightIn(view, n[1]) <= HeightIn(view, t)
    BY <1>1, <1>3 DEF PaidBefore
  <2>2. HeightIn(view, t) \in Nat /\ HeightIn(view, t) > keep
    BY <1>1, NewIs, HeightIs
  <2>3. ASSUME NEW y \in NewTxs, n \in Spends[y] PROVE y = t
    BY <1>1, <1>3, <2>3 DEF OneSpender
  <2> QED BY <1>1, <2>1, <2>2, <2>3
<1> QED BY <1>1, <1>2, <1>4, <1>5

LEMMA BatchWhole ==
  ASSUME CoreInv, ChainInv, ProperInv, BatchInv, phase \in Batch, UNCHANGED <<view, keep>>,
         NEW y, y \in NewTxs \/ y = NoTx \/ Alone(y, Mined(view)), Carries(txns, txns', y), Delivers
  PROVE  BatchInv'
<1>1. Alone(y, Mined(view))
  BY BatchHas, TxAssumption DEF Alone
<1>2. NewTxs' = NewTxs
  BY DEF NewTxs
<1>3. HasAll(txns', Below(view', keep'))
  <2>1. Below(view, keep) \subseteq Mined(view) /\ Below(view, keep) \subseteq Txs
    BY BatchHas
  <2>2. Alone(y, Below(view, keep))
    BY <1>1, <2>1 DEF Alone
  <2>3. HasAll(txns', Below(view, keep))
    BY <2>1, <2>2, HasAllCarries DEF BatchInv
  <2> QED BY <2>3
<1>4. ASSUME NEW t \in NewTxs PROVE Seeks(t)'
  <2>1. t \in Txs /\ t \in Mined(view)
    BY BatchHas
  <2>2. Seeks(t)
    BY DEF BatchInv
  <2>3. ASSUME NEW p \in Outs[t] PROVE OutputDue(<<t, p>>)' \/ Got(txns', <<t, p>>)
    <3>1. OutputDue(<<t, p>>) \/ Got(txns, <<t, p>>)
      BY <2>2 DEF Seeks
    <3>2. Got(txns, <<t, p>>) => Got(txns', <<t, p>>)
      BY <2>1, SpendsAreNotes, GotCarries
    <3> QED BY <3>1, <3>2 DEF Delivers
  <2>4. ASSUME NEW n \in Spends[t]
        PROVE  SpendDue(n, t)' \/ (Seen(txns', n, t) /\ (CountDue(n, t)' \/ Counted(txns', n, t)))
    <3>1. SpendDue(n, t) \/ (Seen(txns, n, t) /\ (CountDue(n, t) \/ Counted(txns, n, t)))
      BY <2>2 DEF Seeks
    <3>2. Seen(txns, n, t) => Seen(txns', n, t)
      BY <1>1, <2>1, SpendsAreNotes, SeenCarries
    <3>3. Counted(txns, n, t) => Counted(txns', n, t)
      BY <2>1, CountedCarries
    <3> QED BY <3>1, <3>2, <3>3 DEF Delivers
  <2> QED BY <2>3, <2>4 DEF Seeks
<1> QED BY <1>2, <1>3, <1>4 DEF BatchInv

(* What does not touch the wallet *)
LEMMA QuietCarries ==
  ASSUME UNCHANGED txns
  PROVE  Carries(txns, txns', NoTx)
BY StillCarries

(* A step with the notes and spends of one new transaction *)
LEMMA BatchCarries ==
  ASSUME CoreInv, HistInv, phase \in Batch, NEW t, NEW h, NEW u \in BOOLEAN, NEW M,
         Ledger(txns, txns', t, h, u, M), Fits(view, Len(view), t, h, u), Funds(txns, txns'), NEW y,
         \A n \in Note : n \in M /\ Ours(txns, n) =>
           /\ Ours(txns', n)
           /\ \/ NoteOf(txns', n).spent = NoteOf(txns, n).spent
              \/ y \in Txs /\ NoteOf(txns', n).spent = y /\ n \in Spends[y]
  PROVE  Carries(txns, txns', y)
<1>1. IsWallet(txns)
  BY CoreWallet
<1>2. ConfirmedIn(txns, view, Len(view))
  BY DEF HistInv, WalletInv, Sound
<1>3. PaidKept(txns, txns')
  BY DEF Funds
<1> QED BY <1>1, <1>2, <1>3, LedgerCarries

(* The notes that were there before the batch *)
LEMMA OldNote ==
  ASSUME CoreInv, ChainInv, ProperInv, BatchInv, phase \in Batch,
         NEW t \in NewTxs, NEW n \in Spends[t], n[1] \notin NewTxs
  PROVE  Got(txns, n) /\ n \in Note /\ n[1] \in Below(view, keep)
<1>1. n[1] \in Below(view, keep) /\ t \in Txs
  BY BatchHas
<1>2. n \in Note /\ n[2] \in Outs[n[1]] /\ n = <<n[1], n[2]>>
  BY <1>1, SpendsAreNotes
<1>3. HasAll(txns, Below(view, keep))
  BY DEF BatchInv
<1>4. Got(txns, <<n[1], n[2]>>)
  BY <1>1, <1>2, <1>3 DEF HasAll
<1> QED BY <1>1, <1>2, <1>4

-----------------------------------------------------------------------------
(* The steps of a batch for the shielded notes                               *)

LEMMA ShieldedDelivers ==
  ASSUME CoreInv, ChainInv, ProperInv, phase \in Batch, UNCHANGED <<taddrQ, scans>>,
         \A n \in detect : n \in detect' \/ Got(txns', n),
         \A t \in NewTxs : \A n \in Spends[t] : n[2] # "t" =>
           /\ Searching(n, t) =>
                Searching(n, t)' \/ (Seen(txns', n, t) /\ (CountDue(n, t)' \/ Counted(txns', n, t)))
           /\ [note |-> n, spender |-> t] \in found =>
                [note |-> n, spender |-> t] \in found' \/ Counted(txns', n, t)
  PROVE  Delivers
<1>1. \A t : TaddrScan(t)' = TaddrScan(t)
  BY DEF TaddrScan
<1>2. ASSUME NEW t \in NewTxs, NEW p \in Outs[t], OutputDue(<<t, p>>)
      PROVE  OutputDue(<<t, p>>)' \/ Got(txns', <<t, p>>)
  <2>1. <<t, p>>[2] = p
    OBVIOUS
  <2> QED BY <1>1, <1>2, <2>1 DEF OutputDue
<1>3. ASSUME NEW t \in NewTxs, NEW n \in Spends[t]
      PROVE  /\ SpendDue(n, t) =>
                  SpendDue(n, t)' \/ (Seen(txns', n, t) /\ (CountDue(n, t)' \/ Counted(txns', n, t)))
             /\ CountDue(n, t) => CountDue(n, t)' \/ Counted(txns', n, t)
  <2>1. CASE n[2] = "t"
    BY <1>1, <2>1 DEF SpendDue, CountDue
  <2>2. CASE n[2] # "t"
    <3>1. (SpendDue(n, t) <=> Searching(n, t)) /\ (SpendDue(n, t)' <=> Searching(n, t)')
      BY <2>2 DEF SpendDue
    <3>2. CountDue(n, t) <=> [note |-> n, spender |-> t] \in found
      BY <2>2 DEF CountDue
    <3>3. CountDue(n, t)' <=> [note |-> n, spender |-> t] \in found'
      BY <2>2 DEF CountDue
    <3> QED BY <2>2, <3>1, <3>2, <3>3
  <2> QED BY <2>1, <2>2
<1> QED BY <1>2, <1>3 DEF Delivers

(* A search for an old note goes on while nothing happens to the note. *)
LEMMA StillSearching ==
  ASSUME CoreInv, ChainInv, ProperInv, BatchInv, phase \in Batch, UNCHANGED <<view, keep>>,
         NEW t \in NewTxs, NEW n \in Spends[t], Searching(n, t), NEW D, NEW U,
         \A m \in detect : m \in detect' \/ m \in D, n \notin D,
         oldNotes' = oldNotes, Got(txns, n) => NoteOf(txns', n).spent = NoteOf(txns, n).spent,
         \A u \in upd : u \in upd' \/ u \in U,
         \A u \in U : u.note = n => ~(u.at <= HeightIn(view, t))
  PROVE  Searching(n, t)'
<1>1. NewTxs' = NewTxs
  BY DEF NewTxs
<1>2. CASE n \in detect
  BY <1>2 DEF Searching
<1>3. CASE oldNotes /\ n[1] \notin NewTxs /\ NoteOf(txns, n).spent = NoTx
  BY <1>1, <1>3, OldNote DEF Searching
<1>4. CASE \E u \in upd : u.note = n /\ u.at <= HeightIn(view, t)
  BY <1>4 DEF Searching
<1> QED BY <1>2, <1>3, <1>4 DEF Searching

LEMMA DetectWhole ==
  ASSUME NoOrchard, CoreInv, HistInv, WholeInv, NEW n \in detect, Detect(n)
  PROVE  BatchInv' /\ Funds(txns, txns')
<1> DEFINE t == n[1]
           h == HeightIn(view, n[1])
           no == FALSE
           one == {n}
<1>1. /\ phase \in Batch /\ UNCHANGED <<view, keep, taddrQ, scans, found, oldNotes>>
      /\ detect' = detect \ {n}
  BY DEF Detect, Batch
<1>2. t \in NewTxs /\ n[2] = "s" /\ n \in Note /\ n = <<t, "s">>
  <2>1. n[1] \in NewTxs /\ n[2] \in {"s", "o"} /\ n[2] \in Outs[n[1]] /\ n \in Note
    BY DEF CoreInv, QueueInv, TypeOK, SyncTypes
  <2>2. n[1] \in Txs
    BY <2>1, NoteParts
  <2>3. n[2] = "s"
    BY <2>1, <2>2 DEF NoOrchard
  <2> QED BY <2>1, <2>3, NoteParts
<1>3. txns' = AddNewSaplingNote(txns, t, h) /\ upd' = upd \cup {[note |-> n, at |-> h]}
  BY <1>2 DEF Detect
<1>4. IsWallet(txns) /\ InSpends(txns) /\ t \in Txs /\ h \in Nat /\ Fits(view, Len(view), t, h, no)
  BY <1>2, CoreWallet, NewFits DEF WholeInv, PaidInv
<1>5. Funds(txns, txns')
  BY <1>3, <1>4, FundsSaplingNote
<1>6. /\ Ledger(txns, txns', t, h, FALSE, {n})
      /\ t \in DOMAIN txns' /\ ~txns'[t].unconfirmed
      /\ Known(txns', n) /\ NoteOf(txns', n).keyed
      /\ NoteOf(txns', n) = FoundNote(txns, n, h)
      /\ \A m \in Note : m # n /\ Known(txns, m) => NoteOf(txns', m) = NoteOf(txns, m)
  <2> DEFINE g == AddNewSaplingNote(txns, t, h)
             k == <<t, "s">>
  <2>1. /\ Ledger(txns, g, t, h, FALSE, {k}) /\ t \in DOMAIN g /\ ~g[t].unconfirmed
        /\ Known(g, k) /\ NoteOf(g, k).keyed
    BY <1>4, SaplingNoteLedger
  <2>2. \A m \in Note : /\ m = k => NoteOf(g, m) = FoundNote(txns, k, h)
                        /\ m # k /\ Known(txns, m) => NoteOf(g, m) = NoteOf(txns, m)
    <3>1. IsWallet(txns)
      BY <1>4
    <3>2. \A x \in Txs, e \in Nat :
            LET g1 == AddNewSaplingNote(txns, x, e)
                k1 == <<x, "s">>
            IN  /\ HeadSet(txns, g1, x, e, FALSE)
                /\ FoundNote(txns, k1, e) \in NoteRec
                /\ \A m \in Note :
                     /\ Known(g1, m) <=> Known(txns, m) \/ m = k1
                     /\ m = k1 => NoteOf(g1, m) = FoundNote(txns, k1, e)
                     /\ m # k1 /\ Known(txns, m) => NoteOf(g1, m) = NoteOf(txns, m)
      BY <3>1, AddNewSaplingNoteIs
    <3>3. t \in Txs /\ h \in Nat
      BY <1>4
    <3> HIDE DEF t, h
    <3> QED BY <3>2, <3>3
  <2>3. txns' = g /\ n = k
    BY <1>2, <1>3
  <2> HIDE DEF g, k
  <2> QED BY <1>2, <2>1, <2>2, <2>3
<1>8. Got(txns', n)
  BY <1>6, <1>2 DEF Got, Ours, Confirmed
<1>9. Ours(txns, n) => NoteOf(txns', n).spent = NoteOf(txns, n).spent /\ Ours(txns', n)
  BY <1>2, <1>4, <1>6, FoundNoteIs DEF Ours
<1>10. Ledger(txns, txns', t, h, no, one)
  BY <1>6
<1>11. \A m \in Note : m \in one /\ Ours(txns, m) =>
         /\ Ours(txns', m)
         /\ \/ NoteOf(txns', m).spent = NoteOf(txns, m).spent
            \/ NoTx \in Txs /\ NoteOf(txns', m).spent = NoTx /\ m \in Spends[NoTx]
  BY <1>9
<1>12. no \in BOOLEAN
  OBVIOUS
<1>13. ChainInv /\ ProperInv /\ BatchInv
  BY DEF HistInv, WholeInv
<1>14. ASSUME NEW y \in NewTxs, NEW m \in Spends[y], m[2] # "t", Searching(m, y)
       PROVE  Searching(m, y)'
  <2>1. CASE m = n
    <3>1. h <= HeightIn(view, y)
      BY <1>1, <1>13, <2>1, BatchHas
    <3>2. [note |-> n, at |-> h] \in upd'
      BY <1>3
    <3> QED BY <1>1, <2>1, <3>1, <3>2 DEF Searching
  <2>2. CASE m # n
    <3>1. Got(txns, m) => NoteOf(txns', m).spent = NoteOf(txns, m).spent
      <4>1. m \in Note
        BY <1>1, <1>13, BatchHas, SpendsAreNotes
      <4> QED BY <1>6, <2>2, <4>1 DEF Got, Ours
    <3> DEFINE none == {}
    <3>2. /\ \A x \in detect : x \in detect' \/ x \in one
          /\ \A u \in upd : u \in upd' \/ u \in none
          /\ \A u \in none : u.note = m => ~(u.at <= HeightIn(view, y))
          /\ m \notin one
      BY <1>1, <1>3, <2>2
    <3> HIDE DEF one, none
    <3> QED BY <1>1, <1>13, <1>14, <3>1, <3>2, StillSearching
  <2> QED BY <2>1, <2>2
<1>15. Delivers
  BY <1>1, <1>8, <1>13, <1>14, ShieldedDelivers
<1> HIDE DEF t, h, no, one
<1>16. Carries(txns, txns', NoTx)
  BY <1>1, <1>4, <1>5, <1>10, <1>11, <1>12, BatchCarries
<1>17. BatchInv'
  BY <1>1, <1>13, <1>15, <1>16, BatchWhole
<1> QED BY <1>5, <1>17

LEMMA ReadOldWhole ==
  ASSUME NoOrchard, Shallow, CoreInv, HistInv, WholeInv, ReadOldNotes
  PROVE  BatchInv'
<1>1. /\ phase \in Batch /\ UNCHANGED <<txns, view, keep, taddrQ, scans, found, detect>>
      /\ upd' = upd \cup {[note |-> n, at |-> keep + 1] : n \in NotesForUpdating(txns, keep)}
  BY DEF ReadOldNotes, Batch
<1>2. ChainInv /\ ProperInv /\ BatchInv
  BY DEF HistInv, WholeInv
<1>3. ASSUME NEW t \in NewTxs, NEW n \in Spends[t], n[2] # "t", n[1] \notin NewTxs,
             NoteOf(txns, n).spent = NoTx
      PROVE  Searching(n, t)'
  <2>1. Got(txns, n) /\ n \in Note /\ n[1] \in Below(view, keep)
    BY <1>1, <1>2, <1>3, OldNote
  <2>2. n[2] = "s"
    <3>1. n[2] \in Pools /\ n[2] \in Outs[n[1]] /\ n[1] \in Txs
      BY <1>1, <1>2, BatchHas, SpendsAreNotes
    <3>2. n[2] # "o"
      BY <3>1 DEF NoOrchard
    <3> QED BY <1>3, <3>1, <3>2 DEF Pools
  <2>3. Known(txns, n) /\ NoteOf(txns, n).keyed /\ Confirmed(txns, n[1])
    BY <2>1, <2>2 DEF Got, Ours
  <2>4. txns[n[1]].block <= keep
    <3>1. n[1] \in Mined(view) /\ HeightIn(view, n[1]) <= keep
      BY <1>1, <1>2, <2>1, NewIs, BelowIs
    <3>2. ConfirmedIn(txns, view, Len(view))
      BY <1>1 DEF HistInv, WalletInv, Sound
    <3> QED BY <2>1, <2>3, <3>1, <3>2, NoteParts DEF ConfirmedIn
  <2>5. Witnesses(NoteOf(txns, n).witness) > 0
    <3>1. WitnessOK(txns, Len(view), n)
      BY <1>1, <2>1, <2>3 DEF HistInv, WalletInv, Sound, WitnessIn
    <3>2. NoteReaches(txns, n, Len(view))
      BY <1>3, <2>2, <2>3, <3>1 DEF WitnessOK
    <3>3. NoteOf(txns, n).witness.from <= NoteOf(txns, n).witness.top
      BY <3>2 DEF NoteReaches, Reaches
    <3>4. NoteOf(txns, n).witness \in WitnessRec
      BY <2>1, <2>3, CoreWallet, NoteOfType DEF NoteRec
    <3> QED BY <3>3, <3>4 DEF Witnesses, WitnessRec
  <2>6. n \in NotesForUpdating(txns, keep)
    BY <1>3, <2>1, <2>2, <2>3, <2>4, <2>5 DEF NotesForUpdating, Confirmed
  <2>7. [note |-> n, at |-> keep + 1] \in upd'
    BY <1>1, <2>6
  <2>8. keep + 1 <= HeightIn(view, t)
    BY <1>1, <1>2, BatchHas, NewIs
  <2> QED BY <1>1, <2>7, <2>8 DEF Searching
<1>4. ASSUME NEW t \in NewTxs, NEW n \in Spends[t], n[2] # "t", Searching(n, t)
      PROVE  Searching(n, t)'
  BY <1>1, <1>3, <1>4 DEF Searching
<1>5. Delivers
  BY <1>1, <1>2, <1>4, ShieldedDelivers
<1>6. Carries(txns, txns', NoTx)
  BY <1>1, QuietCarries
<1> QED BY <1>1, <1>2, <1>5, <1>6, BatchWhole

(* A note of the wallet that is not transparent is a Sapling note. *)
LEMMA ShieldedIsSapling ==
  ASSUME NoOrchard, NEW t \in Txs, NEW n \in Spends[t], n[2] # "t"
  PROVE  n[2] = "s"
<1>1. n[2] \in Pools /\ n[2] \in Outs[n[1]] /\ n[1] \in Txs
  BY SpendsAreNotes
<1>2. n[2] # "o"
  BY <1>1 DEF NoOrchard
<1> QED BY <1>1, <1>2 DEF Pools

(* A search for another note than the one that is changed goes on. *)
LEMMA OthersSearched ==
  ASSUME CoreInv, ChainInv, ProperInv, BatchInv, phase \in Batch,
         UNCHANGED <<view, keep, detect, oldNotes>>, NEW n,
         \A m \in Note : m # n /\ Known(txns, m) => NoteOf(txns', m).spent = NoteOf(txns, m).spent,
         \A u \in upd : u \in upd' \/ u.note = n,
         NEW t \in NewTxs, NEW m \in Spends[t], m # n, Searching(m, t)
  PROVE  Searching(m, t)'
<1> DEFINE none == {}
           U == {u \in upd : u.note = n}
<1>1. Got(txns, m) => NoteOf(txns', m).spent = NoteOf(txns, m).spent
  <2>1. m \in Note
    BY BatchHas, SpendsAreNotes
  <2> QED BY <2>1 DEF Got, Ours
<1>2. /\ \A x \in detect : x \in detect' \/ x \in none
      /\ m \notin none
      /\ \A u \in upd : u \in upd' \/ u \in U
      /\ \A u \in U : u.note = m => ~(u.at <= HeightIn(view, t))
  OBVIOUS
<1> HIDE DEF none, U
<1> QED BY <1>1, <1>2, StillSearching

LEMMA LookUpSpentWhole ==
  ASSUME CoreInv, HistInv, WholeInv, NEW v \in upd, LookUpSpent(v)
  PROVE  BatchInv' /\ Funds(txns, txns')
<1> DEFINE n == v.note
           one == {n}
           yes == TRUE
<1>1. PICK y \in SpendingTxs(v) :
        /\ txns' = MarkTxidNfSpent(txns, n, y, HeightIn(view, y))
        /\ found' = found \cup {[note |-> n, spender |-> y]}
  BY DEF LookUpSpent
<1> DEFINE h == HeightIn(view, y)
<1>2. /\ phase \in Batch /\ phase' = phase /\ UNCHANGED <<view, keep, taddrQ, scans, detect, oldNotes>>
      /\ upd' = upd \ {v}
  BY DEF LookUpSpent, CoreInv, QueueInv
<1>3. n \in Note /\ Known(txns, n) /\ NoteOf(txns, n).keyed /\ IsWallet(txns) /\ InSpends(txns)
  BY CoreWallet DEF CoreInv, TypeOK, SyncTypes, QueueInv, WholeInv, PaidInv
<1>4. y \in NewTxs /\ y \in Txs /\ h \in Nat /\ n \in Spends[y]
  BY <1>1, NewTxsAre DEF SpendingTxs, CoreInv, TypeOK
<1>5. ChainInv /\ ProperInv /\ BatchInv
  BY DEF HistInv, WholeInv
<1>6. \A u \in upd : u \in upd' \/ u.note = n
  BY <1>2
<1>7. \A f \in found : f \in found'
  BY <1>1
<1>8. [note |-> n, spender |-> y] \in found'
  BY <1>1
<1>9. yes \in BOOLEAN /\ yes = TRUE /\ \A m \in one : m = n
  OBVIOUS
<1> HIDE DEF n, h, one, yes
<1> DEFINE d == NoteOf(txns, n)
           e == Marked(d, y, h)
<1>10. IsWallet(txns') /\ Replaced(txns, txns', n, e)
  BY <1>1, <1>3, <1>4, MarkNfIs DEF h
<1>11. Known(txns', n) /\ NoteOf(txns', n) = e /\ e.spent = y /\ e.keyed = d.keyed
  <2>1. d \in NoteRec
    BY <1>3, NoteOfType
  <2> QED BY <1>3, <1>4, <1>10, <2>1, MarkedIs DEF Replaced
<1> HIDE DEF e
<1>12. Seen(txns', n, y)
  BY <1>3, <1>11 DEF Seen, Ours
<1>13. Funds(txns, txns')
  BY <1>3, <1>10, FundsReplaced
<1>14. Ledger(txns, txns', NoTx, 0, yes, one)
  <2>1. Ledger(txns, txns', NoTx, 0, yes, {n})
    BY <1>3, <1>10, ReplacedLedger
  <2> QED BY <2>1 DEF one
<1>15. Fits(view, Len(view), NoTx, 0, yes)
  BY <1>9, CoreWallet, NoneFits
<1>16. Carries(txns, txns', y)
  <2>1. \A m \in Note : m \in one /\ Ours(txns, m) =>
          /\ Ours(txns', m)
          /\ \/ NoteOf(txns', m).spent = NoteOf(txns, m).spent
             \/ y \in Txs /\ NoteOf(txns', m).spent = y /\ m \in Spends[y]
    BY <1>4, <1>9, <1>12, <1>11 DEF Seen
  <2> QED BY <1>2, <1>9, <1>13, <1>14, <1>15, <2>1, BatchCarries
<1>17. \A m \in Note : m # n /\ Known(txns, m) => NoteOf(txns', m).spent = NoteOf(txns, m).spent
  BY <1>10 DEF Replaced
<1>18. ASSUME NEW t \in NewTxs, NEW m \in Spends[t], m[2] # "t", Searching(m, t)
       PROVE  Searching(m, t)' \/ (Seen(txns', m, t) /\ (CountDue(m, t)' \/ Counted(txns', m, t)))
  <2>1. CASE m = n
    <3>1. t = y
      BY <1>2, <1>4, <1>5, <2>1, BatchHas
    <3> QED BY <1>8, <1>12, <1>18, <2>1, <3>1 DEF CountDue
  <2>2. CASE m # n
    BY <1>2, <1>5, <1>6, <1>17, <1>18, <2>2, OthersSearched
  <2> QED BY <2>1, <2>2
<1>19. Delivers
  BY <1>2, <1>5, <1>7, <1>18, ShieldedDelivers
<1>20. BatchInv'
  BY <1>2, <1>4, <1>5, <1>16, <1>19, BatchWhole
<1> QED BY <1>13, <1>20

LEMMA LookUpUnspentWhole ==
  ASSUME CoreInv, HistInv, WholeInv, NEW v \in upd, LookUpUnspent(v)
  PROVE  BatchInv' /\ Funds(txns, txns')
<1> DEFINE n == v.note
           one == {n}
           yes == TRUE
<1>1. /\ phase \in Batch /\ phase' = phase
      /\ UNCHANGED <<view, keep, taddrQ, scans, detect, oldNotes, found>>
      /\ upd' = upd \ {v} /\ SpendingTxs(v) = {}
  BY DEF LookUpUnspent, CoreInv, QueueInv
<1>2. n \in Note /\ Known(txns, n) /\ NoteOf(txns, n).keyed /\ IsWallet(txns) /\ InSpends(txns)
  BY CoreWallet DEF CoreInv, TypeOK, SyncTypes, QueueInv, WholeInv, PaidInv
<1>3. ChainInv /\ ProperInv /\ BatchInv
  BY DEF HistInv, WholeInv
<1>4. PICK c : txns' = SetNote(txns, n, [NoteOf(txns, n) EXCEPT !.witness = c]) /\ c \in WitnessRec
  <2> DEFINE start == IF n[1] \in NewTxs THEN [FirstWitness(v.at) EXCEPT !.whole = TRUE]
                      ELSE NoteOf(txns, n).witness
             c == UpdateAfterBlock(start, Len(view))
  <2>1. start \in WitnessRec
    <3>1. v.at \in Nat
      BY DEF CoreInv, TypeOK, SyncTypes
    <3>2. FirstWitness(v.at) \in WitnessRec
      BY <3>1, WitnessTypes
    <3>3. NoteOf(txns, n).witness \in WitnessRec
      BY <1>2, NoteOfType DEF NoteRec
    <3> QED BY <3>2, <3>3 DEF WitnessRec
  <2>2. Len(view) \in Nat
    BY GoalIs DEF CoreInv
  <2> HIDE DEF start
  <2>3. c \in WitnessRec
    BY <2>1, <2>2, UpdateTypes
  <2>4. txns' = SetNote(txns, n, [NoteOf(txns, n) EXCEPT !.witness = c])
    BY DEF LookUpUnspent, start
  <2> QED BY <2>3, <2>4
<1>5. yes \in BOOLEAN /\ yes = TRUE /\ \A m \in one : m = n
  OBVIOUS
<1>6. ASSUME NEW t \in NewTxs, NEW u \in upd, n \in Spends[t], u \notin upd'
      PROVE  ~(u.at <= HeightIn(view, t))
  <2>1. u = v
    BY <1>1, <1>6
  <2>2. HeightIn(view, t) \in Nat /\ v.at \in Nat
    BY <1>1, <1>3, <1>6, BatchHas DEF CoreInv, TypeOK, SyncTypes
  <2>3. t \notin SpendingTxs(v)
    BY <1>1
  <2> QED BY <1>6, <2>1, <2>2, <2>3 DEF SpendingTxs
<1>7. \A u \in upd : u \in upd' \/ u.note = n
  BY <1>1
<1> HIDE DEF n, one, yes
<1> DEFINE d == NoteOf(txns, n)
           e == [d EXCEPT !.witness = c]
<1>8. d \in NoteRec
  BY <1>2, NoteOfType
<1>9. e \in NoteRec /\ e.spent = d.spent /\ e.keyed = d.keyed
  BY <1>4, <1>8 DEF NoteRec
<1>10. IsWallet(txns') /\ Replaced(txns, txns', n, e)
  <2> HIDE DEF e
  <2>1. txns' = SetNote(txns, n, e)
    BY <1>4 DEF e
  <2> QED BY <1>2, <1>9, <2>1, ReplaceIs
<1> HIDE DEF e
<1>11. Known(txns', n) /\ NoteOf(txns', n) = e
  BY <1>2, <1>10 DEF Replaced
<1>12. Funds(txns, txns')
  BY <1>2, <1>10, FundsReplaced
<1>13. Ledger(txns, txns', NoTx, 0, yes, one)
  <2>1. Ledger(txns, txns', NoTx, 0, yes, {n})
    BY <1>2, <1>10, ReplacedLedger
  <2> QED BY <2>1 DEF one
<1>14. Fits(view, Len(view), NoTx, 0, yes)
  BY <1>5, CoreWallet, NoneFits
<1>15. Carries(txns, txns', NoTx)
  <2>1. \A m \in Note : m \in one /\ Ours(txns, m) =>
          /\ Ours(txns', m)
          /\ \/ NoteOf(txns', m).spent = NoteOf(txns, m).spent
             \/ NoTx \in Txs /\ NoteOf(txns', m).spent = NoTx /\ m \in Spends[NoTx]
    BY <1>2, <1>5, <1>9, <1>11 DEF Ours
  <2> QED BY <1>1, <1>5, <1>12, <1>13, <1>14, <2>1, BatchCarries
<1>16. ASSUME NEW t \in NewTxs, NEW m \in Spends[t], m[2] # "t", Searching(m, t)
       PROVE  Searching(m, t)'
  <2>1. NoteOf(txns', m).spent = NoteOf(txns, m).spent \/ ~Known(txns, m)
    <3>1. m \in Note
      BY <1>1, <1>3, BatchHas, SpendsAreNotes
    <3> QED BY <1>9, <1>10, <3>1 DEF Replaced
  <2> DEFINE none == {}
             U == {u \in upd : u \notin upd'}
  <2>2. /\ \A x \in detect : x \in detect' \/ x \in none
        /\ m \notin none
        /\ \A u \in upd : u \in upd' \/ u \in U
    BY <1>1
  <2>3. \A u \in U : u.note = m => ~(u.at <= HeightIn(view, t))
    BY <1>6, <1>7
  <2>4. Got(txns, m) => NoteOf(txns', m).spent = NoteOf(txns, m).spent
    BY <2>1 DEF Got, Ours
  <2> HIDE DEF none, U
  <2> QED BY <1>1, <1>3, <1>16, <2>2, <2>3, <2>4, StillSearching
<1>17. Delivers
  BY <1>1, <1>3, <1>16, ShieldedDelivers
<1>18. BatchInv'
  BY <1>1, <1>3, <1>15, <1>17, BatchWhole
<1> QED BY <1>12, <1>18

LEMMA RecordSpendWhole ==
  ASSUME NoOrchard, Shallow, CoreInv, HistInv, WholeInv, NEW f \in found, RecordSpend(f)
  PROVE  BatchInv' /\ Funds(txns, txns')
<1> DEFINE n == f.note
           y == f.spender
           h == HeightIn(view, y)
           one == {n}
           no == FALSE
<1>1. /\ phase \in Batch /\ phase' = phase /\ found' = found \ {f}
      /\ UNCHANGED <<view, keep, taddrQ, scans, detect, oldNotes, upd>>
      /\ txns' = AddNewSpent(txns, y, h, FALSE, n)
  BY DEF RecordSpend, CoreInv, QueueInv
<1>2. n \in Note /\ IsWallet(txns) /\ InSpends(txns) /\ n \in Spends[y] /\ y \in NewTxs
      /\ f = [note |-> n, spender |-> y]
  BY CoreWallet DEF CoreInv, TypeOK, SyncTypes, QueueInv, HistInv, NoteWork, WholeInv, PaidInv
<1>3. ChainInv /\ ProperInv /\ BatchInv
  BY DEF HistInv, WholeInv
<1>4. no = FALSE /\ no \in BOOLEAN /\ one = {n}
  OBVIOUS
<1>5. \A g \in found : g \in found' \/ g = f
  BY <1>1
<1>6. n \in Waiting
  BY DEF Waiting
<1> HIDE DEF no, one
<1>7. Fits(view, Len(view), y, h, no) /\ y \in Txs /\ h \in Nat
  BY <1>2, <1>4, NewFits
<1> HIDE DEF n, y, h
<1>8. /\ Ledger(txns, txns', y, h, no, one)
      /\ y \in DOMAIN txns' /\ ~txns'[y].unconfirmed
      /\ Known(txns, n) =>
           NoteOf(txns', n).spent = y /\ NoteOf(txns', n).keyed = NoteOf(txns, n).keyed
  <2> DEFINE g == AddNewSpent(txns, y, h, no, n)
             M == IF no THEN {} ELSE {n}
  <2>1. /\ Ledger(txns, g, y, h, no, M)
        /\ y \in DOMAIN g /\ g[y].unconfirmed = no
        /\ ~no /\ Known(txns, n) =>
             /\ NoteOf(g, n).spent = y
             /\ NoteOf(g, n).keyed = NoteOf(txns, n).keyed
    <3>1. /\ IsWallet(txns) /\ y \in Txs /\ h \in Nat /\ no \in BOOLEAN /\ n \in Note
      BY <1>2, <1>4, <1>7
    <3> QED BY <3>1, NewSpentLedger
  <2>2. M = one /\ g = txns'
    BY <1>1, <1>4 DEF no
  <2> HIDE DEF g, M
  <2> QED BY <1>4, <2>1, <2>2
<1>9. Funds(txns, txns') /\ n \in txns'[y].paid
  <2>1. txns' = AddNewSpent(txns, y, h, no, n)
    BY <1>1 DEF no
  <2> QED BY <1>2, <1>4, <1>7, <2>1, FundsNewSpent
<1>10. Counted(txns', n, y)
  BY <1>8, <1>9 DEF Counted, Confirmed
<1>11. Known(txns, n) => Known(txns', n)
  BY <1>2, <1>8 DEF Ledger, NotesFrom
<1>12. Ours(txns, n) => Ours(txns', n) /\ NoteOf(txns', n).spent = y
  BY <1>8, <1>11 DEF Ours
<1>13. Carries(txns, txns', y)
  <2>1. \A m \in Note : m \in one /\ Ours(txns, m) =>
          /\ Ours(txns', m)
          /\ \/ NoteOf(txns', m).spent = NoteOf(txns, m).spent
             \/ y \in Txs /\ NoteOf(txns', m).spent = y /\ m \in Spends[y]
    BY <1>2, <1>4, <1>7, <1>12
  <2> QED BY <1>1, <1>4, <1>7, <1>8, <1>9, <2>1, BatchCarries
<1>14. \A m \in Note : m # n /\ Known(txns, m) => NoteOf(txns', m).spent = NoteOf(txns, m).spent
  BY <1>4, <1>8 DEF Ledger, NotesFrom, SameUse, SameSpend
<1>15. ASSUME NEW t \in NewTxs, NEW m \in Spends[t], m[2] # "t"
       PROVE  /\ Searching(m, t) =>
                   Searching(m, t)' \/ (Seen(txns', m, t) /\ (CountDue(m, t)' \/ Counted(txns', m, t)))
              /\ [note |-> m, spender |-> t] \in found =>
                   [note |-> m, spender |-> t] \in found' \/ Counted(txns', m, t)
  <2>1. CASE m = n
    <3>1. t = y
      BY <1>1, <1>2, <1>3, <2>1, BatchHas
    <3>2. m[2] = "s"
      BY <1>15, <3>1, <1>7, ShieldedIsSapling
    <3>3. Ours(txns, n)
      BY <1>1, <1>6, <2>1, <3>2, WaitingIs DEF Ours
    <3>4. Seen(txns', m, t)
      BY <1>12, <2>1, <3>1, <3>3 DEF Seen
    <3> QED BY <1>10, <2>1, <3>1, <3>4
  <2>2. CASE m # n
    <3>1. \A u \in upd : u \in upd' \/ u.note = n
      BY <1>1
    <3>2. Searching(m, t) => Searching(m, t)'
      BY <1>1, <1>3, <1>14, <2>2, <3>1, OthersSearched
    <3>3. [note |-> m, spender |-> t] # f
      BY <1>2, <2>2
    <3> QED BY <1>5, <3>2, <3>3
  <2> QED BY <2>1, <2>2
<1>16. Delivers
  BY <1>1, <1>3, <1>15, ShieldedDelivers
<1>17. BatchInv'
  BY <1>1, <1>2, <1>3, <1>13, <1>16, BatchWhole
<1> QED BY <1>9, <1>17

(* The Orchard pass starts when nothing shielded is due. *)
LEMMA OrchardPassWhole ==
  ASSUME CoreInv, HistInv, WholeInv, OrchardPass
  PROVE  BatchInv' /\ Funds(txns, txns')
<1> DEFINE none == {}
           yes == TRUE
<1>1. /\ phase \in Batch /\ phase' \in Batch
      /\ UNCHANGED <<view, keep, taddrQ, scans, found, detect>>
      /\ detect = {} /\ ~oldNotes /\ upd = {} /\ found = {}
  BY DEF OrchardPass, Batch
<1>2. txns' = Placed(txns, NewTxs)
  BY DEF OrchardPass, Placed
<1>3. IsWallet(txns) /\ InSpends(txns) /\ ChainInv /\ ProperInv /\ BatchInv
  BY CoreWallet DEF WholeInv, PaidInv, HistInv
<1>4. Funds(txns, txns')
  BY <1>2, <1>3, PlacedIs, FundsMapped
<1>5. Ledger(txns, txns', NoTx, 0, yes, none)
  BY <1>2, <1>3, PlacedLedger
<1>6. yes \in BOOLEAN /\ yes = TRUE /\ \A m : m \notin none
  OBVIOUS
<1> HIDE DEF none, yes
<1>7. Fits(view, Len(view), NoTx, 0, yes)
  BY <1>6, CoreWallet, NoneFits
<1>8. Carries(txns, txns', NoTx)
  BY <1>1, <1>4, <1>5, <1>6, <1>7, BatchCarries
<1>9. \A t, n : ~Searching(n, t)
  BY <1>1 DEF Searching
<1>10. Delivers
  BY <1>1, <1>3, <1>9, ShieldedDelivers
<1>11. BatchInv'
  BY <1>1, <1>3, <1>8, <1>10, BatchWhole
<1> QED BY <1>4, <1>11

-----------------------------------------------------------------------------
(* Between two batches                                                       *)

(* What is left of the chain, and what the wallet has of it *)
LEMMA LeftIs ==
  ASSUME CoreInv, HistInv, WholeInv
  PROVE  /\ left \in Nat /\ left <= Len(synced) /\ synced \in Seq(Blocks) /\ view \in Seq(Blocks)
         /\ Once(synced) /\ Once(view) /\ PaidBefore(synced) /\ PaidBefore(view)
         /\ Below(synced, left) \subseteq Mined(synced) /\ Mined(synced) \subseteq Txs
         /\ \A t : t \in Below(synced, left) <=> t \in Mined(synced) /\ HeightIn(synced, t) <= left
         /\ \A t \in Mined(synced) : HeightIn(synced, t) \in Nat
         /\ phase \notin Batch => HasAll(txns, Below(synced, left))
         /\ phase \notin Batch => ConfirmedIn(txns, synced, left)
         /\ left = Len(synced) => Below(synced, left) = Mined(synced)
<1>1. /\ left \in Nat /\ left <= Len(synced) /\ synced \in Seq(Blocks) /\ view \in Seq(Blocks)
      /\ Once(synced) /\ Once(view) /\ PaidBefore(synced) /\ PaidBefore(view)
  BY GoalIs DEF CoreInv, HistInv, ChainInv, WholeInv, ProperInv, Proper
<1>2. \A t \in Mined(synced) : HeightIn(synced, t) \in Nat
  BY <1>1, HeightIs
<1>3. /\ phase \notin Batch => HasAll(txns, Below(synced, left))
      /\ phase \notin Batch => ConfirmedIn(txns, synced, left)
  BY DEF WholeInv, IdleInv, HistInv, WalletInv, Sound
<1> QED BY <1>1, <1>2, <1>3, BelowIs

LEMMA InvalidateWhole ==
  ASSUME CoreInv, HistInv, WholeInv, InvalidateBlock
  PROVE  IdleInv' /\ Funds(txns, txns')
<1>1. /\ phase \notin Batch /\ phase' \notin Batch /\ UNCHANGED synced /\ left' = left - 1 /\ left > keep
      /\ txns' = RemoveTxnsAtHeight(txns, left)
  BY DEF InvalidateBlock, Batch
<1>2. left \in Nat /\ keep \in Nat /\ left - 1 \in Nat /\ left - 1 <= Len(synced)
  BY <1>1, LeftIs, GoalIs DEF CoreInv
<1> DEFINE removed == {t \in DOMAIN txns : txns[t].block >= left}
           T == Below(synced, left - 1)
<1>3. Removal(txns, txns', removed)
  BY <1>1, <1>2, CoreWallet, ReorgRemoval
<1>4. \A t \in T : t \in Below(synced, left) /\ t \in Mined(synced) /\ t \in Txs /\ HeightIn(synced, t) <= left - 1
  BY <1>2, LeftIs, BelowIs
<1>5. HasAll(txns, T)
  BY <1>1, <1>4, LeftIs DEF HasAll
<1>6. \A t \in T : Confirmed(txns, t) => t \notin removed
  BY <1>1, <1>2, <1>4, LeftIs DEF ConfirmedIn
<1>7. \A t \in T : \A n \in Spends[t] : n[1] \in T
  BY <1>2, LeftIs, BelowClosed
<1>8. Funds(txns, txns')
  BY <1>3, FundsMapped DEF Removal, WholeInv, PaidInv
<1>9. T \subseteq Txs
  BY <1>4
<1> HIDE DEF removed, T
<1>10. HasAll(txns', T)
  BY <1>3, <1>5, <1>6, <1>7, <1>9, RemovalHasAll
<1> QED BY <1>1, <1>8, <1>10 DEF IdleInv, T

(* When the processors get their work, everything new is due, and whoever    *)
(* spends an old note is new.                                                *)
LEMMA BlocksDoneWhole ==
  ASSUME NoOrchard, CoreInv, HistInv, WholeInv, BlocksDone
  PROVE  BatchInv'
<1>1. /\ phase = "reorg" /\ phase \notin Batch /\ phase' \in Batch /\ left = keep
      /\ UNCHANGED <<view, keep, txns, upd, found, synced, left>>
      /\ detect' = {n \in NewTxs \X {"s", "o"} : n[2] \in Outs[n[1]]}
      /\ oldNotes' = TRUE
      /\ taddrQ' = {t \in NewTxs : Transparent(t)}
  BY DEF BlocksDone, Batch
<1>2. NewTxs' = NewTxs
  BY <1>1 DEF NewTxs
<1>3. Agree(synced, view, keep) /\ Once(view) /\ Proper(view)
  BY <1>1 DEF HistInv, ChainInv, Goal, Syncing, WholeInv, ProperInv
<1>4. Below(synced, keep) = Below(view, keep)
  BY <1>3, BelowAgrees, GoalIs DEF CoreInv
<1>5. HasAll(txns, Below(view, keep))
  BY <1>1, <1>4, LeftIs
<1>6. /\ NewTxs \subseteq Mined(view) /\ NewTxs \subseteq Txs
      /\ \A t \in Mined(view) : t \in NewTxs <=> t \notin Below(view, keep)
  BY <1>1, NewIs DEF HistInv
<1>7. ASSUME NEW t \in NewTxs, NEW n \in Spends[t], n[2] # "t"
      PROVE  Searching(n, t)'
  <2>1. n[2] = "s"
    BY <1>6, <1>7, ShieldedIsSapling
  <2>2. n \in Note /\ n[2] \in Outs[n[1]] /\ n = <<n[1], n[2]>> /\ t \in Mined(view)
    BY <1>6, SpendsAreNotes
  <2>3. CASE n[1] \in NewTxs
    <3>1. n \in detect'
      BY <1>1, <2>1, <2>2, <2>3
    <3> QED BY <3>1 DEF Searching
  <2>4. CASE n[1] \notin NewTxs
    <3>1. n[1] \in Below(view, keep)
      BY <1>3, <1>6, <2>2, <2>4 DEF Proper, PaidBefore
    <3>2. Got(txns, <<n[1], n[2]>>)
      BY <1>5, <2>2, <3>1 DEF HasAll
    <3>3. Known(txns, n)
      BY <2>2, <3>2 DEF Got, Ours
    <3>4. NoteOf(txns, n).spent = NoTx
      <4> SUFFICES ASSUME NoteOf(txns, n).spent # NoTx PROVE FALSE
        OBVIOUS
      <4> DEFINE x == NoteOf(txns, n).spent
      <4>1. SpentOK(txns, {}, synced, n)
        BY <1>1, <2>2, <3>3 DEF HistInv, WalletInv, Sound, SpentIn
      <4>2. n \in Spends[x] /\ Confirmed(txns, x)
        BY <2>1, <4>1 DEF SpentOK, Settled, Unrecorded
      <4>3. x \in Txs
        BY <2>2, <3>3, CoreWallet, SpenderIs
      <4>4. x \in Below(synced, left)
        BY <1>1, <4>2, <4>3, LeftIs DEF ConfirmedIn
      <4>5. x \in Mined(view) /\ x \notin NewTxs
        <5>1. x \in Below(view, keep)
          BY <1>1, <1>4, <4>4
        <5>2. keep \in Nat /\ keep <= Len(view)
          BY <1>3, GoalIs DEF CoreInv, Agree
        <5> QED BY <1>3, <1>6, <5>1, <5>2, LeftIs, BelowIs
      <4>6. x = t
        BY <1>3, <2>2, <4>2, <4>5 DEF Proper, OneSpender
      <4> QED BY <4>5, <4>6
    <3> QED BY <1>1, <1>2, <2>4, <3>4 DEF Searching
  <2> QED BY <2>3, <2>4
<1>8. ASSUME NEW t \in NewTxs PROVE Seeks(t)'
  <2>1. ASSUME NEW p \in Outs[t] PROVE OutputDue(<<t, p>>)'
    <3>1. <<t, p>>[1] = t /\ <<t, p>>[2] = p /\ p \in Pools
      BY <1>6, SpendsAreNotes
    <3>2. CASE p = "t"
      BY <1>1, <3>1, <3>2 DEF OutputDue, Transparent
    <3>3. CASE p # "t"
      <4>1. <<t, p>> \in detect'
        BY <1>1, <3>1, <3>3 DEF Pools
      <4> QED BY <3>1, <3>3, <4>1 DEF OutputDue
    <3> QED BY <3>2, <3>3
  <2>2. ASSUME NEW n \in Spends[t] PROVE SpendDue(n, t)'
    <3>1. CASE n[2] = "t"
      BY <1>1, <3>1 DEF SpendDue, Transparent
    <3>2. CASE n[2] # "t"
      BY <1>7, <3>2 DEF SpendDue
    <3> QED BY <3>1, <3>2
  <2> QED BY <2>1, <2>2 DEF Seeks
<1> QED BY <1>1, <1>2, <1>5, <1>8 DEF BatchInv

(* A batch ends when nothing is due, and only unconfirmed transactions       *)
(* expire.                                                                   *)
LEMMA FinishWhole ==
  ASSUME CoreInv, HistInv, WholeInv, FinishSync
  PROVE  IdleInv' /\ SavedInv' /\ Funds(txns, txns')
<1>1. /\ phase = "orchard" /\ phase \in Batch /\ phase' = "idle" /\ phase' \notin Batch
      /\ upd = {} /\ found = {} /\ taddrQ = {}
      /\ \A s \in scans : s.by = "mempool"
      /\ txns' = ClearExpiredMempool(ClearOldWitnesses(txns, Len(view)), Len(view))
      /\ saved' = txns' /\ synced' = view /\ left' = Len(view)
  BY DEF FinishSync, Batch
<1>2. detect = {} /\ ~oldNotes
  BY <1>1 DEF CoreInv, QueueInv
<1>3. ChainInv /\ ProperInv /\ BatchInv /\ InSpends(txns) /\ PaidBefore(view)
  BY DEF HistInv, WholeInv, PaidInv, ProperInv, Proper
<1>4. ASSUME NEW t \in NewTxs
      PROVE  /\ \A p \in Outs[t] : Got(txns, <<t, p>>)
             /\ \A n \in Spends[t] : Seen(txns, n, t) /\ Counted(txns, n, t)
  <2>1. Seeks(t)
    BY <1>1, <1>3 DEF BatchInv
  <2>2. \A x : TaddrScan(x) = {}
    BY <1>1 DEF TaddrScan
  <2>3. \A n : ~OutputDue(n)
    BY <1>1, <1>2, <2>2 DEF OutputDue
  <2>4. \A n : ~SpendDue(n, t) /\ ~CountDue(n, t)
    BY <1>1, <1>2, <2>2 DEF SpendDue, CountDue, Searching
  <2> QED BY <2>1, <2>3, <2>4 DEF Seeks
<1>5. HasAll(txns, Mined(view))
  <2>1. \A t \in Mined(view) : t \in NewTxs \/ t \in Below(view, keep)
    BY <1>1, <1>3, NewIs
  <2>2. HasAll(txns, Below(view, keep))
    BY <1>1, <1>3 DEF BatchInv
  <2> QED BY <1>4, <2>1, <2>2 DEF HasAll
<1>6. Len(view) \in Nat /\ view \in Seq(Blocks) /\ Mined(view) \subseteq Txs
      /\ Below(view, Len(view)) = Mined(view)
  <2>1. Len(view) \in Nat /\ view \in Seq(Blocks) /\ Once(view)
    BY <1>1, <1>3, GoalIs, NewIs DEF CoreInv
  <2> DEFINE l == Len(view)
  <2>2. l \in Nat /\ l <= Len(view) /\ l = Len(view)
    BY <2>1
  <2> HIDE DEF l
  <2>3. \A t : Below(view, l) \subseteq Mined(view) /\ Mined(view) \subseteq Txs
               /\ (l = Len(view) => Below(view, l) = Mined(view))
    BY <2>1, <2>2, BelowIs
  <2> QED BY <2>1, <2>2, <2>3
<1> DEFINE removed == ExpiredIn(txns, Len(view))
<1>7. Removal(txns, txns', removed)
  BY <1>1, <1>6, CoreWallet, ExpiryRemoval
<1>8. \A t \in Mined(view) : Confirmed(txns, t) => t \notin removed
  BY DEF Confirmed, ExpiredIn
<1>9. \A t \in Mined(view) : \A n \in Spends[t] : n[1] \in Mined(view)
  BY <1>3 DEF PaidBefore
<1>10. Funds(txns, txns')
  BY <1>3, <1>7, FundsMapped DEF Removal
<1> HIDE DEF removed
<1>11. HasAll(txns', Mined(view))
  BY <1>5, <1>6, <1>7, <1>8, <1>9, RemovalHasAll
<1> QED BY <1>1, <1>6, <1>10, <1>11 DEF IdleInv, SavedInv

-----------------------------------------------------------------------------
(* The steps of the scans                                                    *)

(* When a transparent transaction is scanned, the outputs it spends, which   *)
(* come before it, are recorded.                                             *)
LEMMA UtxoKnown ==
  ASSUME CoreInv, HistInv, WholeInv, phase \in Batch, NEW s \in scans, s.by = "taddr",
         s.step # "outputs", NEW n \in Spends[s.tx], n[2] = "t"
  PROVE  Known(txns, n)
<1> DEFINE t == s.tx
<1>1. t \in NewTxs /\ ChainInv /\ ProperInv /\ BatchInv
  <2>1. ~s.unconfirmed
    BY WhoScans
  <2> QED BY <2>1 DEF HistInv, ScanWork, WholeInv
<1>2. t \in Txs /\ n = <<n[1], n[2]>> /\ n[2] \in Outs[n[1]]
  BY <1>1, BatchHas, SpendsAreNotes
<1>3. CASE n[1] \notin NewTxs
  BY <1>1, <1>3, OldNote DEF Got, Ours
<1>4. CASE n[1] \in NewTxs
  <2>1. HeightIn(view, n[1]) <= HeightIn(view, t) /\ HeightIn(view, n[1]) \in Nat /\ HeightIn(view, t) \in Nat
    BY <1>1, <1>4, BatchHas, NewFits
  <2>2. Before(n[1], t)
    BY <1>2, <2>1, OrderAssumption DEF Before
  <2>3. n[1] \notin taddrQ
    BY <2>2 DEF WholeInv, TaddrInv
  <2>4. \A r \in TaddrScan(n[1]) : r = s
    BY DEF WholeInv, TaddrInv, TaddrScan
  <2>5. ~OutputDue(<<n[1], "t">>)
    BY <2>3, <2>4 DEF OutputDue
  <2>6. Seeks(n[1])
    BY <1>1, <1>4 DEF BatchInv
  <2>7. Got(txns, <<n[1], "t">>)
    BY <1>2, <2>5, <2>6 DEF Seeks
  <2> QED BY <1>2, <2>7 DEF Got, Ours
<1> QED BY <1>3, <1>4

(* A scan begins. *)
LEMMA ScanBegunWhole ==
  ASSUME CoreInv, HistInv, WholeInv, NEW t, (t \in taddrQ /\ ScanTaddr(t)) \/ (t \in fullQ /\ ScanFull(t))
  PROVE  BatchInv' /\ TaddrInv' /\ UtxoInv'
<1>1. PICK s \in {NewScan("taddr", t, HeightIn(view, t), FALSE), NewScan("full", t, HeightIn(view, t), FALSE)} :
        /\ phase \in Batch /\ phase' = phase
        /\ UNCHANGED <<txns, view, keep, detect, oldNotes, upd, found>>
        /\ scans' = scans \cup {s}
        /\ \/ /\ s.by = "taddr" /\ taddrQ' = taddrQ \ {t} /\ \A u \in taddrQ : ~Before(u, t)
              /\ \A r \in scans : r.by # "taddr"
           \/ s.by = "full" /\ taddrQ' = taddrQ
  BY DEF ScanTaddr, ScanFull, CoreInv, QueueInv, NewScan
<1>2. s.tx = t /\ s.step = "outputs" /\ s.utxos = {} /\ s.toMark = {}
  BY <1>1 DEF NewScan
<1>3. ChainInv /\ ProperInv /\ BatchInv /\ TaddrInv /\ UtxoInv
  BY DEF HistInv, WholeInv
<1>4. NewTxs' = NewTxs
  BY <1>1 DEF NewTxs
<1>5. \A x : TaddrScan(x) \subseteq TaddrScan(x)'
  BY <1>1 DEF TaddrScan
<1>6. \A x \in taddrQ : x \in taddrQ' \/ \E r \in TaddrScan(x)' : r.step = "outputs"
  BY <1>1, <1>2 DEF TaddrScan
<1>7. ASSUME NEW n, OutputDue(n) PROVE OutputDue(n)'
  BY <1>1, <1>5, <1>6, <1>7 DEF OutputDue
<1>8. ASSUME NEW n, NEW y, SpendDue(n, y) PROVE SpendDue(n, y)'
  <2>1. Searching(n, y) => Searching(n, y)'
    BY <1>1, <1>4 DEF Searching
  <2> QED BY <1>5, <1>6, <1>8, <2>1 DEF SpendDue
<1>9. ASSUME NEW n, NEW y, CountDue(n, y) PROVE CountDue(n, y)'
  BY <1>1, <1>5, <1>9 DEF CountDue
<1>10. Delivers
  BY <1>7, <1>8, <1>9 DEF Delivers
<1>11. BatchInv'
  BY <1>1, <1>3, <1>10, QuietCarries, BatchWhole
<1>12. TaddrInv'
  <2>1. \A u, x : Before(u, x)' <=> Before(u, x)
    BY <1>1 DEF Before
  <2>2. taddrQ' \subseteq taddrQ
    BY <1>1
  <2> QED BY <1>1, <1>2, <1>3, <2>1, <2>2 DEF TaddrInv
<1>13. UtxoInv'
  BY <1>1, <1>2, <1>3 DEF UtxoInv
<1> QED BY <1>11, <1>12, <1>13

(* A step of scan s does what was due, or leaves it due. *)
SeesTo(s) ==
  s.by = "taddr" =>
    /\ s.step = "outputs" /\ "t" \in Outs[s.tx] =>
         OutputDue(<<s.tx, "t">>)' \/ Got(txns', <<s.tx, "t">>)
    /\ \A n \in Spends[s.tx] : n[2] = "t" =>
         /\ s.step \in {"outputs", "inputs"} \/ n \in s.toMark =>
              \/ SpendDue(n, s.tx)'
              \/ Seen(txns', n, s.tx) /\ (CountDue(n, s.tx)' \/ Counted(txns', n, s.tx))
         /\ s.step = "mark" /\ n \in s.utxos => CountDue(n, s.tx)' \/ Counted(txns', n, s.tx)

(* A step of a scan has to see only to the transparent part of its own       *)
(* transaction.                                                              *)
LEMMA ScanDelivers ==
  ASSUME CoreInv, ChainInv, ProperInv, BatchInv, phase \in Batch,
         UNCHANGED <<view, keep, detect, oldNotes, upd, found, taddrQ>>,
         \A m \in Note : m[2] # "t" /\ Known(txns, m) => NoteOf(txns', m).spent = NoteOf(txns, m).spent,
         NEW s \in scans, \A r \in scans : r # s => r \in scans',
         SeesTo(s)
  PROVE  Delivers
<1>1. \A t : \A r \in TaddrScan(t) : r \in TaddrScan(t)' \/ (r = s /\ s.by = "taddr" /\ s.tx = t)
  BY DEF TaddrScan
<1>2. ASSUME NEW t \in NewTxs, NEW p \in Outs[t], OutputDue(<<t, p>>)
      PROVE  OutputDue(<<t, p>>)' \/ Got(txns', <<t, p>>)
  <2>1. CASE p = "t"
    <3>1. t \in taddrQ \/ \E r \in TaddrScan(t) : r.step = "outputs"
      BY <1>2, <2>1 DEF OutputDue
    <3>2. CASE t \in taddrQ \/ \E r \in TaddrScan(t)' : r.step = "outputs"
      BY <2>1, <3>2 DEF OutputDue
    <3>3. CASE s.by = "taddr" /\ s.tx = t /\ s.step = "outputs"
      BY <1>2, <2>1, <3>3 DEF SeesTo
    <3> QED BY <1>1, <3>1, <3>2, <3>3
  <2>2. CASE p # "t"
    BY <1>2, <2>2 DEF OutputDue
  <2> QED BY <2>1, <2>2
<1>3. ASSUME NEW t \in NewTxs, NEW n \in Spends[t]
      PROVE  /\ SpendDue(n, t) =>
                  SpendDue(n, t)' \/ (Seen(txns', n, t) /\ (CountDue(n, t)' \/ Counted(txns', n, t)))
             /\ CountDue(n, t) => CountDue(n, t)' \/ Counted(txns', n, t)
  <2>1. CASE n[2] = "t"
    <3>1. ASSUME SpendDue(n, t)
          PROVE  SpendDue(n, t)' \/ (Seen(txns', n, t) /\ (CountDue(n, t)' \/ Counted(txns', n, t)))
      <4>1. t \in taddrQ \/ \E r \in TaddrScan(t) : r.step \in {"outputs", "inputs"} \/ n \in r.toMark
        BY <2>1, <3>1 DEF SpendDue
      <4>2. CASE t \in taddrQ \/ \E r \in TaddrScan(t)' : r.step \in {"outputs", "inputs"} \/ n \in r.toMark
        BY <2>1, <4>2 DEF SpendDue
      <4>3. CASE s.by = "taddr" /\ s.tx = t /\ (s.step \in {"outputs", "inputs"} \/ n \in s.toMark)
        BY <2>1, <4>3 DEF SeesTo
      <4> QED BY <1>1, <4>1, <4>2, <4>3
    <3>2. ASSUME CountDue(n, t) PROVE CountDue(n, t)' \/ Counted(txns', n, t)
      <4>1. PICK r \in TaddrScan(t) : r.step = "mark" /\ n \in r.utxos
        BY <2>1, <3>2 DEF CountDue
      <4>2. CASE r \in TaddrScan(t)'
        BY <2>1, <4>1, <4>2 DEF CountDue
      <4>3. CASE r = s /\ s.by = "taddr" /\ s.tx = t
        BY <2>1, <4>1, <4>3 DEF SeesTo
      <4> QED BY <1>1, <4>1, <4>2, <4>3
    <3> QED BY <3>1, <3>2
  <2>2. CASE n[2] # "t"
    <3>1. CountDue(n, t)' <=> CountDue(n, t)
      BY <2>2 DEF CountDue
    <3>2. Searching(n, t) => Searching(n, t)'
      <4>1. n \in Note
        BY BatchHas, SpendsAreNotes
      <4>2. Got(txns, n) => NoteOf(txns', n).spent = NoteOf(txns, n).spent
        BY <2>2, <4>1 DEF Got, Ours
      <4> DEFINE none == {}
      <4>3. /\ \A x \in detect : x \in detect' \/ x \in none
            /\ \A u \in upd : u \in upd' \/ u \in none
            /\ \A u \in none : u.note = n => ~(u.at <= HeightIn(view, t))
            /\ n \notin none
        OBVIOUS
      <4> HIDE DEF none
      <4> QED BY <4>2, <4>3, StillSearching
    <3> QED BY <2>2, <3>1, <3>2 DEF SpendDue
  <2> QED BY <2>1, <2>2
<1> QED BY <1>2, <1>3 DEF Delivers

(* What is scanned is mined at that height or not mined at all, and spends   *)
(* nothing that another transaction of the blocks spends.                    *)
LEMMA ScannedFits ==
  ASSUME CoreInv, HistInv, WholeInv, NEW s \in scans
  PROVE  /\ phase \in Batch => /\ Fits(view, Len(view), s.tx, s.height, s.unconfirmed)
                               /\ Alone(s.tx, Mined(view))
         /\ phase \notin Batch => /\ Fits(synced, left, s.tx, s.height, s.unconfirmed)
                                  /\ Alone(s.tx, Mined(synced))
<1>1. s.unconfirmed \in BOOLEAN
  BY ScanIs
<1>2. CASE s.by = "mempool"
  <2>1. s.unconfirmed
    BY <1>2, WhoScans
  <2>2. s.tx \notin Mined(synced) /\ Alone(s.tx, Mined(synced))
    BY <1>2, ScannedWaits DEF Alone
  <2>3. phase \in Batch => s.tx \notin Mined(view) /\ Alone(s.tx, Mined(view))
    BY <1>2, ScannedWaits DEF Alone, Batch, Syncing
  <2> QED BY <2>1, <2>2, <2>3 DEF Fits
<1>3. CASE s.by # "mempool" /\ phase \in Batch
  <2> DEFINE u == s.unconfirmed
  <2>1. u = FALSE
    BY <1>1, <1>3, WhoScans
  <2>2. s.tx \in NewTxs /\ s.height = HeightIn(view, s.tx)
    BY <1>3, <2>1 DEF HistInv, ScanWork
  <2> HIDE DEF u
  <2>3. Fits(view, Len(view), s.tx, s.height, u)
    BY <2>1, <2>2, NewFits
  <2>4. Alone(s.tx, Mined(view))
    BY <1>3, <2>2, BatchHas DEF HistInv, WholeInv
  <2> QED BY <1>3, <2>3, <2>4 DEF u
<1>4. CASE s.by # "mempool" /\ phase \notin Batch
  <2>1. s.unconfirmed /\ phase = "sendscan" /\ s.tx = sending
    BY <1>4, WhoScans
  <2>2. Fits(synced, left, s.tx, s.height, s.unconfirmed)
    BY <2>1 DEF Fits, HistInv, WalletInv
  <2>3. Alone(s.tx, Mined(synced))
    BY <2>1 DEF Alone, WholeInv, SendFree
  <2> QED BY <1>4, <2>2, <2>3
<1> QED BY <1>2, <1>3, <1>4

LEMMA ScanWhole ==
  ASSUME CoreInv, HistInv, WholeInv, NEW s \in scans,
         UNCHANGED <<synced, view, left, keep, queueVars>>,
         phase' = phase \/ (phase = "sendscan" /\ phase' = "idle"),
         NEW M, \A n \in M : n[2] = "t",
         Ledger(txns, txns', s.tx, s.height, s.unconfirmed, M), Funds(txns, txns'),
         NEW y, y = s.tx \/ y = NoTx,
         \A n \in Note : n \in M /\ Ours(txns, n) =>
           /\ Ours(txns', n)
           /\ \/ NoteOf(txns', n).spent = NoteOf(txns, n).spent
              \/ y \in Txs /\ NoteOf(txns', n).spent = y /\ n \in Spends[y],
         \A r \in scans : r # s => r \in scans',
         phase \in Batch => SeesTo(s)
  PROVE  BatchInv' /\ IdleInv'
<1> DEFINE t == s.tx
           h == s.height
           u == s.unconfirmed
<1>1. u \in BOOLEAN /\ t \in Txs /\ IsWallet(txns)
  BY ScanIs, CoreWallet
<1>2. ChainInv /\ ProperInv /\ BatchInv
  BY DEF HistInv, WholeInv
<1>3. Ledger(txns, txns', t, h, u, M) /\ (y = t \/ y = NoTx)
  OBVIOUS
<1>4. CASE phase \in Batch
  <2>1. Fits(view, Len(view), t, h, u) /\ Alone(t, Mined(view))
    BY <1>4, ScannedFits
  <2>2. y \in NewTxs \/ y = NoTx \/ Alone(y, Mined(view))
    BY <1>3, <2>1
  <2>3. phase' \in Batch
    BY <1>4 DEF Batch
  <2>4. \A m \in Note : m[2] # "t" /\ Known(txns, m) => NoteOf(txns', m).spent = NoteOf(txns, m).spent
    BY DEF Ledger, NotesFrom, SameUse, SameSpend
  <2>5. Delivers
    BY <1>2, <1>4, <2>4, ScanDelivers DEF queueVars
  <2> HIDE DEF t, h, u
  <2>6. Carries(txns, txns', y)
    BY <1>1, <1>3, <1>4, <2>1, BatchCarries
  <2>7. BatchInv'
    BY <1>2, <1>4, <2>2, <2>5, <2>6, BatchWhole
  <2> QED BY <2>3, <2>7 DEF IdleInv
<1>5. CASE phase \notin Batch
  <2>1. phase' \notin Batch
    BY <1>5 DEF Batch
  <2>2. Fits(synced, left, t, h, u) /\ Alone(t, Mined(synced))
    BY <1>5, ScannedFits
  <2> HIDE DEF t, h, u
  <2>3. ConfirmedIn(txns, synced, left) /\ HasAll(txns, Below(synced, left))
        /\ Below(synced, left) \subseteq Mined(synced) /\ Below(synced, left) \subseteq Txs
    BY <1>5, LeftIs
  <2>4. PaidKept(txns, txns')
    BY DEF Funds
  <2>5. Carries(txns, txns', y)
    BY <1>1, <1>3, <2>2, <2>3, <2>4, LedgerCarries
  <2>6. Alone(y, Below(synced, left))
    BY <1>3, <2>2, <2>3, TxAssumption DEF Alone
  <2>7. HasAll(txns', Below(synced, left))
    BY <2>3, <2>5, <2>6, HasAllCarries
  <2> QED BY <2>1, <2>7 DEF IdleInv, BatchInv
<1> QED BY <1>4, <1>5

(* A step that marks no note *)
LEMMA ScanQuietWhole ==
  ASSUME CoreInv, HistInv, WholeInv, NEW s \in scans,
         UNCHANGED <<synced, view, left, keep, queueVars>>,
         phase' = phase \/ (phase = "sendscan" /\ phase' = "idle"),
         NEW none, none = {}, Ledger(txns, txns', s.tx, s.height, s.unconfirmed, none),
         Funds(txns, txns'),
         \A r \in scans : r # s => r \in scans',
         phase \in Batch => SeesTo(s)
  PROVE  BatchInv' /\ IdleInv'
<1> DEFINE y == NoTx
<1>1. /\ \A n \in none : n[2] = "t"
      /\ \A n \in Note : n \in none /\ Ours(txns, n) =>
           /\ Ours(txns', n)
           /\ \/ NoteOf(txns', n).spent = NoteOf(txns, n).spent
              \/ y \in Txs /\ NoteOf(txns', n).spent = y /\ n \in Spends[y]
      /\ y = s.tx \/ y = NoTx
  OBVIOUS
<1> HIDE DEF y
<1> QED BY <1>1, ScanWhole

LEMMA GotoTidy ==
  ASSUME WholeInv, NEW s \in scans, NEW r, Goto(s, r), UNCHANGED <<view, taddrQ>>,
         r.by = s.by, r.tx = s.tx,
         \A n \in r.utxos : n \in Spends[s.tx] /\ n[2] = "t",
         r.step = "mark" => r.toMark \subseteq r.utxos
  PROVE  /\ TaddrInv' /\ UtxoInv' /\ r \in scans'
         /\ \A x \in scans : x # s => x \in scans'
<1>1. scans' = (scans \ {s}) \cup {r}
  BY DEF Goto
<1>2. \A u, x : Before(u, x)' <=> Before(u, x)
  BY DEF Before
<1>3. TaddrInv'
  BY <1>1, <1>2 DEF TaddrInv, WholeInv
<1>4. UtxoInv'
  BY <1>1 DEF UtxoInv, WholeInv
<1> QED BY <1>1, <1>3, <1>4

LEMMA DoneTidy ==
  ASSUME CoreInv, WholeInv, NEW s \in scans, Done(s), UNCHANGED <<view, taddrQ>>
  PROVE  /\ TaddrInv' /\ UtxoInv' /\ \A x \in scans : x # s => x \in scans'
         /\ phase' = phase \/ (phase = "sendscan" /\ phase' = "idle")
<1>1. scans' = scans \ {s}
  BY DEF Done
<1>2. \A u, x : Before(u, x)' <=> Before(u, x)
  BY DEF Before
<1>3. TaddrInv'
  BY <1>1, <1>2 DEF TaddrInv, WholeInv
<1>4. UtxoInv'
  BY <1>1 DEF UtxoInv, WholeInv
<1>5. phase' = phase \/ (phase = "sendscan" /\ phase' = "idle")
  BY DEF Done, CoreInv, ScanInv
<1> QED BY <1>1, <1>3, <1>4, <1>5

LEMMA ScanOutputsWhole ==
  ASSUME CoreInv, HistInv, WholeInv, NEW s \in scans, ScanOutputs(s)
  PROVE  BatchInv' /\ IdleInv' /\ Funds(txns, txns') /\ TaddrInv' /\ UtxoInv'
<1> DEFINE r == [s EXCEPT !.step = "inputs"]
           none == {}
           g == AddNewTaddrOutput(txns, s.tx, s.height, s.unconfirmed)
<1>1. /\ s \in ScanRec /\ s.tx \in Txs /\ s.height \in Nat /\ s.unconfirmed \in BOOLEAN
      /\ IsWallet(txns) /\ InSpends(txns)
  BY ScanIs, CoreWallet DEF WholeInv, PaidInv
<1>2. r.tx = s.tx /\ r.by = s.by /\ r.utxos = s.utxos /\ r.step = "inputs"
  BY <1>1 DEF ScanRec
<1>3. /\ Goto(s, r) /\ UNCHANGED <<synced, view, left, keep, queueVars, phase, taddrQ>>
      /\ s.step = "outputs"
      /\ "t" \in Outs[s.tx] => txns' = g
      /\ "t" \notin Outs[s.tx] => txns' = txns
  BY DEF ScanOutputs, InScan, Scanning, queueVars, At
<1> HIDE DEF r
<1>4. /\ TaddrInv' /\ UtxoInv' /\ r \in scans' /\ \A x \in scans : x # s => x \in scans'
  <2>1. /\ \A n \in r.utxos : n \in Spends[s.tx] /\ n[2] = "t"
        /\ r.step = "mark" => r.toMark \subseteq r.utxos
    BY <1>2 DEF WholeInv, UtxoInv
  <2> QED BY <1>2, <1>3, <2>1, GotoTidy
<1>5. Ledger(txns, txns', s.tx, s.height, s.unconfirmed, none) /\ none = {}
  <2>1. Ledger(txns, txns, s.tx, s.height, s.unconfirmed, {})
    BY <1>1, SameLedger
  <2>2. Ledger(txns, g, s.tx, s.height, s.unconfirmed, {})
    BY <1>1, TaddrOutputLedger
  <2> QED BY <1>3, <2>1, <2>2 DEF none
<1>6. Funds(txns, txns')
  <2>1. Funds(txns, g)
    BY <1>1, FundsTaddrOutput
  <2>2. Funds(txns, txns)
    BY <1>1, FundsSame
  <2> QED BY <1>3, <2>1, <2>2
<1>7. ASSUME phase \in Batch, s.by = "taddr"
      PROVE  /\ "t" \in Outs[s.tx] => Got(txns', <<s.tx, "t">>)
             /\ \A n \in Spends[s.tx] : n[2] = "t" => SpendDue(n, s.tx)'
  <2>1. r \in TaddrScan(s.tx)'
    BY <1>2, <1>4, <1>7 DEF TaddrScan
  <2>2. \A n \in Spends[s.tx] : n[2] = "t" => SpendDue(n, s.tx)'
    BY <1>2, <2>1 DEF SpendDue
  <2>3. ASSUME "t" \in Outs[s.tx] PROVE Got(txns', <<s.tx, "t">>)
    <3> DEFINE v == GetOrCreateTx(txns, s.tx, s.height, s.unconfirmed)
               k == <<s.tx, "t">>
               d == NewNote(TRUE, NoWitness, FALSE)
    <3>1. v[s.tx].unconfirmed = s.unconfirmed
      <4>1. GotTx(txns, v, s.tx, s.height, s.unconfirmed)
        BY <1>1, GetOrCreateIs
      <4> HIDE DEF v
      <4> QED BY <4>1 DEF GotTx
    <3>2. /\ DOMAIN g = DOMAIN txns \cup {s.tx} /\ \A x \in DOMAIN g : SameHead(v, g, x)
          /\ Added(txns, g, k, d)
      <4>1. \A x \in Txs, e \in Nat, u \in BOOLEAN :
              LET g1 == AddNewTaddrOutput(txns, x, e, u)
                  v1 == GetOrCreateTx(txns, x, e, u)
              IN  /\ IsWallet(g1) /\ DOMAIN g1 = DOMAIN txns \cup {x}
                  /\ \A z \in DOMAIN g1 : SameHead(v1, g1, z)
                  /\ Added(txns, g1, <<x, "t">>, NewNote(TRUE, NoWitness, FALSE))
        BY <1>1, AddNewTaddrOutputIs
      <4>2. LET g1 == AddNewTaddrOutput(txns, s.tx, s.height, s.unconfirmed)
                v1 == GetOrCreateTx(txns, s.tx, s.height, s.unconfirmed)
            IN  /\ IsWallet(g1) /\ DOMAIN g1 = DOMAIN txns \cup {s.tx}
                /\ \A z \in DOMAIN g1 : SameHead(v1, g1, z)
                /\ Added(txns, g1, <<s.tx, "t">>, NewNote(TRUE, NoWitness, FALSE))
        BY <1>1, <4>1
      <4> QED BY <4>2
    <3>3. ~s.unconfirmed
      BY <1>7, WhoScans
    <3>4. "t" \in Pools
      BY DEF Pools
    <3>5. k \in Note /\ k[1] = s.tx /\ k[2] = "t"
      BY <1>1, <3>4, NoteOfPool
    <3> HIDE DEF g, v, k, d
    <3>6. Known(g, k)
      BY <3>2, <3>5 DEF Added
    <3>7. Confirmed(g, s.tx)
      BY <3>1, <3>2, <3>3 DEF Confirmed, SameHead
    <3>8. Got(g, k)
      BY <3>5, <3>6, <3>7 DEF Got, Ours
    <3> QED BY <1>3, <2>3, <3>8 DEF k
  <2> QED BY <2>2, <2>3
<1>8. phase \in Batch => SeesTo(s)
  BY <1>3, <1>7 DEF SeesTo
<1> HIDE DEF none, g
<1> QED BY <1>3, <1>4, <1>5, <1>6, <1>8, ScanQuietWhole

LEMMA ScanInputsWhole ==
  ASSUME CoreInv, HistInv, WholeInv, NEW s \in scans, ScanInputs(s)
  PROVE  BatchInv' /\ IdleInv' /\ Funds(txns, txns') /\ TaddrInv' /\ UtxoInv'
<1> DEFINE mine == {n \in Spends[s.tx] : n[2] = "t" /\ Known(txns, n)}
           marks == [s EXCEPT !.step = "mark", !.utxos = mine, !.toMark = mine]
           looks == [s EXCEPT !.step = "spends"]
           none == {}
<1>1. s \in ScanRec /\ IsWallet(txns) /\ InSpends(txns)
  BY ScanIs, CoreWallet DEF WholeInv, PaidInv
<1>2. /\ marks.tx = s.tx /\ marks.by = s.by /\ marks.utxos = mine /\ marks.toMark = mine
      /\ marks.step = "mark"
      /\ looks.tx = s.tx /\ looks.by = s.by /\ looks.utxos = s.utxos /\ looks.step = "spends"
  BY <1>1 DEF ScanRec
<1>3. /\ s.step = "inputs" /\ UNCHANGED <<txns, synced, view, left, keep, queueVars, taddrQ>>
      /\ \/ mine # {} /\ Goto(s, marks) /\ phase' = phase
         \/ mine = {} /\ s.unconfirmed /\ Goto(s, looks) /\ phase' = phase
         \/ mine = {} /\ Done(s)
  BY DEF ScanInputs, InScan, Scanning, queueVars, At
<1>4. /\ Funds(txns, txns') /\ Ledger(txns, txns', s.tx, s.height, s.unconfirmed, none)
      /\ none = {}
  BY <1>1, <1>3, SameLedger, FundsSame
<1>5. ASSUME phase \in Batch, s.by = "taddr", NEW n \in Spends[s.tx], n[2] = "t"
      PROVE  n \in mine
  BY <1>3, <1>5, UtxoKnown
<1> HIDE DEF none, marks, looks
<1>6. CASE mine # {} /\ Goto(s, marks) /\ phase' = phase
  <2>1. TaddrInv' /\ UtxoInv' /\ marks \in scans' /\ \A x \in scans : x # s => x \in scans'
    <3>1. /\ \A n \in marks.utxos : n \in Spends[s.tx] /\ n[2] = "t"
          /\ marks.step = "mark" => marks.toMark \subseteq marks.utxos
      BY <1>2
    <3> QED BY <1>2, <1>3, <1>6, <3>1, GotoTidy
  <2>2. phase \in Batch => SeesTo(s)
    <3>1. s.by = "taddr" => marks \in TaddrScan(s.tx)'
      BY <1>2, <2>1 DEF TaddrScan
    <3>2. ASSUME phase \in Batch, s.by = "taddr", NEW n \in Spends[s.tx], n[2] = "t"
          PROVE  SpendDue(n, s.tx)'
      <4>1. n \in marks.toMark
        BY <1>2, <1>5, <3>2
      <4> QED BY <3>1, <3>2, <4>1 DEF SpendDue
    <3> QED BY <1>3, <3>2 DEF SeesTo
  <2> QED BY <1>3, <1>4, <1>6, <2>1, <2>2, ScanQuietWhole
<1>7. ASSUME mine = {} PROVE phase \in Batch => SeesTo(s)
  BY <1>3, <1>5, <1>7 DEF SeesTo
<1>8. CASE mine = {} /\ s.unconfirmed /\ Goto(s, looks) /\ phase' = phase
  <2>1. TaddrInv' /\ UtxoInv' /\ \A x \in scans : x # s => x \in scans'
    <3>1. /\ \A n \in looks.utxos : n \in Spends[s.tx] /\ n[2] = "t"
          /\ looks.step = "mark" => looks.toMark \subseteq looks.utxos
      BY <1>2 DEF WholeInv, UtxoInv
    <3> QED BY <1>2, <1>3, <1>8, <3>1, GotoTidy
  <2> QED BY <1>3, <1>4, <1>7, <1>8, <2>1, ScanQuietWhole
<1>9. CASE mine = {} /\ Done(s)
  <2>1. /\ TaddrInv' /\ UtxoInv' /\ \A x \in scans : x # s => x \in scans'
        /\ phase' = phase \/ (phase = "sendscan" /\ phase' = "idle")
    BY <1>3, <1>9, DoneTidy
  <2> QED BY <1>3, <1>4, <1>7, <1>9, <2>1, ScanQuietWhole
<1> QED BY <1>3, <1>6, <1>8, <1>9

LEMMA MarkUtxoWhole ==
  ASSUME CoreInv, HistInv, WholeInv, NEW s \in scans, MarkUtxo(s)
  PROVE  BatchInv' /\ IdleInv' /\ Funds(txns, txns') /\ TaddrInv' /\ UtxoInv'
<1>1. /\ s \in ScanRec /\ s.tx \in Txs /\ s.height \in Nat /\ s.unconfirmed \in BOOLEAN
      /\ s.toMark \in SUBSET Note /\ s.toMark \subseteq Spends[s.tx] /\ IsWallet(txns) /\ InSpends(txns)
  BY ScanIs, CoreWallet DEF HistInv, ScanWork, WholeInv, PaidInv
<1>2. PICK n \in s.toMark : /\ txns' = MarkTxidUtxoSpent(txns, n, s.tx, s.height)
                            /\ Goto(s, [s EXCEPT !.toMark = @ \ {n}])
  BY DEF MarkUtxo
<1> DEFINE r == [s EXCEPT !.toMark = @ \ {n}]
           one == {n}
           none == {}
<1>3. /\ r.tx = s.tx /\ r.by = s.by /\ r.utxos = s.utxos /\ r.step = s.step
      /\ r.toMark = s.toMark \ {n}
  BY <1>1 DEF ScanRec
<1>4. /\ Goto(s, r) /\ UNCHANGED <<synced, view, left, keep, queueVars, phase, taddrQ>>
      /\ s.step = "mark"
  BY <1>2 DEF MarkUtxo, At, InScan, Scanning, queueVars
<1>5. n \in Note /\ n[2] = "t" /\ n \in Spends[s.tx] /\ s.toMark \subseteq s.utxos
  BY <1>1, <1>2, <1>4 DEF CoreInv, ScanInv, WholeInv, UtxoInv
<1>6. /\ \A m \in one : m = n
      /\ \A m : m \notin none
      /\ none = {}
  OBVIOUS
<1> HIDE DEF r
<1>7. TaddrInv' /\ UtxoInv' /\ r \in scans' /\ \A x \in scans : x # s => x \in scans'
  <2>1. /\ \A m \in r.utxos : m \in Spends[s.tx] /\ m[2] = "t"
        /\ r.step = "mark" => r.toMark \subseteq r.utxos
    BY <1>3, <1>5 DEF WholeInv, UtxoInv
  <2> QED BY <1>3, <1>4, <2>1, GotoTidy
<1>8. s.by = "taddr" => r \in TaddrScan(s.tx)'
  BY <1>3, <1>7 DEF TaddrScan
<1>9. ASSUME phase \in Batch, Seen(txns', n, s.tx)
      PROVE  SeesTo(s)
  <2>1. \A m \in s.utxos : m[2] = "t" /\ s.by = "taddr" => CountDue(m, s.tx)'
    BY <1>3, <1>4, <1>8 DEF CountDue
  <2>2. \A m \in s.toMark : m # n /\ m[2] = "t" /\ s.by = "taddr" => SpendDue(m, s.tx)'
    BY <1>3, <1>8 DEF SpendDue
  <2> QED BY <1>2, <1>4, <1>5, <1>9, <2>1, <2>2 DEF SeesTo
<1>10. CASE Known(txns, n)
  <2> DEFINE d == NoteOf(txns, n)
             e == Marked(d, s.tx, s.height)
  <2>1. IsWallet(txns') /\ Replaced(txns, txns', n, e)
    BY <1>1, <1>2, <1>5, <1>10, MarkUtxoIs
  <2>2. e.spent = s.tx /\ e.keyed = d.keyed
    BY <1>1, <1>5, <1>10, NoteOfType, MarkedIs
  <2> HIDE DEF e
  <2>3. Known(txns', n) /\ NoteOf(txns', n) = e
    BY <1>5, <1>10, <2>1 DEF Replaced
  <2>4. Ledger(txns, txns', s.tx, s.height, s.unconfirmed, one)
    <3>1. Ledger(txns, txns', s.tx, s.height, s.unconfirmed, {n})
      BY <1>5, <2>1, ReplacedLedger
    <3> QED BY <3>1 DEF one
  <2>5. Funds(txns, txns')
    BY <1>1, <2>1, FundsReplaced
  <2>6. Seen(txns', n, s.tx)
    BY <1>5, <2>2, <2>3 DEF Seen, Ours
  <2>7. phase \in Batch => SeesTo(s)
    BY <1>9, <2>6
  <2>8. \A m \in one : m[2] = "t"
    BY <1>5, <1>6
  <2>9. \A m \in Note : m \in one /\ Ours(txns, m) =>
          /\ Ours(txns', m)
          /\ \/ NoteOf(txns', m).spent = NoteOf(txns, m).spent
             \/ s.tx \in Txs /\ NoteOf(txns', m).spent = s.tx /\ m \in Spends[s.tx]
    BY <1>1, <1>5, <1>6, <2>2, <2>3, <2>6 DEF Seen
  <2> HIDE DEF one
  <2> DEFINE y == s.tx
  <2>10. /\ \A m \in Note : m \in one /\ Ours(txns, m) =>
              /\ Ours(txns', m)
              /\ \/ NoteOf(txns', m).spent = NoteOf(txns, m).spent
                 \/ y \in Txs /\ NoteOf(txns', m).spent = y /\ m \in Spends[y]
         /\ y = s.tx \/ y = NoTx
    BY <2>9
  <2> HIDE DEF y
  <2>11. BatchInv' /\ IdleInv'
    BY <1>4, <1>7, <2>4, <2>5, <2>7, <2>8, <2>10, ScanWhole
  <2> QED BY <1>7, <2>5, <2>11
<1>11. CASE ~Known(txns, n)
  <2>1. txns' = txns
    BY <1>1, <1>2, <1>5, <1>11, MarkUtxoIs
  <2>2. Ledger(txns, txns', s.tx, s.height, s.unconfirmed, none)
    BY <1>1, <2>1, SameLedger
  <2>3. Funds(txns, txns')
    BY <1>1, <2>1, FundsSame
  <2>4. phase \in Batch => s.by # "taddr"
    BY <1>4, <1>5, <1>11, UtxoKnown
  <2>5. phase \in Batch => SeesTo(s)
    BY <2>4 DEF SeesTo
  <2> HIDE DEF none
  <2>6. BatchInv' /\ IdleInv'
    BY <1>4, <1>6, <1>7, <2>2, <2>3, <2>5, ScanQuietWhole
  <2> QED BY <1>7, <2>3, <2>6
<1> QED BY <1>10, <1>11

LEMMA RecordUtxosWhole ==
  ASSUME CoreInv, HistInv, WholeInv, NEW s \in scans, RecordUtxos(s)
  PROVE  BatchInv' /\ IdleInv' /\ Funds(txns, txns') /\ TaddrInv' /\ UtxoInv'
<1> DEFINE r == [s EXCEPT !.step = "spends"]
           none == {}
<1>1. /\ s \in ScanRec /\ s.tx \in Txs /\ s.height \in Nat /\ s.unconfirmed \in BOOLEAN
      /\ s.utxos \in SUBSET Note /\ IsWallet(txns) /\ InSpends(txns)
  BY ScanIs, CoreWallet DEF WholeInv, PaidInv
<1>2. r.tx = s.tx /\ r.by = s.by /\ r.utxos = s.utxos /\ r.step = "spends"
  BY <1>1 DEF ScanRec
<1>3. /\ UNCHANGED <<synced, view, left, keep, queueVars, taddrQ>>
      /\ s.step = "mark" /\ s.toMark = {}
      /\ txns' = AddTaddrSpent(txns, s.tx, s.height, s.unconfirmed, s.utxos)
      /\ (Goto(s, r) /\ phase' = phase) \/ Done(s)
  BY DEF RecordUtxos, At, InScan, Scanning, queueVars
<1>4. s.utxos # {} /\ \A n \in s.utxos : n \in Spends[s.tx] /\ n[2] = "t"
  BY <1>3 DEF CoreInv, ScanInv, WholeInv, UtxoInv
<1>5. /\ Funds(txns, txns') /\ txns'[s.tx].unconfirmed = s.unconfirmed /\ s.tx \in DOMAIN txns'
      /\ s.utxos \subseteq txns'[s.tx].paid
  BY <1>1, <1>3, <1>4, FundsTaddrSpent
<1>6. Ledger(txns, txns', s.tx, s.height, s.unconfirmed, none) /\ none = {}
  BY <1>1, <1>3, TaddrSpentLedger
<1> HIDE DEF r, none
<1>7. /\ TaddrInv' /\ UtxoInv' /\ \A x \in scans : x # s => x \in scans'
      /\ phase' = phase \/ (phase = "sendscan" /\ phase' = "idle")
  <2>1. CASE Goto(s, r) /\ phase' = phase
    <3>1. /\ \A n \in r.utxos : n \in Spends[s.tx] /\ n[2] = "t"
          /\ r.step = "mark" => r.toMark \subseteq r.utxos
      BY <1>2, <1>4
    <3> QED BY <1>2, <1>3, <2>1, <3>1, GotoTidy
  <2>2. CASE Done(s)
    BY <1>3, <2>2, DoneTidy
  <2> QED BY <1>3, <2>1, <2>2
<1>8. ASSUME phase \in Batch PROVE SeesTo(s)
  <2>1. s.by = "taddr" => ~s.unconfirmed
    BY <1>8, WhoScans
  <2>2. s.by = "taddr" => \A n \in s.utxos : Counted(txns', n, s.tx)
    BY <1>5, <2>1 DEF Counted, Confirmed
  <2> QED BY <1>3, <2>2 DEF SeesTo
<1> QED BY <1>3, <1>5, <1>6, <1>7, <1>8, ScanQuietWhole

(* Only what is not mined yet goes on to the shielded part. *)
LEMMA ScanSpendsWhole ==
  ASSUME CoreInv, HistInv, WholeInv, NEW s \in scans, ScanSpends(s)
  PROVE  BatchInv' /\ IdleInv' /\ Funds(txns, txns') /\ TaddrInv' /\ UtxoInv'
<1> DEFINE r == [s EXCEPT !.step = "notes", !.toMark = Spends[s.tx] \cap UnspentNullifiers(txns, "s")]
           none == {}
<1>1. s \in ScanRec /\ IsWallet(txns) /\ InSpends(txns)
  BY ScanIs, CoreWallet DEF WholeInv, PaidInv
<1>2. r.tx = s.tx /\ r.by = s.by /\ r.utxos = s.utxos /\ r.step = "notes"
  BY <1>1 DEF ScanRec
<1>3. /\ UNCHANGED <<synced, view, left, keep, queueVars, taddrQ, txns, phase>>
      /\ s.step = "spends" /\ Goto(s, r)
  BY DEF ScanSpends, At, InScan, Scanning, queueVars
<1>4. /\ Funds(txns, txns') /\ Ledger(txns, txns', s.tx, s.height, s.unconfirmed, none)
      /\ none = {}
  BY <1>1, <1>3, SameLedger, FundsSame
<1> HIDE DEF r, none
<1>5. TaddrInv' /\ UtxoInv' /\ \A x \in scans : x # s => x \in scans'
  <2>1. /\ \A n \in r.utxos : n \in Spends[s.tx] /\ n[2] = "t"
        /\ r.step = "mark" => r.toMark \subseteq r.utxos
    BY <1>2 DEF WholeInv, UtxoInv
  <2> QED BY <1>2, <1>3, <2>1, GotoTidy
<1>6. phase \in Batch => SeesTo(s)
  BY <1>3 DEF SeesTo, HistInv, ScanWork, CoreInv, ScanInv
<1> QED BY <1>3, <1>4, <1>5, <1>6, ScanQuietWhole

LEMMA RecordSpendsWhole ==
  ASSUME CoreInv, HistInv, WholeInv, NEW s \in scans, RecordSpends(s)
  PROVE  BatchInv' /\ IdleInv' /\ Funds(txns, txns') /\ TaddrInv' /\ UtxoInv'
<1>1. /\ s \in ScanRec /\ s.tx \in Txs /\ s.height \in Nat /\ s.unconfirmed \in BOOLEAN
      /\ s.toMark \in SUBSET Note /\ s.toMark \subseteq Spends[s.tx] /\ IsWallet(txns) /\ InSpends(txns)
  BY ScanIs, CoreWallet DEF HistInv, ScanWork, WholeInv, PaidInv
<1>2. PICK n \in s.toMark : /\ txns' = AddNewSpent(txns, s.tx, s.height, TRUE, n)
                            /\ Goto(s, [s EXCEPT !.toMark = @ \ {n}])
  BY DEF RecordSpends
<1> DEFINE r == [s EXCEPT !.toMark = @ \ {n}]
           none == {}
           yes == TRUE
<1>3. r.tx = s.tx /\ r.by = s.by /\ r.utxos = s.utxos /\ r.step = s.step
  BY <1>1 DEF ScanRec
<1>4. /\ Goto(s, r) /\ UNCHANGED <<synced, view, left, keep, queueVars, phase, taddrQ>>
      /\ s.step = "notes" /\ n \in Note /\ n \in Spends[s.tx]
  BY <1>1, <1>2 DEF RecordSpends, At, InScan, Scanning, queueVars
<1>5. s.unconfirmed /\ (phase \in Batch => SeesTo(s))
  BY <1>4 DEF SeesTo, HistInv, ScanWork, CoreInv, ScanInv
<1>6. yes \in BOOLEAN /\ yes = TRUE
  OBVIOUS
<1> HIDE DEF r, yes
<1>7. Ledger(txns, txns', s.tx, s.height, s.unconfirmed, none) /\ Funds(txns, txns') /\ none = {}
  <2> DEFINE g == AddNewSpent(txns, s.tx, s.height, yes, n)
             M == IF yes THEN {} ELSE {n}
  <2>1. Ledger(txns, g, s.tx, s.height, yes, M)
    BY <1>1, <1>4, <1>6, NewSpentLedger
  <2>2. Funds(txns, g)
    BY <1>1, <1>4, <1>6, FundsNewSpent
  <2>3. M = none /\ g = txns' /\ s.unconfirmed = yes
    BY <1>1, <1>2, <1>5, <1>6
  <2> HIDE DEF g, M
  <2> QED BY <2>1, <2>2, <2>3
<1> HIDE DEF none
<1>8. TaddrInv' /\ UtxoInv' /\ \A x \in scans : x # s => x \in scans'
  <2>1. /\ \A m \in r.utxos : m \in Spends[s.tx] /\ m[2] = "t"
        /\ r.step = "mark" => r.toMark \subseteq r.utxos
    BY <1>3, <1>4 DEF WholeInv, UtxoInv
  <2> QED BY <1>3, <1>4, <2>1, GotoTidy
<1> QED BY <1>4, <1>5, <1>7, <1>8, ScanQuietWhole

LEMMA ScanNotesWhole ==
  ASSUME CoreInv, HistInv, WholeInv, NEW s \in scans, ScanNotes(s)
  PROVE  BatchInv' /\ IdleInv' /\ Funds(txns, txns') /\ TaddrInv' /\ UtxoInv'
<1> DEFINE none == {}
           g == AddPendingNote(txns, s.tx, s.height)
<1>1. /\ s \in ScanRec /\ s.tx \in Txs /\ s.height \in Nat /\ s.unconfirmed \in BOOLEAN
      /\ IsWallet(txns) /\ InSpends(txns)
  BY ScanIs, CoreWallet DEF WholeInv, PaidInv
<1>2. /\ Done(s) /\ UNCHANGED <<synced, view, left, keep, queueVars, taddrQ>>
      /\ s.step = "notes" /\ (txns' = g \/ txns' = txns)
  BY DEF ScanNotes, At, Scanning, queueVars
<1>3. s.unconfirmed = TRUE /\ (phase \in Batch => SeesTo(s))
  BY <1>1, <1>2 DEF SeesTo, HistInv, ScanWork, CoreInv, ScanInv
<1>4. Ledger(txns, txns', s.tx, s.height, s.unconfirmed, none) /\ none = {}
  <2> DEFINE u == s.unconfirmed
  <2>1. u = TRUE /\ u = s.unconfirmed
    BY <1>3
  <2> HIDE DEF u
  <2>2. Ledger(txns, g, s.tx, s.height, u, {})
    BY <1>1, <2>1, PendingNoteLedger
  <2>3. Ledger(txns, txns, s.tx, s.height, u, {})
    BY <1>1, SameLedger
  <2> QED BY <1>2, <2>1, <2>2, <2>3
<1>5. Funds(txns, txns')
  <2>1. Funds(txns, g)
    BY <1>1, FundsPendingNote
  <2>2. Funds(txns, txns)
    BY <1>1, FundsSame
  <2> QED BY <1>2, <2>1, <2>2
<1> HIDE DEF none, g
<1>6. /\ TaddrInv' /\ UtxoInv' /\ \A x \in scans : x # s => x \in scans'
      /\ phase' = phase \/ (phase = "sendscan" /\ phase' = "idle")
  BY <1>2, DoneTidy
<1> QED BY <1>2, <1>3, <1>4, <1>5, <1>6, ScanQuietWhole

-----------------------------------------------------------------------------
(* All the actions                                                           *)

LEMMA WholeFrom ==
  ASSUME ProperInv', BatchInv', IdleInv', SavedInv', PaidInv', SendFree', TaddrInv', UtxoInv'
  PROVE  WholeInv'
BY DEF WholeInv

LEMMA FileKept ==
  ASSUME WholeInv, UNCHANGED <<saved, synced>>, Funds(txns, txns') \/ txns' = txns
  PROVE  SavedInv' /\ PaidInv'
BY DEF WholeInv, SavedInv, PaidInv, Funds

LEMMA SendKept ==
  ASSUME WholeInv, UNCHANGED <<synced, sending>>,
         phase' \in {"send", "sendscan"} => phase \in {"send", "sendscan"}
  PROVE  SendFree'
BY DEF WholeInv, SendFree

LEMMA ScansKept ==
  ASSUME WholeInv, UNCHANGED <<view, taddrQ, scans>>
  PROVE  TaddrInv' /\ UtxoInv'
<1>1. \A u, x : Before(u, x)' <=> Before(u, x)
  BY DEF Before
<1> QED BY <1>1 DEF WholeInv, TaddrInv, UtxoInv

(* Nothing transparent is scanned between the batches. *)
LEMMA NoTaddrScan ==
  ASSUME CoreInv', phase' \notin Batch
  PROVE  TaddrInv'
BY DEF CoreInv, ScanInv, TaddrInv

LEMMA WholeStay ==
  ASSUME CoreInv, HistInv, WholeInv, ProperInv',
         UNCHANGED <<txns, saved, synced, syncVars, scans, sending>>
  PROVE  WholeInv'
<1>1. UNCHANGED <<view, keep, left, phase, detect, oldNotes, upd, found, taddrQ>>
  BY DEF syncVars, queueVars
<1>2. NewTxs' = NewTxs /\ \A t : TaddrScan(t)' = TaddrScan(t)
  BY <1>1 DEF NewTxs, TaddrScan
<1>3. /\ \A n : OutputDue(n) => OutputDue(n)'
      /\ \A n, t : (SpendDue(n, t) => SpendDue(n, t)') /\ (CountDue(n, t) => CountDue(n, t)')
  BY <1>1, <1>2 DEF OutputDue, SpendDue, CountDue, Searching
<1>4. Delivers
  BY <1>3 DEF Delivers
<1>5. BatchInv'
  <2>1. CASE phase \in Batch
    BY <1>1, <1>4, <2>1, QuietCarries, BatchWhole DEF HistInv, WholeInv
  <2>2. CASE phase \notin Batch
    BY <1>1, <2>2 DEF BatchInv
  <2> QED BY <2>1, <2>2
<1>6. IdleInv'
  BY <1>1 DEF WholeInv, IdleInv
<1>7. SavedInv' /\ PaidInv'
  BY FileKept
<1>8. SendFree' /\ TaddrInv' /\ UtxoInv'
  BY <1>1, SendKept, ScansKept
<1> QED BY <1>5, <1>6, <1>7, <1>8, WholeFrom

LEMMA ServerWhole ==
  ASSUME CoreInv, HistInv, WholeInv, ProperInv', Server
  PROVE  WholeInv'
<1>1. UNCHANGED <<txns, saved, synced, syncVars, scans, sending>>
  BY DEF Server, Mine, Reorg, Arrive, Stream
<1> QED BY <1>1, WholeStay

(* A step of a batch *)
LEMMA InBatchWhole ==
  ASSUME WholeInv, ProperInv', phase \in Batch, phase' \in Batch, BatchInv',
         Funds(txns, txns') \/ txns' = txns,
         UNCHANGED <<saved, synced, view, taddrQ, scans, sending>>
  PROVE  WholeInv'
<1>1. IdleInv'
  BY DEF IdleInv
<1>2. SavedInv' /\ PaidInv'
  BY FileKept
<1>3. SendFree'
  BY DEF SendFree, Batch
<1>4. TaddrInv' /\ UtxoInv'
  BY ScansKept
<1> QED BY <1>1, <1>2, <1>3, <1>4, WholeFrom

LEMMA SyncWhole ==
  ASSUME NoOrchard, Shallow, CoreInv, HistInv, WholeInv, CoreInv', ProperInv', Sync
  PROVE  WholeInv'
<1>1. CASE StartSync
  <2>1. /\ phase \notin Batch /\ phase' \notin Batch /\ phase' = "reorg"
        /\ UNCHANGED <<txns, saved, synced, left, scans, sending>>
    BY <1>1 DEF StartSync, Batch
  <2>2. BatchInv' /\ IdleInv'
    BY <2>1 DEF BatchInv, WholeInv, IdleInv
  <2>3. SavedInv' /\ PaidInv' /\ SendFree'
    BY <2>1, FileKept, SendKept
  <2>4. TaddrInv' /\ UtxoInv'
    BY <2>1, NoTaddrScan DEF WholeInv, UtxoInv
  <2> QED BY <2>2, <2>3, <2>4, WholeFrom
<1>2. CASE InvalidateBlock
  <2>1. /\ phase' \notin Batch /\ phase' = "reorg"
        /\ UNCHANGED <<saved, synced, scans, sending>>
    BY <1>2 DEF InvalidateBlock, Batch
  <2>2. IdleInv' /\ Funds(txns, txns')
    BY <1>2, InvalidateWhole
  <2>3. BatchInv'
    BY <2>1 DEF BatchInv
  <2>4. SavedInv' /\ PaidInv' /\ SendFree'
    BY <2>1, <2>2, FileKept, SendKept
  <2>5. TaddrInv' /\ UtxoInv'
    BY <2>1, NoTaddrScan DEF WholeInv, UtxoInv
  <2> QED BY <2>2, <2>3, <2>4, <2>5, WholeFrom
<1>3. CASE BlocksDone
  <2>1. /\ phase = "reorg" /\ phase \notin Batch /\ phase' \in Batch /\ phase' = "scan"
        /\ UNCHANGED <<txns, saved, synced, scans, sending>>
    BY <1>3 DEF BlocksDone, Batch
  <2>2. BatchInv' /\ IdleInv'
    BY <1>3, <2>1, BlocksDoneWhole DEF IdleInv
  <2>3. SavedInv' /\ PaidInv' /\ SendFree'
    BY <2>1, FileKept, SendKept
  <2>4. \A s \in scans : s.by # "taddr"
    BY <2>1, WhoScans
  <2>5. TaddrInv' /\ UtxoInv'
    BY <2>1, <2>4 DEF TaddrInv, UtxoInv, WholeInv
  <2> QED BY <2>2, <2>3, <2>5, WholeFrom
<1>4. CASE ReadOldNotes
  <2>1. /\ phase \in Batch /\ phase' \in Batch /\ txns' = txns
        /\ UNCHANGED <<saved, synced, view, taddrQ, scans, sending>>
    BY <1>4 DEF ReadOldNotes, Batch
  <2> QED BY <1>4, <2>1, ReadOldWhole, InBatchWhole
<1>5. CASE OrchardPass
  <2>1. /\ phase \in Batch /\ phase' \in Batch
        /\ UNCHANGED <<saved, synced, view, taddrQ, scans, sending>>
    BY <1>5 DEF OrchardPass, Batch
  <2> QED BY <1>5, <2>1, OrchardPassWhole, InBatchWhole
<1>6. CASE FinishSync
  <2>1. /\ phase' \notin Batch /\ phase' = "idle" /\ saved' = txns'
        /\ UNCHANGED <<scans, sending>>
    BY <1>6 DEF FinishSync, Batch
  <2>2. IdleInv' /\ SavedInv' /\ Funds(txns, txns')
    BY <1>6, FinishWhole
  <2>3. BatchInv' /\ SendFree'
    BY <2>1 DEF BatchInv, SendFree
  <2>4. PaidInv'
    BY <2>1, <2>2 DEF PaidInv, Funds
  <2>5. TaddrInv' /\ UtxoInv'
    BY <2>1, NoTaddrScan DEF WholeInv, UtxoInv
  <2> QED BY <2>2, <2>3, <2>4, <2>5, WholeFrom
<1>7. ASSUME NEW n \in detect, Detect(n) PROVE WholeInv'
  <2>1. /\ phase \in Batch /\ phase' \in Batch
        /\ UNCHANGED <<saved, synced, view, taddrQ, scans, sending>>
    BY <1>7 DEF Detect, Batch
  <2> QED BY <1>7, <2>1, DetectWhole, InBatchWhole
<1>8. ASSUME NEW u \in upd, LookUpSpent(u) \/ LookUpUnspent(u) PROVE WholeInv'
  <2>1. /\ phase \in Batch /\ phase' \in Batch
        /\ UNCHANGED <<saved, synced, view, taddrQ, scans, sending>>
    BY <1>8 DEF LookUpSpent, LookUpUnspent, CoreInv, QueueInv
  <2>2. BatchInv' /\ Funds(txns, txns')
    BY <1>8, LookUpSpentWhole, LookUpUnspentWhole
  <2> QED BY <2>1, <2>2, InBatchWhole
<1>9. ASSUME NEW f \in found, RecordSpend(f) PROVE WholeInv'
  <2>1. /\ phase \in Batch /\ phase' \in Batch
        /\ UNCHANGED <<saved, synced, view, taddrQ, scans, sending>>
    BY <1>9 DEF RecordSpend, CoreInv, QueueInv
  <2> QED BY <1>9, <2>1, RecordSpendWhole, InBatchWhole
<1>10. ASSUME NEW t, (t \in taddrQ /\ ScanTaddr(t)) \/ (t \in fullQ /\ ScanFull(t)) PROVE WholeInv'
  <2>1. /\ phase \in Batch /\ phase' \in Batch
        /\ UNCHANGED <<txns, saved, synced, sending>>
    BY <1>10 DEF ScanTaddr, ScanFull, CoreInv, QueueInv
  <2>2. BatchInv' /\ TaddrInv' /\ UtxoInv'
    BY <1>10, ScanBegunWhole
  <2>3. IdleInv' /\ SendFree'
    BY <2>1 DEF IdleInv, SendFree, Batch
  <2>4. SavedInv' /\ PaidInv'
    BY <2>1, FileKept
  <2> QED BY <2>2, <2>3, <2>4, WholeFrom
<1> QED BY <1>1, <1>2, <1>3, <1>4, <1>5, <1>6, <1>7, <1>8, <1>9, <1>10 DEF Sync

(* The monitor begins a scan. *)
LEMMA ScanStreamedWhole ==
  ASSUME CoreInv, HistInv, WholeInv, ProperInv', ScanStreamed
  PROVE  WholeInv'
<1> DEFINE r == NewScan("mempool", Head(streamQ).tx, Head(streamQ).height, TRUE)
<1>1. /\ UNCHANGED <<txns, saved, synced, syncVars, sending>>
      /\ UNCHANGED <<view, keep, left, phase, detect, oldNotes, upd, found, taddrQ>>
      /\ scans' = scans \cup {r}
  BY DEF ScanStreamed, syncVars, queueVars
<1>2. r.by = "mempool" /\ r.utxos = {} /\ r.step = "outputs"
  BY DEF NewScan
<1> HIDE DEF r
<1>3. NewTxs' = NewTxs /\ \A t : TaddrScan(t)' = TaddrScan(t)
  BY <1>1, <1>2 DEF NewTxs, TaddrScan
<1>4. BatchInv'
  <2>1. /\ \A n : OutputDue(n) => OutputDue(n)'
        /\ \A n, t : (SpendDue(n, t) => SpendDue(n, t)') /\ (CountDue(n, t) => CountDue(n, t)')
    BY <1>1, <1>3 DEF OutputDue, SpendDue, CountDue, Searching
  <2>2. Delivers
    BY <2>1 DEF Delivers
  <2>3. CASE phase \in Batch
    BY <1>1, <2>2, <2>3, QuietCarries, BatchWhole DEF HistInv, WholeInv
  <2>4. CASE phase \notin Batch
    BY <1>1, <2>4 DEF BatchInv
  <2> QED BY <2>3, <2>4
<1>5. IdleInv'
  BY <1>1 DEF WholeInv, IdleInv
<1>6. SavedInv' /\ PaidInv' /\ SendFree'
  BY <1>1, FileKept, SendKept
<1>7. TaddrInv' /\ UtxoInv'
  <2>1. \A u, x : Before(u, x)' <=> Before(u, x)
    BY <1>1 DEF Before
  <2> QED BY <1>1, <1>2, <2>1 DEF WholeInv, TaddrInv, UtxoInv
<1> QED BY <1>4, <1>5, <1>6, <1>7, WholeFrom

LEMMA ScanStepWhole ==
  ASSUME CoreInv, HistInv, WholeInv, ProperInv', Scan
  PROVE  WholeInv'
<1>1. CASE ScanStreamed
  BY <1>1, ScanStreamedWhole
<1> SUFFICES ASSUME ~ScanStreamed PROVE WholeInv'
  BY <1>1
<1>2. PICK s \in scans : ScanStep(s)
  BY DEF Scan
<1>3. BatchInv' /\ IdleInv' /\ Funds(txns, txns') /\ TaddrInv' /\ UtxoInv'
  <2>1. ScanInputs(s) => Funds(txns, txns')
    BY ScanInputsWhole
  <2> QED BY <1>2, ScanOutputsWhole, ScanInputsWhole, MarkUtxoWhole, RecordUtxosWhole, ScanSpendsWhole,
             RecordSpendsWhole, ScanNotesWhole DEF ScanStep
<1>4. /\ UNCHANGED <<saved, synced>>
      /\ UNCHANGED <<phase, sending>> \/ phase' = "idle"
  BY <1>2 DEF ScanStep, ScanOutputs, ScanInputs, MarkUtxo, RecordUtxos, ScanSpends, RecordSpends, ScanNotes,
              Done, InScan, Scanning
<1>5. SavedInv' /\ PaidInv'
  BY <1>3, <1>4, FileKept
<1>6. SendFree'
  BY <1>4, SendKept DEF SendFree
<1> QED BY <1>3, <1>5, <1>6, WholeFrom

(* The wallet's own new transaction spends nothing that its chain spends. *)
LEMMA BroadcastWhole ==
  ASSUME CoreInv, HistInv, WholeInv, NEW t \in Sent, Broadcast(t)
  PROVE  SendFree'
<1>1. /\ phase = "idle" /\ phase \notin Batch /\ UNCHANGED synced /\ sending' = t
      /\ Spends[t] \subseteq Selectable(txns, Len(synced))
  BY DEF Broadcast, Batch
<1>2. left = Len(synced)
  BY <1>1 DEF HistInv, ChainInv, Syncing
<1>3. HasAll(txns, Mined(synced)) /\ Mined(synced) \subseteq Txs
  BY <1>1, <1>2, LeftIs
<1>4. \A y \in Mined(synced) : \A n \in Spends[y] : NoteOf(txns, n).spent = y /\ y # NoTx
  BY <1>3, TxAssumption DEF HasAll, Seen
<1>5. \A n \in Spends[t] : NoteOf(txns, n).spent = NoTx
  BY <1>1 DEF Selectable
<1>6. \A y \in Mined(synced) : Spends[t] \cap Spends[y] = {}
  BY <1>4, <1>5
<1> QED BY <1>1, <1>6 DEF SendFree

LEMMA MarkSelectedWhole ==
  ASSUME CoreInv, HistInv, WholeInv, MarkSelected
  PROVE  IdleInv' /\ UtxoInv' /\ Funds(txns, txns')
<1> DEFINE none == {}
           yes == TRUE
<1>1. /\ phase = "send" /\ phase \notin Batch /\ UNCHANGED <<synced, left>>
      /\ scans' = scans \cup {NewScan("send", sending, Len(synced) + 1, TRUE)}
      /\ txns' = Reserved(txns, Spends[sending], sending)
  BY DEF MarkSelected, Batch, Reserved
<1>2. sending \in Txs /\ IsWallet(txns) /\ InSpends(txns)
  BY <1>1, TxAssumption, CoreWallet DEF CoreInv, ScanInv, WholeInv, PaidInv
<1>3. Funds(txns, txns')
  BY <1>1, <1>2, ReservedIs, FundsMapped
<1>4. Ledger(txns, txns', NoTx, 0, yes, none)
  BY <1>1, <1>2, ReservedLedger
<1>5. UtxoInv'
  <2>1. NewScan("send", sending, Len(synced) + 1, TRUE).utxos = {}
        /\ NewScan("send", sending, Len(synced) + 1, TRUE).step = "outputs"
    BY DEF NewScan
  <2> QED BY <1>1, <2>1 DEF WholeInv, UtxoInv
<1>6. /\ yes \in BOOLEAN /\ yes = TRUE
      /\ \A n \in Note : n \in none /\ Ours(txns, n) =>
           /\ Ours(txns', n)
           /\ \/ NoteOf(txns', n).spent = NoteOf(txns, n).spent
              \/ NoTx \in Txs /\ NoteOf(txns', n).spent = NoTx /\ n \in Spends[NoTx]
  OBVIOUS
<1> HIDE DEF yes, none
<1>7. ConfirmedIn(txns, synced, left) /\ HasAll(txns, Below(synced, left)) /\ Below(synced, left) \subseteq Txs
  BY <1>1, LeftIs
<1>8. Fits(synced, left, NoTx, 0, yes)
  BY <1>6, CoreWallet, NoneFits
<1>9. Carries(txns, txns', NoTx)
  BY <1>2, <1>3, <1>4, <1>6, <1>7, <1>8, LedgerCarries DEF Funds
<1>10. Alone(NoTx, Below(synced, left))
  BY TxAssumption DEF Alone
<1>11. HasAll(txns', Below(synced, left))
  BY <1>7, <1>9, <1>10, HasAllCarries
<1> QED BY <1>1, <1>3, <1>5, <1>11 DEF IdleInv

LEMMA UserWhole ==
  ASSUME CoreInv, HistInv, WholeInv, CoreInv', ProperInv', User
  PROVE  WholeInv'
<1>1. ASSUME NEW t \in Sent, Broadcast(t) PROVE WholeInv'
  <2>1. /\ phase \notin Batch /\ phase' \notin Batch
        /\ UNCHANGED <<txns, saved, synced, left, scans>>
    BY <1>1 DEF Broadcast, Batch
  <2>2. BatchInv' /\ IdleInv' /\ UtxoInv'
    BY <2>1 DEF BatchInv, IdleInv, UtxoInv, WholeInv
  <2> QED BY <1>1, <2>1, <2>2, BroadcastWhole, FileKept, NoTaddrScan, WholeFrom
<1>2. CASE MarkSelected
  <2>1. /\ phase = "send" /\ phase' \notin Batch
        /\ UNCHANGED <<saved, synced, sending>>
    BY <1>2 DEF MarkSelected, Batch
  <2>2. BatchInv'
    BY <2>1 DEF BatchInv
  <2> QED BY <1>2, <2>1, <2>2, MarkSelectedWhole, FileKept, SendKept, NoTaddrScan, WholeFrom
<1>3. CASE Save
  <2>1. /\ phase = "idle" /\ phase \notin Batch /\ saved' = txns
        /\ UNCHANGED <<txns, synced, left, view, phase, taddrQ, scans, sending>>
    BY <1>3 DEF Save, syncVars, queueVars, Batch
  <2>2. left = Len(synced)
    BY <2>1 DEF HistInv, ChainInv, Syncing
  <2>3. SavedInv' /\ PaidInv'
    BY <2>1, <2>2, LeftIs DEF SavedInv, PaidInv, WholeInv
  <2>4. BatchInv' /\ IdleInv'
    BY <2>1 DEF BatchInv, IdleInv, WholeInv
  <2> QED BY <2>1, <2>3, <2>4, SendKept, ScansKept, WholeFrom
<1>4. CASE Restart
  <2>1. /\ phase' = "idle" /\ phase' \notin Batch /\ txns' = saved /\ saved' = saved
        /\ UNCHANGED synced /\ left' = Len(synced) /\ scans' = {}
    BY <1>4 DEF Restart, Loaded, Batch
  <2>2. Below(synced, Len(synced)) = Mined(synced)
    BY DEF Below, Mined
  <2>3. BatchInv' /\ IdleInv' /\ SavedInv' /\ PaidInv'
    BY <2>1, <2>2 DEF BatchInv, IdleInv, SavedInv, PaidInv, WholeInv
  <2>4. SendFree' /\ UtxoInv' /\ TaddrInv'
    BY <2>1 DEF SendFree, UtxoInv, TaddrInv
  <2> QED BY <2>3, <2>4, WholeFrom
<1> QED BY <1>1, <1>2, <1>3, <1>4 DEF User

LEMMA WholeNext ==
  ASSUME NoOrchard, Shallow, CoreInv, HistInv, WholeInv, [Next]_vars
  PROVE  WholeInv'
<1>1. CoreInv' /\ ProperInv'
  BY NextCore, ProperNext DEF HistInv, WholeInv
<1>2. CASE UNCHANGED vars
  BY <1>1, <1>2, WholeStay DEF vars
<1> QED BY <1>1, <1>2, ServerWhole, SyncWhole, ScanStepWhole, UserWhole DEF Next

LEMMA WholeInit == Init => WholeInv
<1> SUFFICES ASSUME Init PROVE WholeInv
  OBVIOUS
<1>1. ProperInv
  BY ProperInit
<1>2. phase \notin Batch /\ scans = {} /\ txns = <<>> /\ saved = <<>> /\ synced = <<{}>> /\ left = 1
  BY DEF Init, Batch
<1>3. Below(synced, left) = {} /\ Mined(synced) = {}
  BY <1>2 DEF Below, Mined
<1>4. IdleInv /\ SavedInv
  BY <1>3 DEF IdleInv, SavedInv, HasAll
<1>5. PaidInv
  BY <1>2 DEF PaidInv, InSpends
<1>6. BatchInv /\ TaddrInv /\ UtxoInv
  BY <1>2 DEF BatchInv, TaddrInv, UtxoInv
<1>7. SendFree
  BY DEF Init, SendFree
<1> QED BY <1>1, <1>4, <1>5, <1>6, <1>7 DEF WholeInv

LEMMA WholeHolds ==
  ASSUME InTime, NoOrchard, Shallow
  PROVE  Spec => [](CoreInv /\ HistInv /\ WholeInv)
<1>1. Init => CoreInv /\ HistInv /\ WholeInv
  BY InitCore, HistInit, WholeInit
<1>2. CoreInv /\ HistInv /\ WholeInv /\ [Next]_vars => (CoreInv /\ HistInv /\ WholeInv)'
  BY NextCore, HistNext, WholeNext
<1> QED BY <1>1, <1>2, PTL DEF Spec

-----------------------------------------------------------------------------
(* What the wallet keeps, whenever nobody is changing it                     *)

LEMMA RestIs ==
  ASSUME CoreInv, HistInv, WholeInv, AtRest
  PROVE  /\ HasAll(txns, Mined(synced)) /\ ConfirmedIn(txns, synced, left) /\ InSpends(txns)
         /\ Mined(synced) \subseteq Txs /\ GoodWallet(txns)
<1>1. phase = "idle" /\ phase \notin Batch
  BY DEF AtRest, Batch
<1>2. left = Len(synced)
  BY <1>1 DEF HistInv, ChainInv, Syncing
<1>3. Below(synced, left) = Mined(synced) /\ HasAll(txns, Below(synced, left))
      /\ ConfirmedIn(txns, synced, left) /\ Mined(synced) \subseteq Txs
  BY <1>1, <1>2, LeftIs
<1> QED BY <1>3, CoreWallet DEF WholeInv, PaidInv

(* Whenever nobody is changing the wallet, every transaction of the wallet's  *)
(* chain that pays or spends its money is in it, confirmed, at its height and *)
(* with all its notes: neither a reorg nor an expiry nor a restart takes one  *)
(* away for good, and no order of trial decryption, update_notes and the full *)
(* scans leaves one out, nor does the mempool monitor turn one it saw back    *)
(* into a pending one.  For wallets without Orchard notes and reorgs of fewer *)
(* than MAX_REORG blocks; with the monitor on, without reorgs and as long as  *)
(* what is streamed is scanned before it is mined.                            *)
THEOREM NothingLostCorrect ==
  ASSUME InTime, NoOrchard, MaxDepth < MaxReorg
  PROVE  Spec => []NothingLost
<1>1. CoreInv /\ HistInv /\ WholeInv => NothingLost
  <2> SUFFICES ASSUME CoreInv, HistInv, WholeInv, AtRest, NEW t \in Mined(synced),
                      Outs[t] # {} \/ Spends[t] # {}
               PROVE  /\ t \in DOMAIN txns /\ ~txns[t].unconfirmed
                      /\ txns[t].block = HeightIn(synced, t)
                      /\ DOMAIN txns[t].notes = Outs[t]
    BY DEF NothingLost
  <2>1. t \in Txs /\ HasAll(txns, Mined(synced)) /\ ConfirmedIn(txns, synced, left) /\ GoodWallet(txns)
    BY RestIs
  <2>2. \A p \in Outs[t] : Confirmed(txns, t) /\ p \in DOMAIN txns[t].notes
    BY <2>1, SpendsAreNotes DEF HasAll, Got, Ours, Known
  <2>3. Confirmed(txns, t)
    <3>1. CASE Outs[t] # {}
      BY <2>2, <3>1
    <3>2. CASE Spends[t] # {}
      BY <2>1, <3>2 DEF HasAll, Counted
    <3> QED BY <3>1, <3>2
  <2>4. ASSUME NEW p \in DOMAIN txns[t].notes PROVE p \in Outs[t]
    <3>1. p \in Pools /\ t \in DOMAIN txns
      BY <2>1, <2>3 DEF GoodWallet, IsWallet, IsTx, IsNotes, Confirmed
    <3>2. <<t, p>> \in Note /\ Known(txns, <<t, p>>)
      BY <2>1, <3>1 DEF Note, Known
    <3> QED BY <2>1, <3>2 DEF GoodWallet, ShapeOf
  <2>5. DOMAIN txns[t].notes = Outs[t]
    BY <2>2, <2>4
  <2> QED BY <2>1, <2>3, <2>5 DEF ConfirmedIn, Confirmed
<1> QED BY <1>1, WholeHolds, PTL DEF Shallow

(* Whenever nobody is changing the wallet, a note that the wallet's chain     *)
(* spends is marked spent by the transaction that spends it (update_notes,    *)
(* scan_full_tx): neither the batch that brings the note, nor the order of    *)
(* the tasks, nor a reorg, nor a restart hides a spend.  Under the conditions *)
(* of NothingLostCorrect.                                                     *)
THEOREM SpendsSeenCorrect ==
  ASSUME InTime, NoOrchard, MaxDepth < MaxReorg
  PROVE  Spec => []SpendsSeen
<1>1. CoreInv /\ HistInv /\ WholeInv => SpendsSeen
  BY RestIs DEF SpendsSeen, SpendersIn, HasAll, Seen
<1> QED BY <1>1, WholeHolds, PTL DEF Shallow

(* Whenever nobody is changing the wallet, the spent totals of a transaction  *)
(* of the wallet's chain count each of the wallet's notes it spends, and      *)
(* nothing else (add_new_spent, add_taddr_spent), for wallets none of whose   *)
(* transactions spends two UTXOs: a full scan that began before the second    *)
(* was known replaces the transparent total with that of the first.  Else     *)
(* under the conditions of NothingLostCorrect.                                *)
THEOREM FundsAccountedCorrect ==
  ASSUME InTime, NoOrchard, MaxDepth < MaxReorg, OneUtxo
  PROVE  Spec => []FundsAccounted
<1>1. CoreInv /\ HistInv /\ WholeInv => FundsAccounted
  <2> SUFFICES ASSUME CoreInv, HistInv, WholeInv, AtRest, NEW t \in Mined(synced) \cap DOMAIN txns
               PROVE  txns[t].paid = Spends[t]
    BY DEF FundsAccounted
  <2>1. HasAll(txns, Mined(synced)) /\ InSpends(txns)
    BY RestIs
  <2>2. \A n \in Spends[t] : n \in txns[t].paid
    BY <2>1 DEF HasAll, Counted
  <2> QED BY <2>1, <2>2 DEF InSpends
<1> QED BY <1>1, WholeHolds, PTL DEF Shallow

-----------------------------------------------------------------------------
(* What a step does to the confirmed spends                                  *)

(* The wallet has what is left of its chain, in a batch, too. *)
LeftInv == left \in Nat /\ HasAll(txns, Below(synced, left))

LEMMA LeftHolds ==
  ASSUME CoreInv, HistInv, WholeInv
  PROVE  LeftInv /\ (phase = "orchard" => Below(synced, left) \subseteq Mined(view))
<1>1. left \in Nat
  BY LeftIs
<1>2. CASE phase \notin Batch
  BY <1>1, <1>2, LeftIs DEF LeftInv, Batch
<1>3. CASE phase \in Batch
  <2>1. Goal = view /\ left = keep
    BY <1>3 DEF HistInv, ChainInv, Goal, Syncing, Batch
  <2>2. Below(synced, left) = Below(view, keep)
    BY <1>1, <2>1, BelowAgrees DEF HistInv, ChainInv
  <2>3. Below(view, keep) \subseteq Mined(view)
    BY <1>3, BatchHas DEF HistInv, WholeInv
  <2> QED BY <1>1, <1>3, <2>2, <2>3 DEF LeftInv, WholeInv, BatchInv
<1> QED BY <1>2, <1>3

LEMMA SyncedKept == [Next]_vars => synced' = synced \/ FinishSync
BY DEF Next, Server, Sync, Scan, User, ScanStep, vars, serverVars, syncVars, InScan, Scanning, Mine,
    Reorg, Arrive, Stream, StartSync, InvalidateBlock, BlocksDone, ReadOldNotes, OrchardPass, Detect,
    LookUpSpent, LookUpUnspent, RecordSpend, ScanTaddr, ScanFull, ScanStreamed, ScanOutputs, ScanInputs,
    MarkUtxo, RecordUtxos, ScanSpends, RecordSpends, ScanNotes, Broadcast, MarkSelected, Save, Restart

LEMMA SpentStays ==
  ASSUME CoreInv, HistInv, WholeInv, LeftInv', [Next]_vars
  PROVE  \A n \in WalletNotes :
           NoteOf(txns, n).spent \in SpendersIn(SubSeq(synced, 1, Smaller(left, left')), n)
             => Known(txns', n) /\ NoteOf(txns', n).spent = NoteOf(txns, n).spent
<1> SUFFICES ASSUME NEW n \in WalletNotes, NEW y \in SpendersIn(SubSeq(synced, 1, Smaller(left, left')), n),
                    NoteOf(txns, n).spent = y
             PROVE  Known(txns', n) /\ NoteOf(txns', n).spent = y
  OBVIOUS
<1> DEFINE m == Smaller(left, left')
<1>1. /\ left \in Nat /\ left' \in Nat /\ left <= Len(synced) /\ synced \in Seq(Blocks)
      /\ m \in Nat /\ m <= left /\ m <= left'
  <2>1. left \in Nat /\ left <= Len(synced) /\ synced \in Seq(Blocks)
    BY LeftIs
  <2>2. left' \in Nat
    BY DEF LeftInv
  <2> QED BY <2>1, <2>2 DEF Smaller
<1> HIDE DEF m
<1>2. y \in Below(synced, m) /\ n \in Spends[y]
  <2>1. Len(SubSeq(synced, 1, m)) = m /\ \A i \in 1..m : SubSeq(synced, 1, m)[i] = synced[i]
    BY <1>1
  <2>2. y \in Mined(SubSeq(synced, 1, m)) /\ n \in Spends[y]
    BY DEF SpendersIn, m
  <2> QED BY <2>1, <2>2 DEF Mined, Below
<1>3. y \in Below(synced, left) /\ y \in Below(synced, left')
  <2>1. \A i \in 1..m : i \in 1..left /\ i \in 1..left'
    BY <1>1
  <2> QED BY <1>2, <2>1 DEF Below
<1>4. y \in Below(synced', left')
  <2>1. CASE synced' = synced
    BY <1>3, <2>1
  <2>2. CASE FinishSync
    <3>1. synced' = view /\ left' = Len(view) /\ phase = "orchard"
      BY <2>2 DEF FinishSync
    <3>2. y \in Mined(view)
      BY <1>3, <3>1, LeftHolds
    <3>3. Mined(view) = Below(view, Len(view))
      BY DEF Below, Mined
    <3> QED BY <3>1, <3>2, <3>3
  <2> QED BY <2>1, <2>2, SyncedKept
<1>5. Seen(txns', n, y)
  <2>1. HasAll(txns', Below(synced', left'))
    BY DEF LeftInv
  <2> QED BY <1>2, <1>4, <2>1 DEF HasAll
<1> QED BY <1>5 DEF Seen, Ours

(* A confirmed spend is forgotten only when invalidate_block takes its block  *)
(* away: no later scan, no expiry, no rollback of another transaction and no  *)
(* restart changes the mark.  Under the conditions of NothingLostCorrect.     *)
THEOREM SpentStaysSpentCorrect ==
  ASSUME InTime, NoOrchard, MaxDepth < MaxReorg
  PROVE  Spec => SpentStaysSpent
<1>1. CoreInv /\ HistInv /\ WholeInv => LeftInv
  BY LeftHolds
<1>2. CoreInv /\ HistInv /\ WholeInv /\ LeftInv' /\ [Next]_vars =>
        \A n \in WalletNotes :
          NoteOf(txns, n).spent \in SpendersIn(SubSeq(synced, 1, Smaller(left, left')), n)
            => Known(txns', n) /\ NoteOf(txns', n).spent = NoteOf(txns, n).spent
  BY SpentStays
<1> QED BY <1>1, <1>2, WholeHolds, PTL DEF Spec, SpentStaysSpent, Shallow

-----------------------------------------------------------------------------
(* The newest witness                                                        *)

(* A Sapling note that may be spent *)
Live(w, n) == n[2] = "s" /\ Known(w, n) /\ NoteOf(w, n).keyed /\ NoteOf(w, n).spent = NoTx

(* Its newest witness is for block l, and has seen all up to there. *)
UpTo(w, n, l)   == NoteOf(w, n).witness.whole /\ NoteOf(w, n).witness.top = l
CurrentIn(w, l) == \A n \in Note : Live(w, n) => UpTo(w, n, l)

(* update_notes has updated the note, or it will: a new one from its block,  *)
(* an old one from the last batch.                                           *)
Queued(n) == \E u \in upd : u.note = n
Cared(n) ==
  \/ UpTo(txns, n, Len(view))
  \/ n[1] \in NewTxs /\ Queued(n)
  \/ n[1] \notin NewTxs /\ UpTo(txns, n, keep) /\ (oldNotes \/ Queued(n))

NewestInv ==
  /\ CurrentIn(saved, Len(synced))
  /\ IF phase \in Batch THEN \A n \in Note : Live(txns, n) => Cared(n)
     ELSE CurrentIn(txns, Len(synced))

(* From w to g, no note but those of M comes to life, or gets a witness. *)
Lives(w, g, M) ==
  \A n \in Note : Live(g, n) /\ n \notin M => Live(w, n) /\ NoteOf(g, n).witness = NoteOf(w, n).witness

LEMMA LedgerLives ==
  ASSUME NEW w, NEW g, NEW t, NEW h, NEW u, NEW M, Ledger(w, g, t, h, u, M)
  PROVE  Lives(w, g, M)
<1> SUFFICES ASSUME NEW n \in Note, Live(g, n), n \notin M
             PROVE  Live(w, n) /\ NoteOf(g, n).witness = NoteOf(w, n).witness
  BY DEF Lives
<1>1. CASE Known(w, n)
  <2>1. SameUse(NoteOf(w, n), NoteOf(g, n))
    BY <1>1 DEF Ledger, NotesFrom, Live
  <2> QED BY <1>1, <2>1 DEF SameUse, SameSpend, Live
<1>2. CASE ~Known(w, n)
  BY <1>2 DEF Ledger, NotesFrom, Live
<1> QED BY <1>1, <1>2

(* A step that leaves the batch's work as it is, but for the notes of M *)
LEMMA NewestStep ==
  ASSUME NewestInv, UNCHANGED <<saved, synced, view, keep, oldNotes>>, phase' \in Batch <=> phase \in Batch,
         NEW M, Lives(txns, txns', M), \A v \in upd : v \in upd' \/ v.note \in M,
         \A n \in M : n \in Note /\ Live(txns', n) => phase \in Batch /\ Cared(n)'
  PROVE  NewestInv'
<1>1. CurrentIn(saved', Len(synced'))
  BY DEF NewestInv
<1>2. CASE phase \in Batch
  <2>1. ASSUME NEW n \in Note, Live(txns', n), n \notin M PROVE Cared(n)'
    <3>1. Live(txns, n) /\ NoteOf(txns', n).witness = NoteOf(txns, n).witness
      BY <2>1 DEF Lives
    <3>2. Cared(n)
      BY <1>2, <3>1 DEF NewestInv
    <3>3. NewTxs' = NewTxs /\ (Queued(n) => Queued(n)')
      BY <2>1 DEF NewTxs, Queued
    <3>4. \A l : UpTo(txns, n, l) => UpTo(txns', n, l)
      BY <3>1 DEF UpTo
    <3> QED BY <3>2, <3>3, <3>4 DEF Cared
  <2> QED BY <1>1, <1>2, <2>1 DEF NewestInv
<1>3. CASE phase \notin Batch
  <2>1. CurrentIn(txns, Len(synced))
    BY <1>3 DEF NewestInv
  <2>2. \A n \in Note : n \in M => ~Live(txns', n)
    BY <1>3
  <2>3. CurrentIn(txns', Len(synced))
    BY <2>1, <2>2 DEF CurrentIn, Lives, UpTo
  <2> QED BY <1>1, <1>3, <2>3 DEF NewestInv
<1> QED BY <1>2, <1>3

LEMMA NotesAreLive ==
  ASSUME CoreInv, HistInv, Shallow, NEW n \in Note, Live(txns, n)
  PROVE  /\ n[1] \in Txs /\ Confirmed(txns, n[1]) /\ Witnesses(NoteOf(txns, n).witness) > 0
         /\ phase \in Batch => ConfirmedIn(txns, view, Len(view))
         /\ phase \notin Batch => ConfirmedIn(txns, synced, left)
<1>1. /\ WitnessIn(txns, IF phase \in Batch THEN Len(view) ELSE Len(synced))
      /\ phase \in Batch => ConfirmedIn(txns, view, Len(view))
      /\ phase \notin Batch => ConfirmedIn(txns, synced, left)
  BY DEF HistInv, WalletInv, Sound
<1>2. n[1] \in Txs /\ Confirmed(txns, n[1])
  BY <1>1, NoteParts DEF WitnessIn, WitnessOK, Live
<1>3. NoteOf(txns, n).witness.from <= NoteOf(txns, n).witness.top
  BY <1>1 DEF WitnessIn, WitnessOK, NoteReaches, Reaches, Live
<1>4. NoteOf(txns, n).witness \in WitnessRec
  BY CoreWallet, NoteOfType DEF Live, NoteRec
<1>5. Witnesses(NoteOf(txns, n).witness) > 0
  BY <1>3, <1>4 DEF WitnessRec, Witnesses
<1> QED BY <1>1, <1>2, <1>5

LEMMA DetectNewest ==
  ASSUME CoreInv, NewestInv, NEW n \in detect, Detect(n)
  PROVE  NewestInv'
<1> DEFINE t == n[1]
           h == HeightIn(view, t)
           no == FALSE
           none == {}
           one == {n}
<1>1. /\ phase \in Batch /\ phase' = phase /\ UNCHANGED <<saved, synced, view, keep, oldNotes>>
  BY DEF Detect, Batch
<1>2. n \in Note /\ t \in NewTxs /\ n[2] \in {"s", "o"} /\ n = <<t, n[2]>> /\ IsWallet(txns)
  BY NoteParts, CoreWallet DEF CoreInv, TypeOK, SyncTypes, QueueInv
<1>3. t \in Txs /\ h \in Nat
  BY <1>2, NewFits
<1>4. NewTxs' = NewTxs
  BY <1>1 DEF NewTxs
<1> HIDE DEF t, h
<1>5. CASE n[2] = "o"
  <2>1. txns' = AddNewOrchardNote(txns, t, h) /\ UNCHANGED upd
    BY <1>5 DEF Detect, t, h
  <2>2. Lives(txns, txns', none)
    <3>1. Ledger(txns, txns', t, h, FALSE, {})
      BY <1>2, <1>3, <2>1, OrchardNoteLedger
    <3> QED BY <3>1, LedgerLives
  <2>3. \A m \in none : m \in Note /\ Live(txns', m) => phase \in Batch /\ Cared(m)'
    OBVIOUS
  <2> HIDE DEF none
  <2> QED BY <1>1, <2>1, <2>2, <2>3, NewestStep
<1>6. CASE n[2] = "s"
  <2>1. txns' = AddNewSaplingNote(txns, t, h) /\ upd' = upd \cup {[note |-> n, at |-> h]} /\ n = <<t, "s">>
    BY <1>2, <1>6 DEF Detect, t, h
  <2>2. Lives(txns, txns', one)
    <3> DEFINE g == AddNewSaplingNote(txns, t, h)
               m == <<t, "s">>
    <3>1. Ledger(txns, g, t, h, FALSE, {m})
      BY <1>2, <1>3, SaplingNoteLedger
    <3>2. g = txns' /\ {m} = one
      BY <2>1
    <3> HIDE DEF g, m, one
    <3> QED BY <3>1, <3>2, LedgerLives
  <2>3. Cared(n)'
    <3> DEFINE u == [note |-> n, at |-> h]
    <3>1. u \in upd' /\ u.note = n
      BY <2>1
    <3> HIDE DEF u
    <3> QED BY <1>2, <1>4, <3>1 DEF Cared, Queued, t
  <2>4. \A m \in one : m \in Note /\ Live(txns', m) => phase \in Batch /\ Cared(m)'
    BY <1>1, <2>3
  <2>5. \A v \in upd : v \in upd' \/ v.note \in one
    BY <2>1
  <2> HIDE DEF one
  <2> QED BY <1>1, <2>2, <2>4, <2>5, NewestStep
<1> QED BY <1>2, <1>5, <1>6

LEMMA ReadOldNewest ==
  ASSUME Shallow, CoreInv, HistInv, NewestInv, ReadOldNotes
  PROVE  NewestInv'
<1> DEFINE old == NotesForUpdating(txns, keep)
<1>1. /\ phase \in Batch /\ phase' = phase /\ UNCHANGED <<txns, saved, synced, view, keep>>
      /\ upd' = upd \cup {[note |-> n, at |-> keep + 1] : n \in old}
  BY DEF ReadOldNotes, Batch
<1>2. CurrentIn(saved', Len(synced')) /\ NewTxs' = NewTxs
  BY <1>1 DEF NewestInv, NewTxs
<1>3. ASSUME NEW n \in Note, Live(txns, n), n[1] \notin NewTxs
      PROVE  n \in old
  <2>1. /\ n[1] \in Txs /\ Confirmed(txns, n[1]) /\ Witnesses(NoteOf(txns, n).witness) > 0
        /\ ConfirmedIn(txns, view, Len(view))
    BY <1>1, <1>3, NotesAreLive
  <2>2. n[1] \in Mined(view) /\ txns[n[1]].block = HeightIn(view, n[1])
    BY <2>1 DEF ConfirmedIn
  <2>3. view \in Seq(Blocks) /\ keep \in Nat /\ Once(view) /\ keep <= Len(view)
    BY <1>1, NewIs DEF HistInv
  <2>4. n[1] \in Below(view, keep)
    BY <1>1, <1>3, <2>2, NewIs DEF HistInv
  <2>5. HeightIn(view, n[1]) <= keep
    BY <2>3, <2>4, BelowIs
  <2> QED BY <1>3, <2>1, <2>2, <2>5 DEF NotesForUpdating, Live, Confirmed
<1> HIDE DEF old
<1>4. ASSUME NEW n \in Note, Live(txns', n) PROVE Cared(n)'
  <2>1. Live(txns, n) /\ Cared(n)
    BY <1>1, <1>4 DEF NewestInv
  <2>2. Queued(n) => Queued(n)'
    BY <1>1 DEF Queued
  <2>3. n[1] \notin NewTxs => Queued(n)'
    <3> DEFINE u == [note |-> n, at |-> keep + 1]
    <3>1. u.note = n /\ (n \in old => u \in upd')
      BY <1>1
    <3> HIDE DEF u
    <3> QED BY <1>3, <2>1, <3>1 DEF Queued
  <2> QED BY <1>1, <1>2, <2>1, <2>2, <2>3 DEF Cared
<1> QED BY <1>1, <1>2, <1>4 DEF NewestInv

LEMMA LookUpSpentNewest ==
  ASSUME CoreInv, NewestInv, NEW v \in upd, LookUpSpent(v)
  PROVE  NewestInv'
<1> DEFINE n == v.note
           one == {n}
<1>1. PICK y \in SpendingTxs(v) : txns' = MarkTxidNfSpent(txns, n, y, HeightIn(view, y))
  BY DEF LookUpSpent
<1> DEFINE h == HeightIn(view, y)
           e == Marked(NoteOf(txns, n), y, h)
<1>2. /\ phase \in Batch /\ phase' = phase /\ upd' = upd \ {v}
      /\ UNCHANGED <<saved, synced, view, keep, oldNotes>>
  BY DEF LookUpSpent, CoreInv, QueueInv
<1>3. n \in Note /\ Known(txns, n) /\ IsWallet(txns)
  BY CoreWallet DEF CoreInv, TypeOK, SyncTypes, QueueInv
<1>4. y \in NewTxs /\ y \in Txs /\ h \in Nat
  BY <1>1, NewTxsAre DEF SpendingTxs, CoreInv, TypeOK
<1>5. \A w \in upd : w \in upd' \/ w.note \in one
  BY <1>2
<1> HIDE DEF n, h
<1>6. IsWallet(txns') /\ Replaced(txns, txns', n, e)
  BY <1>1, <1>3, <1>4, MarkNfIs DEF h
<1>7. NoteOf(txns', n) = e /\ e.spent = y
  <2>1. NoteOf(txns, n) \in NoteRec
    BY <1>3, NoteOfType
  <2> QED BY <1>3, <1>4, <1>6, <2>1, MarkedIs DEF Replaced
<1> HIDE DEF e
<1>8. ~Live(txns', n)
  BY <1>4, <1>7, TxAssumption DEF Live
<1>9. Lives(txns, txns', one)
  <2>1. Ledger(txns, txns', NoTx, 0, TRUE, {n})
    BY <1>3, <1>6, ReplacedLedger
  <2>2. one = {n}
    OBVIOUS
  <2> HIDE DEF one
  <2> QED BY <2>1, <2>2, LedgerLives
<1>10. \A m \in one : m \in Note /\ Live(txns', m) => phase \in Batch /\ Cared(m)'
  BY <1>8
<1> HIDE DEF one
<1> QED BY <1>2, <1>5, <1>9, <1>10, NewestStep

LEMMA UpdateTops ==
  ASSUME NEW c \in WitnessRec, NEW last \in Nat, c.top <= last
  PROVE  LET e == UpdateAfterBlock(c, last) IN e.top = last /\ e.whole = c.whole
BY DEF UpdateAfterBlock, WitnessRec

LEMMA LookUpUnspentNewest ==
  ASSUME CoreInv, HistInv, NewestInv, NEW v \in upd, LookUpUnspent(v)
  PROVE  NewestInv'
<1> DEFINE n == v.note
           d == NoteOf(txns, n)
           r == FirstWitness(v.at)
           fresh == [r EXCEPT !.whole = TRUE]
           start == IF n[1] \in NewTxs THEN fresh ELSE d.witness
           c == UpdateAfterBlock(start, Len(view))
           e == [d EXCEPT !.witness = c]
           one == {n}
<1>1. /\ phase \in Batch /\ phase' = phase /\ upd' = upd \ {v}
      /\ UNCHANGED <<saved, synced, view, keep, oldNotes>>
      /\ txns' = SetNote(txns, n, e)
  BY DEF LookUpUnspent, CoreInv, QueueInv
<1>2. n \in Note /\ Known(txns, n) /\ IsWallet(txns) /\ v.at \in Nat /\ view \in Seq(Blocks) /\ d.keyed
  BY CoreWallet DEF CoreInv, TypeOK, SyncTypes, QueueInv
<1>3. \A w \in upd : w \in upd' \/ w.note \in one
  BY <1>1
<1>4. d \in NoteRec /\ Len(view) \in Nat
  BY <1>2, NoteOfType
<1>5. fresh \in WitnessRec /\ fresh.whole = TRUE /\ fresh.top = v.at
  <2>1. r \in WitnessRec /\ r.top = v.at
    BY <1>2, WitnessTypes DEF FirstWitness
  <2> HIDE DEF r
  <2> QED BY <2>1 DEF WitnessRec
<1> HIDE DEF n, d, r, fresh
<1>6. start \in WitnessRec
  BY <1>4, <1>5 DEF NoteRec
<1> HIDE DEF start
<1>7. c \in WitnessRec
  BY <1>4, <1>6, UpdateTypes
<1>8. e \in NoteRec /\ e.spent = d.spent /\ e.keyed = d.keyed /\ e.witness = c
  <2> HIDE DEF c
  <2> QED BY <1>4, <1>7 DEF NoteRec
<1>9. ASSUME Live(txns, n) PROVE c.whole /\ c.top = Len(view)
  <2>1. Cared(n) /\ n[2] = "s"
    BY <1>1, <1>2, <1>9 DEF NewestInv, Live
  <2>2. view \in Seq(Blocks) /\ keep \in Nat /\ keep <= Len(view)
    BY <1>1, NewIs DEF HistInv
  <2>3. CASE n[1] \in NewTxs
    <3>1. v.at = HeightIn(view, n[1])
      BY <2>1, <2>3 DEF HistInv, NoteWork, n
    <3>2. HeightIn(view, n[1]) <= Len(view)
      BY <2>3, NewFits
    <3>3. start.whole /\ start.top <= Len(view)
      BY <1>5, <2>3, <3>1, <3>2 DEF start
    <3> QED BY <1>4, <1>6, <3>3, UpdateTops
  <2>4. CASE n[1] \notin NewTxs
    <3>1. d.witness.whole /\ (d.witness.top = Len(view) \/ d.witness.top = keep)
      BY <2>1, <2>4 DEF Cared, UpTo, d
    <3>2. start.whole /\ start.top <= Len(view)
      BY <1>4, <2>2, <2>4, <3>1 DEF start
    <3> QED BY <1>4, <1>6, <3>2, UpdateTops
  <2> QED BY <2>3, <2>4
<1> HIDE DEF c, e
<1>10. IsWallet(txns') /\ Replaced(txns, txns', n, e)
  BY <1>1, <1>2, <1>8, ReplaceIs DEF e
<1>11. Known(txns', n) /\ NoteOf(txns', n) = e
  BY <1>2, <1>10 DEF Replaced
<1>12. ASSUME Live(txns', n) PROVE Cared(n)'
  <2>1. Live(txns, n)
    BY <1>2, <1>8, <1>11, <1>12 DEF Live, d
  <2>2. UpTo(txns', n, Len(view'))
    BY <1>1, <1>8, <1>9, <1>11, <2>1 DEF UpTo
  <2> QED BY <2>2 DEF Cared
<1>13. Lives(txns, txns', one)
  <2>1. Ledger(txns, txns', NoTx, 0, TRUE, {n})
    BY <1>2, <1>10, ReplacedLedger
  <2>2. one = {n}
    OBVIOUS
  <2> HIDE DEF one
  <2> QED BY <2>1, <2>2, LedgerLives
<1>14. \A m \in one : m \in Note /\ Live(txns', m) => phase \in Batch /\ Cared(m)'
  BY <1>1, <1>12
<1> HIDE DEF one
<1> QED BY <1>1, <1>3, <1>13, <1>14, NewestStep

LEMMA RecordSpendNewest ==
  ASSUME CoreInv, NewestInv, NEW f \in found, RecordSpend(f)
  PROVE  NewestInv'
<1> DEFINE n == f.note
           t == f.spender
           h == HeightIn(view, t)
           one == {n}
           no == FALSE
           g == AddNewSpent(txns, t, h, no, n)
           M == IF no THEN {} ELSE {n}
<1>1. /\ phase \in Batch /\ phase' = phase /\ upd' = upd
      /\ UNCHANGED <<saved, synced, view, keep, oldNotes>>
      /\ txns' = AddNewSpent(txns, t, h, FALSE, n)
  BY DEF RecordSpend, CoreInv, QueueInv
<1>2. n \in Note /\ IsWallet(txns) /\ t \in NewTxs
  BY CoreWallet DEF CoreInv, TypeOK, SyncTypes, QueueInv
<1>3. t \in Txs /\ h \in Nat
  BY <1>2, NewFits
<1>4. no \in BOOLEAN /\ ~no /\ M = one /\ g = txns' /\ one = {n}
  BY <1>1
<1> HIDE DEF n, t, h, no
<1>5. /\ Ledger(txns, g, t, h, no, M)
      /\ Known(g, n) => Known(txns, n)
      /\ ~no /\ Known(txns, n) => NoteOf(g, n).spent = t
  BY <1>2, <1>3, <1>4, NewSpentLedger
<1> HIDE DEF g, M, one
<1>6. Lives(txns, txns', one)
  BY <1>4, <1>5, LedgerLives
<1>7. ~Live(txns', n)
  BY <1>3, <1>4, <1>5, TxAssumption DEF Live
<1>8. \A m \in one : m \in Note /\ Live(txns', m) => phase \in Batch /\ Cared(m)'
  BY <1>4, <1>7
<1> QED BY <1>1, <1>6, <1>8, NewestStep

LEMMA OrchardPassNewest ==
  ASSUME CoreInv, NewestInv, OrchardPass
  PROVE  NewestInv'
<1> DEFINE none == {}
<1>1. /\ phase \in Batch /\ phase' \in Batch /\ txns' = Placed(txns, NewTxs) /\ upd = {} /\ ~oldNotes
      /\ UNCHANGED <<saved, synced, view, keep, oldNotes>>
  BY DEF OrchardPass, Batch, Placed
<1>2. Lives(txns, txns', none)
  <2>1. Ledger(txns, Placed(txns, NewTxs), NoTx, 0, TRUE, {})
    BY CoreWallet, PlacedLedger
  <2> QED BY <1>1, <2>1, LedgerLives
<1>3. \A m \in none : m \in Note /\ Live(txns', m) => phase \in Batch /\ Cared(m)'
  OBVIOUS
<1> HIDE DEF none
<1> QED BY <1>1, <1>2, <1>3, NewestStep

(* The end of a batch: every note that may be spent is up to date.  Expiry   *)
(* gives no Sapling note back, and no witness is cleared but a spent note's. *)
LEMMA FinishNewest ==
  ASSUME CoreInv, HistInv, NewestInv, FinishSync
  PROVE  NewestInv'
<1> DEFINE l == Len(view)
           g == ClearExpiredMempool(ClearOldWitnesses(txns, l), l)
           removed == ExpiredIn(txns, l)
<1>1. /\ phase = "orchard" /\ phase \in Batch /\ phase' \notin Batch /\ upd = {} /\ found = {}
      /\ synced' = view /\ txns' = g /\ saved' = g
  BY DEF FinishSync, Batch
<1>2. ~oldNotes /\ IsWallet(txns) /\ l \in Nat
  BY <1>1, CoreWallet DEF CoreInv, QueueInv
<1>3. ASSUME NEW n \in Note, Live(g, n) PROVE UpTo(g, n, l)
  <2>1. Removal(txns, g, removed)
    BY <1>2, ExpiryRemoval
  <2>2. /\ NoteOf(g, n).witness = NoteOf(txns, n).witness
           \/ (NoteOf(txns, n).spent # NoTx /\ NoteOf(txns, n).at < l - MaxReorg)
    BY <1>2, <1>3, ExpiryWitness DEF Live
  <2> HIDE DEF g
  <2>3. /\ Known(txns, n) /\ NoteOf(txns, n).keyed
        /\ NoteOf(txns, n).spent = NoTx \/ NoteOf(txns, n).spent \in removed
    BY <1>3, <2>1 DEF Removal, Mapped, Live
  <2>4. NoteOf(txns, n).spent = NoTx
    <3> SUFFICES ASSUME NoteOf(txns, n).spent # NoTx PROVE FALSE
      OBVIOUS
    <3>1. SpentOK(txns, found, view, n)
      BY <1>1, <2>3 DEF HistInv, WalletInv, Sound, SpentIn
    <3>2. Settled(txns, NoteOf(txns, n))
      BY <1>1, <1>3, <3>1 DEF SpentOK, Unrecorded, Live
    <3> QED BY <2>3, <3>2 DEF Settled, Confirmed, ExpiredIn
  <2>5. Live(txns, n) /\ NoteOf(g, n).witness = NoteOf(txns, n).witness
    BY <1>3, <2>2, <2>3, <2>4 DEF Live
  <2>6. UpTo(txns, n, l)
    BY <1>1, <1>2, <2>5 DEF NewestInv, Cared, Queued
  <2> QED BY <2>5, <2>6 DEF UpTo
<1> HIDE DEF g
<1>4. CurrentIn(g, Len(synced'))
  BY <1>1, <1>3 DEF CurrentIn
<1> QED BY <1>1, <1>4 DEF NewestInv

LEMMA BlocksDoneNewest ==
  ASSUME Shallow, CoreInv, HistInv, CalmInv, NewestInv, BlocksDone
  PROVE  NewestInv'
<1>1. /\ phase = "reorg" /\ phase \notin Batch /\ phase' \in Batch /\ oldNotes' = TRUE
      /\ UNCHANGED <<txns, saved, synced, view, keep, left>>
  BY DEF BlocksDone, Batch
<1>2. ASSUME NEW n \in Note, Live(txns, n) PROVE n[1] \notin NewTxs /\ UpTo(txns, n, keep)
  <2>1. UpTo(txns, n, keep)
    BY <1>1, <1>2 DEF NewestInv, CalmInv, CurrentIn
  <2>2. n[1] \in Txs /\ Confirmed(txns, n[1]) /\ ConfirmedIn(txns, synced, left)
    BY <1>1, <1>2, NotesAreLive
  <2>3. n[1] \in Mined(synced)
    BY <2>2 DEF ConfirmedIn
  <2>4. synced \in Seq(Blocks) /\ keep \in Nat /\ keep = Len(synced) /\ Goal = view
    BY <1>1, GoalIs, CoreWallet DEF CalmInv, Goal, Syncing, CoreInv
  <2>5. n[1] \in Below(view, keep)
    <3>1. n[1] \in Below(synced, keep)
      BY <2>3, <2>4 DEF Below, Mined
    <3> QED BY <2>4, <3>1, BelowAgrees DEF HistInv, ChainInv
  <2>6. n[1] \notin NewTxs
    BY <1>1, <2>5, NewIs DEF HistInv
  <2> QED BY <2>1, <2>6
<1>3. NewTxs' = NewTxs
  BY <1>1 DEF NewTxs
<1>4. \A n \in Note : Live(txns', n) => Cared(n)'
  BY <1>1, <1>2, <1>3 DEF Cared
<1> QED BY <1>1, <1>4 DEF NewestInv

(* A scan brings no Sapling note to life. *)
LEMMA ScanLives ==
  ASSUME CoreInv, HistInv, NEW s \in scans, ScanStep(s), NEW none, none = {}
  PROVE  Lives(txns, txns', none)
<1> DEFINE t == s.tx
           h == s.height
           u == s.unconfirmed
<1>1. /\ s \in ScanRec /\ t \in Txs /\ h \in Nat /\ u \in BOOLEAN
      /\ s.utxos \in SUBSET Note /\ s.toMark \in SUBSET Note /\ IsWallet(txns)
  BY ScanIs, CoreWallet
<1> HIDE DEF t, h, u
<1>2. Lives(txns, txns, none)
  BY DEF Lives
<1>3. CASE ScanOutputs(s)
  <2>1. txns' = txns \/ txns' = AddNewTaddrOutput(txns, t, h, u)
    BY <1>3 DEF ScanOutputs, t, h, u
  <2>2. Ledger(txns, AddNewTaddrOutput(txns, t, h, u), t, h, u, {})
    BY <1>1, TaddrOutputLedger
  <2> QED BY <1>2, <2>1, <2>2, LedgerLives
<1>4. CASE ScanInputs(s) \/ ScanSpends(s)
  <2>1. txns' = txns
    BY <1>4 DEF ScanInputs, ScanSpends
  <2> QED BY <1>2, <2>1
<1>5. CASE MarkUtxo(s)
  <2>1. PICK n \in s.toMark : txns' = MarkTxidUtxoSpent(txns, n, t, h)
    BY <1>5 DEF MarkUtxo, t, h
  <2>2. n \in Note /\ n[2] = "t"
    BY <1>1, <1>5, <2>1 DEF CoreInv, ScanInv, MarkUtxo, At
  <2>3. CASE Known(txns, n)
    <3> DEFINE e == Marked(NoteOf(txns, n), t, h)
    <3>1. IsWallet(txns') /\ Replaced(txns, txns', n, e)
      BY <1>1, <2>1, <2>2, <2>3, MarkUtxoIs
    <3> HIDE DEF e
    <3>2. Ledger(txns, txns', t, h, u, {n})
      BY <2>2, <3>1, ReplacedLedger
    <3>3. Lives(txns, txns', {n})
      BY <3>2, LedgerLives
    <3> QED BY <2>2, <3>3 DEF Lives, Live
  <2>4. CASE ~Known(txns, n)
    <3>1. txns' = txns
      BY <1>1, <2>1, <2>2, <2>4, MarkUtxoIs
    <3> QED BY <1>2, <3>1
  <2> QED BY <2>3, <2>4
<1>6. CASE RecordUtxos(s)
  <2>1. txns' = AddTaddrSpent(txns, t, h, u, s.utxos)
    BY <1>6 DEF RecordUtxos, t, h, u
  <2>2. Ledger(txns, txns', t, h, u, {})
    BY <1>1, <2>1, TaddrSpentLedger
  <2> QED BY <2>2, LedgerLives
<1>7. CASE RecordSpends(s)
  <2> DEFINE yes == TRUE
  <2>1. PICK n \in s.toMark : txns' = AddNewSpent(txns, t, h, yes, n)
    BY <1>7 DEF RecordSpends, t, h
  <2>2. n \in Note /\ yes \in BOOLEAN /\ (IF yes THEN {} ELSE {n}) = {}
    BY <1>1, <2>1
  <2> HIDE DEF yes
  <2>3. Ledger(txns, AddNewSpent(txns, t, h, yes, n), t, h, yes, IF yes THEN {} ELSE {n})
    BY <1>1, <2>2, NewSpentLedger
  <2> QED BY <2>1, <2>2, <2>3, LedgerLives
<1>8. CASE ScanNotes(s)
  <2>1. txns' = txns \/ txns' = AddPendingNote(txns, t, h)
    BY <1>8 DEF ScanNotes, t, h
  <2> DEFINE yes == TRUE
  <2>2. yes = TRUE
    OBVIOUS
  <2> HIDE DEF yes
  <2>3. Ledger(txns, AddPendingNote(txns, t, h), t, h, yes, {})
    BY <1>1, <2>2, PendingNoteLedger
  <2> QED BY <1>2, <2>1, <2>3, LedgerLives
<1> QED BY <1>3, <1>4, <1>5, <1>6, <1>7, <1>8 DEF ScanStep

(* What the notes are made of stays. *)
LEMMA NewestStay ==
  ASSUME NewestInv, UNCHANGED <<txns, saved, synced, view, keep, oldNotes, upd>>, phase' \in Batch <=> phase \in Batch
  PROVE  NewestInv'
<1> DEFINE none == {}
<1>1. \A n \in none : n \in Note /\ Live(txns', n) => phase \in Batch /\ Cared(n)'
  OBVIOUS
<1> HIDE DEF none
<1>2. Lives(txns, txns', none)
  BY DEF Lives
<1> QED BY <1>1, <1>2, NewestStep

LEMMA ScanNewest ==
  ASSUME CoreInv, HistInv, NewestInv, Scan
  PROVE  NewestInv'
<1> DEFINE none == {}
<1>1. CASE ScanStreamed
  <2>1. UNCHANGED <<txns, saved, synced, view, keep, oldNotes, upd, phase>>
    BY <1>1 DEF ScanStreamed, syncVars, queueVars
  <2> QED BY <2>1, NewestStay
<1> SUFFICES ASSUME ~ScanStreamed PROVE NewestInv'
  BY <1>1
<1>2. PICK s \in scans : ScanStep(s)
  BY DEF Scan
<1>3. UNCHANGED <<saved, synced, view, keep, oldNotes, upd>>
  BY <1>2 DEF ScanStep, ScanOutputs, ScanInputs, MarkUtxo, RecordUtxos, ScanSpends, RecordSpends, ScanNotes,
      InScan, Scanning, queueVars
<1>4. phase' \in Batch <=> phase \in Batch
  <2>1. phase' = phase \/ (s.by = "send" /\ phase' = "idle")
    BY <1>2 DEF ScanStep, ScanOutputs, ScanInputs, MarkUtxo, RecordUtxos, ScanSpends, RecordSpends, ScanNotes,
        InScan, Done
  <2>2. s.by = "send" => phase = "sendscan"
    BY DEF CoreInv, ScanInv
  <2> QED BY <2>1, <2>2 DEF Batch
<1>5. \A n \in none : n \in Note /\ Live(txns', n) => phase \in Batch /\ Cared(n)'
  OBVIOUS
<1>6. none = {}
  OBVIOUS
<1> HIDE DEF none
<1>7. Lives(txns, txns', none)
  BY <1>2, <1>6, ScanLives
<1> QED BY <1>3, <1>4, <1>5, <1>7, NewestStep

LEMMA SyncNewest ==
  ASSUME Shallow, CoreInv, HistInv, CalmInv, NewestInv, Sync
  PROVE  NewestInv'
<1>1. CASE StartSync
  <2>1. /\ phase \notin Batch /\ phase' \notin Batch /\ UNCHANGED <<txns, saved, synced>>
    BY <1>1 DEF StartSync, Batch
  <2> QED BY <2>1 DEF NewestInv
<1>2. ~InvalidateBlock
  <2>1. left <= Len(synced) /\ keep = Len(synced) /\ keep \in Nat /\ left \in Nat
    BY GoalIs DEF CalmInv, HistInv, ChainInv, CoreInv
  <2> QED BY <2>1 DEF InvalidateBlock
<1>3. CASE \E t \in taddrQ : ScanTaddr(t)
  <2>1. UNCHANGED <<txns, saved, synced, view, keep, oldNotes, upd, phase>>
    BY <1>3 DEF ScanTaddr
  <2> QED BY <2>1, NewestStay
<1>4. CASE \E t \in fullQ : ScanFull(t)
  <2>1. UNCHANGED <<txns, saved, synced, view, keep, oldNotes, upd, phase>>
    BY <1>4 DEF ScanFull
  <2> QED BY <2>1, NewestStay
<1> QED BY <1>1, <1>2, <1>3, <1>4, BlocksDoneNewest, ReadOldNewest, OrchardPassNewest, FinishNewest,
      DetectNewest, LookUpSpentNewest, LookUpUnspentNewest, RecordSpendNewest DEF Sync

LEMMA UserNewest ==
  ASSUME CoreInv, HistInv, NewestInv, User
  PROVE  NewestInv'
<1>1. CASE \E t \in Sent : Broadcast(t)
  <2>1. /\ phase \notin Batch /\ phase' \notin Batch /\ UNCHANGED <<txns, saved, synced>>
    BY <1>1 DEF Broadcast, Batch
  <2> QED BY <2>1 DEF NewestInv
<1>2. CASE MarkSelected
  <2>1. /\ phase = "send" /\ phase \notin Batch /\ phase' \notin Batch
        /\ txns' = Reserved(txns, Spends[sending], sending)
        /\ UNCHANGED <<saved, synced, view, keep, oldNotes, upd>>
    BY <1>2 DEF MarkSelected, Reserved, Batch, queueVars
  <2>2. IsWallet(txns) /\ sending \in Txs
    BY <2>1, CoreWallet, TxAssumption DEF CoreInv, ScanInv
  <2> DEFINE none == {}
  <2>3. Lives(txns, txns', none)
    <3>1. Ledger(txns, txns', NoTx, 0, TRUE, {})
      BY <2>1, <2>2, ReservedLedger
    <3> QED BY <3>1, LedgerLives
  <2>4. \A n \in none : n \in Note /\ Live(txns', n) => phase \in Batch /\ Cared(n)'
    OBVIOUS
  <2> HIDE DEF none
  <2> QED BY <2>1, <2>3, <2>4, NewestStep
<1>3. CASE Save
  <2>1. /\ phase \notin Batch /\ phase' \notin Batch /\ saved' = txns /\ UNCHANGED <<txns, synced>>
    BY <1>3 DEF Save, Batch, syncVars
  <2> QED BY <2>1 DEF NewestInv
<1>4. CASE Restart
  <2>1. /\ phase' \notin Batch /\ txns' = saved /\ saved' = saved /\ UNCHANGED synced
    BY <1>4 DEF Restart, Loaded, Batch
  <2> QED BY <2>1 DEF NewestInv
<1> QED BY <1>1, <1>2, <1>3, <1>4 DEF User

LEMMA NewestNext ==
  ASSUME Shallow, CoreInv, HistInv, CalmInv, NewestInv, [Next]_vars
  PROVE  NewestInv'
<1>1. CASE Server \/ UNCHANGED vars
  <2>1. UNCHANGED <<txns, saved, synced, view, keep, oldNotes, upd, phase>>
    BY <1>1 DEF Server, Mine, Reorg, Arrive, Stream, syncVars, serverVars, queueVars, vars
  <2> QED BY <2>1, NewestStay
<1> QED BY <1>1, SyncNewest, ScanNewest, UserNewest DEF Next

LEMMA NewestInit == Init => NewestInv
<1> SUFFICES ASSUME Init PROVE NewestInv
  OBVIOUS
<1>1. phase \notin Batch /\ txns = <<>> /\ saved = <<>>
  BY DEF Init, Batch
<1>2. \A n \in Note : ~Known(<<>>, n)
  BY DEF Known
<1> QED BY <1>1, <1>2 DEF NewestInv, CurrentIn, Live

(* Whenever nobody is changing the wallet, the newest witness of a Sapling    *)
(* note that may be spent is for the newest block and has seen every output   *)
(* up to there: update_notes finds every old note, whose last witness is the  *)
(* last batch's, and takes every new one to the end of its block first        *)
(* (update_witnesses).  Without reorgs, and whatever is sent, streamed and    *)
(* scanned before it is mined, expires, is saved or restarted.                *)
THEOREM WitnessCurrentCorrect ==
  ASSUME InTime, MaxReorgs = 0, MaxDepth < MaxReorg
  PROVE  Spec => []WitnessCurrent
<1>1. Init => CalmInv /\ NewestInv
  BY CalmInit, NewestInit
<1>2. CoreInv /\ HistInv /\ CalmInv /\ NewestInv /\ [Next]_vars => (CalmInv /\ NewestInv)'
  BY CalmNext, NewestNext DEF Shallow, HistInv
<1>3. CoreInv /\ NewestInv => WitnessCurrent
  BY DEF WitnessCurrent, WalletNotes, AtRest, NewestInv, CurrentIn, Live, UpTo, Batch
<1> QED BY <1>1, <1>2, <1>3, HistHolds, PTL DEF Spec

-----------------------------------------------------------------------------
(* What waits at the server keeps its notes                                  *)

(* From w to g, the wallet keeps its notes, and all but those of M their marks. *)
Holds(w, g, M) ==
  \A n \in Note : Ours(w, n) =>
    /\ Ours(g, n)
    /\ \/ n \in M
       \/ NoteOf(g, n).spent = NoteOf(w, n).spent /\ NoteOf(g, n).pending = NoteOf(w, n).pending

LEMMA SameHolds ==
  ASSUME NEW w
  PROVE  Holds(w, w, {})
BY DEF Holds

LEMMA AddedHolds ==
  ASSUME NEW w, NEW g, NEW n, NEW d, Added(w, g, n, d)
  PROVE  Holds(w, g, {})
BY DEF Added, Holds, Ours

LEMMA ChangedHolds ==
  ASSUME NEW w, IsWallet(w), NEW g, NEW t, ChangedNotes(w, g, t)
  PROVE  Holds(w, g, {})
<1> SUFFICES ASSUME NEW n \in Note, Ours(w, n)
             PROVE  Ours(g, n) /\ NoteOf(g, n).spent = NoteOf(w, n).spent
                               /\ NoteOf(g, n).pending = NoteOf(w, n).pending
  BY DEF Holds
<1>1. Known(w, n) /\ Known(g, n) /\ NoteOf(w, n) \in NoteRec
  BY NoteOfType DEF Ours, ChangedNotes
<1>2. NoteOf(g, n) = NoteOf(w, n) \/ NoteOf(g, n) = MadeChange(n[2], NoteOf(w, n))
  BY <1>1 DEF ChangedNotes
<1>3. SameButChange(NoteOf(g, n), NoteOf(w, n))
  <2>1. SameButChange(MadeChange(n[2], NoteOf(w, n)), NoteOf(w, n))
    BY <1>1, MadeChangeIs
  <2>2. SameButChange(NoteOf(w, n), NoteOf(w, n))
    BY DEF SameButChange
  <2> QED BY <1>2, <2>1, <2>2
<1> QED BY <1>1, <1>3 DEF SameButChange, Ours

LEMMA ReplacedHolds ==
  ASSUME NEW w, NEW g, NEW n \in Note, NEW d, Replaced(w, g, n, d), Ours(w, n) => d.keyed = NoteOf(w, n).keyed
  PROVE  Holds(w, g, {n})
BY DEF Holds, Replaced, Ours

LEMMA MappedHolds ==
  ASSUME NEW w, NEW g, Mapped(w, g), DOMAIN g = DOMAIN w, NEW M,
         \A n \in Note : Known(g, n) =>
           /\ NoteOf(g, n).keyed = NoteOf(w, n).keyed /\ NoteOf(g, n).spent = NoteOf(w, n).spent
           /\ n \in M \/ NoteOf(g, n).pending = NoteOf(w, n).pending
  PROVE  Holds(w, g, M)
BY DEF Holds, Mapped, Ours, Known

LEMMA TaddrOutputHolds ==
  ASSUME NEW w, IsWallet(w), NEW t \in Txs, NEW h \in Nat, NEW u \in BOOLEAN
  PROVE  Holds(w, AddNewTaddrOutput(w, t, h, u), {})
<1>1. Added(w, AddNewTaddrOutput(w, t, h, u), <<t, "t">>, NewNote(TRUE, NoWitness, FALSE))
  BY AddNewTaddrOutputIs
<1> QED BY <1>1, AddedHolds

LEMMA TaddrSpentHolds ==
  ASSUME NEW w, IsWallet(w), NEW t \in Txs, NEW h \in Nat, NEW u \in BOOLEAN, NEW utxos \in SUBSET Note
  PROVE  Holds(w, AddTaddrSpent(w, t, h, u, utxos), {})
<1>1. ChangedNotes(w, AddTaddrSpent(w, t, h, u, utxos), t)
  BY AddTaddrSpentIs DEF UtxosAdded
<1> QED BY <1>1, ChangedHolds

(* A note is marked with the transaction only by a confirmed one. *)
LEMMA NewSpentHolds ==
  ASSUME NEW w, IsWallet(w), NEW t \in Txs, NEW h \in Nat, NEW u \in BOOLEAN, NEW n \in Note
  PROVE  Holds(w, AddNewSpent(w, t, h, u, n), IF u THEN {} ELSE {n})
<1> DEFINE g == AddNewSpent(w, t, h, u, n)
           M == IF u THEN {} ELSE {n}
<1>1. SpentAdded(w, g, t, h, u, n)
  BY AddNewSpentIs
<1> HIDE DEF g
<1>2. ASSUME NEW m \in Note, Ours(w, m)
      PROVE  /\ Ours(g, m)
             /\ m \in M \/ (NoteOf(g, m).spent = NoteOf(w, m).spent /\ NoteOf(g, m).pending = NoteOf(w, m).pending)
  <2> DEFINE d == IF m[1] = t THEN MadeChange(m[2], NoteOf(w, m)) ELSE NoteOf(w, m)
  <2>1. Known(w, m) /\ Known(g, m) /\ NoteOf(w, m) \in NoteRec
    BY <1>1, <1>2, NoteOfType DEF Ours, SpentAdded
  <2>2. NoteOf(g, m) = IF ~u /\ m = n THEN [d EXCEPT !.spent = t, !.at = h] ELSE d
    BY <1>1, <2>1 DEF SpentAdded
  <2>3. d \in NoteRec /\ SameButChange(d, NoteOf(w, m))
    BY <2>1, ChangeWithinIs
  <2> HIDE DEF d
  <2>4. NoteOf(g, m).keyed = NoteOf(w, m).keyed
    BY <2>2, <2>3 DEF SameButChange, NoteRec
  <2>5. m \in M \/ NoteOf(g, m) = d
    BY <2>2
  <2> QED BY <1>2, <2>1, <2>3, <2>4, <2>5 DEF SameButChange, Ours
<1> QED BY <1>2 DEF Holds, g, M

LEMMA PendingNoteHolds ==
  ASSUME NEW w, IsWallet(w), NEW t \in Txs, NEW h \in Nat
  PROVE  Holds(w, AddPendingNote(w, t, h), {})
<1>1. Added(w, AddPendingNote(w, t, h), <<t, "s">>, NewNote(FALSE, NoWitness, FundsSpentIn(w, t) # {}))
  BY AddPendingNoteIs
<1> QED BY <1>1, AddedHolds

(* A note with a nullifier keeps its marks when it is found again. *)
LEMMA SaplingNoteHolds ==
  ASSUME NEW w, IsWallet(w), NEW t \in Txs, NEW h \in Nat
  PROVE  Holds(w, AddNewSaplingNote(w, t, h), {})
<1>0. \A x \in Txs, e \in Nat :
        LET new == AddNewSaplingNote(w, x, e)
            k == <<x, "s">>
        IN  /\ HeadSet(w, new, x, e, FALSE)
            /\ FoundNote(w, k, e) \in NoteRec
            /\ \A m \in Note :
                 /\ Known(new, m) <=> Known(w, m) \/ m = k
                 /\ m = k => NoteOf(new, m) = FoundNote(w, k, e)
                 /\ m # k /\ Known(w, m) => NoteOf(new, m) = NoteOf(w, m)
  BY AddNewSaplingNoteIs
<1> DEFINE g == AddNewSaplingNote(w, t, h)
           n == <<t, "s">>
           d == FoundNote(w, n, h)
<1>1. \A m \in Note :
        /\ Known(g, m) <=> Known(w, m) \/ m = n
        /\ m = n => NoteOf(g, m) = d
        /\ m # n /\ Known(w, m) => NoteOf(g, m) = NoteOf(w, m)
  BY <1>0
<1>2. n \in Note /\ n[2] = "s"
  BY NoteOfPool DEF Pools
<1>3. d.keyed /\ (Known(w, n) /\ NoteOf(w, n).keyed =>
                    d.spent = NoteOf(w, n).spent /\ d.pending = NoteOf(w, n).pending)
  BY <1>2, FoundNoteIs
<1> HIDE DEF g, n, d
<1>4. Holds(w, g, {})
  BY <1>1, <1>2, <1>3 DEF Holds, Ours
<1> QED BY <1>4 DEF g

LEMMA PlacedHolds ==
  ASSUME NEW w, IsWallet(w), NEW new
  PROVE  Holds(w, Placed(w, new), {})
<1> DEFINE g == Placed(w, new)
           none == {}
<1>1. /\ Mapped(w, g) /\ DOMAIN g = DOMAIN w
      /\ \A n \in Note : Known(g, n) => NoteOf(g, n) = PlacedNote(n, NoteOf(w, n), new)
  BY PlacedIs
<1> HIDE DEF g, none
<1>2. ASSUME NEW n \in Note, Known(g, n)
      PROVE  /\ NoteOf(g, n).keyed = NoteOf(w, n).keyed /\ NoteOf(g, n).spent = NoteOf(w, n).spent
             /\ n \in none \/ NoteOf(g, n).pending = NoteOf(w, n).pending
  <2>1. NoteOf(w, n) \in NoteRec
    BY <1>1, <1>2, NoteOfType DEF Mapped
  <2> QED BY <1>1, <1>2, <2>1, PlacedNoteIs
<1>3. Holds(w, g, none)
  BY <1>1, <1>2, MappedHolds
<1> QED BY <1>3 DEF g, none

LEMMA ReservedHolds ==
  ASSUME NEW w, IsWallet(w), NEW ns, NEW y \in Txs
  PROVE  /\ Holds(w, Reserved(w, ns, y), ns)
         /\ \A n \in Note : n \in ns /\ Known(w, n) => NoteOf(Reserved(w, ns, y), n).pending = y
<1> DEFINE g == Reserved(w, ns, y)
<1>1. /\ Mapped(w, g) /\ DOMAIN g = DOMAIN w
      /\ \A n \in Note : Known(g, n) => NoteOf(g, n) = ReservedNote(n, NoteOf(w, n), ns, y)
  BY ReservedIs
<1> HIDE DEF g
<1>2. ASSUME NEW n \in Note, Known(w, n)
      PROVE  /\ NoteOf(g, n).keyed = NoteOf(w, n).keyed /\ NoteOf(g, n).spent = NoteOf(w, n).spent
             /\ NoteOf(g, n).pending = IF n \in ns THEN y ELSE NoteOf(w, n).pending
  <2>1. NoteOf(w, n) \in NoteRec /\ Known(g, n)
    BY <1>1, <1>2, NoteOfType DEF Mapped, Known
  <2> QED BY <1>1, <1>2, <2>1, ReservedNoteIs
<1>3. Holds(w, g, ns)
  BY <1>1, <1>2, MappedHolds DEF Mapped
<1> QED BY <1>2, <1>3 DEF g

(* Witnesses may change. *)
LEMMA WitnessHolds ==
  ASSUME NEW w, NEW g, NEW n \in Note, NEW d, Replaced(w, g, n, d),
         d.keyed = NoteOf(w, n).keyed, d.spent = NoteOf(w, n).spent, d.pending = NoteOf(w, n).pending
  PROVE  Holds(w, g, {})
BY DEF Holds, Replaced, Ours

(* A transaction is mined by its expiry height, and what is in the wallet, or *)
(* being scanned, unconfirmed, with a height h was made when the chain had at *)
(* most h blocks.                                                             *)
Dated(e, t, h) == e[t] # 0 /\ e[t] <= h + 1 + ExpiryDelta

HeadDates(e, w) == \A t \in DOMAIN w : w[t].unconfirmed => Dated(e, t, w[t].block)

DateInv ==
  /\ \A t \in Txs : expiry[t] <= Len(chain) + 1 + ExpiryDelta
  /\ HeadDates(expiry, txns)
  /\ \A s \in scans : s.unconfirmed => Dated(expiry, s.tx, s.height)
  /\ \A i \in 1..Len(streamQ) : Dated(expiry, streamQ[i].tx, streamQ[i].height)
  /\ phase = "send" => Dated(expiry, sending, Len(synced) + 1)

(* The mempool: no two of its transactions spend a note, and none has        *)
(* expired, nor has the unmined parent of one been left behind.              *)
PoolInv ==
  /\ \A t, u \in mempool : Spends[t] \cap Spends[u] # {} => t = u
  /\ \A t \in mempool : /\ Len(chain) < expiry[t]
                         /\ \A n \in Spends[t] : n[1] \in Mined(chain) \/ Len(chain) <= expiry[n[1]]
  /\ \A t \in Mined(chain) : HeightIn(chain, t) <= expiry[t]

(* Nothing of ours that waits spends what is being sent. *)
AloneInv ==
  phase \in {"send", "sendscan"} =>
    \A t \in Sent \cap mempool : Spends[t] \cap Spends[sending] # {} => t = sending

(* What a transaction of ours that waits spends is marked with it, but for a  *)
(* send between its broadcast and its marks.                                  *)
Held(w, t, n) == NoteOf(w, n).spent = t \/ NoteOf(w, n).pending = t
HeldInv ==
  \A t \in Sent \cap mempool : \A n \in Spends[t] :
    Ours(txns, n) /\ (Held(txns, t, n) \/ (phase = "send" /\ sending = t))

PendInv == DateInv /\ PoolInv /\ AloneInv /\ HeldInv

LEMMA DatedKept ==
  ASSUME NEW e, NEW f, \A t \in Txs : e[t] # 0 => f[t] = e[t], NEW t \in Txs, NEW h, Dated(e, t, h)
  PROVE  Dated(f, t, h)
BY DEF Dated

LEMMA LedgerDates ==
  ASSUME NEW e, NEW w, NEW g, NEW t, NEW h, NEW u, NEW M, Ledger(w, g, t, h, u, M),
         HeadDates(e, w), u => Dated(e, t, h)
  PROVE  HeadDates(e, g)
BY DEF HeadDates, Ledger, HeadsFrom

LEMMA MappedDates ==
  ASSUME NEW e, NEW w, NEW g, Mapped(w, g), HeadDates(e, w)
  PROVE  HeadDates(e, g)
BY DEF HeadDates, Mapped, SameHead

LEMMA DateStep ==
  ASSUME CoreInv, CoreInv', DateInv,
         \A t \in Txs : expiry[t] # 0 => expiry'[t] = expiry[t],
         \A t \in Txs : expiry'[t] <= Len(chain') + 1 + ExpiryDelta,
         HeadDates(expiry, txns'),
         \A s \in scans' : s.unconfirmed => s \in scans \/ Dated(expiry, s.tx, s.height),
         \A i \in 1..Len(streamQ') : Dated(expiry, streamQ'[i].tx, streamQ'[i].height),
         phase' = "send" => Dated(expiry', sending', Len(synced') + 1)
  PROVE  DateInv'
<1>1. /\ DOMAIN txns' \subseteq Txs /\ \A s \in scans' : s.tx \in Txs
      /\ \A i \in 1..Len(streamQ') : streamQ'[i].tx \in Txs
  <2>1. /\ IsWallet(txns') /\ scans' \subseteq ScanRec
        /\ streamQ' \in Seq([tx : Txs, height : Nat])
    BY DEF CoreInv, TypeOK, WalletTypes, ScanTypes
  <2>2. \A i \in 1..Len(streamQ') : streamQ'[i] \in [tx : Txs, height : Nat]
    <3> DEFINE R == [tx : Txs, height : Nat]
    <3>1. streamQ' \in Seq(R)
      BY <2>1
    <3> HIDE DEF R
    <3>2. \A i \in 1..Len(streamQ') : streamQ'[i] \in R
      BY <3>1
    <3> QED BY <3>2 DEF R
  <2> QED BY <2>1, <2>2 DEF IsWallet, ScanRec
<1>2. HeadDates(expiry', txns')
  <2>1. \A t \in DOMAIN txns' : \A h : Dated(expiry, t, h) => Dated(expiry', t, h)
    BY <1>1 DEF Dated
  <2> QED BY <2>1 DEF HeadDates
<1>3. \A s \in scans' : s.unconfirmed => Dated(expiry', s.tx, s.height)
  <2>1. \A s \in scans' : s.unconfirmed => Dated(expiry, s.tx, s.height)
    BY DEF DateInv
  <2> QED BY <1>1, <2>1 DEF Dated
<1>4. \A i \in 1..Len(streamQ') : Dated(expiry', streamQ'[i].tx, streamQ'[i].height)
  BY <1>1 DEF Dated
<1> QED BY <1>2, <1>3, <1>4 DEF DateInv

(* Most steps make and stream no transaction. *)
LEMMA DateQuiet ==
  ASSUME CoreInv, CoreInv', DateInv, UNCHANGED <<expiry, chain, streamQ>>,
         HeadDates(expiry, txns'),
         \A s \in scans' : s.unconfirmed => s \in scans \/ Dated(expiry, s.tx, s.height),
         phase' = "send" => phase = "send" /\ sending' = sending /\ synced' = synced
  PROVE  DateInv'
<1>1. /\ \A t \in Txs : expiry[t] # 0 => expiry'[t] = expiry[t]
      /\ \A t \in Txs : expiry'[t] <= Len(chain') + 1 + ExpiryDelta
      /\ \A i \in 1..Len(streamQ') : Dated(expiry, streamQ'[i].tx, streamQ'[i].height)
      /\ phase' = "send" => Dated(expiry', sending', Len(synced') + 1)
  BY DEF DateInv
<1> QED BY <1>1, DateStep

LEMMA PoolNext ==
  ASSUME MaxReorgs = 0, CoreInv, CoreInv', ChainInv, CalmInv, PoolInv, [Next]_vars
  PROVE  PoolInv'
<1>1. chain \in Seq(Blocks) /\ Once(chain) /\ Made(chain, expiry) /\ Len(chain) \in Nat
      /\ expiry \in [Txs -> Nat] /\ mempool \subseteq Txs /\ Mined(chain) \subseteq Txs
  BY GoalIs, HeightIs DEF CoreInv, TypeOK, ServerTypes, ChainInv
<1>2. ASSUME NEW S \in SUBSET Txs, Mine(S) PROVE PoolInv'
  <2> DEFINE cs == Append(chain, S)
  <2>1. /\ chain' = cs /\ expiry' = expiry
        /\ mempool' = {t \in mempool : Valid(t, cs, mempool)}
        /\ \A t \in S : Valid(t, chain, S)
    BY <1>2 DEF Mine
  <2>2. \A t \in S : t \notin Mined(chain) /\ expiry[t] # 0 /\ Len(chain) < expiry[t]
    BY <1>1, <2>1 DEF Valid
  <2>3. /\ cs \in Seq(Blocks) /\ Len(cs) = Len(chain) + 1 /\ \A i \in 1..Len(chain) : cs[i] = chain[i]
        /\ Once(cs)
    BY <1>1, <2>2, AppendOnce
  <2>4. cs[Len(chain) + 1] = S
    BY <1>1
  <2> HIDE DEF cs
  <2>5. ASSUME NEW t \in Mined(cs) PROVE HeightIn(cs, t) <= expiry[t]
    <3>1. PICK i \in 1..Len(cs) : t \in cs[i]
      BY DEF Mined
    <3>2. HeightIn(cs, t) = i
      BY <2>3, <3>1, OnceHeight
    <3>3. CASE i = Len(chain) + 1
      BY <1>1, <2>2, <2>4, <3>1, <3>2, <3>3
    <3>4. CASE i # Len(chain) + 1
      <4>1. i \in 1..Len(chain) /\ t \in chain[i]
        BY <1>1, <2>3, <3>1, <3>4
      <4>2. t \in Mined(chain) /\ HeightIn(chain, t) = i
        BY <1>1, <4>1, OnceHeight
      <4> QED BY <3>2, <4>2 DEF PoolInv
    <3> QED BY <3>3, <3>4
  <2>6. ASSUME NEW t \in mempool'
        PROVE  Len(cs) < expiry[t] /\ \A n \in Spends[t] : n[1] \in Mined(cs) \/ Len(cs) <= expiry[n[1]]
    <3>1. Len(cs) < expiry[t] /\ \A n \in Spends[t] : n[1] \in Mined(cs) \/ n[1] \in mempool
      BY <2>1, <2>6 DEF Valid
    <3>2. \A u \in mempool : Len(chain) < expiry[u] /\ expiry[u] \in Nat
      BY <1>1 DEF PoolInv
    <3> QED BY <1>1, <2>3, <3>1, <3>2
  <2>7. \A t, u \in mempool' : Spends[t] \cap Spends[u] # {} => t = u
    BY <2>1 DEF PoolInv
  <2> QED BY <2>1, <2>5, <2>6, <2>7 DEF PoolInv
<1>3. \A k \in 1..Len(chain), back \in SUBSET Txs : ~Reorg(k, back)
  BY DEF Reorg, CoreInv, TypeOK, ServerTypes
<1>4. ASSUME NEW t \in Txs, expiry[t] = 0, NEW e, expiry' = [expiry EXCEPT ![t] = e],
             Len(chain) < expiry'[t], chain' = chain, mempool' = mempool \cup {t},
             \A n \in Spends[t] : n[1] \in Mined(chain) \/ n[1] \in mempool,
             \A u \in mempool : ~Conflict(t, u)
      PROVE  PoolInv'
  <2>1. \A u \in Txs : expiry[u] # 0 => expiry'[u] = expiry[u]
    BY <1>1, <1>4
  <2>2. \A u \in Mined(chain) : expiry'[u] = expiry[u]
    BY <1>1, <2>1 DEF Made
  <2>3. \A u \in mempool : Len(chain) < expiry[u] /\ expiry[u] \in Nat /\ expiry[u] # 0 /\ expiry'[u] = expiry[u]
    BY <1>1, <2>1 DEF PoolInv
  <2>4. ASSUME NEW u \in mempool, NEW n \in Spends[u]
        PROVE  n[1] \in Mined(chain) \/ Len(chain) <= expiry'[n[1]]
    <3>1. n[1] \in Txs
      BY <1>1, SpendsAreNotes
    <3>2. n[1] \in Mined(chain) \/ Len(chain) <= expiry[n[1]]
      BY DEF PoolInv
    <3>3. CASE n[1] = t
      BY <1>1, <1>4, <3>3, CoreInv' DEF CoreInv, TypeOK, ServerTypes
    <3>4. CASE n[1] # t
      <4>1. expiry'[n[1]] = expiry[n[1]]
        BY <1>1, <1>4, <3>1, <3>4
      <4> QED BY <3>2, <4>1
    <3> QED BY <3>3, <3>4
  <2>5. \A n \in Spends[t] : n[1] \in Mined(chain) \/ Len(chain) <= expiry'[n[1]]
    BY <1>1, <1>4, <2>3
  <2>6. \A u, v \in mempool' : Spends[u] \cap Spends[v] # {} => u = v
    BY <1>4 DEF PoolInv, Conflict
  <2>7. \A u \in mempool' : /\ Len(chain') < expiry'[u]
                            /\ \A n \in Spends[u] : n[1] \in Mined(chain') \/ Len(chain') <= expiry'[n[1]]
    BY <1>4, <2>3, <2>4, <2>5
  <2>8. \A u \in Mined(chain') : HeightIn(chain', u) <= expiry'[u]
    BY <1>4, <2>2 DEF PoolInv
  <2> QED BY <2>6, <2>7, <2>8 DEF PoolInv
<1>5. ASSUME NEW t \in Txs, Arrive(t) PROVE PoolInv'
  <2>1. /\ expiry[t] = 0 /\ expiry' = [expiry EXCEPT ![t] = Len(chain) + 1 + ExpiryDelta]
        /\ chain' = chain /\ mempool' = mempool \cup {t}
        /\ \A n \in Spends[t] : n[1] \in Mined(chain) \/ n[1] \in mempool
        /\ \A u \in mempool : ~Conflict(t, u)
    BY <1>5 DEF Arrive
  <2>2. Len(chain) < expiry'[t]
    BY <1>1, <2>1, BoundAssumption
  <2> QED BY <1>4, <2>1, <2>2
<1>6. ASSUME NEW t \in Sent, Broadcast(t) PROVE PoolInv'
  <2>1. /\ expiry[t] = 0 /\ expiry' = [expiry EXCEPT ![t] = Len(synced) + 1 + ExpiryDelta]
        /\ chain' = chain /\ mempool' = mempool \cup {t} /\ Len(chain) < expiry'[t]
        /\ \A n \in Spends[t] : n[1] \in Mined(chain) \/ n[1] \in mempool
        /\ \A u \in mempool : ~Conflict(t, u)
    BY <1>6 DEF Broadcast
  <2>2. t \in Txs
    BY TxAssumption
  <2> QED BY <1>4, <2>1, <2>2
<1>7. CASE UNCHANGED <<chain, mempool, expiry>>
  BY <1>7 DEF PoolInv
<1>8. Sync => UNCHANGED <<chain, mempool, expiry>>
  BY DEF Sync, StartSync, InvalidateBlock, BlocksDone, ReadOldNotes, OrchardPass, FinishSync, Detect,
         LookUpSpent, LookUpUnspent, RecordSpend, ScanTaddr, ScanFull, serverVars
<1>9. Scan => UNCHANGED <<chain, mempool, expiry>>
  BY DEF Scan, ScanStep, ScanStreamed, ScanOutputs, ScanInputs, MarkUtxo, RecordUtxos, ScanSpends,
         RecordSpends, ScanNotes, InScan, Scanning, serverVars
<1>10. MarkSelected \/ Save \/ Restart \/ (\E t \in Txs : Stream(t)) \/ UNCHANGED vars =>
         UNCHANGED <<chain, mempool, expiry>>
  BY DEF MarkSelected, Save, Restart, Stream, serverVars, vars
<1> QED BY <1>2, <1>3, <1>5, <1>6, <1>7, <1>8, <1>9, <1>10 DEF Next, Server, User

LEMMA HeldStep ==
  ASSUME CoreInv, HeldInv, NEW M, Holds(txns, txns', M), Sent \cap mempool' \subseteq mempool,
         phase = "send" => phase' = "send" /\ sending' = sending,
         \A t \in Sent \cap mempool' : \A n \in Spends[t] : n \in M => Held(txns', t, n)
  PROVE  HeldInv'
<1> SUFFICES ASSUME NEW t \in Sent \cap mempool', NEW n \in Spends[t]
             PROVE  Ours(txns', n) /\ (Held(txns', t, n) \/ (phase' = "send" /\ sending' = t))
  BY DEF HeldInv
<1>1. n \in Note
  BY TxAssumption
<1>2. Ours(txns, n) /\ (Held(txns, t, n) \/ (phase = "send" /\ sending = t))
  BY DEF HeldInv
<1>3. /\ Ours(txns', n)
      /\ \/ n \in M
         \/ /\ NoteOf(txns', n).spent = NoteOf(txns, n).spent
            /\ NoteOf(txns', n).pending = NoteOf(txns, n).pending
  BY <1>1, <1>2 DEF Holds
<1> QED BY <1>2, <1>3 DEF Held

LEMMA HeldQuiet ==
  ASSUME CoreInv, HeldInv, UNCHANGED txns, Sent \cap mempool' \subseteq mempool,
         phase = "send" => phase' = "send" /\ sending' = sending
  PROVE  HeldInv'
<1>1. Holds(txns, txns', {})
  BY SameHolds
<1> QED BY <1>1, HeldStep

(* What a batch brings is in the server's chain. *)
LEMMA NewIsMined ==
  ASSUME CoreInv, HistInv, CalmInv, phase \in Batch
  PROVE  /\ Len(view) <= Len(chain) /\ \A i \in 1..Len(view) : chain[i] = view[i]
         /\ Len(view) \in Nat /\ Len(chain) \in Nat
         /\ \A y \in NewTxs : y \in Mined(chain)
<1>1. Goal = view /\ Len(view) \in Nat /\ Len(chain) \in Nat /\ keep \in Nat
  BY GoalIs DEF Goal, Syncing, Batch, CoreInv
<1>2. Len(view) <= Len(chain) /\ \A i \in 1..Len(view) : chain[i] = view[i]
  BY <1>1 DEF CalmInv, HistInv, ChainInv, Agree
<1>3. \A i \in 1..Len(view) : i \in 1..Len(chain)
  BY <1>1, <1>2
<1>4. NewTxs \subseteq Mined(view)
  BY NewTxsAre DEF CoreInv, TypeOK
<1>5. Mined(view) \subseteq Mined(chain)
  BY <1>2, <1>3 DEF Mined
<1> QED BY <1>1, <1>2, <1>4, <1>5

LEMMA MinedNotWaiting ==
  ASSUME CoreInv, HistInv, CalmInv, phase \in Batch, NEW y \in NewTxs, NEW n \in Spends[y], NEW t \in mempool
  PROVE  n \notin Spends[t]
<1>1. y \in SpendersIn(chain, n)
  BY NewIsMined DEF SpendersIn
<1> QED BY <1>1 DEF HistInv, WaitInv

LEMMA BatchHeld ==
  ASSUME CoreInv, HistInv, CalmInv, HeldInv, phase \in Batch, UNCHANGED mempool,
         NEW M, Holds(txns, txns', M), \A n \in M : \E y \in NewTxs : n \in Spends[y]
  PROVE  HeldInv'
<1>1. \A t \in Sent \cap mempool' : \A n \in Spends[t] : n \notin M
  BY MinedNotWaiting
<1>2. phase # "send"
  BY DEF Batch
<1> QED BY <1>1, <1>2, HeldStep

LEMMA DetectPend ==
  ASSUME NoOrchard, CoreInv, HistInv, CalmInv, PendInv, NEW n \in detect, Detect(n)
  PROVE  HeadDates(expiry, txns') /\ HeldInv'
<1> DEFINE t == n[1]
           h == HeightIn(view, n[1])
           none == {}
<1>1. phase \in Batch /\ UNCHANGED mempool
  BY DEF Detect, Batch, serverVars
<1>2. t \in NewTxs /\ n[2] = "s" /\ t \in Txs
  <2>1. n[1] \in NewTxs /\ n[2] \in {"s", "o"} /\ n[2] \in Outs[n[1]] /\ n \in Note
    BY DEF CoreInv, QueueInv, TypeOK, SyncTypes
  <2>2. n[1] \in Txs
    BY <2>1, NoteParts
  <2> QED BY <2>1, <2>2 DEF NoOrchard
<1>3. txns' = AddNewSaplingNote(txns, t, h)
  BY <1>2 DEF Detect
<1>4. IsWallet(txns) /\ h \in Nat
  BY <1>2, CoreWallet, NewTxsAre DEF CoreInv, TypeOK
<1> HIDE DEF t, h
<1>5. HeldInv'
  <2>1. Holds(txns, AddNewSaplingNote(txns, t, h), none)
    BY <1>2, <1>4, SaplingNoteHolds
  <2>2. \A m : m \notin none
    OBVIOUS
  <2> HIDE DEF none
  <2> QED BY <1>1, <1>3, <2>1, <2>2, BatchHeld DEF PendInv
<1>6. HeadDates(expiry, txns')
  <2> DEFINE g == AddNewSaplingNote(txns, t, h)
             no == FALSE
             one == {<<t, "s">>}
  <2>1. Ledger(txns, g, t, h, no, one)
    <3>1. \A x \in Txs, e \in Nat :
            LET new == AddNewSaplingNote(txns, x, e)
                k == <<x, "s">>
            IN  /\ Ledger(txns, new, x, e, FALSE, {k})
                /\ x \in DOMAIN new /\ new[x].block = e /\ ~new[x].unconfirmed
                /\ Known(new, k) /\ NoteOf(new, k).keyed /\ NoteOf(new, k).witness = FirstWitness(e)
                /\ \/ NoteOf(new, k).spent = NoTx
                   \/ Known(txns, k) /\ SameSpend(NoteOf(txns, k), NoteOf(new, k))
      BY <1>4, SaplingNoteLedger
    <3> QED BY <1>2, <1>4, <3>1
  <2>2. ~no
    OBVIOUS
  <2> HIDE DEF g, no, one
  <2>3. HeadDates(expiry, g)
    BY <2>1, <2>2, LedgerDates DEF PendInv, DateInv
  <2> QED BY <1>3, <2>3 DEF g
<1> QED BY <1>5, <1>6

(* The record of one note is replaced. *)
LEMMA ReplacedDates ==
  ASSUME NEW e, NEW w, NEW g, NEW n, NEW d, Replaced(w, g, n, d), HeadDates(e, w)
  PROVE  HeadDates(e, g)
BY DEF HeadDates, Replaced, SameHead

LEMMA LookUpSpentPend ==
  ASSUME CoreInv, HistInv, CalmInv, PendInv, NEW v \in upd, LookUpSpent(v)
  PROVE  HeadDates(expiry, txns') /\ HeldInv'
<1> DEFINE n == v.note
           one == {n}
<1>1. PICK y \in SpendingTxs(v) : txns' = MarkTxidNfSpent(txns, n, y, HeightIn(view, y))
  BY DEF LookUpSpent
<1> DEFINE h == HeightIn(view, y)
<1>2. phase \in Batch /\ UNCHANGED mempool
  BY DEF LookUpSpent, CoreInv, QueueInv, serverVars
<1>3. n \in Note /\ Known(txns, n) /\ NoteOf(txns, n).keyed /\ IsWallet(txns)
  BY CoreWallet DEF CoreInv, TypeOK, SyncTypes, QueueInv
<1>4. y \in NewTxs /\ y \in Txs /\ h \in Nat /\ n \in Spends[y]
  BY <1>1, NewTxsAre DEF SpendingTxs, CoreInv, TypeOK
<1> HIDE DEF n, h, one
<1> DEFINE d == NoteOf(txns, n)
           e == Marked(d, y, h)
<1>5. Replaced(txns, txns', n, e)
  BY <1>1, <1>3, <1>4, MarkNfIs DEF h
<1>6. e.keyed = d.keyed
  <2>1. d \in NoteRec
    BY <1>3, NoteOfType
  <2> QED BY <1>4, <2>1, MarkedIs
<1> HIDE DEF e
<1>7. Holds(txns, txns', {n})
  BY <1>3, <1>5, <1>6, ReplacedHolds
<1>8. Holds(txns, txns', one) /\ \A m \in one : \E x \in NewTxs : m \in Spends[x]
  BY <1>4, <1>7 DEF one
<1>9. HeldInv'
  BY <1>2, <1>8, BatchHeld DEF PendInv
<1> QED BY <1>5, <1>9, ReplacedDates DEF PendInv, DateInv

LEMMA LookUpUnspentPend ==
  ASSUME CoreInv, HistInv, CalmInv, PendInv, NEW v \in upd, LookUpUnspent(v)
  PROVE  HeadDates(expiry, txns') /\ HeldInv'
<1> DEFINE n == v.note
           none == {}
<1>1. phase \in Batch /\ UNCHANGED mempool
  BY DEF LookUpUnspent, CoreInv, QueueInv, serverVars
<1>2. n \in Note /\ Known(txns, n) /\ IsWallet(txns)
  BY CoreWallet DEF CoreInv, TypeOK, SyncTypes, QueueInv
<1>3. PICK c : txns' = SetNote(txns, n, [NoteOf(txns, n) EXCEPT !.witness = c]) /\ c \in WitnessRec
  <2> DEFINE start == IF n[1] \in NewTxs THEN [FirstWitness(v.at) EXCEPT !.whole = TRUE]
                      ELSE NoteOf(txns, n).witness
             c == UpdateAfterBlock(start, Len(view))
  <2>1. start \in WitnessRec
    <3>1. v.at \in Nat
      BY DEF CoreInv, TypeOK, SyncTypes
    <3>2. FirstWitness(v.at) \in WitnessRec
      BY <3>1, WitnessTypes
    <3>3. NoteOf(txns, n).witness \in WitnessRec
      BY <1>2, NoteOfType DEF NoteRec
    <3> QED BY <3>2, <3>3 DEF WitnessRec
  <2>2. Len(view) \in Nat
    BY GoalIs DEF CoreInv
  <2> HIDE DEF start
  <2>3. c \in WitnessRec
    BY <2>1, <2>2, UpdateTypes
  <2>4. txns' = SetNote(txns, n, [NoteOf(txns, n) EXCEPT !.witness = c])
    BY DEF LookUpUnspent, start
  <2> QED BY <2>3, <2>4
<1> HIDE DEF n
<1> DEFINE d == NoteOf(txns, n)
           e == [d EXCEPT !.witness = c]
<1>4. d \in NoteRec
  BY <1>2, NoteOfType
<1>5. e \in NoteRec /\ e.spent = d.spent /\ e.keyed = d.keyed /\ e.pending = d.pending
  BY <1>3, <1>4 DEF NoteRec
<1>6. Replaced(txns, txns', n, e)
  <2> HIDE DEF e
  <2>1. txns' = SetNote(txns, n, e)
    BY <1>3 DEF e
  <2> QED BY <1>2, <1>5, <2>1, ReplaceIs
<1> HIDE DEF e
<1>7. Holds(txns, txns', none) /\ \A m : m \notin none
  BY <1>2, <1>5, <1>6, WitnessHolds
<1> HIDE DEF none
<1>8. HeldInv'
  BY <1>1, <1>7, BatchHeld DEF PendInv
<1> QED BY <1>6, <1>8, ReplacedDates DEF PendInv, DateInv

LEMMA RecordSpendPend ==
  ASSUME CoreInv, HistInv, CalmInv, PendInv, NEW f \in found, RecordSpend(f)
  PROVE  HeadDates(expiry, txns') /\ HeldInv'
<1> DEFINE n == f.note
           y == f.spender
           h == HeightIn(view, y)
           one == {n}
           no == FALSE
<1>1. phase \in Batch /\ UNCHANGED mempool /\ txns' = AddNewSpent(txns, y, h, no, n)
  BY DEF RecordSpend, CoreInv, QueueInv, serverVars
<1>2. n \in Note /\ IsWallet(txns) /\ n \in Spends[y] /\ y \in NewTxs
  BY CoreWallet DEF CoreInv, TypeOK, SyncTypes, QueueInv, HistInv, NoteWork
<1>3. y \in Txs /\ h \in Nat
  BY <1>2, NewTxsAre DEF CoreInv, TypeOK
<1>4. no \in BOOLEAN /\ ~no
  OBVIOUS
<1> HIDE DEF n, y, h, no
<1> DEFINE g == AddNewSpent(txns, y, h, no, n)
           M == IF no THEN {} ELSE {n}
<1>5. Ledger(txns, g, y, h, no, M)
  BY <1>2, <1>3, <1>4, NewSpentLedger
<1>6. Holds(txns, g, M)
  BY <1>2, <1>3, <1>4, NewSpentHolds
<1>7. \A m \in M : \E x \in NewTxs : m \in Spends[x]
  BY <1>2, <1>4
<1>8. g = txns'
  BY <1>1
<1> HIDE DEF g, M
<1>9. HeldInv'
  BY <1>1, <1>6, <1>7, <1>8, BatchHeld DEF PendInv
<1>10. HeadDates(expiry, g)
  BY <1>4, <1>5, LedgerDates DEF PendInv, DateInv
<1> QED BY <1>8, <1>9, <1>10

LEMMA OrchardPassPend ==
  ASSUME CoreInv, HistInv, CalmInv, PendInv, OrchardPass
  PROVE  HeadDates(expiry, txns') /\ HeldInv'
<1> DEFINE none == {}
<1>1. phase \in Batch /\ UNCHANGED mempool
  BY DEF OrchardPass, Batch, serverVars
<1>2. txns' = Placed(txns, NewTxs) /\ IsWallet(txns)
  BY CoreWallet DEF OrchardPass, Placed
<1>3. Mapped(txns, txns')
  BY <1>2, PlacedIs
<1>4. Holds(txns, txns', none) /\ \A m : m \notin none
  BY <1>2, PlacedHolds
<1> HIDE DEF none
<1>5. HeldInv'
  BY <1>1, <1>4, BatchHeld DEF PendInv
<1> QED BY <1>3, <1>5, MappedDates DEF PendInv, DateInv

(* What expires at the end of a batch no longer waits at the server, and     *)
(* nothing that waits spends it: clear_expired_mempool waits for longer than  *)
(* a transaction can.                                                         *)
LEMMA FinishPend ==
  ASSUME CoreInv, HistInv, WholeInv, CalmInv, PendInv, FinishSync
  PROVE  HeadDates(expiry, txns') /\ HeldInv'
<1>1. /\ phase = "orchard" /\ phase \in Batch /\ UNCHANGED mempool
      /\ synced' = view /\ saved' = txns'
      /\ txns' = ClearExpiredMempool(ClearOldWitnesses(txns, Len(view)), Len(view))
  BY DEF FinishSync, Batch, serverVars
<1>2. /\ Len(view) <= Len(chain) /\ \A i \in 1..Len(view) : chain[i] = view[i]
      /\ Len(view) \in Nat /\ Len(chain) \in Nat
  BY <1>1, NewIsMined
<1>3. IsWallet(txns) /\ chain \in Seq(Blocks) /\ mempool \subseteq Txs /\ expiry \in [Txs -> Nat]
  BY CoreWallet, GoalIs DEF CoreInv, TypeOK, ServerTypes
<1> DEFINE removed == ExpiredIn(txns, Len(view))
<1>4. Removal(txns, txns', removed)
  BY <1>1, <1>2, <1>3, ExpiryRemoval
<1>5. HasAll(txns', Mined(view))
  BY <1>1, FinishWhole DEF SavedInv
<1>6. ASSUME NEW t \in removed PROVE expiry[t] < Len(view)
  <2>1. t \in DOMAIN txns /\ txns[t].unconfirmed /\ txns[t].block < Len(view) - MaxReorg
    BY DEF ExpiredIn
  <2>2. Dated(expiry, t, txns[t].block)
    BY <2>1 DEF PendInv, DateInv, HeadDates
  <2>3. t \in Txs /\ txns[t].block \in Nat /\ expiry[t] \in Nat
    BY <1>3, <2>1 DEF IsWallet, IsTx
  <2> QED BY <1>2, <2>1, <2>2, <2>3, BoundAssumption DEF Dated
<1> HIDE DEF removed
<1>7. \A t \in mempool : t \notin removed
  <2>1. \A t \in mempool : Len(chain) < expiry[t] /\ expiry[t] \in Nat
    BY <1>3 DEF PendInv, PoolInv
  <2> QED BY <1>2, <1>6, <2>1
<1>8. ASSUME NEW t \in mempool, NEW n \in Spends[t] PROVE n[1] \notin removed
  <2> SUFFICES ASSUME n[1] \in removed PROVE FALSE
    OBVIOUS
  <2>1. /\ n[1] \in Txs /\ n[2] \in Outs[n[1]] /\ n = <<n[1], n[2]>>
    BY <1>3, SpendsAreNotes
  <2>2. expiry[n[1]] < Len(view) /\ expiry[n[1]] \in Nat
    BY <1>3, <1>6, <2>1
  <2>3. n[1] \in Mined(chain) /\ HeightIn(chain, n[1]) <= expiry[n[1]]
    BY <1>2, <2>2 DEF PendInv, PoolInv
  <2> DEFINE h == HeightIn(chain, n[1])
  <2>4. h \in 1..Len(chain) /\ n[1] \in chain[h]
    BY <1>3, <2>3, HeightIs
  <2>5. h \in 1..Len(view) /\ n[1] \in view[h]
    <3>1. h <= expiry[n[1]]
      BY <2>3
    <3> HIDE DEF h
    <3> QED BY <1>2, <2>2, <2>4, <3>1
  <2> HIDE DEF h
  <2>6. n[1] \in Mined(view)
    BY <2>5 DEF Mined
  <2>7. Known(txns', <<n[1], n[2]>>)
    BY <1>5, <2>1, <2>6 DEF HasAll, Got, Ours
  <2>8. Known(txns', n)
    BY <2>1, <2>7
  <2>9. n[1] \in DOMAIN txns'
    BY <2>8 DEF Known
  <2> QED BY <1>4, <2>9 DEF Removal
<1>9. HeldInv'
  <2> SUFFICES ASSUME NEW t \in Sent \cap mempool, NEW n \in Spends[t]
               PROVE  Ours(txns', n) /\ Held(txns', t, n)
    BY <1>1 DEF HeldInv
  <2>1. n \in Note /\ Ours(txns, n) /\ Held(txns, t, n)
    BY <1>1, TxAssumption DEF PendInv, HeldInv
  <2>2. n[1] \in DOMAIN txns /\ n[1] \notin removed /\ t \notin removed
    BY <1>7, <1>8, <2>1 DEF Ours, Known
  <2>3. Known(txns', n)
    BY <1>4, <2>1, <2>2 DEF Removal, Mapped, Ours
  <2>4. /\ NoteOf(txns', n).keyed = NoteOf(txns, n).keyed
        /\ NoteOf(txns, n).spent = t => NoteOf(txns', n).spent = t
        /\ NoteOf(txns, n).pending = t => NoteOf(txns', n).pending = t
    BY <1>4, <2>1, <2>2, <2>3 DEF Removal
  <2> QED BY <2>1, <2>3, <2>4 DEF Ours, Held
<1>10. HeadDates(expiry, txns')
  BY <1>4, MappedDates DEF PendInv, DateInv, Removal
<1> QED BY <1>9, <1>10

(* A step of a scan leaves its transaction and height as they are. *)
LEMMA ScanDates ==
  ASSUME CoreInv, PendInv, NEW s \in scans, ScanStep(s)
  PROVE  /\ \A r \in scans' : r.unconfirmed => r \in scans \/ Dated(expiry, r.tx, r.height)
         /\ UNCHANGED <<serverVars, synced, streamQ>>
         /\ \/ phase' = phase /\ sending' = sending
            \/ phase = "sendscan" /\ phase' = "idle"
<1>1. s \in ScanRec /\ (s.unconfirmed => Dated(expiry, s.tx, s.height))
  BY ScanIs DEF PendInv, DateInv
<1>2. \A r : Goto(s, r) /\ r.tx = s.tx /\ r.height = s.height /\ r.unconfirmed = s.unconfirmed =>
        \A q \in scans' : q.unconfirmed => q \in scans \/ Dated(expiry, q.tx, q.height)
  BY <1>1 DEF Goto
<1>3. Done(s) => /\ \A q \in scans' : q \in scans
                 /\ \/ phase' = phase /\ sending' = sending
                    \/ phase = "sendscan" /\ phase' = "idle"
  BY DEF Done, CoreInv, ScanInv
<1>4. InScan => phase' = phase /\ sending' = sending
  BY DEF InScan
<1>5. \A k, m, l : LET r == [s EXCEPT !.step = k]
                      q == [s EXCEPT !.toMark = m]
                      p == [s EXCEPT !.step = k, !.toMark = m]
                      o == [s EXCEPT !.step = k, !.utxos = l, !.toMark = m]
                  IN  /\ r.tx = s.tx /\ r.height = s.height /\ r.unconfirmed = s.unconfirmed
                      /\ q.tx = s.tx /\ q.height = s.height /\ q.unconfirmed = s.unconfirmed
                      /\ p.tx = s.tx /\ p.height = s.height /\ p.unconfirmed = s.unconfirmed
                      /\ o.tx = s.tx /\ o.height = s.height /\ o.unconfirmed = s.unconfirmed
  BY <1>1 DEF ScanRec
<1>6. Scanning => UNCHANGED <<serverVars, synced, streamQ>>
  BY DEF Scanning
<1>7. InScan => Scanning
  BY DEF InScan
<1> USE <1>3, <1>4, <1>6, <1>7
<1>8. CASE ScanOutputs(s)
  <2>1. Goto(s, [s EXCEPT !.step = "inputs"]) /\ InScan
    BY <1>8 DEF ScanOutputs
  <2> QED BY <1>2, <1>5, <2>1
<1>9. CASE ScanInputs(s)
  <2> DEFINE mine == {n \in Spends[s.tx] : n[2] = "t" /\ Known(txns, n)}
  <2>1. \/ Goto(s, [s EXCEPT !.step = "mark", !.utxos = mine, !.toMark = mine]) /\ InScan
        \/ Goto(s, [s EXCEPT !.step = "spends"]) /\ InScan
        \/ Done(s) /\ Scanning
    BY <1>9 DEF ScanInputs
  <2> DEFINE marks == [s EXCEPT !.step = "mark", !.utxos = mine, !.toMark = mine]
             looks == [s EXCEPT !.step = "spends"]
  <2>2. /\ marks.tx = s.tx /\ marks.height = s.height /\ marks.unconfirmed = s.unconfirmed
        /\ looks.tx = s.tx /\ looks.height = s.height /\ looks.unconfirmed = s.unconfirmed
    BY <1>1 DEF ScanRec
  <2>3. (Goto(s, marks) /\ InScan) \/ (Goto(s, looks) /\ InScan) \/ (Done(s) /\ Scanning)
    BY <2>1
  <2> HIDE DEF marks, looks
  <2>4. Goto(s, marks) \/ Goto(s, looks) =>
          \A q \in scans' : q.unconfirmed => q \in scans \/ Dated(expiry, q.tx, q.height)
    BY <1>2, <2>2
  <2> QED BY <2>3, <2>4
<1>10. CASE MarkUtxo(s)
  <2>1. PICK n \in s.toMark : Goto(s, [s EXCEPT !.toMark = @ \ {n}]) /\ InScan
    BY <1>10 DEF MarkUtxo
  <2> QED BY <1>2, <1>5, <2>1
<1>11. CASE RecordUtxos(s)
  <2>1. (Goto(s, [s EXCEPT !.step = "spends"]) /\ InScan) \/ (Done(s) /\ Scanning)
    BY <1>11 DEF RecordUtxos
  <2> QED BY <1>2, <1>5, <2>1
<1>12. CASE ScanSpends(s)
  <2>1. Goto(s, [s EXCEPT !.step = "notes", !.toMark = Spends[s.tx] \cap UnspentNullifiers(txns, "s")])
        /\ InScan
    BY <1>12 DEF ScanSpends
  <2> QED BY <1>2, <1>5, <2>1
<1>13. CASE RecordSpends(s)
  <2>1. PICK n \in s.toMark : Goto(s, [s EXCEPT !.toMark = @ \ {n}]) /\ InScan
    BY <1>13 DEF RecordSpends
  <2> QED BY <1>2, <1>5, <2>1
<1>14. CASE ScanNotes(s)
  <2>1. Done(s) /\ Scanning
    BY <1>14 DEF ScanNotes
  <2> QED BY <2>1
<1> QED BY <1>8, <1>9, <1>10, <1>11, <1>12, <1>13, <1>14 DEF ScanStep

(* A scan that marks no note *)
LEMMA ScanPendQuiet ==
  ASSUME CoreInv, PendInv, NEW s \in scans, ScanStep(s), NEW M,
         Ledger(txns, txns', s.tx, s.height, s.unconfirmed, M), NEW none, none = {}, Holds(txns, txns', none)
  PROVE  HeadDates(expiry, txns') /\ HeldInv'
<1>1. HeadDates(expiry, txns')
  <2>1. s.unconfirmed => Dated(expiry, s.tx, s.height)
    BY DEF PendInv, DateInv
  <2> QED BY <2>1, LedgerDates DEF PendInv, DateInv
<1>2. /\ mempool' = mempool
      /\ phase = "send" => phase' = "send" /\ sending' = sending
  BY ScanDates DEF serverVars
<1>3. HeldInv'
  BY <1>2, HeldStep DEF PendInv
<1> QED BY <1>1, <1>3

(* A UTXO is marked with the transaction that waits, which is being sent or  *)
(* streamed; nothing that is mined spends it.                                *)
LEMMA MarksWaiting ==
  ASSUME CoreInv, HistInv, CalmInv, PendInv, NEW s \in scans, NEW n \in Spends[s.tx],
         NEW t \in Sent \cap mempool, n \in Spends[t]
  PROVE  t = s.tx
<1>1. /\ phase \in Batch => s.by # "send" /\ (s.unconfirmed <=> s.by = "mempool")
      /\ phase \notin Batch => /\ s.unconfirmed
                               /\ s.by = "mempool" \/ (s.by = "send" /\ phase = "sendscan" /\ s.tx = sending)
  BY WhoScans
<1>2. CASE ~s.unconfirmed
  <2>1. phase \in Batch /\ s.tx \in NewTxs
    BY <1>1, <1>2 DEF HistInv, ScanWork
  <2> QED BY <2>1, MinedNotWaiting
<1>3. CASE s.by = "mempool"
  <2>1. s.tx \in StreamedTxs /\ Monitor
    BY <1>3, StreamedAre DEF CoreInv, ScanInv
  <2>2. s.tx \in mempool
    BY <2>1 DEF HistInv, MonitorInv
  <2> QED BY <2>2 DEF PendInv, PoolInv
<1>4. CASE phase = "sendscan" /\ s.tx = sending
  BY <1>4 DEF PendInv, AloneInv
<1> QED BY <1>1, <1>2, <1>3, <1>4

LEMMA MarkUtxoPend ==
  ASSUME CoreInv, HistInv, CalmInv, PendInv, NEW s \in scans, MarkUtxo(s)
  PROVE  HeadDates(expiry, txns') /\ HeldInv'
<1>1. /\ s.tx \in Txs /\ s.height \in Nat /\ s.toMark \in SUBSET Note /\ s.toMark \subseteq Spends[s.tx]
      /\ IsWallet(txns)
  BY ScanIs, CoreWallet DEF HistInv, ScanWork
<1>2. PICK n \in s.toMark : txns' = MarkTxidUtxoSpent(txns, n, s.tx, s.height)
  BY DEF MarkUtxo
<1>3. n \in Note /\ n \in Spends[s.tx]
  BY <1>1
<1>4. /\ mempool' = mempool
      /\ phase = "send" => phase' = "send" /\ sending' = sending
  BY ScanDates DEF serverVars, ScanStep
<1>5. CASE Known(txns, n)
  <2> DEFINE d == NoteOf(txns, n)
             e == Marked(d, s.tx, s.height)
             one == {n}
  <2>1. Replaced(txns, txns', n, e)
    BY <1>1, <1>2, <1>3, <1>5, MarkUtxoIs
  <2>2. e.spent = s.tx /\ e.keyed = d.keyed
    BY <1>1, <1>3, <1>5, NoteOfType, MarkedIs
  <2> HIDE DEF e
  <2>3. NoteOf(txns', n) = e
    BY <1>3, <1>5, <2>1 DEF Replaced
  <2>4. Holds(txns, txns', {n})
    BY <1>3, <2>1, <2>2, ReplacedHolds
  <2>5. \A t \in Sent \cap mempool' : n \in Spends[t] => Held(txns', t, n)
    BY <1>3, <1>4, <2>2, <2>3, MarksWaiting DEF Held
  <2>6. /\ Holds(txns, txns', one)
        /\ \A t \in Sent \cap mempool' : \A m \in Spends[t] : m \in one => Held(txns', t, m)
    BY <2>4, <2>5
  <2> HIDE DEF one
  <2>7. HeldInv'
    BY <1>4, <2>6, HeldStep DEF PendInv
  <2> QED BY <2>1, <2>7, ReplacedDates DEF PendInv, DateInv
<1>6. CASE ~Known(txns, n)
  <2>1. txns' = txns
    BY <1>1, <1>2, <1>3, <1>6, MarkUtxoIs
  <2>2. HeldInv'
    BY <1>4, <2>1, HeldQuiet DEF PendInv
  <2> QED BY <2>1, <2>2 DEF PendInv, DateInv
<1> QED BY <1>5, <1>6

LEMMA ScanOutputsPend ==
  ASSUME CoreInv, PendInv, NEW s \in scans, ScanOutputs(s)
  PROVE  HeadDates(expiry, txns') /\ HeldInv'
<1> DEFINE none == {}
           g == AddNewTaddrOutput(txns, s.tx, s.height, s.unconfirmed)
<1>1. /\ s.tx \in Txs /\ s.height \in Nat /\ s.unconfirmed \in BOOLEAN /\ IsWallet(txns)
  BY ScanIs, CoreWallet
<1>2. txns' = g \/ txns' = txns
  BY DEF ScanOutputs
<1>3. Ledger(txns, txns', s.tx, s.height, s.unconfirmed, none)
  <2>1. Ledger(txns, txns, s.tx, s.height, s.unconfirmed, {})
    BY <1>1, SameLedger
  <2>2. Ledger(txns, g, s.tx, s.height, s.unconfirmed, {})
    BY <1>1, TaddrOutputLedger
  <2> QED BY <1>2, <2>1, <2>2
<1>4. Holds(txns, txns', none)
  <2>1. Holds(txns, g, {})
    BY <1>1, TaddrOutputHolds
  <2>2. Holds(txns, txns, {})
    BY SameHolds
  <2> QED BY <1>2, <2>1, <2>2
<1>5. none = {} /\ ScanStep(s)
  BY DEF ScanStep
<1> HIDE DEF none, g
<1> QED BY <1>3, <1>4, <1>5, ScanPendQuiet

LEMMA RecordUtxosPend ==
  ASSUME CoreInv, PendInv, NEW s \in scans, RecordUtxos(s)
  PROVE  HeadDates(expiry, txns') /\ HeldInv'
<1> DEFINE none == {}
           g == AddTaddrSpent(txns, s.tx, s.height, s.unconfirmed, s.utxos)
<1>1. /\ s.tx \in Txs /\ s.height \in Nat /\ s.unconfirmed \in BOOLEAN /\ IsWallet(txns)
      /\ s.utxos \in SUBSET Note
  BY ScanIs, CoreWallet
<1>2. txns' = g
  BY DEF RecordUtxos
<1>3. Ledger(txns, g, s.tx, s.height, s.unconfirmed, none)
  BY <1>1, TaddrSpentLedger
<1>4. Holds(txns, g, none)
  BY <1>1, TaddrSpentHolds
<1>5. none = {} /\ ScanStep(s)
  BY DEF ScanStep
<1> HIDE DEF none, g
<1> QED BY <1>2, <1>3, <1>4, <1>5, ScanPendQuiet

LEMMA RecordSpendsPend ==
  ASSUME CoreInv, HistInv, PendInv, NEW s \in scans, RecordSpends(s)
  PROVE  HeadDates(expiry, txns') /\ HeldInv'
<1> DEFINE none == {}
           yes == TRUE
<1>1. /\ s.tx \in Txs /\ s.height \in Nat /\ s.unconfirmed \in BOOLEAN /\ IsWallet(txns)
      /\ s.toMark \in SUBSET Note
  BY ScanIs, CoreWallet
<1>2. PICK n \in s.toMark : txns' = AddNewSpent(txns, s.tx, s.height, yes, n)
  BY DEF RecordSpends
<1>3. n \in Note /\ s.unconfirmed = yes /\ yes \in BOOLEAN /\ yes
  BY <1>1 DEF RecordSpends, At, HistInv, ScanWork
<1> HIDE DEF yes
<1> DEFINE g == AddNewSpent(txns, s.tx, s.height, yes, n)
           M == IF yes THEN {} ELSE {n}
<1>4. Ledger(txns, g, s.tx, s.height, yes, M)
  BY <1>1, <1>3, NewSpentLedger
<1>5. Holds(txns, g, M)
  BY <1>1, <1>3, NewSpentHolds
<1>6. g = txns' /\ M = none /\ none = {} /\ ScanStep(s)
  BY <1>2, <1>3 DEF ScanStep
<1> HIDE DEF g, M, none
<1>7. Ledger(txns, txns', s.tx, s.height, s.unconfirmed, none) /\ Holds(txns, txns', none)
  BY <1>3, <1>4, <1>5, <1>6
<1> QED BY <1>6, <1>7, ScanPendQuiet

LEMMA ScanNotesPend ==
  ASSUME CoreInv, HistInv, PendInv, NEW s \in scans, ScanNotes(s)
  PROVE  HeadDates(expiry, txns') /\ HeldInv'
<1> DEFINE none == {}
           g == AddPendingNote(txns, s.tx, s.height)
           u == s.unconfirmed
<1>1. /\ s.tx \in Txs /\ s.height \in Nat /\ IsWallet(txns) /\ u \in BOOLEAN
  BY ScanIs, CoreWallet
<1>2. txns' = g \/ txns' = txns
  BY DEF ScanNotes
<1>3. u = TRUE /\ u = s.unconfirmed
  BY <1>1 DEF ScanNotes, At, HistInv, ScanWork
<1> HIDE DEF u
<1>4. Ledger(txns, txns', s.tx, s.height, s.unconfirmed, none)
  <2>1. Ledger(txns, g, s.tx, s.height, u, {})
    BY <1>1, <1>3, PendingNoteLedger
  <2>2. Ledger(txns, txns, s.tx, s.height, u, {})
    BY <1>1, SameLedger
  <2> QED BY <1>2, <1>3, <2>1, <2>2
<1>5. Holds(txns, txns', none)
  <2>1. Holds(txns, g, {})
    BY <1>1, PendingNoteHolds
  <2>2. Holds(txns, txns, {})
    BY SameHolds
  <2> QED BY <1>2, <2>1, <2>2
<1>6. none = {} /\ ScanStep(s)
  BY DEF ScanStep
<1> HIDE DEF none, g
<1> QED BY <1>4, <1>5, <1>6, ScanPendQuiet

LEMMA AloneKept ==
  ASSUME PendInv, Sent \cap mempool' \subseteq mempool,
         phase' \in {"send", "sendscan"} => phase \in {"send", "sendscan"} /\ sending' = sending
  PROVE  AloneInv'
BY DEF PendInv, AloneInv

LEMMA ScanPend ==
  ASSUME CoreInv, CoreInv', HistInv, CalmInv, PendInv, PoolInv', NEW s \in scans, ScanStep(s)
  PROVE  PendInv'
<1>1. HeadDates(expiry, txns') /\ HeldInv'
  <2>1. ASSUME ScanInputs(s) \/ ScanSpends(s) PROVE HeadDates(expiry, txns') /\ HeldInv'
    <3>1. UNCHANGED txns /\ ScanStep(s)
      BY <2>1 DEF ScanInputs, ScanSpends
    <3>2. mempool' = mempool /\ (phase = "send" => phase' = "send" /\ sending' = sending)
      BY <3>1, ScanDates DEF serverVars
    <3>3. HeldInv'
      BY <3>1, <3>2, HeldQuiet DEF PendInv
    <3> QED BY <3>1, <3>3 DEF PendInv, DateInv
  <2> QED BY <2>1, ScanOutputsPend, MarkUtxoPend, RecordUtxosPend, RecordSpendsPend, ScanNotesPend
          DEF ScanStep
<1>2. /\ \A r \in scans' : r.unconfirmed => r \in scans \/ Dated(expiry, r.tx, r.height)
      /\ UNCHANGED <<expiry, chain, mempool, synced, streamQ>>
      /\ \/ phase' = phase /\ sending' = sending
         \/ phase = "sendscan" /\ phase' = "idle"
  BY ScanDates DEF serverVars
<1>3. DateInv'
  BY <1>1, <1>2, DateQuiet DEF PendInv
<1>4. AloneInv'
  BY <1>2, AloneKept
<1> QED BY <1>1, <1>3, <1>4 DEF PendInv

LEMMA ScanStreamedPend ==
  ASSUME CoreInv, CoreInv', PendInv, PoolInv', ScanStreamed
  PROVE  PendInv'
<1> DEFINE r == NewScan("mempool", Head(streamQ).tx, Head(streamQ).height, TRUE)
<1>1. /\ UNCHANGED <<serverVars, txns, synced, phase, sending>>
      /\ streamQ # <<>> /\ scans' = scans \cup {r} /\ streamQ' = Tail(streamQ)
  BY DEF ScanStreamed, syncVars
<1>2. r.tx = Head(streamQ).tx /\ r.height = Head(streamQ).height
  BY DEF NewScan
<1> HIDE DEF r
<1>3. /\ Len(streamQ) >= 1 /\ Head(streamQ) = streamQ[1] /\ Len(streamQ') = Len(streamQ) - 1
      /\ Len(streamQ) \in Nat
      /\ \A i \in 1..Len(streamQ') : streamQ'[i] = streamQ[i + 1] /\ i + 1 \in 1..Len(streamQ)
  <2> DEFINE R == [tx : Txs, height : Nat]
  <2>1. streamQ \in Seq(R)
    BY DEF CoreInv, TypeOK, ScanTypes
  <2> HIDE DEF R
  <2> QED BY <1>1, <2>1
<1>4. \A i \in 1..Len(streamQ) : Dated(expiry, streamQ[i].tx, streamQ[i].height)
  BY DEF PendInv, DateInv
<1>5. Dated(expiry, r.tx, r.height)
  <2>1. 1 \in 1..Len(streamQ)
    BY <1>3
  <2> QED BY <1>2, <1>3, <1>4, <2>1
<1>6. \A i \in 1..Len(streamQ') : Dated(expiry, streamQ'[i].tx, streamQ'[i].height)
  BY <1>3, <1>4
<1>7. UNCHANGED <<expiry, chain, mempool>>
  BY <1>1 DEF serverVars
<1>8. DateInv'
  <2>1. /\ \A t \in Txs : expiry[t] # 0 => expiry'[t] = expiry[t]
        /\ \A t \in Txs : expiry'[t] <= Len(chain') + 1 + ExpiryDelta
        /\ HeadDates(expiry, txns')
        /\ \A s \in scans' : s.unconfirmed => s \in scans \/ Dated(expiry, s.tx, s.height)
        /\ phase' = "send" => Dated(expiry', sending', Len(synced') + 1)
    BY <1>1, <1>5, <1>7 DEF PendInv, DateInv
  <2> QED BY <1>6, <2>1, DateStep DEF PendInv
<1>9. HeldInv' /\ AloneInv'
  BY <1>1, <1>7, HeldQuiet, AloneKept DEF PendInv
<1> QED BY <1>8, <1>9 DEF PendInv

LEMMA SyncPend ==
  ASSUME NoOrchard, CoreInv, CoreInv', HistInv, WholeInv, CalmInv, PendInv, PoolInv', Sync
  PROVE  PendInv'
<1>1. ~InvalidateBlock
  <2>1. left <= Len(synced) /\ keep = Len(synced) /\ keep \in Nat /\ left \in Nat
    BY GoalIs DEF CalmInv, HistInv, ChainInv, CoreInv
  <2> QED BY <2>1 DEF InvalidateBlock
<1>2. /\ UNCHANGED <<expiry, chain, mempool, streamQ, sending>>
      /\ phase \notin {"send", "sendscan"} /\ phase' \notin {"send", "sendscan"}
  <2>1. Sync => UNCHANGED <<serverVars, streamQ, sending>>
    BY DEF Sync, StartSync, InvalidateBlock, BlocksDone, ReadOldNotes, OrchardPass, FinishSync, Detect,
           LookUpSpent, LookUpUnspent, RecordSpend, ScanTaddr, ScanFull
  <2>2. phase \in Batch \/ StartSync \/ BlocksDone
    BY <1>1 DEF Sync, ReadOldNotes, OrchardPass, FinishSync, Detect, Batch, CoreInv, QueueInv
  <2>3. CASE StartSync \/ BlocksDone \/ ReadOldNotes \/ OrchardPass \/ FinishSync
    BY <2>1, <2>3 DEF StartSync, BlocksDone, ReadOldNotes, OrchardPass, FinishSync, serverVars
  <2>4. CASE \/ \E n \in detect : Detect(n)
             \/ \E u \in upd : LookUpSpent(u) \/ LookUpUnspent(u)
             \/ \E f \in found : RecordSpend(f)
             \/ \E t \in taddrQ : ScanTaddr(t)
             \/ \E t \in fullQ : ScanFull(t)
    <3>1. phase' = phase
      BY <2>4 DEF Detect, LookUpSpent, LookUpUnspent, RecordSpend, ScanTaddr, ScanFull
    <3>2. phase \in Batch
      BY <2>4 DEF CoreInv, QueueInv
    <3> QED BY <2>1, <3>1, <3>2 DEF Batch, serverVars
  <2> QED BY <1>1, <2>3, <2>4 DEF Sync
<1>3. HeadDates(expiry, txns') /\ HeldInv'
  <2>1. CASE UNCHANGED txns
    BY <1>2, <2>1, HeldQuiet DEF PendInv, DateInv
  <2>2. StartSync \/ BlocksDone \/ ReadOldNotes => UNCHANGED txns
    BY DEF StartSync, BlocksDone, ReadOldNotes
  <2>3. (\E t \in taddrQ : ScanTaddr(t)) \/ (\E t \in fullQ : ScanFull(t)) => UNCHANGED txns
    BY DEF ScanTaddr, ScanFull
  <2> QED BY <1>1, <2>1, <2>2, <2>3, DetectPend, LookUpSpentPend, LookUpUnspentPend, RecordSpendPend,
          OrchardPassPend, FinishPend DEF Sync
<1>4. \A s \in scans' : s.unconfirmed => s \in scans
  <2>1. CASE \E t \in taddrQ : ScanTaddr(t)
    BY <2>1 DEF ScanTaddr, NewScan
  <2>2. CASE \E t \in fullQ : ScanFull(t)
    BY <2>2 DEF ScanFull, NewScan
  <2>3. \/ scans' = scans \/ (\E t \in taddrQ : ScanTaddr(t)) \/ (\E t \in fullQ : ScanFull(t))
    BY <1>1 DEF Sync, StartSync, BlocksDone, ReadOldNotes, OrchardPass, FinishSync, Detect, LookUpSpent,
                LookUpUnspent, RecordSpend
  <2> QED BY <2>1, <2>2, <2>3
<1>5. DateInv'
  BY <1>2, <1>3, <1>4, DateQuiet DEF PendInv
<1>6. AloneInv'
  BY <1>2, AloneKept
<1> QED BY <1>3, <1>5, <1>6 DEF PendInv

LEMMA ServerPend ==
  ASSUME MaxReorgs = 0, CoreInv, CoreInv', PendInv, PoolInv', Server
  PROVE  PendInv'
<1>1. chain \in Seq(Blocks) /\ Len(chain) \in Nat /\ expiry \in [Txs -> Nat] /\ mempool \subseteq Txs
  BY GoalIs DEF CoreInv, TypeOK, ServerTypes
<1>2. UNCHANGED <<txns, synced, phase, scans, sending>>
  BY DEF Server, Mine, Reorg, Arrive, Stream, syncVars
<1>3. HeadDates(expiry, txns') /\ \A s \in scans' : s.unconfirmed => s \in scans
  BY <1>2 DEF PendInv, DateInv
<1>4. ASSUME NEW S \in SUBSET Txs, Mine(S) PROVE DateInv' /\ Sent \cap mempool' \subseteq mempool
  <2>1. /\ chain' = Append(chain, S) /\ UNCHANGED <<expiry, streamQ>> /\ mempool' \subseteq mempool
    BY <1>4 DEF Mine
  <2>2. Len(chain') = Len(chain) + 1
    BY <1>1, <2>1
  <2>3. \A t \in Txs : expiry'[t] <= Len(chain') + 1 + ExpiryDelta
    <3>1. \A t \in Txs : expiry[t] <= Len(chain) + 1 + ExpiryDelta /\ expiry[t] \in Nat
      BY <1>1 DEF PendInv, DateInv
    <3> QED BY <1>1, <2>1, <2>2, <3>1, BoundAssumption
  <2>4. /\ \A t \in Txs : expiry[t] # 0 => expiry'[t] = expiry[t]
        /\ \A i \in 1..Len(streamQ') : Dated(expiry, streamQ'[i].tx, streamQ'[i].height)
        /\ phase' = "send" => Dated(expiry', sending', Len(synced') + 1)
    BY <1>2, <2>1 DEF PendInv, DateInv
  <2> QED BY <1>3, <2>1, <2>3, <2>4, DateStep DEF PendInv
<1>5. \A k \in 1..Len(chain), back \in SUBSET Txs : ~Reorg(k, back)
  BY DEF Reorg, CoreInv, TypeOK, ServerTypes
<1>6. ASSUME NEW t \in Txs, Arrive(t) PROVE DateInv' /\ Sent \cap mempool' \subseteq mempool
  <2>1. /\ t \notin Sent /\ expiry[t] = 0 /\ expiry' = [expiry EXCEPT ![t] = Len(chain) + 1 + ExpiryDelta]
        /\ UNCHANGED <<chain, streamQ>> /\ mempool' = mempool \cup {t}
    BY <1>6 DEF Arrive
  <2>2. \A u \in Txs : expiry[u] # 0 => expiry'[u] = expiry[u]
    BY <1>1, <2>1
  <2>3. \A u \in Txs : expiry'[u] <= Len(chain') + 1 + ExpiryDelta
    <3>1. \A u \in Txs : expiry[u] <= Len(chain) + 1 + ExpiryDelta
      BY DEF PendInv, DateInv
    <3> QED BY <1>1, <2>1, <3>1, BoundAssumption
  <2>4. /\ \A i \in 1..Len(streamQ') : Dated(expiry, streamQ'[i].tx, streamQ'[i].height)
        /\ phase' = "send" => Dated(expiry', sending', Len(synced') + 1)
    <3>1. phase = "send" => sending \in Txs /\ Dated(expiry, sending, Len(synced) + 1)
      BY TxAssumption DEF PendInv, DateInv, CoreInv, ScanInv
    <3> QED BY <1>2, <2>1, <2>2, <3>1 DEF PendInv, DateInv, Dated
  <2> QED BY <1>3, <2>1, <2>2, <2>3, <2>4, DateStep DEF PendInv
<1>7. ASSUME NEW t \in Txs, Stream(t) PROVE DateInv' /\ Sent \cap mempool' \subseteq mempool
  <2> DEFINE r == [tx |-> t, height |-> Len(chain)]
  <2>1. /\ t \in mempool /\ UNCHANGED <<chain, expiry, mempool>> /\ streamQ' = Append(streamQ, r)
    BY <1>7 DEF Stream, serverVars
  <2>2. Dated(expiry, r.tx, r.height)
    <3>1. Len(chain) < expiry[t] /\ expiry[t] <= Len(chain) + 1 + ExpiryDelta
      BY <2>1 DEF PendInv, PoolInv, DateInv
    <3> QED BY <1>1, <3>1 DEF Dated
  <2> HIDE DEF r
  <2>3. \A i \in 1..Len(streamQ') : streamQ'[i] = r \/ (i \in 1..Len(streamQ) /\ streamQ'[i] = streamQ[i])
    <3> DEFINE R == [tx : Txs, height : Nat]
    <3>1. streamQ \in Seq(R) /\ r \in R
      BY <1>1 DEF CoreInv, TypeOK, ScanTypes, r
    <3> HIDE DEF R
    <3> QED BY <2>1, <3>1
  <2>4. \A i \in 1..Len(streamQ') : Dated(expiry, streamQ'[i].tx, streamQ'[i].height)
    BY <2>2, <2>3 DEF PendInv, DateInv
  <2>5. /\ \A u \in Txs : expiry[u] # 0 => expiry'[u] = expiry[u]
        /\ \A u \in Txs : expiry'[u] <= Len(chain') + 1 + ExpiryDelta
        /\ phase' = "send" => Dated(expiry', sending', Len(synced') + 1)
    BY <1>2, <2>1 DEF PendInv, DateInv
  <2> QED BY <1>3, <2>1, <2>4, <2>5, DateStep DEF PendInv
<1>8. DateInv' /\ Sent \cap mempool' \subseteq mempool
  BY <1>4, <1>5, <1>6, <1>7 DEF Server
<1>9. HeldInv' /\ AloneInv'
  BY <1>2, <1>8, HeldQuiet, AloneKept DEF PendInv
<1> QED BY <1>8, <1>9 DEF PendInv

(* What a send may select is the wallet's and free of marks.                 *)
LEMMA BroadcastPend ==
  ASSUME CoreInv, CoreInv', HistInv, CalmInv, PendInv, PoolInv', NEW t \in Sent, Broadcast(t)
  PROVE  PendInv'
<1>1. /\ phase = "idle" /\ phase' = "send" /\ sending' = t
      /\ Spends[t] \subseteq Selectable(txns, Len(synced))
      /\ expiry[t] = 0 /\ expiry' = [expiry EXCEPT ![t] = Len(synced) + 1 + ExpiryDelta]
      /\ \A u \in mempool : ~Conflict(t, u)
      /\ mempool' = mempool \cup {t}
      /\ UNCHANGED <<chain, txns, synced, scans, streamQ>>
  BY DEF Broadcast
<1>2. t \in Txs /\ expiry \in [Txs -> Nat] /\ Len(synced) \in Nat /\ Len(chain) \in Nat
  BY TxAssumption, GoalIs DEF CoreInv, TypeOK, ServerTypes
<1>3. Len(synced) <= Len(chain)
  <2>1. Goal = synced
    BY <1>1 DEF Goal, Syncing
  <2> QED BY <2>1 DEF CalmInv, HistInv, ChainInv, Agree
<1>4. DateInv'
  <2>1. \A u \in Txs : expiry[u] # 0 => expiry'[u] = expiry[u]
    BY <1>1, <1>2
  <2>2. \A u \in Txs : expiry'[u] <= Len(chain') + 1 + ExpiryDelta
    <3>1. \A u \in Txs : expiry[u] <= Len(chain) + 1 + ExpiryDelta
      BY DEF PendInv, DateInv
    <3> QED BY <1>1, <1>2, <1>3, <3>1, BoundAssumption
  <2>3. Dated(expiry', sending', Len(synced') + 1)
    BY <1>1, <1>2, BoundAssumption DEF Dated
  <2>4. /\ HeadDates(expiry, txns') /\ \A s \in scans' : s.unconfirmed => s \in scans
        /\ \A i \in 1..Len(streamQ') : Dated(expiry, streamQ'[i].tx, streamQ'[i].height)
    BY <1>1 DEF PendInv, DateInv
  <2> QED BY <2>1, <2>2, <2>3, <2>4, DateStep DEF PendInv
<1>5. AloneInv'
  BY <1>1 DEF AloneInv, Conflict
<1>6. \A n \in Spends[t] : Ours(txns, n)
  <2> SUFFICES ASSUME NEW n \in Spends[t] PROVE Ours(txns, n)
    OBVIOUS
  <2>1. /\ n \in Note /\ Known(txns, n)
        /\ n[2] = "s" => Witnesses(NoteOf(txns, n).witness) > AnchorOffset
    BY <1>1 DEF Selectable
  <2>2. ASSUME n[2] = "s" PROVE NoteOf(txns, n).keyed
    <3> DEFINE c == NoteOf(txns, n).witness
    <3>1. Witnesses(c) > AnchorOffset
      BY <2>1, <2>2
    <3>2. Witnesses(c) \in Int
      <4>1. NoteOf(txns, n) \in NoteRec
        BY <2>1, CoreWallet, NoteOfType
      <4>2. c \in WitnessRec
        BY <4>1 DEF NoteRec
      <4> QED BY <4>2 DEF WitnessRec, Witnesses
    <3> HIDE DEF c
    <3>3. ~(Witnesses(c) <= 0)
      BY <3>1, <3>2, BoundAssumption
    <3>4. ~NoteOf(txns, n).keyed => Witnesses(c) <= 0
      BY <2>1, <2>2, CoreWallet DEF GoodWallet, ShapeOf, c
    <3> QED BY <3>3, <3>4
  <2> QED BY <2>1, <2>2 DEF Ours
<1>7. HeldInv'
  BY <1>1, <1>6 DEF PendInv, HeldInv
<1> QED BY <1>4, <1>5, <1>7 DEF PendInv

LEMMA MarkSelectedPend ==
  ASSUME CoreInv, CoreInv', PendInv, PoolInv', MarkSelected
  PROVE  PendInv'
<1> DEFINE r == NewScan("send", sending, Len(synced) + 1, TRUE)
           ns == Spends[sending]
<1>1. /\ phase = "send" /\ phase' = "sendscan" /\ UNCHANGED <<serverVars, synced, streamQ, sending>>
      /\ txns' = Reserved(txns, ns, sending) /\ scans' = scans \cup {r}
  BY DEF MarkSelected, Reserved
<1>2. sending \in Txs /\ IsWallet(txns)
  BY <1>1, TxAssumption, CoreWallet DEF CoreInv, ScanInv
<1>3. UNCHANGED <<expiry, chain, mempool>>
  BY <1>1 DEF serverVars
<1>4. r.tx = sending /\ r.height = Len(synced) + 1
  BY DEF NewScan
<1> HIDE DEF r
<1>5. DateInv'
  <2>1. HeadDates(expiry, txns')
    <3>1. Mapped(txns, txns')
      BY <1>1, <1>2, ReservedIs
    <3> QED BY <3>1, MappedDates DEF PendInv, DateInv
  <2>2. \A s \in scans' : s.unconfirmed => s \in scans \/ Dated(expiry, s.tx, s.height)
    BY <1>1, <1>4 DEF PendInv, DateInv
  <2> QED BY <1>1, <1>3, <2>1, <2>2, DateQuiet DEF PendInv
<1>6. AloneInv'
  BY <1>1, <1>3, AloneKept
<1>7. HeldInv'
  <2>1. /\ Holds(txns, txns', ns)
        /\ \A n \in Note : n \in ns /\ Known(txns, n) => NoteOf(txns', n).pending = sending
    <3> DEFINE y == sending
    <3> HIDE DEF y, ns
    <3>1. \A x \in Txs : /\ Holds(txns, Reserved(txns, ns, x), ns)
                        /\ \A n \in Note : n \in ns /\ Known(txns, n) => NoteOf(Reserved(txns, ns, x), n).pending = x
      BY <1>2, ReservedHolds
    <3> QED BY <1>1, <1>2, <3>1
  <2> SUFFICES ASSUME NEW t \in Sent \cap mempool, NEW n \in Spends[t]
               PROVE  Ours(txns', n) /\ Held(txns', t, n)
    BY <1>3 DEF HeldInv
  <2>2. n \in Note /\ Ours(txns, n)
    BY TxAssumption DEF PendInv, HeldInv
  <2>3. Ours(txns', n)
    BY <2>1, <2>2 DEF Holds
  <2>4. CASE n \in ns
    <3>1. t = sending
      BY <1>1, <2>4 DEF PendInv, AloneInv
    <3> QED BY <2>1, <2>2, <2>3, <2>4, <3>1 DEF Held, Ours
  <2>5. CASE n \notin ns
    <3>1. t # sending
      BY <2>5
    <3>2. Held(txns, t, n)
      BY <3>1 DEF PendInv, HeldInv
    <3> QED BY <2>1, <2>2, <2>3, <2>5, <3>2 DEF Holds, Held
  <2> QED BY <2>4, <2>5
<1> QED BY <1>5, <1>6, <1>7 DEF PendInv

LEMMA PendNext ==
  ASSUME NoOrchard, MaxReorgs = 0, ~Restarts, CoreInv, CoreInv', HistInv, WholeInv, CalmInv, PendInv, [Next]_vars
  PROVE  PendInv'
<1>1. PoolInv'
  BY PoolNext DEF HistInv, PendInv
<1>2. CASE Save \/ UNCHANGED vars
  <2>1. /\ UNCHANGED <<txns, synced, phase, scans, sending, streamQ, mempool, expiry, chain>>
    BY <1>2 DEF Save, syncVars, serverVars, vars
  <2>2. DateInv' /\ HeldInv' /\ AloneInv'
    BY <2>1, DateQuiet, HeldQuiet, AloneKept DEF PendInv, DateInv
  <2> QED BY <1>1, <2>2 DEF PendInv
<1>3. ~Restart
  BY DEF Restart
<1> QED BY <1>1, <1>2, <1>3, ServerPend, SyncPend, ScanPend, ScanStreamedPend, BroadcastPend,
        MarkSelectedPend DEF Next, User, Scan

LEMMA PendInit == Init => PendInv
<1> SUFFICES ASSUME Init PROVE PendInv
  OBVIOUS
<1>1. /\ mempool = {} /\ txns = <<>> /\ scans = {} /\ streamQ = <<>> /\ phase = "idle"
      /\ expiry = [t \in Txs |-> 0] /\ chain = <<{}>>
  BY DEF Init
<1>2. Mined(chain) = {} /\ Len(chain) = 1
  BY <1>1, NoBlocks
<1>3. DateInv
  <2>1. \A t \in Txs : expiry[t] <= Len(chain) + 1 + ExpiryDelta
    BY <1>1, <1>2, BoundAssumption
  <2>2. HeadDates(expiry, txns) /\ Len(streamQ) = 0
    BY <1>1 DEF HeadDates
  <2> QED BY <1>1, <2>1, <2>2 DEF DateInv
<1> QED BY <1>1, <1>2, <1>3 DEF PendInv, PoolInv, AloneInv, HeldInv

(* Whenever no sync and no send is under way, a note that a transaction of    *)
(* this wallet which still waits at the server spends is not offered again:   *)
(* it keeps the mark the send gave it, or the one a scan made, until the      *)
(* transaction is mined or can no longer be, for no mark is given back while  *)
(* what made it may be mined (clear_expired_mempool), and no batch and no     *)
(* scan marks the note with another.  Without Orchard notes, reorgs and       *)
(* restarts: a reorg gives back what a transaction it returned to the mempool *)
(* spends, and a restart forgets the marks that were not saved.               *)
THEOREM PendingSpendsMarkedCorrect ==
  ASSUME InTime, NoOrchard, MaxDepth < MaxReorg, MaxReorgs = 0, ~Restarts
  PROVE  Spec => []PendingSpendsMarked
<1>1. Init => CalmInv /\ PendInv
  BY CalmInit, PendInit
<1>2. CoreInv /\ HistInv /\ WholeInv /\ CalmInv /\ PendInv /\ [Next]_vars => (CalmInv /\ PendInv)'
  BY NextCore, CalmNext, PendNext DEF HistInv
<1>3. PendInv => PendingSpendsMarked
  <2> SUFFICES ASSUME PendInv, phase = "idle", NEW t \in Sent \cap mempool, NEW n \in Spends[t],
                      n \in Selectable(txns, Len(synced))
               PROVE  FALSE
    BY DEF PendingSpendsMarked
  <2>1. Held(txns, t, n)
    BY DEF PendInv, HeldInv
  <2>2. NoteOf(txns, n).spent = NoTx /\ NoteOf(txns, n).pending = NoTx
    BY DEF Selectable
  <2>3. t # NoTx
    BY TxAssumption
  <2> QED BY <2>1, <2>2, <2>3 DEF Held
<1> QED BY <1>1, <1>2, <1>3, WholeHolds, PTL DEF Spec, Shallow
=============================================================================
