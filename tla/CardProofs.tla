----------------------------- MODULE CardProofs -----------------------------
(***************************************************************************)
(* Proofs about the card: its snapshot slots (SnapshotSlots) and the disk  *)
(* table and boot flow (BootDisk).                                         *)
(*                                                                         *)
(* Slots, for every number of them from two on and every shape of the      *)
(* payload: whatever sector write fails or is the last before a power      *)
(* loss, the ring keeps its newest snapshots whole.  Sector reads do not   *)
(* fail here: a save that overlooks the latest slot reuses its sequence    *)
(* number, and a ring of one slot has no other to fall back on.            *)
(*                                                                         *)
(* Boot flow, for every card, number of slots, generation limit, snapshot  *)
(* size and number of faults: the two copies of the table are one          *)
(* register for the boot menu and the application, whatever layouts they   *)
(* carry, and the application starts as the user of the menu told it to.   *)
(***************************************************************************)
EXTENDS SnapshotSlots, BootDisk, NumberProofs

-----------------------------------------------------------------------------
(* Snapshot slots: the inductive invariant *)

\* How many slots i lies behind l in the ring
Behind(i, l) == IF i <= l THEN l - i ELSE l - i + SlotCount

\* How many committed saves are newer than t
Newer(C, t) == Cardinality({u \in C : u > t})

\* Slot i holds save t and nothing else
Holds(i, t) == Valid(slot[i]) /\ \A b \in Sectors : slot[i].pay[b] = t

\* l is the slot of the newest committed save and q its sequence number, and the
\* slots behind it hold the saves before it, one number less each.  Only the slot
\* after l, where a save writes, may be in any state.  Before the first commit
\* the ring looks as if the save before were in the last slot with number 0.
Ring(l, q) ==
  /\ IF committed = {} THEN q = 0 /\ l = SlotCount - 1
                       ELSE Valid(slot[l]) /\ slot[l].hdr = q
  /\ \A i \in Slots : slot[i].cmit <= q
  /\ \A i \in Slots : Valid(slot[i]) =>
       /\ slot[i].hdr = q - Behind(i, l)
       /\ \E t \in committed : Holds(i, t) /\ Behind(i, l) = Newer(committed, t)
  /\ \A t \in committed, i \in Slots :
       Behind(i, l) = Newer(committed, t) /\ Newer(committed, t) < SlotCount - 1
         => Holds(i, t)
  /\ table <= q

Saving == step \in {"hdr", "pay", "cmit"}

\* The save in progress goes to the slot after l, under the number after q
Aims(l, q) == /\ Saving => slot_idx = NextSlot(l) /\ seq = q + 1
              /\ step = "table" => seq = q

\* What the save in progress has written so far, and that its number is new
Progress ==
  /\ seq <= save
  /\ \A t \in committed : t <= save
  /\ \A i \in Slots : slot[i].hdr <= save
  /\ Saving => save \notin committed /\ save > 0
  /\ step \in {"pay", "cmit"} => slot[slot_idx].hdr = seq
  /\ step = "pay" => k \in Sectors /\ \A b \in 1 .. k - 1 : slot[slot_idx].pay[b] = save
  /\ step = "cmit" => \A b \in Sectors : slot[slot_idx].pay[b] = save
  /\ Saving \/ step = "table" => booted = NotBooted

IInv == /\ SlotsTypeOK /\ Progress /\ BootRestores
        /\ \E l \in Slots, q \in 0 .. save : Ring(l, q) /\ Aims(l, q)

\* The setting of the proofs: every sector can be read, and the ring has a slot
\* to write and another one to keep
Setting == MaxReadFaults = 0 /\ SlotCount > 1

-----------------------------------------------------------------------------
(* Facts about the layout of a slot and the order of the ring *)

\* Multiples of a row length: the row before row R ends before it
LEMMA RowsFit ==
  ASSUME NEW R \in Nat, NEW r \in 1 .. R, NEW m \in Nat
  PROVE  (r - 1) * m \in Nat /\ R * m \in Nat /\ (r - 1) * m + m <= R * m
<1>1. (r - 1) * m \in Nat /\ R * m \in Nat /\ (R - r) * m \in Nat
  OBVIOUS
<1>2. R * m = (R - r) * m + (r - 1) * m + m
  OBVIOUS
<1> QED BY <1>1, <1>2

\* Every sector that snapshot_write_payload writes for a region lies in the slot
LEMMA SectorsOfRegions ==
  /\ 1 \in Sectors /\ PAYE \in Sectors
  /\ \A r \in 1 .. Regions : /\ RGS0(r) \in Sectors /\ RGE0(r) \in Sectors
                             /\ DataOf(r) \subseteq Sectors
  /\ DataSectors \subseteq Sectors /\ DataSectors # {}
<1> DEFINE m == RegionBlocks + 2
<1>1. m \in Nat /\ Regions * m \in Nat /\ Regions \in Nat
  BY SlotsAssumption, RowsFit
<1>2. 1 \in Sectors /\ PAYE \in Sectors
  BY <1>1 DEF Sectors, PAYE
<1>3. ASSUME NEW r \in 1 .. Regions
      PROVE  RGS0(r) \in Sectors /\ RGE0(r) \in Sectors /\ DataOf(r) \subseteq Sectors
  <2>1. (r - 1) * m \in Nat /\ (r - 1) * m + m <= Regions * m
    BY <1>1, RowsFit
  <2> HIDE DEF m
  <2>2. RGS0(r) = 2 + (r - 1) * m /\ RGE0(r) = 1 + (r - 1) * m + m
    BY <2>1, SlotsAssumption DEF RGS0, RGE0, m
  <2>3. Sectors = 1 .. 2 + Regions * m
    BY DEF Sectors, m
  <2> QED BY <1>1, <2>1, <2>2, <2>3 DEF DataOf
<1>4. DataSectors \subseteq Sectors
  BY <1>3 DEF DataSectors
<1>5. 1 \in 1 .. Regions /\ 3 \in DataOf(1)
  <2>1. (1 - 1) * m = 0
    BY <1>1
  <2> QED BY <2>1, SlotsAssumption DEF DataOf, RGS0, RGE0
<1> QED BY <1>2, <1>3, <1>4, <1>5 DEF DataSectors

\* A slot that holds a save can be restored, and gives that save back
LEMMA HeldIsRestorable ==
  ASSUME NEW i \in Slots, NEW t, Holds(i, t)
  PROVE  /\ Restorable(slot[i]) /\ Image(slot[i]) = {t}
         /\ Cardinality(Image(slot[i])) = 1
<1> USE SectorsOfRegions
<1>1. t # 0 /\ Valid(slot[i]) /\ \A b \in Sectors : slot[i].pay[b] = t
  BY DEF Holds, Valid
<1>2. \A r \in 1 .. Regions : RegionOK(slot[i], r)
  BY <1>1 DEF RegionOK
<1>3. Restorable(slot[i])
  BY <1>1, <1>2 DEF Restorable, Valid
<1>4. Image(slot[i]) = {t}
  BY <1>1 DEF Image
<1> QED BY <1>3, <1>4, FS_Singleton

\* The slot after l is the one farthest behind it
LEMMA RingOrder ==
  ASSUME SlotCount > 1, NEW l \in Slots
  PROVE  /\ NextSlot(l) \in Slots /\ NextSlot(l) # l
         /\ NextSlot(l) = IF l = SlotCount - 1 THEN 0 ELSE l + 1
         /\ Behind(l, l) = 0 /\ Behind(NextSlot(l), l) = SlotCount - 1
         /\ \A i \in Slots : /\ Behind(i, l) \in 0 .. SlotCount - 1
                             /\ Behind(i, l) = 0 => i = l
         /\ \A i \in Slots \ {NextSlot(l)} :
              /\ Behind(i, l) < SlotCount - 1
              /\ Behind(i, NextSlot(l)) = Behind(i, l) + 1
<1> USE SlotsAssumption DEF Slots
<1>1. NextSlot(l) = IF l = SlotCount - 1 THEN 0 ELSE l + 1
  <2>1. CASE l = SlotCount - 1
    <3>1. (l + 1) % SlotCount = 0
      BY <2>1
    <3> QED BY <2>1, <3>1 DEF NextSlot
  <2>2. CASE l < SlotCount - 1
    <3>1. (l + 1) % SlotCount = l + 1
      BY <2>2
    <3> QED BY <2>2, <3>1 DEF NextSlot
  <2> QED BY <2>1, <2>2
<1> QED BY <1>1 DEF Behind

\* Some slot lies d behind l
LEMMA SlotBehind ==
  ASSUME NEW l \in Slots, NEW d \in 0 .. SlotCount - 1
  PROVE  \E i \in Slots : Behind(i, l) = d
<1> USE SlotsAssumption DEF Slots, Behind
<1>1. CASE d <= l
  <2>1. l - d \in Slots /\ Behind(l - d, l) = d
    BY <1>1
  <2> QED BY <2>1
<1>2. CASE d > l
  <2>1. l - d + SlotCount \in Slots /\ Behind(l - d + SlotCount, l) = d
    BY <1>2
  <2> QED BY <2>1
<1> QED BY <1>1, <1>2

\* A new save makes every other one older by one
LEMMA NewerCounts ==
  ASSUME NEW n \in Nat, NEW C \in SUBSET (1 .. n)
  PROVE  /\ \A t \in C : Newer(C, t) \in Nat /\ (Newer(C, t) = 0 => \A u \in C : u <= t)
         /\ \A s \in Nat : (\A u \in C : u < s) =>
              /\ Newer(C \cup {s}, s) = 0
              /\ \A t \in C : Newer(C \cup {s}, t) = Newer(C, t) + 1
<1>1. IsFiniteSet(C) /\ \A t : IsFiniteSet({u \in C : u > t})
  <2>1. IsFiniteSet(1 .. n)
    BY FS_Interval
  <2>2. IsFiniteSet(C)
    BY <2>1, FS_Subset
  <2> QED BY <2>2, FS_Subset
<1>2. ASSUME NEW t \in C
      PROVE  Newer(C, t) \in Nat /\ (Newer(C, t) = 0 => \A u \in C : u <= t)
  BY <1>1, FS_CardinalityType, FS_EmptySet DEF Newer
<1>3. ASSUME NEW s \in Nat, \A u \in C : u < s
      PROVE  /\ Newer(C \cup {s}, s) = 0
             /\ \A t \in C : Newer(C \cup {s}, t) = Newer(C, t) + 1
  <2>0. \A u \in C \cup {s} : ~(u > s)
    BY <1>3
  <2>1. {u \in C \cup {s} : u > s} = {}
    BY <2>0
  <2>2. ASSUME NEW t \in C PROVE Newer(C \cup {s}, t) = Newer(C, t) + 1
    <3>1. {u \in C \cup {s} : u > t} = {u \in C : u > t} \cup {s}
      BY <1>3
    <3>2. s \notin {u \in C : u > t}
      BY <1>3
    <3> QED BY <1>1, <3>1, <3>2, FS_AddElement DEF Newer
  <2> QED BY <2>1, <2>2, FS_EmptySet DEF Newer
<1> QED BY <1>2, <1>3

\* The saves up to the newest one
LEMMA NewestIs ==
  ASSUME SlotsTypeOK, NEW t \in committed, Newer(committed, t) = 0
  PROVE  Newest = t
<1>1. committed \in SUBSET (1 .. MaxSaves) /\ MaxSaves \in Nat
  BY SlotsAssumption DEF SlotsTypeOK
<1>2. \A u \in committed : u <= t
  BY <1>1, NewerCounts
<1>3. Newest \in committed /\ \A u \in committed : u <= Newest
  BY <1>2 DEF Newest
<1> QED BY <1>1, <1>2, <1>3

-----------------------------------------------------------------------------
(* What the ring says about the choice of a slot, and what keeps it *)

\* snapshot_scan_latest finds the slot of the newest committed save
LEMMA ScanFindsNewest ==
  ASSUME Setting, SlotsTypeOK, NEW l \in Slots, NEW q \in 0 .. save, Ring(l, q),
         committed # {}
  PROVE  /\ l \in Found({}) /\ Latest(Found({})) = l /\ slot[l].hdr = q
         /\ Holds(l, Newest)
<1> DEFINE F == Found({})
<1>1. l \in F /\ slot[l].hdr = q
  BY DEF Ring, Found
<1>2. ASSUME NEW i \in F, i # l PROVE slot[i].hdr \in Nat /\ slot[i].hdr < slot[l].hdr
  <2>1. i \in Slots /\ slot[i].hdr = q - Behind(i, l) /\ slot[i].hdr \in Nat
    BY DEF Ring, Found, SlotsTypeOK
  <2>2. Behind(i, l) \in 0 .. SlotCount - 1 /\ Behind(i, l) # 0
    BY <1>2, <2>1, RingOrder DEF Setting
  <2> QED BY <1>1, <2>1, <2>2, SlotsAssumption DEF SlotsTypeOK
<1>3. l \in Nat /\ slot[l].hdr \in Nat
  BY <1>1 DEF Slots, SlotsTypeOK
<1> HIDE DEF F
<1>4. Latest(F) = l
  <2>1. \A j \in F : \/ slot[j].hdr < slot[l].hdr
                     \/ slot[j].hdr = slot[l].hdr /\ l <= j
    <3> SUFFICES ASSUME NEW j \in F
                 PROVE  \/ slot[j].hdr < slot[l].hdr
                        \/ slot[j].hdr = slot[l].hdr /\ l <= j
      OBVIOUS
    <3>1. CASE j = l
      BY <1>3, <3>1
    <3>2. CASE j # l
      BY <1>2, <3>2
    <3> QED BY <3>1, <3>2
  <2>2. /\ Latest(F) \in F
        /\ \A j \in F : \/ slot[j].hdr < slot[Latest(F)].hdr
                        \/ slot[j].hdr = slot[Latest(F)].hdr /\ Latest(F) <= j
    BY <1>1, <2>1 DEF Latest
  <2>3. ASSUME Latest(F) # l PROVE FALSE
    <3>1. slot[Latest(F)].hdr \in Nat /\ slot[Latest(F)].hdr < slot[l].hdr
      BY <1>2, <2>2, <2>3
    <3>2. \/ slot[l].hdr < slot[Latest(F)].hdr
          \/ slot[l].hdr = slot[Latest(F)].hdr
      BY <1>1, <2>2
    <3> QED BY <1>3, <3>1, <3>2
  <2> QED BY <2>3
<1>5. PICK t \in committed : Holds(l, t) /\ Behind(l, l) = Newer(committed, t)
  BY <1>1 DEF Ring, Found, F
<1>6. t = Newest
  BY <1>5, NewestIs, RingOrder DEF Setting
<1> QED BY <1>1, <1>4, <1>5, <1>6 DEF F

\* Before the first commit no slot is valid
LEMMA NothingToFind ==
  ASSUME Setting, SlotsTypeOK, NEW l \in Slots, NEW q \in 0 .. save, Ring(l, q),
         committed = {}
  PROVE  Found({}) = {}
BY DEF Found, Ring

\* Every valid slot holds a committed save
LEMMA FoundIsWhole ==
  ASSUME NEW l \in Slots, NEW q \in 0 .. save, Ring(l, q), NEW i \in Found({})
  PROVE  \E t \in committed : Holds(i, t)
BY DEF Found, Ring

\* A write that leaves the slot after l invalid, and its commit sector as it was,
\* does no harm to the ring
LEMMA RingKept ==
  ASSUME Setting, SlotsTypeOK, SlotsTypeOK', NEW l \in Slots, NEW q \in 0 .. save, Ring(l, q),
         committed' = committed, table' <= q,
         \/ slot' = slot
         \/ /\ \A i \in Slots \ {NextSlot(l)} : slot'[i] = slot[i]
            /\ slot'[NextSlot(l)].cmit = slot[NextSlot(l)].cmit
            /\ ~Valid(slot'[NextSlot(l)])
  PROVE  Ring(l, q)'
<1>1. CASE slot' = slot
  BY <1>1 DEF Ring, Holds
<1>2. CASE /\ \A i \in Slots \ {NextSlot(l)} : slot'[i] = slot[i]
           /\ slot'[NextSlot(l)].cmit = slot[NextSlot(l)].cmit
           /\ ~Valid(slot'[NextSlot(l)])
  <2> DEFINE n == NextSlot(l)
  <2>1. n \in Slots /\ n # l /\ Behind(n, l) = SlotCount - 1
    BY RingOrder DEF Setting
  <2>2. \A i \in Slots : i # n => \A t : Holds(i, t)' <=> Holds(i, t)
    BY <1>2 DEF Holds
  <2>3. \A i \in Slots : Valid(slot'[i]) => i # n /\ Valid(slot[i])
    BY <1>2
  <2>4. \A i \in Slots : slot'[i].cmit <= q
    BY <1>2, <2>1 DEF Ring
  <2>5. ASSUME NEW i \in Slots, Valid(slot'[i])
        PROVE  /\ slot'[i].hdr = q - Behind(i, l)
               /\ \E t \in committed :
                    Holds(i, t)' /\ Behind(i, l) = Newer(committed, t)
    BY <1>2, <2>2, <2>3, <2>5 DEF Ring
  <2>6. ASSUME NEW t \in committed, NEW i \in Slots,
               Behind(i, l) = Newer(committed, t), Newer(committed, t) < SlotCount - 1
        PROVE  Holds(i, t)'
    <3>1. i # n
      BY <2>1, <2>6, SlotsAssumption
    <3> QED BY <2>2, <2>6, <3>1 DEF Ring
  <2>7. IF committed = {} THEN q = 0 /\ l = SlotCount - 1
                          ELSE Valid(slot'[l]) /\ slot'[l].hdr = q
    BY <1>2, <2>1 DEF Ring
  <2> HIDE DEF n
  <2> QED BY <2>4, <2>5, <2>6, <2>7 DEF Ring
<1> QED BY <1>1, <1>2

\* The commit sector completes the slot after l, which becomes the newest
LEMMA RingCommitted ==
  ASSUME Setting, SlotsTypeOK, SlotsTypeOK', NEW l \in Slots, NEW q \in 0 .. save, Ring(l, q),
         Progress, step = "cmit", slot_idx = NextSlot(l), seq = q + 1,
         slot' = [slot EXCEPT ![slot_idx].cmit = seq],
         committed' = committed \cup {save}, table' = table, save' = save
  PROVE  Ring(NextSlot(l), q + 1)'
<1>0. PICK n \in Slots : n = NextSlot(l)
  BY RingOrder DEF Setting
<1>p. PICK p \in Nat : p = q + 1
  BY SlotsAssumption DEF SlotsTypeOK
<1>1. n \in Slots /\ n # l /\ Behind(n, l) = SlotCount - 1 /\ Behind(n, n) = 0
  <2>1. n \in Slots /\ n # l /\ Behind(n, l) = SlotCount - 1
    BY <1>0, RingOrder DEF Setting
  <2>2. Behind(n, n) = 0
    BY <2>1, RingOrder DEF Setting
  <2> QED BY <2>1, <2>2
<1>2. \A i \in Slots \ {n} : slot'[i] = slot[i] /\ Behind(i, n) = Behind(i, l) + 1
  BY <1>0, <1>1, RingOrder DEF Setting, SlotsTypeOK
<1>3. /\ slot'[n].cmit = p /\ slot'[n].hdr = p
      /\ \A b \in Sectors : slot'[n].pay[b] = save
  BY <1>0, <1>p, <1>1 DEF Progress, SlotsTypeOK
<1>4. save \in Nat /\ q \in Nat /\ save > 0 /\ \A t \in committed : t \in Nat /\ t < save
  <2>1. save \in Nat /\ q \in Nat /\ \A t \in committed : t \in Nat
    BY SlotsAssumption DEF SlotsTypeOK
  <2>2. save \notin committed /\ save > 0 /\ \A t \in committed : t <= save
    BY DEF Progress, Saving
  <2> QED BY <2>1, <2>2
<1>5. /\ Newer(committed', save) = 0
      /\ \A t \in committed : /\ Newer(committed, t) \in Nat
                              /\ Newer(committed', t) = Newer(committed, t) + 1
  <2>1. committed \in SUBSET (1 .. MaxSaves) /\ MaxSaves \in Nat
    BY SlotsAssumption DEF SlotsTypeOK
  <2> QED BY <1>4, <2>1, NewerCounts
<1>6. Holds(n, save)' /\ Valid(slot'[n])
  BY <1>p, <1>1, <1>3, <1>4, SectorsOfRegions DEF Holds, Valid
<1>7. \A i \in Slots : i # n => \A t : Holds(i, t)' <=> Holds(i, t)
  BY <1>2 DEF Holds
<1>8. \A i \in Slots : slot'[i].cmit <= p
  BY <1>p, <1>2, <1>3, <1>4 DEF Ring, SlotsTypeOK
<1>9. ASSUME NEW i \in Slots, Valid(slot'[i])
      PROVE  /\ slot'[i].hdr = p - Behind(i, n)
             /\ \E t \in committed' : Holds(i, t)' /\ Behind(i, n) = Newer(committed', t)
  <2>1. CASE i = n
    BY <1>1, <1>3, <1>4, <1>5, <1>6, <2>1
  <2>2. CASE i # n
    <3>1. Valid(slot[i]) /\ Behind(i, l) \in Nat
      BY <1>2, <1>9, <2>2, RingOrder DEF Setting
    <3>2. slot[i].hdr = q - Behind(i, l)
      BY <3>1 DEF Ring
    <3>3. PICK t \in committed : Holds(i, t) /\ Behind(i, l) = Newer(committed, t)
      BY <3>1 DEF Ring
    <3>4. Holds(i, t)' /\ Behind(i, n) = Newer(committed', t)
      BY <1>2, <1>5, <1>7, <2>2, <3>3
    <3>5. slot'[i].hdr = p - Behind(i, n)
      BY <1>p, <1>2, <1>4, <2>2, <3>1, <3>2
    <3> QED BY <3>4, <3>5
  <2> QED BY <2>1, <2>2
<1>10. ASSUME NEW t \in committed', NEW i \in Slots,
              Behind(i, n) = Newer(committed', t), Newer(committed', t) < SlotCount - 1
       PROVE  Holds(i, t)'
  <2>1. CASE t = save
    <3>1. Behind(i, n) = 0
      BY <1>5, <1>10, <2>1
    <3>2. i = n
      BY <1>1, <3>1, RingOrder DEF Setting
    <3> QED BY <1>6, <2>1, <3>2
  <2>2. CASE t # save
    <3>1. t \in committed /\ Newer(committed', t) = Newer(committed, t) + 1
      BY <1>5, <2>2
    <3>2. i # n
      BY <1>1, <1>5, <1>10, <3>1
    <3>3. Behind(i, l) = Newer(committed, t) /\ Newer(committed, t) < SlotCount - 1
      <4>1. Behind(i, l) \in Nat /\ Behind(i, n) = Behind(i, l) + 1
        BY <1>2, <3>2, RingOrder DEF Setting
      <4> QED BY <1>5, <1>10, <3>1, <4>1, SlotsAssumption
    <3> QED BY <1>7, <3>1, <3>2, <3>3 DEF Ring
  <2> QED BY <2>1, <2>2
<1>11. table' <= p
  BY <1>p, <1>4 DEF Ring, SlotsTypeOK
<1>12. committed' # {} /\ slot'[n].hdr = p
  BY <1>3
<1>13. Ring(n, p)'
  <2>1. IF committed' = {} THEN p = 0 /\ n = SlotCount - 1
                           ELSE Valid(slot'[n]) /\ slot'[n].hdr = p
    BY <1>6, <1>12
  <2>2. \A i \in Slots : Valid(slot'[i]) =>
          /\ slot'[i].hdr = p - Behind(i, n)
          /\ \E t \in committed' : Holds(i, t)' /\ Behind(i, n) = Newer(committed', t)
    BY <1>9
  <2>3. \A t \in committed', i \in Slots :
          Behind(i, n) = Newer(committed', t) /\ Newer(committed', t) < SlotCount - 1
            => Holds(i, t)'
    BY <1>10
  <2> QED BY <1>8, <1>11, <2>1, <2>2, <2>3 DEF Ring
<1> QED BY <1>0, <1>p, <1>13

-----------------------------------------------------------------------------
(* The invariant is inductive *)

\* Initially the ring is empty
LEMMA InitIInv == Setting /\ SlotsInit => IInv
<1> SUFFICES ASSUME Setting, SlotsInit PROVE IInv
  OBVIOUS
<1> USE SlotsAssumption DEF Setting, SlotsInit, EmptySlot, Slots
<1>1. SlotsTypeOK
  BY DEF SlotsTypeOK
<1>2. Progress /\ BootRestores
  BY DEF Progress, Saving, BootRestores, NotBooted
<1>3. Ring(SlotCount - 1, 0) /\ Aims(SlotCount - 1, 0)
  BY DEF Ring, Aims, Saving, Valid
<1>4. SlotCount - 1 \in Slots /\ 0 \in 0 .. save
  OBVIOUS
<1> QED BY <1>1, <1>2, <1>3, <1>4 DEF IInv

\* The number of slots a scan cannot read
LEMMA BadCount ==
  ASSUME NEW bad \in SUBSET Slots
  PROVE  Cardinality(bad) \in Nat /\ (Cardinality(bad) = 0 <=> bad = {})
<1>1. IsFiniteSet(Slots)
  BY FS_Interval, SlotsAssumption DEF Slots
<1>2. IsFiniteSet(bad)
  BY <1>1, FS_Subset
<1> QED BY <1>2, FS_CardinalityType, FS_EmptySet

\* Without read faults a scan reads every slot
LEMMA NoneBad ==
  ASSUME Setting, SlotsTypeOK, NEW bad \in SUBSET Slots, NEW n \in Nat,
         rfaults + Cardinality(bad) + n <= MaxReadFaults
  PROVE  bad = {} /\ n = 0
BY BadCount DEF Setting, SlotsTypeOK

\* A save begins in the slot after the newest, or in the first one
LEMMA SaveBeginStep ==
  ASSUME Setting, IInv, NEW bad \in SUBSET Slots, SaveBegin(bad)
  PROVE  IInv'
<1>1. SlotsTypeOK /\ Progress /\ BootRestores
  BY DEF IInv
<1>2. PICK l \in Slots, q \in 0 .. save : Ring(l, q) /\ Aims(l, q)
  BY DEF IInv
<1>3. save \in Nat /\ q \in Nat /\ q <= save /\ save < MaxSaves /\ MaxSaves \in Nat
  BY <1>1, SlotsAssumption DEF SlotsTypeOK, SaveBegin
<1>4. rfaults \in Nat /\ MaxReadFaults \in Nat
  BY <1>1, SlotsAssumption DEF SlotsTypeOK
<1>5. bad = {}
  <2>1. rfaults + Cardinality(bad) + 0 <= MaxReadFaults
    BY <1>4, BadCount DEF SaveBegin
  <2> QED BY <1>1, <2>1, NoneBad
<1>6. slot_idx' = NextSlot(l) /\ seq' = q + 1
  <2>1. CASE committed = {}
    <3>1. Found(bad) = {}
      BY <1>1, <1>2, <1>5, <2>1, NothingToFind
    <3>2. q = 0 /\ l = SlotCount - 1
      BY <1>2, <2>1 DEF Ring
    <3> QED BY <3>1, <3>2, RingOrder DEF SaveBegin, Setting
  <2>2. CASE committed # {}
    <3>1. Found(bad) # {} /\ Latest(Found(bad)) = l /\ slot[l].hdr = q
      BY <1>1, <1>2, <1>5, <2>2, ScanFindsNewest
    <3> QED BY <3>1 DEF SaveBegin, NextSeq
  <2> QED BY <2>1, <2>2
<1>7. slot_idx' \in Slots
  BY <1>6, RingOrder DEF Setting
<1>8. /\ slot' = slot /\ table' = table /\ wfaults' = wfaults /\ committed' = committed
      /\ save' = save + 1 /\ k' = 0 /\ step' = "hdr" /\ booted' = NotBooted
  BY DEF SaveBegin
<1>9. rfaults' = rfaults
  BY <1>4, <1>5, FS_EmptySet DEF SaveBegin
<1>10. SlotsTypeOK'
  BY <1>1, <1>3, <1>6, <1>7, <1>8, <1>9 DEF SlotsTypeOK
<1>11. Progress'
  <2>1. \A t \in committed : t \in Nat /\ t <= save
    BY <1>1 DEF SlotsTypeOK, Progress
  <2>2. \A i \in Slots : slot[i].hdr \in Nat /\ slot[i].hdr <= save
    BY <1>1 DEF SlotsTypeOK, Progress
  <2> QED BY <1>3, <1>6, <1>8, <2>1, <2>2 DEF Progress, Saving
<1>12. BootRestores'
  BY <1>8 DEF BootRestores, NotBooted
<1>13. Ring(l, q)'
  <2>1. table' <= q
    BY <1>2, <1>8 DEF Ring
  <2> QED BY <1>1, <1>2, <1>8, <1>10, <2>1, RingKept
<1>14. Aims(l, q)'
  BY <1>6, <1>8 DEF Aims, Saving, NextSlot
<1>15. q \in 0 .. save'
  BY <1>3, <1>8
<1> QED BY <1>10, <1>11, <1>12, <1>13, <1>14, <1>15 DEF IInv

\* The header sector: until the commit sector is written, the sequence number in
\* the header differs from the one in the commit sector
LEMMA WriteHdrStep ==
  ASSUME Setting, IInv, WriteHdr
  PROVE  IInv'
<1>1. SlotsTypeOK /\ Progress /\ BootRestores
  BY DEF IInv
<1>2. PICK l \in Slots, q \in 0 .. save : Ring(l, q) /\ Aims(l, q)
  BY DEF IInv
<1>3. step = "hdr" /\ slot_idx = NextSlot(l) /\ seq = q + 1
  BY <1>2 DEF WriteHdr, Aims, Saving
<1>4. /\ slot' \in {slot, [slot EXCEPT ![slot_idx].hdr = seq]}
      /\ committed' = committed /\ table' = table
      /\ save' = save /\ rfaults' = rfaults /\ booted' = booted
      /\ \/ /\ slot' = [slot EXCEPT ![slot_idx].hdr = seq] /\ wfaults' = wfaults
            /\ step' = "pay" /\ k' = 1 /\ slot_idx' = slot_idx /\ seq' = seq
         \/ /\ step' \in {"idle", "off"} /\ k' = 0 /\ slot_idx' = 0 /\ seq' = 0
            /\ wfaults' = wfaults + 1 /\ wfaults < MaxWriteFaults
  BY DEF WriteHdr, Sector
<1>5. SlotsTypeOK'
  <2>1. slot' \in [Slots -> [hdr : 0 .. MaxSaves, cmit : 0 .. MaxSaves,
                             pay : [Sectors -> 0 .. MaxSaves]]]
    BY <1>1, <1>4 DEF SlotsTypeOK
  <2>2. 0 \in Slots /\ 1 \in Sectors
    BY SlotsAssumption, SectorsOfRegions DEF Slots
  <2> QED BY <1>1, <1>4, <2>1, <2>2, SlotsAssumption DEF SlotsTypeOK
<1>6. \A i \in Slots : i # slot_idx => slot'[i] = slot[i]
  BY <1>4, <1>1 DEF SlotsTypeOK
<1>7. /\ slot'[slot_idx].cmit = slot[slot_idx].cmit
      /\ slot' = slot \/ slot'[slot_idx].hdr = seq
  BY <1>4, <1>1 DEF SlotsTypeOK
<1>8. Ring(l, q)'
  <2>1. slot_idx \in Slots /\ slot[slot_idx].cmit <= q /\ table' <= q
    BY <1>1, <1>2, <1>4 DEF Ring, SlotsTypeOK
  <2>2. slot' = slot \/ ~Valid(slot'[slot_idx])
    BY <1>1, <1>3, <1>7, <2>1 DEF Valid, SlotsTypeOK
  <2> QED BY <1>1, <1>2, <1>3, <1>4, <1>5, <1>6, <1>7, <2>1, <2>2, RingKept
<1>9. Aims(l, q)'
  BY <1>3, <1>4 DEF Aims, Saving, NextSlot
<1>10. Progress'
  <2>1. \A i \in Slots : slot'[i].hdr <= save
    BY <1>1, <1>4 DEF Progress, SlotsTypeOK
  <2>2. step' = "pay" => /\ slot'[slot_idx'].hdr = seq' /\ 1 \in Sectors
                       /\ k' = 1 /\ seq' <= save
    BY <1>1, <1>4, SectorsOfRegions DEF Progress, SlotsTypeOK
  <2>3. save > 0 /\ save \notin committed /\ booted = NotBooted
        /\ \A t \in committed : t <= save
    BY <1>1, <1>3 DEF Progress, Saving
  <2>4. seq' <= save'
    BY <1>1, <1>4, <2>2 DEF SlotsTypeOK
  <2> QED BY <1>4, <2>1, <2>2, <2>3, <2>4 DEF Progress, Saving
<1>11. BootRestores'
  BY <1>1, <1>3, <1>4 DEF Progress, Saving, BootRestores, NotBooted
<1> QED BY <1>4, <1>5, <1>8, <1>9, <1>10, <1>11 DEF IInv

\* The payload sectors, one after the other
LEMMA WritePayloadStep ==
  ASSUME Setting, IInv, WritePayload
  PROVE  IInv'
<1>1. SlotsTypeOK /\ Progress /\ BootRestores
  BY DEF IInv
<1>2. PICK l \in Slots, q \in 0 .. save : Ring(l, q) /\ Aims(l, q)
  BY DEF IInv
<1>3. step = "pay" /\ slot_idx = NextSlot(l) /\ seq = q + 1
  BY <1>2 DEF WritePayload, Aims, Saving
<1>4. /\ slot' \in {slot, [slot EXCEPT ![slot_idx].pay[k] = save]}
      /\ committed' = committed /\ table' = table
      /\ save' = save /\ rfaults' = rfaults /\ booted' = booted
      /\ \/ /\ slot' = [slot EXCEPT ![slot_idx].pay[k] = save] /\ wfaults' = wfaults
            /\ IF k = PAYE THEN step' = "cmit" /\ k' = 0 ELSE step' = step /\ k' = k + 1
            /\ slot_idx' = slot_idx /\ seq' = seq
         \/ /\ step' \in {"idle", "off"} /\ k' = 0 /\ slot_idx' = 0 /\ seq' = 0
            /\ wfaults' = wfaults + 1 /\ wfaults < MaxWriteFaults
  BY DEF WritePayload, Sector
<1>5. /\ k \in Sectors /\ k \in Nat /\ PAYE \in Nat /\ Sectors = 1 .. PAYE
      /\ \A b \in 1 .. k - 1 : slot[slot_idx].pay[b] = save
      /\ slot_idx \in Slots /\ slot[slot_idx].hdr = seq /\ 0 \in Slots
  <2>1. Sectors = 1 .. PAYE /\ PAYE \in Nat
    BY SectorsOfRegions DEF Sectors, PAYE
  <2> QED BY <1>1, <1>3, <2>1, SlotsAssumption DEF Progress, SlotsTypeOK, Slots
<1>6. /\ slot' \in [Slots -> [hdr : 0 .. MaxSaves, cmit : 0 .. MaxSaves,
                              pay : [Sectors -> 0 .. MaxSaves]]]
      /\ \A i \in Slots : i # slot_idx => slot'[i] = slot[i]
      /\ slot'[slot_idx].cmit = slot[slot_idx].cmit /\ slot'[slot_idx].hdr = seq
      /\ \A b \in Sectors : b # k => slot'[slot_idx].pay[b] = slot[slot_idx].pay[b]
  <2>1. CASE slot' = slot
    BY <1>1, <1>5, <2>1 DEF SlotsTypeOK
  <2>2. CASE slot' = [slot EXCEPT ![slot_idx].pay[k] = save]
    <3>1. slot[slot_idx] \in [hdr : 0 .. MaxSaves, cmit : 0 .. MaxSaves,
                              pay : [Sectors -> 0 .. MaxSaves]]
      BY <1>1, <1>5 DEF SlotsTypeOK
    <3>2. save \in 0 .. MaxSaves
      BY <1>1 DEF SlotsTypeOK
    <3>3. [slot[slot_idx].pay EXCEPT ![k] = save] \in [Sectors -> 0 .. MaxSaves]
      BY <1>5, <3>1, <3>2
    <3>4. [slot[slot_idx] EXCEPT !.pay[k] = save]
            \in [hdr : 0 .. MaxSaves, cmit : 0 .. MaxSaves,
                 pay : [Sectors -> 0 .. MaxSaves]]
      BY <3>1, <3>3
    <3>5. slot' \in [Slots -> [hdr : 0 .. MaxSaves, cmit : 0 .. MaxSaves,
                               pay : [Sectors -> 0 .. MaxSaves]]]
      BY <1>1, <1>5, <2>2, <3>4 DEF SlotsTypeOK
    <3>6. \A i \in Slots : i # slot_idx => slot'[i] = slot[i]
      BY <1>1, <2>2 DEF SlotsTypeOK
    <3>7. slot'[slot_idx] = [slot[slot_idx] EXCEPT !.pay[k] = save]
      BY <1>1, <1>5, <2>2 DEF SlotsTypeOK
    <3>8. /\ slot'[slot_idx].cmit = slot[slot_idx].cmit /\ slot'[slot_idx].hdr = seq
          /\ \A b \in Sectors : b # k => slot'[slot_idx].pay[b] = slot[slot_idx].pay[b]
      BY <1>5, <3>1, <3>7
    <3> QED BY <3>5, <3>6, <3>8
  <2> QED BY <1>4, <2>1, <2>2
<1>7. SlotsTypeOK'
  <2>1. k' \in Sectors \cup {0}
    BY <1>4, <1>5
  <2>2. wfaults' \in 0 .. MaxWriteFaults /\ seq' \in 0 .. MaxSaves
    BY <1>1, <1>4, SlotsAssumption DEF SlotsTypeOK
  <2>3. step' \in {"pay", "cmit", "idle", "off"} /\ slot_idx' \in Slots
    BY <1>3, <1>4, <1>5
  <2> QED BY <1>1, <1>4, <1>6, <2>1, <2>2, <2>3 DEF SlotsTypeOK
<1>8. Ring(l, q)'
  <2>1. slot[slot_idx].cmit <= q /\ table' <= q
    BY <1>1, <1>2, <1>4, <1>5 DEF Ring, SlotsTypeOK
  <2>2. slot[slot_idx].cmit \in Nat /\ q \in Nat
    BY <1>1, <1>5, SlotsAssumption DEF SlotsTypeOK
  <2>3. ~Valid(slot'[slot_idx])
    BY <1>3, <1>6, <2>1, <2>2 DEF Valid
  <2> QED BY <1>1, <1>2, <1>3, <1>4, <1>6, <1>7, <2>1, <2>3, RingKept
<1>9. Aims(l, q)'
  BY <1>3, <1>4 DEF Aims, Saving, NextSlot
<1>10. Progress'
  <2>1. \A i \in Slots : slot'[i].hdr <= save
    BY <1>1, <1>5, <1>6 DEF Progress, SlotsTypeOK
  <2>2. save > 0 /\ save \notin committed /\ booted = NotBooted
        /\ seq <= save /\ \A t \in committed : t <= save
    BY <1>1, <1>3 DEF Progress, Saving
  <2>3. seq' <= save'
    BY <1>1, <1>4, <2>2 DEF SlotsTypeOK
  <2>4. step' \in {"pay", "cmit"} =>
          /\ slot'[slot_idx'].hdr = seq'
          /\ \A b \in 1 .. k : slot'[slot_idx'].pay[b] = save
    <3> SUFFICES ASSUME step' \in {"pay", "cmit"}
                 PROVE  /\ slot'[slot_idx'].hdr = seq'
                        /\ \A b \in 1 .. k : slot'[slot_idx'].pay[b] = save
      OBVIOUS
    <3>1. slot_idx' = slot_idx /\ seq' = seq /\ slot' = [slot EXCEPT ![slot_idx].pay[k] = save]
      BY <1>4
    <3>2. slot'[slot_idx].pay[k] = save
      BY <1>1, <1>5, <3>1 DEF SlotsTypeOK
    <3> QED BY <1>5, <1>6, <3>1, <3>2
  <2>5. step' = "pay" => k' = k + 1 /\ k' \in Sectors /\ 1 .. k' - 1 = 1 .. k
    BY <1>4, <1>5
  <2>6. step' = "cmit" => Sectors = 1 .. k
    BY <1>3, <1>4, <1>5
  <2>7. step' \in {"pay", "cmit", "idle", "off"}
    BY <1>3, <1>4
  <2> QED BY <1>4, <2>1, <2>2, <2>3, <2>4, <2>5, <2>6, <2>7 DEF Progress, Saving
<1>11. BootRestores'
  BY <1>1, <1>3, <1>4 DEF Progress, Saving, BootRestores, NotBooted
<1> QED BY <1>4, <1>7, <1>8, <1>9, <1>10, <1>11 DEF IInv

\* The commit sector makes the slot the newest of the ring
LEMMA WriteCommitStep ==
  ASSUME Setting, IInv, WriteCommit
  PROVE  IInv'
<1>1. SlotsTypeOK /\ Progress /\ BootRestores
  BY DEF IInv
<1>2. PICK l \in Slots, q \in 0 .. save : Ring(l, q) /\ Aims(l, q)
  BY DEF IInv
<1>3. step = "cmit" /\ slot_idx = NextSlot(l) /\ seq = q + 1
  BY <1>2 DEF WriteCommit, Aims, Saving
<1>4. /\ \/ /\ slot' = [slot EXCEPT ![slot_idx].cmit = seq]
            /\ committed' = committed \cup {save}
         \/ /\ slot' = slot /\ committed' = committed /\ step' # "table"
      /\ table' = table /\ save' = save /\ rfaults' = rfaults /\ booted' = booted
      /\ \/ /\ step' = "table" /\ k' = k /\ slot_idx' = slot_idx /\ seq' = seq
            /\ wfaults' = wfaults
         \/ /\ step' \in {"idle", "off"} /\ k' = 0 /\ slot_idx' = 0 /\ seq' = 0
            /\ wfaults' = wfaults + 1 /\ wfaults < MaxWriteFaults
  BY DEF WriteCommit, Sector, locals
<1>5. /\ slot_idx \in Slots /\ 0 \in Slots /\ save \in Nat /\ save <= MaxSaves
      /\ save > 0 /\ seq <= save /\ seq \in Nat
      /\ booted = NotBooted /\ \A t \in committed : t <= save
  BY <1>1, <1>3, SlotsAssumption DEF SlotsTypeOK, Progress, Saving, Slots
<1>6. /\ slot' \in [Slots -> [hdr : 0 .. MaxSaves, cmit : 0 .. MaxSaves,
                              pay : [Sectors -> 0 .. MaxSaves]]]
      /\ \A i \in Slots : slot'[i].hdr = slot[i].hdr
  <2>1. CASE slot' = slot
    BY <1>1, <2>1 DEF SlotsTypeOK
  <2>2. CASE slot' = [slot EXCEPT ![slot_idx].cmit = seq]
    BY <1>1, <1>5, <2>2 DEF SlotsTypeOK
  <2> QED BY <1>4, <2>1, <2>2
<1>7. SlotsTypeOK'
  <2>1. committed' \in SUBSET (1 .. MaxSaves)
    BY <1>1, <1>4, <1>5, SlotsAssumption DEF SlotsTypeOK
  <2> QED BY <1>1, <1>4, <1>5, <1>6, <2>1, SlotsAssumption DEF SlotsTypeOK
<1>8. Progress'
  <2>1. \A i \in Slots : slot'[i].hdr <= save
    BY <1>1, <1>6 DEF Progress
  <2>2. \A t \in committed' : t <= save
    BY <1>4, <1>5
  <2>3. seq' <= save
    BY <1>4, <1>5
  <2> QED BY <1>4, <1>5, <2>1, <2>2, <2>3 DEF Progress, Saving
<1>9. BootRestores'
  BY <1>4, <1>5 DEF BootRestores, NotBooted
<1>10. CASE slot' = slot /\ committed' = committed /\ step' # "table"
  <2>1. Ring(l, q)'
    <3>1. table' <= q
      BY <1>2, <1>4 DEF Ring
    <3> QED BY <1>1, <1>2, <1>7, <1>10, <3>1, RingKept
  <2>2. Aims(l, q)'
    BY <1>4, <1>10 DEF Aims, Saving
  <2> QED BY <1>4, <1>7, <1>8, <1>9, <2>1, <2>2 DEF IInv
<1>11. CASE /\ slot' = [slot EXCEPT ![slot_idx].cmit = seq]
            /\ committed' = committed \cup {save}
  <2>1. Ring(NextSlot(l), q + 1)'
    BY <1>1, <1>2, <1>3, <1>4, <1>7, <1>11, RingCommitted
  <2>2. PICK n \in Slots, p \in 0 .. save : n = NextSlot(l) /\ p = q + 1
    BY <1>3, <1>5
  <2>3. Ring(n, p)'
    BY <2>1, <2>2
  <2>4. Aims(n, p)'
    BY <1>3, <1>4, <2>2 DEF Aims, Saving
  <2> QED BY <1>4, <1>7, <1>8, <1>9, <2>3, <2>4 DEF IInv
<1> QED BY <1>4, <1>10, <1>11

\* Steps that leave the slots and the set of committed saves alone
LEMMA QuietStep ==
  ASSUME Setting, IInv, SlotsTypeOK', BootRestores',
         slot' = slot, committed' = committed, save' = save,
         \/ table' = table
         \/ step = "table" /\ table' = seq,
         seq' <= save, step' \notin {"hdr", "pay", "cmit", "table"}
  PROVE  IInv'
<1>1. SlotsTypeOK /\ Progress
  BY DEF IInv
<1>2. PICK l \in Slots, q \in 0 .. save : Ring(l, q) /\ Aims(l, q)
  BY DEF IInv
<1>3. table' <= q
  BY <1>1, <1>2 DEF Ring, Aims, SlotsTypeOK
<1>4. Ring(l, q)'
  BY <1>1, <1>2, <1>3, RingKept
<1>5. Aims(l, q)' /\ Progress'
  BY <1>1 DEF Aims, Progress, Saving
<1> QED BY <1>4, <1>5 DEF IInv

\* The disk table is written after the commit sector
LEMMA WriteTableStep ==
  ASSUME Setting, IInv, WriteTable
  PROVE  IInv'
<1>1. SlotsTypeOK /\ Progress /\ BootRestores /\ step = "table"
  BY DEF IInv, WriteTable
<1>2. /\ slot' = slot /\ committed' = committed /\ save' = save /\ rfaults' = rfaults
      /\ booted' = booted /\ table' \in {table, seq}
      /\ step' \in {"idle", "off"} /\ slot_idx' = 0 /\ seq' = 0 /\ k' = 0
      /\ \/ wfaults' = wfaults
         \/ wfaults' = wfaults + 1 /\ wfaults < MaxWriteFaults
  BY DEF WriteTable, Sector
<1>3. 0 \in Slots /\ seq' \in 0 .. MaxSaves /\ wfaults' \in 0 .. MaxWriteFaults
  BY <1>1, <1>2, SlotsAssumption DEF Slots, SlotsTypeOK
<1>4. SlotsTypeOK'
  BY <1>1, <1>2, <1>3 DEF SlotsTypeOK
<1>5. BootRestores'
  BY <1>1, <1>2 DEF Progress, BootRestores, NotBooted
<1>6. seq' <= save
  BY <1>1, <1>2 DEF SlotsTypeOK
<1> QED BY <1>1, <1>2, <1>4, <1>5, <1>6, QuietStep

\* A reset and a fresh boot change nothing on the card
LEMMA ResetStep ==
  ASSUME Setting, IInv, SlotsReset \/ BootFresh
  PROVE  IInv'
<1>1. SlotsTypeOK /\ Progress /\ BootRestores
  BY DEF IInv
<1>2. /\ slot' = slot /\ committed' = committed /\ save' = save /\ rfaults' = rfaults
      /\ wfaults' = wfaults /\ table' = table
      /\ slot_idx' = slot_idx /\ seq' = seq /\ k' = k /\ step' \in {"idle", "off"}
  BY DEF SlotsReset, BootFresh, locals
<1>3. SlotsTypeOK'
  BY <1>1, <1>2 DEF SlotsTypeOK
<1>4. BootRestores'
  <2>1. Newest' = Newest
    BY <1>2 DEF Newest
  <2> QED BY <1>1, <2>1 DEF SlotsReset, BootFresh, BootRestores
<1>5. seq' <= save
  BY <1>1, <1>2 DEF Progress
<1> QED BY <1>2, <1>3, <1>4, <1>5, QuietStep

\* A restore finds the save it was asked for and can read it
LEMMA BootRestoreStep ==
  ASSUME Setting, IInv, NEW want \in Slots \cup {SlotCount}, NEW bad \in SUBSET Slots,
         NEW unread \in BOOLEAN, BootRestore(want, bad, unread)
  PROVE  IInv'
<1>1. SlotsTypeOK /\ Progress /\ BootRestores
  BY DEF IInv
<1>2. PICK l \in Slots, q \in 0 .. save : Ring(l, q) /\ Aims(l, q)
  BY DEF IInv
<1>3. rfaults \in Nat /\ MaxReadFaults \in Nat
  BY <1>1, SlotsAssumption DEF SlotsTypeOK
<1>4. bad = {} /\ unread = FALSE
  <2> DEFINE n == IF unread THEN 1 ELSE 0
  <2>1. n \in Nat /\ (n = 0 => unread = FALSE)
    OBVIOUS
  <2>2. rfaults + Cardinality(bad) + n <= MaxReadFaults
    BY DEF BootRestore
  <2> HIDE DEF n
  <2> QED BY <1>1, <2>1, <2>2, NoneBad
<1>5. committed # {} /\ Found({}) # {} /\ want \in Found({}) \cup {SlotCount}
  BY <1>1, <1>2, NothingToFind DEF BootRestore
<1>6. l \in Found({}) /\ Latest(Found({})) = l /\ Holds(l, Newest)
  BY <1>1, <1>2, <1>5, ScanFindsNewest
<1>7. PICK c : c = Candidate(want, bad)
  OBVIOUS
<1>8. PICK t : c \in Slots /\ Holds(c, t) /\ (want \in Found({}) => c = want)
                 /\ (want \notin Found({}) => t = Newest)
  <2>1. CASE want \in Found({})
    <3>1. c = want /\ c \in Slots
      BY <1>4, <1>7, <2>1 DEF Candidate, Found
    <3> QED BY <1>2, <2>1, <3>1, FoundIsWhole
  <2>2. CASE want \notin Found({})
    BY <1>4, <1>6, <1>7, <2>2 DEF Candidate
  <2> QED BY <2>1, <2>2
<1>9. Restorable(slot[c]) /\ Image(slot[c]) = {t}
  BY <1>8, HeldIsRestorable
<1>10. want = SlotCount => want \notin Found({})
  BY SlotsAssumption DEF Found, Slots
<1>11. /\ booted' = [how |-> IF want = SlotCount THEN "recent" ELSE "chosen",
                     asked |-> IF want = SlotCount THEN {} ELSE Image(slot[want]),
                     image |-> Image(slot[c])]
       /\ step' = "idle"
  BY <1>4, <1>5, <1>7, <1>9 DEF BootRestore
<1>12. /\ slot' = slot /\ committed' = committed /\ save' = save
       /\ wfaults' = wfaults /\ table' = table
       /\ slot_idx' = slot_idx /\ seq' = seq /\ k' = k
  BY DEF BootRestore, locals
<1>13. rfaults' = rfaults
  BY <1>3, <1>4, BadCount DEF BootRestore
<1>14. SlotsTypeOK'
  BY <1>1, <1>11, <1>12, <1>13 DEF SlotsTypeOK
<1>15. BootRestores'
  <2>1. Newest' = Newest
    BY <1>12 DEF Newest
  <2>2. CASE want = SlotCount
    BY <1>8, <1>9, <1>10, <1>11, <2>1, <2>2 DEF BootRestores
  <2>3. CASE want # SlotCount
    BY <1>5, <1>8, <1>9, <1>11, <2>3 DEF BootRestores
  <2> QED BY <2>2, <2>3
<1>16. seq' <= save
  BY <1>1, <1>12 DEF Progress
<1> QED BY <1>11, <1>12, <1>14, <1>15, <1>16, QuietStep

\* Every step preserves the invariant
LEMMA StepIInv == Setting /\ IInv /\ [SlotsNext]_slotsVars => IInv'
<1> SUFFICES ASSUME Setting, IInv, [SlotsNext]_slotsVars PROVE IInv'
  OBVIOUS
<1>1. CASE UNCHANGED slotsVars
  <2>1. /\ slot' = slot /\ step' = step /\ slot_idx' = slot_idx /\ seq' = seq /\ k' = k
        /\ table' = table /\ save' = save /\ wfaults' = wfaults /\ rfaults' = rfaults
        /\ committed' = committed /\ booted' = booted
    BY <1>1 DEF slotsVars, locals
  <2>2. SlotsTypeOK' /\ Progress' /\ BootRestores'
    BY <2>1 DEF IInv, SlotsTypeOK, Progress, Saving, BootRestores, Newest
  <2>3. PICK l \in Slots, q \in 0 .. save : Ring(l, q) /\ Aims(l, q)
    BY DEF IInv
  <2>4. Ring(l, q)' /\ Aims(l, q)'
    BY <2>1, <2>3 DEF Ring, Aims, Saving, Holds, NextSlot
  <2> QED BY <2>1, <2>2, <2>4 DEF IInv
<1> QED
  BY <1>1, SaveBeginStep, WriteHdrStep, WritePayloadStep, WriteCommitStep,
     WriteTableStep, ResetStep, BootRestoreStep DEF SlotsNext

\* The invariant holds in every behaviour
LEMMA AlwaysIInv == ASSUME Setting PROVE SlotsSpec => []IInv
<1>1. SlotsInit => IInv
  BY InitIInv
<1>2. IInv /\ [SlotsNext]_slotsVars => IInv'
  BY StepIInv
<1> QED BY <1>1, <1>2, PTL DEF SlotsSpec

-----------------------------------------------------------------------------
(* What the boot menu can rely on *)

\* Wherever a sector write fails or power is lost, a slot that the boot menu takes
\* for valid holds the image of one save, and a restore succeeds and gives back the
\* save it was asked for (docs/snapshot.md: "This makes interrupted writes
\* auto-skippable.").
THEOREM SlotsNeverTorn == ASSUME Setting PROVE SlotsSpec => []ImagesSound
<1>1. IInv => ImagesSound
  <2> SUFFICES ASSUME IInv PROVE ImagesSound
    OBVIOUS
  <2>1. SlotsTypeOK /\ BootRestores
    BY DEF IInv
  <2>2. PICK l \in Slots, q \in 0 .. save : Ring(l, q)
    BY DEF IInv
  <2>3. NoTornImage
    <3> SUFFICES ASSUME NEW i \in Found({}) PROVE Cardinality(Image(slot[i])) = 1
      BY DEF NoTornImage
    <3>1. i \in Slots
      BY DEF Found
    <3> QED BY <2>2, <3>1, FoundIsWhole, HeldIsRestorable
  <2> QED BY <2>1, <2>3 DEF ImagesSound
<1> QED BY <1>1, AlwaysIInv, PTL

\* At every moment "recent" means the newest save whose commit sector reached the
\* card, complete and restorable, also while the next save is being written.
THEOREM RecentNeverLost == ASSUME Setting PROVE SlotsSpec => []RecentIsNewest
<1>1. IInv => RecentIsNewest
  <2> SUFFICES ASSUME IInv, committed # {}
               PROVE  /\ Found({}) # {} /\ Latest(Found({})) \in Complete
                      /\ Image(slot[Latest(Found({}))]) = {Newest}
    BY DEF RecentIsNewest
  <2>1. PICK l \in Slots, q \in 0 .. save : Ring(l, q) /\ SlotsTypeOK
    BY DEF IInv
  <2>2. l \in Found({}) /\ Latest(Found({})) = l /\ Holds(l, Newest)
    BY <2>1, ScanFindsNewest
  <2> QED BY <2>2, HeldIsRestorable DEF Complete
<1> QED BY <1>1, AlwaysIInv, PTL

\* A save consumes the oldest slot and no other: all but one of the slots hold the
\* newest committed saves, whatever failed in between.
THEOREM RingRetains == ASSUME Setting PROVE SlotsSpec => []Retention
<1>1. IInv => Retention
  <2> SUFFICES ASSUME IInv, NEW t \in committed, Newer(committed, t) < SlotCount - 1
               PROVE  \E i \in Complete : Image(slot[i]) = {t}
    BY DEF Retention, Newer
  <2>1. SlotsTypeOK
    BY DEF IInv
  <2>2. PICK l \in Slots, q \in 0 .. save : Ring(l, q)
    BY DEF IInv
  <2>3. Newer(committed, t) \in 0 .. SlotCount - 1
    <3>1. committed \in SUBSET (1 .. MaxSaves) /\ MaxSaves \in Nat
      BY <2>1, SlotsAssumption DEF SlotsTypeOK
    <3>2. Newer(committed, t) \in Nat
      BY <3>1, NewerCounts
    <3> QED BY <3>2, SlotsAssumption
  <2>4. PICK i \in Slots : Behind(i, l) = Newer(committed, t)
    BY <2>3, SlotBehind
  <2>5. Holds(i, t)
    BY <2>2, <2>4 DEF Ring
  <2>6. i \in Complete /\ Image(slot[i]) = {t}
    BY <2>5, HeldIsRestorable DEF Complete, Found, Holds
  <2> QED BY <2>6
<1> QED BY <1>1, AlwaysIInv, PTL

\* rwos_disk_set_last_snap never announces a snapshot that is not on the card
\* (docs/snapshot.md: "publish snap_seq only after payload + commit marker are
\* durable").
THEOREM PublishedAfterDurable == ASSUME Setting PROVE SlotsSpec => []PublishedIsDurable
<1>1. IInv => PublishedIsDurable
  <2> SUFFICES ASSUME IInv, table # 0 PROVE \E i \in Complete : slot[i].hdr >= table
    BY DEF PublishedIsDurable
  <2>1. SlotsTypeOK
    BY DEF IInv
  <2>2. PICK l \in Slots, q \in 0 .. save : Ring(l, q)
    BY DEF IInv
  <2>3. table \in Nat /\ q \in Nat /\ table <= q /\ committed # {}
    BY <2>1, <2>2, SlotsAssumption DEF Ring, SlotsTypeOK
  <2>4. l \in Found({}) /\ slot[l].hdr = q /\ Holds(l, Newest)
    BY <2>1, <2>2, <2>3, ScanFindsNewest
  <2>5. l \in Complete
    BY <2>4, HeldIsRestorable DEF Complete
  <2> QED BY <2>3, <2>4, <2>5
<1> QED BY <1>1, AlwaysIInv, PTL

-----------------------------------------------------------------------------
(* The disk table and the boot flow: the inductive invariant *)

\* An area for the journal and one for the slots, after the table and on the card,
\* with room for files behind them
Fits(t) ==
  /\ 2 < t.jstart /\ t.jstart + t.jblocks <= t.start /\ 32 <= t.start
  /\ t.per >= 2 /\ t.blocks = t.slots * t.per /\ t.start + t.blocks < card

Tables ==
  {t \in [fmt : {"RWDI", "RWSS"}, gen : 1 .. GenMax, jstart : Nat, jblocks : Nat,
          start : Nat, slots : 1 .. 64, per : Nat, blocks : Nat, rwfs : Nat,
          target : TargetsPossible, last : 0 .. MaxSnapshots] :
     Fits(t) /\ t.rwfs = IF t.fmt = "RWSS" THEN 0 ELSE t.start + t.blocks}

MaybeTable == Tables \cup {None}

Rams == {r \in [valid : BOOLEAN, t : MaybeTable] : r.valid => r.t # None}

Snaps(n) == [lba : Nat, per : Nat, slot : 0 .. 63, seq : 1 .. n, id : 1 .. n, torn : BOOLEAN,
             ram : Rams]

\* What the menu may list after n saves
Lists(n) == {x \in Seq(Snaps(n)) : Len(x) <= 3}

Pages == [kind : {"clear"}] \cup [kind : {"resume"}, seq : Nat, jstart : Nat]
         \cup [kind : {"cfg"}, ckptint : Intervals]

BootPcs == {"reset", "menu", "setup", "forced", "shell", "restore", "restored", "jump", "app"}

\* The same areas
SameLayout(a, b) ==
  /\ a.jstart = b.jstart /\ a.jblocks = b.jblocks /\ a.start = b.start
  /\ a.slots = b.slots /\ a.per = b.per /\ a.blocks = b.blocks

\* The same but for the last snapshot, the generation and the format
Like(a, b) == SameLayout(a, b) /\ a.target = b.target

BootTypes ==
  /\ lba \in [Copies -> MaybeTable]
  /\ saves \in 0 .. MaxSnapshots /\ snaps \in SUBSET Snaps(saves)
  /\ \A x, y \in snaps : x.lba = y.lba => x = y
  /\ pc \in BootPcs /\ page \in Pages
  /\ sram \in 0 .. saves /\ pick \in 0 .. saves /\ ram \in Rams
  /\ st \in [ok : BOOLEAN, magic : BOOLEAN, list : Lists(saves)]
  /\ faults \in 0 .. MaxFaults /\ report \in {"ok", "err"} /\ blind \in BOOLEAN
  /\ unfinished \in BOOLEAN /\ formatted \in 0 .. saves

\* Copy A is written first.  As long as every writer has seen the table that it
\* replaces, it is a later one than copy B or the same.
Mirrored ==
  /\ lba["A"] = None => lba["B"] = None
  /\ ~blind => lba["A"] = lba["B"] \/ lba["A"].gen > lba["B"].gen
  /\ lba["B"] = None => formatted = 0
  /\ st.magic \/ st.list # <<>> => lba["A"] # None

\* Without a format that failed half-way both copies have the same areas
OneLayout ==
  ~unfinished => \/ lba["A"] = None /\ lba["B"] = None
                 \/ lba["A"] # None /\ lba["B"] # None /\ SameLayout(lba["A"], lba["B"])

\* The application's table is that of a copy, but for what it has changed itself
AppTable ==
  pc = "app" /\ ram.valid =>
    /\ \E c \in Copies : lba[c] # None /\ Like(ram.t, lba[c])
    /\ ~blind => ram.t.gen >= lba["B"].gen

\* The menu's list is that of the slots on the card
ListOK ==
  pc \in {"menu", "restore", "restored"} /\ ~unfinished /\ st.list # <<>> =>
    st.list = boot_snapshot_scan(lba["A"])

\* What can be resumed was saved after the last format
Remembered == ~blind /\ ~unfinished /\ lba["A"] # None => \A s \in ValidSlots(lba["A"]) : s.id > formatted

\* A restored image is the one asked for, and not older than the last format
Image_OK ==
  /\ asked.how \in {"recent", "snapshot"} /\ asked.ckptint = "default"
  /\ ~unfinished => sram = asked.id /\ (~blind => sram > formatted)

\* On the way from the menu to the application
OnTheWay ==
  /\ pc \in {"restore", "restored"} => lba["A"] # None /\ lba["A"] = lba["B"]
  /\ pc = "restore" =>
       /\ asked.how \in {"recent", "snapshot"} /\ asked.ckptint = "default"
       /\ ~unfinished => \A s \in Candidates(lba["A"]) : s.id = asked.id
  /\ pc = "restored" => Image_OK
  /\ pc = "jump" =>
       \/ page.kind = "clear" /\ asked.how = "fresh" /\ asked.ckptint = "default"
       \/ page.kind = "cfg" /\ asked.how = "fresh" /\ asked.ckptint = page.ckptint
       \/ /\ page.kind = "resume" /\ Image_OK
          /\ \A c \in Copies : lba[c] # None /\ lba[c].jstart = page.jstart

\* The parts about the card and about the programs
CardOK == Mirrored /\ OneLayout /\ Remembered
FlowOK == AppTable /\ ListOK /\ OnTheWay /\ JournalAreaAgrees /\ StartSound

BootInv == BootTypes /\ CardOK /\ FlowOK

-----------------------------------------------------------------------------
(* Layouts *)

\* The areas of a card, without the rest of a table
Areas ==
  {l \in [jstart : Nat, jblocks : Nat, start : Nat, slots : 1 .. 64, per : Nat, blocks : Nat] :
     Fits(l)}

\* A quotient, taken as many times, is not more than the whole
LEMMA Quotient ==
  ASSUME NEW a \in Nat, NEW n \in Nat \ {0}, 2 * n <= a
  PROVE  a \div n \in Nat /\ a \div n >= 2 /\ (a \div n) * n = n * (a \div n) /\ (a \div n) * n <= a
<1>1. a \div n \in Nat /\ a = n * (a \div n) + (a % n) /\ a % n \in Nat /\ a % n < n
  OBVIOUS
<1> DEFINE q == a \div n
<1>2. q \in Nat /\ a - n * q >= 0 /\ a - n * q < n
  BY <1>1
<1> HIDE DEF q
<1>3. q >= 2
  <2>1. CASE q = 0
    BY <1>2, <2>1
  <2>2. CASE q = 1
    BY <1>2, <2>2
  <2> QED BY <1>2, <2>1, <2>2
<1>4. n * q = q * n
  BY <1>2
<1>5. n * q \in Nat
  BY <1>2
<1>6. q * n <= a
  BY <1>2, <1>4, <1>5
<1> QED BY <1>2, <1>3, <1>4, <1>6 DEF q

\* boot_snapshot_layout_compute divides the card into areas that do not overlap
LEMMA ComputedFits ==
  ASSUME NEW n \in SlotChoices, boot_snapshot_layout_compute(n) # None
  PROVE  boot_snapshot_layout_compute(n) \in Areas
<1> DEFINE want == u32_max(percent(card, 25), 2048)
           snap == IF want > max_snap THEN max_snap ELSE want
           q == snap \div n
           jb == IF journal_area > 128 THEN 128 ELSE journal_area
           l == [jstart |-> admin_blocks, jblocks |-> jb, start |-> snap_start,
                 slots |-> n, per |-> q, blocks |-> q * n]
<1>1. card \in Nat /\ n \in 1 .. 64
  BY BootDiskAssumption
<1>2. \A x \in Nat : align_up(x, 32) \in Nat
  BY DEF align_up
<1>3. \A x \in Nat : percent(x, 5) \in Nat /\ percent(x, 25) \in Nat
  BY DEF percent
<1>4. admin_blocks \in Nat /\ admin_blocks >= 32
  <2>1. card \div 4096 \in Nat
    BY <1>1
  <2> QED BY <1>2, <2>1 DEF admin_blocks, u32_max
<1>5. journal_area \in Nat /\ journal_area >= 32
  BY <1>1, <1>2, <1>3 DEF journal_area, u32_max
<1>6. want \in Nat
  BY <1>1, <1>3 DEF u32_max
<1>7. ~(card <= snap_start + 2048) /\ ~(snap < n * 2) /\ boot_snapshot_layout_compute(n) = l
  BY DEF boot_snapshot_layout_compute
<1>8. snap_start \in Nat /\ snap_start = admin_blocks + journal_area /\ snap_start >= 64
  BY <1>4, <1>5 DEF snap_start
<1>9. max_snap \in Nat /\ max_snap = card - snap_start - 2048
  BY <1>1, <1>7, <1>8 DEF max_snap
<1>10. snap \in Nat /\ snap <= max_snap
  BY <1>6, <1>9
<1>11. jb \in Nat /\ jb <= journal_area
  BY <1>5
<1>12. 2 * n <= snap
  BY <1>1, <1>7, <1>10
<1> HIDE DEF want, snap, jb
<1>13. q \in Nat /\ q >= 2 /\ q * n = n * q /\ q * n <= snap /\ q * n \in Nat
  <2>1. n \in Nat \ {0}
    BY <1>1
  <2>2. snap \div n \in Nat /\ snap \div n >= 2 /\ (snap \div n) * n = n * (snap \div n) /\ (snap \div n) * n <= snap
    BY <1>10, <1>12, <2>1, Quotient
  <2> HIDE DEF q
  <2>3. q \in Nat /\ q >= 2 /\ q * n = n * q /\ q * n <= snap
    BY <2>2 DEF q
  <2> QED BY <2>1, <2>3
<1> HIDE DEF q
<1> DEFINE b == q * n
<1>14. b \in Nat /\ b <= snap /\ b = n * q
  BY <1>13
<1>15. snap_start + b < card
  <2> HIDE DEF b
  <2> QED BY <1>1, <1>8, <1>9, <1>10, <1>14
<1>16. admin_blocks + jb <= snap_start
  BY <1>4, <1>5, <1>8, <1>11
<1>17. l \in [jstart : Nat, jblocks : Nat, start : Nat, slots : 1 .. 64, per : Nat, blocks : Nat]
  BY <1>1, <1>4, <1>8, <1>11, <1>13
<1>18. Fits(l)
  BY <1>4, <1>8, <1>13, <1>14, <1>15, <1>16 DEF Fits
<1> QED BY <1>7, <1>17, <1>18 DEF Areas

\* So does rwos_disk_auto_format
LEMMA AutoFits ==
  ASSUME auto_layout # None
  PROVE  auto_layout \in Areas /\ auto_layout.start + auto_layout.blocks \in Nat
<1>1. card \in Nat
  BY BootDiskAssumption
<1>2. /\ 3 + 128 + 4 * 656 + 64 <= card
      /\ auto_layout = [jstart |-> 3, jblocks |-> 128, start |-> 131, slots |-> 4,
                        per |-> 656, blocks |-> 4 * 656]
  BY <1>1 DEF auto_layout
<1>3. Fits(auto_layout)
  BY <1>1, <1>2 DEF Fits
<1> QED BY <1>1, <1>2, <1>3 DEF Areas

-----------------------------------------------------------------------------
(* Tables *)

\* A table that a format writes
LEMMA MadeTable ==
  ASSUME NEW l \in Areas, NEW fmt \in {"RWDI", "RWSS"}, NEW g \in 1 .. GenMax,
         NEW r, r = (IF fmt = "RWSS" THEN 0 ELSE l.start + l.blocks)
  PROVE  /\ Table(fmt, g, l, r) \in Tables /\ SameLayout(Table(fmt, g, l, r), l)
         /\ Table(fmt, g, l, r).gen = g /\ Table(fmt, g, l, r).fmt = fmt
<1> DEFINE t == Table(fmt, g, l, r)
<1>1. /\ l \in [jstart : Nat, jblocks : Nat, start : Nat, slots : 1 .. 64, per : Nat, blocks : Nat]
      /\ Fits(l)
  BY DEF Areas
<1>2. r \in Nat
  BY <1>1
<1>3. Recent \in TargetsPossible
  BY DEF TargetsPossible
<1>4. 0 \in 0 .. MaxSnapshots
  BY BootDiskAssumption
<1>5. t.start = l.start /\ t.blocks = l.blocks /\ t.rwfs = r /\ t.fmt = fmt /\ t.gen = g
  BY DEF Table
<1>6. Fits(t) /\ SameLayout(t, l)
  BY <1>1 DEF Fits, Table, SameLayout
<1>7. t \in [fmt : {"RWDI", "RWSS"}, gen : 1 .. GenMax, jstart : Nat, jblocks : Nat,
             start : Nat, slots : 1 .. 64, per : Nat, blocks : Nat, rwfs : Nat,
             target : TargetsPossible, last : 0 .. MaxSnapshots]
  BY <1>1, <1>2, <1>3, <1>4 DEF Table
<1> HIDE DEF t
<1>8. t.rwfs = IF t.fmt = "RWSS" THEN 0 ELSE t.start + t.blocks
  BY <1>5
<1>9. t \in Tables
  BY <1>6, <1>7, <1>8 DEF Tables
<1> QED BY <1>5, <1>6, <1>9 DEF t

\* What is known of the fields of a table
LEMMA TableFields ==
  ASSUME NEW t \in Tables
  PROVE  /\ t # None /\ t.fmt \in {"RWDI", "RWSS"} /\ t.gen \in 1 .. GenMax /\ t.gen \in Nat
         /\ t.jstart \in Nat /\ t.jblocks \in Nat /\ t.start \in Nat /\ t.slots \in 1 .. 64
         /\ t.per \in Nat /\ t.blocks \in Nat /\ t.target \in TargetsPossible
         /\ t.last \in 0 .. MaxSnapshots /\ Fits(t)
         /\ t.rwfs = IF t.fmt = "RWSS" THEN 0 ELSE t.start + t.blocks
<1>1. GenMax \in Nat
  BY BootDiskAssumption
<1>2. None.gen = 0
  BY DEF None
<1> QED BY <1>1, <1>2 DEF Tables

\* No table is not a table
LEMMA NoneFields == None.gen = 0 /\ None \notin Tables
BY TableFields DEF None

\* A table in the other program's words
Worded(t, f) == [t EXCEPT !.fmt = f, !.rwfs = IF f = "RWSS" THEN 0 ELSE t.start + t.blocks]

\* It says the same
LEMMA Reworded ==
  ASSUME NEW t \in Tables, NEW f \in {"RWDI", "RWSS"}
  PROVE  /\ Worded(t, f) \in Tables /\ Like(Worded(t, f), t) /\ Worded(t, f).gen = t.gen
         /\ Worded(t, f).last = t.last /\ Worded(t, f).fmt = f
<1> DEFINE r == IF f = "RWSS" THEN 0 ELSE t.start + t.blocks
           u == [t EXCEPT !.fmt = f, !.rwfs = r]
<1>1. r \in Nat
  BY TableFields
<1>2. t \in [fmt : {"RWDI", "RWSS"}, gen : 1 .. GenMax, jstart : Nat, jblocks : Nat,
             start : Nat, slots : 1 .. 64, per : Nat, blocks : Nat, rwfs : Nat,
             target : TargetsPossible, last : 0 .. MaxSnapshots]
  BY DEF Tables
<1>3. u.fmt = f /\ u.rwfs = r /\ u.gen = t.gen /\ u.last = t.last /\ Like(u, t)
  BY <1>2 DEF Like, SameLayout
<1>4. u \in [fmt : {"RWDI", "RWSS"}, gen : 1 .. GenMax, jstart : Nat, jblocks : Nat,
             start : Nat, slots : 1 .. 64, per : Nat, blocks : Nat, rwfs : Nat,
             target : TargetsPossible, last : 0 .. MaxSnapshots]
  <2> HIDE DEF r
  <2> QED BY <1>1, <1>2
<1>5. Worded(t, f) = u
  BY DEF Worded
<1> HIDE DEF u
<1>6. Fits(u)
  BY <1>3, TableFields DEF Fits, Like, SameLayout
<1>7. u.rwfs = IF u.fmt = "RWSS" THEN 0 ELSE u.start + u.blocks
  BY <1>3 DEF Like, SameLayout
<1>8. u \in Tables
  BY <1>4, <1>6, <1>7 DEF Tables
<1> QED BY <1>3, <1>5, <1>8

\* Both parsers keep what a table says
LEMMA Parsed ==
  ASSUME NEW t \in MaybeTable
  PROVE  /\ rwos_disk_parse(t) \in MaybeTable /\ boot_admin_parse_block(t) \in MaybeTable
         /\ t = None => rwos_disk_parse(t) = None /\ boot_admin_parse_block(t) = None
         /\ t # None => /\ t \in Tables
                        /\ rwos_disk_parse(t) \in Tables /\ Like(rwos_disk_parse(t), t)
                        /\ rwos_disk_parse(t).last = t.last /\ rwos_disk_parse(t).fmt = "RWDI"
                        /\ boot_admin_parse_block(t) \in Tables /\ Like(boot_admin_parse_block(t), t)
                        /\ boot_admin_parse_block(t).last = t.last
         /\ rwos_disk_parse(t).gen = t.gen /\ boot_admin_parse_block(t).gen = t.gen
<1>1. CASE t = None
  BY <1>1 DEF rwos_disk_parse, boot_admin_parse_block, MaybeTable
<1>2. CASE t # None
  <2>1. t \in Tables /\ t.fmt \in {"RWDI", "RWSS"} /\ Like(t, t)
    BY <1>2, TableFields DEF MaybeTable, Like, SameLayout
  <2>2. rwos_disk_parse(t) \in Tables /\ Like(rwos_disk_parse(t), t) /\ rwos_disk_parse(t).gen = t.gen
        /\ rwos_disk_parse(t).last = t.last /\ rwos_disk_parse(t).fmt = "RWDI"
    <3>1. CASE t.fmt = "RWDI"
      BY <2>1, <3>1 DEF rwos_disk_parse
    <3>2. CASE t.fmt = "RWSS"
      <4>1. rwos_disk_parse(t) = Worded(t, "RWDI")
        BY <1>2, <3>2 DEF rwos_disk_parse, Worded
      <4> QED BY <2>1, <4>1, Reworded
    <3> QED BY <2>1, <3>1, <3>2
  <2>3. boot_admin_parse_block(t) \in Tables /\ Like(boot_admin_parse_block(t), t)
        /\ boot_admin_parse_block(t).gen = t.gen /\ boot_admin_parse_block(t).last = t.last
    <3>1. CASE t.fmt = "RWSS"
      BY <2>1, <3>1 DEF boot_admin_parse_block
    <3>2. CASE t.fmt = "RWDI"
      <4>1. boot_admin_parse_block(t) = Worded(t, "RWSS")
        BY <1>2, <3>2 DEF boot_admin_parse_block, Worded
      <4> QED BY <2>1, <4>1, Reworded
    <3> QED BY <2>1, <3>1, <3>2
  <2> QED BY <1>2, <2>1, <2>2, <2>3 DEF MaybeTable
<1> QED BY <1>1, <1>2

\* A table is like another if all but the number of the last snapshot is the same
LEMMA LikeSays ==
  ASSUME NEW t \in Tables, NEW u \in Tables, Like(t, u)
  PROVE  /\ t.last = u.last => Says(t) = Says(u)
         /\ Says(t) = [Says(u) EXCEPT !.last = t.last]
<1>1. \A v \in Tables : /\ rwos_disk_parse(v) \in Tables /\ Like(rwos_disk_parse(v), v) /\ rwos_disk_parse(v) # None
                        /\ rwos_disk_parse(v).last = v.last
                        /\ rwos_disk_parse(v).rwfs = v.start + v.blocks
  <2> SUFFICES ASSUME NEW v \in Tables
               PROVE  /\ rwos_disk_parse(v) \in Tables /\ Like(rwos_disk_parse(v), v) /\ rwos_disk_parse(v) # None
                      /\ rwos_disk_parse(v).last = v.last
                      /\ rwos_disk_parse(v).rwfs = v.start + v.blocks
    OBVIOUS
  <2>1. v \in MaybeTable /\ v # None
    BY TableFields DEF MaybeTable
  <2>2. /\ rwos_disk_parse(v) \in Tables /\ Like(rwos_disk_parse(v), v) /\ rwos_disk_parse(v).last = v.last
        /\ rwos_disk_parse(v).fmt = "RWDI"
    BY <2>1, Parsed
  <2>3. rwos_disk_parse(v) # None /\ rwos_disk_parse(v).rwfs = rwos_disk_parse(v).start + rwos_disk_parse(v).blocks
    BY <2>2, TableFields
  <2> QED BY <2>2, <2>3 DEF Like, SameLayout
<1> DEFINE a == rwos_disk_parse(t)  b == rwos_disk_parse(u)
<1>2. Like(a, t) /\ Like(b, u) /\ a.last = t.last /\ b.last = u.last /\ a # None /\ b # None
      /\ a.rwfs = t.start + t.blocks /\ b.rwfs = u.start + u.blocks
  BY <1>1
<1>3. /\ Says(t) = [jstart |-> a.jstart, jblocks |-> a.jblocks, start |-> a.start, slots |-> a.slots,
                    per |-> a.per, blocks |-> a.blocks, rwfs |-> a.rwfs, target |-> a.target, last |-> a.last]
      /\ Says(u) = [jstart |-> b.jstart, jblocks |-> b.jblocks, start |-> b.start, slots |-> b.slots,
                    per |-> b.per, blocks |-> b.blocks, rwfs |-> b.rwfs, target |-> b.target, last |-> b.last]
  BY <1>2 DEF Says
<1> HIDE DEF a, b
<1>4. a.jstart = b.jstart /\ a.jblocks = b.jblocks /\ a.start = b.start /\ a.slots = b.slots /\ a.per = b.per
      /\ a.blocks = b.blocks /\ a.rwfs = b.rwfs /\ a.target = b.target
  BY <1>2 DEF Like, SameLayout
<1> QED BY <1>2, <1>3, <1>4

-----------------------------------------------------------------------------
(* Reading the table *)

\* p is how a program reads the copy t
ReadAs(p, t) ==
  /\ p \in MaybeTable /\ t \in MaybeTable /\ (p = None) = (t = None) /\ p.gen = t.gen
  /\ p # None => p \in Tables /\ t \in Tables /\ Like(p, t) /\ p.last = t.last

\* best is what a program reads if it cannot read the copies in bad: one of the others,
\* and none of them is later
BestOf(best, bad) ==
  /\ best \in MaybeTable
  /\ best = None => \A c \in Copies \ bad : lba[c] = None
  /\ best # None => \E c \in Copies \ bad : ReadAs(best, lba[c])
  /\ \A c \in Copies \ bad : lba[c].gen <= best.gen

\* The generation of a table, and of none, is a number
LEMMA Generations ==
  \A t \in MaybeTable : t.gen \in Nat /\ (t.gen = 0) = (t = None) /\ (t # None => t \in Tables)
BY TableFields, NoneFields DEF MaybeTable

\* The later of the readable copies is the best of them, whichever wins a tie
LEMMA CopyBest ==
  ASSUME lba \in [Copies -> MaybeTable], NEW bad \in SUBSET Copies,
         NEW p, NEW q, ReadAs(p, lba["A"]), ReadAs(q, lba["B"]),
         NEW a, a = (IF "A" \in bad THEN None ELSE p),
         NEW b, b = (IF "B" \in bad THEN None ELSE q),
         NEW best \in {a, b}, best.gen >= a.gen, best.gen >= b.gen
  PROVE  BestOf(best, bad)
<1>1. None \in MaybeTable /\ None.gen = 0
  BY DEF MaybeTable, None
<1>2. a \in MaybeTable /\ b \in MaybeTable
  BY <1>1 DEF ReadAs
<1>3. a.gen \in Nat /\ b.gen \in Nat /\ best.gen \in Nat /\ best \in MaybeTable
  BY <1>2, Generations
<1>4. \A c \in Copies : lba[c].gen \in Nat /\ lba[c] \in MaybeTable
  BY Generations
<1>5. \A c \in Copies \ bad : lba[c].gen <= best.gen
  <2>1. "A" \notin bad => lba["A"].gen <= best.gen
    BY <1>3 DEF ReadAs
  <2>2. "B" \notin bad => lba["B"].gen <= best.gen
    BY <1>3 DEF ReadAs
  <2> QED BY <2>1, <2>2 DEF Copies
<1>6. best = None => \A c \in Copies \ bad : lba[c] = None
  <2> SUFFICES ASSUME best = None, NEW c \in Copies \ bad PROVE lba[c] = None
    OBVIOUS
  <2>1. lba[c].gen <= 0 /\ lba[c].gen \in Nat /\ lba[c] \in MaybeTable
    BY <1>1, <1>4, <1>5
  <2> QED BY <2>1, Generations
<1>7. best # None => \E c \in Copies \ bad : ReadAs(best, lba[c])
  <2> SUFFICES ASSUME best # None PROVE \E c \in Copies \ bad : ReadAs(best, lba[c])
    OBVIOUS
  <2>1. CASE best = a
    <3>1. "A" \in Copies \ bad /\ best = p
      BY <2>1 DEF Copies
    <3> QED BY <3>1
  <2>2. CASE best = b
    <3>1. "B" \in Copies \ bad /\ best = q
      BY <2>2 DEF Copies
    <3> QED BY <3>1
  <2> QED BY <2>1, <2>2
<1> QED BY <1>3, <1>5, <1>6, <1>7 DEF BestOf

\* Both programs read the best of the copies that can be read
LEMMA ReadBest ==
  ASSUME lba \in [Copies -> MaybeTable], NEW bad \in SUBSET Copies
  PROVE  BestOf(rwos_disk_read_best(bad), bad) /\ BestOf(boot_admin_read_best(bad), bad)
<1>1. lba["A"] \in MaybeTable /\ lba["B"] \in MaybeTable
  BY DEF Copies
<1>2. \A t \in MaybeTable : ReadAs(rwos_disk_parse(t), t) /\ ReadAs(boot_admin_parse_block(t), t)
  BY Parsed, NoneFields DEF ReadAs
<1>3. \A t \in MaybeTable : t.gen \in Nat
  BY Generations
<1>0. None \in MaybeTable
  BY DEF MaybeTable
<1>4. BestOf(rwos_disk_read_best(bad), bad)
  <2> DEFINE p == rwos_disk_parse(lba["A"])  q == rwos_disk_parse(lba["B"])
             a == IF "A" \in bad THEN None ELSE p
             b == IF "B" \in bad THEN None ELSE q
  <2>1. ReadAs(p, lba["A"]) /\ ReadAs(q, lba["B"])
    BY <1>1, <1>2
  <2>2. rwos_disk_read_best(bad) = IF a.gen >= b.gen THEN a ELSE b
    BY DEF rwos_disk_read_best
  <2>3. a.gen \in Nat /\ b.gen \in Nat
    BY <1>0, <1>3, <2>1 DEF ReadAs
  <2> HIDE DEF p, q
  <2>4. rwos_disk_read_best(bad) \in {a, b} /\ rwos_disk_read_best(bad).gen >= a.gen
        /\ rwos_disk_read_best(bad).gen >= b.gen
    <3> HIDE DEF a, b
    <3> QED BY <2>2, <2>3
  <2> QED BY <2>1, <2>4, CopyBest
<1>5. BestOf(boot_admin_read_best(bad), bad)
  <2> DEFINE p == boot_admin_parse_block(lba["A"])  q == boot_admin_parse_block(lba["B"])
             a == IF "A" \in bad THEN None ELSE p
             b == IF "B" \in bad THEN None ELSE q
  <2>1. ReadAs(p, lba["A"]) /\ ReadAs(q, lba["B"])
    BY <1>1, <1>2
  <2>2. boot_admin_read_best(bad) = IF b.gen >= a.gen THEN b ELSE a
    BY DEF boot_admin_read_best
  <2>3. a.gen \in Nat /\ b.gen \in Nat
    BY <1>0, <1>3, <2>1 DEF ReadAs
  <2> HIDE DEF p, q
  <2>4. boot_admin_read_best(bad) \in {a, b} /\ boot_admin_read_best(bad).gen >= a.gen
        /\ boot_admin_read_best(bad).gen >= b.gen
    <3> HIDE DEF a, b
    <3> QED BY <2>2, <2>3
  <2> QED BY <2>1, <2>4, CopyBest
<1> QED BY <1>4, <1>5

\* A writer that has read a table has seen one that is at least as late as copy B
LEMMA SeenIsLate ==
  ASSUME lba \in [Copies -> MaybeTable], Mirrored, ~blind,
         NEW bad \in SUBSET Copies, NEW best, BestOf(best, bad), best # None
  PROVE  best.gen >= lba["B"].gen /\ best.gen \in Nat
<1>1. lba["A"].gen \in Nat /\ lba["B"].gen \in Nat /\ best.gen \in Nat
  BY Generations DEF Copies, BestOf
<1>2. lba["A"].gen >= lba["B"].gen
  BY <1>1 DEF Mirrored
<1>3. PICK c \in Copies \ bad : ReadAs(best, lba[c])
  BY DEF BestOf
<1>4. best.gen = lba[c].gen
  BY <1>3 DEF ReadAs
<1> QED BY <1>1, <1>2, <1>3, <1>4 DEF Copies

-----------------------------------------------------------------------------
(* Slots *)

\* The first three of a set of slots
Listed(V) ==
  LET a == newest(V)  b == newest(V \ {a})  c == newest(V \ {a, b})
  IN IF V = {} THEN <<>> ELSE IF V = {a} THEN <<a>> ELSE IF V = {a, b} THEN <<a, b>>
     ELSE <<a, b, c>>

\* Every nonempty set of slots of one layout has a newest one
LEMMA NewestIsOne ==
  ASSUME NEW n \in Nat, NEW W \in SUBSET Snaps(n), W # {},
         \A x, y \in W : x.slot = y.slot => x = y
  PROVE  newest(W) \in W
<1> DEFINE key(s) == (n - s.seq) * 64 + s.slot
           T == {key(s) : s \in W}
<1>1. \A s \in W : s.seq \in 1 .. n /\ s.slot \in 0 .. 63
  BY DEF Snaps
<1>2. \A s \in W : key(s) \in 0 .. n * 64 + 63
  <2> SUFFICES ASSUME NEW s \in W PROVE key(s) \in 0 .. n * 64 + 63
    OBVIOUS
  <2> DEFINE q == s.seq  i == s.slot
  <2>1. q \in 1 .. n /\ i \in 0 .. 63
    BY <1>1
  <2> HIDE DEF q, i
  <2>2. (n - q) * 64 + i \in 0 .. n * 64 + 63
    BY <2>1
  <2> QED BY <2>2 DEF q, i
<1>3. T \in SUBSET (0 .. n * 64 + 63) /\ T # {}
  <2> HIDE DEF key
  <2> QED BY <1>2
<1>4. PICK t \in T : \A j \in T : t <= j
  <2>1. n * 64 + 63 \in Nat
    OBVIOUS
  <2> HIDE DEF T
  <2> QED BY <1>3, <2>1, LeastElement
<1>5. PICK a \in W : t = key(a)
  OBVIOUS
<1>6. \A b \in W \ {a} : a.seq > b.seq \/ (a.seq = b.seq /\ a.slot < b.slot)
  <2> SUFFICES ASSUME NEW b \in W, b # a
               PROVE  a.seq > b.seq \/ (a.seq = b.seq /\ a.slot < b.slot)
    OBVIOUS
  <2>1. key(a) <= key(b)
    BY <1>4, <1>5
  <2> DEFINE aq == a.seq  ai == a.slot  bq == b.seq  bi == b.slot
  <2>2. aq \in 1 .. n /\ bq \in 1 .. n /\ ai \in 0 .. 63 /\ bi \in 0 .. 63 /\ ai # bi
    BY <1>1
  <2>3. (n - aq) * 64 + ai <= (n - bq) * 64 + bi
    BY <2>1
  <2> HIDE DEF aq, ai, bq, bi
  <2>4. aq > bq \/ (aq = bq /\ ai < bi)
    BY <2>2, <2>3
  <2> QED BY <2>4 DEF aq, ai, bq, bi
<1> QED BY <1>5, <1>6 DEF newest

\* The list has only elements of the set, and none only if the set has none
LEMMA ListedOfSet ==
  ASSUME NEW n \in Nat, NEW V \in SUBSET Snaps(n),
         \A x, y \in V : x.slot = y.slot => x = y
  PROVE  /\ Listed(V) \in Seq(V) /\ Listed(V) \in Seq(Snaps(n)) /\ Len(Listed(V)) <= 3
         /\ (Listed(V) = <<>>) = (V = {})
<1> DEFINE a == newest(V)  b == newest(V \ {a})  c == newest(V \ {a, b})
<1>1. \A W \in SUBSET V : W # {} => newest(W) \in W
  <2> SUFFICES ASSUME NEW W \in SUBSET V, W # {} PROVE newest(W) \in W
    OBVIOUS
  <2> QED BY NewestIsOne
<1>2. V # {} => a \in V
  BY <1>1
<1>3. V \ {a} # {} => b \in V \ {a}
  BY <1>1
<1>4. V \ {a, b} # {} => c \in V \ {a, b}
  BY <1>1
<1> HIDE DEF a, b, c
<1>5. Listed(V) = IF V = {} THEN <<>> ELSE IF V = {a} THEN <<a>> ELSE IF V = {a, b} THEN <<a, b>>
                  ELSE <<a, b, c>>
  BY DEF Listed, a, b, c
<1> DEFINE G == Listed(V) \in Seq(V) /\ Len(Listed(V)) <= 3 /\ (Listed(V) = <<>>) = (V = {})
<1>6. ASSUME V = {} PROVE G
  BY <1>5, <1>6
<1>7. ASSUME V # {}, V = {a}
      PROVE G
  <2>1. Listed(V) = <<a>>
    BY <1>5, <1>7
  <2>2. <<a>> \in Seq(V) /\ Len(<<a>>) = 1 /\ <<a>> # <<>>
    BY <1>2, <1>7
  <2>3. V # {}
    BY <1>7
  <2> QED BY ONLY <2>1, <2>2, <2>3
<1>8. ASSUME V # {}, V # {a}, V = {a, b}
      PROVE G
  <2>1. Listed(V) = <<a, b>>
    BY <1>5, <1>8
  <2>2. a \in V /\ b \in V
    BY <1>8
  <2>3. <<a, b>> \in Seq(V) /\ Len(<<a, b>>) = 2 /\ <<a, b>> # <<>>
    BY <2>2
  <2>4. V # {}
    BY <1>8
  <2> QED BY ONLY <2>1, <2>3, <2>4
<1>9. ASSUME V # {}, V # {a}, V # {a, b}
      PROVE G
  <2>1. Listed(V) = <<a, b, c>>
    BY <1>5, <1>9
  <2>2. a \in V
    BY <1>2, <1>9
  <2>3. b \in V
    BY <1>3, <1>9, <2>2
  <2>4. c \in V
    BY <1>4, <1>9, <2>2, <2>3
  <2> QED BY <1>9, <2>1, <2>2, <2>3, <2>4
<1>10. G
  <2> HIDE DEF G
  <2> QED BY <1>6, <1>7, <1>8, <1>9
<1>11. Seq(V) \subseteq Seq(Snaps(n))
  OBVIOUS
<1> QED BY <1>10, <1>11

\* What a scan finds are valid slots of the layout, one for each number
LEMMA Scanned ==
  ASSUME saves \in Nat, snaps \in SUBSET Snaps(saves), \A x, y \in snaps : x.lba = y.lba => x = y,
         NEW l
  PROVE  /\ ValidSlots(l) \in SUBSET snaps
         /\ \A x, y \in ValidSlots(l) : x.slot = y.slot => x = y
         /\ boot_snapshot_scan(l) = Listed(ValidSlots(l))
         /\ boot_snapshot_scan(l) \in Seq(ValidSlots(l)) /\ boot_snapshot_scan(l) \in Seq(Snaps(saves))
         /\ Len(boot_snapshot_scan(l)) <= 3
         /\ (boot_snapshot_scan(l) = <<>>) = (ValidSlots(l) = {})
<1>1. ValidSlots(l) \in SUBSET snaps /\ \A x \in ValidSlots(l) : x.lba = SlotLba(l, x.slot)
  BY DEF ValidSlots
<1>2. \A x, y \in ValidSlots(l) : x.slot = y.slot => x = y
  BY <1>1
<1>3. boot_snapshot_scan(l) = Listed(ValidSlots(l))
  BY DEF boot_snapshot_scan, Listed
<1>4. ValidSlots(l) \in SUBSET Snaps(saves)
  BY <1>1
<1> QED BY <1>1, <1>2, <1>3, <1>4, ListedOfSet

\* Tables with the same areas have the same slots
LEMMA SameSlots ==
  ASSUME NEW a, NEW b, SameLayout(a, b)
  PROVE  ValidSlots(a) = ValidSlots(b) /\ boot_snapshot_scan(a) = boot_snapshot_scan(b)
<1>1. a.slots = b.slots /\ a.start = b.start /\ a.per = b.per
  BY DEF SameLayout
<1>2. ValidSlots(a) = ValidSlots(b)
  BY <1>1 DEF ValidSlots, SlotLba
<1> QED BY <1>2 DEF boot_snapshot_scan

\* s is a slot as it was, but for damage to its payload
KeptFrom(s, x) ==
  s.lba = x.lba /\ s.per = x.per /\ s.slot = x.slot /\ s.seq = x.seq /\ s.id = x.id

\* Overwriting loses slots and changes nothing else, and a slot is lost if its header is
\* overwritten
LEMMA Overwriting ==
  ASSUME NEW n \in Nat, snaps \in SUBSET Snaps(n), \A x, y \in snaps : x.lba = y.lba => x = y,
         NEW B
  PROVE  /\ Overwritten(B) \in SUBSET Snaps(n)
         /\ \A x, y \in Overwritten(B) : x.lba = y.lba => x = y
         /\ \A s \in Overwritten(B) :
              /\ \E x \in snaps : KeptFrom(s, x)
              /\ ~\E r \in B : r.lo <= s.lba + 1 /\ s.lba <= r.hi
<1> DEFINE Hit(lo, hi) == \E r \in B : r.lo <= hi /\ lo <= r.hi
           Torn(s) == s.torn \/ Hit(s.lba + 2, s.lba + PayloadBlocks)
           New(s) == [s EXCEPT !.torn = Torn(s)]
           Left == {x \in snaps : ~Hit(x.lba, x.lba + 1) /\ ~Hit(x.lba + x.per - 1, x.lba + x.per - 1)}
<1>1. Overwritten(B) = {New(s) : s \in Left}
  BY DEF Overwritten
<1>2. \A s \in snaps : Torn(s) \in BOOLEAN
  OBVIOUS
<1> HIDE DEF Torn
<1>3. ASSUME NEW s \in snaps
      PROVE  New(s) \in Snaps(n) /\ KeptFrom(New(s), s) /\ New(s).torn = Torn(s)
  <2>1. s \in Snaps(n) /\ Torn(s) \in BOOLEAN
    BY <1>2
  <2> QED BY <2>1 DEF Snaps, KeptFrom
<1>4. Left \subseteq snaps /\ \A s \in Left : ~\E r \in B : r.lo <= s.lba + 1 /\ s.lba <= r.hi
  OBVIOUS
<1> HIDE DEF New, Left
<1>5. ASSUME NEW x \in Left, NEW y \in Left, New(x).lba = New(y).lba PROVE New(x) = New(y)
  <2>1. x.lba = y.lba
    BY <1>3, <1>4, <1>5 DEF KeptFrom
  <2> QED BY <1>4, <2>1
<1>6. Overwritten(B) \in SUBSET Snaps(n)
  BY <1>1, <1>3, <1>4
<1>7. \A x, y \in Overwritten(B) : x.lba = y.lba => x = y
  BY <1>1, <1>5
<1>8. ASSUME NEW s \in Overwritten(B)
      PROVE  /\ \E x \in snaps : KeptFrom(s, x)
             /\ ~\E r \in B : r.lo <= s.lba + 1 /\ s.lba <= r.hi
  <2>1. PICK x \in Left : s = New(x)
    BY <1>1, <1>8
  <2>2. x \in snaps /\ KeptFrom(s, x)
    BY <1>3, <1>4, <2>1
  <2>3. s.lba = x.lba
    BY <2>2 DEF KeptFrom
  <2> QED BY <1>4, <2>2, <2>3
<1> QED BY <1>6, <1>7, <1>8

\* More saves, more possible slots
LEMMA MoreSnaps ==
  ASSUME NEW m \in Nat, NEW n \in Nat, m <= n
  PROVE  Snaps(m) \subseteq Snaps(n) /\ Lists(m) \subseteq Lists(n)
<1>1. 1 .. m \subseteq 1 .. n
  OBVIOUS
<1>2. Snaps(m) \subseteq Snaps(n)
  BY <1>1 DEF Snaps
<1>3. Seq(Snaps(m)) \subseteq Seq(Snaps(n))
  BY <1>2
<1> QED BY <1>2, <1>3 DEF Lists

-----------------------------------------------------------------------------
(* The card: what each kind of step does to the invariant's parts about it *)

\* The unreadable copies can be counted
LEMMA BadCopies ==
  \A bad \in SUBSET Copies : Cardinality(bad) \in Nat
<1> SUFFICES ASSUME NEW bad \in SUBSET Copies PROVE Cardinality(bad) \in Nat
  OBVIOUS
<1>1. IsFiniteSet(Copies)
  <2>1. IsFiniteSet({"A"}) /\ IsFiniteSet({"A"} \cup {"B"})
    BY FS_Singleton, FS_AddElement
  <2>2. Copies = {"A"} \cup {"B"}
    BY DEF Copies
  <2> QED BY <2>1, <2>2
<1> QED BY <1>1, FS_Subset, FS_CardinalityType

\* The bound on what goes wrong is kept
LEMMA Spending ==
  ASSUME faults \in 0 .. MaxFaults, NEW n \in Nat, Spend(n)
  PROVE  faults' \in 0 .. MaxFaults
BY BootDiskAssumption DEF Spend

\* The outcomes of a write of the table
LEMMA Outcomes ==
  ASSUME NEW t, NEW o \in write_both(t)
  PROVE  /\ o.lba \in {lba, [lba EXCEPT !["A"] = t], [c \in Copies |-> t]}
         /\ o.rc \in {"ok", "err", "off"} /\ o.cost \in {0, 1}
         /\ o.rc = "ok" => o.lba = [c \in Copies |-> t]
BY DEF write_both

\* The slots of a step are those of before, or later than the last format
SlotsKept ==
  \A s \in snaps' : s.id > formatted \/ \E x \in snaps : KeptFrom(s, x)

\* A table that is later than copy B, unless it is written blindly, may be written
LEMMA Written ==
  ASSUME BootTypes, Mirrored, NEW t \in Tables,
         lba' \in {lba, [lba EXCEPT !["A"] = t], [c \in Copies |-> t]},
         blind => blind', ~blind' => t.gen > lba["B"].gen
  PROVE  /\ lba' \in [Copies -> MaybeTable]
         /\ lba'["A"] = lba["A"] \/ lba'["A"] = t
         /\ lba'["B"] = lba["B"] \/ lba'["B"] = t
         /\ lba'["A"] = None => lba'["B"] = None /\ lba["A"] = None
         /\ lba'["B"] = None => lba["B"] = None
         /\ ~blind' => lba'["A"] = lba'["B"] \/ lba'["A"].gen > lba'["B"].gen
<1>1. lba \in [Copies -> MaybeTable] /\ "A" \in Copies /\ "B" \in Copies /\ "A" # "B"
      /\ \A c \in Copies : c = "A" \/ c = "B"
  BY DEF BootTypes, Copies
<1>2. t \in MaybeTable /\ t # None
  BY NoneFields DEF MaybeTable
<1>3. CASE lba' = lba
  BY <1>1, <1>2, <1>3 DEF Mirrored
<1>4. CASE lba' = [lba EXCEPT !["A"] = t]
  <2>1. lba'["A"] = t /\ lba'["B"] = lba["B"] /\ lba' \in [Copies -> MaybeTable]
    BY <1>1, <1>2, <1>4
  <2> QED BY <1>2, <2>1
<1>5. CASE lba' = [c \in Copies |-> t]
  <2>1. lba'["A"] = t /\ lba'["B"] = t /\ lba' \in [Copies -> MaybeTable]
    BY <1>1, <1>2, <1>5
  <2> QED BY <1>2, <2>1
<1> QED BY <1>3, <1>4, <1>5

\* A slot of the layout l after the step was one before it, or is later than the last format
LEMMA SlotsStay ==
  ASSUME SlotsKept, NEW m, NEW l, SameLayout(m, l), NEW s \in snaps', s.slot < m.slots,
         s.lba = SlotLba(m, s.slot), s.per = m.per
  PROVE  s.id > formatted \/ \E x \in ValidSlots(l) : KeptFrom(s, x)
<1>1. CASE s.id > formatted
  BY <1>1
<1>2. CASE \E x \in snaps : KeptFrom(s, x)
  <2>1. PICK x \in snaps : KeptFrom(s, x)
    BY <1>2
  <2>2. m.slots = l.slots /\ SlotLba(m, s.slot) = SlotLba(l, s.slot) /\ m.per = l.per
    BY DEF SameLayout, SlotLba
  <2>3. x.slot = s.slot /\ x.lba = s.lba /\ x.per = s.per
    BY <2>1 DEF KeptFrom
  <2>4. x \in ValidSlots(l)
    BY <2>2, <2>3 DEF ValidSlots
  <2> QED BY <2>1, <2>4
<1> QED BY <1>1, <1>2 DEF SlotsKept

\* Nothing older than the last format appears in the layout of copy A if that stays
LEMMA StillRemembered ==
  ASSUME BootTypes, Remembered, SlotsKept, formatted' = formatted, blind => blind', unfinished => unfinished',
         ~unfinished' => \/ lba["A"] # None /\ SameLayout(lba'["A"], lba["A"])
                         \/ lba'["A"] = None
  PROVE  Remembered'
<1> SUFFICES ASSUME ~blind', ~unfinished', lba'["A"] # None,
                    NEW s \in snaps', s.slot < lba'["A"].slots,
                    s.lba = SlotLba(lba'["A"], s.slot), s.per = lba'["A"].per
             PROVE  s.id > formatted
  BY DEF Remembered, ValidSlots, SlotLba
<1>1. lba["A"] # None /\ SameLayout(lba'["A"], lba["A"])
  OBVIOUS
<1>2. s.id > formatted \/ \E x \in ValidSlots(lba["A"]) : KeptFrom(s, x)
  BY <1>1, SlotsStay
<1>3. \A x \in ValidSlots(lba["A"]) : x.id > formatted
  BY <1>1 DEF Remembered
<1> QED BY <1>2, <1>3 DEF KeptFrom

\* The table is left alone
LEMMA Untouched ==
  ASSUME BootTypes, CardOK, lba' = lba, SlotsKept, formatted' = formatted, unfinished' = unfinished,
         blind => blind', st'.magic \/ st'.list # <<>> => lba["A"] # None
  PROVE  CardOK'
<1>1. Mirrored'
  BY DEF Mirrored, CardOK
<1>2. OneLayout'
  BY DEF OneLayout, CardOK
<1>3. SameLayout(lba["A"], lba["A"])
  BY DEF SameLayout
<1>4. Remembered'
  <2>1. Remembered
    BY DEF CardOK
  <2> QED BY <1>3, <2>1, StillRemembered
<1> QED BY <1>1, <1>2, <1>4 DEF CardOK

\* An update of the table keeps its areas
LEMMA Updated ==
  ASSUME BootTypes, CardOK, NEW t \in Tables,
         lba' \in {lba, [lba EXCEPT !["A"] = t], [c \in Copies |-> t]},
         blind => blind', ~blind' => t.gen > lba["B"].gen,
         \E c \in Copies : lba[c] # None /\ SameLayout(t, lba[c]),
         SlotsKept, formatted' = formatted, unfinished' = unfinished
  PROVE  /\ lba' \in [Copies -> MaybeTable] /\ CardOK'
         /\ lba["A"] # None /\ lba'["A"] # None
         /\ ~unfinished => SameLayout(lba'["A"], lba["A"])
         /\ lba'["A"] = lba["A"] \/ lba'["A"] = t
         /\ lba'["B"] = lba["B"] \/ lba'["B"] = t
<1>1. /\ lba' \in [Copies -> MaybeTable]
      /\ lba'["A"] = lba["A"] \/ lba'["A"] = t
      /\ lba'["B"] = lba["B"] \/ lba'["B"] = t
      /\ lba'["A"] = None => lba'["B"] = None /\ lba["A"] = None
      /\ lba'["B"] = None => lba["B"] = None
      /\ ~blind' => lba'["A"] = lba'["B"] \/ lba'["A"].gen > lba'["B"].gen
  BY Written DEF CardOK
<1>2. PICK c \in Copies : lba[c] # None /\ SameLayout(t, lba[c])
  OBVIOUS
<1>3. t # None
  BY NoneFields
<1>4. lba["A"] # None
  BY <1>2 DEF CardOK, Mirrored, Copies
<1>5. lba'["A"] # None
  BY <1>1, <1>4
<1>6. Mirrored'
  BY <1>1, <1>5 DEF Mirrored, CardOK
<1>7. ~unfinished => /\ lba["B"] # None /\ SameLayout(lba["A"], lba["B"])
                     /\ SameLayout(t, lba["A"]) /\ SameLayout(t, lba["B"])
  <2> SUFFICES ASSUME ~unfinished
               PROVE  /\ lba["B"] # None /\ SameLayout(lba["A"], lba["B"])
                      /\ SameLayout(t, lba["A"]) /\ SameLayout(t, lba["B"])
    OBVIOUS
  <2>1. lba["B"] # None /\ SameLayout(lba["A"], lba["B"])
    BY <1>4 DEF CardOK, OneLayout
  <2>2. c = "A" \/ c = "B"
    BY DEF Copies
  <2> QED BY <1>2, <2>1, <2>2 DEF SameLayout
<1>8. OneLayout'
  <2> SUFFICES ASSUME ~unfinished
               PROVE  lba'["A"] # None /\ lba'["B"] # None /\ SameLayout(lba'["A"], lba'["B"])
    BY DEF OneLayout, SameLayout
  <2>1. lba'["B"] # None
    BY <1>1, <1>7
  <2>2. SameLayout(lba'["A"], lba'["B"])
    BY <1>1, <1>7 DEF SameLayout
  <2> QED BY <1>5, <2>1, <2>2
<1>9. ~unfinished => SameLayout(lba'["A"], lba["A"])
  BY <1>1, <1>7 DEF SameLayout
<1>10. Remembered'
  <2>1. Remembered
    BY DEF CardOK
  <2> QED BY <1>4, <1>9, <2>1, StillRemembered
<1> QED BY <1>1, <1>4, <1>5, <1>6, <1>8, <1>9, <1>10 DEF CardOK

-----------------------------------------------------------------------------
(* The programs *)

\* There is nothing to say of a machine that is being set up
LEMMA Resting ==
  ASSUME pc' \in {"reset", "setup", "forced", "shell"}
  PROVE  FlowOK'
BY DEF FlowOK, AppTable, ListOK, OnTheWay, JournalAreaAgrees, StartSound, ChoiceHonoured, ConfigArrives,
       DoneFormatForgets, FormatForgets

\* In the menu, only the list matters
LEMMA InMenu ==
  ASSUME pc' = "menu", ListOK'
  PROVE  FlowOK'
BY DEF FlowOK, AppTable, OnTheWay, JournalAreaAgrees, StartSound, ChoiceHonoured, ConfigArrives,
       DoneFormatForgets, FormatForgets

\* If no slot changes, those of the same layout are the same
LEMMA SlotsSame ==
  ASSUME snaps' = snaps, SameLayout(lba'["A"], lba["A"])
  PROVE  /\ ValidSlots(lba["A"])' = ValidSlots(lba["A"])
         /\ boot_snapshot_scan(lba["A"])' = boot_snapshot_scan(lba["A"])
<1>1. lba'["A"].slots = lba["A"].slots /\ lba'["A"].start = lba["A"].start /\ lba'["A"].per = lba["A"].per
  BY DEF SameLayout
<1>2. ValidSlots(lba["A"])' = ValidSlots(lba["A"])
  BY <1>1 DEF ValidSlots, SlotLba
<1>3. boot_snapshot_scan(lba["A"]) = Listed(ValidSlots(lba["A"]))
  BY DEF boot_snapshot_scan, Listed
<1>4. boot_snapshot_scan(lba["A"])' = Listed(ValidSlots(lba["A"])')
  BY DEF boot_snapshot_scan, Listed
<1> QED BY <1>2, <1>3, <1>4

\* Both programs accept the areas of a table
LEMMA LayoutValid ==
  ASSUME NEW t \in Tables
  PROVE  boot_snapshot_layout_valid(t) /\ snapshot_layout_valid(t)
<1>1. /\ t.start \in Nat /\ t.slots \in 1 .. 64 /\ t.per \in Nat /\ t.blocks \in Nat /\ Fits(t)
      /\ card \in Nat
  BY TableFields, BootDiskAssumption
<1>2. t.blocks >= t.slots * t.per
  BY <1>1 DEF Fits
<1>3. t.start + t.blocks <= card /\ t.start >= 32 /\ t.per >= 2
  BY <1>1 DEF Fits
<1> QED BY <1>1, <1>2, <1>3 DEF boot_snapshot_layout_valid, snapshot_layout_valid

\* The table that is read has the areas of copy A, and copy A is there
LEMMA ReadLayout ==
  ASSUME BootTypes, CardOK, NEW bad \in SUBSET Copies, NEW best, BestOf(best, bad), best # None
  PROVE  /\ best \in Tables /\ lba["A"] # None /\ lba["A"] \in Tables
         /\ ~unfinished => SameLayout(best, lba["A"])
<1>1. PICK c \in Copies \ bad : ReadAs(best, lba[c])
  BY DEF BestOf
<1>2. best \in Tables /\ lba[c] # None /\ Like(best, lba[c])
  BY <1>1 DEF ReadAs
<1>3. c = "A" \/ c = "B"
  BY <1>1 DEF Copies
<1>4. lba["A"] # None /\ lba["A"] \in MaybeTable
  BY <1>2, <1>3 DEF CardOK, Mirrored, BootTypes, Copies
<1>5. ~unfinished => SameLayout(best, lba["A"])
  BY <1>2, <1>3, <1>4 DEF CardOK, OneLayout, Like, SameLayout
<1> QED BY <1>2, <1>4, <1>5 DEF MaybeTable

\* What boot_refresh_status reports
LEMMA Status ==
  ASSUME BootTypes, CardOK, NEW ready \in BOOLEAN, NEW bad \in SUBSET Copies,
         NEW s, s = boot_refresh_status(ready, bad)
  PROVE  /\ s \in [ok : BOOLEAN, magic : BOOLEAN, list : Lists(saves)]
         /\ s.magic \/ s.list # <<>> => lba["A"] # None
         /\ ~unfinished /\ s.list # <<>> => s.list = boot_snapshot_scan(lba["A"])
         /\ ~ready => s.list = <<>> /\ ~s.magic
<1> DEFINE t == boot_admin_read_best(bad)
<1>1. BestOf(t, bad)
  BY ReadBest DEF BootTypes
<1>2. <<>> \in Lists(saves)
  BY DEF Lists
<1>3. CASE ~ready
  BY <1>2, <1>3 DEF boot_refresh_status, NoCard
<1>4. CASE ready /\ t = None
  <2>1. s = [ok |-> TRUE, magic |-> FALSE, list |-> <<>>]
    BY <1>4 DEF boot_refresh_status
  <2>2. s \in [ok : BOOLEAN, magic : BOOLEAN, list : Lists(saves)]
    BY <1>2, <2>1
  <2>3. s.magic = FALSE /\ s.list = <<>>
    BY <2>1
  <2>4. ready
    BY <1>4
  <2> QED BY <2>2, <2>3, <2>4
<1>5. CASE ready /\ t # None
  <2>1. t \in Tables /\ lba["A"] # None /\ (~unfinished => SameLayout(t, lba["A"]))
    BY <1>1, <1>5, ReadLayout
  <2>2. s = [ok |-> TRUE, magic |-> TRUE, list |-> boot_snapshot_scan(t)]
    BY <1>5, <2>1, LayoutValid DEF boot_refresh_status
  <2>3. boot_snapshot_scan(t) \in Lists(saves)
    <3>1. saves \in Nat /\ snaps \in SUBSET Snaps(saves) /\ \A x, y \in snaps : x.lba = y.lba => x = y
      BY DEF BootTypes
    <3> QED BY <3>1, Scanned DEF Lists
  <2>4. ~unfinished => boot_snapshot_scan(t) = boot_snapshot_scan(lba["A"])
    BY <2>1, SameSlots
  <2>5. s \in [ok : BOOLEAN, magic : BOOLEAN, list : Lists(saves)]
    BY <2>2, <2>3
  <2>6. s.list = boot_snapshot_scan(t)
    BY <2>2
  <2>7. ready
    BY <1>5
  <2> HIDE DEF t
  <2> QED BY <2>1, <2>4, <2>5, <2>6, <2>7
<1> QED BY <1>3, <1>4, <1>5

\* The slots stay as they are
LEMMA KeptSame ==
  ASSUME snaps' = snaps PROVE SlotsKept
BY DEF SlotsKept, KeptFrom

\* Overwriting leaves slots that were there
LEMMA KeptOverwritten ==
  ASSUME BootTypes, NEW B, snaps' = Overwritten(B)
  PROVE  /\ SlotsKept /\ snaps' \in SUBSET Snaps(saves)
         /\ \A x, y \in snaps' : x.lba = y.lba => x = y
<1>1. saves \in Nat /\ snaps \in SUBSET Snaps(saves) /\ \A x, y \in snaps : x.lba = y.lba => x = y
  BY DEF BootTypes
<1> QED BY <1>1, Overwriting DEF SlotsKept

\* What power loss leaves is typed
LEMMA Blank ==
  ASSUME BootTypes PROVE NoTable \in Rams /\ Clear \in Pages /\ 0 \in 0 .. saves
BY DEF NoTable, Rams, MaybeTable, Clear, Pages, BootTypes

\* The menu starts: an earlier hand-off is cleared, and the list is that of the card
LEMMA StepMain ==
  ASSUME BootInv, NEW ready \in BOOLEAN, NEW bad \in SUBSET Copies, NEW yes \in BOOLEAN,
         boot_main(ready, bad, yes)
  PROVE  BootInv'
<1>1. BootTypes /\ CardOK
  BY DEF BootInv
<1>2. /\ st' = boot_refresh_status(ready, bad) /\ lba' = lba /\ snaps' = snaps /\ saves' = saves
      /\ sram' = sram /\ pick' = pick /\ report' = report /\ blind' = blind
      /\ formatted' = formatted /\ unfinished' = unfinished /\ page' = Clear /\ asked' = Fresh
      /\ ram' = NoTable
      /\ pc' = IF ~ready /\ ~yes THEN "jump" ELSE IF st'.magic THEN "menu" ELSE "setup"
  BY DEF boot_main, disk
<1>3. /\ st' \in [ok : BOOLEAN, magic : BOOLEAN, list : Lists(saves)]
      /\ st'.magic \/ st'.list # <<>> => lba["A"] # None
      /\ ~unfinished /\ st'.list # <<>> => st'.list = boot_snapshot_scan(lba["A"])
  BY <1>1, <1>2, Status
<1>4. faults' \in 0 .. MaxFaults
  <2>1. Cardinality(bad) + (IF ready THEN 0 ELSE 1) \in Nat
    BY BadCopies
  <2> QED BY <1>1, <2>1, Spending DEF boot_main, BootTypes
<1>5. BootTypes'
  <2>1. NoTable \in Rams /\ Clear \in Pages
    BY <1>1, Blank
  <2>2. pc' \in BootPcs
    BY <1>2 DEF BootPcs
  <2> QED BY <1>1, <1>2, <1>3, <1>4, <2>1, <2>2 DEF BootTypes
<1>6. CardOK'
  BY <1>1, <1>2, <1>3, KeptSame, Untouched
<1>7. FlowOK'
  <2>1. CASE pc' = "menu"
    <3>1. SameLayout(lba'["A"], lba["A"])
      BY <1>2 DEF SameLayout
    <3>2. ListOK'
      BY <1>2, <1>3, <3>1, SlotsSame DEF ListOK
    <3> QED BY <2>1, <3>2, InMenu
  <2>2. CASE pc' = "jump"
    <3>1. OnTheWay'
      BY <1>2, <2>2 DEF OnTheWay, Clear, Fresh
    <3> QED BY <2>2, <3>1 DEF FlowOK, AppTable, ListOK, JournalAreaAgrees, StartSound, ChoiceHonoured,
                              ConfigArrives, DoneFormatForgets, FormatForgets
  <2> QED BY <1>2, <2>1, <2>2, Resting
<1> QED BY <1>5, <1>6, <1>7 DEF BootInv

\* The list is read again
LEMMA StepRefresh ==
  ASSUME BootInv, NEW ready \in BOOLEAN, NEW bad \in SUBSET Copies, Refresh(ready, bad)
  PROVE  BootInv'
<1>1. BootTypes /\ CardOK
  BY DEF BootInv
<1>2. /\ st' = boot_refresh_status(ready, bad) /\ lba' = lba /\ snaps' = snaps /\ saves' = saves
      /\ sram' = sram /\ pick' = pick /\ report' = report /\ blind' = blind
      /\ formatted' = formatted /\ unfinished' = unfinished /\ page' = page
      /\ ram' = ram
      /\ pc \in {"menu", "setup", "forced"}
      /\ pc' = IF pc = "setup" /\ st'.magic THEN "menu" ELSE pc
  BY DEF Refresh, disk, history
<1>3. /\ st' \in [ok : BOOLEAN, magic : BOOLEAN, list : Lists(saves)]
      /\ st'.magic \/ st'.list # <<>> => lba["A"] # None
      /\ ~unfinished /\ st'.list # <<>> => st'.list = boot_snapshot_scan(lba["A"])
  BY <1>1, <1>2, Status
<1>4. faults' \in 0 .. MaxFaults
  <2>1. Cardinality(bad) + (IF ready THEN 0 ELSE 1) \in Nat
    BY BadCopies
  <2> QED BY <1>1, <2>1, Spending DEF Refresh, BootTypes
<1>5. BootTypes'
  <2>1. pc' \in BootPcs
    BY <1>2 DEF BootPcs
  <2> QED BY <1>1, <1>2, <1>3, <1>4, <2>1 DEF BootTypes
<1>6. CardOK'
  BY <1>1, <1>2, <1>3, KeptSame, Untouched
<1>7. FlowOK'
  <2>1. CASE pc' = "menu"
    <3>1. SameLayout(lba'["A"], lba["A"])
      BY <1>2 DEF SameLayout
    <3>2. ListOK'
      BY <1>2, <1>3, <3>1, SlotsSame DEF ListOK
    <3> QED BY <2>1, <3>2, InMenu
  <2> QED BY <1>2, <2>1, Resting
<1> QED BY <1>5, <1>6, <1>7 DEF BootInv

\* Steps after which nothing is on the card that was not there before, and the machine
\* is in none of the states that the invariant speaks of
LEMMA StepToRest ==
  ASSUME BootInv, lba' = lba, SlotsKept, snaps' \in SUBSET Snaps(saves),
         \A x, y \in snaps' : x.lba = y.lba => x = y,
         saves' = saves, formatted' = formatted, unfinished' = unfinished, blind' = blind,
         st' = st, pc' \in {"reset", "setup", "forced", "shell"},
         page' \in Pages, sram' \in 0 .. saves, pick' = pick, ram' \in Rams,
         faults' \in 0 .. MaxFaults, report' = report
  PROVE  BootInv'
<1>1. BootTypes /\ CardOK
  BY DEF BootInv
<1>2. BootTypes'
  BY <1>1 DEF BootTypes, BootPcs
<1>3. st'.magic \/ st'.list # <<>> => lba["A"] # None
  BY <1>1 DEF CardOK, Mirrored
<1>4. CardOK'
  BY <1>1, <1>3, Untouched
<1> QED BY <1>2, <1>4, Resting DEF BootInv

\* Steps within the machine, and the loss of its RAM
LEMMA StepIdle ==
  ASSUME BootInv, MenuSetup \/ EnterShell \/ Reset \/ PowerCut
  PROVE  BootInv'
<1>1. BootTypes /\ CardOK
  BY DEF BootInv
<1>2. /\ lba' = lba /\ snaps' = snaps /\ saves' = saves /\ pick' = pick /\ report' = report
      /\ blind' = blind /\ formatted' = formatted /\ unfinished' = unfinished /\ faults' = faults
      /\ st' = st
  BY DEF MenuSetup, EnterShell, Reset, PowerCut, disk, history, counts
<1>3. pc' \in {"reset", "forced", "shell"}
  BY DEF MenuSetup, EnterShell, Reset, PowerCut, PowerLoss
<1>4. (page' = page /\ sram' = sram /\ ram' = ram) \/ (page' = Clear /\ sram' = 0 /\ ram' = NoTable)
  BY DEF MenuSetup, EnterShell, Reset, PowerCut, PowerLoss
<1>5. NoTable \in Rams /\ Clear \in Pages /\ 0 \in 0 .. saves
  BY <1>1, Blank
<1>6. page' \in Pages /\ sram' \in 0 .. saves /\ ram' \in Rams /\ faults' \in 0 .. MaxFaults
      /\ snaps' \in SUBSET Snaps(saves) /\ \A x, y \in snaps' : x.lba = y.lba => x = y
  BY <1>1, <1>2, <1>4, <1>5 DEF BootTypes
<1> QED BY <1>2, <1>3, <1>6, KeptSame, StepToRest

\* The shell's format only loses slots
LEMMA StepShellFormat ==
  ASSUME BootInv, NEW n \in ckpt_sectors, ShellFormat(n)
  PROVE  BootInv'
<1>1. BootTypes /\ CardOK
  BY DEF BootInv
<1> DEFINE B == {Span(i, i) : i \in {m \in ckpt_sectors : m <= n}}
<1>2. /\ snaps' = Overwritten(B) /\ pc = "shell" /\ Spend(IF n = 2111 THEN 0 ELSE 1)
      /\ page' = Clear \/ page' = page
      /\ lba' = lba /\ sram' = sram /\ pc' = pc /\ st' = st /\ pick' = pick /\ ram' = ram
      /\ saves' = saves /\ report' = report /\ blind' = blind /\ formatted' = formatted
      /\ unfinished' = unfinished
  BY DEF ShellFormat, history
<1>3. faults' \in 0 .. MaxFaults
  <2>1. (IF n = 2111 THEN 0 ELSE 1) \in Nat
    OBVIOUS
  <2> QED BY <1>1, <1>2, <2>1, Spending DEF BootTypes
<1>4. page' \in Pages /\ sram' \in 0 .. saves /\ ram' \in Rams
  BY <1>1, <1>2 DEF BootTypes, Clear, Pages
<1> HIDE DEF B
<1>5. /\ SlotsKept /\ snaps' \in SUBSET Snaps(saves)
      /\ \A x, y \in snaps' : x.lba = y.lba => x = y
  BY <1>1, <1>2, KeptOverwritten
<1> QED BY <1>2, <1>3, <1>4, <1>5, StepToRest

\* The shell's boot hands its configuration over
LEMMA StepShellBoot ==
  ASSUME BootInv, NEW v \in Intervals, ShellBoot(v)
  PROVE  BootInv'
<1>1. BootTypes /\ CardOK
  BY DEF BootInv
<1>2. /\ page' = [kind |-> "cfg", ckptint |-> v] /\ asked' = [Fresh EXCEPT !.ckptint = v] /\ pc' = "jump"
      /\ lba' = lba /\ snaps' = snaps /\ sram' = sram /\ st' = st /\ pick' = pick /\ ram' = ram
      /\ saves' = saves /\ faults' = faults /\ report' = report /\ blind' = blind
      /\ formatted' = formatted /\ unfinished' = unfinished
  BY DEF ShellBoot, boot_handoff_publish, disk, counts
<1>3. page' \in Pages /\ pc' \in BootPcs
  BY <1>2 DEF Pages, BootPcs
<1>4. BootTypes'
  BY <1>1, <1>2, <1>3 DEF BootTypes
<1>5. CardOK'
  <2>1. st'.magic \/ st'.list # <<>> => lba["A"] # None
    BY <1>1, <1>2 DEF CardOK, Mirrored
  <2> QED BY <1>1, <1>2, <2>1, KeptSame, Untouched
<1>6. OnTheWay'
  <2>1. page'.kind = "cfg" /\ page'.ckptint = v /\ asked'.how = "fresh" /\ asked'.ckptint = v
    BY <1>2 DEF Fresh
  <2> QED BY <1>2, <2>1 DEF OnTheWay
<1>7. FlowOK'
  BY <1>2, <1>6 DEF FlowOK, AppTable, ListOK, JournalAreaAgrees, StartSound, ChoiceHonoured,
                    ConfigArrives, DoneFormatForgets, FormatForgets
<1> QED BY <1>4, <1>5, <1>7 DEF BootInv

-----------------------------------------------------------------------------
(* The boot menu: choosing and restoring *)

\* A table with another target, as boot_admin_update_target writes it
Retargeted(t, g) == [t EXCEPT !.gen = NextGen(@), !.target = g]

\* It is a table with the same areas
LEMMA Retarget ==
  ASSUME NEW t \in Tables, NEW g \in TargetsPossible
  PROVE  /\ Retargeted(t, g) \in Tables /\ SameLayout(Retargeted(t, g), t)
         /\ Retargeted(t, g).target = g /\ Retargeted(t, g).last = t.last
         /\ Retargeted(t, g).gen = NextGen(t.gen)
<1>1. NextGen(t.gen) \in 1 .. GenMax
  <2>1. t.gen \in 1 .. GenMax /\ GenMax \in Nat
    BY TableFields, BootDiskAssumption
  <2> QED BY <2>1 DEF NextGen
<1>2. t \in [fmt : {"RWDI", "RWSS"}, gen : 1 .. GenMax, jstart : Nat, jblocks : Nat,
             start : Nat, slots : 1 .. 64, per : Nat, blocks : Nat, rwfs : Nat,
             target : TargetsPossible, last : 0 .. MaxSnapshots]
      /\ Fits(t) /\ t.rwfs = IF t.fmt = "RWSS" THEN 0 ELSE t.start + t.blocks
  BY DEF Tables
<1> DEFINE u == Retargeted(t, g)
<1>3. /\ u \in [fmt : {"RWDI", "RWSS"}, gen : 1 .. GenMax, jstart : Nat, jblocks : Nat,
                start : Nat, slots : 1 .. 64, per : Nat, blocks : Nat, rwfs : Nat,
                target : TargetsPossible, last : 0 .. MaxSnapshots]
      /\ SameLayout(u, t) /\ u.target = g /\ u.last = t.last /\ u.gen = NextGen(t.gen)
      /\ u.fmt = t.fmt /\ u.rwfs = t.rwfs
  BY <1>1, <1>2 DEF Retargeted, SameLayout
<1> HIDE DEF u
<1>4. Fits(u) /\ u.rwfs = IF u.fmt = "RWSS" THEN 0 ELSE u.start + u.blocks
  BY <1>2, <1>3 DEF Fits, SameLayout
<1>5. u \in Tables
  BY <1>3, <1>4 DEF Tables
<1> QED BY <1>3, <1>5 DEF u

\* What an update of the target leaves on the card
LEMMA TargetOutcome ==
  ASSUME BootTypes, CardOK, lba["A"] # None, NEW g \in TargetsPossible, NEW bad \in SUBSET Copies,
         NEW o \in boot_admin_update_target(g, bad),
         lba' = o.lba, blind' = (blind \/ Saturated(bad)), snaps' = snaps,
         formatted' = formatted, unfinished' = unfinished
  PROVE  /\ lba' \in [Copies -> MaybeTable] /\ CardOK' /\ lba'["A"] # None
         /\ o.cost \in {0, 1} /\ o.rc \in {"ok", "err", "off"}
         /\ ~unfinished => SameLayout(lba'["A"], lba["A"])
         /\ o.rc = "ok" => lba'["A"] = lba'["B"] /\ lba'["A"].target = g
         /\ lba["A"] = lba["B"] => \A c \in Copies : lba'[c] # None /\ SameLayout(lba'[c], lba["A"])
<1> DEFINE adm == boot_admin_read_best(bad)
<1>1. BestOf(adm, bad)
  BY ReadBest DEF BootTypes
<1>2. SlotsKept
  BY KeptSame
<1>3. SameLayout(lba["A"], lba["A"])
  BY DEF SameLayout
<1>4. CASE adm = None
  <2>1. o = [lba |-> lba, rc |-> "err", cost |-> 0]
    BY <1>4 DEF boot_admin_update_target
  <2>2. lba' = lba /\ o.rc = "err" /\ o.cost = 0
    BY <2>1
  <2>3. blind => blind'
    OBVIOUS
  <2>4. CardOK'
    BY <1>2, <2>2, <2>3, Untouched
  <2>5. lba' \in [Copies -> MaybeTable]
    BY <2>2 DEF BootTypes
  <2> QED BY <1>3, <2>2, <2>4, <2>5 DEF Copies
<1>5. CASE adm # None
  <2> DEFINE t == Retargeted(adm, g)
  <2>1. adm \in Tables
    BY <1>1, <1>5, ReadLayout
  <2>2. /\ t \in Tables /\ SameLayout(t, adm) /\ t.target = g /\ t.gen = NextGen(adm.gen)
    BY <2>1, Retarget
  <2>3. o \in write_both(t)
    BY <1>5 DEF boot_admin_update_target, Retargeted
  <2>4. PICK c \in Copies \ bad : ReadAs(adm, lba[c])
    BY <1>1, <1>5 DEF BestOf
  <2>5. c \in Copies /\ lba[c] # None /\ SameLayout(adm, lba[c])
    BY <1>5, <2>4 DEF ReadAs, Like
  <2>6. SameLayout(t, lba[c])
    BY <2>2, <2>5 DEF SameLayout
  <2>7. ~blind' => t.gen > lba["B"].gen
    <3> SUFFICES ASSUME ~blind' PROVE t.gen > lba["B"].gen
      OBVIOUS
    <3>1. ~blind /\ adm.gen # GenMax
      BY DEF Saturated
    <3>2. adm.gen >= lba["B"].gen /\ adm.gen \in Nat /\ lba["B"].gen \in Nat
      <4>1. lba["B"] \in MaybeTable /\ lba \in [Copies -> MaybeTable] /\ Mirrored
        BY DEF BootTypes, CardOK, Copies
      <4> HIDE DEF adm
      <4>2. adm.gen >= lba["B"].gen /\ adm.gen \in Nat
        BY <1>1, <1>5, <3>1, <4>1, SeenIsLate
      <4> QED BY <4>1, <4>2, Generations
    <3>3. t.gen = adm.gen + 1
      BY <2>2, <3>1 DEF NextGen
    <3> QED BY <3>2, <3>3
  <2> HIDE DEF t, adm
  <2>8. /\ lba' \in {lba, [lba EXCEPT !["A"] = t], [x \in Copies |-> t]}
        /\ o.rc \in {"ok", "err", "off"} /\ o.cost \in {0, 1}
        /\ o.rc = "ok" => lba' = [x \in Copies |-> t]
    BY <2>3, Outcomes
  <2>9. blind => blind'
    OBVIOUS
  <2>10. /\ lba' \in [Copies -> MaybeTable] /\ CardOK'
         /\ lba'["A"] # None
         /\ ~unfinished => SameLayout(lba'["A"], lba["A"])
         /\ lba'["A"] = lba["A"] \/ lba'["A"] = t
         /\ lba'["B"] = lba["B"] \/ lba'["B"] = t
    BY <1>2, <2>2, <2>5, <2>6, <2>7, <2>8, <2>9, Updated
  <2>11. o.rc = "ok" => lba'["A"] = lba'["B"] /\ lba'["A"].target = g
    BY <2>2, <2>8 DEF Copies
  <2>12. lba["A"] = lba["B"] => \A x \in Copies : lba'[x] # None /\ SameLayout(lba'[x], lba["A"])
    <3> SUFFICES ASSUME lba["A"] = lba["B"]
                 PROVE  /\ lba'["A"] # None /\ SameLayout(lba'["A"], lba["A"])
                        /\ lba'["B"] # None /\ SameLayout(lba'["B"], lba["A"])
      BY DEF Copies
    <3>1. lba[c] = lba["A"] /\ SameLayout(t, lba["A"]) /\ t # None
      BY <2>2, <2>5, <2>6, NoneFields DEF Copies
    <3> QED BY <1>3, <2>10, <3>1
  <2> QED BY <2>8, <2>10, <2>11, <2>12
<1> QED BY <1>4, <1>5

\* The slots among V that the target g may mean
Meant(V, g) ==
  LET pinned == {s \in V : s.slot = g.slot /\ g.seq \in {0, s.seq}} IN
  IF g.mode = "snapshot" /\ pinned # {} THEN pinned
  ELSE IF g.mode = "fresh" \/ Listed(V) = <<>> THEN {} ELSE {Listed(V)[1]}

\* What the restore takes depends on the valid slots and the target
LEMMA CandidatesMeant ==
  ASSUME NEW t
  PROVE  Candidates(t) = Meant(ValidSlots(t), t.target)
<1>1. boot_snapshot_scan(t) = Listed(ValidSlots(t))
  BY DEF boot_snapshot_scan, Listed
<1> QED BY <1>1 DEF Candidates, Meant

\* The same after a step
LEMMA CandidatesMeantNext ==
  Candidates(lba["A"])' = Meant(ValidSlots(lba["A"])', lba'["A"].target)
<1>1. boot_snapshot_scan(lba["A"])' = Listed(ValidSlots(lba["A"])')
  BY DEF boot_snapshot_scan, Listed
<1> QED BY <1>1 DEF Candidates, Meant

\* The menu's choice: nothing else than what was asked for can be restored
LEMMA StepChoose ==
  ASSUME BootInv, pc = "menu", lba["A"] # None, NEW g \in TargetsPossible,
         NEW bad \in SUBSET Copies, NEW ask, NEW next \in {"restore", "jump"},
         Choose(g, ask, next, bad),
         ask.ckptint = "default",
         next = "jump" => ask.how = "fresh",
         next = "restore" =>
           /\ ask.how \in {"recent", "snapshot"}
           /\ ~unfinished => \A s \in Meant(ValidSlots(lba["A"]), g) : s.id = ask.id
  PROVE  BootInv'
<1>1. BootTypes /\ CardOK /\ ListOK
  BY DEF BootInv, FlowOK
<1>2. PICK o \in boot_admin_update_target(g, bad) :
        /\ Spend(Cardinality(bad) + o.cost)
        /\ lba' = o.lba /\ report' = (IF o.rc = "ok" THEN "ok" ELSE "err")
        /\ blind' = (blind \/ Saturated(bad))
        /\ asked' = ask
        /\ IF o.rc = "off" THEN PowerLoss
           ELSE /\ IF o.rc = "ok" THEN pc' = next /\ page' = Clear ELSE UNCHANGED <<pc, page>>
                /\ UNCHANGED <<sram, ram>>
        /\ UNCHANGED <<snaps, st, pick, app, saves, ckpts, boots, formatted, unfinished>>
  BY DEF Choose
<1>3. /\ lba' \in [Copies -> MaybeTable] /\ CardOK' /\ lba'["A"] # None
      /\ o.cost \in {0, 1} /\ o.rc \in {"ok", "err", "off"}
      /\ ~unfinished => SameLayout(lba'["A"], lba["A"])
      /\ o.rc = "ok" => lba'["A"] = lba'["B"] /\ lba'["A"].target = g
  BY <1>1, <1>2, TargetOutcome
<1>4. faults' \in 0 .. MaxFaults
  <2>1. Cardinality(bad) + o.cost \in Nat
    BY <1>3, BadCopies
  <2> QED BY <1>1, <1>2, <2>1, Spending DEF BootTypes
<1>5. blind' \in BOOLEAN
  BY <1>2
<1>6. BootTypes'
  <2>1. pc' \in BootPcs
    BY <1>2, <1>3 DEF BootPcs, PowerLoss
  <2>2. page' \in Pages /\ sram' \in 0 .. saves /\ ram' \in Rams
    <3>1. page \in Pages /\ sram \in 0 .. saves /\ ram \in Rams
      BY <1>1 DEF BootTypes
    <3> QED BY <1>1, <1>2, <1>3, <3>1, Blank DEF PowerLoss
  <2>3. report' \in {"ok", "err"}
    BY <1>2
  <2> QED BY <1>1, <1>2, <1>3, <1>4, <1>5, <2>1, <2>2, <2>3 DEF BootTypes
<1>7. ~unfinished => /\ ValidSlots(lba["A"])' = ValidSlots(lba["A"])
                     /\ boot_snapshot_scan(lba["A"])' = boot_snapshot_scan(lba["A"])
  BY <1>2, <1>3, SlotsSame
<1>8. pc' \in {"menu", "restore"} => ListOK'
  BY <1>1, <1>2, <1>7 DEF ListOK
<1>9. FlowOK'
  <2>1. CASE o.rc = "off"
    BY <1>2, <2>1, Resting DEF PowerLoss
  <2>2. CASE o.rc = "err"
    BY <1>2, <1>8, <2>2, InMenu
  <2>3. CASE o.rc = "ok"
    <3>1. pc' = next /\ page' = Clear /\ asked' = ask
      BY <1>2, <2>3
    <3>2. CASE next = "jump"
      <4>1. OnTheWay'
        BY <3>1, <3>2 DEF OnTheWay, Clear
      <4> QED BY <3>1, <3>2, <4>1
              DEF FlowOK, AppTable, ListOK, JournalAreaAgrees, StartSound, ChoiceHonoured,
                  ConfigArrives, DoneFormatForgets, FormatForgets
    <3>3. CASE next = "restore"
      <4>1. ~unfinished' => \A s \in Candidates(lba["A"])' : s.id = asked'.id
        <5> SUFFICES ASSUME ~unfinished PROVE \A s \in Candidates(lba["A"])' : s.id = ask.id
          BY <1>2, <3>1
        <5>1. Candidates(lba["A"])' = Meant(ValidSlots(lba["A"]), g)
          BY <1>3, <1>7, <2>3, CandidatesMeantNext
        <5> QED BY <3>3, <5>1
      <4>2. OnTheWay'
        BY <1>3, <2>3, <3>1, <3>3, <4>1 DEF OnTheWay
      <4> QED BY <1>8, <3>1, <3>3, <4>2
              DEF FlowOK, AppTable, JournalAreaAgrees, StartSound, ChoiceHonoured,
                  ConfigArrives, DoneFormatForgets, FormatForgets
    <3> QED BY <3>2, <3>3
  <2> QED BY <1>3, <2>1, <2>2, <2>3
<1> QED BY <1>3, <1>6, <1>9 DEF BootInv

\* The menu's list is that of the valid slots
LEMMA MenuList ==
  ASSUME BootInv, pc = "menu", st.list # <<>>
  PROVE  /\ lba["A"] # None
         /\ ~unfinished => /\ st.list = Listed(ValidSlots(lba["A"])) /\ st.list \in Seq(ValidSlots(lba["A"]))
                           /\ \A x, y \in ValidSlots(lba["A"]) : x.slot = y.slot => x = y
                           /\ ValidSlots(lba["A"]) \subseteq Snaps(saves)
<1>1. saves \in Nat /\ snaps \in SUBSET Snaps(saves) /\ \A x, y \in snaps : x.lba = y.lba => x = y
  BY DEF BootInv, BootTypes
<1>2. lba["A"] # None
  BY DEF BootInv, CardOK, Mirrored
<1>3. ~unfinished => st.list = boot_snapshot_scan(lba["A"])
  BY DEF BootInv, FlowOK, ListOK
<1>4. /\ boot_snapshot_scan(lba["A"]) = Listed(ValidSlots(lba["A"]))
      /\ boot_snapshot_scan(lba["A"]) \in Seq(ValidSlots(lba["A"]))
      /\ \A x, y \in ValidSlots(lba["A"]) : x.slot = y.slot => x = y
      /\ ValidSlots(lba["A"]) \in SUBSET snaps
  BY <1>1, Scanned
<1> QED BY <1>1, <1>2, <1>3, <1>4

\* "Boot recent" restores the first of the list
LEMMA StepMenuRecent ==
  ASSUME BootInv, NEW bad \in SUBSET Copies, MenuRecent(bad)
  PROVE  BootInv'
<1> DEFINE ask == [Fresh EXCEPT !.how = "recent", !.id = st.list[1].id]
<1>1. pc = "menu" /\ st.list # <<>> /\ Choose(Recent, ask, "restore", bad)
  BY DEF MenuRecent
<1>2. lba["A"] # None /\ (~unfinished => st.list = Listed(ValidSlots(lba["A"])))
  BY <1>1, MenuList
<1>3. Recent \in TargetsPossible
  BY DEF TargetsPossible
<1>4. ask.ckptint = "default" /\ ask.how = "recent" /\ ask.id = st.list[1].id
  BY DEF Fresh
<1>5. ~unfinished => \A s \in Meant(ValidSlots(lba["A"]), Recent) : s.id = ask.id
  <2>1. Recent.mode = "recent"
    BY DEF Recent, Target
  <2> QED BY <1>2, <1>4, <2>1 DEF Meant
<1> HIDE DEF ask
<1> QED BY <1>1, <1>2, <1>3, <1>4, <1>5, StepChoose

\* A snapshot of the list is pinned by its slot and number, and no other has both
LEMMA StepMenuSnapshot ==
  ASSUME BootInv, NEW rank \in 1 .. 3, NEW bad \in SUBSET Copies, MenuSnapshot(rank, bad)
  PROVE  BootInv'
<1> DEFINE s == st.list[rank]
           g == Target("snapshot", s.slot, s.seq)
           ask == [Fresh EXCEPT !.how = "snapshot", !.id = s.id]
<1>1. pc = "menu" /\ rank <= Len(st.list) /\ Choose(g, ask, "restore", bad)
  BY DEF MenuSnapshot
<1>2. st.list \in Seq(Snaps(saves)) /\ saves \in 0 .. MaxSnapshots
  BY DEF BootInv, BootTypes, Lists
<1>3. st.list # <<>> /\ s \in Snaps(saves)
  BY <1>1, <1>2
<1>4. s.slot \in 0 .. 63 /\ s.seq \in 1 .. saves
  BY <1>3 DEF Snaps
<1>5. MaxSnapshots \in Nat
  BY BootDiskAssumption
<1>6. s.seq \in 1 .. MaxSnapshots /\ s.seq # 0
  BY <1>2, <1>4, <1>5
<1>7. g \in TargetsPossible
  BY <1>4, <1>6 DEF TargetsPossible
<1>8. ask.ckptint = "default" /\ ask.how = "snapshot" /\ ask.id = s.id
  BY DEF Fresh
<1>9. ~unfinished => \A x \in Meant(ValidSlots(lba["A"]), g) : x.id = ask.id
  <2> SUFFICES ASSUME ~unfinished, NEW x \in Meant(ValidSlots(lba["A"]), g) PROVE x.id = s.id
    BY <1>8
  <2> DEFINE V == ValidSlots(lba["A"])
  <2>1. st.list \in Seq(V) /\ \A y, z \in V : y.slot = z.slot => y = z
    BY <1>1, <1>3, MenuList
  <2>2. s \in V
    BY <1>1, <2>1
  <2>3. g.mode = "snapshot" /\ g.slot = s.slot /\ g.seq = s.seq
    BY DEF Target
  <2> HIDE DEF s, V, g
  <2>4. s \in {y \in V : y.slot = g.slot /\ g.seq \in {0, y.seq}}
    BY <2>2, <2>3
  <2>5. x \in {y \in V : y.slot = g.slot /\ g.seq \in {0, y.seq}}
    BY <2>3, <2>4 DEF Meant, V
  <2>6. x = s
    BY <2>1, <2>2, <2>3, <2>5
  <2> QED BY <2>6
<1> HIDE DEF ask, g
<1> QED BY <1>1, <1>3, <1>7, <1>8, <1>9, MenuList, StepChoose

\* "Boot fresh" hands nothing over
LEMMA StepMenuFresh ==
  ASSUME BootInv, NEW bad \in SUBSET Copies, MenuFresh(bad)
  PROVE  BootInv'
<1> DEFINE g == Target("fresh", 0, 0)
<1>1. CASE st.magic
  <2>1. pc = "menu" /\ Choose(g, Fresh, "jump", bad)
    BY <1>1 DEF MenuFresh
  <2>2. lba["A"] # None
    BY <1>1 DEF BootInv, CardOK, Mirrored
  <2>3. g \in TargetsPossible /\ Fresh.ckptint = "default" /\ Fresh.how = "fresh"
    BY DEF TargetsPossible, Fresh
  <2> HIDE DEF g
  <2> QED BY <2>1, <2>2, <2>3, StepChoose
<1>2. CASE ~st.magic
  <2>1. BootTypes /\ CardOK
    BY DEF BootInv
  <2>2. /\ pc' = "jump" /\ page' = Clear /\ asked' = Fresh /\ lba' = lba /\ snaps' = snaps /\ sram' = sram
        /\ st' = st /\ pick' = pick /\ ram' = ram /\ saves' = saves /\ faults' = faults
        /\ report' = report /\ blind' = blind /\ formatted' = formatted /\ unfinished' = unfinished
    BY <1>2 DEF MenuFresh, disk, counts
  <2>3. page' \in Pages /\ pc' \in BootPcs
    BY <2>2 DEF Clear, Pages, BootPcs
  <2>4. BootTypes'
    BY <2>1, <2>2, <2>3 DEF BootTypes
  <2>5. st'.magic \/ st'.list # <<>> => lba["A"] # None
    BY <2>1, <2>2 DEF CardOK, Mirrored
  <2>6. CardOK'
    BY <2>1, <2>2, <2>5, KeptSame, Untouched
  <2>7. OnTheWay'
    BY <2>2 DEF OnTheWay, Clear, Fresh
  <2>8. FlowOK'
    BY <2>2, <2>7 DEF FlowOK, AppTable, ListOK, JournalAreaAgrees, StartSound, ChoiceHonoured,
                      ConfigArrives, DoneFormatForgets, FormatForgets
  <2> QED BY <2>4, <2>6, <2>8 DEF BootInv
<1> QED BY <1>1, <1>2

\* What is copied into SRAM is what was asked for
LEMMA StepRestore ==
  ASSUME BootInv, NEW ready \in BOOLEAN, NEW bad \in SUBSET Copies, NEW copied \in BOOLEAN,
         Restore(ready, bad, copied)
  PROVE  BootInv'
<1>1. BootTypes /\ CardOK /\ ListOK /\ OnTheWay
  BY DEF BootInv, FlowOK
<1> DEFINE t == boot_admin_read_best(bad)
           c == IF ready /\ t # None /\ boot_snapshot_layout_valid(t) THEN Candidates(t) ELSE {}
<1>2. /\ pc = "restore" /\ lba' = lba /\ snaps' = snaps /\ page' = page /\ st' = st /\ saves' = saves
      /\ asked' = asked /\ report' = report /\ blind' = blind /\ formatted' = formatted
      /\ unfinished' = unfinished
      /\ Spend(Cardinality(bad) + (IF ready THEN 0 ELSE 1) + (IF copied THEN 0 ELSE 1))
  BY DEF Restore, disk, history
<1>3. lba["A"] # None /\ lba["A"] = lba["B"] /\ asked.how \in {"recent", "snapshot"} /\ asked.ckptint = "default"
      /\ (~unfinished => \A s \in Candidates(lba["A"]) : s.id = asked.id)
  BY <1>1, <1>2 DEF OnTheWay
<1>4. t # None => Candidates(t) = Candidates(lba["A"])
  <2> SUFFICES ASSUME t # None PROVE Candidates(t) = Candidates(lba["A"])
    OBVIOUS
  <2>1. BestOf(t, bad)
    BY <1>1, ReadBest DEF BootTypes
  <2> HIDE DEF t
  <2>2. PICK x \in Copies \ bad : ReadAs(t, lba[x])
    BY <2>1 DEF BestOf
  <2>3. lba[x] = lba["A"]
    BY <1>3, <2>2 DEF Copies
  <2>4. SameLayout(t, lba["A"]) /\ t.target = lba["A"].target
    BY <2>2, <2>3 DEF ReadAs, Like
  <2>5. ValidSlots(t) = ValidSlots(lba["A"])
    BY <2>4, SameSlots
  <2> QED BY <2>4, <2>5, CandidatesMeant
<1>5. c \subseteq Candidates(lba["A"])
  BY <1>4
<1>6. Candidates(lba["A"]) \subseteq ValidSlots(lba["A"]) /\ ValidSlots(lba["A"]) \subseteq snaps
  <2> DEFINE V == ValidSlots(lba["A"])
  <2>1. saves \in Nat /\ snaps \in SUBSET Snaps(saves) /\ \A x, y \in snaps : x.lba = y.lba => x = y
    BY <1>1 DEF BootTypes
  <2>2. Listed(V) \in Seq(V) /\ V \in SUBSET snaps
    BY <2>1, Scanned
  <2>3. Candidates(lba["A"]) = Meant(V, lba["A"].target)
    BY CandidatesMeant
  <2> HIDE DEF V
  <2>4. Listed(V) # <<>> => Listed(V)[1] \in V
    BY <2>2
  <2>5. Meant(V, lba["A"].target) \subseteq V
    BY <2>4 DEF Meant
  <2> QED BY <2>2, <2>3, <2>5 DEF V
<1>7. \/ pc' = "menu" /\ sram' = sram /\ ram' = ram /\ pick' = pick
      \/ pc' = "menu" /\ sram' = 0 /\ ram' = ram /\ pick' = pick
      \/ \E s \in c : pc' = "restored" /\ sram' = s.id /\ ram' = s.ram /\ pick' = s.seq
  <2>1. IF c = {} THEN copied /\ pc' = "menu" /\ UNCHANGED <<sram, ram, pick>>
        ELSE \E s \in c :
               IF copied /\ ~s.torn
                 THEN pc' = "restored" /\ sram' = s.id /\ ram' = s.ram /\ pick' = s.seq
                 ELSE pc' = "menu" /\ sram' = 0 /\ UNCHANGED <<ram, pick>>
    BY DEF Restore
  <2> HIDE DEF c
  <2> QED BY <2>1
<1> HIDE DEF c, t
<1>8. faults' \in 0 .. MaxFaults
  <2>1. Cardinality(bad) + (IF ready THEN 0 ELSE 1) + (IF copied THEN 0 ELSE 1) \in Nat
    BY BadCopies
  <2> QED BY <1>1, <1>2, <2>1, Spending DEF BootTypes
<1>9. CardOK'
  <2>1. st'.magic \/ st'.list # <<>> => lba["A"] # None
    BY <1>3
  <2> QED BY <1>1, <1>2, <2>1, KeptSame, Untouched
<1>10. ListOK'
  <2>1. SameLayout(lba'["A"], lba["A"])
    BY <1>2 DEF SameLayout
  <2>2. boot_snapshot_scan(lba["A"])' = boot_snapshot_scan(lba["A"])
    BY <1>2, <2>1, SlotsSame
  <2> QED BY <1>1, <1>2, <2>2 DEF ListOK
<1>11. CASE pc' = "menu" /\ ram' = ram /\ pick' = pick /\ (sram' = sram \/ sram' = 0)
  <2>1. pc' \in BootPcs /\ sram' \in 0 .. saves
    BY <1>1, <1>11 DEF BootPcs, BootTypes
  <2>2. BootTypes'
    BY <1>1, <1>2, <1>8, <1>11, <2>1 DEF BootTypes
  <2> QED BY <1>9, <1>10, <1>11, <2>2, InMenu DEF BootInv
<1>12. CASE \E s \in c : pc' = "restored" /\ sram' = s.id /\ ram' = s.ram /\ pick' = s.seq
  <2>1. PICK s \in c : pc' = "restored" /\ sram' = s.id /\ ram' = s.ram /\ pick' = s.seq
    BY <1>12
  <2>2. s \in Candidates(lba["A"]) /\ s \in ValidSlots(lba["A"]) /\ s \in snaps
    BY <1>5, <1>6
  <2>3. s.id \in 1 .. saves /\ s.seq \in 1 .. saves /\ s.ram \in Rams /\ saves \in Nat
    BY <1>1, <2>2 DEF BootTypes, Snaps
  <2>4. pc' \in BootPcs /\ sram' \in 0 .. saves /\ pick' \in 0 .. saves /\ ram' \in Rams
    BY <2>1, <2>3 DEF BootPcs
  <2>5. BootTypes'
    BY <1>1, <1>2, <1>8, <2>4 DEF BootTypes
  <2>6. Image_OK'
    <3>1. ~unfinished => s.id = asked.id
      BY <1>3, <2>2
    <3>2. ~unfinished /\ ~blind => s.id > formatted
      BY <1>1, <1>3, <2>2 DEF CardOK, Remembered
    <3> QED BY <1>2, <1>3, <2>1, <3>1, <3>2 DEF Image_OK
  <2>7. OnTheWay'
    BY <1>2, <1>3, <2>1, <2>6 DEF OnTheWay
  <2>8. FlowOK'
    BY <1>10, <2>1, <2>7 DEF FlowOK, AppTable, JournalAreaAgrees, StartSound, ChoiceHonoured,
                             ConfigArrives, DoneFormatForgets, FormatForgets
  <2> QED BY <1>9, <2>5, <2>8 DEF BootInv
<1> QED BY <1>7, <1>11, <1>12

\* The resume is handed over
LEMMA HandOver ==
  ASSUME BootTypes, CardOK', Image_OK, sram' = sram, asked' = asked, formatted' = formatted,
         unfinished' = unfinished, blind => blind', pc' = "jump",
         NEW j \in Nat, page' = [kind |-> "resume", seq |-> pick, jstart |-> j],
         \A c \in Copies : lba'[c] # None /\ lba'[c].jstart = j
  PROVE  FlowOK' /\ page' \in Pages
<1>1. Image_OK'
  BY DEF Image_OK
<1>2. page'.kind = "resume" /\ page'.jstart = j
  OBVIOUS
<1>3. OnTheWay'
  BY <1>1, <1>2 DEF OnTheWay
<1>4. pick \in Nat
  BY DEF BootTypes
<1>5. page' \in Pages
  BY <1>4 DEF Pages
<1> QED BY <1>3, <1>5 DEF FlowOK, AppTable, ListOK, JournalAreaAgrees, StartSound, ChoiceHonoured,
                          ConfigArrives, DoneFormatForgets, FormatForgets

\* The hand-off names the journal area of both copies, also if the update of the target fails
LEMMA StepRestoreEnd ==
  ASSUME BootInv, NEW bad \in SUBSET Copies, NEW bad2 \in SUBSET Copies, RestoreEnd(bad, bad2)
  PROVE  BootInv'
<1>1. BootTypes /\ CardOK /\ ListOK /\ OnTheWay
  BY DEF BootInv, FlowOK
<1> DEFINE adm == boot_admin_read_best(bad)
           resume == [kind |-> "resume", seq |-> pick, jstart |-> adm.jstart]
<1>2. /\ pc = "restored" /\ pick' = 0 /\ snaps' = snaps /\ st' = st /\ saves' = saves /\ asked' = asked
      /\ formatted' = formatted /\ unfinished' = unfinished
  BY DEF RestoreEnd
<1>3. lba["A"] # None /\ lba["A"] = lba["B"] /\ Image_OK
  BY <1>1, <1>2 DEF OnTheWay
<1>4. BestOf(adm, bad)
  BY <1>1, ReadBest DEF BootTypes
<1>5. st'.magic \/ st'.list # <<>> => lba["A"] # None
  BY <1>3
<1>6. CASE adm = None
  <2>1. /\ Spend(Cardinality(bad)) /\ pc' = "menu" /\ lba' = lba /\ page' = page /\ sram' = sram
        /\ ram' = ram /\ report' = report /\ blind' = blind
    BY <1>6 DEF RestoreEnd
  <2>2. faults' \in 0 .. MaxFaults
    BY <1>1, <2>1, BadCopies, Spending DEF BootTypes
  <2>3. pc' \in BootPcs /\ pick' \in 0 .. saves
    BY <1>1, <1>2, <2>1 DEF BootPcs, BootTypes
  <2>4. BootTypes'
    BY <1>1, <1>2, <2>1, <2>2, <2>3 DEF BootTypes
  <2>5. CardOK'
    BY <1>1, <1>2, <1>5, <2>1, KeptSame, Untouched
  <2>6. SameLayout(lba'["A"], lba["A"])
    BY <2>1 DEF SameLayout
  <2>7. ListOK'
    BY <1>1, <1>2, <2>1, <2>6, SlotsSame DEF ListOK
  <2> QED BY <2>1, <2>4, <2>5, <2>7, InMenu DEF BootInv
<1>7. CASE adm # None
  <2>1. PICK x \in Copies \ bad : ReadAs(adm, lba[x])
    BY <1>4, <1>7 DEF BestOf
  <2>2. lba[x] = lba["A"]
    BY <1>3, <2>1 DEF Copies
  <2>3. adm \in Tables /\ SameLayout(adm, lba["A"])
    BY <1>7, <2>1, <2>2 DEF ReadAs, Like
  <2>4. adm.jstart \in Nat /\ adm.jstart = lba["A"].jstart
    BY <2>3, TableFields DEF SameLayout
  <2>5. CASE Consumed(adm)
    <3>1. PICK o \in boot_admin_update_target(Recent, bad2) :
             /\ Spend(Cardinality(bad) + Cardinality(bad2) + o.cost)
             /\ lba' = o.lba /\ report' = (IF o.rc = "ok" THEN "ok" ELSE "err")
             /\ blind' = (blind \/ Saturated(bad2))
             /\ IF o.rc = "off" THEN PowerLoss
                ELSE page' = resume /\ pc' = "jump" /\ UNCHANGED <<sram, ram>>
      BY <1>7, <2>5 DEF RestoreEnd
    <3>2. Recent \in TargetsPossible
      BY DEF TargetsPossible
    <3>3. /\ lba' \in [Copies -> MaybeTable] /\ CardOK' /\ o.cost \in {0, 1} /\ o.rc \in {"ok", "err", "off"}
          /\ \A c \in Copies : lba'[c] # None /\ SameLayout(lba'[c], lba["A"])
      BY <1>1, <1>2, <1>3, <3>1, <3>2, TargetOutcome
    <3>4. faults' \in 0 .. MaxFaults
      <4>1. Cardinality(bad) + Cardinality(bad2) + o.cost \in Nat
        BY <3>3, BadCopies
      <4> QED BY <1>1, <3>1, <4>1, Spending DEF BootTypes
    <3>5. report' \in {"ok", "err"} /\ blind' \in BOOLEAN /\ (blind => blind')
      BY <3>1
    <3>6. pick' \in 0 .. saves
      BY <1>1, <1>2 DEF BootTypes
    <3>7. CASE o.rc = "off"
      <4>1. pc' = "reset" /\ page' = Clear /\ sram' = 0 /\ ram' = NoTable
        BY <3>1, <3>7 DEF PowerLoss
      <4>2. pc' \in BootPcs /\ page' \in Pages /\ sram' \in 0 .. saves /\ ram' \in Rams
        BY <1>1, <4>1, Blank DEF BootPcs
      <4>3. BootTypes'
        BY <1>1, <1>2, <3>3, <3>4, <3>5, <3>6, <4>2 DEF BootTypes
      <4> QED BY <3>3, <4>1, <4>3, Resting DEF BootInv
    <3>8. CASE o.rc # "off"
      <4> HIDE DEF adm
      <4>1. page' = resume /\ pc' = "jump" /\ sram' = sram /\ ram' = ram
        BY <3>1, <3>8
      <4>2. \A c \in Copies : lba'[c] # None /\ lba'[c].jstart = adm.jstart
        BY <2>4, <3>3 DEF SameLayout
      <4>3. FlowOK' /\ page' \in Pages
        BY <1>1, <1>2, <1>3, <2>4, <3>3, <3>5, <4>1, <4>2, HandOver
      <4>4. pc' \in BootPcs
        BY <4>1 DEF BootPcs
      <4>5. BootTypes'
        BY <1>1, <1>2, <3>3, <3>4, <3>5, <3>6, <4>1, <4>3, <4>4 DEF BootTypes
      <4> QED BY <3>3, <4>3, <4>5 DEF BootInv
    <3> QED BY <3>7, <3>8
  <2>6. CASE ~Consumed(adm)
    <3>1. /\ Spend(Cardinality(bad)) /\ page' = resume /\ pc' = "jump" /\ lba' = lba /\ sram' = sram
          /\ ram' = ram /\ report' = report /\ blind' = blind
      BY <1>7, <2>6 DEF RestoreEnd
    <3> HIDE DEF adm
    <3>2. faults' \in 0 .. MaxFaults
      BY <1>1, <3>1, BadCopies, Spending DEF BootTypes
    <3>3. CardOK'
      BY <1>1, <1>2, <1>5, <3>1, KeptSame, Untouched
    <3>4. \A c \in Copies : lba'[c] # None /\ lba'[c].jstart = adm.jstart
      BY <1>3, <2>4, <3>1 DEF Copies
    <3>5. FlowOK' /\ page' \in Pages
      BY <1>1, <1>2, <1>3, <2>4, <3>1, <3>3, <3>4, HandOver
    <3>6. pc' \in BootPcs /\ pick' \in 0 .. saves
      BY <1>1, <1>2, <3>1 DEF BootPcs, BootTypes
    <3>7. BootTypes'
      BY <1>1, <1>2, <3>1, <3>2, <3>5, <3>6 DEF BootTypes
    <3> QED BY <3>3, <3>5, <3>7 DEF BootInv
  <2> QED BY <2>5, <2>6
<1> QED BY <1>6, <1>7

-----------------------------------------------------------------------------
(* Formatting *)

\* The generation of a format is possible, and later than that of the table it replaces
LEMMA FormatGenLate ==
  ASSUME NEW t \in MaybeTable
  PROVE  /\ FormatGen(t) \in 1 .. GenMax
         /\ t.gen # GenMax => FormatGen(t) > t.gen
<1>1. GenMax \in Nat /\ GenMax >= 2
  BY BootDiskAssumption
<1>2. CASE t = None
  BY <1>1, <1>2, NoneFields DEF FormatGen
<1>3. CASE t # None
  <2>1. t.gen \in 1 .. GenMax
    BY <1>3, TableFields DEF MaybeTable
  <2> QED BY <1>1, <1>3, <2>1 DEF FormatGen
<1> QED BY <1>2, <1>3

\* No slot of a layout is left when the headers of all its slots are zeroed
LEMMA AllZeroed ==
  ASSUME BootTypes, NEW l \in Areas, snaps' = ZeroedHeaders(l, l.slots),
         NEW t, SameLayout(t, l)
  PROVE  ~\E s \in snaps' : s.slot < t.slots /\ s.lba = SlotLba(t, s.slot)
<1> SUFFICES ASSUME NEW s \in snaps', s.slot < t.slots, s.lba = SlotLba(t, s.slot)
             PROVE  FALSE
  OBVIOUS
<1> DEFINE B == {Span(SlotLba(l, i), SlotLba(l, i)) : i \in 0 .. l.slots - 1}
<1>1. snaps' = Overwritten(B)
  BY DEF ZeroedHeaders
<1>2. l.slots \in 1 .. 64 /\ t.slots = l.slots /\ s.lba = SlotLba(l, s.slot)
  BY DEF Areas, SameLayout, SlotLba
<1>3. saves \in Nat /\ snaps \in SUBSET Snaps(saves) /\ \A x, y \in snaps : x.lba = y.lba => x = y
  BY DEF BootTypes
<1>4. s \in Snaps(saves) /\ ~\E r \in B : r.lo <= s.lba + 1 /\ s.lba <= r.hi
  <2> HIDE DEF B
  <2> QED BY <1>1, <1>3, Overwriting
<1>5. s.slot \in 0 .. 63 /\ s.lba \in Nat
  BY <1>4 DEF Snaps
<1>6. s.slot \in 0 .. l.slots - 1
  BY <1>2, <1>5
<1>7. Span(s.lba, s.lba) \in B
  BY <1>2, <1>6
<1>8. Span(s.lba, s.lba).lo = s.lba /\ Span(s.lba, s.lba).hi = s.lba
  BY DEF Span
<1> HIDE DEF B
<1> QED BY <1>4, <1>5, <1>7, <1>8

\* A format that is done leaves one layout and no slot in it; one that fails is remembered as such
LEMMA StepSetupFormat ==
  ASSUME BootInv, NEW slots \in SlotChoices, NEW bad \in SUBSET Copies, NEW bad2 \in SUBSET Copies,
         NEW zeroed \in 0 .. slots, SetupFormat(slots, bad, zeroed, bad2)
  PROVE  BootInv'
<1>1. BootTypes /\ CardOK
  BY DEF BootInv
<1> DEFINE l == boot_snapshot_layout_compute(slots)
           old == boot_admin_read_best(bad)
           t == Table("RWSS", FormatGen(old), l, 0)
           seen == IF bad2 = Copies THEN FALSE ELSE TRUE
<1>2. l \in Areas /\ l.slots = slots
  <2>1. l # None
    BY DEF SetupFormat
  <2> QED BY <2>1, ComputedFits DEF boot_snapshot_layout_compute
<1>3. BestOf(old, bad) /\ old \in MaybeTable
  BY <1>1, ReadBest DEF BootTypes, BestOf
<1>4. FormatGen(old) \in 1 .. GenMax /\ (old.gen # GenMax => FormatGen(old) > old.gen)
  BY <1>3, FormatGenLate
<1>5. t \in Tables /\ SameLayout(t, l) /\ t.gen = FormatGen(old)
  BY <1>2, <1>4, MadeTable
<1>6. PICK o \in write_both(t) :
        LET n == IF o.rc = "ok" THEN zeroed ELSE 0
            done == o.rc = "ok" /\ n = slots
        IN
        /\ o.rc # "ok" => zeroed = 0
        /\ ~done => bad2 = {}
        /\ Spend(Cardinality(bad) + Cardinality(bad2) + o.cost
                 + IF o.rc = "ok" /\ ~done THEN 1 ELSE 0)
        /\ lba' = o.lba /\ snaps' = ZeroedHeaders(l, n)
        /\ report' = IF done THEN "ok" ELSE "err"
        /\ formatted' = IF done THEN saves ELSE formatted
        /\ unfinished' = (~done /\ (unfinished \/ lba' # lba))
        /\ IF o.rc = "off" THEN PowerLoss /\ UNCHANGED st
           ELSE /\ pc' = IF done /\ seen THEN "reset" ELSE pc
                /\ st' = IF done THEN [st EXCEPT !.magic = seen, !.list = <<>>] ELSE st
                /\ UNCHANGED <<page, sram, ram>>
  BY DEF SetupFormat
<1>7. /\ pc \in {"setup", "forced"} /\ pick' = pick /\ saves' = saves
      /\ blind' = (blind \/ (old = None /\ lba # [c \in Copies |-> None]) \/ old.gen = GenMax)
  BY DEF SetupFormat
<1> DEFINE n == IF o.rc = "ok" THEN zeroed ELSE 0
           done == o.rc = "ok" /\ n = slots
<1> HIDE DEF l, old, t, seen
<1>8. /\ lba' \in {lba, [lba EXCEPT !["A"] = t], [c \in Copies |-> t]}
      /\ o.rc \in {"ok", "err", "off"} /\ o.cost \in {0, 1}
      /\ o.rc = "ok" => lba' = [c \in Copies |-> t]
  BY <1>6, Outcomes
<1>9. ~blind' => t.gen > lba["B"].gen
  <2> SUFFICES ASSUME ~blind' PROVE t.gen > lba["B"].gen
    OBVIOUS
  <2>1. ~blind /\ old.gen # GenMax /\ (old = None => lba = [c \in Copies |-> None])
    BY <1>7
  <2>2. lba \in [Copies -> MaybeTable] /\ lba["B"] \in MaybeTable /\ Mirrored
    BY <1>1 DEF BootTypes, CardOK, Copies
  <2>3. t.gen > old.gen /\ t.gen \in Nat /\ old.gen \in Nat /\ lba["B"].gen \in Nat
    BY <1>3, <1>4, <1>5, <2>1, <2>2, TableFields, Generations
  <2>4. CASE old = None
    <3>1. lba["B"] = None
      BY <2>1, <2>4 DEF Copies
    <3> QED BY <2>3, <2>4, <3>1
  <2>5. CASE old # None
    <3>1. old.gen >= lba["B"].gen
      BY <1>3, <2>1, <2>2, <2>5, SeenIsLate
    <3> QED BY <2>3, <3>1
  <2> QED BY <2>4, <2>5
<1>10. /\ lba' \in [Copies -> MaybeTable]
       /\ lba'["A"] = None => lba'["B"] = None /\ lba["A"] = None
       /\ lba'["B"] = None => lba["B"] = None
       /\ ~blind' => lba'["A"] = lba'["B"] \/ lba'["A"].gen > lba'["B"].gen
  <2>1. blind => blind'
    BY <1>7
  <2>2. Mirrored
    BY <1>1 DEF CardOK
  <2> QED BY <1>1, <1>5, <1>8, <1>9, <2>1, <2>2, Written
<1>11. /\ SlotsKept /\ snaps' \in SUBSET Snaps(saves)
       /\ \A x, y \in snaps' : x.lba = y.lba => x = y
  <2>1. \E B : snaps' = Overwritten(B)
    BY <1>6 DEF ZeroedHeaders
  <2> QED BY <1>1, <2>1, KeptOverwritten
<1>12. /\ formatted' = IF done THEN saves ELSE formatted
       /\ unfinished' = (~done /\ (unfinished \/ lba' # lba))
       /\ report' \in {"ok", "err"}
       /\ IF o.rc = "off" THEN PowerLoss /\ UNCHANGED st
          ELSE /\ pc' = IF done /\ seen THEN "reset" ELSE pc
               /\ st' = IF done THEN [st EXCEPT !.magic = seen, !.list = <<>>] ELSE st
               /\ UNCHANGED <<page, sram, ram>>
  BY <1>6
<1>13. t # None /\ (done => lba' = [c \in Copies |-> t] /\ lba'["A"] = t /\ lba'["B"] = t)
  BY <1>5, <1>8, NoneFields DEF Copies
<1>14. done => snaps' = ZeroedHeaders(l, l.slots)
  BY <1>2, <1>6
<1>15. faults' \in 0 .. MaxFaults
  <2> DEFINE m == Cardinality(bad) + Cardinality(bad2) + o.cost + IF o.rc = "ok" /\ ~done THEN 1 ELSE 0
  <2>1. m \in Nat
    <3> HIDE DEF done
    <3> QED BY <1>8, BadCopies
  <2>2. Spend(m)
    BY <1>6
  <2> HIDE DEF m
  <2> QED BY <1>1, <2>1, <2>2, Spending DEF BootTypes
<1> HIDE DEF done, n
<1>16. st' \in [ok : BOOLEAN, magic : BOOLEAN, list : Lists(saves)]
       /\ (st'.magic \/ st'.list # <<>> => lba'["A"] # None)
  <2>0. st \in [ok : BOOLEAN, magic : BOOLEAN, list : Lists(saves)] /\ <<>> \in Lists(saves)
    BY <1>1 DEF BootTypes, Lists
  <2>1. CASE st' = st
    BY <1>1, <1>10, <2>0, <2>1 DEF CardOK, Mirrored
  <2>2. CASE done /\ st' = [st EXCEPT !.magic = seen, !.list = <<>>]
    <3>1. seen \in BOOLEAN
      BY DEF seen
    <3>2. st' \in [ok : BOOLEAN, magic : BOOLEAN, list : Lists(saves)]
      BY <2>0, <2>2, <3>1
    <3> QED BY <1>13, <2>2, <3>2
  <2> QED BY <1>12, <2>1, <2>2
<1>17. /\ pc' \in {"reset", "setup", "forced"} /\ pc' \in BootPcs
       /\ page' \in Pages /\ sram' \in 0 .. saves /\ ram' \in Rams
  <2>1. page \in Pages /\ sram \in 0 .. saves /\ ram \in Rams
    BY <1>1 DEF BootTypes
  <2>2. pc' \in {"reset", "setup", "forced"}
    BY <1>7, <1>12 DEF PowerLoss
  <2> QED BY <1>1, <1>12, <2>1, <2>2, Blank DEF PowerLoss, BootPcs
<1>18. formatted' \in 0 .. saves /\ unfinished' \in BOOLEAN /\ blind' \in BOOLEAN
  BY <1>1, <1>7, <1>12 DEF BootTypes
<1>19. BootTypes'
  BY <1>1, <1>7, <1>10, <1>11, <1>12, <1>15, <1>16, <1>17, <1>18 DEF BootTypes
<1>20. Mirrored'
  <2>1. lba'["B"] = None => formatted' = 0
    BY <1>1, <1>10, <1>12, <1>13 DEF CardOK, Mirrored
  <2> QED BY <1>10, <1>16, <2>1 DEF Mirrored
<1>21. OneLayout'
  <2>1. CASE done
    <3>1. SameLayout(t, t)
      BY DEF SameLayout
    <3> QED BY <1>13, <2>1, <3>1 DEF OneLayout
  <2>2. CASE ~done
    BY <1>1, <1>12, <2>2 DEF CardOK, OneLayout
  <2> QED BY <2>1, <2>2
<1>22. Remembered'
  <2>1. CASE done
    <3>1. ~\E s \in snaps' : s.slot < t.slots /\ s.lba = SlotLba(t, s.slot)
      BY <1>1, <1>2, <1>5, <1>14, <2>1, AllZeroed
    <3>2. ValidSlots(lba["A"])' = {}
      BY <1>13, <2>1, <3>1 DEF ValidSlots, SlotLba
    <3> QED BY <3>2 DEF Remembered
  <2>2. CASE ~done
    <3>1. /\ formatted' = formatted /\ (blind => blind') /\ (unfinished => unfinished')
          /\ (~unfinished' => lba' = lba)
      BY <1>7, <1>12, <2>2
    <3>2. SameLayout(lba["A"], lba["A"])
      BY DEF SameLayout
    <3>3. Remembered
      BY <1>1 DEF CardOK
    <3> QED BY <1>1, <1>11, <3>1, <3>2, <3>3, StillRemembered
  <2> QED BY <2>1, <2>2
<1> QED BY <1>17, <1>19, <1>20, <1>21, <1>22, Resting DEF BootInv, CardOK

-----------------------------------------------------------------------------
(* The application *)

\* What rwos_disk_init leaves on the card and in RAM
LEMMA InitOutcome ==
  ASSUME BootTypes, CardOK, NEW ready \in BOOLEAN, NEW bad \in SUBSET Copies,
         NEW o \in rwos_disk_init(ready, bad), lba' = o.lba,
         blind' = (blind \/ (ready /\ bad = Copies /\ lba # [c \in Copies |-> None])),
         unfinished' = (unfinished \/ (lba' # lba /\ o.rc # "ok")),
         snaps' = snaps, formatted' = formatted, st' = NoCard
  PROVE  /\ lba' \in [Copies -> MaybeTable] /\ CardOK' /\ o.ram \in Rams
         /\ o.rc \in {"ok", "err", "off"} /\ o.cost \in {0, 1} /\ o.report \in {"ok", "err"}
         /\ o.ram.valid => /\ \E c \in Copies : lba'[c] # None /\ Like(o.ram.t, lba'[c])
                           /\ ~blind' => o.ram.t.gen >= lba'["B"].gen
         /\ o.ram.valid /\ ~blind' /\ (\A c \in Copies : lba[c] # None)
              => \E c \in Copies : o.ram.t.jstart = lba[c].jstart
<1> DEFINE t == rwos_disk_read_best(bad)
           r == auto_layout.start + auto_layout.blocks
           new == Table("RWDI", 1, auto_layout, r)
<1>0. lba \in [Copies -> MaybeTable] /\ lba["A"] \in MaybeTable /\ lba["B"] \in MaybeTable /\ Mirrored
      /\ report \in {"ok", "err"}
  BY DEF BootTypes, CardOK, Copies
<1>1. BestOf(t, bad)
  BY <1>0, ReadBest
<1>2. ~st'.magic /\ st'.list = <<>> /\ (blind => blind')
  BY DEF NoCard
<1> DEFINE Quiet(q) == o = [lba |-> lba, ram |-> q, rc |-> "ok", cost |-> 0, report |-> report]
<1>3. \/ Quiet(NoTable)
      \/ t # None /\ Quiet([valid |-> TRUE, t |-> t])
      \/ /\ t = None /\ auto_layout # None /\ ready
         /\ \E w \in write_both(new) :
              o = [lba |-> w.lba, rc |-> w.rc,
                   ram |-> IF w.rc = "ok" THEN [valid |-> TRUE, t |-> new] ELSE NoTable,
                   cost |-> w.cost, report |-> IF w.rc = "ok" THEN "ok" ELSE "err"]
  BY DEF rwos_disk_init
<1> HIDE DEF t
<1>4. ASSUME NEW q, Quiet(q)
      PROVE  /\ o.lba = lba /\ o.ram = q /\ o.rc = "ok" /\ o.cost = 0 /\ o.report = report
             /\ lba' = lba /\ lba' \in [Copies -> MaybeTable] /\ CardOK'
  <2>1. o.lba = lba /\ o.ram = q /\ o.rc = "ok" /\ o.cost = 0 /\ o.report = report
    BY <1>4
  <2>2. lba' = lba /\ unfinished' = unfinished
    BY <2>1 DEF BootTypes
  <2> QED BY <1>0, <1>2, <2>1, <2>2, KeptSame, Untouched
<1> HIDE DEF Quiet
<1>5. CASE Quiet(NoTable)
  <2>1. NoTable \in Rams /\ ~NoTable.valid
    BY Blank DEF NoTable
  <2> QED BY <1>0, <1>4, <1>5, <2>1
<1>6. CASE t # None /\ Quiet([valid |-> TRUE, t |-> t])
  <2>1. o.ram = [valid |-> TRUE, t |-> t] /\ lba' = lba
    BY <1>4, <1>6
  <2>2. o.ram.valid /\ o.ram.t = t
    BY <2>1
  <2>3. PICK c \in Copies \ bad : ReadAs(t, lba[c])
    BY <1>1, <1>6 DEF BestOf
  <2>4. t \in Tables /\ Like(t, lba[c]) /\ lba[c] # None /\ t.jstart = lba[c].jstart
    BY <1>6, <2>3 DEF ReadAs, Like, SameLayout
  <2>5. o.ram \in Rams
    BY <1>6, <2>1, <2>4 DEF Rams, MaybeTable
  <2>6. ~blind' => t.gen >= lba["B"].gen
    BY <1>0, <1>1, <1>2, <1>6, SeenIsLate
  <2>7. /\ \E x \in Copies : lba'[x] # None /\ Like(o.ram.t, lba'[x])
        /\ \E x \in Copies : o.ram.t.jstart = lba[x].jstart
    BY <2>1, <2>2, <2>3, <2>4
  <2>8. /\ o.rc = "ok" /\ o.cost = 0 /\ o.report = report /\ lba' \in [Copies -> MaybeTable] /\ CardOK'
    BY <1>4, <1>6
  <2> QED BY <1>0, <2>1, <2>2, <2>5, <2>6, <2>7, <2>8
<1>7. CASE /\ t = None /\ auto_layout # None /\ ready
           /\ \E w \in write_both(new) :
                o = [lba |-> w.lba, rc |-> w.rc,
                     ram |-> IF w.rc = "ok" THEN [valid |-> TRUE, t |-> new] ELSE NoTable,
                     cost |-> w.cost, report |-> IF w.rc = "ok" THEN "ok" ELSE "err"]
  <2>1. PICK w \in write_both(new) :
          o = [lba |-> w.lba, rc |-> w.rc,
               ram |-> IF w.rc = "ok" THEN [valid |-> TRUE, t |-> new] ELSE NoTable,
               cost |-> w.cost, report |-> IF w.rc = "ok" THEN "ok" ELSE "err"]
    BY <1>7
  <2>2. new \in Tables /\ new.gen = 1
    <3>1. 1 \in 1 .. GenMax
      BY BootDiskAssumption
    <3>2. auto_layout \in Areas /\ "RWDI" \in {"RWDI", "RWSS"} /\ r = (IF "RWDI" = "RWSS" THEN 0 ELSE auto_layout.start + auto_layout.blocks)
      BY <1>7, AutoFits
    <3> HIDE DEF r
    <3> QED BY <3>1, <3>2, MadeTable
  <2> HIDE DEF new
  <2>3. new # None /\ new \in MaybeTable /\ Like(new, new)
    BY <2>2, NoneFields DEF MaybeTable, Like, SameLayout
  <2>4. /\ w.lba \in {lba, [lba EXCEPT !["A"] = new], [c \in Copies |-> new]}
        /\ w.rc \in {"ok", "err", "off"} /\ w.cost \in {0, 1}
        /\ w.rc = "ok" => w.lba = [c \in Copies |-> new]
    BY Outcomes
  <2>5. /\ o.lba = w.lba /\ o.rc = w.rc /\ o.cost = w.cost
        /\ o.ram = (IF w.rc = "ok" THEN [valid |-> TRUE, t |-> new] ELSE NoTable)
        /\ o.report \in {"ok", "err"}
    BY <2>1
  <2>6. ~blind' => lba["B"] = None
    <3> SUFFICES ASSUME ~blind' PROVE lba["B"] = None
      OBVIOUS
    <3>1. bad = Copies => lba = [c \in Copies |-> None]
      BY <1>7
    <3>2. bad # Copies => \E c \in Copies : c \notin bad /\ lba[c] = None
      BY <1>1, <1>7 DEF BestOf
    <3> QED BY <1>0, <3>1, <3>2 DEF Mirrored, Copies
  <2>7. ~blind' => new.gen > lba["B"].gen
    BY <2>2, <2>6, NoneFields
  <2>8. /\ lba' \in [Copies -> MaybeTable]
        /\ lba'["A"] = None => lba'["B"] = None /\ lba["A"] = None
        /\ lba'["B"] = None => lba["B"] = None
        /\ ~blind' => lba'["A"] = lba'["B"] \/ lba'["A"].gen > lba'["B"].gen
    BY <1>0, <1>2, <2>2, <2>4, <2>5, <2>7, Written
  <2>9. Mirrored'
    BY <1>0, <1>2, <2>8 DEF Mirrored
  <2>10. OneLayout'
    <3>1. CASE w.rc = "ok"
      <4>1. lba'["A"] = new /\ lba'["B"] = new
        BY <2>4, <2>5, <3>1 DEF Copies
      <4> QED BY <2>3, <4>1 DEF OneLayout, Like
    <3>2. CASE w.rc # "ok"
      <4>1. ~unfinished' => ~unfinished /\ lba' = lba
        BY <2>5, <3>2
      <4> QED BY <4>1 DEF CardOK, OneLayout
    <3> QED BY <3>1, <3>2
  <2>11. Remembered'
    <3> SUFFICES ASSUME ~blind', NEW s \in snaps' PROVE s.id > formatted'
      BY DEF Remembered, ValidSlots
    <3>1. formatted' = 0
      BY <1>0, <2>6 DEF Mirrored
    <3>2. s.id \in 1 .. saves /\ saves \in Nat
      BY DEF BootTypes, Snaps
    <3> QED BY <3>1, <3>2
  <2>12. o.ram.valid => /\ o.ram.t = new /\ o.rc = "ok" /\ lba'["A"] = new /\ lba'["B"] = new
    <3>1. CASE w.rc = "ok"
      BY <2>4, <2>5, <3>1 DEF Copies
    <3>2. CASE w.rc # "ok"
      <4>1. o.ram = NoTable
        BY <2>5, <3>2
      <4> QED BY <4>1 DEF NoTable
    <3> QED BY <3>1, <3>2
  <2>13. o.ram \in Rams
    <3>1. [valid |-> TRUE, t |-> new] \in Rams
      BY <2>3 DEF Rams
    <3> QED BY <2>5, <3>1, Blank
  <2>14. o.ram.valid => /\ \E c \in Copies : lba'[c] # None /\ Like(o.ram.t, lba'[c])
                        /\ ~blind' => o.ram.t.gen >= lba'["B"].gen
    <3> SUFFICES ASSUME o.ram.valid
                 PROVE  /\ \E c \in Copies : lba'[c] # None /\ Like(o.ram.t, lba'[c])
                        /\ o.ram.t.gen >= lba'["B"].gen
      OBVIOUS
    <3>1. "A" \in Copies
      BY DEF Copies
    <3> QED BY <2>2, <2>3, <2>12, <3>1
  <2>15. ~blind' => ~\A c \in Copies : lba[c] # None
    BY <2>6 DEF Copies
  <2> QED BY <2>4, <2>5, <2>8, <2>9, <2>10, <2>11, <2>13, <2>14, <2>15 DEF CardOK
<1> QED BY <1>3, <1>5, <1>6, <1>7

\* The start is the one that was asked for
StartAsked(started) ==
  /\ started.ckptint = asked.ckptint
  /\ \/ started.how = "cold" /\ asked.how = "fresh"
     \/ started.how = "refused" /\ asked.how # "fresh"
     \/ /\ started.how = "resumed" /\ Image_OK /\ started.id = sram /\ started.jstart = page.jstart
        /\ \A c \in Copies : lba[c] # None /\ lba[c].jstart = page.jstart

\* The application starts, and formats the card only if it sees no table
LEMMA StepAppStarts ==
  ASSUME BootInv, NEW started, StartAsked(started), NEW ready \in BOOLEAN, NEW bad \in SUBSET Copies,
         AppStarts(started, ready, bad)
  PROVE  BootInv'
<1>1. BootTypes /\ CardOK
  BY DEF BootInv
<1>2. PICK o \in rwos_disk_init(ready, bad) :
        /\ Spend(Cardinality(bad) + o.cost + IF ready THEN 0 ELSE 1)
        /\ lba' = o.lba /\ report' = o.report
        /\ blind' = (blind \/ (ready /\ bad = Copies /\ lba # [c \in Copies |-> None]))
        /\ unfinished' = (unfinished \/ (lba' # lba /\ o.rc # "ok"))
        /\ st' = NoCard
        /\ IF o.rc = "off" THEN PowerLoss /\ UNCHANGED app
           ELSE /\ pc' = "app" /\ app' = started /\ page' = Clear
                /\ sram' = IF started.how = "resumed" THEN sram ELSE 0
                /\ ram' = o.ram
        /\ UNCHANGED <<snaps, pick, saves, ckpts, boots, asked, formatted>>
  BY DEF AppStarts
<1>3. /\ lba' \in [Copies -> MaybeTable] /\ CardOK' /\ o.ram \in Rams
      /\ o.rc \in {"ok", "err", "off"} /\ o.cost \in {0, 1} /\ o.report \in {"ok", "err"}
      /\ o.ram.valid => /\ \E c \in Copies : lba'[c] # None /\ Like(o.ram.t, lba'[c])
                        /\ ~blind' => o.ram.t.gen >= lba'["B"].gen
      /\ o.ram.valid /\ ~blind' /\ (\A c \in Copies : lba[c] # None)
           => \E c \in Copies : o.ram.t.jstart = lba[c].jstart
  BY <1>1, <1>2, InitOutcome
<1>4. faults' \in 0 .. MaxFaults
  <2>1. Cardinality(bad) + o.cost + (IF ready THEN 0 ELSE 1) \in Nat
    BY <1>3, BadCopies
  <2> QED BY <1>1, <1>2, <2>1, Spending DEF BootTypes
<1>5. /\ blind' \in BOOLEAN /\ unfinished' \in BOOLEAN /\ (blind => blind')
      /\ (unfinished => unfinished')
  BY <1>2
<1>6. st' \in [ok : BOOLEAN, magic : BOOLEAN, list : Lists(saves)]
  <2>1. <<>> \in Lists(saves)
    BY DEF Lists
  <2> QED BY <1>2, <2>1 DEF NoCard
<1>7. /\ pc' \in BootPcs /\ page' \in Pages /\ sram' \in 0 .. saves /\ ram' \in Rams
  <2>1. sram \in 0 .. saves
    BY <1>1 DEF BootTypes
  <2> QED BY <1>1, <1>2, <1>3, <2>1, Blank DEF PowerLoss, BootPcs
<1>8. BootTypes'
  BY <1>1, <1>2, <1>3, <1>4, <1>5, <1>6, <1>7 DEF BootTypes
<1>9. CASE o.rc = "off"
  BY <1>2, <1>3, <1>8, <1>9, Resting DEF PowerLoss, BootInv
<1>10. CASE o.rc # "off"
  <2>1. pc' = "app" /\ app' = started /\ ram' = o.ram /\ asked' = asked /\ formatted' = formatted
    BY <1>2, <1>10
  <2>2. AppTable'
    BY <1>3, <2>1 DEF AppTable, Like, SameLayout
  <2>3. JournalAreaAgrees'
    <3> SUFFICES ASSUME started.how = "resumed", o.ram.valid, ~blind' PROVE started.jstart = o.ram.t.jstart
      BY <2>1 DEF JournalAreaAgrees
    <3>1. started.jstart = page.jstart /\ \A c \in Copies : lba[c] # None /\ lba[c].jstart = page.jstart
      BY DEF StartAsked
    <3> QED BY <1>3, <3>1
  <2>4. ChoiceHonoured'
    <3> SUFFICES \/ /\ started.how = "resumed" /\ asked.how \in {"recent", "snapshot"}
                    /\ unfinished' \/ started.id = asked.id
                 \/ started.how = "cold" /\ asked.how = "fresh"
                 \/ started.how = "refused" /\ asked.how # "fresh"
      BY <2>1 DEF ChoiceHonoured
    <3> QED BY <1>5 DEF StartAsked, Image_OK
  <2>5. ConfigArrives'
    BY <2>1 DEF ConfigArrives, StartAsked
  <2>6. DoneFormatForgets'
    <3> SUFFICES ASSUME ~unfinished', started.how = "resumed", ~blind' PROVE started.id > formatted
      BY <2>1 DEF DoneFormatForgets, FormatForgets
    <3> QED BY <1>5 DEF StartAsked, Image_OK
  <2>7. ListOK' /\ OnTheWay'
    BY <2>1 DEF ListOK, OnTheWay
  <2> QED BY <1>3, <1>8, <2>2, <2>3, <2>4, <2>5, <2>6, <2>7 DEF BootInv, FlowOK, StartSound
<1> QED BY <1>9, <1>10

\* A cold start takes the configuration of the page
LEMMA StepColdBoot ==
  ASSUME BootInv, NEW ready \in BOOLEAN, NEW bad \in SUBSET Copies, main_cold_boot(ready, bad)
  PROVE  BootInv'
<1> DEFINE started == [NotStarted EXCEPT !.how = "cold", !.ckptint = boot_handoff_consume]
<1>1. pc = "jump" /\ page.kind # "resume" /\ AppStarts(started, ready, bad)
  BY DEF main_cold_boot, ResumeAsked
<1>2. started.how = "cold" /\ started.ckptint = boot_handoff_consume
  BY DEF NotStarted
<1> HIDE DEF started
<1>3. \/ page.kind = "clear" /\ asked.how = "fresh" /\ asked.ckptint = "default"
      \/ page.kind = "cfg" /\ asked.how = "fresh" /\ asked.ckptint = page.ckptint
  BY <1>1 DEF BootInv, FlowOK, OnTheWay
<1>4. StartAsked(started)
  BY <1>2, <1>3 DEF StartAsked, boot_handoff_consume
<1> QED BY <1>1, <1>4, StepAppStarts

\* A resume starts what is in SRAM
LEMMA StepResumeEntry ==
  ASSUME BootInv, NEW same \in BOOLEAN, NEW ready \in BOOLEAN, NEW bad \in SUBSET Copies,
         rewind_resume_entry(same, ready, bad)
  PROVE  BootInv'
<1> DEFINE started == IF same
                      THEN [NotStarted EXCEPT !.how = "resumed", !.id = sram, !.seq = page.seq,
                                              !.jstart = page.jstart]
                      ELSE [NotStarted EXCEPT !.how = "refused"]
<1>1. pc = "jump" /\ page.kind = "resume" /\ AppStarts(started, ready, bad)
  BY DEF rewind_resume_entry, ResumeAsked
<1>2. /\ started.ckptint = "default"
      /\ \/ started.how = "refused"
         \/ started.how = "resumed" /\ started.id = sram /\ started.jstart = page.jstart
  BY DEF NotStarted
<1> HIDE DEF started
<1>3. Image_OK /\ \A c \in Copies : lba[c] # None /\ lba[c].jstart = page.jstart
  BY <1>1 DEF BootInv, FlowOK, OnTheWay
<1>4. asked.how \in {"recent", "snapshot"} /\ asked.ckptint = "default"
  BY <1>3 DEF Image_OK
<1>5. StartAsked(started)
  BY <1>2, <1>3, <1>4 DEF StartAsked
<1> QED BY <1>1, <1>5, StepAppStarts

\* A step of the running application: what it was started for stays true
LEMMA StillStarted ==
  ASSUME FlowOK, pc = "app", pc' = "app", app' = app, asked' = asked, formatted' = formatted,
         unfinished' = unfinished, blind => blind',
         ram'.valid => ram.valid /\ ram'.t.jstart = ram.t.jstart, AppTable'
  PROVE  FlowOK'
<1>1. JournalAreaAgrees'
  BY DEF FlowOK, JournalAreaAgrees
<1>2. StartSound'
  BY DEF FlowOK, StartSound, ChoiceHonoured, ConfigArrives, DoneFormatForgets, FormatForgets
<1>3. ListOK' /\ OnTheWay'
  BY DEF ListOK, OnTheWay
<1> QED BY <1>1, <1>2, <1>3 DEF FlowOK

\* A task checkpoint only loses slots
LEMMA StepSaveCheckpoint ==
  ASSUME BootInv, NEW i \in 0 .. 1, SaveCheckpoint(i)
  PROVE  BootInv'
<1>1. BootTypes /\ CardOK /\ FlowOK
  BY DEF BootInv
<1> DEFINE B == {Span(2080 + 16 * i, 2080 + 16 * i + 15)}
<1>2. /\ pc = "app" /\ snaps' = Overwritten(B) /\ lba' = lba /\ page' = page /\ sram' = sram /\ pc' = pc
      /\ st' = st /\ pick' = pick /\ ram' = ram /\ app' = app /\ saves' = saves /\ faults' = faults
      /\ asked' = asked /\ report' = report /\ blind' = blind /\ formatted' = formatted
      /\ unfinished' = unfinished
  BY DEF SaveCheckpoint, history
<1> HIDE DEF B
<1>3. /\ SlotsKept /\ snaps' \in SUBSET Snaps(saves)
      /\ \A x, y \in snaps' : x.lba = y.lba => x = y
  BY <1>1, <1>2, KeptOverwritten
<1>4. BootTypes'
  BY <1>1, <1>2, <1>3 DEF BootTypes
<1>5. st'.magic \/ st'.list # <<>> => lba["A"] # None
  BY <1>1, <1>2 DEF CardOK, Mirrored
<1>6. CardOK'
  BY <1>1, <1>2, <1>3, <1>5, Untouched
<1>7. AppTable'
  BY <1>1, <1>2 DEF FlowOK, AppTable, Like, SameLayout
<1>8. FlowOK'
  BY <1>1, <1>2, <1>7, StillStarted
<1> QED BY <1>4, <1>6, <1>8 DEF BootInv

\* A table that names another snapshot as the last one, as rwos_disk_set_last_snap writes it
Renumbered(t, n) == [t EXCEPT !.gen = NextGen(@), !.last = n]

\* It is a table like the one before
LEMMA Renumber ==
  ASSUME NEW t \in Tables, NEW n \in 0 .. MaxSnapshots
  PROVE  /\ Renumbered(t, n) \in Tables /\ Like(Renumbered(t, n), t)
         /\ Renumbered(t, n).last = n /\ Renumbered(t, n).gen = NextGen(t.gen)
<1>1. NextGen(t.gen) \in 1 .. GenMax
  <2>1. t.gen \in 1 .. GenMax /\ GenMax \in Nat
    BY TableFields, BootDiskAssumption
  <2> QED BY <2>1 DEF NextGen
<1>2. t \in [fmt : {"RWDI", "RWSS"}, gen : 1 .. GenMax, jstart : Nat, jblocks : Nat,
             start : Nat, slots : 1 .. 64, per : Nat, blocks : Nat, rwfs : Nat,
             target : TargetsPossible, last : 0 .. MaxSnapshots]
      /\ Fits(t) /\ t.rwfs = IF t.fmt = "RWSS" THEN 0 ELSE t.start + t.blocks
  BY DEF Tables
<1> DEFINE u == Renumbered(t, n)
<1>3. /\ u \in [fmt : {"RWDI", "RWSS"}, gen : 1 .. GenMax, jstart : Nat, jblocks : Nat,
                start : Nat, slots : 1 .. 64, per : Nat, blocks : Nat, rwfs : Nat,
                target : TargetsPossible, last : 0 .. MaxSnapshots]
      /\ Like(u, t) /\ u.last = n /\ u.gen = NextGen(t.gen)
      /\ u.fmt = t.fmt /\ u.rwfs = t.rwfs
  BY <1>1, <1>2 DEF Renumbered, Like, SameLayout
<1> HIDE DEF u
<1>4. Fits(u) /\ u.rwfs = IF u.fmt = "RWSS" THEN 0 ELSE u.start + u.blocks
  BY <1>2, <1>3 DEF Fits, Like, SameLayout
<1>5. u \in Tables
  BY <1>3, <1>4 DEF Tables
<1> QED BY <1>3, <1>5 DEF u

\* The slot that snapshot_write_one takes, and the number of the snapshot
SaveSlot == IF boot_snapshot_scan(ram.t) = <<>> THEN 0
            ELSE (boot_snapshot_scan(ram.t)[1].slot + 1) % ram.t.slots
SaveSeq == IF boot_snapshot_scan(ram.t) = <<>> THEN 1 ELSE boot_snapshot_scan(ram.t)[1].seq + 1

\* There is such a slot in the layout, and the number is not above that of saves
LEMMA SaveSlotOK ==
  ASSUME BootTypes, ram.valid
  PROVE  /\ ram.t \in Tables /\ SaveSlot \in 0 .. 63 /\ SaveSeq \in 1 .. saves + 1 /\ saves \in Nat
         /\ SlotLba(ram.t, SaveSlot) \in Nat
<1>1. ram.t \in Tables
  BY DEF BootTypes, Rams, MaybeTable
<1>2. saves \in Nat /\ snaps \in SUBSET Snaps(saves) /\ \A x, y \in snaps : x.lba = y.lba => x = y
  BY DEF BootTypes
<1> DEFINE best == boot_snapshot_scan(ram.t)
<1>3. best \in Seq(Snaps(saves))
  BY <1>2, Scanned
<1>4. ram.t.slots \in 1 .. 64 /\ ram.t.start \in Nat /\ ram.t.per \in Nat
  BY <1>1, TableFields
<1>5. SaveSlot \in 0 .. 63 /\ SaveSeq \in 1 .. saves + 1
  <2>1. CASE best = <<>>
    BY <1>2, <2>1 DEF SaveSlot, SaveSeq
  <2>2. CASE best # <<>>
    <3> HIDE DEF best
    <3>1. best[1] \in Snaps(saves)
      BY <1>3, <2>2
    <3>2. best[1].slot \in 0 .. 63 /\ best[1].seq \in 1 .. saves
      BY <3>1 DEF Snaps
    <3>3. SaveSlot = (best[1].slot + 1) % ram.t.slots /\ SaveSeq = best[1].seq + 1
      BY <2>2 DEF SaveSlot, SaveSeq, best
    <3> DEFINE p == best[1].slot  q == best[1].seq  n == ram.t.slots
    <3>4. p \in 0 .. 63 /\ q \in 1 .. saves /\ n \in 1 .. 64 /\ SaveSlot = (p + 1) % n /\ SaveSeq = q + 1
      BY <1>4, <3>2, <3>3
    <3> HIDE DEF p, q, n
    <3>5. (p + 1) % n \in 0 .. n - 1
      BY <3>4
    <3> QED BY <1>2, <3>4, <3>5
  <2> QED BY <2>1, <2>2
<1>6. SlotLba(ram.t, SaveSlot) \in Nat
  <2> DEFINE p == SaveSlot  q == ram.t.per  n == ram.t.start
  <2>1. p \in Nat /\ q \in Nat /\ n \in Nat
    BY <1>4, <1>5
  <2> HIDE DEF p, q, n
  <2>2. n + p * q \in Nat
    BY <2>1
  <2> QED BY <2>2 DEF SlotLba, p, q, n
<1> QED BY <1>1, <1>2, <1>5, <1>6

\* The saves of the application: the table it writes is later than the one on the card
LEMMA StepSaveSnapshot ==
  ASSUME BootInv, NEW whole \in BOOLEAN, SaveSnapshot(whole)
  PROVE  BootInv'
<1>1. BootTypes /\ CardOK /\ FlowOK /\ AppTable
  BY DEF BootInv, FlowOK
<1> DEFINE t == ram.t
           at == SlotLba(t, SaveSlot)
           fits == PayloadBlocks <= t.per - 2
           B1 == {Span(at, IF fits THEN at + PayloadBlocks ELSE at)}
           B2 == {Span(at, at + PayloadBlocks), Span(at + t.per - 1, at + t.per - 1)}
           new == [lba |-> at, per |-> t.per, slot |-> SaveSlot, seq |-> SaveSeq,
                   id |-> saves', torn |-> FALSE, ram |-> ram]
           u == Renumbered(t, SaveSeq)
<1>2. /\ pc = "app" /\ ram.valid /\ saves < MaxSnapshots /\ saves' = saves + 1
      /\ st' = st /\ pick' = pick /\ app' = app /\ asked' = asked /\ formatted' = formatted
      /\ unfinished' = unfinished
  BY DEF SaveSnapshot
<1>3. /\ t \in Tables /\ SaveSlot \in 0 .. 63 /\ SaveSeq \in 1 .. saves' /\ saves \in Nat
      /\ saves' \in Nat /\ saves <= saves' /\ at \in Nat
  BY <1>1, <1>2, SaveSlotOK, SMTT(30)
<1>4. \/ /\ \E n \in {0, 1} : Spend(n)
         /\ snaps' = Overwritten(B1)
         /\ \/ page' = page /\ sram' = sram /\ pc' = pc /\ ram' = ram
            \/ PowerLoss
         /\ lba' = lba /\ report' = report /\ blind' = blind
      \/ /\ snaps' = Overwritten(B2) \cup {new}
         /\ \E o \in write_both(u) :
              /\ Spend(o.cost) /\ lba' = o.lba
              /\ report' = (IF o.rc = "ok" THEN "ok" ELSE "err")
              /\ IF o.rc = "off" THEN PowerLoss
                 ELSE ram' = [ram EXCEPT !.t = u] /\ UNCHANGED <<page, sram, pc>>
         /\ blind' = (blind \/ t.gen = GenMax)
  BY DEF SaveSnapshot, SaveSlot, SaveSeq, rwos_disk_set_last_snap, Renumbered
<1> HIDE DEF t, at, fits, u
<1>5. Snaps(saves) \subseteq Snaps(saves') /\ Lists(saves) \subseteq Lists(saves')
  BY <1>3, MoreSnaps
<1>6. /\ st' \in [ok : BOOLEAN, magic : BOOLEAN, list : Lists(saves')]
      /\ sram \in 0 .. saves' /\ pick' \in 0 .. saves' /\ formatted' \in 0 .. saves'
      /\ saves' \in 0 .. MaxSnapshots /\ 0 \in 0 .. saves' /\ SaveSeq \in 0 .. MaxSnapshots
  <2>1. MaxSnapshots \in Nat
    BY BootDiskAssumption
  <2>2. st \in [ok : BOOLEAN, magic : BOOLEAN, list : Lists(saves)] /\ sram \in 0 .. saves
        /\ pick \in 0 .. saves /\ formatted \in 0 .. saves
    BY <1>1 DEF BootTypes
  <2>3. st' \in [ok : BOOLEAN, magic : BOOLEAN, list : Lists(saves')]
    BY <1>2, <1>5, <2>2
  <2>4. sram \in 0 .. saves' /\ pick' \in 0 .. saves' /\ formatted' \in 0 .. saves'
    BY <1>2, <1>3, <2>2
  <2>5. saves' \in 0 .. MaxSnapshots /\ 0 \in 0 .. saves' /\ SaveSeq \in 0 .. MaxSnapshots
    BY <1>2, <1>3, <2>1
  <2> QED BY <2>3, <2>4, <2>5
<1>7. CASE /\ \E n \in {0, 1} : Spend(n)
           /\ snaps' = Overwritten(B1)
           /\ \/ page' = page /\ sram' = sram /\ pc' = pc /\ ram' = ram
              \/ PowerLoss
           /\ lba' = lba /\ report' = report /\ blind' = blind
  <2> HIDE DEF B1, B2, new
  <2>1. /\ SlotsKept /\ snaps' \in SUBSET Snaps(saves)
        /\ \A x, y \in snaps' : x.lba = y.lba => x = y
    BY <1>1, <1>7, KeptOverwritten
  <2>2. faults' \in 0 .. MaxFaults
    BY <1>1, <1>7, Spending DEF BootTypes
  <2>3. pc' \in BootPcs /\ page' \in Pages /\ sram' \in 0 .. saves' /\ ram' \in Rams
    <3>1. pc \in BootPcs /\ page \in Pages /\ ram \in Rams
      BY <1>1 DEF BootTypes
    <3> QED BY <1>1, <1>6, <1>7, <3>1, Blank DEF PowerLoss, BootPcs
  <2>4. snaps' \in SUBSET Snaps(saves')
    BY <1>5, <2>1
  <2>5. BootTypes'
    BY <1>1, <1>2, <1>6, <1>7, <2>1, <2>2, <2>3, <2>4 DEF BootTypes
  <2>6. st'.magic \/ st'.list # <<>> => lba["A"] # None
    BY <1>1, <1>2 DEF CardOK, Mirrored
  <2>7. CardOK'
    BY <1>1, <1>2, <1>7, <2>1, <2>6, Untouched
  <2>8. CASE PowerLoss
    BY <2>5, <2>7, <2>8, Resting DEF PowerLoss, BootInv
  <2>9. CASE pc' = pc /\ ram' = ram
    <3>1. AppTable'
      BY <1>1, <1>2, <1>7, <2>9 DEF AppTable, Like, SameLayout
    <3>2. FlowOK'
      BY <1>1, <1>2, <1>7, <2>9, <3>1, StillStarted
    <3> QED BY <2>5, <2>7, <3>2 DEF BootInv
  <2> QED BY <1>7, <2>8, <2>9
<1>8. CASE /\ snaps' = Overwritten(B2) \cup {new}
           /\ \E o \in write_both(u) :
                /\ Spend(o.cost) /\ lba' = o.lba
                /\ report' = (IF o.rc = "ok" THEN "ok" ELSE "err")
                /\ IF o.rc = "off" THEN PowerLoss
                   ELSE ram' = [ram EXCEPT !.t = u] /\ UNCHANGED <<page, sram, pc>>
           /\ blind' = (blind \/ t.gen = GenMax)
  <2>1. PICK o \in write_both(u) :
          /\ Spend(o.cost) /\ lba' = o.lba
          /\ report' = (IF o.rc = "ok" THEN "ok" ELSE "err")
          /\ IF o.rc = "off" THEN PowerLoss
             ELSE ram' = [ram EXCEPT !.t = u] /\ UNCHANGED <<page, sram, pc>>
    BY <1>8
  <2>2. u \in Tables /\ Like(u, t) /\ u.gen = NextGen(t.gen)
    BY <1>3, <1>6, Renumber DEF u
  <2>3. /\ lba' \in {lba, [lba EXCEPT !["A"] = u], [c \in Copies |-> u]}
        /\ o.rc \in {"ok", "err", "off"} /\ o.cost \in {0, 1}
    BY <2>1, Outcomes
  <2>4. blind' \in BOOLEAN /\ (blind => blind') /\ report' \in {"ok", "err"}
    BY <1>8, <2>1
  <2>5. PICK c \in Copies : lba[c] # None /\ Like(t, lba[c])
    BY <1>1, <1>2 DEF AppTable, t
  <2>6. Like(u, lba[c]) /\ SameLayout(u, lba[c])
    BY <2>2, <2>5 DEF Like, SameLayout
  <2>7. ~blind' => u.gen > lba["B"].gen /\ u.gen \in Nat
    <3> SUFFICES ASSUME ~blind' PROVE u.gen > lba["B"].gen /\ u.gen \in Nat
      OBVIOUS
    <3>1. ~blind /\ t.gen # GenMax
      BY <1>8
    <3>2. t.gen >= lba["B"].gen /\ t.gen \in Nat
      BY <1>1, <1>2, <1>3, <3>1, TableFields DEF AppTable, t
    <3>3. lba["B"].gen \in Nat
      BY <1>1, Generations DEF BootTypes, Copies
    <3>4. u.gen = t.gen + 1
      BY <2>2, <3>1 DEF NextGen
    <3> QED BY <3>2, <3>3, <3>4
  <2>8. /\ Overwritten(B2) \in SUBSET Snaps(saves)
        /\ \A x, y \in Overwritten(B2) : x.lba = y.lba => x = y
        /\ \A s \in Overwritten(B2) : /\ \E x \in snaps : KeptFrom(s, x)
                                      /\ s.lba # at
    <3>1. snaps \in SUBSET Snaps(saves) /\ \A x, y \in snaps : x.lba = y.lba => x = y
      BY <1>1 DEF BootTypes
    <3>2. /\ Overwritten(B2) \in SUBSET Snaps(saves)
          /\ \A x, y \in Overwritten(B2) : x.lba = y.lba => x = y
          /\ \A s \in Overwritten(B2) : /\ \E x \in snaps : KeptFrom(s, x)
                                        /\ ~\E r \in B2 : r.lo <= s.lba + 1 /\ s.lba <= r.hi
      <4> HIDE DEF B2
      <4> QED BY <1>3, <3>1, Overwriting
    <3>3. PayloadBlocks \in Nat
      BY BootDiskAssumption
    <3>4. /\ Span(at, at + PayloadBlocks) \in B2
          /\ Span(at, at + PayloadBlocks).lo = at /\ Span(at, at + PayloadBlocks).hi = at + PayloadBlocks
      BY DEF Span
    <3>5. at <= at + 1 /\ at <= at + PayloadBlocks
      BY <1>3, <3>3
    <3> HIDE DEF B2
    <3> QED BY <3>2, <3>4, <3>5
  <2> HIDE DEF B2
  <2>9. /\ new \in Snaps(saves') /\ new.lba = at /\ new.id = saves'
    <3>1. saves' \in 1 .. saves' /\ t.per \in Nat /\ ram \in Rams
      BY <1>1, <1>2, <1>3, TableFields DEF BootTypes
    <3> QED BY <1>3, <3>1 DEF Snaps
  <2> HIDE DEF new
  <2>10. snaps' \in SUBSET Snaps(saves') /\ \A x, y \in snaps' : x.lba = y.lba => x = y
    BY <1>5, <1>8, <2>8, <2>9
  <2>11. SlotsKept
    <3>1. saves' > formatted
      BY <1>1, <1>2 DEF BootTypes
    <3> QED BY <1>8, <2>8, <2>9, <3>1 DEF SlotsKept
  <2>12. /\ lba' \in [Copies -> MaybeTable] /\ CardOK'
         /\ lba'["A"] = lba["A"] \/ lba'["A"] = u
         /\ lba'["B"] = lba["B"] \/ lba'["B"] = u
    BY <1>1, <1>2, <2>2, <2>3, <2>4, <2>5, <2>6, <2>7, <2>11, Updated
  <2>13. faults' \in 0 .. MaxFaults
    BY <1>1, <2>1, <2>3, Spending DEF BootTypes
  <2>14. ram \in Rams /\ [ram EXCEPT !.t = u] \in Rams /\ [ram EXCEPT !.t = u].t = u /\ [ram EXCEPT !.t = u].valid = ram.valid
    <3>1. ram \in Rams /\ u \in MaybeTable /\ u # None
      BY <1>1, <2>2, NoneFields DEF BootTypes, MaybeTable
    <3> QED BY <3>1 DEF Rams
  <2>15. pc' \in BootPcs /\ page' \in Pages /\ sram' \in 0 .. saves' /\ ram' \in Rams
    <3>1. pc \in BootPcs /\ page \in Pages
      BY <1>1 DEF BootTypes
    <3> QED BY <1>1, <1>6, <2>1, <2>14, <3>1, Blank DEF PowerLoss, BootPcs
  <2>16. BootTypes'
    BY <1>1, <1>2, <1>6, <2>4, <2>10, <2>12, <2>13, <2>15 DEF BootTypes
  <2>17. CASE o.rc = "off"
    BY <2>1, <2>12, <2>16, <2>17, Resting DEF PowerLoss, BootInv
  <2>18. CASE o.rc # "off"
    <3>1. pc' = pc /\ ram'.t = u /\ ram'.valid = ram.valid
      BY <2>1, <2>14, <2>18
    <3>2. \E x \in Copies : lba'[x] # None /\ Like(u, lba'[x])
      <4>1. CASE lba' = lba
        BY <2>5, <2>6, <4>1
      <4>2. CASE lba' # lba
        <5>1. lba'["A"] = u /\ "A" \in Copies
          BY <1>1, <2>3, <4>2 DEF BootTypes, Copies
        <5> QED BY <2>2, <5>1, NoneFields DEF Like, SameLayout
      <4> QED BY <4>1, <4>2
    <3>3. ~blind' => u.gen >= lba'["B"].gen
      <4>1. lba["B"].gen \in Nat
        BY <1>1, Generations DEF BootTypes, Copies
      <4> QED BY <2>7, <2>12, <4>1
    <3>4. AppTable'
      BY <3>1, <3>2, <3>3 DEF AppTable, Like, SameLayout
    <3>5. u.jstart = ram.t.jstart
      BY <2>2 DEF Like, SameLayout, t
    <3>6. FlowOK'
      BY <1>1, <1>2, <2>4, <3>1, <3>4, <3>5, StillStarted
    <3> QED BY <2>12, <2>16, <3>6 DEF BootInv
  <2> QED BY <2>17, <2>18
<1> QED BY <1>4, <1>7, <1>8

-----------------------------------------------------------------------------
(* The theorems *)

\* The invariant holds of a new card
LEMMA BootInit ==
  ASSUME Init PROVE BootInv
<1>0. MaxSnapshots \in Nat /\ MaxFaults \in Nat
  BY BootDiskAssumption
<1>1. lba \in [Copies -> MaybeTable]
  BY DEF Init, MaybeTable
<1>2. st \in [ok : BOOLEAN, magic : BOOLEAN, list : Lists(saves)]
  <2>1. <<>> \in Lists(saves)
    BY DEF Lists
  <2> QED BY <2>1 DEF Init, NoCard
<1>3. ram \in Rams /\ page \in Pages
  BY DEF Init, NoTable, Rams, MaybeTable, Clear, Pages
<1>4. BootTypes
  <2>1. saves = 0 /\ snaps = {} /\ sram = 0 /\ pick = 0 /\ faults = 0 /\ formatted = 0 /\ pc = "reset"
        /\ report = "ok" /\ blind = FALSE /\ unfinished = FALSE
    BY DEF Init
  <2>2. pc \in BootPcs
    BY <2>1 DEF BootPcs
  <2>3. snaps \in SUBSET Snaps(saves) /\ \A x, y \in snaps : x.lba = y.lba => x = y
    BY <2>1
  <2>4. saves \in 0 .. MaxSnapshots /\ sram \in 0 .. saves /\ pick \in 0 .. saves
        /\ formatted \in 0 .. saves /\ faults \in 0 .. MaxFaults
    BY <1>0, <2>1
  <2>5. blind \in BOOLEAN /\ unfinished \in BOOLEAN /\ report \in {"ok", "err"}
    BY <2>1
  <2> QED BY <1>1, <1>2, <1>3, <2>2, <2>3, <2>4, <2>5 DEF BootTypes
<1>5. lba["A"] = None /\ lba["B"] = None
  BY DEF Init, Copies
<1>6. CardOK
  BY <1>5 DEF CardOK, Mirrored, OneLayout, Remembered, Init, NoCard
<1>7. FlowOK
  BY DEF Init, FlowOK, AppTable, ListOK, OnTheWay, JournalAreaAgrees, StartSound, ChoiceHonoured,
         ConfigArrives, DoneFormatForgets, FormatForgets
<1> QED BY <1>4, <1>6, <1>7 DEF BootInv

\* The invariant depends on nothing else
LEMMA BootStutter ==
  ASSUME BootInv, UNCHANGED vars PROVE BootInv'
<1>1. /\ lba' = lba /\ snaps' = snaps /\ page' = page /\ sram' = sram /\ pc' = pc /\ st' = st /\ pick' = pick
      /\ ram' = ram /\ app' = app /\ saves' = saves /\ faults' = faults /\ asked' = asked
      /\ report' = report /\ blind' = blind /\ formatted' = formatted /\ unfinished' = unfinished
  BY DEF vars, disk, counts, history
<1>2. BootTypes' /\ CardOK'
  <2>1. st'.magic \/ st'.list # <<>> => lba["A"] # None
    BY <1>1 DEF BootInv, CardOK, Mirrored
  <2> QED BY <1>1, <2>1, KeptSame, Untouched DEF BootInv, BootTypes
<1>3. /\ ValidSlots(lba["A"])' = ValidSlots(lba["A"])
      /\ boot_snapshot_scan(lba["A"])' = boot_snapshot_scan(lba["A"])
  <2>1. SameLayout(lba'["A"], lba["A"])
    BY <1>1 DEF SameLayout
  <2> QED BY <1>1, <2>1, SlotsSame
<1>4. Candidates(lba["A"])' = Candidates(lba["A"])
  BY <1>1, <1>3, CandidatesMeant, CandidatesMeantNext
<1>5. AppTable' /\ ListOK' /\ OnTheWay' /\ JournalAreaAgrees' /\ StartSound'
  BY <1>1, <1>3, <1>4
     DEF BootInv, FlowOK, AppTable, Like, SameLayout, ListOK, OnTheWay, Image_OK, JournalAreaAgrees,
         StartSound, ChoiceHonoured, ConfigArrives, DoneFormatForgets, FormatForgets
<1> QED BY <1>2, <1>5 DEF BootInv, FlowOK

\* Every step keeps the invariant
LEMMA BootStep ==
  ASSUME BootInv, Next PROVE BootInv'
<1>1. ASSUME NEW ready \in BOOLEAN, NEW bad \in SUBSET Copies, NEW yes \in BOOLEAN,
             \/ boot_main(ready, bad, yes) \/ Restore(ready, bad, yes)
             \/ rewind_resume_entry(yes, ready, bad)
      PROVE  BootInv'
  BY <1>1, StepMain, StepRestore, StepResumeEntry
<1>2. ASSUME NEW ready \in BOOLEAN, NEW bad \in SUBSET Copies,
             Refresh(ready, bad) \/ main_cold_boot(ready, bad)
      PROVE  BootInv'
  BY <1>2, StepRefresh, StepColdBoot
<1>3. ASSUME NEW bad \in SUBSET Copies, MenuRecent(bad) \/ MenuFresh(bad) PROVE BootInv'
  BY <1>3, StepMenuRecent, StepMenuFresh
<1>4. ASSUME NEW rank \in 1 .. 3, NEW bad \in SUBSET Copies, MenuSnapshot(rank, bad) PROVE BootInv'
  BY <1>4, StepMenuSnapshot
<1>5. ASSUME NEW bad \in SUBSET Copies, NEW bad2 \in SUBSET Copies, RestoreEnd(bad, bad2) PROVE BootInv'
  BY <1>5, StepRestoreEnd
<1>6. ASSUME NEW slots \in SlotChoices, NEW bad \in SUBSET Copies, NEW bad2 \in SUBSET Copies,
             NEW zeroed \in 0 .. slots, SetupFormat(slots, bad, zeroed, bad2)
      PROVE  BootInv'
  BY <1>6, StepSetupFormat
<1>7. ASSUME MenuSetup \/ EnterShell \/ Reset \/ PowerCut PROVE BootInv'
  BY <1>7, StepIdle
<1>8. ASSUME NEW n \in ckpt_sectors, ShellFormat(n) PROVE BootInv'
  BY <1>8, StepShellFormat
<1>9. ASSUME NEW v \in Intervals, ShellBoot(v) PROVE BootInv'
  BY <1>9, StepShellBoot
<1>10. ASSUME NEW whole \in BOOLEAN, SaveSnapshot(whole) PROVE BootInv'
  BY <1>10, StepSaveSnapshot
<1>11. ASSUME NEW i \in 0 .. 1, SaveCheckpoint(i) PROVE BootInv'
  BY <1>11, StepSaveCheckpoint
<1> QED BY <1>1, <1>2, <1>3, <1>4, <1>5, <1>6, <1>7, <1>8, <1>9, <1>10, <1>11 DEF Next

\* The inductive invariant of the disk table and the boot flow
THEOREM BootInvariant == Spec => []BootInv
<1>1. Init => BootInv
  BY BootInit
<1>2. BootInv /\ [Next]_vars => BootInv'
  BY BootStep, BootStutter
<1> QED BY <1>1, <1>2, PTL DEF Spec

\* Tables have the type of the specification
LEMMA TableTyped ==
  ASSUME NEW t \in MaybeTable PROVE TableTypeOK(t)
<1>1. CASE t = None
  BY <1>1 DEF TableTypeOK
<1>2. CASE t # None
  <2>1. t \in Tables
    BY <1>2 DEF MaybeTable
  <2>2. /\ t.fmt \in {"RWDI", "RWSS"} /\ t.gen \in 1 .. GenMax /\ t.last \in 0 .. MaxSnapshots
        /\ t.target \in TargetsPossible /\ t.start \in Nat /\ t.blocks \in Nat /\ t.start >= 32
        /\ t.rwfs = IF t.fmt = "RWSS" THEN 0 ELSE t.start + t.blocks
    BY <2>1, TableFields DEF Fits
  <2>3. (t.fmt = "RWSS") = (t.rwfs = 0)
    <3>1. CASE t.fmt = "RWSS"
      BY <2>2, <3>1
    <3>2. CASE t.fmt # "RWSS"
      <4>1. t.rwfs = t.start + t.blocks /\ t.start + t.blocks # 0
        BY <2>2, <3>2
      <4> QED BY <3>2, <4>1
    <3> QED BY <3>1, <3>2
  <2> QED BY <2>2, <2>3 DEF TableTypeOK
<1> QED BY <1>1, <1>2

\* The invariant implies the types
LEMMA BootTypeOK ==
  ASSUME BootInv PROVE TypeOK
<1>1. BootTypes /\ MaxSnapshots \in Nat
  BY BootDiskAssumption DEF BootInv
<1>2. \A c \in Copies : TableTypeOK(lba[c])
  BY <1>1, TableTyped DEF BootTypes
<1>3. ram.valid \in BOOLEAN /\ TableTypeOK(ram.t)
  BY <1>1, TableTyped DEF BootTypes, Rams
<1>4. \A s \in snaps : s.id \in 1 .. saves /\ s.seq \in 1 .. MaxSnapshots /\ s.torn \in BOOLEAN
  <2> SUFFICES ASSUME NEW s \in snaps
               PROVE  s.id \in 1 .. saves /\ s.seq \in 1 .. MaxSnapshots /\ s.torn \in BOOLEAN
    OBVIOUS
  <2>1. s.id \in 1 .. saves /\ s.seq \in 1 .. saves /\ s.torn \in BOOLEAN /\ saves \in 0 .. MaxSnapshots
    BY <1>1 DEF BootTypes, Snaps
  <2>2. s.seq \in 1 .. MaxSnapshots
    BY <1>1, <2>1
  <2> QED BY <2>1, <2>2
<1>5. page.kind \in {"clear", "resume", "cfg"}
  BY <1>1 DEF BootTypes, Pages
<1>6. sram \in 0 .. saves /\ pick \in 0 .. MaxSnapshots
  BY <1>1 DEF BootTypes
<1>7. Len(st.list) <= 3
  BY <1>1 DEF BootTypes, Lists
<1> QED BY <1>1, <1>2, <1>3, <1>4, <1>5, <1>6, <1>7 DEF TypeOK, BootTypes, BootPcs

\* Says tells apart only what a table says
LEMMA SaysSame ==
  ASSUME NEW p, NEW q, NEW t, ReadAs(p, t), ReadAs(q, t)
  PROVE  Says(p) = Says(q)
<1>1. CASE t = None
  BY <1>1 DEF ReadAs
<1>2. CASE t # None
  <2>1. p \in Tables /\ q \in Tables /\ Like(p, q) /\ p.last = q.last
    BY <1>2 DEF ReadAs, Like, SameLayout
  <2> QED BY <2>1, LikeSays
<1> QED BY <1>1, <1>2

\* Copy A is the later one or the same as copy B, so the order of the readers does not matter
LEMMA BootReadersAgree ==
  ASSUME BootInv PROVE ReadersAgree
<1> SUFFICES ASSUME ~blind PROVE Says(rwos_disk_read_best({})) = Says(boot_admin_read_best({}))
  BY DEF ReadersAgree
<1> DEFINE a == rwos_disk_parse(lba["A"])  b == rwos_disk_parse(lba["B"])
           p == boot_admin_parse_block(lba["A"])  q == boot_admin_parse_block(lba["B"])
<1>1. lba["A"] \in MaybeTable /\ lba["B"] \in MaybeTable
  BY DEF BootInv, BootTypes, Copies
<1>2. ReadAs(a, lba["A"]) /\ ReadAs(p, lba["A"]) /\ ReadAs(b, lba["B"]) /\ ReadAs(q, lba["B"])
  BY <1>1, Parsed, NoneFields DEF ReadAs
<1>3. /\ rwos_disk_read_best({}) = IF a.gen >= b.gen THEN a ELSE b
      /\ boot_admin_read_best({}) = IF q.gen >= p.gen THEN q ELSE p
  BY DEF rwos_disk_read_best, boot_admin_read_best
<1> HIDE DEF a, b, p, q
<1>4. /\ a.gen = lba["A"].gen /\ p.gen = lba["A"].gen /\ b.gen = lba["B"].gen /\ q.gen = lba["B"].gen
      /\ lba["A"].gen \in Nat /\ lba["B"].gen \in Nat
  BY <1>1, <1>2, Generations DEF ReadAs
<1>5. lba["A"] = lba["B"] \/ lba["A"].gen > lba["B"].gen
  BY DEF BootInv, CardOK, Mirrored
<1>6. CASE lba["A"] = lba["B"]
  <2>1. rwos_disk_read_best({}) = a /\ boot_admin_read_best({}) = q
    BY <1>3, <1>4, <1>6
  <2> QED BY <1>2, <1>6, <2>1, SaysSame
<1>7. CASE lba["A"].gen > lba["B"].gen
  <2>1. rwos_disk_read_best({}) = a /\ boot_admin_read_best({}) = p
    BY <1>3, <1>4, <1>7
  <2> QED BY <1>2, <2>1, SaysSame
<1> QED BY <1>5, <1>6, <1>7

\* Tables of the invariant have areas that both programs accept
LEMMA BootLayoutsFit ==
  ASSUME BootInv PROVE LayoutsFit
<1> SUFFICES ASSUME NEW c \in Copies, NEW t, t = rwos_disk_parse(lba[c]), t # None
             PROVE  /\ boot_snapshot_layout_valid(t) /\ snapshot_layout_valid(t)
                    /\ 2 < t.jstart /\ t.jstart + t.jblocks <= t.start
                    /\ t.start + t.slots * t.per <= t.rwfs /\ t.rwfs < card
  BY DEF LayoutsFit
<1>1. lba[c] \in MaybeTable
  BY DEF BootInv, BootTypes
<1>2. t \in Tables /\ t.fmt = "RWDI"
  BY <1>1, Parsed
<1>3. boot_snapshot_layout_valid(t) /\ snapshot_layout_valid(t)
  BY <1>2, LayoutValid
<1>4. /\ t.rwfs = t.start + t.blocks /\ Fits(t) /\ t.start \in Nat /\ t.blocks \in Nat
  BY <1>2, TableFields
<1>5. t.blocks = t.slots * t.per
  BY <1>4 DEF Fits
<1>6. t.start + t.slots * t.per <= t.rwfs
  BY <1>4, <1>5
<1> QED BY <1>3, <1>4, <1>6 DEF Fits

\* One table for both programs: the application and the boot menu take the same copy for
\* the newest after any failed update and power loss, all areas fit the card, and the
\* journal area handed over is that of the table in use
THEOREM OneTable == Spec => []TableSound
<1>1. BootInv => TableSound
  <2> SUFFICES ASSUME BootInv PROVE TableSound
    OBVIOUS
  <2>1. JournalAreaAgrees
    BY DEF BootInv, FlowOK
  <2> QED BY <2>1, BootTypeOK, BootReadersAgree, BootLayoutsFit DEF TableSound
<1> QED BY <1>1, BootInvariant, PTL

\* The application starts as the user of the boot menu told it to
THEOREM StartsAsTold == Spec => []StartSound
<1>1. BootInv => StartSound
  BY DEF BootInv, FlowOK
<1> QED BY <1>1, BootInvariant, PTL

-----------------------------------------------------------------------------
(* The two copies implement one register *)

\* A table says something
LEMMA SaysSomething ==
  ASSUME NEW t \in Tables PROVE Says(t) # Unformatted
<1>1. t \in MaybeTable /\ t # None
  BY NoneFields DEF MaybeTable
<1> DEFINE u == rwos_disk_parse(t)
<1>2. u \in Tables /\ u # None
  BY <1>1, Parsed, NoneFields
<1>3. u.start >= 32 /\ u.start \in Nat
  BY <1>2, TableFields DEF Fits
<1> HIDE DEF u
<1>4. Says(t).start = u.start
  BY <1>2 DEF Says, u
<1> QED BY <1>3, <1>4 DEF Unformatted

\* A new target changes nothing else of what a table says
LEMMA RetargetSays ==
  ASSUME NEW t \in Tables, NEW u \in Tables, SameLayout(t, u), t.last = u.last
  PROVE  Says(t) = [Says(u) EXCEPT !.target = t.target]
<1> DEFINE a == rwos_disk_parse(t)  b == rwos_disk_parse(u)
<1>1. t \in MaybeTable /\ t # None /\ u \in MaybeTable /\ u # None
  BY NoneFields DEF MaybeTable
<1>2. /\ a \in Tables /\ Like(a, t) /\ a.last = t.last /\ a.fmt = "RWDI"
      /\ b \in Tables /\ Like(b, u) /\ b.last = u.last /\ b.fmt = "RWDI"
  BY <1>1, Parsed
<1> HIDE DEF a, b
<1>3. a # None /\ b # None /\ a.rwfs = a.start + a.blocks /\ b.rwfs = b.start + b.blocks
  BY <1>2, TableFields
<1>4. /\ Says(t) = [jstart |-> a.jstart, jblocks |-> a.jblocks, start |-> a.start, slots |-> a.slots,
                    per |-> a.per, blocks |-> a.blocks, rwfs |-> a.rwfs, target |-> a.target, last |-> a.last]
      /\ Says(u) = [jstart |-> b.jstart, jblocks |-> b.jblocks, start |-> b.start, slots |-> b.slots,
                    per |-> b.per, blocks |-> b.blocks, rwfs |-> b.rwfs, target |-> b.target, last |-> b.last]
  BY <1>3 DEF Says, a, b
<1>5. a.jstart = b.jstart /\ a.jblocks = b.jblocks /\ a.start = b.start /\ a.slots = b.slots /\ a.per = b.per
      /\ a.blocks = b.blocks /\ a.rwfs = b.rwfs /\ a.target = t.target /\ a.last = b.last
  BY <1>2, <1>3 DEF Like, SameLayout
<1> QED BY <1>4, <1>5

\* Writing the two copies is a write of the register
LEMMA RegisterWrite ==
  ASSUME NEW t, NEW o \in write_both(t), lba \in [Copies -> MaybeTable], lba' = o.lba,
         report' = "err" \/ (report' = "ok" /\ o.rc = "ok")
  PROVE  Register!Write(Says(t))
<1>1. /\ o.lba \in {lba, [lba EXCEPT !["A"] = t], [c \in Copies |-> t]}
      /\ o.rc = "ok" => o.lba = [c \in Copies |-> t]
  BY Outcomes
<1>2. CASE lba' = [c \in Copies |-> t]
  <2>1. lba'["A"] = t /\ lba'["B"] = t
    BY <1>2 DEF Copies
  <2> QED BY <2>1 DEF Register!Write
<1>3. CASE lba' = lba /\ report' = "err"
  BY <1>3 DEF Register!Write
<1>4. CASE lba' = [lba EXCEPT !["A"] = t] /\ report' = "err"
  <2>1. lba'["A"] = t /\ lba'["B"] = lba["B"]
    BY <1>4 DEF Copies
  <2> QED BY <1>4, <2>1 DEF Register!Write
<1> QED BY <1>1, <1>2, <1>3, <1>4

\* What a copy says is a value the register had
LEMMA InBase ==
  ASSUME lba \in [Copies -> MaybeTable], NEW c \in Copies, lba[c] # None
  PROVE  Says(lba[c]) \in Register!Base
<1>1. lba[c] \in Tables
  BY DEF MaybeTable
<1>2. Says(lba[c]) # Unformatted
  BY <1>1, SaysSomething
<1>3. c = "A" \/ c = "B"
  BY DEF Copies
<1> QED BY <1>2, <1>3 DEF Register!Base

\* The step leaves the register alone
LEMMA RegisterIdle ==
  ASSUME lba' = lba, report' = report
  PROVE  [Register!Next]_<<Says(lba["B"]), {Says(lba["A"])} \ {Says(lba["B"])}, report>>
OBVIOUS

\* boot_admin_update_target is SetTarget, also if it cannot read the table
LEMMA RegisterTarget ==
  ASSUME BootTypes, CardOK, lba["A"] # None, NEW g \in TargetsPossible, NEW bad \in SUBSET Copies,
         NEW o \in boot_admin_update_target(g, bad), lba' = o.lba,
         report' = (IF o.rc = "ok" THEN "ok" ELSE "err")
  PROVE  Register!SetTarget
<1> DEFINE adm == boot_admin_read_best(bad)
<1>0. lba \in [Copies -> MaybeTable]
  BY DEF BootTypes
<1>1. BestOf(adm, bad)
  BY <1>0, ReadBest
<1>2. CASE adm = None
  <2>1. o = [lba |-> lba, rc |-> "err", cost |-> 0]
    BY <1>2 DEF boot_admin_update_target
  <2>2. lba' = lba /\ report' = "err"
    BY <2>1
  <2>3. Says(lba["A"]) \in Register!Base
    BY <1>0, InBase DEF Copies
  <2>4. \A v : Register!Write(v)
    BY <2>2 DEF Register!Write
  <2> QED BY <2>3, <2>4 DEF Register!SetTarget
<1>3. CASE adm # None
  <2> DEFINE t == Retargeted(adm, g)
  <2>1. o \in write_both(t)
    BY <1>3 DEF boot_admin_update_target, Retargeted
  <2>2. PICK c \in Copies \ bad : ReadAs(adm, lba[c])
    BY <1>1, <1>3 DEF BestOf
  <2>3. adm \in Tables /\ lba[c] \in Tables /\ lba[c] # None /\ SameLayout(adm, lba[c]) /\ adm.last = lba[c].last
    BY <1>3, <2>2 DEF ReadAs, Like
  <2>4. t \in Tables /\ SameLayout(t, adm) /\ t.target = g /\ t.last = adm.last
    BY <2>3, Retarget
  <2> HIDE DEF t
  <2>5. SameLayout(t, lba[c]) /\ t.last = lba[c].last
    BY <2>3, <2>4 DEF SameLayout
  <2>6. Says(t) = [Says(lba[c]) EXCEPT !.target = g]
    BY <2>3, <2>4, <2>5, RetargetSays
  <2>7. Says(lba[c]) \in Register!Base
    BY <1>0, <2>2, <2>3, InBase
  <2>8. report' = "err" \/ (report' = "ok" /\ o.rc = "ok")
    OBVIOUS
  <2>9. Register!Write(Says(t))
    BY <1>0, <2>1, <2>8, RegisterWrite
  <2> QED BY <2>6, <2>7, <2>9 DEF Register!SetTarget
<1> QED BY <1>2, <1>3

\* Formats say the same whatever their generation
LEMMA FormatSays ==
  ASSUME NEW l \in Areas, NEW f \in {"RWDI", "RWSS"}, NEW g \in 1 .. GenMax,
         NEW r, r = (IF f = "RWSS" THEN 0 ELSE l.start + l.blocks)
  PROVE  Says(Table(f, g, l, r)) = Says(Table("RWSS", 1, l, 0))
<1>1. 1 \in 1 .. GenMax
  BY BootDiskAssumption
<1> DEFINE t == Table(f, g, l, r)  u == Table("RWSS", 1, l, 0)
<1>2. t \in Tables /\ SameLayout(t, l)
  BY MadeTable
<1>3. u \in Tables /\ SameLayout(u, l)
  BY <1>1, MadeTable
<1>4. t.target = Recent /\ t.last = 0 /\ u.target = Recent /\ u.last = 0
  BY DEF Table
<1> HIDE DEF t, u
<1>5. Like(t, u) /\ t.last = u.last
  BY <1>2, <1>3, <1>4 DEF Like, SameLayout
<1>6. Says(t) = Says(u)
  BY <1>2, <1>3, <1>5, LikeSays
<1> QED BY <1>6 DEF t, u

\* The setup menu formats, also if it fails to zero a header after the table is written
LEMMA RegisterSetup ==
  ASSUME BootInv, NEW slots \in SlotChoices, NEW bad \in SUBSET Copies, NEW bad2 \in SUBSET Copies,
         NEW zeroed \in 0 .. slots, SetupFormat(slots, bad, zeroed, bad2)
  PROVE  Register!Format
<1> DEFINE l == boot_snapshot_layout_compute(slots)
           old == boot_admin_read_best(bad)
           t == Table("RWSS", FormatGen(old), l, 0)
<1>0. lba \in [Copies -> MaybeTable]
  BY DEF BootInv, BootTypes
<1>1. l # None /\ l \in Areas
  <2>1. l # None
    BY DEF SetupFormat
  <2> QED BY <2>1, ComputedFits
<1>2. FormatGen(old) \in 1 .. GenMax
  BY <1>0, ReadBest, FormatGenLate DEF BestOf
<1>3. PICK o \in write_both(t) : lba' = o.lba /\ (report' = "err" \/ (report' = "ok" /\ o.rc = "ok"))
  BY DEF SetupFormat
<1>4. Says(t) = Says(Table("RWSS", 1, l, 0))
  <2> HIDE DEF l, old
  <2> QED BY <1>1, <1>2, FormatSays
<1>5. Register!Write(Says(t))
  <2> HIDE DEF t
  <2> QED BY <1>0, <1>3, RegisterWrite
<1> HIDE DEF t, old
<1> QED BY <1>1, <1>4, <1>5 DEF Register!Format

\* The start of the application formats or leaves the table alone
LEMMA RegisterStart ==
  ASSUME BootInv, NEW started, NEW ready \in BOOLEAN, NEW bad \in SUBSET Copies,
         AppStarts(started, ready, bad)
  PROVE  Register!Format \/ (lba' = lba /\ report' = report)
<1> DEFINE t == rwos_disk_read_best(bad)
           r == auto_layout.start + auto_layout.blocks
           new == Table("RWDI", 1, auto_layout, r)
<1>0. lba \in [Copies -> MaybeTable]
  BY DEF BootInv, BootTypes
<1>1. PICK o \in rwos_disk_init(ready, bad) : lba' = o.lba /\ report' = o.report
  BY DEF AppStarts
<1>2. \/ \E q : o = [lba |-> lba, ram |-> q, rc |-> "ok", cost |-> 0, report |-> report]
      \/ /\ auto_layout # None
         /\ \E w \in write_both(new) :
              o = [lba |-> w.lba, rc |-> w.rc,
                   ram |-> IF w.rc = "ok" THEN [valid |-> TRUE, t |-> new] ELSE NoTable,
                   cost |-> w.cost, report |-> IF w.rc = "ok" THEN "ok" ELSE "err"]
  BY DEF rwos_disk_init
<1>3. CASE \E q : o = [lba |-> lba, ram |-> q, rc |-> "ok", cost |-> 0, report |-> report]
  BY <1>1, <1>3
<1>4. CASE /\ auto_layout # None
           /\ \E w \in write_both(new) :
                o = [lba |-> w.lba, rc |-> w.rc,
                     ram |-> IF w.rc = "ok" THEN [valid |-> TRUE, t |-> new] ELSE NoTable,
                     cost |-> w.cost, report |-> IF w.rc = "ok" THEN "ok" ELSE "err"]
  <2>1. PICK w \in write_both(new) :
          o = [lba |-> w.lba, rc |-> w.rc,
               ram |-> IF w.rc = "ok" THEN [valid |-> TRUE, t |-> new] ELSE NoTable,
               cost |-> w.cost, report |-> IF w.rc = "ok" THEN "ok" ELSE "err"]
    BY <1>4
  <2>2. lba' = w.lba /\ report' = IF w.rc = "ok" THEN "ok" ELSE "err"
    BY <1>1, <2>1
  <2>3. auto_layout \in Areas /\ auto_layout # None /\ 1 \in 1 .. GenMax
    BY <1>4, AutoFits, BootDiskAssumption
  <2>4. Says(new) = Says(Table("RWSS", 1, auto_layout, 0))
    BY <2>3, FormatSays
  <2> HIDE DEF new
  <2>5. report' = "err" \/ (report' = "ok" /\ w.rc = "ok")
    BY <2>2
  <2>6. Register!Write(Says(new))
    BY <1>0, <2>2, <2>5, RegisterWrite
  <2> QED BY <2>3, <2>4, <2>6 DEF Register!Format
<1> QED BY <1>2, <1>3, <1>4

\* A save sets the last snapshot, of the table that the application has read
LEMMA RegisterSave ==
  ASSUME BootInv, NEW whole \in BOOLEAN, SaveSnapshot(whole)
  PROVE  Register!SetLastSnap \/ (lba' = lba /\ report' = report)
<1>0. BootTypes /\ AppTable /\ lba \in [Copies -> MaybeTable]
  BY DEF BootInv, FlowOK, BootTypes
<1> DEFINE t == ram.t
           u == Renumbered(t, SaveSeq)
<1>1. pc = "app" /\ ram.valid /\ saves < MaxSnapshots
  BY DEF SaveSnapshot
<1>2. t \in Tables /\ SaveSeq \in 0 .. MaxSnapshots
  <2>1. SaveSeq \in 1 .. saves + 1 /\ saves \in Nat /\ MaxSnapshots \in Nat /\ t \in Tables
    BY <1>0, <1>1, SaveSlotOK, BootDiskAssumption
  <2> QED BY <1>1, <2>1
<1>3. \/ lba' = lba /\ report' = report
      \/ \E o \in write_both(u) : lba' = o.lba /\ report' = (IF o.rc = "ok" THEN "ok" ELSE "err")
  BY DEF SaveSnapshot, SaveSeq, rwos_disk_set_last_snap, Renumbered
<1> HIDE DEF t, u
<1>4. CASE \E o \in write_both(u) : lba' = o.lba /\ report' = (IF o.rc = "ok" THEN "ok" ELSE "err")
  <2>1. PICK o \in write_both(u) : lba' = o.lba /\ report' = (IF o.rc = "ok" THEN "ok" ELSE "err")
    BY <1>4
  <2>2. u \in Tables /\ Like(u, t) /\ u.last = SaveSeq
    BY <1>2, Renumber DEF u
  <2>3. PICK c \in Copies : lba[c] # None /\ Like(t, lba[c])
    BY <1>0, <1>1 DEF AppTable, t
  <2>4. lba[c] \in Tables /\ Like(u, lba[c])
    BY <1>0, <2>2, <2>3 DEF MaybeTable, Like, SameLayout
  <2>5. Says(u) = [Says(lba[c]) EXCEPT !.last = SaveSeq]
    BY <2>2, <2>4, LikeSays
  <2>6. Says(lba[c]) \in Register!Base
    BY <1>0, <2>3, InBase
  <2>7. Register!Write(Says(u))
    BY <1>0, <2>1, RegisterWrite
  <2> QED BY <1>2, <2>5, <2>6, <2>7 DEF Register!SetLastSnap
<1> QED BY <1>3, <1>4

\* A choice of the menu sets the target
LEMMA RegisterChoose ==
  ASSUME BootInv, lba["A"] # None, NEW g \in TargetsPossible, NEW bad \in SUBSET Copies, NEW ask, NEW next,
         Choose(g, ask, next, bad)
  PROVE  Register!SetTarget
<1>1. PICK o \in boot_admin_update_target(g, bad) :
        lba' = o.lba /\ report' = (IF o.rc = "ok" THEN "ok" ELSE "err")
  BY DEF Choose
<1> QED BY <1>1, RegisterTarget DEF BootInv

\* So does each of its entries, or leaves the table alone
LEMMA RegisterMenu ==
  ASSUME BootInv, NEW bad \in SUBSET Copies,
         MenuRecent(bad) \/ MenuFresh(bad) \/ \E rank \in 1 .. 3 : MenuSnapshot(rank, bad)
  PROVE  Register!SetTarget \/ (lba' = lba /\ report' = report)
<1>0. st.magic \/ st.list # <<>> => lba["A"] # None
  BY DEF BootInv, CardOK, Mirrored
<1>1. CASE MenuRecent(bad)
  <2>1. Recent \in TargetsPossible /\ st.list # <<>>
    BY <1>1 DEF TargetsPossible, MenuRecent
  <2> QED BY <1>0, <1>1, <2>1, RegisterChoose DEF MenuRecent
<1>2. CASE MenuFresh(bad)
  <2>1. Target("fresh", 0, 0) \in TargetsPossible
    BY DEF TargetsPossible
  <2>2. CASE st.magic
    <3>1. Choose(Target("fresh", 0, 0), Fresh, "jump", bad)
      BY <1>2, <2>2 DEF MenuFresh
    <3> QED BY <1>0, <2>1, <2>2, <3>1, RegisterChoose
  <2>3. CASE ~st.magic
    BY <1>2, <2>3 DEF MenuFresh, disk
  <2> QED BY <2>2, <2>3
<1>3. CASE \E rank \in 1 .. 3 : MenuSnapshot(rank, bad)
  <2>1. PICK rank \in 1 .. 3 : MenuSnapshot(rank, bad)
    BY <1>3
  <2> DEFINE s == st.list[rank]
             g == Target("snapshot", s.slot, s.seq)
             ask == [Fresh EXCEPT !.how = "snapshot", !.id = s.id]
  <2>2. rank <= Len(st.list) /\ Choose(g, ask, "restore", bad)
    BY <2>1 DEF MenuSnapshot
  <2>3. st.list \in Seq(Snaps(saves)) /\ saves \in 0 .. MaxSnapshots /\ MaxSnapshots \in Nat
    BY BootDiskAssumption DEF BootInv, BootTypes, Lists
  <2>4. st.list # <<>> /\ s \in Snaps(saves)
    BY <2>2, <2>3
  <2>5. s.slot \in 0 .. 63 /\ s.seq \in 1 .. saves
    BY <2>4 DEF Snaps
  <2>6. s.seq \in 1 .. MaxSnapshots
    BY <2>3, <2>5
  <2>7. g \in TargetsPossible
    BY <2>5, <2>6 DEF TargetsPossible
  <2> HIDE DEF g, ask
  <2> QED BY <1>0, <2>2, <2>4, <2>7, RegisterChoose
<1> QED BY <1>1, <1>2, <1>3

\* The end of a restore unpins the target or leaves the table alone
LEMMA RegisterRestoreEnd ==
  ASSUME BootInv, NEW bad \in SUBSET Copies, NEW bad2 \in SUBSET Copies, RestoreEnd(bad, bad2)
  PROVE  Register!SetTarget \/ (lba' = lba /\ report' = report)
<1>1. BootTypes /\ CardOK /\ lba["A"] # None
  BY DEF BootInv, FlowOK, OnTheWay, RestoreEnd
<1>2. \/ lba' = lba /\ report' = report
      \/ \E o \in boot_admin_update_target(Recent, bad2) :
           lba' = o.lba /\ report' = (IF o.rc = "ok" THEN "ok" ELSE "err")
  BY DEF RestoreEnd
<1>3. Recent \in TargetsPossible
  BY DEF TargetsPossible
<1> QED BY <1>1, <1>2, <1>3, RegisterTarget

\* Every step is one of the register, or leaves it alone
LEMMA RegisterStep ==
  BootInv /\ [Next]_vars
    => [Register!Next]_<<Says(lba["B"]), {Says(lba["A"])} \ {Says(lba["B"])}, report>>
<1> SUFFICES ASSUME BootInv, [Next]_vars
             PROVE  Register!Next \/ (lba' = lba /\ report' = report)
  BY RegisterIdle
<1>1. ASSUME NEW ready \in BOOLEAN, NEW bad \in SUBSET Copies, NEW yes \in BOOLEAN,
             \/ boot_main(ready, bad, yes) \/ Restore(ready, bad, yes)
             \/ rewind_resume_entry(yes, ready, bad)
      PROVE  Register!Format \/ (lba' = lba /\ report' = report)
  <2>1. CASE boot_main(ready, bad, yes)
    BY <2>1 DEF boot_main, disk
  <2>2. CASE Restore(ready, bad, yes)
    BY <2>2 DEF Restore, disk, history
  <2>3. CASE rewind_resume_entry(yes, ready, bad)
    BY <2>3, RegisterStart DEF rewind_resume_entry
  <2> QED BY <1>1, <2>1, <2>2, <2>3
<1>2. ASSUME NEW ready \in BOOLEAN, NEW bad \in SUBSET Copies,
             Refresh(ready, bad) \/ main_cold_boot(ready, bad)
      PROVE  Register!Format \/ (lba' = lba /\ report' = report)
  <2>1. CASE Refresh(ready, bad)
    BY <2>1 DEF Refresh, disk, history
  <2>2. CASE main_cold_boot(ready, bad)
    BY <2>2, RegisterStart DEF main_cold_boot
  <2> QED BY <1>2, <2>1, <2>2
<1>3. ASSUME NEW bad \in SUBSET Copies,
             MenuRecent(bad) \/ MenuFresh(bad) \/ \E rank \in 1 .. 3 : MenuSnapshot(rank, bad)
      PROVE  Register!SetTarget \/ (lba' = lba /\ report' = report)
  BY <1>3, RegisterMenu
<1>4. ASSUME MenuSetup \/ EnterShell \/ Reset \/ PowerCut \/ (UNCHANGED vars)
             \/ (\E n \in ckpt_sectors : ShellFormat(n)) \/ (\E v \in Intervals : ShellBoot(v))
             \/ (\E i \in 0 .. 1 : SaveCheckpoint(i))
      PROVE  lba' = lba /\ report' = report
  <2>1. CASE MenuSetup \/ EnterShell \/ Reset \/ PowerCut \/ UNCHANGED vars
    BY <2>1 DEF MenuSetup, EnterShell, Reset, PowerCut, vars, disk, history
  <2>2. CASE \E n \in ckpt_sectors : ShellFormat(n)
    BY <2>2 DEF ShellFormat, history
  <2>3. CASE \E v \in Intervals : ShellBoot(v)
    BY <2>3 DEF ShellBoot, disk
  <2>4. CASE \E i \in 0 .. 1 : SaveCheckpoint(i)
    BY <2>4 DEF SaveCheckpoint, history
  <2> QED BY <1>4, <2>1, <2>2, <2>3, <2>4
<1> QED BY <1>1, <1>2, <1>3, <1>4, RegisterRestoreEnd, RegisterSetup, RegisterSave DEF Next, Register!Next

\* The two copies of the table implement one register
THEOREM OneRegister == Spec => RegisterSpec
<1>1. Init => Register!Init
  <2> SUFFICES ASSUME Init PROVE Register!Init
    OBVIOUS
  <2>1. lba["A"] = None /\ lba["B"] = None /\ report = "ok"
    BY DEF Init, Copies
  <2>2. Says(None) = Unformatted
    BY DEF Says, rwos_disk_parse
  <2> QED BY <2>1, <2>2 DEF Register!Init
<1> QED BY <1>1, RegisterStep, BootInvariant, PTL DEF Spec, RegisterSpec, Register!Spec
=============================================================================
