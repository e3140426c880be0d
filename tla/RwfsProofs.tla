----------------------------- MODULE RwfsProofs -----------------------------
(***************************************************************************)
(* Proofs about Rwfs, for every set of names and contents and every        *)
(* geometry of the region: whatever sector read or write fails and         *)
(* wherever power is lost, records stay inside the data area and no read   *)
(* returns a wrong content; without failed reads the data area is          *)
(* append-only, and outside the gap between index and superblock a save    *)
(* is atomic.                                                              *)
(***************************************************************************)
EXTENDS Rwfs, FiniteSetTheorems, WellFoundedInduction, TLAPS

-----------------------------------------------------------------------------
(* The inductive invariants *)

EntryType == [state : {"free", "live"}, name : Names \cup {NoName}, data_lba : Nat,
              data_len : Nat, generation : Nat, content_crc : Payloads \cup {<< >>},
              record_blocks : Nat]

CallType == [op : {"none", "mount", "save"}, name : Names \cup {NoName},
             val : Payloads \cup {<< >>}]

\* The types that TypeOK leaves out
Typed == /\ index \in [Indexed -> EntryType] /\ entries \in [Entries -> EntryType]
         /\ data = [b \in Area |-> data[b]]
         /\ call \in CallType
         /\ saved \in [Names -> Payloads \cup {Absent}]
         /\ pending \in [Names -> SUBSET Payloads]
         /\ gap \in BOOLEAN

Writing == {"hdr", "payload", "tail", "index"}   \* the record and its entry
Closing == {"super_a", "super_b"}                \* the superblocks

\* The arguments of the running call, and where its loops are
Running == /\ call.op = "save" => call.name \in Names /\ call.val \in Payloads
           /\ pc \in Writing \cup Closing => call.op = "save"
           /\ pc \in Writing => Fits(call.val)
           /\ pc = "fmt_index" => k < IndexBlocks
           /\ pc = "payload" => k < Len(call.val)
           /\ pc \notin {"fmt_index", "payload"} => k = 0

Live(e) == e.state = "live"

\* A format empties the index from its first sector on
Emptied == /\ pc = "fmt_index" => \A i \in Indexed :
                                    i \div EntriesPerBlock < k => ~Live(index[i])
           /\ pc \in {"fmt_a", "fmt_b"} => \A i \in Indexed : ~Live(index[i])

\* After a mount, what is in RAM is what is on the card
Mounted == /\ \A i \in Entries \ Indexed : ~Live(entries[i])
           /\ pc \in Writing \cup {"mounted"} =>
                \A i \in Indexed : (Live(entries[i]) \/ Live(index[i]))
                                     => entries[i] = index[i]

\* The entry that a save uses is the one of the file, or the file has none
Chosen == /\ pc \in Writing =>
               \/ Live(entries[entry_idx]) /\ entries[entry_idx].name = call.name
               \/ ~Live(entries[entry_idx]) /\ Named(call.name, entries) = {}
          /\ pc \in Closing =>
               /\ entry_idx \in Indexed /\ Live(index[entry_idx])
               /\ index[entry_idx].name = call.name
               /\ index[entry_idx].content_crc = call.val

\* Superblock A is the first that a format writes, and a save finds it written
Ours == /\ superB.ours => superA.ours
        /\ pc \in Writing \cup Closing \cup {"mounted"} => superA.ours /\ sup.ours
        /\ pc = "fmt_b" => superA.ours

\* In a region that is formatted for the disk table, there is one entry per file,
\* with a content that a read of the file may return
OnePerFile == superA.ours =>
                \A i, j \in Indexed : Live(index[i]) /\ Live(index[j])
                                         /\ index[i].name = index[j].name => i = j

Newest == superA.ours =>
          \A i \in Indexed : Live(index[i]) =>
            /\ index[i].name \in Names
            /\ index[i].data_len = Len(index[i].content_crc)
            /\ index[i].record_blocks = RecordBlocks(index[i].content_crc)
            /\ \/ index[i].content_crc \in
                    {saved[index[i].name]} \cup pending[index[i].name]
               \/ pc \in Closing /\ i = entry_idx

IInv == /\ TypeOK /\ Typed /\ Running
        /\ Emptied /\ Mounted /\ Chosen /\ Ours /\ OnePerFile /\ Newest

\* Either no format of the region has ended, or superblock A is the current one: B
\* is its copy or older, and the running call works on A.
Unused  == ~superB.ours /\ (superA.ours => superA = Formatted)
Current == superA.ours /\ superB.generation <= superA.generation

Mirrors ==
  /\ superB.ours => superB = superA \/ superB.generation < superA.generation
  /\ ~superB.ours => superB.next_data_lba = 0
  /\ Current \/ Unused
  /\ pc \in {"fmt_index", "fmt_a"} => Unused
  /\ pc = "fmt_b" => superA = Formatted /\ ~superB.ours
  /\ pc \in Writing \cup Closing \cup {"mounted"} => Current
  /\ pc \in Writing \cup {"mounted"} => sup = superA
  /\ pc = "super_a" => /\ sup.generation = superA.generation + 1
                       /\ sup.next_data_lba = superA.next_data_lba
                                                + RecordBlocks(call.val)
  /\ pc = "super_b" => sup = superA

\* The sectors of the record that the running save has written
HdrWritten == data[sup.next_data_lba] = Hdr(call.name, new_gen, call.val)
PayloadWritten(len) ==
  \A j \in 1 .. len : data[sup.next_data_lba + j] = Raw(call.val[j])
TailWritten == data[sup.next_data_lba + Len(call.val) + 1]
                 = DataTail(call.name, new_gen, call.val)

\* In a formatted region every entry refers to an intact record below next_data_lba
\* (the superblock may be one write behind the entry of the running save), and no
\* file that was saved is missing.
Located(i) ==
  IF pc = "super_a" /\ i = entry_idx
    THEN /\ index[i].data_lba = superA.next_data_lba
         /\ index[i].data_lba + index[i].record_blocks = sup.next_data_lba
    ELSE index[i].data_lba + index[i].record_blocks <= superA.next_data_lba

Filed ==
  /\ ~superB.ours => \A n \in Names : saved[n] = Absent
  /\ \A n \in Names : saved[n] # Absent =>
       \E i \in Indexed : Live(index[i]) /\ index[i].name = n
  /\ superA.ours =>
       \A i \in Indexed : Live(index[i]) => RecordIntact(index[i]) /\ Located(i)

Appended ==
  /\ pc \in {"payload", "tail", "index"} => HdrWritten
  /\ pc = "payload" => PayloadWritten(k)
  /\ pc \in {"tail", "index"} => PayloadWritten(Len(call.val))
  /\ pc = "index" => TailWritten

\* A failed read may make a mount miss the newer superblock, and a save that ends
\* in the gap leaves an entry ahead of the superblocks
Mirrored == rfaults = 0 => Mirrors
Stored   == rfaults = 0 /\ ~gap => Filed /\ Appended

-----------------------------------------------------------------------------
(* The operators *)

\* Every nonempty set of numbers below a bound has a least element
LEMMA LeastElement ==
  ASSUME NEW n \in Nat, NEW T \in SUBSET (0 .. n), T # {}
  PROVE  \E i \in T : \A j \in T : i <= j
<1> DEFINE Upto(i) == {j \in T : j <= i}
<1> DEFINE F == {Upto(i) : i \in T}
<1>1. IsFiniteSet(T)
  <2>1. IsFiniteSet(0 .. n) BY FS_Interval
  <2> QED BY <2>1, FS_Subset
<1>2. IsWellFoundedOn(StrictSubsetOrdering(T), FiniteSubsetsOf(T))
  BY FS_StrictSubsetOrderingWellFounded
<1>3. F \subseteq FiniteSubsetsOf(T)
  <2> SUFFICES ASSUME NEW i \in T PROVE Upto(i) \in FiniteSubsetsOf(T)
    OBVIOUS
  <2> QED BY <1>1, FS_Subset DEF FiniteSubsetsOf
<1>4. F # {}
  OBVIOUS
<1> HIDE DEF F
<1>5. PICK x \in F : \A y \in F : ~ (<<y, x>> \in StrictSubsetOrdering(T))
  BY <1>2, <1>3, <1>4, WFMin
<1>6. PICK i \in T : x = Upto(i)
  BY DEF F
<1>7. ASSUME NEW j \in T, ~(i <= j) PROVE FALSE
  <2>1. Upto(j) \in F
    BY DEF F
  <2>2. <<Upto(j), Upto(i)>> \in StrictSubsetOrdering(T)
    <3>1. Upto(j) \subseteq Upto(i)
      <4> SUFFICES ASSUME NEW m \in T, m <= j PROVE m <= i
        OBVIOUS
      <4>1. m \in Nat /\ i \in Nat /\ j \in Nat
        OBVIOUS
      <4> QED BY <1>7, <4>1
    <3>2. i \in Upto(i) /\ i \notin Upto(j)
      BY <1>7
    <3>3. Upto(j) # Upto(i)
      BY <3>2
    <3> HIDE DEF Upto
    <3>4. Upto(j) \in SUBSET T /\ Upto(i) \in SUBSET T
      BY DEF Upto
    <3> QED BY <3>1, <3>3, <3>4 DEF StrictSubsetOrdering
  <2> QED BY <1>5, <1>6, <2>1, <2>2
<1> QED BY <1>7

\* rwfs_find_entry and rwfs_find_free_entry return a matching entry
LEMMA FirstOfIn ==
  ASSUME NEW S \in SUBSET Entries, S # {}
  PROVE  FirstOf(S) \in S
<1>1. EntryCount \in Nat
  BY RwfsAssumption
<1>2. PICK e \in S : e \in Entries
  OBVIOUS
<1>3. EntryCount - 1 \in Nat
  BY <1>1, <1>2 DEF Entries
<1>4. \E i \in S : \A j \in S : i <= j
  BY <1>3, LeastElement DEF Entries
<1> QED BY <1>4 DEF FirstOf

\* The geometry of the index: at least one entry, each in one of its sectors
LEMMA Geometry ==
  /\ 0 \in Entries /\ Indexed \subseteq Entries /\ Entries \subseteq Nat
  /\ \A i \in Indexed : i \div EntriesPerBlock \in Nat
                          /\ i \div EntriesPerBlock < IndexBlocks
<1> DEFINE e == EntriesPerBlock
           b == IndexBlocks
<1>1. e \in Nat /\ e > 0 /\ b \in Nat /\ b > 0 /\ EntryCount \in Nat /\ EntryCount >= e * b
  BY RwfsAssumption
<1> HIDE DEF e, b
<1>2. e * b \in Nat /\ e * b > 0
  BY <1>1
<1>3. ASSUME NEW i \in Nat, i < e * b PROVE i \div e \in Nat /\ i \div e < b
  <2>1. PICK d \in Nat : d = i \div e
    BY <1>1
  <2>2. d * e <= i
    BY <1>1, <2>1
  <2>3. ASSUME d >= b PROVE FALSE
    <3>1. d * e >= b * e
      BY <1>1, <2>3
    <3> QED BY <1>1, <2>2, <3>1, <1>3
  <2> QED BY <1>1, <2>1, <2>3
<1>4. 0 \in Entries /\ Indexed \subseteq Entries /\ Entries \subseteq Nat
  BY <1>1, <1>2 DEF Entries, Indexed, e, b
<1>5. ASSUME NEW i \in Indexed PROVE i \in Nat /\ i < e * b
  BY <1>2 DEF Indexed, e, b
<1> QED BY <1>3, <1>4, <1>5 DEF e, b

\* Mounting takes one of the two superblocks
LEMMA BestIsOne == \A a, b : Best(a, b) \in {a, b}
BY DEF Best

\* The types of what a save writes
LEMMA SaveTypes ==
  /\ NoCall \in CallType /\ FreeEntry \in EntryType
  /\ NoSuper \in Supers /\ Formatted \in Supers
  /\ ~NoSuper.ours /\ Formatted.ours
  /\ \A v \in Payloads : Len(v) \in Nat /\ RecordBlocks(v) \in Nat /\ v \in Seq(STRING)
  /\ Len(<< >>) = 0
BY RwfsAssumption DEF NoCall, CallType, FreeEntry, EntryType, NoSuper, Formatted, Supers,
     RecordBlocks

-----------------------------------------------------------------------------
(* The steps that end a call *)

\* What a write may leave on the card
CardOK == /\ superA \in Supers /\ superB \in Supers
          /\ superB.ours => superA.ours
          /\ index \in [Indexed -> EntryType]
          /\ \A i \in Indexed : index[i].data_lba + index[i].record_blocks <= DataBlocks
          /\ data = [b \in Area |-> data[b]]
          /\ OnePerFile

\* No entry is changed but for the one of the save that is running, and there is
\* none when superblock A is formatted
Kept == /\ \A i \in Indexed : Live(index'[i]) =>
             index'[i] = index[i] \/ (call.op = "save" /\ index'[i] = LiveEntry)
        /\ superA'.ours => superA.ours \/ \A i \in Indexed : ~Live(index'[i])

\* IInv makes every part of the card what a write may leave
LEMMA CardFromIInv == IInv => CardOK
BY DEF IInv, TypeOK, Typed, Ours, CardOK

\* A call that ends, with an error or after a failed write, keeps the invariant
LEMMA EndKeepsIInv ==
  ASSUME IInv, Return, CardOK',
         \/ SaveFailed /\ Kept
         \/ pc \notin Closing /\ pending' = pending /\ index' = index
              /\ superA' = superA,
         sup' \in Supers, entries' = entries, saved' = saved,
         wfaults' \in 0 .. MaxWriteFaults, rfaults' \in 0 .. MaxReadFaults,
         gap' \in BOOLEAN
  PROVE  IInv'
<1> USE DEF Return
<1>1. TypeOK'
  <2>1. 0 \in Entries
    BY Geometry
  <2>2. /\ superA' \in Supers /\ superB' \in Supers /\ sup' \in Supers
        /\ DOMAIN index' = Indexed /\ DOMAIN entries' = Entries /\ DOMAIN data' = Area
    BY DEF CardOK, IInv, TypeOK
  <2> QED BY <2>1, <2>2 DEF CardOK, IInv, TypeOK
<1>2. pending' \in [Names -> SUBSET Payloads]
  BY DEF SaveFailed, IInv, Typed, Running
<1>3. Typed'
  BY <1>2, SaveTypes DEF CardOK, IInv, Typed
<1>4. Running' /\ Emptied' /\ Mounted' /\ Chosen' /\ Ours'
  BY DEF CardOK, Running, Emptied, Mounted, Chosen, Ours, Writing, Closing, NoCall, IInv
<1>5. Newest'
  <2> SUFFICES ASSUME superA'.ours, NEW i \in Indexed, Live(index'[i])
               PROVE  /\ index'[i].name \in Names
                      /\ index'[i].data_len = Len(index'[i].content_crc)
                      /\ index'[i].record_blocks = RecordBlocks(index'[i].content_crc)
                      /\ index'[i].content_crc \in
                            {saved'[index'[i].name]} \cup pending'[index'[i].name]
    BY DEF Newest, RecordBlocks, Live
  <2>0. superA.ours
    BY DEF Kept
  <2>1. CASE index'[i] = index[i] /\ ~(pc \in Closing /\ i = entry_idx)
    <3>1. pending[index[i].name] \subseteq pending'[index[i].name]
      BY <2>0, <2>1 DEF SaveFailed, IInv, Newest, Live, Typed
    <3> QED BY <2>0, <2>1, <3>1 DEF IInv, Newest, Live
  <2>2. CASE index'[i] = index[i] /\ pc \in Closing /\ i = entry_idx
    <3>1. call.op = "save" /\ call.name \in Names
      BY <2>2 DEF IInv, Running
    <3>2. index[i].name = call.name /\ index[i].content_crc = call.val
      BY <2>2 DEF IInv, Chosen
    <3>3. call.val \in pending'[call.name]
      BY <2>2, <3>1 DEF SaveFailed, IInv, Typed
    <3> QED BY <2>0, <2>2, <3>1, <3>2, <3>3 DEF IInv, Newest, Live
  <2>3. CASE call.op = "save" /\ index'[i] = LiveEntry /\ SaveFailed
    <3>1. call.name \in Names
      BY <2>3 DEF IInv, Running
    <3>2. call.val \in pending'[call.name]
      BY <2>3, <3>1 DEF SaveFailed, IInv, Typed
    <3> QED BY <2>3, <3>1, <3>2 DEF LiveEntry
  <2> QED BY <2>1, <2>2, <2>3 DEF Kept
<1> QED BY <1>1, <1>3, <1>4, <1>5 DEF IInv, CardOK

\* A write that fails, or that is the last before a power loss
Faulted == /\ wfaults < MaxWriteFaults /\ wfaults' = wfaults + 1
           /\ Return /\ SaveFailed
           /\ gap' = (gap \/ IndexAhead')
           /\ UNCHANGED <<ram, rfaults, saved>>

\* ... keeps the invariant, whatever it left on the card
LEMMA FaultKeepsIInv ==
  ASSUME IInv, Faulted, CardOK', Kept
  PROVE  IInv'
<1>1. sup' \in Supers /\ entries' = entries /\ saved' = saved
  BY DEF Faulted, ram, IInv, TypeOK
<1>2. wfaults' \in 0 .. MaxWriteFaults /\ rfaults' \in 0 .. MaxReadFaults
  BY RwfsAssumption DEF Faulted, IInv, TypeOK
<1>3. gap' \in BOOLEAN
  BY DEF Faulted
<1> QED BY <1>1, <1>2, <1>3, EndKeepsIInv DEF Faulted

\* A write of a superblock or of a data sector
LEMMA OtherWrites ==
  ASSUME IInv, superA' \in Supers, superB' \in Supers, index' = index,
         superB'.ours => superA'.ours,
         superA'.ours => superA.ours \/ \A i \in Indexed : ~Live(index[i]),
         data' = data \/ \E x, y : data' = [data EXCEPT ![x] = y]
  PROVE  CardOK' /\ Kept
<1>1. data' = [b \in Area |-> data'[b]]
  BY DEF IInv, Typed
<1>2. OnePerFile'
  BY DEF IInv, OnePerFile, Live
<1> QED BY <1>1, <1>2 DEF IInv, TypeOK, Typed, CardOK, Kept

\* A write of an index sector by rwfs_format_region
LEMMA FreeWrites ==
  ASSUME IInv, superA' = superA, superB' = superB, data' = data,
         index' = [i \in Indexed |-> IF i \div EntriesPerBlock = k
                                       THEN FreeEntry ELSE index[i]]
  PROVE  CardOK' /\ Kept
<1>1. index' \in [Indexed -> EntryType]
  BY SaveTypes DEF IInv, Typed
<1>2. \A i \in Indexed : index'[i] = FreeEntry \/ index'[i] = index[i]
  OBVIOUS
<1>3. ~Live(FreeEntry) /\ FreeEntry.data_lba + FreeEntry.record_blocks = 0
  BY DEF Live, FreeEntry
<1>4. \A i \in Indexed : index'[i].data_lba + index'[i].record_blocks <= DataBlocks
  BY <1>2, <1>3, RwfsAssumption DEF IInv, TypeOK
<1>5. OnePerFile'
  BY <1>2, <1>3 DEF IInv, OnePerFile
<1>6. Kept
  BY <1>2, <1>3 DEF Kept
<1> QED BY <1>1, <1>4, <1>5, <1>6 DEF IInv, TypeOK, Typed, Ours, CardOK

\* The entry that a save writes has the type of an entry
LEMMA LiveEntryType ==
  ASSUME IInv, pc \in Writing
  PROVE  /\ LiveEntry \in EntryType /\ Live(LiveEntry)
         /\ LiveEntry.data_lba + LiveEntry.record_blocks <= DataBlocks
<1>1. call.name \in Names /\ call.val \in Payloads /\ Fits(call.val)
  BY DEF IInv, Running
<1>2. sup.next_data_lba \in Nat /\ new_gen \in Nat
  BY DEF IInv, TypeOK, Supers
<1>3. Len(call.val) \in Nat /\ RecordBlocks(call.val) \in Nat
  BY <1>1, SaveTypes
<1> QED BY <1>1, <1>2, <1>3 DEF LiveEntry, EntryType, Live, Fits

\* The entry that a save is about to write is the only one of its file
LEMMA ChosenIsOnly ==
  ASSUME IInv, pc \in Writing, NEW i \in Indexed, Live(index[i]),
         index[i].name = call.name
  PROVE  i = entry_idx
<1>1. entries[i] = index[i] /\ i \in Entries
  BY Geometry DEF IInv, Mounted
<1>2. i \in Named(call.name, entries)
  BY <1>1 DEF Named, Live
<1>3. Live(entries[entry_idx]) /\ entries[entry_idx].name = call.name
  BY <1>2 DEF IInv, Chosen
<1>4. entry_idx \in Indexed /\ entries[entry_idx] = index[entry_idx]
  BY <1>3 DEF IInv, Mounted, TypeOK
<1> QED BY <1>3, <1>4 DEF IInv, Ours, OnePerFile

\* A write of the index sector by rwfs_write_index_entry
LEMMA IndexWrites ==
  ASSUME IInv, pc = "index", entry_idx \in Indexed,
         superA' = superA, superB' = superB, data' = data,
         index' = [index EXCEPT ![entry_idx] = LiveEntry]
  PROVE  CardOK' /\ Kept
<1>1. pc \in Writing /\ call.op = "save"
  BY DEF Writing, IInv, Running
<1>2. LiveEntry \in EntryType
      /\ LiveEntry.data_lba + LiveEntry.record_blocks <= DataBlocks
  BY <1>1, LiveEntryType
<1>3. index' \in [Indexed -> EntryType]
  BY <1>2 DEF IInv, Typed
<1>4. \A i \in Indexed : index'[i] = IF i = entry_idx THEN LiveEntry ELSE index[i]
  BY DEF IInv, Typed
<1>5. \A i \in Indexed : index'[i].data_lba + index'[i].record_blocks <= DataBlocks
  BY <1>2, <1>4 DEF IInv, TypeOK
<1>6. OnePerFile'
  <2> SUFFICES ASSUME NEW i \in Indexed, NEW j \in Indexed,
                      Live(index'[i]), Live(index'[j]), index'[i].name = index'[j].name
               PROVE  i = j
    BY DEF OnePerFile, Live
  <2>1. LiveEntry.name = call.name
    BY DEF LiveEntry
  <2> QED BY <1>1, <1>4, <2>1, ChosenIsOnly DEF IInv, Ours, OnePerFile
<1>7. Kept
  BY <1>1, <1>4 DEF Kept, IInv, Ours
<1> QED BY <1>3, <1>5, <1>6, <1>7 DEF IInv, TypeOK, Typed, Ours, CardOK

-----------------------------------------------------------------------------
(* IInv is inductive *)

\* Nothing in RAM, and on the card nothing or the store of another layout
LEMMA InitIInv == Init => IInv
<1> SUFFICES ASSUME Init PROVE IInv
  OBVIOUS
<1>1. FreeEntry \in EntryType /\ FreeEntry.data_lba + FreeEntry.record_blocks = 0
      /\ ~Live(FreeEntry)
  BY SaveTypes DEF FreeEntry, Live
<1>2. ASSUME NEW n \in Names
      PROVE  /\ OldEntry(n) \in EntryType
             /\ OldEntry(n).data_lba + OldEntry(n).record_blocks = 0
  <2>1. /\ OldEntry(n) = [FreeEntry EXCEPT !.state = "live", !.name = n]
        /\ FreeEntry \in EntryType
    BY <1>1 DEF OldEntry
  <2>2. OldEntry(n) \in EntryType /\ OldEntry(n).data_lba = FreeEntry.data_lba
        /\ OldEntry(n).record_blocks = FreeEntry.record_blocks
    BY <2>1 DEF EntryType
  <2> QED BY <1>1, <2>2
<1>3. \A g \in OldGenerations : OldSuper(g) \in Supers /\ ~OldSuper(g).ours
  BY RwfsAssumption DEF OldSuper, Supers
<1>4. /\ superA \in Supers /\ superB \in Supers /\ sup \in Supers
      /\ ~superA.ours /\ ~superB.ours
  BY <1>3, SaveTypes DEF Init
<1>5. index \in [Indexed -> EntryType]
      /\ \A i \in Indexed : index[i].data_lba + index[i].record_blocks = 0
  <2>1. \A e \in {FreeEntry} \cup {OldEntry(n) : n \in Names} :
          e \in EntryType /\ e.data_lba + e.record_blocks = 0
    BY <1>1, <1>2
  <2> QED BY <2>1 DEF Init
<1>6. TypeOK
  <2>1. DOMAIN index = Indexed /\ DOMAIN entries = Entries /\ DOMAIN data = Area
    BY <1>5 DEF Init
  <2>2. /\ \A i \in Entries : entries[i].data_lba + entries[i].record_blocks <= DataBlocks
        /\ \A i \in Indexed : index[i].data_lba + index[i].record_blocks <= DataBlocks
    BY <1>1, <1>5, RwfsAssumption DEF Init
  <2> QED BY <1>4, <2>1, <2>2, Geometry, RwfsAssumption DEF Init, TypeOK
<1>7. Typed
  BY <1>1, <1>5, SaveTypes DEF Init, Typed
<1>8. \A i \in Entries : ~Live(entries[i])
  BY <1>1 DEF Init
<1>9. pc = "idle" /\ k = 0 /\ call.op = "none"
  BY DEF Init, NoCall
<1>10. Running /\ Emptied /\ Mounted /\ Chosen
  BY <1>8, <1>9 DEF Running, Emptied, Mounted, Chosen, Writing, Closing
<1>11. Ours /\ OnePerFile /\ Newest
  BY <1>4, <1>9 DEF Ours, OnePerFile, Newest, Writing, Closing
<1> QED BY <1>6, <1>7, <1>10, <1>11 DEF IInv

\* Steps that write no index entry and do not end a save keep the entries as good
\* as they were
LEMMA SameEntries ==
  ASSUME IInv, index' = index, saved' = saved, pending' = pending,
         superA'.ours => superA.ours,
         entry_idx' = entry_idx \/ pc \notin Closing,
         pc \in Closing => pc' \in Closing
  PROVE  OnePerFile' /\ Newest'
<1>1. OnePerFile'
  BY DEF IInv, OnePerFile, Live
<1>2. Newest'
  BY DEF IInv, Newest, Live, RecordBlocks
<1> QED BY <1>1, <1>2

\* A call begins
LEMMA BeginIInv ==
  ASSUME IInv, Begins
  PROVE  IInv'
<1>1. PICK c \in CallType : /\ Begin(c)
                            /\ c.op = "save" => c.name \in Names /\ c.val \in Payloads
  <2>1. CASE Begin([op |-> "mount", name |-> NoName, val |-> << >>])
    <3> DEFINE c == [op |-> "mount", name |-> NoName, val |-> << >>]
    <3>1. c \in CallType /\ c.op # "save"
      BY DEF CallType
    <3> QED BY <2>1, <3>1
  <2>2. CASE \E n \in Names, v \in Payloads : Begin([op |-> "save", name |-> n, val |-> v])
    <3>1. PICK n \in Names, v \in Payloads : Begin([op |-> "save", name |-> n, val |-> v])
      BY <2>2
    <3> DEFINE c == [op |-> "save", name |-> n, val |-> v]
    <3>2. c \in CallType /\ c.name \in Names /\ c.val \in Payloads
      BY DEF CallType
    <3> QED BY <3>1, <3>2
  <2> QED BY <2>1, <2>2 DEF Begins
<1>2. /\ pc = "idle" /\ pc' = "mount" /\ call' = c
      /\ superA' = superA /\ superB' = superB /\ index' = index /\ data' = data
      /\ sup' = sup /\ entries' = entries /\ entry_idx' = entry_idx
      /\ new_gen' = new_gen /\ k' = k /\ wfaults' = wfaults /\ rfaults' = rfaults
      /\ saved' = saved /\ pending' = pending /\ gap' = gap
  BY <1>1 DEF Begin, disk, ram, history
<1>3. TypeOK'
  BY <1>2 DEF IInv, TypeOK
<1>4. Typed'
  BY <1>1, <1>2 DEF IInv, Typed
<1>5. Running' /\ Emptied' /\ Mounted' /\ Chosen' /\ Ours'
  BY <1>1, <1>2 DEF IInv, Running, Emptied, Mounted, Chosen, Ours, Writing, Closing
<1>6. OnePerFile' /\ Newest'
  BY <1>2, SameEntries DEF Closing
<1> QED BY <1>3, <1>4, <1>5, <1>6 DEF IInv

\* rwfs_init_or_mount reads the superblocks and the index
LEMMA MountIInv ==
  ASSUME IInv, NEW bad \in SUBSET {"A", "B", "I"}, Mount(bad)
  PROVE  IInv'
<1> DEFINE a == IF "A" \in bad THEN NoSuper ELSE superA
           b == IF "B" \in bad THEN NoSuper ELSE superB
           none == ~rwfs_super_valid(a) /\ ~rwfs_super_valid(b)
<1>1. /\ pc = "mount" /\ wfaults' = wfaults
      /\ superA' = superA /\ superB' = superB /\ index' = index /\ data' = data
  BY DEF Mount, disk
<1>2. rfaults' \in 0 .. MaxReadFaults
  BY RwfsAssumption DEF Mount, IInv, TypeOK
<1>3. Best(a, b) \in Supers
  BY BestIsOne, SaveTypes DEF IInv, TypeOK
<1>4. CASE /\ pc' = "fmt_index"
           /\ \/ none /\ UNCHANGED <<ram, locals, saved, pending, gap>>
              \/ /\ sup' = Best(a, b)
                 /\ UNCHANGED <<entries, locals, pending>> /\ UNCHANGED <<saved, gap>>
  <2>1. /\ sup' \in Supers /\ entries' = entries /\ call' = call /\ entry_idx' = entry_idx
        /\ new_gen' = new_gen /\ k' = k /\ saved' = saved /\ pending' = pending
        /\ gap' = gap
    BY <1>3, <1>4 DEF ram, locals, IInv, TypeOK
  <2>2. TypeOK' /\ Typed'
    BY <1>1, <1>2, <1>4, <2>1 DEF IInv, TypeOK, Typed
  <2>3. k = 0 /\ IndexBlocks > 0
    BY <1>1, RwfsAssumption DEF IInv, Running
  <2>4. Running' /\ Emptied' /\ Mounted' /\ Chosen' /\ Ours'
    BY <1>1, <1>4, <2>1, <2>3, Geometry
       DEF IInv, Running, Emptied, Mounted, Chosen, Ours, Writing, Closing
  <2>5. OnePerFile' /\ Newest'
    BY <1>1, <2>1, SameEntries DEF Closing
  <2> QED BY <2>2, <2>4, <2>5 DEF IInv
<1>5. CASE /\ ~none /\ sup' = Best(a, b) /\ "I" \in bad
           /\ Return /\ SaveFailed /\ UNCHANGED entries /\ UNCHANGED <<saved, gap>>
  <2>1. CardOK' /\ Kept
    BY <1>1, OtherWrites DEF IInv, TypeOK, Ours
  <2>2. sup' \in Supers /\ entries' = entries /\ saved' = saved
        /\ wfaults' \in 0 .. MaxWriteFaults /\ gap' \in BOOLEAN
    BY <1>1, <1>3, <1>5 DEF IInv, TypeOK, Typed
  <2> QED BY <1>2, <1>5, <2>1, <2>2, EndKeepsIInv
<1>6. CASE /\ ~none /\ sup' = Best(a, b) /\ Best(a, b).ours
           /\ entries' = ReadIndex(entries)
           /\ pc' = "mounted" /\ UNCHANGED <<locals, pending>> /\ UNCHANGED <<saved, gap>>
  <2>1. /\ call' = call /\ entry_idx' = entry_idx /\ new_gen' = new_gen /\ k' = k
        /\ saved' = saved /\ pending' = pending /\ gap' = gap /\ sup' \in Supers
    BY <1>3, <1>6 DEF locals
  <2>2. entries' \in [Entries -> EntryType]
    BY <1>6 DEF ReadIndex, IInv, Typed
  <2>3. \A i \in Entries : entries'[i] = IF i \in Indexed THEN index[i] ELSE entries[i]
    BY <1>6 DEF ReadIndex
  <2>4. TypeOK'
    <3>1. \A i \in Entries : entries'[i].data_lba + entries'[i].record_blocks <= DataBlocks
      BY <2>3 DEF IInv, TypeOK
    <3>2. DOMAIN entries' = Entries
      BY <2>2
    <3> QED BY <1>1, <1>2, <1>6, <2>1, <3>1, <3>2 DEF IInv, TypeOK
  <2>5. Typed'
    BY <1>1, <2>1, <2>2 DEF IInv, Typed
  <2>6. Running' /\ Emptied' /\ Chosen' /\ Ours'
    <3>1. superA.ours
      BY <1>6, BestIsOne, SaveTypes DEF IInv, Ours
    <3> QED BY <1>1, <1>6, <2>1, <3>1
            DEF IInv, Running, Emptied, Chosen, Ours, Writing, Closing
  <2>7. Mounted'
    BY <1>1, <2>3, Geometry DEF IInv, Mounted, Live
  <2>8. OnePerFile' /\ Newest'
    BY <1>1, <2>1, SameEntries DEF Closing
  <2> QED BY <2>4, <2>5, <2>6, <2>7, <2>8 DEF IInv
<1> QED BY <1>4, <1>5, <1>6 DEF Mount

\* rwfs_format_region: an index sector
LEMMA FormatIndexIInv ==
  ASSUME IInv, FormatIndex
  PROVE  IInv'
<1> DEFINE W == /\ index' = [i \in Indexed |-> IF i \div EntriesPerBlock = k
                                                 THEN FreeEntry ELSE index[i]]
                /\ UNCHANGED <<superA, superB, data>>
           O == /\ IF k + 1 < IndexBlocks THEN k' = k + 1 /\ pc' = pc
                                          ELSE k' = 0 /\ pc' = "fmt_a"
                /\ UNCHANGED <<ram, call, entry_idx, new_gen, history>>
<1>1. pc = "fmt_index" /\ (\/ W /\ O /\ UNCHANGED <<wfaults, rfaults>>
                           \/ Faulted /\ (W \/ UNCHANGED disk))
  BY DEF FormatIndex, Sector, Faulted
<1>2. W => CardOK' /\ Kept
  BY FreeWrites
<1>3. UNCHANGED disk => CardOK' /\ Kept
  BY OtherWrites DEF disk, IInv, TypeOK, Ours
<1>4. CASE W /\ O /\ UNCHANGED <<wfaults, rfaults>>
  <2>1. /\ superA' = superA /\ superB' = superB /\ data' = data
        /\ sup' = sup /\ entries' = entries /\ call' = call /\ entry_idx' = entry_idx
        /\ new_gen' = new_gen /\ wfaults' = wfaults /\ rfaults' = rfaults
        /\ saved' = saved /\ pending' = pending /\ gap' = gap
    BY <1>4 DEF ram, history
  <2>2. \A i \in Indexed : index'[i] = IF i \div EntriesPerBlock = k
                                         THEN FreeEntry ELSE index[i]
    BY <1>4
  <2>3. CardOK' /\ k \in Nat /\ k < IndexBlocks /\ IndexBlocks \in Nat
    BY <1>1, <1>2, <1>4, RwfsAssumption DEF IInv, TypeOK, Running
  <2>4. \/ k + 1 < IndexBlocks /\ k' = k + 1 /\ pc' = "fmt_index"
        \/ k + 1 = IndexBlocks /\ k' = 0 /\ pc' = "fmt_a"
    BY <1>1, <1>4, <2>3
  <2>5. TypeOK'
    BY <2>1, <2>3, <2>4 DEF IInv, TypeOK, CardOK
  <2>6. Typed'
    BY <2>1, <2>3 DEF IInv, Typed, CardOK
  <2>7. Running' /\ Mounted' /\ Chosen' /\ Ours'
    BY <1>1, <2>1, <2>4 DEF IInv, Running, Mounted, Chosen, Ours, Writing, Closing
  <2>8. Emptied'
    <3>1. ~Live(FreeEntry)
      BY DEF Live, FreeEntry
    <3>2. \A i \in Indexed : i \div EntriesPerBlock \in Nat
                               /\ i \div EntriesPerBlock < IndexBlocks
      BY Geometry
    <3>3. \A i \in Indexed : i \div EntriesPerBlock < k + 1 => ~Live(index'[i])
      BY <1>1, <2>2, <2>3, <3>1, <3>2 DEF IInv, Emptied
    <3> QED BY <2>3, <2>4, <3>2, <3>3 DEF Emptied, Live
  <2>9. OnePerFile' /\ Newest'
    <3>1. \A i \in Indexed : Live(index'[i]) => index'[i] = index[i]
      BY <2>2 DEF Live, FreeEntry
    <3> QED BY <1>1, <2>1, <2>3, <3>1 DEF IInv, CardOK, Newest, Live, RecordBlocks, Closing
  <2> QED BY <2>5, <2>6, <2>7, <2>8, <2>9 DEF IInv
<1> QED BY <1>1, <1>2, <1>3, <1>4, FaultKeepsIInv

\* ... superblock A
LEMMA FormatSuperAIInv ==
  ASSUME IInv, FormatSuperA
  PROVE  IInv'
<1> DEFINE W == superA' = Formatted /\ UNCHANGED <<superB, index, data>>
           O == pc' = "fmt_b" /\ UNCHANGED <<ram, locals, history>>
<1>1. pc = "fmt_a" /\ (\/ W /\ O /\ UNCHANGED <<wfaults, rfaults>>
                       \/ Faulted /\ (W \/ UNCHANGED disk))
  BY DEF FormatSuperA, Sector, Faulted
<1>2. (W \/ UNCHANGED disk) => CardOK' /\ Kept
  BY <1>1, OtherWrites, SaveTypes DEF disk, IInv, TypeOK, Ours, Emptied
<1>3. CASE W /\ O /\ UNCHANGED <<wfaults, rfaults>>
  <2>1. /\ superB' = superB /\ data' = data /\ index' = index
        /\ sup' = sup /\ entries' = entries /\ call' = call /\ entry_idx' = entry_idx
        /\ new_gen' = new_gen /\ k' = k /\ wfaults' = wfaults /\ rfaults' = rfaults
        /\ saved' = saved /\ pending' = pending /\ gap' = gap /\ pc' = "fmt_b"
    BY <1>3 DEF ram, locals, history
  <2>2. CardOK'
    BY <1>2, <1>3
  <2>3. TypeOK'
    BY <2>1, <2>2 DEF IInv, TypeOK, CardOK
  <2>4. Typed'
    BY <2>1 DEF IInv, Typed
  <2>5. Running' /\ Emptied' /\ Mounted' /\ Chosen'
    BY <1>1, <2>1 DEF IInv, Running, Emptied, Mounted, Chosen, Writing, Closing, Live
  <2>6. OnePerFile' /\ Newest' /\ Ours'
    BY <1>1, <1>3, <2>1, SaveTypes DEF IInv, Emptied, OnePerFile, Newest, Ours, Live,
       Writing, Closing
  <2> QED BY <2>3, <2>4, <2>5, <2>6 DEF IInv
<1> QED BY <1>1, <1>2, <1>3, FaultKeepsIInv

\* ... superblock B, and what is in RAM
LEMMA FormatSuperBIInv ==
  ASSUME IInv, FormatSuperB
  PROVE  IInv'
<1> DEFINE W == superB' = Formatted /\ UNCHANGED <<superA, index, data>>
           O == /\ sup' = Formatted
                /\ entries' = [i \in Entries |-> [entries[i] EXCEPT !.state = "free"]]
                /\ pc' = "mounted" /\ UNCHANGED <<locals, history>>
<1>1. pc = "fmt_b" /\ (\/ W /\ O /\ UNCHANGED <<wfaults, rfaults>>
                       \/ Faulted /\ (W \/ UNCHANGED disk))
  BY DEF FormatSuperB, Sector, Faulted
<1>2. (W \/ UNCHANGED disk) => CardOK' /\ Kept
  BY <1>1, OtherWrites, SaveTypes DEF disk, IInv, TypeOK, Ours
<1>3. CASE W /\ O /\ UNCHANGED <<wfaults, rfaults>>
  <2>1. /\ superA' = superA /\ data' = data /\ index' = index
        /\ call' = call /\ entry_idx' = entry_idx
        /\ new_gen' = new_gen /\ k' = k /\ wfaults' = wfaults /\ rfaults' = rfaults
        /\ saved' = saved /\ pending' = pending /\ gap' = gap /\ pc' = "mounted"
        /\ sup' \in Supers /\ sup'.ours /\ superB'.ours
    BY <1>3, SaveTypes DEF locals, history
  <2>2. CardOK'
    BY <1>2, <1>3
  <2>3. entries' \in [Entries -> EntryType]
    <3> SUFFICES ASSUME NEW i \in Entries
                 PROVE  [entries[i] EXCEPT !.state = "free"] \in EntryType
      BY <1>3
    <3>1. entries[i] \in EntryType
      BY DEF IInv, Typed
    <3> QED BY <3>1 DEF EntryType
  <2>4. \A i \in Entries : /\ ~Live(entries'[i])
                           /\ entries'[i].data_lba = entries[i].data_lba
                           /\ entries'[i].record_blocks = entries[i].record_blocks
    <3> SUFFICES ASSUME NEW i \in Entries
                 PROVE  LET e == [entries[i] EXCEPT !.state = "free"]
                        IN  /\ ~Live(e) /\ e.data_lba = entries[i].data_lba
                            /\ e.record_blocks = entries[i].record_blocks
      BY <1>3
    <3>1. entries[i] \in EntryType
      BY DEF IInv, Typed
    <3> QED BY <3>1 DEF EntryType, Live
  <2>5. TypeOK'
    <3>1. DOMAIN entries' = Entries
      BY <2>3
    <3>2. \A i \in Entries : entries'[i].data_lba + entries'[i].record_blocks <= DataBlocks
      BY <2>4 DEF IInv, TypeOK
    <3> QED BY <2>1, <2>2, <3>1, <3>2 DEF IInv, TypeOK, CardOK
  <2>6. Typed'
    BY <2>1, <2>3 DEF IInv, Typed
  <2>7. Running' /\ Emptied' /\ Chosen' /\ Ours'
    BY <1>1, <2>1 DEF IInv, Running, Emptied, Chosen, Ours, Writing, Closing
  <2>8. Mounted'
    BY <1>1, <2>1, <2>4, Geometry DEF IInv, Emptied, Mounted, Live
  <2>9. OnePerFile' /\ Newest'
    BY <1>1, <2>1, SameEntries DEF Closing
  <2> QED BY <2>5, <2>6, <2>7, <2>8, <2>9 DEF IInv
<1> QED BY <1>1, <1>2, <1>3, FaultKeepsIInv

\* A mount that was all, a refused save, and a save whose entry cannot be written
LEMMA RefusedIInv ==
  ASSUME IInv, MountOnly \/ IndexRefused
  PROVE  IInv'
<1>1. /\ pc \notin Closing /\ Return
      /\ superA' = superA /\ superB' = superB /\ index' = index /\ data' = data
      /\ sup' = sup /\ entries' = entries /\ wfaults' = wfaults
      /\ saved' = saved /\ pending' = pending /\ gap' = gap
  BY DEF MountOnly, IndexRefused, disk, ram, history, Closing
<1>2. rfaults' \in 0 .. MaxReadFaults
  BY RwfsAssumption DEF MountOnly, IndexRefused, IInv, TypeOK
<1>3. CardOK'
  BY <1>1, OtherWrites DEF IInv, TypeOK, Ours
<1> QED BY <1>1, <1>2, <1>3, EndKeepsIInv DEF IInv, TypeOK, Typed

\* rwfs_write_all_atomic looks up the entry
LEMMA SaveBeginIInv ==
  ASSUME IInv, SaveBegin
  PROVE  IInv'
<1>1. /\ pc = "mounted" /\ call.op = "save" /\ Fits(call.val) /\ pc' = "hdr"
      /\ superA' = superA /\ superB' = superB /\ index' = index /\ data' = data
      /\ sup' = sup /\ entries' = entries /\ call' = call /\ k' = k
      /\ wfaults' = wfaults /\ rfaults' = rfaults
      /\ saved' = saved /\ pending' = pending /\ gap' = gap
  BY DEF SaveBegin, disk, ram, history
<1>2. entry_idx' \in Entries /\ entry_idx' \in
        (IF Named(call.name, entries) # {} THEN Named(call.name, entries) ELSE Free(entries))
  <2> DEFINE S == IF Named(call.name, entries) # {} THEN Named(call.name, entries)
                                                    ELSE Free(entries)
  <2>1. S \in SUBSET Entries /\ S # {}
    BY DEF SaveBegin, Named, Free
  <2>2. entry_idx' = FirstOf(S)
    BY DEF SaveBegin, SaveEntry
  <2>3. FirstOf(S) \in S
    BY <2>1, FirstOfIn
  <2> QED BY <2>1, <2>2, <2>3
<1>3. new_gen' \in Nat
  <2>1. entries[entry_idx'] \in EntryType
    BY <1>2 DEF IInv, Typed
  <2>2. entries[entry_idx'].generation \in Nat
    BY <2>1 DEF EntryType
  <2> QED BY <2>2 DEF SaveBegin
<1>4. TypeOK' /\ Typed'
  BY <1>1, <1>2, <1>3 DEF IInv, TypeOK, Typed
<1>5. Running'
  BY <1>1 DEF IInv, Running, Writing, Closing, Fits
<1>6. Emptied' /\ Mounted' /\ Ours'
  BY <1>1 DEF IInv, Emptied, Mounted, Ours, Writing, Closing, Live
<1>7. Chosen'
  <2>1. \/ Live(entries[entry_idx']) /\ entries[entry_idx'].name = call.name
        \/ ~Live(entries[entry_idx']) /\ Named(call.name, entries) = {}
    BY <1>2 DEF Named, Free, Live
  <2> QED BY <1>1, <2>1 DEF Chosen, Writing, Closing, Named, Live
<1>8. OnePerFile' /\ Newest'
  BY <1>1, SameEntries DEF Closing
<1> QED BY <1>4, <1>5, <1>6, <1>7, <1>8 DEF IInv

\* The steps of a save that leave everything but one sector, the place in the
\* code and the loop counter alone
LEMMA StepIInv ==
  ASSUME IInv, pc \in Writing \cup Closing, CardOK',
         index' = index, sup' = sup, entries' = entries, call' = call,
         entry_idx' = entry_idx, new_gen' = new_gen, wfaults' = wfaults,
         rfaults' = rfaults, saved' = saved, pending' = pending, gap' = gap,
         \/ pc \in Writing /\ pc' \in Writing
         \/ pc \in Closing /\ pc' \in Closing,
         superA'.ours, k' \in Nat,
         pc' = "payload" => k' < Len(call.val),
         pc' # "payload" => k' = 0
  PROVE  IInv'
<1>1. pc' \in Writing \cup Closing
  OBVIOUS
<1>2. TypeOK'
  BY <1>1 DEF IInv, TypeOK, CardOK, Writing, Closing
<1>3. Typed'
  BY DEF IInv, Typed, CardOK
<1>4. Running'
  BY <1>1 DEF IInv, Running, Writing, Closing, Fits
<1>5. Emptied' /\ Mounted' /\ Chosen' /\ Ours'
  BY <1>1 DEF IInv, CardOK, Emptied, Mounted, Chosen, Ours, Writing, Closing, Live, Named
<1>6. OnePerFile' /\ Newest'
  BY SameEntries DEF IInv, Ours, Writing, Closing
<1> QED BY <1>2, <1>3, <1>4, <1>5, <1>6 DEF IInv

\* The header of the record
LEMMA WriteHdrIInv ==
  ASSUME IInv, WriteHdr
  PROVE  IInv'
<1> DEFINE W == Put(0, Hdr(call.name, new_gen, call.val))
           O == Step(IF call.val = << >> THEN "tail" ELSE "payload")
<1>1. pc = "hdr" /\ (\/ W /\ O /\ UNCHANGED <<wfaults, rfaults>>
                     \/ Faulted /\ (W \/ UNCHANGED disk))
  BY DEF WriteHdr, Sector, Faulted
<1>2. (W \/ UNCHANGED disk) => CardOK' /\ Kept
  BY OtherWrites DEF Put, disk, IInv, TypeOK, Ours
<1>3. CASE W /\ O /\ UNCHANGED <<wfaults, rfaults>>
  <2>1. k = 0 /\ call.val \in Payloads
    BY <1>1 DEF IInv, Running, Writing
  <2>2. call.val # << >> => 0 < Len(call.val)
    BY <2>1, SaveTypes
  <2>3. CardOK' /\ superA'.ours
    BY <1>1, <1>2, <1>3 DEF Put, IInv, Ours, Writing
  <2>4. /\ index' = index /\ sup' = sup /\ entries' = entries /\ call' = call
        /\ entry_idx' = entry_idx /\ new_gen' = new_gen /\ wfaults' = wfaults
        /\ rfaults' = rfaults /\ saved' = saved /\ pending' = pending /\ gap' = gap
        /\ k' = k
    BY <1>3 DEF Put, Step, ram, locals, history
  <2>5. pc' = IF call.val = << >> THEN "tail" ELSE "payload"
    BY <1>3 DEF Step
  <2> QED BY <1>1, <2>1, <2>2, <2>3, <2>4, <2>5, StepIInv DEF Writing
<1> QED BY <1>1, <1>2, <1>3, FaultKeepsIInv

\* A sector of the payload
LEMMA WritePayloadIInv ==
  ASSUME IInv, WritePayload
  PROVE  IInv'
<1> DEFINE W == Put(k + 1, Raw(call.val[k + 1]))
           O == /\ IF k + 1 < Len(call.val) THEN k' = k + 1 /\ pc' = pc
                                            ELSE k' = 0 /\ pc' = "tail"
                /\ UNCHANGED <<ram, call, entry_idx, new_gen, history>>
<1>1. pc = "payload" /\ (\/ W /\ O /\ UNCHANGED <<wfaults, rfaults>>
                         \/ Faulted /\ (W \/ UNCHANGED disk))
  BY DEF WritePayload, Sector, Faulted
<1>2. (W \/ UNCHANGED disk) => CardOK' /\ Kept
  BY OtherWrites DEF Put, disk, IInv, TypeOK, Ours
<1>3. CASE W /\ O /\ UNCHANGED <<wfaults, rfaults>>
  <2>1. k \in Nat /\ CardOK' /\ superA'.ours
    BY <1>1, <1>2, <1>3 DEF Put, IInv, TypeOK, Ours, Writing
  <2>2. /\ index' = index /\ sup' = sup /\ entries' = entries /\ call' = call
        /\ entry_idx' = entry_idx /\ new_gen' = new_gen /\ wfaults' = wfaults
        /\ rfaults' = rfaults /\ saved' = saved /\ pending' = pending /\ gap' = gap
    BY <1>3 DEF Put, ram, history
  <2>3. \/ k' = k + 1 /\ pc' = "payload" /\ k + 1 < Len(call.val)
        \/ k' = 0 /\ pc' = "tail"
    BY <1>1, <1>3
  <2> QED BY <1>1, <2>1, <2>2, <2>3, StepIInv DEF Writing
<1> QED BY <1>1, <1>2, <1>3, FaultKeepsIInv

\* The tail of the record
LEMMA WriteTailIInv ==
  ASSUME IInv, WriteTail
  PROVE  IInv'
<1> DEFINE W == Put(Len(call.val) + 1, DataTail(call.name, new_gen, call.val))
<1>1. pc = "tail" /\ (\/ W /\ Step("index") /\ UNCHANGED <<wfaults, rfaults>>
                      \/ Faulted /\ (W \/ UNCHANGED disk))
  BY DEF WriteTail, Sector, Faulted
<1>2. (W \/ UNCHANGED disk) => CardOK' /\ Kept
  BY OtherWrites DEF Put, disk, IInv, TypeOK, Ours
<1>3. CASE W /\ Step("index") /\ UNCHANGED <<wfaults, rfaults>>
  <2>1. k = 0 /\ CardOK' /\ superA'.ours
    BY <1>1, <1>2, <1>3 DEF Put, IInv, Running, Ours, Writing
  <2>2. /\ index' = index /\ sup' = sup /\ entries' = entries /\ call' = call
        /\ entry_idx' = entry_idx /\ new_gen' = new_gen /\ wfaults' = wfaults
        /\ rfaults' = rfaults /\ saved' = saved /\ pending' = pending /\ gap' = gap
        /\ k' = k /\ pc' = "index"
    BY <1>3 DEF Put, Step, ram, locals, history
  <2> QED BY <1>1, <2>1, <2>2, StepIInv DEF Writing
<1> QED BY <1>1, <1>2, <1>3, FaultKeepsIInv

\* The index entry: the switch to the new record
LEMMA WriteIndexIInv ==
  ASSUME IInv, WriteIndex
  PROVE  IInv'
<1> DEFINE W == /\ index' = [index EXCEPT ![entry_idx] = LiveEntry]
                /\ UNCHANGED <<superA, superB, data>>
           O == /\ entries' = [entries EXCEPT ![entry_idx] = LiveEntry]
                /\ sup' = [sup EXCEPT !.generation = @ + 1,
                                      !.next_data_lba = @ + RecordBlocks(call.val)]
                /\ pc' = "super_a" /\ UNCHANGED <<locals, history>>
<1>1. pc = "index" /\ entry_idx \in Indexed
        /\ (\/ W /\ O /\ UNCHANGED <<wfaults, rfaults>>
            \/ Faulted /\ (W \/ UNCHANGED disk))
  BY DEF WriteIndex, Sector, Faulted
<1>2. W => CardOK' /\ Kept
  BY <1>1, IndexWrites
<1>3. UNCHANGED disk => CardOK' /\ Kept
  BY OtherWrites DEF disk, IInv, TypeOK, Ours
<1>4. CASE W /\ O /\ UNCHANGED <<wfaults, rfaults>>
  <2>1. /\ superA' = superA /\ superB' = superB /\ data' = data /\ call' = call
        /\ entry_idx' = entry_idx /\ new_gen' = new_gen /\ k' = k
        /\ wfaults' = wfaults /\ rfaults' = rfaults
        /\ saved' = saved /\ pending' = pending /\ gap' = gap /\ pc' = "super_a"
    BY <1>4 DEF locals, history
  <2>2. CardOK' /\ Kept /\ pc \in Writing
    BY <1>1, <1>2, <1>4 DEF Writing
  <2>3. call.op = "save" /\ call.name \in Names /\ call.val \in Payloads /\ Fits(call.val)
    BY <2>2 DEF IInv, Running
  <2>4. sup' \in Supers /\ sup'.ours = sup.ours
    <3>1. sup.generation \in Nat /\ sup.next_data_lba \in Nat
      BY DEF IInv, TypeOK, Supers
    <3>2. sup.next_data_lba + RecordBlocks(call.val) <= DataBlocks
      BY <2>3 DEF Fits
    <3>3. sup' = [generation    |-> sup.generation + 1,
                  next_data_lba |-> sup.next_data_lba + RecordBlocks(call.val),
                  ours          |-> sup.ours]
      BY <1>4 DEF IInv, TypeOK, Supers
    <3>4. sup.ours \in BOOLEAN
      BY DEF IInv, TypeOK, Supers
    <3> QED BY <2>3, <3>1, <3>2, <3>3, <3>4, SaveTypes, RwfsAssumption DEF Supers
  <2>5. /\ LiveEntry \in EntryType /\ Live(LiveEntry)
        /\ LiveEntry.data_lba + LiveEntry.record_blocks <= DataBlocks
    BY <2>2, LiveEntryType
  <2>6. entries' \in [Entries -> EntryType] /\ entry_idx \in Entries
    BY <1>4, <2>5 DEF IInv, Typed, TypeOK
  <2>7. \A i \in Entries : entries'[i] = IF i = entry_idx THEN LiveEntry ELSE entries[i]
    BY <1>4 DEF IInv, Typed
  <2>8. \A i \in Indexed : index'[i] = IF i = entry_idx THEN LiveEntry ELSE index[i]
    BY <1>4 DEF IInv, Typed
  <2>9. TypeOK'
    <3>1. DOMAIN entries' = Entries
      BY <2>6
    <3>2. \A i \in Entries : entries'[i].data_lba + entries'[i].record_blocks <= DataBlocks
      BY <2>5, <2>7 DEF IInv, TypeOK
    <3> QED BY <2>1, <2>2, <2>4, <3>1, <3>2 DEF IInv, TypeOK, CardOK
  <2>10. Typed'
    BY <2>1, <2>2, <2>6 DEF IInv, Typed, CardOK
  <2>11. Running' /\ Emptied'
    BY <1>1, <2>1 DEF IInv, Running, Emptied, Writing, Closing
  <2>12. Mounted' /\ Ours'
    BY <1>1, <2>1, <2>4, <2>7 DEF IInv, Mounted, Ours, Writing, Closing
  <2>13. Chosen'
    <3>1. LiveEntry.name = call.name /\ LiveEntry.content_crc = call.val
      BY DEF LiveEntry
    <3> QED BY <1>1, <2>1, <2>5, <2>8, <3>1 DEF Chosen, Writing, Closing, Live
  <2>14. Newest'
    <3>1. /\ LiveEntry.name = call.name /\ LiveEntry.content_crc = call.val
          /\ LiveEntry.data_len = Len(call.val)
          /\ LiveEntry.record_blocks = RecordBlocks(call.val)
      BY DEF LiveEntry
    <3> QED BY <1>1, <2>1, <2>3, <2>8, <3>1 DEF IInv, Newest, Live, RecordBlocks, Closing
  <2> QED BY <2>2, <2>9, <2>10, <2>11, <2>12, <2>13, <2>14 DEF IInv, CardOK
<1> QED BY <1>1, <1>2, <1>3, <1>4, FaultKeepsIInv

\* rwfs_write_super_both: superblock A
LEMMA WriteSuperAIInv ==
  ASSUME IInv, WriteSuperA
  PROVE  IInv'
<1> DEFINE W == superA' = sup /\ UNCHANGED <<superB, index, data>>
<1>1. pc = "super_a" /\ (\/ W /\ Step("super_b") /\ UNCHANGED <<wfaults, rfaults>>
                         \/ Faulted /\ (W \/ UNCHANGED disk))
  BY DEF WriteSuperA, Sector, Faulted
<1>2. (W \/ UNCHANGED disk) => CardOK' /\ Kept
  BY <1>1, OtherWrites DEF disk, IInv, TypeOK, Ours, Closing
<1>3. CASE W /\ Step("super_b") /\ UNCHANGED <<wfaults, rfaults>>
  <2>1. k = 0 /\ CardOK' /\ superA'.ours
    BY <1>1, <1>2, <1>3 DEF IInv, Running, Ours, Closing
  <2>2. /\ index' = index /\ sup' = sup /\ entries' = entries /\ call' = call
        /\ entry_idx' = entry_idx /\ new_gen' = new_gen /\ wfaults' = wfaults
        /\ rfaults' = rfaults /\ saved' = saved /\ pending' = pending /\ gap' = gap
        /\ k' = k /\ pc' = "super_b"
    BY <1>3 DEF Step, ram, locals, history
  <2> QED BY <1>1, <2>1, <2>2, StepIInv DEF Closing
<1> QED BY <1>1, <1>2, <1>3, FaultKeepsIInv

\* ... and superblock B, after which the save has succeeded
LEMMA WriteSuperBIInv ==
  ASSUME IInv, WriteSuperB
  PROVE  IInv'
<1> DEFINE W == superB' = sup /\ UNCHANGED <<superA, index, data>>
           O == /\ saved' = [saved EXCEPT ![call.name] = call.val]
                /\ pending' = [pending EXCEPT ![call.name] = {}]
                /\ Return /\ UNCHANGED <<ram, gap>>
<1>1. pc = "super_b" /\ (\/ W /\ O /\ UNCHANGED <<wfaults, rfaults>>
                         \/ Faulted /\ (W \/ UNCHANGED disk))
  BY DEF WriteSuperB, Sector, Faulted
<1>2. (W \/ UNCHANGED disk) => CardOK' /\ Kept
  BY <1>1, OtherWrites DEF disk, IInv, TypeOK, Ours, Closing
<1>3. CASE W /\ O /\ UNCHANGED <<wfaults, rfaults>>
  <2>1. /\ superA' = superA /\ index' = index /\ data' = data
        /\ sup' = sup /\ entries' = entries /\ gap' = gap
        /\ wfaults' = wfaults /\ rfaults' = rfaults
        /\ pc' = "idle" /\ call' = NoCall /\ k' = 0 /\ entry_idx' = 0 /\ new_gen' = 0
    BY <1>3 DEF ram, Return
  <2>2. CardOK' /\ call.op = "save" /\ call.name \in Names /\ call.val \in Payloads
    BY <1>1, <1>2, <1>3 DEF IInv, Running, Closing
  <2>3. TypeOK'
    BY <2>1, <2>2, Geometry DEF IInv, TypeOK, CardOK
  <2>4. Typed'
    BY <1>3, <2>1, <2>2, SaveTypes DEF IInv, Typed
  <2>5. Running' /\ Emptied' /\ Mounted' /\ Chosen' /\ Ours'
    BY <1>1, <2>1 DEF IInv, Running, Emptied, Mounted, Chosen, Ours, Writing, Closing, NoCall
  <2>6. Newest'
    <3>0. superA.ours
      BY <1>1 DEF IInv, Ours, Closing
    <3> SUFFICES ASSUME NEW i \in Indexed, Live(index[i])
                 PROVE  index[i].content_crc \in
                          {saved'[index[i].name]} \cup pending'[index[i].name]
      BY <2>1 DEF IInv, Newest, Live, RecordBlocks
    <3>1. CASE i = entry_idx
      <4>1. index[i].content_crc = call.val /\ index[i].name = call.name
        BY <1>1, <3>1 DEF IInv, Chosen, Closing
      <4> QED BY <1>3, <2>2, <4>1 DEF IInv, Typed
    <3>2. CASE i # entry_idx
      <4>1. index[i].name # call.name /\ index[i].name \in Names
        BY <1>1, <3>0, <3>2 DEF IInv, Chosen, Closing, OnePerFile, Newest
      <4>2. saved'[index[i].name] = saved[index[i].name]
            /\ pending'[index[i].name] = pending[index[i].name]
        BY <1>3, <4>1 DEF IInv, Typed
      <4> QED BY <3>0, <3>2, <4>2 DEF IInv, Newest
    <3> QED BY <3>1, <3>2
  <2> QED BY <2>2, <2>3, <2>4, <2>5, <2>6 DEF IInv, CardOK
<1> QED BY <1>1, <1>2, <1>3, FaultKeepsIInv

\* IInv is inductive
LEMMA NextIInv == IInv /\ [Next]_vars => IInv'
<1> SUFFICES ASSUME IInv, [Next]_vars PROVE IInv'
  OBVIOUS
<1>1. CASE UNCHANGED vars
  BY <1>1 DEF vars, disk, ram, locals, history, IInv, TypeOK, Typed, Running, Emptied,
     Mounted, Chosen, Ours, OnePerFile, Newest, Live, Fits, RecordBlocks, Named
<1> QED BY <1>1, BeginIInv, MountIInv, FormatIndexIInv, FormatSuperAIInv,
           FormatSuperBIInv, RefusedIInv, SaveBeginIInv, WriteHdrIInv, WritePayloadIInv,
           WriteTailIInv, WriteIndexIInv, WriteSuperAIInv, WriteSuperBIInv DEF Next

\* IInv is an invariant of the file store
LEMMA AlwaysIInv == Spec => []IInv
BY InitIInv, NextIInv, PTL DEF Spec

-----------------------------------------------------------------------------
(* What a read returns *)

\* rwfs_read_all finds the one entry of the file in the index, unless it formats
LEMMA ReadFinds ==
  ASSUME IInv, NEW n \in Names
  PROVE  \/ /\ rwfs_read_all(n) = Absent
            /\ \/ ~Best(superA, superB).ours
               \/ \A i \in Indexed : ~(Live(index[i]) /\ index[i].name = n)
         \/ superA.ours /\ \E i \in Indexed :
              /\ Live(index[i]) /\ index[i].name = n
              /\ rwfs_read_all(n) = IF RecordIntact(index[i]) THEN Payload(index[i])
                                                              ELSE Corrupt
<1> DEFINE ents == ReadIndex(entries)
           S == Named(n, ents)
<1>1. \A i \in Entries : ents[i] = IF i \in Indexed THEN index[i] ELSE entries[i]
  BY DEF ReadIndex
<1>2. S \in SUBSET Entries
  BY DEF Named
<1>3. \A i \in S : /\ i \in Indexed /\ Live(index[i]) /\ index[i].name = n
                   /\ ents[i] = index[i]
  BY <1>1 DEF Named, Live, IInv, Mounted
<1>4. \A i \in Indexed : Live(index[i]) /\ index[i].name = n => i \in S
  BY <1>1, Geometry DEF Named, Live
<1>5. rwfs_read_all(n) = IF ~Best(superA, superB).ours \/ S = {} THEN Absent
                         ELSE IF RecordIntact(ents[FirstOf(S)])
                                THEN Payload(ents[FirstOf(S)]) ELSE Corrupt
  BY DEF rwfs_read_all
<1> HIDE DEF S, ents
<1>6. CASE ~Best(superA, superB).ours \/ S = {}
  BY <1>4, <1>5, <1>6
<1>7. CASE Best(superA, superB).ours /\ S # {}
  <2>1. FirstOf(S) \in S
    BY <1>2, <1>7, FirstOfIn
  <2>2. ents[FirstOf(S)] = index[FirstOf(S)]
    BY <1>3, <2>1
  <2>3. superA.ours
    BY <1>7, BestIsOne DEF IInv, Ours
  <2> QED BY <1>3, <1>5, <1>7, <2>1, <2>2, <2>3
<1> QED BY <1>6, <1>7

\* What passes the checks of rwfs_read_all is the content that the entry names
LEMMA IntactPayload ==
  ASSUME IInv, superA.ours, NEW i \in Indexed, Live(index[i]), RecordIntact(index[i])
  PROVE  Payload(index[i]) = index[i].content_crc
<1> DEFINE e == index[i]
<1>1. e.content_crc \in Seq(STRING) /\ e.data_len = Len(e.content_crc)
  <2>1. e \in EntryType
    BY DEF IInv, Typed
  <2>2. e.content_crc \in Payloads \/ e.content_crc = << >>
    BY <2>1 DEF EntryType
  <2>3. e.content_crc \in Seq(STRING)
    <3>1. << >> \in Seq(STRING)
      OBVIOUS
    <3>2. CASE e.content_crc = << >>
      BY <3>1, <3>2
    <3>3. CASE e.content_crc \in Payloads
      BY <3>3, SaveTypes
    <3> QED BY <2>2, <3>2, <3>3
  <2> QED BY <2>3 DEF IInv, Newest
<1>2. \A j \in 1 .. e.data_len : data[e.data_lba + j].bytes = e.content_crc[j]
  <2>1. \A j \in 1 .. e.data_len : data[e.data_lba + j] = Raw(e.content_crc[j])
    BY DEF RecordIntact
  <2>2. \A b : Raw(b).bytes = b
    BY DEF Raw
  <2> QED BY <2>1, <2>2
<1>3. Payload(e) = [j \in 1 .. e.data_len |-> e.content_crc[j]]
  BY <1>2 DEF Payload
<1>4. [j \in 1 .. Len(e.content_crc) |-> e.content_crc[j]] = e.content_crc
  BY <1>1
<1> QED BY <1>1, <1>3, <1>4

\* The theorem for every set of names and contents, every geometry and any number
\* of failed reads and writes: records and entries stay inside the data area, and
\* rwfs_read_all returns a newest content of the file or an error, never a mixture
\* of two saves or the content of another file.
THEOREM ReadsAreSound == Spec => []StoreSound
<1>1. IInv => StoreSound
  <2> SUFFICES ASSUME IInv, pc = "idle", NEW n \in Names
               PROVE  rwfs_read_all(n) \in {saved[n], Absent, Corrupt} \cup pending[n]
    BY DEF IInv, StoreSound, ReadsNewest
  <2>1. ASSUME superA.ours, NEW i \in Indexed, Live(index[i]), index[i].name = n
        PROVE  index[i].content_crc \in {saved[n]} \cup pending[n]
    BY <2>1 DEF IInv, Newest, Closing
  <2> QED BY <2>1, ReadFinds, IntactPayload
<1> QED BY <1>1, AlwaysIInv, PTL

-----------------------------------------------------------------------------
(* Append only *)

\* With both superblocks read, a mount takes superblock A
LEMMA BestIsA ==
  ASSUME superA \in Supers, superB \in Supers, Current
  PROVE  Best(superA, superB) = superA
<1>1. superA.generation \in Nat /\ superB.generation \in Nat
  BY DEF Supers
<1>2. superA # NoSuper /\ superA.generation >= superB.generation
  BY <1>1, SaveTypes DEF Current
<1> QED BY <1>2 DEF Best, rwfs_super_valid

\* ... and a superblock of this region only when it is the current one
LEMMA BestIsCurrent ==
  ASSUME IInv, Mirrors, Best(superA, superB).ours
  PROVE  Current
<1>1. CASE superB.ours
  BY <1>1 DEF Mirrors, Unused
<1>2. CASE ~superB.ours
  <2>1. Best(superA, superB) = superA /\ superA.ours
    BY <1>2, BestIsOne
  <2>2. superA # superB
    BY <1>2, <2>1
  <2>3. ~rwfs_super_valid(superB) \/ superA.generation >= superB.generation
    BY <2>1, <2>2 DEF Best
  <2>4. superB = NoSuper => superB.generation = 0
    BY DEF NoSuper
  <2>5. superA.generation \in Nat /\ superB.generation \in Nat
    BY DEF IInv, TypeOK, Supers
  <2> QED BY <2>1, <2>3, <2>4, <2>5 DEF Current, rwfs_super_valid
<1> QED BY <1>1, <1>2

\* No step takes a failed read back
LEMMA ReadFaultsGrow ==
  ASSUME IInv, [Next]_vars, rfaults' = 0
  PROVE  rfaults = 0
<1>1. rfaults \in Nat
  BY RwfsAssumption DEF IInv, TypeOK
<1>2. CASE \E bad \in SUBSET {"A", "B", "I"} : Mount(bad)
  BY <1>1, <1>2 DEF Mount
<1>3. CASE IndexRefused
  BY <1>1, <1>3 DEF IndexRefused
<1>4. CASE ~(\E bad \in SUBSET {"A", "B", "I"} : Mount(bad)) /\ ~IndexRefused
  BY <1>4 DEF Next, vars, Begins, Begin, FormatIndex, FormatSuperA, FormatSuperB,
     MountOnly, SaveBegin, WriteHdr, WritePayload, WriteTail, WriteIndex, WriteSuperA,
     WriteSuperB, Sector
<1> QED BY <1>2, <1>3, <1>4

\* A mount that reads every sector takes superblock A, or formats an unused region
LEMMA MountTakesA ==
  ASSUME IInv, Mirrors, NEW bad \in SUBSET {"A", "B", "I"}, Mount(bad), rfaults' = 0
  PROVE  /\ pc = "mount" /\ superA' = superA /\ superB' = superB
         /\ index' = index /\ data' = data /\ saved' = saved /\ gap' = gap
         /\ call' = call /\ entry_idx' = entry_idx /\ pending' = pending
         /\ \/ pc' = "fmt_index" /\ Unused
            \/ pc' = "mounted" /\ Current /\ sup' = superA
<1>1. bad = {}
  <2>1. rfaults \in Nat
    BY RwfsAssumption DEF IInv, TypeOK
  <2> QED BY <2>1 DEF Mount
<1>2. Current => Best(superA, superB) = superA /\ superA.ours /\ superA # NoSuper
  BY BestIsA, SaveTypes DEF IInv, TypeOK, Current
<1>3. /\ pc = "mount" /\ superA' = superA /\ superB' = superB
      /\ index' = index /\ data' = data
  BY DEF Mount, disk
<1>4. CASE pc' = "fmt_index"
  <2>1. Unused
    BY <1>1, <1>2, <1>4 DEF Mount, Mirrors, rwfs_super_valid
  <2> QED BY <1>1, <1>3, <1>4, <2>1 DEF Mount, ram, locals
<1>5. CASE pc' # "fmt_index"
  <2>1. Best(superA, superB).ours /\ sup' = Best(superA, superB) /\ pc' = "mounted"
    BY <1>1, <1>5 DEF Mount
  <2> QED BY <1>1, <1>2, <1>3, <1>5, <2>1, BestIsCurrent DEF Mount, locals
<1> QED BY <1>4, <1>5

\* A call that ends leaves the superblocks to the next mount
LEMMA EndMirrors ==
  ASSUME Return, Current' \/ Unused',
         superB'.ours => superB' = superA' \/ superB'.generation < superA'.generation,
         ~superB'.ours => superB'.next_data_lba = 0
  PROVE  Mirrors'
BY DEF Return, Mirrors, Writing, Closing

\* Mirrored is inductive
LEMMA NextMirrors ==
  ASSUME IInv, Mirrors, [Next]_vars, rfaults' = 0
  PROVE  Mirrors'
<1> USE DEF Current, Unused, Formatted
<1>1. superA.generation \in Nat /\ superB.generation \in Nat /\ sup.generation \in Nat
  BY DEF IInv, TypeOK, Supers
<1>2. ASSUME UNCHANGED disk, Return PROVE Mirrors'
  BY <1>2, EndMirrors DEF disk, Mirrors
<1>3. CASE UNCHANGED vars
  BY <1>3 DEF vars, disk, ram, locals, Mirrors, RecordBlocks
<1>4. CASE Begins
  BY <1>4 DEF Begins, Begin, disk, Mirrors, Writing, Closing
<1>5. CASE \E bad \in SUBSET {"A", "B", "I"} : Mount(bad)
  <2>1. PICK bad \in SUBSET {"A", "B", "I"} : Mount(bad)
    BY <1>5
  <2> QED BY <2>1, MountTakesA DEF Mirrors, Writing, Closing
<1>6. CASE FormatIndex
  <2>1. pc = "fmt_index" /\ superA' = superA /\ superB' = superB
    BY <1>6 DEF FormatIndex, Sector, disk
  <2>2. pc' \in {"fmt_index", "fmt_a"} \/ Return
    BY <1>6, <2>1 DEF FormatIndex, Sector
  <2> QED BY <2>1, <2>2, EndMirrors DEF Mirrors, Writing, Closing
<1>7. CASE FormatSuperA
  <2>1. pc = "fmt_a" /\ ~superB.ours /\ superB' = superB
    BY <1>7 DEF FormatSuperA, Sector, disk, Mirrors
  <2>2. superA' = Formatted \/ (superA' = superA /\ Return)
    BY <1>7 DEF FormatSuperA, Sector, disk
  <2>3. pc' = "fmt_b" \/ Return
    BY <1>7 DEF FormatSuperA, Sector
  <2> QED BY <2>1, <2>2, <2>3, EndMirrors DEF Mirrors, Writing, Closing
<1>8. CASE FormatSuperB
  <2>1. pc = "fmt_b" /\ superA = Formatted /\ ~superB.ours /\ superA' = superA
    BY <1>8 DEF FormatSuperB, Sector, disk, Mirrors
  <2>2. superB' = Formatted \/ superB' = superB
    BY <1>8 DEF FormatSuperB, Sector, disk
  <2>3. (pc' = "mounted" /\ sup' = Formatted /\ superB' = Formatted) \/ Return
    BY <1>8 DEF FormatSuperB, Sector
  <2> QED BY <2>1, <2>2, <2>3, EndMirrors DEF Mirrors, Writing, Closing
<1>9. CASE MountOnly \/ IndexRefused
  BY <1>2, <1>9 DEF MountOnly, IndexRefused
<1>10. CASE SaveBegin
  BY <1>10 DEF SaveBegin, disk, ram, Mirrors, Writing, Closing
<1>11. CASE WriteHdr \/ WritePayload \/ WriteTail
  <2>1. pc \in Writing /\ superA' = superA /\ superB' = superB
    BY <1>11 DEF WriteHdr, WritePayload, WriteTail, Sector, Put, disk, Writing
  <2>2. (pc' \in Writing /\ sup' = sup) \/ Return
    BY <1>11 DEF WriteHdr, WritePayload, WriteTail, Sector, Step, ram, Writing
  <2> QED BY <2>1, <2>2, EndMirrors DEF Mirrors, Writing, Closing
<1>12. CASE WriteIndex
  <2>1. pc = "index" /\ superA' = superA /\ superB' = superB /\ sup = superA
    BY <1>12 DEF WriteIndex, Sector, disk, Mirrors, Writing
  <2>2. \/ Return
        \/ /\ pc' = "super_a" /\ call' = call
           /\ sup' = [sup EXCEPT !.generation = @ + 1,
                                 !.next_data_lba = @ + RecordBlocks(call.val)]
    BY <1>12 DEF WriteIndex, Sector, locals
  <2>3. sup \in Supers
    BY DEF IInv, TypeOK
  <2> QED BY <2>1, <2>2, <2>3, EndMirrors DEF Mirrors, Writing, Closing, RecordBlocks, Supers
<1>13. CASE WriteSuperA
  <2>1. /\ pc = "super_a" /\ superB' = superB /\ sup.ours
        /\ sup.generation = superA.generation + 1
    BY <1>13 DEF WriteSuperA, Sector, disk, Mirrors, Closing, IInv, Ours
  <2>2. superA' = sup \/ (superA' = superA /\ Return)
    BY <1>13 DEF WriteSuperA, Sector, disk
  <2>3. (pc' = "super_b" /\ sup' = sup) \/ Return
    BY <1>13 DEF WriteSuperA, Sector, Step, ram
  <2>4. superB.generation < sup.generation
    BY <1>1, <2>1 DEF Mirrors, Closing
  <2>5. CASE superA' = sup
    <3>1. /\ superB'.ours => superB'.generation < superA'.generation
          /\ ~superB'.ours => superB'.next_data_lba = 0
          /\ Current'
      BY <1>1, <2>1, <2>4, <2>5 DEF Mirrors
    <3>2. CASE Return
      BY <3>1, <3>2, EndMirrors
    <3>3. CASE pc' = "super_b" /\ sup' = sup
      BY <2>5, <3>1, <3>3 DEF Mirrors, Writing, Closing
    <3> QED BY <2>3, <3>2, <3>3
  <2>6. CASE superA' = superA /\ Return
    BY <2>1, <2>6, EndMirrors DEF Mirrors
  <2> QED BY <2>2, <2>5, <2>6
<1>14. CASE WriteSuperB
  <2>1. pc = "super_b" /\ superA' = superA /\ sup = superA /\ superA.ours /\ Return
    BY <1>14 DEF WriteSuperB, Sector, disk, Mirrors, Closing
  <2>2. superB' = sup \/ superB' = superB
    BY <1>14 DEF WriteSuperB, Sector, disk
  <2> QED BY <1>1, <2>1, <2>2, EndMirrors DEF Mirrors
<1> QED BY <1>3, <1>4, <1>5, <1>6, <1>7, <1>8, <1>9, <1>10, <1>11, <1>12, <1>13, <1>14
        DEF Next

\* As long as no read fails, superblock A is the current one
LEMMA AlwaysMirrored == Spec => []Mirrored
<1>1. Init => Mirrored
  <2> SUFFICES ASSUME Init PROVE Mirrors
    BY DEF Mirrored
  <2>1. \A g \in OldGenerations : ~OldSuper(g).ours /\ OldSuper(g).next_data_lba = 0
    BY DEF OldSuper
  <2>2. ~superA.ours /\ ~superB.ours /\ superB.next_data_lba = 0
    BY <2>1 DEF Init, NoSuper
  <2> QED BY <2>2 DEF Init, Mirrors, Unused, Writing, Closing
<1>2. IInv /\ Mirrored /\ [Next]_vars => Mirrored'
  BY ReadFaultsGrow, NextMirrors DEF Mirrored
<1> QED BY <1>1, <1>2, AlwaysIInv, PTL DEF Spec

\* A data sector is written at next_data_lba or above
LEMMA WritesAbove ==
  ASSUME IInv, [Next]_vars, NEW b \in Area, data'[b] # data[b]
  PROVE  pc \in Writing /\ b >= sup.next_data_lba
<1>1. \E off \in Nat : \E x : pc \in Writing /\ Put(off, x)
  <2>1. k \in Nat
    BY DEF IInv, TypeOK
  <2>2. pc = "tail" => Len(call.val) \in Nat
    BY SaveTypes DEF IInv, Running, Writing
  <2>3. CASE WriteHdr
    <3>1. pc \in Writing /\ Put(0, Hdr(call.name, new_gen, call.val))
      BY <2>3 DEF WriteHdr, Sector, Writing, disk
    <3> QED BY <3>1
  <2>4. CASE WritePayload
    BY <2>1, <2>4 DEF WritePayload, Sector, Writing, disk
  <2>5. CASE WriteTail
    BY <2>2, <2>5 DEF WriteTail, Sector, Writing, disk
  <2>6. CASE ~WriteHdr /\ ~WritePayload /\ ~WriteTail
    <3>1. data' = data
      BY <2>6 DEF Next, vars, disk, Begins, Begin, Mount, FormatIndex, FormatSuperA,
         FormatSuperB, MountOnly, SaveBegin, WriteIndex, IndexRefused, WriteSuperA,
         WriteSuperB, Sector
    <3> QED BY <3>1
  <2> QED BY <2>3, <2>4, <2>5, <2>6
<1>2. PICK off \in Nat : \E x : pc \in Writing /\ Put(off, x)
  BY <1>1
<1>3. sup.next_data_lba \in Nat
  BY DEF IInv, TypeOK, Supers
<1>4. b = sup.next_data_lba + off
  BY <1>2 DEF Put, IInv, Typed
<1> QED BY <1>2, <1>3, <1>4

\* The theorem for every geometry and any number of failed writes: no step of the
\* program writes a data sector below the next_data_lba of the newest superblock,
\* as long as no sector read has failed.
THEOREM DataIsAppendOnly == Spec => AppendOnly
<1>1. IInv /\ Mirrored /\ [Next]_vars =>
        [rfaults = 0 =>
           \A b \in Area, s \in {superA, superB} :
             s.generation >= superA.generation /\ s.generation >= superB.generation
               /\ b < s.next_data_lba => data'[b] = data[b]]_vars
  <2> SUFFICES ASSUME IInv, Mirrored, [Next]_vars, rfaults = 0,
                      NEW b \in Area, NEW s \in {superA, superB},
                      s.generation >= superA.generation, b < s.next_data_lba,
                      data'[b] # data[b]
               PROVE  FALSE
    OBVIOUS
  <2>1. superA.generation \in Nat /\ superB.generation \in Nat /\ b \in Nat
    BY RwfsAssumption DEF IInv, TypeOK, Supers, Area
  <2>2. s = superA
    BY <2>1 DEF Mirrored, Mirrors
  <2>3. pc \in Writing /\ b >= sup.next_data_lba
    BY WritesAbove
  <2>4. sup = superA /\ sup.next_data_lba \in Nat /\ b \in Nat
    BY <2>3, RwfsAssumption DEF Mirrored, Mirrors, IInv, TypeOK, Supers, Area
  <2> QED BY <2>2, <2>3, <2>4
<1> QED BY <1>1, AlwaysIInv, AlwaysMirrored, PTL DEF Spec, AppendOnly

-----------------------------------------------------------------------------
(* Atomic saves *)

\* No step takes back that a save ended in the gap
LEMMA GapStays ==
  ASSUME IInv, [Next]_vars, ~gap'
  PROVE  ~gap
BY DEF Next, vars, history, Begins, Begin, Mount, FormatIndex, FormatSuperA, FormatSuperB,
   MountOnly, SaveBegin, WriteHdr, WritePayload, WriteTail, WriteIndex, IndexRefused,
   WriteSuperA, WriteSuperB, Sector, Step

\* The numbers of an entry in use
LEMMA LiveNumbers ==
  ASSUME IInv, superA.ours, NEW i \in Indexed, Live(index[i])
  PROVE  /\ index[i].data_lba \in Nat /\ index[i].data_len \in Nat
         /\ index[i].record_blocks = index[i].data_len + 2
         /\ index[i].data_lba + index[i].record_blocks <= DataBlocks
<1>1. index[i] \in EntryType
  BY DEF IInv, Typed
<1>2. index[i].data_lba \in Nat /\ index[i].data_len \in Nat
  BY <1>1 DEF EntryType
<1> QED BY <1>2 DEF IInv, Newest, RecordBlocks, TypeOK

\* A record stays intact when none of its sectors is written
LEMMA IntactStays ==
  ASSUME IInv, superA.ours, NEW i \in Indexed, Live(index[i]), RecordIntact(index[i]),
         index'[i] = index[i],
         \A b \in Area : b < index[i].data_lba + index[i].record_blocks
                           => data'[b] = data[b]
  PROVE  RecordIntact(index[i])'
<1> DEFINE e == index[i]
<1>1. /\ e.data_lba \in Nat /\ e.data_len \in Nat /\ DataBlocks \in Nat
      /\ e.record_blocks = e.data_len + 2 /\ e.data_lba + e.record_blocks <= DataBlocks
  BY LiveNumbers, RwfsAssumption
<1>2. data'[e.data_lba] = data[e.data_lba]
  BY <1>1 DEF Area
<1>3. data'[e.data_lba + e.record_blocks - 1] = data[e.data_lba + e.record_blocks - 1]
  BY <1>1 DEF Area
<1>4. \A j \in 1 .. e.data_len : data'[e.data_lba + j] = data[e.data_lba + j]
  BY <1>1 DEF Area
<1> QED BY <1>2, <1>3, <1>4 DEF RecordIntact, Raw

\* The files stay where they are when no sector below next_data_lba is written, and
\* no entry is changed but for those that a format of the unused region frees
LEMMA FilesStay ==
  ASSUME IInv, Filed, saved' = saved, superA' = superA,
         index' = index \/ ~superB.ours, superB'.ours \/ superB' = superB,
         \A i \in Indexed : Live(index'[i]) => index'[i] = index[i],
         pc # "super_a", pc' # "super_a",
         \A b \in Area : b < superA.next_data_lba => data'[b] = data[b]
  PROVE  Filed'
<1>1. /\ ~superB'.ours => \A n \in Names : saved'[n] = Absent
      /\ \A n \in Names : saved'[n] # Absent =>
           \E i \in Indexed : Live(index'[i]) /\ index'[i].name = n
  BY DEF Filed
<1> SUFFICES ASSUME superA.ours, NEW i \in Indexed, Live(index'[i])
             PROVE  RecordIntact(index[i])' /\ Located(i)'
  BY <1>1 DEF Filed, Live
<1>2. index'[i] = index[i] /\ Live(index[i])
  OBVIOUS
<1>3. RecordIntact(index[i]) /\ Located(i)
  BY <1>2 DEF Filed
<1>4. index[i].data_lba + index[i].record_blocks <= superA.next_data_lba
  BY <1>3 DEF Located
<1>5. superA.next_data_lba \in Nat
  BY DEF IInv, TypeOK, Supers
<1>6. \A b \in Area : b < index[i].data_lba + index[i].record_blocks => data'[b] = data[b]
  BY <1>2, <1>4, <1>5, LiveNumbers, RwfsAssumption DEF Area
<1>7. RecordIntact(index[i])'
  BY <1>2, <1>3, <1>6, IntactStays
<1> QED BY <1>2, <1>4, <1>7 DEF Located

\* ... and without a file there is nothing to lose
LEMMA NoFiles ==
  ASSUME \A i \in Indexed : ~Live(index'[i]), \A n \in Names : saved'[n] = Absent
  PROVE  Filed'
BY DEF Filed, Live

\* The superblock takes in the record that the index already refers to
LEMMA SuperTakesIn ==
  ASSUME IInv, Mirrors, Filed, pc = "super_a", superA' = sup, superB' = superB,
         index' = index, data' = data, saved' = saved, pc' # "super_a"
  PROVE  Filed'
<1>1. /\ sup.next_data_lba = superA.next_data_lba + RecordBlocks(call.val)
      /\ sup.generation = superA.generation + 1
  BY DEF Mirrors
<1>2. superA.next_data_lba \in Nat /\ superA.generation \in Nat
  BY DEF IInv, TypeOK, Supers
<1>3. RecordBlocks(call.val) \in Nat
  BY SaveTypes DEF IInv, Running, Closing
<1>4. superA.ours
  BY DEF IInv, Ours, Closing
<1> SUFFICES ASSUME NEW i \in Indexed, Live(index[i])
             PROVE  RecordIntact(index[i])' /\ Located(i)'
  BY DEF Filed, Live
<1>5. RecordIntact(index[i]) /\ Located(i)
  BY <1>4 DEF Filed
<1>6. RecordIntact(index[i])'
  BY <1>4, <1>5, IntactStays
<1>7. index[i].data_lba + index[i].record_blocks <= sup.next_data_lba
  BY <1>1, <1>2, <1>3, <1>4, <1>5, LiveNumbers DEF Located
<1> QED BY <1>6, <1>7 DEF Located

\* The record that a save has appended is intact
LEMMA AppendedIsIntact ==
  ASSUME IInv, Appended, pc = "index"
  PROVE  RecordIntact(LiveEntry)
<1>1. /\ LiveEntry.data_lba = sup.next_data_lba /\ LiveEntry.name = call.name
      /\ LiveEntry.data_len = Len(call.val) /\ LiveEntry.generation = new_gen
      /\ LiveEntry.content_crc = call.val
      /\ LiveEntry.record_blocks = RecordBlocks(call.val)
  BY DEF LiveEntry
<1>2. sup.next_data_lba \in Nat /\ Len(call.val) \in Nat
  BY SaveTypes DEF IInv, TypeOK, Supers, Running, Writing
<1>3. sup.next_data_lba + RecordBlocks(call.val) - 1 = sup.next_data_lba + Len(call.val) + 1
  BY <1>2 DEF RecordBlocks
<1>4. HdrWritten /\ PayloadWritten(Len(call.val)) /\ TailWritten
  BY DEF Appended
<1> QED BY <1>1, <1>3, <1>4
        DEF RecordIntact, HdrWritten, PayloadWritten, TailWritten, Hdr, DataTail

\* The index entry is written: the file is the appended record from now on
LEMMA EntrySwitches ==
  ASSUME IInv, Mirrors, Filed, Appended, pc = "index", entry_idx \in Indexed,
         index' = [index EXCEPT ![entry_idx] = LiveEntry],
         superA' = superA, superB' = superB, data' = data, saved' = saved,
         entry_idx' = entry_idx, pc' = "super_a",
         sup'.next_data_lba = sup.next_data_lba + RecordBlocks(call.val)
  PROVE  Filed'
<1>1. pc \in Writing /\ sup = superA /\ superA.ours
  BY DEF Writing, Mirrors, IInv, Ours
<1>2. \A i \in Indexed : index'[i] = IF i = entry_idx THEN LiveEntry ELSE index[i]
  BY DEF IInv, Typed
<1>3. /\ Live(LiveEntry) /\ LiveEntry.data_lba = sup.next_data_lba
      /\ LiveEntry.record_blocks = RecordBlocks(call.val)
      /\ LiveEntry.name = call.name
  BY <1>1, LiveEntryType DEF LiveEntry
<1>4. \A n \in Names : saved'[n] # Absent =>
        \E i \in Indexed : Live(index'[i]) /\ index'[i].name = n
  <2> SUFFICES ASSUME NEW n \in Names, saved[n] # Absent
               PROVE  \E i \in Indexed : Live(index'[i]) /\ index'[i].name = n
    OBVIOUS
  <2>1. PICK i \in Indexed : Live(index[i]) /\ index[i].name = n
    BY DEF Filed
  <2>2. CASE i = entry_idx
    <3>1. Live(entries[i]) /\ entries[i] = index[i]
      BY <1>1, <2>1 DEF IInv, Mounted
    <3>2. entries[i].name = call.name
      BY <1>1, <2>2, <3>1 DEF IInv, Chosen
    <3> QED BY <1>2, <1>3, <2>1, <2>2, <3>1, <3>2
  <2>3. CASE i # entry_idx
    BY <1>2, <2>1, <2>3
  <2> QED BY <2>2, <2>3
<1>5. ASSUME NEW i \in Indexed, i # entry_idx, Live(index[i])
      PROVE  RecordIntact(index[i])' /\ Located(i)'
  <2>1. RecordIntact(index[i]) /\ Located(i) /\ index'[i] = index[i]
    BY <1>1, <1>2, <1>5 DEF Filed
  <2>2. RecordIntact(index[i])'
    BY <1>1, <1>5, <2>1, IntactStays
  <2> QED BY <1>5, <2>1, <2>2 DEF Located
<1>6. RecordIntact(index[entry_idx])' /\ Located(entry_idx)'
  <2>1. RecordIntact(LiveEntry)
    BY AppendedIsIntact
  <2>2. index'[entry_idx'] = LiveEntry
    BY <1>2
  <2>3. RecordIntact(index[entry_idx])'
    BY <2>1, <2>2 DEF RecordIntact, Raw
  <2> QED BY <1>1, <1>3, <2>2, <2>3 DEF Located
<1>7. \A i \in Indexed : Live(index'[i]) => RecordIntact(index[i])' /\ Located(i)'
  BY <1>2, <1>5, <1>6
<1> QED BY <1>1, <1>4, <1>7 DEF Filed, Live

\* Every file stays intact and in its place
LEMMA NextFiled ==
  ASSUME IInv, Mirrors, Filed, Appended, [Next]_vars, rfaults' = 0, ~gap'
  PROVE  Filed'
<1>1. ASSUME UNCHANGED disk, saved' = saved, pc # "super_a", pc' # "super_a"
      PROVE  Filed'
  BY <1>1, FilesStay DEF disk
<1>2. CASE UNCHANGED vars
  BY <1>2 DEF vars, disk, ram, locals, history, Filed, Located, RecordIntact, Raw, Live
<1>3. CASE Begins \/ MountOnly \/ SaveBegin \/ IndexRefused
  BY <1>1, <1>3 DEF Begins, Begin, MountOnly, SaveBegin, IndexRefused, Return, history
<1>4. CASE \E bad \in SUBSET {"A", "B", "I"} : Mount(bad)
  BY <1>1, <1>4, MountTakesA DEF disk
<1>5. CASE FormatIndex
  <2>1. /\ pc = "fmt_index" /\ ~superB.ours /\ saved' = saved /\ pc' # "super_a"
        /\ superA' = superA /\ superB' = superB /\ data' = data
    BY <1>5 DEF FormatIndex, Sector, Return, history, disk, Mirrors, Unused
  <2>2. \A i \in Indexed : index'[i] = FreeEntry \/ index'[i] = index[i]
    BY <1>5 DEF FormatIndex, Sector, disk
  <2> QED BY <2>1, <2>2, FilesStay DEF Live, FreeEntry
<1>6. CASE FormatSuperA
  <2>1. pc = "fmt_a" /\ ~superB.ours /\ saved' = saved /\ index' = index
    BY <1>6 DEF FormatSuperA, Sector, history, disk, Mirrors, Unused
  <2> QED BY <2>1, NoFiles DEF IInv, Emptied, Filed
<1>7. CASE FormatSuperB
  <2>1. /\ pc = "fmt_b" /\ saved' = saved /\ index' = index /\ superA' = superA
        /\ data' = data /\ pc' # "super_a" /\ (superB'.ours \/ superB' = superB)
    BY <1>7, SaveTypes DEF FormatSuperB, Sector, history, disk, Return
  <2> QED BY <2>1, FilesStay
<1>8. CASE WriteHdr \/ WritePayload \/ WriteTail
  <2>1. /\ pc \in Writing /\ superA' = superA /\ superB' = superB
        /\ index' = index /\ saved' = saved /\ pc' # "super_a"
    BY <1>8 DEF WriteHdr, WritePayload, WriteTail, Sector, Put, Step, disk, history,
       Writing, Return
  <2>2. sup = superA /\ superA.next_data_lba \in Nat
    BY <2>1 DEF Mirrors, IInv, TypeOK, Supers
  <2>3. \A b \in Area : b < superA.next_data_lba => data'[b] = data[b]
    BY <2>2, WritesAbove, RwfsAssumption DEF Area
  <2> QED BY <2>1, <2>3, FilesStay DEF Writing
<1>9. CASE WriteIndex
  <2>1. pc = "index" /\ entry_idx \in Indexed
    BY <1>9 DEF WriteIndex
  <2>2. CASE pc' = "super_a"
    <3>1. /\ index' = [index EXCEPT ![entry_idx] = LiveEntry]
          /\ superA' = superA /\ superB' = superB /\ data' = data
          /\ saved' = saved /\ entry_idx' = entry_idx
          /\ sup' = [sup EXCEPT !.generation = @ + 1,
                                !.next_data_lba = @ + RecordBlocks(call.val)]
      BY <1>9, <2>2 DEF WriteIndex, Sector, Return, locals, history
    <3>2. sup'.next_data_lba = sup.next_data_lba + RecordBlocks(call.val)
      BY <3>1 DEF IInv, TypeOK, Supers
    <3> QED BY <2>1, <2>2, <3>1, <3>2, EntrySwitches
  <2>3. CASE pc' # "super_a" /\ UNCHANGED disk
    BY <1>1, <1>9, <2>1, <2>3 DEF WriteIndex, Sector, history
  <2>4. CASE pc' # "super_a" /\ ~UNCHANGED disk
    <3>1. /\ index' = [index EXCEPT ![entry_idx] = LiveEntry]
          /\ superA' = superA /\ superB' = superB /\ ~IndexAhead'
      BY <1>9, <2>4 DEF WriteIndex, Sector
    <3>2. superA = sup /\ Best(superA, superB) = superA /\ superA.ours
      BY <2>1, BestIsA DEF Mirrors, Writing, IInv, TypeOK, Current
    <3>3. index'[entry_idx] = LiveEntry
      BY <2>1, <3>1 DEF IInv, Typed
    <3>4. Best(superA', superB') = superA
      BY <3>1, <3>2
    <3>5. /\ index'[entry_idx].state = "live"
          /\ index'[entry_idx].data_lba >= superA.next_data_lba
      <4>1. superA.next_data_lba \in Nat
        BY DEF IInv, TypeOK, Supers
      <4> QED BY <3>2, <3>3, <4>1 DEF LiveEntry
    <3> QED BY <2>1, <3>1, <3>2, <3>4, <3>5 DEF IndexAhead
  <2> QED BY <2>2, <2>3, <2>4
<1>10. CASE WriteSuperA
  <2>1. /\ pc = "super_a" /\ pc' # "super_a" /\ index' = index /\ data' = data
        /\ saved' = saved /\ superB' = superB
    BY <1>10 DEF WriteSuperA, Sector, Step, Return, disk, history
  <2>2. CASE superA' = sup
    BY <2>1, <2>2, SuperTakesIn
  <2>3. CASE superA' # sup
    <3>1. superA' = superA /\ ~IndexAhead'
      BY <1>10, <2>3 DEF WriteSuperA, Sector, disk
    <3>2. entry_idx \in Indexed /\ Live(index[entry_idx])
      BY <2>1 DEF IInv, Chosen, Closing
    <3>3. Best(superA', superB') = superA /\ superA.ours
      BY <2>1, <3>1, BestIsA DEF Mirrors, IInv, TypeOK, Closing, Current
    <3>4. index[entry_idx].data_lba = superA.next_data_lba /\ superA.next_data_lba \in Nat
      BY <2>1, <3>2, <3>3 DEF Filed, Located, IInv, TypeOK, Supers
    <3> QED BY <2>1, <3>1, <3>2, <3>3, <3>4 DEF IndexAhead, Live
  <2> QED BY <2>2, <2>3
<1>11. CASE WriteSuperB
  <2>1. /\ pc = "super_b" /\ pc' = "idle" /\ index' = index /\ data' = data
        /\ superA' = superA /\ superA.ours
        /\ superB' = superB \/ superB'.ours
    BY <1>11 DEF WriteSuperB, Sector, Return, disk, IInv, Ours, Closing
  <2>2. CASE saved' = saved
    BY <2>1, <2>2, FilesStay
  <2>3. CASE saved' = [saved EXCEPT ![call.name] = call.val] /\ superB' = sup
    <3>1. entry_idx \in Indexed /\ Live(index[entry_idx]) /\ index[entry_idx].name = call.name
      BY <2>1 DEF IInv, Chosen, Closing
    <3>2. \A n \in Names : saved'[n] = saved[n] \/ n = call.name
      BY <2>3 DEF IInv, Typed
    <3>3. \A n \in Names : saved'[n] # Absent =>
            \E i \in Indexed : Live(index[i]) /\ index[i].name = n
      BY <3>1, <3>2 DEF Filed
    <3>4. ASSUME NEW i \in Indexed, Live(index[i])
          PROVE  RecordIntact(index[i])' /\ Located(i)'
      BY <2>1, <3>4, IntactStays DEF Filed, Located
    <3>5. superB'.ours
      BY <2>1, <2>3 DEF IInv, Ours, Closing
    <3> QED BY <2>1, <3>3, <3>4, <3>5 DEF Filed, Live
  <2> QED BY <1>11, <2>2, <2>3 DEF WriteSuperB, Sector
<1> QED BY <1>2, <1>3, <1>4, <1>5, <1>6, <1>7, <1>8, <1>9, <1>10, <1>11 DEF Next

\* The record of the running save grows sector by sector
LEMMA NextAppended ==
  ASSUME IInv, Appended, [Next]_vars
  PROVE  Appended'
<1>1. ASSUME pc' \notin {"payload", "tail", "index"} PROVE Appended'
  BY <1>1 DEF Appended
<1>2. CASE UNCHANGED vars
  BY <1>2 DEF vars, disk, ram, locals, Appended, HdrWritten, PayloadWritten, TailWritten,
     Hdr, DataTail, Raw
<1>3. ASSUME pc \in Writing
      PROVE  /\ sup.next_data_lba \in Nat /\ Len(call.val) \in Nat /\ DataBlocks \in Nat
             /\ sup.next_data_lba + Len(call.val) + 2 <= DataBlocks
             /\ call.val \in Seq(STRING)
  <2>1. call.val \in Payloads /\ Fits(call.val)
    BY <1>3 DEF IInv, Running
  <2>2. sup.next_data_lba \in Nat
    BY DEF IInv, TypeOK, Supers
  <2> QED BY <2>1, <2>2, SaveTypes, RwfsAssumption DEF Fits, RecordBlocks
<1>4. ASSUME NEW off \in Nat, NEW x, Put(off, x), sup.next_data_lba \in Nat
      PROVE  /\ sup.next_data_lba + off \in Area => data'[sup.next_data_lba + off] = x
             /\ \A j \in Nat : j # off =>
                  data'[sup.next_data_lba + j] = data[sup.next_data_lba + j]
  BY <1>4 DEF Put, IInv, Typed
<1>5. CASE WriteHdr /\ pc' # "idle"
  <2>1. /\ pc = "hdr" /\ Put(0, Hdr(call.name, new_gen, call.val))
        /\ pc' = (IF call.val = << >> THEN "tail" ELSE "payload")
        /\ sup' = sup /\ call' = call /\ new_gen' = new_gen /\ k' = k
    BY <1>5 DEF WriteHdr, Sector, Step, Return, ram, locals
  <2>2. k = 0 /\ pc \in Writing
    BY <2>1 DEF IInv, Running, Writing
  <2>3. data'[sup.next_data_lba + 0] = Hdr(call.name, new_gen, call.val)
    BY <1>3, <1>4, <2>1, <2>2 DEF Area
  <2>4. HdrWritten'
    BY <1>3, <2>1, <2>2, <2>3 DEF HdrWritten, Hdr
  <2>5. PayloadWritten(0)'
    BY DEF PayloadWritten
  <2>6. call.val = << >> => Len(call.val) = 0
    OBVIOUS
  <2>7. CASE pc' = "tail"
    BY <2>1, <2>4, <2>5, <2>6, <2>7 DEF Appended
  <2>8. CASE pc' = "payload"
    BY <2>1, <2>2, <2>4, <2>5, <2>8 DEF Appended
  <2> QED BY <2>1, <2>7, <2>8
<1>6. CASE WritePayload /\ pc' # "idle"
  <2>1. /\ pc = "payload" /\ Put(k + 1, Raw(call.val[k + 1]))
        /\ \/ k + 1 < Len(call.val) /\ k' = k + 1 /\ pc' = "payload"
           \/ ~(k + 1 < Len(call.val)) /\ pc' = "tail"
        /\ sup' = sup /\ call' = call /\ new_gen' = new_gen
    BY <1>6 DEF WritePayload, Sector, Return, ram
  <2>2. k \in Nat /\ k < Len(call.val) /\ pc \in Writing /\ HdrWritten /\ PayloadWritten(k)
    BY <2>1 DEF IInv, Running, TypeOK, Writing, Appended
  <2>3. data'[sup.next_data_lba + (k + 1)] = Raw(call.val[k + 1])
    <3>1. sup.next_data_lba + (k + 1) \in Area /\ k + 1 \in Nat
      BY <1>3, <2>2 DEF Area
    <3> QED BY <1>3, <1>4, <2>1, <2>2, <3>1
  <2>4. \A j \in Nat : j # k + 1 =>
          data'[sup.next_data_lba + j] = data[sup.next_data_lba + j]
    BY <1>3, <1>4, <2>1, <2>2
  <2>5. HdrWritten'
    <3>1. data'[sup.next_data_lba + 0] = data[sup.next_data_lba + 0]
      BY <2>2, <2>4
    <3> QED BY <1>3, <2>1, <2>2, <3>1 DEF HdrWritten, Hdr
  <2>6. \A j \in 1 .. k + 1 : data'[sup.next_data_lba + j] = Raw(call.val[j])
    BY <2>2, <2>3, <2>4 DEF PayloadWritten
  <2>7. CASE pc' = "payload"
    <3>1. PayloadWritten(k)'
      BY <2>1, <2>6, <2>7 DEF PayloadWritten, Raw
    <3> QED BY <2>5, <2>7, <3>1 DEF Appended
  <2>8. CASE pc' = "tail"
    <3>1. Len(call.val) = k + 1
      BY <1>3, <2>1, <2>2, <2>8
    <3>2. PayloadWritten(Len(call.val))'
      BY <2>1, <2>6, <3>1 DEF PayloadWritten, Raw
    <3> QED BY <2>5, <2>8, <3>2 DEF Appended
  <2> QED BY <2>1, <2>7, <2>8
<1>7. CASE WriteTail /\ pc' # "idle"
  <2>1. /\ pc = "tail" /\ pc' = "index"
        /\ Put(Len(call.val) + 1, DataTail(call.name, new_gen, call.val))
        /\ sup' = sup /\ call' = call /\ new_gen' = new_gen
    BY <1>7 DEF WriteTail, Sector, Step, Return, ram, locals
  <2>2. pc \in Writing /\ HdrWritten /\ PayloadWritten(Len(call.val))
    BY <2>1 DEF Writing, Appended
  <2>3. data'[sup.next_data_lba + (Len(call.val) + 1)]
          = DataTail(call.name, new_gen, call.val)
    <3>1. sup.next_data_lba + (Len(call.val) + 1) \in Area /\ Len(call.val) + 1 \in Nat
      BY <1>3, <2>2 DEF Area
    <3> QED BY <1>3, <1>4, <2>1, <2>2, <3>1
  <2>4. \A j \in Nat : j # Len(call.val) + 1 =>
          data'[sup.next_data_lba + j] = data[sup.next_data_lba + j]
    <3>1. Len(call.val) + 1 \in Nat /\ sup.next_data_lba \in Nat
      BY <1>3, <2>2
    <3> QED BY <1>4, <2>1, <3>1
  <2>5. HdrWritten'
    <3>1. data'[sup.next_data_lba + 0] = data[sup.next_data_lba + 0]
      BY <1>3, <2>2, <2>4
    <3> QED BY <1>3, <2>1, <2>2, <3>1 DEF HdrWritten, Hdr
  <2>6. PayloadWritten(Len(call.val))'
    BY <1>3, <2>1, <2>2, <2>4 DEF PayloadWritten, Raw
  <2>7. TailWritten'
    BY <1>3, <2>1, <2>2, <2>3 DEF TailWritten, DataTail
  <2> QED BY <2>1, <2>5, <2>6, <2>7 DEF Appended
<1>8. CASE pc' = "idle"
  BY <1>1, <1>8
<1>9. CASE ~(WriteHdr \/ WritePayload \/ WriteTail) /\ Next
  <2>1. pc' \notin {"payload", "tail", "index"}
    BY <1>9 DEF Next, Begins, Begin, Mount, FormatIndex, FormatSuperA, FormatSuperB,
       MountOnly, SaveBegin, WriteIndex, IndexRefused, WriteSuperA, WriteSuperB, Sector,
       Step, Return
  <2> QED BY <1>1, <2>1
<1> QED BY <1>2, <1>5, <1>6, <1>7, <1>8, <1>9

\* As long as no read fails and no save ends in the gap, every file is intact
LEMMA AlwaysStored == Spec => []Stored
<1>1. Init => Stored
  <2> SUFFICES ASSUME Init PROVE Filed /\ Appended
    BY DEF Stored
  <2>1. \A g \in OldGenerations : ~OldSuper(g).ours
    BY DEF OldSuper
  <2>2. ~superA.ours
    BY <2>1, SaveTypes DEF Init
  <2>3. \A n \in Names : saved[n] = Absent
    BY DEF Init
  <2> QED BY <2>2, <2>3 DEF Init, Filed, Appended
<1>2. IInv /\ Mirrored /\ Stored /\ [Next]_vars => Stored'
  BY ReadFaultsGrow, GapStays, NextFiled, NextAppended DEF Stored, Mirrored
<1> QED BY <1>1, <1>2, AlwaysIInv, AlwaysMirrored, PTL DEF Spec

\* The theorem for every set of names and contents, every geometry and any number
\* of failed writes: a file that was saved is never damaged or gone, and has the
\* content of its last successful save or of one that failed since then, as long as
\* no sector read failed and no save stopped after its index entry and before the
\* superblock.
THEOREM SavesAreAtomic == Spec => []AtomicSaveOutsideGap
<1>1. IInv /\ Mirrored /\ Stored => AtomicSaveOutsideGap
  <2> SUFFICES ASSUME IInv, Mirrored, Stored, ~gap, ~(rfaults > 0), pc = "idle", NEW n \in Names
               PROVE  rwfs_read_all(n) \in {saved[n]} \cup pending[n]
    BY DEF AtomicSaveOutsideGap, AtomicSave
  <2>1. Filed /\ Mirrors
    BY RwfsAssumption DEF Mirrored, Stored, IInv, TypeOK
  <2>2. ASSUME superA.ours, NEW i \in Indexed, Live(index[i]), index[i].name = n
        PROVE  /\ index[i].content_crc \in {saved[n]} \cup pending[n]
               /\ RecordIntact(index[i])
    BY <2>1, <2>2 DEF IInv, Newest, Closing, Filed
  <2>3. saved[n] # Absent => \E i \in Indexed : Live(index[i]) /\ index[i].name = n
    BY <2>1 DEF Filed
  <2>4. ~Best(superA, superB).ours => saved[n] = Absent
    BY <2>1, BestIsA DEF Mirrors, Unused, Current, Filed, IInv, TypeOK
  <2> QED BY <2>2, <2>3, <2>4, ReadFinds, IntactPayload
<1> QED BY <1>1, AlwaysIInv, AlwaysMirrored, AlwaysStored, PTL

=============================================================================
