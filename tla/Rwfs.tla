-------------------------------- MODULE Rwfs --------------------------------
(***************************************************************************)
(* The file store of src/common_io/rwfs.c: two superblocks, an index, and  *)
(* data records appended behind next_data_lba.  Every call mounts first:   *)
(* what is in RAM is read again from the card.  Calls run in thread code,  *)
(* one at a time; each sector write is a step, and at each of them the     *)
(* call may end, because sd_write_blocks fails or because power is lost.   *)
(* Sectors are written atomically.  Checksums are taken to have no         *)
(* collisions: the checksum of a payload is modelled by the payload.       *)
(***************************************************************************)
EXTENDS Naturals, Sequences

CONSTANTS Names,          \* file names
          Payloads,       \* file contents: sequences of payload blocks
          DataBlocks,     \* data_blocks: size of the data area
          EntriesPerBlock,\* index entries in a sector
          IndexBlocks,    \* RWFS_INDEX_BLOCKS
          EntryCount,     \* entries of g_rwfs: at least those in the sectors
          NoName,         \* the name of a free entry
          OldGenerations, \* generations of the superblocks of another layout
          MaxWriteFaults, \* bound: writes that fail or lose power
          MaxReadFaults   \* bound: sector reads that fail

ASSUME RwfsAssumption ==
  /\ Payloads \subseteq Seq(STRING)
  /\ DataBlocks \in Nat \ {0}
  /\ EntriesPerBlock \in Nat \ {0} /\ IndexBlocks \in Nat \ {0}
  /\ EntryCount \in Nat /\ EntryCount >= EntriesPerBlock * IndexBlocks
  /\ NoName \notin Names
  /\ OldGenerations \subseteq Nat \ {0}
  /\ MaxWriteFaults \in Nat /\ MaxReadFaults \in Nat

VARIABLES
  superA, superB,  \* the mirrored superblocks on the card
  index,           \* the index sectors on the card
  data,            \* the data area on the card, from data_start_lba on
  sup, entries,    \* g_rwfs.super and g_rwfs.entries
  pc,              \* the next sector access of the running call
  call,            \* its arguments
  entry_idx, new_gen, \* locals of rwfs_write_all_atomic
  k,               \* the loop counter of the running loop
  wfaults, rfaults,\* faults so far
  saved,           \* history: content of the last save that returned SD_OK
  pending,         \* history: contents of the saves that failed since then
  gap              \* history: a save ended between index and superblock

disk    == <<superA, superB, index, data>>
ram     == <<sup, entries>>
locals  == <<call, entry_idx, new_gen, k>>
history == <<saved, pending, gap>>
vars    == <<disk, ram, pc, locals, wfaults, rfaults, history>>

Indexed == 0 .. EntriesPerBlock * IndexBlocks - 1   \* entries with a sector
Entries == 0 .. EntryCount - 1
Area    == 0 .. DataBlocks - 1

\* Superblocks: what changes after format, and whether the region starts where the
\* disk table, which does not change, puts it, and is no bigger.  NoSuper is a sector
\* that is not valid; OldSuper one that another layout of the card has left there.
NoSuper == [generation |-> 0, next_data_lba |-> 0, ours |-> FALSE]
OldSuper(g) == [generation |-> g, next_data_lba |-> 0, ours |-> FALSE]
rwfs_super_valid(s) == s # NoSuper

FreeEntry == [state |-> "free", name |-> NoName, data_lba |-> 0, data_len |-> 0,
              generation |-> 0, content_crc |-> << >>, record_blocks |-> 0]

\* An entry of another layout; what it refers to is never read
OldEntry(n) == [FreeEntry EXCEPT !.state = "live", !.name = n]

\* Sectors of the data area
Blank == [kind |-> "blank"]
Raw(b) == [kind |-> "raw", bytes |-> b]
Hdr(n, g, v) == [kind |-> "FDAT", name |-> n, generation |-> g,
                 payload_len |-> Len(v), payload_crc |-> v]
DataTail(n, g, v) == [kind |-> "FDEN", name |-> n, generation |-> g,
                      payload_len |-> Len(v), payload_crc |-> v]

NoCall == [op |-> "none", name |-> NoName, val |-> << >>]

Absent == <<"not found">>    \* RWFS_ERR_NOT_FOUND
Corrupt == <<"corrupt">>     \* RWFS_ERR_CORRUPT

Init ==
  /\ superA \in {NoSuper} \cup {OldSuper(g) : g \in OldGenerations}
  /\ superB \in {NoSuper} \cup {OldSuper(g) : g \in OldGenerations}
  /\ index \in [Indexed -> {FreeEntry} \cup {OldEntry(n) : n \in Names}]
  /\ data = [b \in Area |-> Blank]
  /\ sup = NoSuper /\ entries = [i \in Entries |-> FreeEntry]
  /\ pc = "idle" /\ call = NoCall /\ entry_idx = 0 /\ new_gen = 0 /\ k = 0
  /\ wfaults = 0 /\ rfaults = 0
  /\ saved = [n \in Names |-> Absent] /\ pending = [n \in Names |-> {}]
  /\ gap = FALSE

-----------------------------------------------------------------------------
(* Mounting *)

\* Mutant: the mirror wins whenever it is valid, whatever its generation
BestMirror(a, b) == IF rwfs_super_valid(b) THEN b ELSE a

\* The superblock that wins; A wins a tie
Best(a, b) == IF rwfs_super_valid(a)
                 /\ (~rwfs_super_valid(b) \/ a.generation >= b.generation)
                THEN a ELSE b

\* The entries in RAM after rwfs_read_index: the ones without a sector keep
\* what they had
ReadIndex(ents) == [i \in Entries |-> IF i \in Indexed THEN index[i] ELSE ents[i]]

\* A call begins: rwfs_init_or_mount alone (also for rwfs_read_all and rwfs_list,
\* which only read after it) or rwfs_write_all_atomic
Begin(c) ==
  /\ pc = "idle" /\ call' = c /\ pc' = "mount"
  /\ UNCHANGED <<disk, ram, entry_idx, new_gen, k, wfaults, rfaults, history>>

\* What is left of a call that returns
Return == pc' = "idle" /\ call' = NoCall /\ k' = 0 /\ entry_idx' = 0 /\ new_gen' = 0

\* A save that returns an error, or whose caller lost power, may have happened
SaveFailed == pending' = IF call.op = "save"
                           THEN [pending EXCEPT ![call.name] = @ \cup {call.val}]
                           ELSE pending

\* rwfs_init_or_mount up to a format (no valid superblock, or the one that wins is
\* of another layout) or to rwfs_read_index.  bad is the set of
\* sectors whose read fails ("I": some index sector; what was copied before it
\* failed is not used: the next mount reads the index again).
Mount(bad) ==
  LET a == IF "A" \in bad THEN NoSuper ELSE superA
      b == IF "B" \in bad THEN NoSuper ELSE superB
      none == ~rwfs_super_valid(a) /\ ~rwfs_super_valid(b)
  IN
  /\ pc = "mount"
  /\ rfaults' = rfaults + (IF "A" \in bad THEN 1 ELSE 0)
                 + (IF "B" \in bad THEN 1 ELSE 0) + (IF "I" \in bad THEN 1 ELSE 0)
  /\ rfaults' <= MaxReadFaults
  /\ \/ /\ none /\ pc' = "fmt_index"
        /\ UNCHANGED <<ram, locals, saved, pending, gap>>
     \/ /\ ~none /\ sup' = Best(a, b)
        /\ \/ /\ ~Best(a, b).ours /\ pc' = "fmt_index"
              /\ UNCHANGED <<entries, locals, pending>>
           \/ /\ Best(a, b).ours /\ "I" \in bad
              /\ Return /\ SaveFailed /\ UNCHANGED entries
           \/ /\ Best(a, b).ours /\ "I" \notin bad
              /\ entries' = ReadIndex(entries)
              /\ pc' = "mounted" /\ UNCHANGED <<locals, pending>>
        /\ UNCHANGED <<saved, gap>>
  /\ UNCHANGED <<disk, wfaults>>

-----------------------------------------------------------------------------
(* Sector writes.  Written is the change of the card, Ok what the code does *)
(* after SD_OK.  A write that fails or loses power may or may not have      *)
(* reached the card; either way the call is over.                           *)

\* The index refers to a record that the superblocks count as free space
IndexAhead == /\ Best(superA, superB).ours
              /\ \E i \in Indexed :
                   /\ index[i].state = "live"
                   /\ index[i].data_lba >= Best(superA, superB).next_data_lba

Sector(Written, Ok) ==
  \/ Written /\ Ok /\ UNCHANGED <<wfaults, rfaults>>
  \/ /\ wfaults < MaxWriteFaults /\ wfaults' = wfaults + 1
     /\ Written \/ UNCHANGED disk
     /\ Return /\ SaveFailed
     /\ gap' = (gap \/ IndexAhead')
     /\ UNCHANGED <<ram, rfaults, saved>>

\* rwfs_format_region: the index sectors, then both superblocks
Formatted == [generation |-> 1, next_data_lba |-> 0, ours |-> TRUE]

FormatIndex ==
  /\ pc = "fmt_index"
  /\ Sector(/\ index' = [i \in Indexed |-> IF i \div EntriesPerBlock = k
                                             THEN FreeEntry ELSE index[i]]
            /\ UNCHANGED <<superA, superB, data>>,
            /\ IF k + 1 < IndexBlocks THEN k' = k + 1 /\ pc' = pc
                                      ELSE k' = 0 /\ pc' = "fmt_a"
            /\ UNCHANGED <<ram, call, entry_idx, new_gen, history>>)

FormatSuperA ==
  /\ pc = "fmt_a"
  /\ Sector(superA' = Formatted /\ UNCHANGED <<superB, index, data>>,
            pc' = "fmt_b" /\ UNCHANGED <<ram, locals, history>>)

FormatSuperB ==
  /\ pc = "fmt_b"
  /\ Sector(superB' = Formatted /\ UNCHANGED <<superA, index, data>>,
            /\ sup' = Formatted
            /\ entries' = [i \in Entries |-> [entries[i] EXCEPT !.state = "free"]]
            /\ pc' = "mounted" /\ UNCHANGED <<locals, history>>)

-----------------------------------------------------------------------------
(* rwfs_write_all_atomic after the mount *)

\* rwfs_find_entry and rwfs_find_free_entry stop at the first match
FirstOf(S) == CHOOSE i \in S : \A j \in S : i <= j
Named(n, ents) == {i \in Entries : ents[i].state = "live" /\ ents[i].name = n}
Free(ents) == {i \in Entries : ents[i].state = "free"}

\* Mutant: the tail sector is not counted
RecordBlocksNoTail(v) == 1 + Len(v)

RecordBlocks(v) == 2 + Len(v)

\* Mutant: the existing entry of the file is not looked up
SaveEntryNew(n) == FirstOf(Free(entries))

\* The record fits into what is left of the data area
Fits(v) == sup.next_data_lba + RecordBlocks(v) <= DataBlocks

\* The entry a save of n uses
SaveEntry(n) == FirstOf(IF Named(n, entries) # {} THEN Named(n, entries) ELSE Free(entries))

\* Neither a mount nor a refused save (index or data area full) goes further
MountOnly ==
  /\ pc = "mounted"
  /\ \/ call.op = "mount"
     \/ Named(call.name, entries) = {} /\ Free(entries) = {}
     \/ ~Fits(call.val)
  /\ Return
  /\ UNCHANGED <<disk, ram, wfaults, rfaults, history>>

SaveBegin ==
  /\ pc = "mounted" /\ call.op = "save" /\ Fits(call.val)
  /\ Named(call.name, entries) # {} \/ Free(entries) # {}
  /\ entry_idx' = SaveEntry(call.name)
  /\ new_gen' = IF Named(call.name, entries) # {}
                  THEN entries[entry_idx'].generation + 1 ELSE 1
  /\ pc' = "hdr"
  /\ UNCHANGED <<disk, ram, call, k, wfaults, rfaults, history>>

\* A sector of the record at sup.next_data_lba
Put(offset, block) == /\ data' = [data EXCEPT ![sup.next_data_lba + offset] = block]
                      /\ UNCHANGED <<superA, superB, index>>

Step(next) == pc' = next /\ UNCHANGED <<ram, locals, history>>

WriteHdr ==
  /\ pc = "hdr"
  /\ Sector(Put(0, Hdr(call.name, new_gen, call.val)),
            Step(IF call.val = << >> THEN "tail" ELSE "payload"))

WritePayload ==
  /\ pc = "payload"
  /\ Sector(Put(k + 1, Raw(call.val[k + 1])),
            /\ IF k + 1 < Len(call.val) THEN k' = k + 1 /\ pc' = pc
                                        ELSE k' = 0 /\ pc' = "tail"
            /\ UNCHANGED <<ram, call, entry_idx, new_gen, history>>)

WriteTail ==
  /\ pc = "tail"
  /\ Sector(Put(Len(call.val) + 1, DataTail(call.name, new_gen, call.val)), Step("index"))

LiveEntry == [state |-> "live", name |-> call.name, data_lba |-> sup.next_data_lba,
              data_len |-> Len(call.val), generation |-> new_gen,
              content_crc |-> call.val, record_blocks |-> RecordBlocks(call.val)]

\* rwfs_write_index_entry: the switch to the new record.  An entry that no
\* sector holds is refused with RWFS_ERR_CORRUPT.
WriteIndex ==
  /\ pc = "index" /\ entry_idx \in Indexed
  /\ Sector(/\ index' = [index EXCEPT ![entry_idx] = LiveEntry]
            /\ UNCHANGED <<superA, superB, data>>,
            /\ entries' = [entries EXCEPT ![entry_idx] = LiveEntry]
            /\ sup' = [sup EXCEPT !.generation = @ + 1,
                                  !.next_data_lba = @ + RecordBlocks(call.val)]
            /\ pc' = "super_a" /\ UNCHANGED <<locals, history>>)

\* The entry has no sector, or the sector that holds it cannot be read
IndexRefused ==
  /\ pc = "index"
  /\ \/ entry_idx \notin Indexed /\ rfaults' = rfaults
     \/ /\ entry_idx \in Indexed /\ rfaults < MaxReadFaults
        /\ rfaults' = rfaults + 1
  /\ Return
  /\ UNCHANGED <<disk, ram, wfaults, history>>

\* rwfs_write_super_both
WriteSuperA ==
  /\ pc = "super_a"
  /\ Sector(superA' = sup /\ UNCHANGED <<superB, index, data>>, Step("super_b"))

\* ... and the save returns SD_OK
WriteSuperB ==
  /\ pc = "super_b"
  /\ Sector(superB' = sup /\ UNCHANGED <<superA, index, data>>,
            /\ saved' = [saved EXCEPT ![call.name] = call.val]
            /\ pending' = [pending EXCEPT ![call.name] = {}]
            /\ Return /\ UNCHANGED <<ram, gap>>)

-----------------------------------------------------------------------------
Begins == \/ Begin([op |-> "mount", name |-> NoName, val |-> << >>])
          \/ \E n \in Names, v \in Payloads : Begin([op |-> "save", name |-> n, val |-> v])

Next == \/ Begins
        \/ \E bad \in SUBSET {"A", "B", "I"} : Mount(bad)
        \/ FormatIndex \/ FormatSuperA \/ FormatSuperB
        \/ MountOnly \/ SaveBegin
        \/ WriteHdr \/ WritePayload \/ WriteTail
        \/ WriteIndex \/ IndexRefused \/ WriteSuperA \/ WriteSuperB

Spec == Init /\ [][Next]_vars

-----------------------------------------------------------------------------
(* rwfs_read_all after a mount that met no fault *)

\* The checks of the header, of the tail and of the payload.  The code compares
\* payload_crc with the entry twice, but both times that of the tail: the
\* header's sector buffer holds the tail by then.
RecordIntact(e) ==
  LET h == data[e.data_lba]
      t == data[e.data_lba + e.record_blocks - 1]
  IN
  /\ h.kind = "FDAT" /\ t.kind = "FDEN"
  /\ h.name = e.name /\ t.name = e.name
  /\ h.generation = e.generation /\ t.generation = e.generation
  /\ h.payload_len = e.data_len /\ t.payload_len = e.data_len
  /\ t.payload_crc = e.content_crc
  /\ \A j \in 1 .. e.data_len : data[e.data_lba + j] = Raw(e.content_crc[j])

Payload(e) == [j \in 1 .. e.data_len |-> data[e.data_lba + j].bytes]

\* The content that rwfs_read_all returns for n, or its error.  The mount that it
\* begins with formats the region, and leaves no file, unless the superblock that wins is ours.
rwfs_read_all(n) ==
  LET ents == ReadIndex(entries)
      e == ents[FirstOf(Named(n, ents))]
  IN IF ~Best(superA, superB).ours \/ Named(n, ents) = {} THEN Absent
     ELSE IF RecordIntact(e) THEN Payload(e) ELSE Corrupt

-----------------------------------------------------------------------------
(* Properties *)

Supers == [generation : Nat, next_data_lba : 0 .. DataBlocks, ours : BOOLEAN]

\* Every variable has its type; the area between data_start_lba and the end
\* of the region holds every record that the index refers to.
TypeOK ==
  /\ superA \in Supers /\ superB \in Supers /\ sup \in Supers
  /\ DOMAIN index = Indexed /\ DOMAIN entries = Entries /\ DOMAIN data = Area
  /\ \A i \in Entries : entries[i].data_lba + entries[i].record_blocks <= DataBlocks
  /\ \A i \in Indexed : index[i].data_lba + index[i].record_blocks <= DataBlocks
  /\ pc \in {"idle", "mount", "fmt_index", "fmt_a", "fmt_b", "mounted", "hdr",
             "payload", "tail", "index", "super_a", "super_b"}
  /\ entry_idx \in Entries /\ new_gen \in Nat /\ k \in Nat
  /\ wfaults \in 0 .. MaxWriteFaults /\ rfaults \in 0 .. MaxReadFaults

\* Atomic save (docs/userspace_fs_lineed.md: "Atomic save semantics"): after any
\* failure a file has the content of its last successful save, or of a save
\* that failed since then, and is never damaged or gone.
AtomicSave ==
  pc = "idle" => \A n \in Names : rwfs_read_all(n) \in {saved[n]} \cup pending[n]

\* AtomicSave, as long as no save stopped after its index entry and before the
\* superblock, and no sector read failed: what the order of the writes in
\* rwfs_write_all_atomic does guarantee, for a file that was never saved too.
AtomicSaveOutsideGap == gap \/ rfaults > 0 \/ AtomicSave

\* Whatever failed before, rwfs_read_all never returns the content of another
\* file, a mixture of two saves, or a content older than the last save that
\* returned SD_OK: it returns a newest content or an error.
ReadsNewest ==
  pc = "idle" => \A n \in Names :
                   rwfs_read_all(n) \in {saved[n], Absent, Corrupt} \cup pending[n]

\* Records and entries stay inside the data area, also when it fills up, and a
\* read returns none but a newest content.
StoreSound == TypeOK /\ ReadsNewest

\* Append only ("append-then-switch, never in-place overwrite"): while no sector
\* read has failed, no write of a data sector hits one below the next_data_lba of
\* the current superblock.  (A mount that misses the newer superblock goes on
\* with the older one, whose next_data_lba lies below a record in use.)
AppendOnly ==
  [][rfaults = 0 =>
       \A b \in Area, s \in {superA, superB} :
         s.generation >= superA.generation /\ s.generation >= superB.generation
           /\ b < s.next_data_lba => data'[b] = data[b]]_vars
=============================================================================
