---------------------------- MODULE SnapshotSlots ----------------------------
(***************************************************************************)
(* The ring of snapshot slots on the SD card: how snapshot_write_one of    *)
(* src/scheduler/snapshot_task.c fills a slot sector by sector, and how    *)
(* the boot menu (src/bootmenu/boot_terminal.c) chooses a slot and copies  *)
(* it back into SRAM.  Every sector write may fail or be the last before a *)
(* power loss; a sector read may fail, and a slot with an unreadable       *)
(* sector counts as invalid.  Sectors are written atomically.              *)
(*                                                                         *)
(* The content of a payload sector is modelled by the number of the save   *)
(* that wrote it: the SRAM image of every save is different.  Checksums    *)
(* are taken to have no collisions.                                        *)
(***************************************************************************)
EXTENDS Naturals, FiniteSets

CONSTANTS SlotCount,       \* disk->snap_slots
          Regions,         \* regions of snapshot_build_regions
          RegionBlocks,    \* data sectors of a region
          MaxSaves,        \* bound: calls of snapshot_write_one
          MaxWriteFaults,  \* bound: sector writes that fail or lose power
          MaxReadFaults    \* bound: slots or payloads that cannot be read

ASSUME SlotsAssumption ==
  /\ SlotCount \in Nat \ {0} /\ Regions \in Nat \ {0} /\ RegionBlocks \in Nat \ {0}
  /\ MaxSaves \in Nat /\ MaxWriteFaults \in Nat /\ MaxReadFaults \in Nat

Slots == 0 .. SlotCount - 1

\* Payload sectors: PAY0, then RGS0, the data and RGE0 of each region, then PAYE
Sectors    == 1 .. 2 + Regions * (RegionBlocks + 2)
RGS0(r)    == 2 + (r - 1) * (RegionBlocks + 2)
RGE0(r)    == RGS0(r) + RegionBlocks + 1
DataOf(r)  == RGS0(r) + 1 .. RGE0(r) - 1
PAYE       == 2 + Regions * (RegionBlocks + 2)
DataSectors == UNION {DataOf(r) : r \in 1 .. Regions}

VARIABLES
  slot,       \* slot[i]: seq of its header and commit sectors (0: none), payload
  step,       \* "off": reset, in the boot menu; "idle": running; else in a save
  slot_idx, seq, k,   \* locals of snapshot_write_one; k: next payload sector
  table,      \* last_snap_seq of the disk table on the card
  save,       \* number of saves begun: the content of the current image
  wfaults, rfaults,
  committed,  \* history: the saves whose commit sector reached the card
  booted      \* history: what the last boot did

locals == <<slot_idx, seq, k>>
slotsVars == <<slot, step, locals, table, save, wfaults, rfaults, committed, booted>>

EmptySlot == [hdr |-> 0, pay |-> [b \in Sectors |-> 0], cmit |-> 0]
NotBooted == [how |-> "no", asked |-> {}, image |-> {}]

SlotsInit ==
  /\ slot = [i \in Slots |-> EmptySlot]
  /\ step = "idle" /\ slot_idx = 0 /\ seq = 0 /\ k = 0
  /\ table = 0 /\ save = 0 /\ wfaults = 0 /\ rfaults = 0
  /\ committed = {} /\ booted = NotBooted

-----------------------------------------------------------------------------
(* Choosing a slot *)

\* Mutant: the commit sector is not compared with the header
ValidAnyCommit(s) == s.hdr # 0 /\ s.pay[1] # 0 /\ s.cmit # 0

\* snapshot_slot_valid and boot_snapshot_slot_is_valid: header, PAY0 and commit
\* sectors are well formed and the two sequence numbers agree
Valid(s) == s.hdr # 0 /\ s.pay[1] # 0 /\ s.cmit = s.hdr

\* The valid slots that a scan finds when it cannot read the slots in bad
Found(bad) == {i \in Slots \ bad : Valid(slot[i])}

\* Mutant: the last scanned slot wins, whatever its sequence number
LatestByPlace(S) == CHOOSE i \in S : \A j \in S : j <= i

\* The first of them with the highest sequence number (both scans test ">")
Latest(S) == CHOOSE i \in S : \A j \in S : \/ slot[j].hdr < slot[i].hdr
                                           \/ slot[j].hdr = slot[i].hdr /\ i <= j

\* A region verifies if its RGE0 sector holds the checksum of its data
RegionOK(s, r) == /\ s.pay[RGS0(r)] # 0 /\ s.pay[RGE0(r)] # 0
                  /\ \A b \in DataOf(r) : s.pay[b] = s.pay[RGE0(r)]

\* boot_snapshot_restore_payload accepts the payload
Restorable(s) == /\ s.hdr # 0 /\ s.cmit = s.hdr
                 /\ s.pay[1] # 0 /\ s.pay[PAYE] # 0
                 /\ \A r \in 1 .. Regions : RegionOK(s, r)

\* The saves that the SRAM image in s comes from
Image(s) == {s.pay[b] : b \in DataSectors}

-----------------------------------------------------------------------------
(* snapshot_write_one *)

\* Mutant: the slot of the latest snapshot is used again
NextSlotSame(l) == l

\* Slot and sequence number of the save after the one in slot l
NextSlot(l) == (l + 1) % SlotCount
NextSeq(l) == slot[l].hdr + 1

\* snapshot_scan_latest, the choice of slot and seq, and the capture of tick
\* and ready bitmap
SaveBegin(bad) ==
  /\ step = "idle" /\ save < MaxSaves
  /\ rfaults' = rfaults + Cardinality(bad) /\ rfaults' <= MaxReadFaults
  /\ IF Found(bad) = {}
       THEN slot_idx' = 0 /\ seq' = 1
       ELSE LET l == Latest(Found(bad)) IN
            slot_idx' = NextSlot(l) /\ seq' = NextSeq(l)
  /\ save' = save + 1 /\ k' = 0 /\ step' = "hdr"
  /\ booted' = NotBooted
  /\ UNCHANGED <<slot, table, wfaults, committed>>

\* A sector write: it succeeds (Ok says how the save goes on), or it fails or
\* loses power, and then the sector may have been written or not
Sector(Written, Ok) ==
  \/ Written /\ Ok /\ UNCHANGED wfaults
  \/ /\ wfaults < MaxWriteFaults /\ wfaults' = wfaults + 1
     /\ Written \/ UNCHANGED <<slot, table, committed>>
     /\ step' \in {"idle", "off"} /\ slot_idx' = 0 /\ seq' = 0 /\ k' = 0

\* Mutant: the table is written with the header, before the payload
WriteHdrPublishes ==
  /\ step = "hdr"
  /\ Sector(/\ slot' = [slot EXCEPT ![slot_idx].hdr = seq] /\ table' = seq
            /\ UNCHANGED committed,
            step' = "pay" /\ k' = 1 /\ UNCHANGED <<slot_idx, seq>>)
  /\ UNCHANGED <<save, rfaults, booted>>

WriteHdr ==
  /\ step = "hdr"
  /\ Sector(slot' = [slot EXCEPT ![slot_idx].hdr = seq] /\ UNCHANGED <<table, committed>>,
            step' = "pay" /\ k' = 1 /\ UNCHANGED <<slot_idx, seq>>)
  /\ UNCHANGED <<save, rfaults, booted>>

\* snapshot_write_payload, one sector at a time
WritePayload ==
  /\ step = "pay"
  /\ Sector(slot' = [slot EXCEPT ![slot_idx].pay[k] = save] /\ UNCHANGED <<table, committed>>,
            /\ IF k = PAYE THEN step' = "cmit" /\ k' = 0 ELSE step' = step /\ k' = k + 1
            /\ UNCHANGED <<slot_idx, seq>>)
  /\ UNCHANGED <<save, rfaults, booted>>

WriteCommit ==
  /\ step = "cmit"
  /\ Sector(/\ slot' = [slot EXCEPT ![slot_idx].cmit = seq]
            /\ committed' = committed \cup {save} /\ UNCHANGED table,
            step' = "table" /\ UNCHANGED locals)
  /\ UNCHANGED <<save, rfaults, booted>>

\* rwos_disk_set_last_snap, whose failure is ignored
WriteTable ==
  /\ step = "table"
  /\ Sector(table' = seq /\ UNCHANGED <<slot, committed>>,
            step' = "idle" /\ slot_idx' = 0 /\ seq' = 0 /\ k' = 0)
  /\ UNCHANGED <<save, rfaults, booted>>

-----------------------------------------------------------------------------
(* Reset and boot *)

SlotsReset ==
  /\ step = "idle" /\ step' = "off"
  /\ UNCHANGED <<slot, locals, table, save, wfaults, rfaults, committed, booted>>

\* Boot fresh: no restore
BootFresh ==
  /\ step = "off" /\ step' = "idle"
  /\ booted' = [how |-> "fresh", asked |-> {}, image |-> {}]
  /\ UNCHANGED <<slot, locals, table, save, wfaults, rfaults, committed>>

\* boot_select_restore_candidate_from_admin: the slot asked for if it is valid,
\* otherwise the latest.  want is a slot of the menu or SlotCount for "recent".
Candidate(want, bad) == IF want \in Found(bad) THEN want ELSE Latest(Found(bad))

\* boot_restore_from_admin_target; unread: the payload cannot be read.  A
\* restore that fails leaves the machine in the boot menu.
BootRestore(want, bad, unread) ==
  LET c == Candidate(want, bad)
      ok == Restorable(slot[c]) /\ ~unread
  IN
  /\ step = "off" /\ Found({}) # {} /\ want \in Found({}) \cup {SlotCount}
  /\ rfaults' = rfaults + Cardinality(bad) + (IF unread THEN 1 ELSE 0)
  /\ rfaults' <= MaxReadFaults
  /\ LET asked == IF want = SlotCount THEN {} ELSE Image(slot[want]) IN
     IF Found(bad) = {} \/ ~ok
       THEN /\ booted' = [how |-> "failed", asked |-> asked, image |-> {}]
            /\ step' = step
       ELSE /\ booted' = [how |-> IF want = SlotCount THEN "recent" ELSE "chosen",
                          asked |-> asked, image |-> Image(slot[c])]
            /\ step' = "idle"
  /\ UNCHANGED <<slot, locals, table, save, wfaults, committed>>

-----------------------------------------------------------------------------
SlotsNext ==
  \/ \E bad \in SUBSET Slots : SaveBegin(bad)
  \/ WriteHdr \/ WritePayload \/ WriteCommit \/ WriteTable
  \/ SlotsReset \/ BootFresh
  \/ \E want \in Slots \cup {SlotCount}, bad \in SUBSET Slots, unread \in BOOLEAN :
       BootRestore(want, bad, unread)

SlotsSpec == SlotsInit /\ [][SlotsNext]_slotsVars

-----------------------------------------------------------------------------
(* Properties *)

Newest == CHOOSE x \in committed : \A y \in committed : y <= x

\* The slots that hold one complete save, as the boot menu sees them
Complete == {i \in Found({}) : Restorable(slot[i]) /\ Cardinality(Image(slot[i])) = 1}

\* Every variable has its type
SlotsTypeOK ==
  /\ slot \in [Slots -> [hdr : 0 .. MaxSaves, cmit : 0 .. MaxSaves,
                         pay : [Sectors -> 0 .. MaxSaves]]]
  /\ step \in {"off", "idle", "hdr", "pay", "cmit", "table"}
  /\ slot_idx \in Slots /\ seq \in 0 .. MaxSaves /\ k \in Sectors \cup {0}
  /\ table \in 0 .. MaxSaves /\ save \in 0 .. MaxSaves
  /\ wfaults \in 0 .. MaxWriteFaults /\ rfaults \in 0 .. MaxReadFaults
  /\ committed \in SUBSET (1 .. MaxSaves)

\* A payload that the boot menu would copy into SRAM is the image of one save:
\* whenever power fails, the slot being rewritten is not taken for valid
\* (docs/snapshot.md: "This makes interrupted writes auto-skippable.").
NoTornImage ==
  \A i \in Found({}) : Restorable(slot[i]) => Cardinality(Image(slot[i])) = 1

\* At every moment, during a save too, "recent" means the newest save whose
\* commit sector reached the card, and that slot can be restored.
RecentIsNewest ==
  committed # {} =>
    /\ Found({}) # {}
    /\ Latest(Found({})) \in Complete
    /\ Image(slot[Latest(Found({}))]) = {Newest}

\* Ring retention: all but one of the slots hold the newest committed saves,
\* whatever failed in between, so a save only ever consumes the oldest one.
Retention ==
  \A t \in committed :
    Cardinality({u \in committed : u > t}) < SlotCount - 1 =>
      \E i \in Complete : Image(slot[i]) = {t}

\* The disk table never announces a sequence number whose payload and commit
\* sector are not on the card, or that nothing at least as new replaces
\* (docs/snapshot.md: "publish snap_seq only after payload + commit marker are
\* durable").
PublishedIsDurable == table # 0 => \E i \in Complete : slot[i].hdr >= table

\* A restore from the boot menu succeeds and brings back the save it was asked
\* for: the newest for "recent", otherwise the one in the chosen slot.
BootRestores ==
  /\ booted.how # "failed"
  /\ booted.how = "recent" => booted.image = {Newest}
  /\ booted.how = "chosen" => booted.image = booted.asked

\* What a restore copies into SRAM is always one image, and the one asked for.
ImagesSound == SlotsTypeOK /\ NoTornImage /\ BootRestores
=============================================================================
