------------------------------ MODULE BootDisk -------------------------------
(***************************************************************************)
(* The disk table in sectors 1 and 2 of the card, and the two programs     *)
(* that share it: the boot menu (src/bootmenu/boot_terminal.c), which      *)
(* formats the card and writes what to boot, and the application           *)
(* (src/common_io/rwos_disk.c), which writes what it has saved.  Each has  *)
(* its own format of the table and reads the other's.  They also share 64  *)
(* bytes of RAM, the hand-off page, and the card's areas: snapshot slots,  *)
(* journal, checkpoints (src/terminal/terminal.c) at fixed sectors.        *)
(*                                                                         *)
(* A sector is written atomically.  A write may fail, with the sector      *)
(* written or not, or be the last before a power loss; a copy of the table *)
(* may be unreadable for one read; the card may fail to start.  Sectors    *)
(* are numbered as on the card and the layouts are computed with the       *)
(* code's constants.  How one slot is written and read is SnapshotSlots.   *)
(***************************************************************************)
EXTENDS Naturals, Sequences, FiniteSets

CONSTANTS card,         \* info->capacity_blocks: sectors of the card
          SlotChoices,  \* slot counts the user may ask for in the setup menu
          GenMax,       \* 0xFFFFFFFF in the code
          PayloadBlocks,\* sectors of a snapshot between header and commit
          Intervals,    \* checkpoint intervals of the shell's config command
          MaxSnapshots, \* bound: snapshots taken
          MaxCkpts,     \* bound: checkpoints written
          MaxBoots,     \* bound: starts of the machine
          MaxFaults     \* bound: card operations that go wrong

ASSUME BootDiskAssumption ==
  /\ card \in Nat /\ SlotChoices \subseteq 1 .. 64 /\ GenMax \in Nat \ {0, 1}
  /\ {PayloadBlocks, MaxSnapshots, MaxCkpts, MaxBoots, MaxFaults} \subseteq Nat

VARIABLES
  lba,      \* lba["A"], lba["B"]: the copies of the table
  snaps,    \* the valid snapshot slots on the card
  page,     \* the hand-off page at 0x2004FFC0, shared by both hand-offs
  sram,     \* what the last restore left in SRAM: 0, or the save it is from
  pc,       \* where the machine is
  st,       \* boot_status_t of the menu
  pick,     \* seq of the restore in progress
  ram,      \* g_rwos_disk and g_rwos_disk_valid
  app,      \* how the application was started
  saves, ckpts, boots, faults,
  asked,    \* history: what the user asked the boot menu for
  report,   \* history: how the last update of the table was reported
  blind,    \* history: a table was written without sight of the one before,
            \* or the generation is at its limit
  formatted,\* history: saves made before the last successful format
  unfinished\* history: a format has changed the table and failed, and the menu has
            \* done none since

disk == <<lba, snaps>>
history == <<asked, report, blind, formatted, unfinished>>
counts == <<saves, ckpts, boots, faults>>
vars == <<disk, page, sram, pc, st, pick, ram, app, counts, history>>

-----------------------------------------------------------------------------
(* Layouts *)

align_up(n, a) == ((n + a - 1) \div a) * a
percent(n, p) == (n \div 100) * p + ((n % 100) * p) \div 100
u32_max(a, b) == IF a > b THEN a ELSE b

None == [gen |-> 0]
Target(mode, slot, seq) == [mode |-> mode, slot |-> slot, seq |-> seq]
Recent == Target("recent", 0, 0)

\* boot_snapshot_layout_compute: None if the card is too small for the slots
admin_blocks == u32_max(32, align_up(card \div 4096, 32))
journal_area == u32_max(32, align_up(percent(card, 5), 32))

\* The slots begin after the journal
snap_start == admin_blocks + journal_area

\* Most sectors the slots may take: 2048 are left for files
max_snap == card - snap_start - 2048

boot_snapshot_layout_compute(slots) ==
  LET want == u32_max(percent(card, 25), 2048)
      snap == IF want > max_snap THEN max_snap ELSE want
  IN IF card <= snap_start + 2048 \/ snap < slots * 2
     THEN None
     ELSE [jstart |-> admin_blocks,
           jblocks |-> IF journal_area > 128 THEN 128 ELSE journal_area,
           start |-> snap_start,
           slots |-> slots, per |-> snap \div slots,
           blocks |-> (snap \div slots) * slots]

\* boot_snapshot_layout_valid
boot_snapshot_layout_valid(t) ==
  /\ t.slots > 0 /\ t.per >= 2 /\ t.blocks >= t.slots * t.per
  /\ t.start >= 32 /\ t.start + t.blocks <= card

\* snapshot_layout_valid of the application
snapshot_layout_valid(t) ==
  /\ t.slots \in 1 .. 64 /\ t.per >= 2 /\ t.blocks >= t.slots * t.per
  /\ t.start # 0 /\ t.start + t.blocks <= card

\* The layout of rwos_disk_auto_format: 640 sectors of SRAM and 16 more per slot,
\* 4 slots after 128 sectors of journal, and the rest for files
auto_layout ==
  LET end == 3 + 128 + 4 * 656 IN
  IF end + 64 > card THEN None
  ELSE [jstart |-> 3, jblocks |-> 128, start |-> 131, slots |-> 4, per |-> 656,
        blocks |-> 4 * 656]

Table(fmt, gen, l, rwfs) ==
  [fmt |-> fmt, gen |-> gen, jstart |-> l.jstart, jblocks |-> l.jblocks,
   start |-> l.start, slots |-> l.slots, per |-> l.per, blocks |-> l.blocks,
   rwfs |-> rwfs, target |-> Recent, last |-> 0]

\* The header sector of a slot
SlotLba(t, i) == t.start + i * t.per

-----------------------------------------------------------------------------
(* Reading the table *)

Copies == {"A", "B"}

\* The application reads the boot menu's RWSS table as one of its own RWDI ones
rwos_disk_parse(b) ==
  IF b = None \/ b.fmt = "RWDI" THEN b
  ELSE [b EXCEPT !.fmt = "RWDI", !.rwfs = b.start + b.blocks]

\* The boot menu reads an RWDI table as an RWSS one, which has no file area
boot_admin_parse_block(b) ==
  IF b = None \/ b.fmt = "RWSS" THEN b ELSE [b EXCEPT !.fmt = "RWSS", !.rwfs = 0]

\* rwos_disk_read_best: bad are the copies that cannot be read; A wins a tie
rwos_disk_read_best(bad) ==
  LET a == IF "A" \in bad THEN None ELSE rwos_disk_parse(lba["A"])
      b == IF "B" \in bad THEN None ELSE rwos_disk_parse(lba["B"])
  IN IF a.gen >= b.gen THEN a ELSE b

\* Mutant: the second copy is only read if the first is not usable
boot_admin_read_first(bad) ==
  LET a == IF "A" \in bad THEN None ELSE boot_admin_parse_block(lba["A"])
      b == IF "B" \in bad THEN None ELSE boot_admin_parse_block(lba["B"])
  IN IF b # None THEN b ELSE a

\* boot_admin_read_best: B wins a tie
boot_admin_read_best(bad) ==
  LET a == IF "A" \in bad THEN None ELSE boot_admin_parse_block(lba["A"])
      b == IF "B" \in bad THEN None ELSE boot_admin_parse_block(lba["B"])
  IN IF b.gen >= a.gen THEN b ELSE a

-----------------------------------------------------------------------------
(* Writing the table *)

\* rwos_disk_write_both and boot_admin_write_raw: A, then B unless A failed.  The
\* outcomes: both written; or an error, or a power loss, after neither, A or both
write_both(t) ==
  {[lba |-> [c \in Copies |-> t], rc |-> "ok", cost |-> 0]}
  \cup {[lba |-> l, rc |-> r, cost |-> 1] :
          l \in {lba, [lba EXCEPT !["A"] = t], [c \in Copies |-> t]},
          r \in {"err", "off"}}

\* A generation stops at its highest value
NextGen(g) == IF g = GenMax THEN g ELSE g + 1

\* The hand-off page without a magic
Clear == [kind |-> "clear"]

\* The card goes wrong n times in this step
Spend(n) == faults' = faults + n /\ faults' <= MaxFaults

NoTable == [valid |-> FALSE, t |-> None]

\* Power is lost: RAM is gone
PowerLoss ==
  /\ pc' = "reset" /\ page' = Clear /\ sram' = 0
  /\ ram' = NoTable

NotStarted == [how |-> "no", id |-> 0, seq |-> 0, jstart |-> 0, ckptint |-> "default"]

-----------------------------------------------------------------------------
(* Snapshot slots *)

\* The sectors lo .. hi
Span(lo, hi) == [lo |-> lo, hi |-> hi]

\* What is left of the slots when the spans of sectors in B are overwritten: a slot
\* without its header, PAY0 or commit sector is no longer valid; one that lost other
\* sectors of its payload is, but cannot be restored
Overwritten(B) ==
  LET Hit(lo, hi) == \E r \in B : r.lo <= hi /\ lo <= r.hi IN
  {[s EXCEPT !.torn = @ \/ Hit(s.lba + 2, s.lba + PayloadBlocks)] :
     s \in {x \in snaps : ~Hit(x.lba, x.lba + 1) /\ ~Hit(x.lba + x.per - 1, x.lba + x.per - 1)}}

\* The valid slots that a scan of the layout l finds
ValidSlots(l) ==
  {s \in snaps : s.slot < l.slots /\ s.lba = SlotLba(l, s.slot) /\ s.per = l.per}

\* The one that the insertions of boot_snapshot_summary_insert put before all others
newest(S) ==
  CHOOSE a \in S : \A b \in S \ {a} : a.seq > b.seq \/ (a.seq = b.seq /\ a.slot < b.slot)

\* boot_snapshot_scan: the three newest slots, for the menu
boot_snapshot_scan(l) ==
  LET V == ValidSlots(l)
      a == newest(V)  b == newest(V \ {a})  c == newest(V \ {a, b})
  IN IF V = {} THEN <<>> ELSE IF V = {a} THEN <<a>> ELSE IF V = {a, b} THEN <<a, b>>
     ELSE <<a, b, c>>

-----------------------------------------------------------------------------
(* Boot menu *)

NoCard == [ok |-> FALSE, magic |-> FALSE, list |-> <<>>]

\* boot_refresh_status; ready: the card starts
boot_refresh_status(ready, bad) ==
  IF ~ready THEN NoCard
  ELSE LET t == boot_admin_read_best(bad)
           l == IF t # None /\ boot_snapshot_layout_valid(t) THEN t
                ELSE boot_snapshot_layout_compute(4)
       IN [ok |-> TRUE, magic |-> t # None,
           list |-> IF t = None \/ l = None THEN <<>> ELSE boot_snapshot_scan(l)]

Fresh == [how |-> "fresh", id |-> 0, ckptint |-> "default"]

\* Mutant: the hand-off of an earlier boot is kept
boot_main_keeps(ready, bad, key) ==
  /\ pc = "reset" /\ boots < MaxBoots /\ boots' = boots + 1
  /\ Spend(Cardinality(bad) + IF ready THEN 0 ELSE 1)
  /\ st' = boot_refresh_status(ready, bad)
  /\ app' = NotStarted /\ ram' = NoTable /\ asked' = Fresh
  /\ pc' = IF ~ready /\ ~key THEN "jump" ELSE IF st'.magic THEN "menu" ELSE "setup"
  /\ UNCHANGED <<disk, page, sram, pick, saves, ckpts, report, blind, formatted, unfinished>>

\* boot_main: without a card it boots fresh unless a key is pressed
boot_main(ready, bad, key) ==
  /\ pc = "reset" /\ boots < MaxBoots /\ boots' = boots + 1
  /\ Spend(Cardinality(bad) + IF ready THEN 0 ELSE 1)
  /\ page' = Clear
  /\ st' = boot_refresh_status(ready, bad)
  /\ app' = NotStarted /\ ram' = NoTable /\ asked' = Fresh
  /\ pc' = IF ~ready /\ ~key THEN "jump" ELSE IF st'.magic THEN "menu" ELSE "setup"
  /\ UNCHANGED <<disk, sram, pick, saves, ckpts, report, blind, formatted, unfinished>>

\* "Refresh status" of the menu and of the setup loop, which ends by itself only if
\* it was entered because there was no table
Refresh(ready, bad) ==
  /\ pc \in {"menu", "setup", "forced"}
  /\ Spend(Cardinality(bad) + IF ready THEN 0 ELSE 1)
  /\ st' = boot_refresh_status(ready, bad)
  /\ pc' = IF pc = "setup" /\ st'.magic THEN "menu" ELSE pc
  /\ UNCHANGED <<disk, page, sram, pick, ram, app, saves, ckpts, boots, history>>

MenuSetup ==
  /\ pc = "menu" /\ pc' = "forced"
  /\ UNCHANGED <<disk, page, sram, st, pick, ram, app, counts, history>>

\* The new generation of boot_write_admin_region
FormatGen(t) == IF t = None \/ t.gen = GenMax THEN 1 ELSE t.gen + 1

\* The slots left when the headers of the first n of the layout l are zeroed
ZeroedHeaders(l, n) ==
  Overwritten({Span(SlotLba(l, i), SlotLba(l, i)) : i \in 0 .. n - 1})

\* "Format metadata + reboot", and the reset that follows if the new table can be
\* read (bad2).  zeroed: headers that are zeroed before a write fails.
SetupFormat(slots, bad, zeroed, bad2) ==
  LET l == boot_snapshot_layout_compute(slots)
      old == boot_admin_read_best(bad)
  IN
  /\ pc \in {"setup", "forced"} /\ st.ok /\ l # None
  /\ \E o \in write_both(Table("RWSS", FormatGen(old), l, 0)) :
       LET n == IF o.rc = "ok" THEN zeroed ELSE 0
           done == o.rc = "ok" /\ n = slots
           seen == IF bad2 = Copies THEN FALSE ELSE TRUE
       IN
       /\ o.rc # "ok" => zeroed = 0
       /\ ~done => bad2 = {}
       /\ Spend(Cardinality(bad) + Cardinality(bad2) + o.cost
                + IF o.rc = "ok" /\ ~done THEN 1 ELSE 0)
       /\ lba' = o.lba /\ snaps' = ZeroedHeaders(l, n)
       /\ report' = IF done THEN "ok" ELSE "err"
       /\ formatted' = IF done THEN saves ELSE formatted
       /\ unfinished' = (~done /\ (unfinished \/ lba' # lba))
       /\ IF o.rc = "off" THEN PowerLoss /\ UNCHANGED st
          ELSE /\ pc' = IF done /\ seen THEN "reset" ELSE pc
               /\ st' = IF done THEN [st EXCEPT !.magic = seen, !.list = <<>>] ELSE st
               /\ UNCHANGED <<page, sram, ram>>
  /\ blind' = (blind \/ (old = None /\ lba # [c \in Copies |-> None]) \/ old.gen = GenMax)
  /\ UNCHANGED <<pick, app, saves, ckpts, boots, asked>>

\* The recovery or command shell: shell_loop does not return
EnterShell ==
  /\ pc \in {"menu", "setup", "forced"} /\ pc' = "shell"
  /\ UNCHANGED <<disk, page, sram, st, pick, ram, app, counts, history>>

\* The checkpoint sectors, of the old and of the current format
ckpt_sectors == (2060 .. 2061) \cup (2080 .. 2111)

\* The shell's format: the checkpoint sectors are zeroed, wherever they lie, up to
\* the first that cannot be written
ShellFormat(last) ==
  /\ pc = "shell"
  /\ Spend(IF last = 2111 THEN 0 ELSE 1)
  /\ snaps' = Overwritten({Span(n, n) : n \in {m \in ckpt_sectors : m <= last}})
  /\ page' = IF last = 2111 THEN Clear ELSE page
  /\ UNCHANGED <<lba, sram, pc, st, pick, ram, app, saves, ckpts, boots, history>>

\* The page with the configuration of the shell
boot_handoff_publish(v) == [kind |-> "cfg", ckptint |-> v]

\* The shell's boot: a checkpoint interval is handed over, and nothing is restored
ShellBoot(v) ==
  /\ pc = "shell"
  /\ page' = boot_handoff_publish(v)
  /\ asked' = [Fresh EXCEPT !.ckptint = v] /\ pc' = "jump"
  /\ UNCHANGED <<disk, sram, st, pick, ram, app, counts, report, blind, formatted, unfinished>>

\* boot_admin_update_target: the outcomes of writing the target t
boot_admin_update_target(t, bad) ==
  LET adm == boot_admin_read_best(bad) IN
  IF adm = None THEN {[lba |-> lba, rc |-> "err", cost |-> 0]}
  ELSE write_both([adm EXCEPT !.gen = NextGen(@), !.target = t])

Saturated(bad) == boot_admin_read_best(bad).gen = GenMax

\* The menu writes the target t, goes on at next if that worked and otherwise stays
Choose(t, ask, next, bad) ==
  \E o \in boot_admin_update_target(t, bad) :
    /\ Spend(Cardinality(bad) + o.cost)
    /\ lba' = o.lba /\ report' = (IF o.rc = "ok" THEN "ok" ELSE "err")
    /\ blind' = (blind \/ Saturated(bad))
    /\ asked' = ask
    /\ IF o.rc = "off" THEN PowerLoss
       ELSE /\ IF o.rc = "ok" THEN pc' = next /\ page' = Clear ELSE UNCHANGED <<pc, page>>
            /\ UNCHANGED <<sram, ram>>
    /\ UNCHANGED <<snaps, st, pick, app, saves, ckpts, boots, formatted, unfinished>>

\* boot_action_boot_recent, boot_action_boot_fresh, boot_action_boot_snapshot_rank
MenuRecent(bad) ==
  /\ pc = "menu" /\ st.list # <<>>
  /\ Choose(Recent, [Fresh EXCEPT !.how = "recent", !.id = st.list[1].id], "restore", bad)

MenuFresh(bad) ==
  /\ pc = "menu"
  /\ IF st.magic THEN Choose(Target("fresh", 0, 0), Fresh, "jump", bad)
     ELSE /\ bad = {} /\ pc' = "jump" /\ page' = Clear /\ asked' = Fresh
          /\ UNCHANGED <<disk, sram, st, pick, ram, app, counts,
                         report, blind, formatted, unfinished>>

MenuSnapshot(rank, bad) ==
  /\ pc = "menu" /\ rank <= Len(st.list)
  /\ LET s == st.list[rank] IN
     Choose(Target("snapshot", s.slot, s.seq),
            [Fresh EXCEPT !.how = "snapshot", !.id = s.id], "restore", bad)

\* boot_select_restore_candidate_from_admin: the pinned slot if it is still the same,
\* otherwise the newest
Candidates(t) ==
  LET pinned == {s \in ValidSlots(t) : /\ s.slot = t.target.slot
                                        /\ t.target.seq \in {0, s.seq}}
      best == boot_snapshot_scan(t)
  IN IF t.target.mode = "snapshot" /\ pinned # {} THEN pinned
     ELSE IF t.target.mode = "fresh" \/ best = <<>> THEN {} ELSE {best[1]}

\* boot_action_boot and boot_restore_from_admin_target up to the copy of the payload.
\* The menu comes back if there is nothing to restore or the copy fails (copied),
\* then with part of the image in SRAM.
Restore(ready, bad, copied) ==
  LET t == boot_admin_read_best(bad)
      c == IF ready /\ t # None /\ boot_snapshot_layout_valid(t) THEN Candidates(t) ELSE {}
  IN
  /\ pc = "restore"
  /\ Spend(Cardinality(bad) + (IF ready THEN 0 ELSE 1) + IF copied THEN 0 ELSE 1)
  /\ IF c = {} THEN copied /\ pc' = "menu" /\ UNCHANGED <<sram, ram, pick>>
     ELSE \E s \in c :
            IF copied /\ ~s.torn
              THEN pc' = "restored" /\ sram' = s.id /\ ram' = s.ram /\ pick' = s.seq
              ELSE pc' = "menu" /\ sram' = 0 /\ UNCHANGED <<ram, pick>>
  /\ UNCHANGED <<disk, page, st, app, saves, ckpts, boots, history>>

\* A pinned target is used once
Consumed(adm) == adm.target.mode = "snapshot"

\* The rest of boot_restore_from_admin_target: the table is read again, the resume is
\* handed over and a pinned target replaced, whether that works or not
RestoreEnd(bad, bad2) ==
  LET adm == boot_admin_read_best(bad) IN
  /\ pc = "restored" /\ pick' = 0
  /\ (adm = None \/ ~Consumed(adm)) => bad2 = {}
  /\ IF adm = None
       THEN /\ Spend(Cardinality(bad)) /\ pc' = "menu"
            /\ UNCHANGED <<lba, page, sram, ram, report, blind>>
       ELSE LET resume == [kind |-> "resume", seq |-> pick, jstart |-> adm.jstart] IN
            IF Consumed(adm)
            THEN \E o \in boot_admin_update_target(Recent, bad2) :
                   /\ Spend(Cardinality(bad) + Cardinality(bad2) + o.cost)
                   /\ lba' = o.lba /\ report' = (IF o.rc = "ok" THEN "ok" ELSE "err")
                   /\ blind' = (blind \/ Saturated(bad2))
                   /\ IF o.rc = "off" THEN PowerLoss
                      ELSE page' = resume /\ pc' = "jump" /\ UNCHANGED <<sram, ram>>
            ELSE /\ Spend(Cardinality(bad)) /\ page' = resume /\ pc' = "jump"
                 /\ UNCHANGED <<lba, sram, ram, report, blind>>
  /\ UNCHANGED <<snaps, st, app, saves, ckpts, boots, asked, formatted, unfinished>>

-----------------------------------------------------------------------------
(* Application *)

\* Mutant: what was in RAM is kept if there is something
rwos_disk_init_once(ready, bad) ==
  IF ram.valid THEN {[lba |-> lba, ram |-> ram, rc |-> "ok", cost |-> 0, report |-> report]}
  ELSE {[lba |-> lba, ram |-> [valid |-> rwos_disk_read_best(bad) # None,
                               t |-> rwos_disk_read_best(bad)],
         rc |-> "ok", cost |-> 0, report |-> report]}

\* rwos_disk_init: the table is read into RAM; if neither copy can be, the card is
\* formatted.  The outcomes.
rwos_disk_init(ready, bad) ==
  LET t == rwos_disk_read_best(bad)
      l == auto_layout
      new == Table("RWDI", 1, l, l.start + l.blocks)
      Reads(r) == [lba |-> lba, ram |-> r, rc |-> "ok", cost |-> 0, report |-> report]
  IN IF ~ready THEN {Reads(NoTable)}
     ELSE IF t # None THEN {Reads([valid |-> TRUE, t |-> t])}
     ELSE IF l = None THEN {Reads(NoTable)}
     ELSE {[lba |-> o.lba, rc |-> o.rc,
            ram |-> IF o.rc = "ok" THEN [valid |-> TRUE, t |-> new] ELSE NoTable,
            cost |-> o.cost, report |-> IF o.rc = "ok" THEN "ok" ELSE "err"] :
             o \in write_both(new)}

\* main_cold_boot or rewind_resume_entry reads the table and the scheduler starts
AppStarts(started, ready, bad) ==
  \E o \in rwos_disk_init(ready, bad) :
    /\ Spend(Cardinality(bad) + o.cost + IF ready THEN 0 ELSE 1)
    /\ lba' = o.lba /\ report' = o.report
    /\ blind' = (blind \/ (ready /\ bad = Copies /\ lba # [c \in Copies |-> None]))
    /\ unfinished' = (unfinished \/ (lba' # lba /\ o.rc # "ok"))
    /\ st' = NoCard
    /\ IF o.rc = "off" THEN PowerLoss /\ UNCHANGED app
       ELSE /\ pc' = "app" /\ app' = started /\ page' = Clear
            /\ sram' = IF started.how = "resumed" THEN sram ELSE 0
            /\ ram' = o.ram
    /\ UNCHANGED <<snaps, pick, saves, ckpts, boots, asked, formatted>>

ResumeAsked == page.kind = "resume"

\* The checkpoint interval that the shell has handed over, if it has
boot_handoff_consume == IF page.kind = "cfg" THEN page.ckptint ELSE "default"

\* Reset_Handler without a resume: C start-up and main_cold_boot
main_cold_boot(ready, bad) ==
  /\ pc = "jump" /\ ~ResumeAsked
  /\ AppStarts([NotStarted EXCEPT !.how = "cold", !.ckptint = boot_handoff_consume],
                ready, bad)

\* Reset_Handler with a resume: rewind_resume_entry; an image of another build is
\* refused and the application starts cold
rewind_resume_entry(same_build, ready, bad) ==
  /\ pc = "jump" /\ ResumeAsked
  /\ AppStarts(IF same_build
                THEN [NotStarted EXCEPT !.how = "resumed", !.id = sram, !.seq = page.seq,
                                        !.jstart = page.jstart]
                ELSE [NotStarted EXCEPT !.how = "refused"],
                ready, bad)

\* rwos_disk_set_last_snap: RAM first, then both copies
rwos_disk_set_last_snap(seq) == [ram.t EXCEPT !.gen = NextGen(@), !.last = seq]

\* snapshot_write_one: the slot after the newest; it fails if the image does not fit
\* or the card goes wrong (whole is false), and the failure of the table is ignored
SaveSnapshot(whole) ==
  LET t == ram.t
      best == boot_snapshot_scan(t)
      slot == IF best = <<>> THEN 0 ELSE (best[1].slot + 1) % t.slots
      seq == IF best = <<>> THEN 1 ELSE best[1].seq + 1
      at == SlotLba(t, slot)
      fits == PayloadBlocks <= t.per - 2
  IN
  /\ pc = "app" /\ ram.valid /\ snapshot_layout_valid(t)
  /\ saves < MaxSnapshots /\ saves' = saves + 1
  /\ IF ~fits \/ ~whole
       THEN /\ Spend(IF whole THEN 0 ELSE 1)
            /\ snaps' = Overwritten({Span(at, IF fits THEN at + PayloadBlocks ELSE at)})
            /\ \/ UNCHANGED <<page, sram, pc, ram>>
               \/ ~whole /\ PowerLoss
            /\ UNCHANGED <<lba, report, blind>>
       ELSE /\ snaps' = Overwritten({Span(at, at + PayloadBlocks), Span(at + t.per - 1, at + t.per - 1)})
                         \cup {[lba |-> at, per |-> t.per, slot |-> slot, seq |-> seq,
                                id |-> saves', torn |-> FALSE, ram |-> ram]}
            /\ \E o \in write_both(rwos_disk_set_last_snap(seq)) :
                 /\ Spend(o.cost) /\ lba' = o.lba
                 /\ report' = (IF o.rc = "ok" THEN "ok" ELSE "err")
                 /\ IF o.rc = "off" THEN PowerLoss
                    ELSE ram' = [ram EXCEPT !.t = rwos_disk_set_last_snap(seq)]
                         /\ UNCHANGED <<page, sram, pc>>
            /\ blind' = (blind \/ t.gen = GenMax)
  /\ UNCHANGED <<st, pick, app, ckpts, boots, asked, formatted, unfinished>>

\* A task checkpoint is written to the checkpoint slot i (terminal.c), wherever that
\* lies in the layout
SaveCheckpoint(i) ==
  /\ pc = "app" /\ ckpts < MaxCkpts /\ ckpts' = ckpts + 1
  /\ snaps' = Overwritten({Span(2080 + 16 * i, 2080 + 16 * i + 15)})
  /\ UNCHANGED <<lba, page, sram, pc, st, pick, ram, app, saves, boots, faults, history>>

\* The reboot command, or the reset button while the application starts: RAM stays
Reset ==
  /\ pc \in {"app", "jump"} /\ pc' = "reset"
  /\ UNCHANGED <<disk, page, sram, st, pick, ram, app, counts, history>>

PowerCut ==
  /\ pc # "reset" /\ PowerLoss
  /\ UNCHANGED <<disk, st, pick, app, counts, history>>

-----------------------------------------------------------------------------
Init ==
  /\ lba = [c \in Copies |-> None] /\ snaps = {}
  /\ page = Clear /\ sram = 0 /\ pc = "reset" /\ st = NoCard /\ pick = 0
  /\ ram = NoTable /\ app = NotStarted
  /\ saves = 0 /\ ckpts = 0 /\ boots = 0 /\ faults = 0
  /\ asked = Fresh /\ report = "ok" /\ blind = FALSE /\ formatted = 0
  /\ unfinished = FALSE

Next ==
  \/ \E ready \in BOOLEAN, bad \in SUBSET Copies, yes \in BOOLEAN :
       \/ boot_main(ready, bad, yes) \/ Restore(ready, bad, yes)
       \/ rewind_resume_entry(yes, ready, bad)
  \/ \E ready \in BOOLEAN, bad \in SUBSET Copies :
       Refresh(ready, bad) \/ main_cold_boot(ready, bad)
  \/ \E bad \in SUBSET Copies : MenuRecent(bad) \/ MenuFresh(bad)
  \/ \E rank \in 1 .. 3, bad \in SUBSET Copies : MenuSnapshot(rank, bad)
  \/ \E bad, bad2 \in SUBSET Copies : RestoreEnd(bad, bad2)
  \/ \E slots \in SlotChoices, bad, bad2 \in SUBSET Copies : \E zeroed \in 0 .. slots :
       SetupFormat(slots, bad, zeroed, bad2)
  \/ MenuSetup \/ EnterShell
  \/ (\E n \in ckpt_sectors : ShellFormat(n)) \/ (\E v \in Intervals : ShellBoot(v))
  \/ (\E whole \in BOOLEAN : SaveSnapshot(whole)) \/ (\E i \in 0 .. 1 : SaveCheckpoint(i))
  \/ Reset \/ PowerCut

Spec == Init /\ [][Next]_vars

-----------------------------------------------------------------------------
(* Properties *)

TargetsPossible == {Recent, Target("fresh", 0, 0)}
                   \cup {Target("snapshot", i, q) : i \in 0 .. 63, q \in 1 .. MaxSnapshots}

\* What a copy of the table says, as the application reads it: all but the generation
Unformatted == [start |-> 0]
Says(b) ==
  LET t == rwos_disk_parse(b) IN
  IF t = None THEN Unformatted
  ELSE [jstart |-> t.jstart, jblocks |-> t.jblocks, start |-> t.start, slots |-> t.slots,
        per |-> t.per, blocks |-> t.blocks, rwfs |-> t.rwfs, target |-> t.target,
        last |-> t.last]

TableTypeOK(t) ==
  \/ t = None
  \/ /\ t.fmt \in {"RWDI", "RWSS"} /\ t.gen \in 1 .. GenMax
     /\ t.last \in 0 .. MaxSnapshots /\ t.target \in TargetsPossible
     /\ (t.fmt = "RWSS") = (t.rwfs = 0)

\* Every variable has its type
TypeOK ==
  /\ \A c \in Copies : TableTypeOK(lba[c])
  /\ \A s \in snaps : s.id \in 1 .. saves /\ s.seq \in 1 .. MaxSnapshots /\ s.torn \in BOOLEAN
  /\ pc \in {"reset", "menu", "setup", "forced", "shell", "restore", "restored", "jump", "app"}
  /\ page.kind \in {"clear", "resume", "cfg"}
  /\ sram \in 0 .. saves /\ pick \in 0 .. MaxSnapshots
  /\ ram.valid \in BOOLEAN /\ TableTypeOK(ram.t) /\ Len(st.list) <= 3
  /\ faults \in 0 .. MaxFaults /\ report \in {"ok", "err"} /\ blind \in BOOLEAN

\* The application and the boot menu, which break ties between the copies in opposite
\* ways, take the same copy for the newest, after any failed update and crash.
ReadersAgree ==
  blind \/ Says(rwos_disk_read_best({})) = Says(boot_admin_read_best({}))

\* Every table on the card, whichever program wrote it, is one both programs accept:
\* table, journal, snapshot slots and files do not overlap and lie on the card.
LayoutsFit ==
  \A c \in Copies : LET t == rwos_disk_parse(lba[c]) IN
    t # None =>
      /\ boot_snapshot_layout_valid(t) /\ snapshot_layout_valid(t)
      /\ 2 < t.jstart /\ t.jstart + t.jblocks <= t.start
      /\ t.start + t.slots * t.per <= t.rwfs /\ t.rwfs < card

\* The application resumes if the user of the menu asked for it, and then the save
\* that the menu showed, even if copies of the table cannot be read on the way; which
\* one is certain as long as no format has failed half-way, since then the two copies
\* may have different slots.
ChoiceHonoured ==
  pc = "app" => \/ /\ app.how = "resumed" /\ asked.how \in {"recent", "snapshot"}
                   /\ unfinished \/ app.id = asked.id
                \/ app.how = "cold" /\ asked.how = "fresh"
                \/ app.how = "refused" /\ asked.how # "fresh"

\* The journal area that the boot menu hands over is the one of the table that the
\* application then uses.
JournalAreaAgrees ==
  (pc = "app" /\ app.how = "resumed" /\ ram.valid /\ ~blind) => app.jstart = ram.t.jstart

\* One table for both programs, with areas that fit the card.
TableSound == TypeOK /\ ReadersAgree /\ LayoutsFit /\ JournalAreaAgrees

\* A configuration given in the boot shell reaches the application started by that
\* command, and no later one, although both hand-offs use the same page.
ConfigArrives ==
  (pc = "app" /\ app.how # "no") => app.ckptint = asked.ckptint

\* boot_terminal.c: "Zero the header block of every snapshot slot so stale data from a
\* previous format is not mistaken for a valid snapshot": what is resumed was saved
\* after the last format that was reported as done.
FormatForgets ==
  (pc = "app" /\ app.how = "resumed" /\ ~blind) => app.id > formatted

\* So it is unless a later format failed half-way.
DoneFormatForgets == ~unfinished => FormatForgets

\* The application starts as the user of the boot menu told it to.
StartSound == ChoiceHonoured /\ ConfigArrives /\ DoneFormatForgets

\* docs/snapshot.md: "Keep storage layout deterministic and format-enforced", and
\* "publish snap_seq only after payload + commit marker are durable": while nothing
\* goes wrong, a snapshot at least as new as the one the table names can be restored.
AnnouncedIsRestorable ==
  (pc = "app" /\ ram.valid /\ ram.t.last # 0 /\ faults = 0) =>
    \E s \in ValidSlots(ram.t) : s.seq >= ram.t.last /\ ~s.torn

\* The two copies implement one register
Register ==
  INSTANCE TableRegister WITH
    Formats <- {Says(Table("RWSS", 1, boot_snapshot_layout_compute(n), 0)) :
                  n \in {k \in SlotChoices : boot_snapshot_layout_compute(k) # None}}
               \cup {Says(Table("RWSS", 1, l, 0)) : l \in {auto_layout} \ {None}},
    Targets <- TargetsPossible,
    Seqs <- 0 .. MaxSnapshots,
    Unformatted <- Unformatted,
    value <- Says(lba["B"]),
    doubt <- {Says(lba["A"])} \ {Says(lba["B"])}

\* The copies of the disk table, read and written by two programs with failed writes and
\* power loss, are one register: no update is lost once it is reported, and at most
\* the last failed one is in doubt.
RegisterSpec == Register!Spec
=============================================================================
