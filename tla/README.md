# A TLA+ model of RewindOS

RewindOS is a cooperative operating system for an STM32F7 board. One core runs
active objects (AOs) from a run-to-completion loop; interrupt handlers post events
to them. Its purpose is to survive power loss: it saves snapshots of its memory,
checkpoints of single tasks, user files and a journal of the input on an SD card,
and goes back to them at boot. The models follow the places where such a system
goes wrong: interleavings of thread code and interrupts, sequences of sector writes
of which any may fail or be the last one, and state that one part keeps about
another across a reset.

Paths below are relative to the repository (`src/...` is `src/src/...` here).

## 1. Inventory

| component | state | operations | interacts with |
|---|---|---|---|
| **scheduler** `src/scheduler/scheduler.c` | AO table, accept flags, event rings, `ready_bitmap`, `rr_cursor` | register, unregister, post (thread, ISR), pause/resume, flush, `sched_run` | every task calls it; USART6, SDMMC1 and SysTick handlers post through it |
| **snapshot task** `src/scheduler/snapshot_task.c` | `busy`, `step_pending`, `next_tick`, slot ring on the card | periodic and manual trigger, quiesce, write header, payload, commit | disk table, journal, boot menu |
| **boot menu and hand-off** `src/bootmenu/boot_terminal.c`, `src/kernel/boot_handoff.c`, `src/common_io/rewind_restore.c`, `src/terminal/main.c` | disk table, restore target, hand-off page in RAM | scan, choose, set up, restore payload, jump, cold boot, resume | reads the slots the snapshot task wrote |
| **disk table** `src/common_io/rwos_disk.c` | two copies of the table, copy in RAM | init/format, set last snapshot | boot menu, snapshots, journal, RWFS |
| **task checkpoints** `src/terminal/terminal.c` (`ckpt_*`), `src/kernel/restore_loader.c`, `restore_registry.c` | two slots on the card, sequence number, launch and exit counts | save, load from the shell, load at boot | asks tasks for their state, launches them again |
| **file store (RWFS)** `src/common_io/rwfs.c` | two superblocks, index, data area; copies in RAM | mount/format, atomic save, read, list | line editor |
| **journal** `src/common_io/journal.c` | ring of records, pending bytes, base of the last snapshot | capture, flush, scan tail, replay | UART receive path, snapshots |
| **UART and console** `src/drivers/uart/uart_async.c`, `src/scheduler/console_task.c` | receive and transmit rings, `rx_event_pending`, message slots | ISR, putc/getc, kick, dispatch | terminal, journal |
| **line input** `src/common_io/lineio_async.c` | line, history, escape and end-of-line state | a byte, an idle line | terminal, journal replay |
| **SD request queue** `src/scheduler/sd_task.c`, `src/drivers/sd/sd_async.c` | current operation, driver state, event queue | start, interrupt, completion and error events | keeps journal, snapshots and RWFS off the card |
| **terminal** `src/terminal/terminal.c` | command mailbox, owner of stdin | commands, foreground and background tasks, kill | launches all tasks |
| **counter, snake, assembly line** `src/scheduler/*_task.c` | their own state and a restore envelope | start, tick, key, stop, get/restore state | checkpoints, terminal |
| drivers, startup, parsers | registers; pure functions | | |

Hard behaviours:

* *Interrupts and thread.* Interrupts are masked only inside `eq_push`, `eq_pop`,
  `eq_drain` and around single accesses to the UART rings. `ready_bitmap` is read,
  changed and written back without protection; interrupts nest.
* *Power loss and failing sectors.* Snapshots (hundreds of sectors), checkpoints
  (three steps), saves (header, payload, tail, index, two superblocks), the mirrored
  disk table and the journal's records are written piece by piece. A failed write and
  a power loss differ: after a failure RAM goes on with its counters.
* *Failing reads.* Every scan takes what it cannot read for absent.
* *State that outlives its subject.* The owner of stdin, pending ticks, mailbox slots
  and the SD task's operation are kept by one part about another, and a snapshot
  freezes them; the hand-off page survives a reset.
* *Two programs, one card.* Boot menu and application each have their own reader and
  writer of the disk table, and break ties in opposite ways.
* *Limits.* Queues, rings, slots, record numbers and generations wrap or saturate.
* *Liveness.* Strict priority with round-robin among peers; wakeups from interrupts.

What makes each component correct: a ready AO has work and an AO with work becomes
ready (scheduler); an image that is restored is one image, and the newest one
(snapshots); what the user chose is what is started, and both programs see one table
(boot menu, disk table); a task comes back if and only if it was running at the newest
checkpoint (checkpoints); a save is atomic (RWFS); replay neither loses nor repeats
input (journal); no byte waits forever, none is lost or reordered (UART, console); a
line is submitted once (line input); nobody waits for a transfer that is not there
(SD queue); stdin is with a program that reads it, and a restored program is in a
state it can go on from (terminal, tasks).

## 2. Modules

Modules are named after the component, definitions after the code wherever TLA+
allows. Definitions whose comment says *Mutant* are deliberately wrong variants of the
definition next to them; they are used only to see that a property would notice.

### EventQueue, EventChannels, Scheduler (scheduler.c)

`EventQueue` has the ring buffer `event_queue_t` as a record and `eq_init`, `eq_push`,
`eq_pop`, `eq_drain` as operators on it. `EventChannels` is the abstract promise:
bounded first-in first-out channels, whose sender or discarder may be anyone.

`Scheduler` has one thread and a set of interrupt handlers.

| model | code |
|---|---|
| `registered`, `accept`, `q`, `ready`, `rr` | `table`, `AO_FLAG_ACCEPT_EVENTS`, `ao->q`, `ready_bitmap`, `rr_cursor` |
| `tpc` and `cur`, `ev`, `scanId`, `best`, `arg`, `reg` | where the thread is, and locals of `sched_run`, the two scans and the calls |
| `ipc`, `iarg`, `ireg` | the same for each interrupt handler |
| `ScanStep`, `ScanEnd`, `Wake`, `PickStep`, `Pop`, `DoneCheck/Load/Store` | `sched_run`, one step for each access to shared state |
| `SchedPost`, `SchedRegister`, `SchedUnregister`, `SchedPauseAccept`, `SchedResumeAccept`, `SchedFlushAll` and the steps they end in | the API, called by a handler or by `main` before the loop |
| `IsrPost`, `IsrLoad`, `IsrStore` | `sched_post_isr` in an interrupt handler |

`IsrRuns(i)` is the hardware's rule: the thread moves only when no handler is active,
a handler only when none of higher NVIC priority is. A handler makes up to `MaxOps`
scheduler calls per step; which ones is a free choice, so every task of the
repository is one of those covered. `high_watermark`, `dropped`,
`events_handled` and the tick statistics are left out.

### SnapshotSlots (snapshot_task.c, boot_terminal.c)

`slot[i]` has the sequence numbers of header and commit sector and, for each payload
sector (PAY0; RGS0, data, RGE0 of each region; PAYE), the number of the save that
wrote it. `SaveBegin` is the scan and the choice of slot and number, `WriteHdr`,
`WritePayload` (a sector at a time), `WriteCommit` and `WriteTable` the rest of
`snapshot_write_one`. `SlotsReset`, `BootFresh` and `BootRestore(want, bad, unread)` are
the boot menu: choice by slot or "recent", a set `bad` of slots with an unreadable
sector, and a payload that becomes unreadable during the copy.

### Checkpoint (terminal.c, restore_loader.c)

`Launch`, `Start`, `Exit` are the life of a task as the scheduler's table shows it;
a task counts as running from its registration, but has state to save only from its
start event on (`active`). `SaveBegin` is `terminal_ckpt_save_sd_once` up to the first
write: counting launches and exits against `prev`, the early return when there is
nothing to save, seeding and using up the sequence number. `WriteHead`, `WriteBody`,
`WriteCommit` write the slot; `Load`, `LoadNone`, `BootLoad`, `BootPlain` restore it.
One `sd_write_blocks` call writes the PENDING header and the body; it is two steps
because power may fail in between.

### Rwfs (rwfs.c)

Card sectors `superA`, `superB`, `index`, `data`; copies in RAM `sup`, `entries`
(which has more entries than the index has room for, as in the code). A call begins
with `Mount(bad)`, formats (`FormatIndex`, `FormatSuperA`, `FormatSuperB`) if there is no
superblock or the one that wins is of another layout of the card, and goes on as `SaveBegin`, `WriteHdr`, `WritePayload`, `WriteTail`,
`WriteIndex`, `WriteSuperA`, `WriteSuperB`, or ends in `MountOnly`. `rwfs_read_all`
is an operator: it changes nothing after its mount, so the properties evaluate it in
every state between two calls. Contents are short sequences; a checksum is modelled
by what it is taken of.

The disk table does not change during a behaviour. The superblocks' field `ours` says
that they agree with it (`rwfs.c:395`): the region starts where the table says and is no
bigger. Initially the card may hold any mixture of invalid superblocks and index entries
with those of another layout (`OldSuper`, `OldEntry`, generations in `OldGenerations`).
So a format may be interrupted between its two superblocks while the other one still has
a higher generation, and the next mount formats again.

### CounterTask, SnakeTask, AssemblyLineTask, Programs (the tasks, terminal.c, main.c)

The three task modules have the contexts of the programs as records and their handlers
as operators: `counter_step`, `snake_tick`, `snake_turn`, `line_complete_pending_op`
and so on, the validation that encoder and decoder use, and the restore operations.
`WordMod` stands for 2^32. The random number behind the food is any start cell.

`Programs` puts them behind one interface and adds what runs them. `ram` is all that
SRAM holds, so that a snapshot is a copy of it and a resume (`ResumeRam`) is what
`main.c` makes of a copy: empty queues, hooks bound again, flags cleared.

| model | code |
|---|---|
| `SysTick(due)` | the tick hooks, with any set of timers that have run out |
| `Dispatch(p)` | a program's handler: start, key or tick |
| `TypeLine`, `TypeKey`, `CtrlC`, `TtyEnd` | the terminal's handler, byte routing by `stdin_owner`, the mailbox |
| `CmdStart`, `CmdKill`, `CmdSnapnow`, `CmdCkptSave(Sd)`, `CmdCkptLoad(Sd)`, `CmdRestoreSim` | the commands of the shell that start, kill, save or restore |
| `SnapshotBegin`, `SnapshotEnd` | `snapshot_task.c`: `busy`, `step_pending`, triggers that come meanwhile |
| `ColdBoot`, `Resume` | `main`, `rewind_resume_entry` |

### ShellInput, UartConsole (lineio_async.c, uart_async.c, console_task.c)

`ShellInput` has the line editor as operators on a record: characters, backspace,
escape sequences, history, CR, LF and CR LF. `UartConsole` has the hardware's
registers (`hw`), both rings, the console's slots and queue. `USART6_IRQHandler` is
one action and may happen between any two steps of a handler; `ConsolePut`,
`ConsoleSeesFull`, `ConsoleReturns` and `TerminalByte`, `TerminalSeesEmpty`,
`RxEventFinish` are the steps of the handlers between which it matters. Printed
characters are numbered when the console accepts them. A command prints a prompt, or
starts a program or an SD request (`progs`) that posts `REPRINT_PROMPT` when it ends.

### TableRegister, BootDisk (rwos_disk.c, boot_terminal.c, boot_handoff.c, main.c)

`BootDisk` has both formats of the disk table with their parsers, the two readers
(`rwos_disk_read_best`, `boot_admin_read_best`), the mirrored write (`write_both`), and
the layouts computed with the code's own constants from the size of the card.
`boot_main`, `MenuRecent`, `MenuSnapshot`, `MenuFresh`, `MenuSetup`, `SetupFormat`,
`EnterShell`, `ShellFormat`, `ShellBoot`, `Restore`, `RestoreEnd` are the boot menu;
`main_cold_boot`, `rewind_resume_entry`, `SaveSnapshot`, `SaveCheckpoint` the
application. The hand-off page is one variable for both kinds of hand-off, as in the
code. `TableRegister` is the abstract promise: one register, in which only the last
failed update can be in doubt.

### SdQueue, Journal (sd_task.c, sd_async.c, journal.c)

`SdQueue` has the SD task and the driver as operators on one record. `Journal` has the
ring on the card, `g_journal`, the terminal as far as the journal sees it (the line
editor of `ShellInput`, a game that takes stdin, the mailbox), the SD queue that keeps
the journal off the card, snapshots by number, power losses in a record (`TornAppend`)
and in a snapshot (`TornSnapshot`), `ColdBoot` and `Resume`, which replays. A boot
takes the number of blocks that the scan and the replay can read.

### Composition

`Programs` composes the tasks with terminal, snapshot trigger and restore loader;
`UartConsole` composes UART, console, line editor and mailbox; `Journal` composes
journal, line editor, SD queue and snapshots; `BootDisk` composes boot menu,
application and disk table. Where two modules have the same component they have the
part that matters to each: the slots are sectors in `SnapshotSlots`, spans of sectors
in `BootDisk`, numbered images in `Journal` and copies of `ram` in `Programs`. The
scheduler's model leaves open what handlers do; the others use its proved facts
(strict priority, first-in first-out, run to completion).

## 3. Runs

| run | question | result |
|---|---|---|
| `Scheduler_safety` | three AOs, two nested interrupt handlers, all calls: does a ready bit mean work, is the picked AO there, does the second scan find what the first one saw, is priority strict, does round-robin starve a peer? | holds, nobody starves |
| `Scheduler_windows` | two AOs, two nested handlers that post anywhere but in the windows of `InWindow`: is a wakeup ever lost, are the queues first-in first-out? | none lost, yes |
| `Scheduler_lost_wakeup` | is a wakeup lost when interrupts post? | **violated** |
| `Snapshot_ring` | three slots, six saves, three failing or last writes: torn images, "recent", retention, disk table, restores | holds |
| `Checkpoint_faults` | power losses and errors at every sector group: is the best slot the right one, do the right tasks come back? | holds, partly as long as no write returned an error |
| `Rwfs_faults` | two failing or last writes, two failing reads: atomicity outside the gap and append-only (while reads work); does a read ever return old or foreign content? | holds |
| `Games` | a user who waits for the prompt, all keys, timers, Ctrl-C: do the games keep their books, is stdin with a program that reads it, does every program go on? | holds |
| `Programs` | commands typed ahead, checkpoints, simulated restores, snapshots, boots: mailbox, snapshot trigger, dead owners of stdin, restored states | holds |
| `UartConsole` | interrupts between any two steps, full rings and queues, resumes: order and loss of output, input left unread, lines split over events, the wait of `reboot` | holds |
| `BootDisk` | failing writes, unreadable copies, power losses over three boots: is the table one register, is the user's choice what is started? | holds |
| `BootDisk_overlap` | does a checkpoint leave the announced snapshot alone on a card formatted by the application? | **violated** |
| `Journal` | snapshots, SD requests, torn records, resumes over a wrapping ring: order of the ring, what a replay rebuilds, the SD task | holds |

Properties whose name ends in *Sound* (and `BestIsRight`) are conjunctions of named parts
that belong together; each part has its own comment. The parts most worth knowing:

* `ImagesSound`: a slot that would be restored holds one image, and a boot restores the
  image asked for. `RecentIsNewest`, `Retention`: also in the middle of a save.
* `StartSound`: the application resumes the save the user chose, or starts cold if that
  was the choice, with the configuration typed in that boot, and never a save from
  before the last format, unless a format has failed half-way (`unfinished`). `TableSound`: both programs take the same copy, every table
  on the card is accepted by both, and the areas do not overlap. `RegisterSpec`: the
  two copies implement `TableRegister`.
* `ReplayRebuilds`: resuming any snapshot that the journal covers, however many
  sessions ago, gives the line, the history and the owner of stdin of the moment the
  last byte reached the card. Which snapshots those are is a history variable
  (`ghost.complete`), emptied where the code drops input on purpose or by mistake.
* `OutputInOrder`: what the console accepted is, in order and without a gap, on the
  wire, in the registers, in the ring and in the slots. `ConsoleDrains`,
  `InputIsRead`, `RebootHappens`: nothing of it stays there.
* `StdinSound`: the owner of stdin reads it or has its start event queued, and a
  running game is the owner. `NoStaleGameOwner`: without any discipline of the user.
* `SnakeMoves`, `LineOpEnds`, `CounterEnds`: a tick marked as pending never gets lost.

The two violations (`findings` in PROJECT.json quotes the document each contradicts):

* `ready_bitmap &= ~bit` in `sched_run` overwrites the bit that an interrupt sets
  between the test of the queue and the store: the event stays until the next post.
* Task checkpoints lie at fixed sectors (from 2080), snapshot slots where the table
  says. On a card that `rwos_disk_auto_format` formatted, a checkpoint overwrites the
  commit sector of slot 2 and the header of slot 3.

### What the same models show under other constants

Each of these is a limit of a passing run: the property fails when the excused case is
let in.

* Snapshots. `NoTornImage` fails when a slot is unreadable while a save chooses its
  slot (`MaxReadFaults = 1`, `snapshot_task.c:695`): slot and number of the latest
  snapshot are used again, although `docs/snapshot.md:240` relies on interrupted
  writes being recognised; and for `SlotCount = 1` with two write faults. A failed
  restore returns to the menu with SRAM partly overwritten; the next newest candidate
  of `docs/snapshot.md:349` is not tried (`boot_terminal.c:1138`).
* Checkpoints. Without `errors = 0`, `BestIsNewest` and `NoResurrection` fail: a write
  that returned an error has used up the number whose parity selects the slot
  (`terminal.c:836`, against `docs/architecure_v2.md:38`) and has counted an exit that
  was not written (`terminal.c:787`, against line 468). `SavedIsBest` fails for
  `MaxReadFaults = 2`: a checkpoint taken when no slot is readable restarts at 1.
* RWFS. `AtomicSave` fails in the gap: the index is written before the superblock that
  reserves the space (`rwfs.c:542`, against `docs/userspace_fs_lineed.md:143`), and
  after two read faults, since a mount that can read neither superblock formats.
* Programs. `StdinSound` fails with `TypeAhead`: a second `snake` or `counter n` typed
  ahead resets the running program and leaves an owner that only Ctrl-C removes;
  `counter n` followed by `counter n &` or `ckptload` leaves a stale counter as the
  owner, and the terminal's region of `restoresim` takes stdin from a counter. It also
  fails for a user who waits, in two cases. A snapshot taken between a start command and
  the handling of its `START` is resumed with the program as the owner and its queue
  flushed. And `counter n` while a counter restored into the background runs: the
  registration keeps the running counter, the command takes stdin for it, the `START` is
  ignored as busy (`counter_task.c:216`), and at its end a background counter does not
  give stdin back (`counter_task.c:199`). Mailbox slots in use in an image are not
  given back after a resume, and a counter resumed with a pending step does not go on.
* UART. Bytes that arrive between `uart_async_init` and the registration of the
  terminal wait for the next byte. An LF that comes after a CR and an idle time submits
  an empty line. `reboot` waits until "all pending console output reaches the
  terminal" (`terminal.c:1354`), but the console's slots are not drained, so their text
  is lost.
* Disk table. At the limit of the generation, and after a table written without sight of
  the one before (both `blind`), the two programs may read different copies; an
  auto-format leaves old slot headers, which a later boot takes for snapshots.
  `FormatForgets` fails without the exception `unfinished` when the menu has two slot
  counts (`SlotChoices = {2, 3}`, five boots, one fault): a format writes the disk table
  first and zeroes the slot headers after it (`boot_terminal.c:1940`, against the comment
  at line 1944, "so stale data from a previous format is not mistaken for a valid
  snapshot"), and it zeroes only the slots of its own layout. Two saves with two slots, a
  completed format with three, a format with two whose header write fails: the next boot
  offers a save from before the completed format.
* Journal and SD. `suppress_rx_bytes` keeps as many live bytes out of the journal as
  were replayed; commands in the replayed input run again; a game started after the
  snapshot is not there at replay and its keys go to the shell; a start without a disk
  table does not scan and overwrites records; a torn block in a full ring, and a scan
  that cannot read a block, leave the ring out of order until it is rewritten
  (`ghost.skew`); a flush that fails in `journal_note_snapshot_seq` lets its bytes be
  replayed on top of the image. After `sdinit` or a failed snapshot in the middle of an
  asynchronous read, the SD task answers "busy" for ever (`ghost.cut`); and after a
  completed read the driver keeps its operation, so journal, snapshots and RWFS refuse
  to run until the next `sd_async_init`.

### Bounds, and why they are enough

`MaxOps` bounds the calls of one run-to-completion step; steps repeat without bound,
so longer call sequences arise over several steps. Queue capacities are 1 and 2 (a
ring that is always full or empty, and one that wraps). Three AOs give two peers and one
of another priority; two nested handlers give an interrupted interrupt. The scheduler's
state space is finite without further bounds.

Snapshots: six saves go twice around three slots; three faults allow a fault in three
different saves. Checkpoint: four saves go twice around two slots; three launches of
two tasks let a task be launched again after it ended. `CountMod` stands for 2^16 and
is not reached. Rwfs: eight blocks hold two records, so the area fills; three names
meet two indexed and one unindexed entry; superblocks of another layout have generation
1 or 2, so they tie with those of a format or win over them. File names and tasks are symmetric: nothing
in the modules tells one from another.

Games: a board of 4 by 2 lets the snake eat, grow, turn in a U and fill its way; two
parts give one that passes and one on the fixture; play goes on without bound, with
two starts, so that one program follows another. Programs: three lines pass the two
mailbox slots and wrap the cursor; one snapshot and one boot give every order of save,
change and restore. Its VIEW leaves the image out once no boot is left to use it,
where it can influence nothing and no invariant mentions it. Snake is left to `Games`
there, since the games differ only in their own steps.

UartConsole: rings of one byte, two slots, a console queue of two and a terminal queue
of three, with one program (`MaxPrograms`) and one resume (`MaxResumes`) that post
prompts to it, make every place full that the code can fill;
the inputs are a line with CR LF, whose two bytes may be split over events and idle
times, two CR before a character, the reboot command, and a byte with a framing error.
BootDisk: the card has 65536 sectors, enough for both layouts; three snapshots, one
checkpoint, three boots and two faults allow a fault while a fault's effect is still
there; `GenMax` is reached. `Intervals` has one value, as nothing distinguishes
values. Journal: three blocks and `SeqWrap` 6 make ring and numbers wrap at different
places; two snapshots and two boots let an old snapshot be resumed in a later session.

Deadlock is checked except where a bound on starts, inputs or boots is the only reason
for the end: Games, Programs, UartConsole (which also ends in a reset), BootDisk,
BootDisk_overlap, Journal.

### Fairness

Scheduler. `SF(Thread)`: the thread runs again and again whenever interrupts leave it
enabled infinitely often; the hardware executes the thread whenever no handler is
active, and handlers take microseconds at the rates the board sees. Weak fairness
would be too weak, since handlers disable the thread again and again.
`WF(IsrRun(i))`: an interrupt handler, once entered, ends. Nothing is assumed about
when interrupts occur, nor that a handler ever posts. Under strict priority the
liveness property can only be about the highest priority; lower ones may legitimately
starve.

Programs (`FairSpec`, run `Games`): SysTick occurs and timers run out (hardware);
a ready program and a snapshot are dispatched (the scheduler, by the property above);
a terminal handler ends. Nobody has to type.

UartConsole: the transmitter transmits, a pending interrupt is taken (hardware), and
handlers go on. No byte has to arrive.

## 4. Theorems

TLAPS checks what follows for every value of the constants that the named assumptions
allow; the runs evaluate the assumptions. Each `...Proofs` module has the inductive
invariant first, then the lemmas about operators, then one lemma for each action or
group of actions, then the theorems.

| module | theorem | states | hypotheses |
|---|---|---|---|
| SchedulerProofs | `TypeCorrect`, `ReadyBitsCorrect`, `DispatchCorrect`, `PickCorrect`, `PriorityCorrect` | `TypeOK`, `ReadyHasWork`, `PickedCanRun`, `PickFindsOne`, `StrictPriority` | none |
| | `FifoCorrect` | refinement of `EventChannels` | none |
| | `ThreadPostsSeen` | no sleep with an event for an AO that only thread code posts to | none |
| | `LostInWindowsOnly` | `IdleMeansNoWork` | `[][PostsOutside(AO)]_vars`: no handler posts in a window |
| CardProofs | `SlotsNeverTorn`, `RecentNeverLost`, `RingRetains`, `PublishedAfterDurable` | `ImagesSound`, `RecentIsNewest`, `Retention`, `PublishedIsDurable` | `Setting`: readable sectors, `SlotCount > 1` |
| | `OneTable`, `StartsAsTold` | `TableSound`, `StartSound` | none |
| | `OneRegister` | refinement of `TableRegister`: `RegisterSpec` | none |
| CheckpointProofs | `LoadBringsBackAll` | `LoadRestoresAll` | `NoWrap`: fewer saves than a count can hold |
| | `BestSlotIsRight`, `EndedStaysEnded` | `BestIsRight`, `NoResurrectionDespiteCrashes` | `AllReadable`: no failing reads |
| RwfsProofs | `ReadsAreSound`, `SavesAreAtomic`, `DataIsAppendOnly` | `StoreSound`, `AtomicSaveOutsideGap`, action property `AppendOnly` | none |
| ProgramsProofs | `MailboxIsSound`, `TriggerNeverStuck`, `GamesGiveStdinBack`, `RestoredIsSound`, `LineIsSound`, `SnakeIsSound` | `CommandsSound`, `SnapshotTriggerLive`, `NoStaleGameOwner`, `RestoredSound`, `LineSound`, `SnakeSound` | none |
| | `StdinWithItsReader` | `StdinSound` | `~TypeAhead`; `FreshSession`: not resumed, no foreground counter started over a restored background one |
| JournalProofs | `RingStaysInOrder`, `SdNeverStuck` | `RingsSound`, `SdSound` | none |
| UartProofs | `NoReceivedByteForgotten`, `OutputStaysInOrder`, `TypedLines` | `ReceiveSound`, `OutputInOrder`, `LinesAsTyped` | none |

The hypotheses are the limits that section 3 shows with TLC, and nothing more.
`LostInWindowsOnly` bounds the loss that `Scheduler_lost_wakeup` shows: handlers may post
to any AO and nest, and a wake-up is lost only if one of them posts while the code that
it interrupts is in a window. `InWindow(x)` lists them: between load and store of
`ready_bitmap` in `sched_post` (of another AO), in `sched_unregister`, in the clearing of
a bit by `sched_run`, or in a handler of lower urgency; after the drain of
`sched_flush_all` and before its store; and between the test for an empty queue of x in
`sched_run` and its load. None is superfluous: with any of the six left out, TLC finds a
lost wake-up. The hypothesis is about when interrupts come, which the code does not
control: the theorem says what would have to be masked. `ThreadPostsSeen` needs no such
hypothesis and says for whom the loss can be: only AOs that interrupts post to. `Setting` is there because a torn image appears with one slot,
or when a read fails while a save chooses its slot. `AllReadable` is there because two
unreadable slots restart the sequence at 1. `NoWrap` is there because the counts of
launches have 16 bits.

### Scheduler

Assumptions: `ConstantsAssumption` (ranges) and `IsrAssumption`: two handlers differ in
NVIC priority and in the AOs they post to, as `nvic.c` and the callers of
`sched_post_isr` have it.

`ReadyHasWork` is not inductive: the bitmap a step stores was loaded earlier. `ReadyInv`
adds `LoadedHasWork` (each bit of a bitmap held in a register, of the thread or of a
handler, promises the same as one in memory), `PostedHasWork` (the AO whose bit is about
to be set is registered and has an event: only the thread pops, drains or unregisters,
and it does not run while a handler is active) and `PickedCanRun`. The arithmetic of the
rings comes first: each operation keeps the ring and does to `Contents` what the channel
does.

The two scans need a second invariant, `ScanInv`. A bit in `ready_bitmap` may be lost
when a handler that loaded it earlier stores it back, so "was set" is not enough; but a
bit the thread has seen is `Held`: set, and in every bitmap a handler is about to store,
because handlers load after the thread stopped. `ScanInv` says that `highest_ready_prio`
has a held witness for its result, that the candidates `pick_ready_rr` has not looked at
include that witness, and that everything ready at the start of the scan is covered.

`LostInWindowsOnly` and `ThreadPostsSeen` use `SeenInv(S)`, for all AOs and for those
that no handler posts to. An event in a queue of S is announced by its bit in memory or by
a post on its way; a bitmap that is about to be stored agrees on S with the one in memory,
but for the bit of such a post; and while one is loaded, the only handlers that post to S
are less urgent than the one that holds it. `SeenStep` keeps it in every step but a post
to S inside a window.

### Snapshots, checkpoints, files

`CardProofs` has the proofs of SnapshotSlots and of BootDisk. For the slots, `IInv` says
that there are a latest slot `l` and a number `q` of
completed saves such that the slots behind `l` hold the saves before `q` in order
(`Ring`), and that the save in progress aims at the slot after `l` (`Aims`), so what it
destroys is the oldest. `BootRestores` says how much of a restored image has been read.

`CheckpointProofs`: three layers. `Shape` says that every image, on the card or being
written, has the regions of the tasks active at its save. `Counted` balances launches
and exits. `Ordered` says which of the two slots holds the best image at every step of a
save: the one being written is never the best one.

`RwfsProofs`: `IInv` says that entries and records stay in their areas, that superblock
A is the first of a format (`Ours`), and that once it is written the index has at most one
entry for a file, with a content that a read may return. `Mirrored` adds, until a read has
failed, that either no format has ended (`Unused`: nothing was saved) or superblock A is
the current one, B its copy or older, and the running call works on A (`Current`):
append-only follows. `Stored` adds that the index has an intact record below the
allocation limit of each file that was saved.

### Disk table and boot flow

Also in `CardProofs`, for every size of the card, every set of slot counts and any number
of boots, failed writes, unreadable copies and power losses (`BootDiskAssumption`:
ranges, at most the 64 slots of the code). None of the three properties is inductive;
`BootInv` has what they rest on, in three layers.

* `BootTypes`: every table on the card, in RAM or in the image of a snapshot describes
  areas that lie behind the table, one after the other and on the card (`Fits`). Both
  layout computations and both parsers have a lemma that they yield or accept only
  such; the arithmetic of slot sizes and of the journal's share of the card is done
  there once.
* `CardOK`. Every writer writes copy A first, so `Mirrored`: copy A is the same as B or
  has a later generation, as long as each writer had seen the table it replaces
  (`~blind`). This is what makes the opposite tie-breaks of the two programs agree.
  `OneLayout`: both copies have the same areas. `Remembered`: no valid slot of that
  layout is older than the last completed format.
* `FlowOK` follows one boot. `AppTable`: the application's table is that of a copy, but
  for the last snapshot it has noted itself. `ListOK`: what the menu lists is still on
  the card when a choice is made; `newest` has a value because a finite set of slots has
  a least one in the order of the insertions (`LeastElement`), and a pinned slot is found
  again because two slots never have the same address. `OnTheWay`: the hand-off page,
  SRAM and the choice agree at each place between menu and application.

`OneLayout` needs the exception `unfinished`: a format that has written copy A and failed
leaves two layouts on the card, the menu lists the slots of one, and after a read that
fails the restore may look in the other. The attempt to prove the choice without that
exception failed there, with a third fault, one more than the run allows; the history
variable `unfinished` says how far the promise goes, and section 3 what lies beyond it. Auto-format is harmless for `Remembered` because it happens, without `blind`,
only on a card without a table.

`OneRegister`: the register's value is what copy B says and its doubt what copy A says,
where that differs. A step that changes neither copy is a stutter; one that writes both,
only A, or none is a `Write` that succeeds or fails in one of the three ways.
`BootInv` shows that the table a writer starts from is one that the register had.

### Programs

The state is one record, `ram`, and a snapshot is a copy of it. So the inductive
invariant is a predicate on such records: `Sound(ram)` and `Sound` of the image, what
the mailbox holds, and `SavedOK(card)`, what a checkpoint can hold. Each operation on
memory has a lemma that it keeps `Sound`; an action is a composition of operations.
Kills, resumes and restores then need no invariants of their own. Assumptions:
`WordAssumption`, `LinesAssumption`, and `StrideAssumption`: the stride 97 of the food
search visits every cell of the board (for 240 cells, 97 and 240 have no common divisor,
`snake_task.c`). For `SnakeSound` the heart is that the queued direction is never the
opposite of the one last moved in, so that no two keys turn the snake into its neck.

`StdinSound` needs more than `Sound`, and does not hold of every session, so
`StdinWithItsReader` has its own invariant, `StdinInv`, kept by the steps of a
`FreshSession`. A game whose `START` is queued must already have stdin (`StartsOK`), or it
would run without; a counter that has stdin must be one that gives it back, hence in the
foreground (`GivesBack`), and must not have a background `START` ahead of it; and while a
command waits nobody has stdin and nothing that was killed is still marked as running
(`OneCommand`), which is what waiting for the prompt buys. A command then starts in a
`Calm` memory: it runs at the lowest priority, so all queues are empty, and no game runs.
Each restore keeps `Calm`, because without a running game no checkpoint has a game
(`OnlyCounter`). The second exception of `FreshSession` was found in this proof: the step
`StartReads` fails for a registration that keeps a running background counter.

### Journal

`IInv` has the types and bounds of the terminal, the ring and the journal as
`Good(World, cut)`, a predicate on the record that the terminal's handlers change
together, so that each operation is one lemma (`AppendKeeps`, `FlushKeeps`,
`CaptureKeeps`, `DeliverKeeps`, ...). `RingInOrder` speaks of a running journal only and
is not inductive over a power loss: `Order` says that there is a head for which the ring
is in order, and that a journal that is on is at that head. `AppendOrder` has the
arithmetic of a record that is written over the wraps of the ring and of the numbers.
`ScanOrder` shows that `jrnl_scan_tail` finds the head again: with the age of a record
as a measure, the comparison modulo `SeqWrap` agrees with the order of ages, because
`SeqWrap` is at least twice the number of blocks (the code has 2^32 numbers and far
fewer blocks; `JournalAssumption`). A replay is `Tame`: it leaves the ring, the head and the history
variables alone. `SdOK` lists the shapes of the SD queue: commands wait until it is
empty (the SD task has priority 2, the commands 0), so it holds at most a request and
the end of the transfer that the task waits for, and a queue of two never overflows
(`SdAssumption`; the code has 8, `sd_task.c:35`).

### UART, console and line input

Assumption: `UartAssumption`. Sizes are at least 1, and the terminal's queue has a place
for the prompt of each program that can run, for the prompt of a resume and for one
event of the interrupt: `MaxPrograms + 1 < TerminalQ`. In the code at most two can ask
for a prompt, the owner of stdin and the one request of the SD task, and the queue has
8 places.

`IInv` has three parts. `OutputOK`: there is a number up to which the console has handed
its characters to the ring, the slots hold the intervals after it without a gap
(`ConAt`), and the ring, the data register and the shift register hold those before it
down to the last one on the wire (`WireOK`). `Texts` is a fold over the slots;
`OutputInOrder` follows from a lemma that it lists a chain of intervals in order.

`ReceiveOK`: `pending` is set exactly while an `RX_READY` is in the queue or being
handled, so there is at most one (`QueueOK`). The post of the interrupt must not fail,
since nothing repeats it. That is the bound `Len(termq) + progs <= MaxPrograms + 1`, plus
one for the event: a command starts a program only when the queue is empty, because the
terminal has priority 1 and the commands 0, and each program posts one prompt.

`LinesOK`: a pending CR or LF (`eol`) goes with an empty line (`EolOK`). So a byte that
the editor swallows as the second of a pair is one that ends an empty line, which
`LinesOf` ignores, and idle times, which forget the pair, make no difference. With
`FoldRun`, `LinesOf` of the bytes read grows with each byte by `NextByte`.

### Numbers and folds

`NumberProofs` has what the other proofs need of arithmetic and of `FoldLeft`. Induction
is used in the form that quantifies over sets (`NatSets`, `LeastElement`), which the
provers can instantiate. `FoldExists` shows that the function inside `FoldLeft` exists,
`FoldPrefix` carries a property of the accumulator along a sequence, and `FoldRun` gives
a fold as the last of the values that the loop goes through. So the loops of
`terminal_task_dispatch`, `jrnl_scan_tail`, `journal_replay_from_snapshot` and the
console's printing are proved for inputs of every length.

### Only model-checked

* Liveness, which is out of the prover's reach: `TopPriorityServed`, `SnakeMoves`,
  `LineOpEnds`, `CounterEnds`, `ConsoleDrains`, `InputIsRead`, `RebootHappens`.
* `ReplayRebuilds` of Journal: that a replay rebuilds the view needs, for every complete
  snapshot, the fold over the records that follow its base; the invariant relates two
  sessions by a function computed over data.

## 5. Not modelled

* Checksums are taken to have no collisions, and a sector is written entirely or not
  at all. 32-bit sequence numbers of snapshots and files do not wrap in any run.
* One-block checkpoint slots of an older format, which the code still reads; malformed
  region tables in a checkpoint.
* The bytes of SRAM. A snapshot copies memory while interrupts run
  (`snapshot_task.c:782`); a resume throws away the queues and resets UART and console,
  which is what interrupts change, and `Programs` and `UartConsole` model that reset. A
  refused resume cold-boots in memory that the image has overwritten; that the C
  startup code is then not run again is outside the models.
* Time. A timer is armed or not and runs out at some moment; the comparison of 32-bit
  ticks, and the deadline that wraps to tick 0 and reads as none, so that a step or an
  operation would wait for ever (`snake_task.c:562` and 712, `assembly_line_task.c:322`
  and 645), are not modelled.
* A disk table that changes between two mounts of RWFS, and a smaller region of another
  layout at the same start, which `rwfs.c:395` accepts as it is.
* Commands that only print (`snapls`, `snapstat`, `ps`, `files`, dumps), raw sector and
  memory access (`sdwrite0`, `md`), the `ckptcorrupt` self-test, the text line editor on
  top of RWFS, drawing of menus and games, scores, and the text buffer of `log.c`.
* The card protocol, clocks, pin setup, startup code, `shutdown.c`, number parsing and
  the bump allocator: register sequences or short helpers without decisions that a
  property here depends on.
* `rwos_disk_set_boot_target` and the second `format` branch of `boot_dispatch`, which
  nothing reaches.

## 6. Plan

1. Scheduler, with proofs: done.
2. SnapshotSlots, Checkpoint, Rwfs: done.
3. Disk table and boot flow (BootDisk, TableRegister), Journal with SdQueue: done.
4. UartConsole with ShellInput; the tasks with Programs: done.
5. Proofs of Scheduler, SnapshotSlots, BootDisk, Checkpoint, Rwfs, Programs, Journal
   and UartConsole: done.
6. A theorem still worth proving: `ReplayRebuilds` of Journal, whose module is free of
   RECURSIVE operators for that purpose.
