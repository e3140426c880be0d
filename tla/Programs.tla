------------------------------ MODULE Programs ------------------------------
(***************************************************************************)
(* The shell and the programs it runs: src/terminal/terminal.c (the        *)
(* command mailbox, the ownership of stdin, the commands that start, kill, *)
(* save and restore programs), the SysTick hooks of the programs, the      *)
(* triggers of src/scheduler/snapshot_task.c, and what a cold boot and a   *)
(* resume in src/terminal/main.c make of it all.                           *)
(*                                                                         *)
(* ram is what SRAM holds of them; a snapshot is a copy of ram.  A handler *)
(* is one step and SysTick runs between handlers, and while a snapshot is  *)
(* being written.  The scheduler (see Scheduler.tla) runs the programs and *)
(* the snapshot task (priority 2) before the terminal (1) and the terminal *)
(* before the commands (0); one run of the terminal handles any number of  *)
(* bytes.  Timers are abstract: a tick is due at any time.                 *)
(***************************************************************************)
EXTENDS CounterTask, SnakeTask, AssemblyLineTask

CONSTANTS
  Lines,         \* the command lines that are typed
  Keys,          \* Keys[p]: the raw keys that are typed while p has stdin
  QueueCap,      \* the capacity of the queues of the programs: 8
  MailboxCap,    \* CMD_MAILBOX_CAP, also the capacity of the queue of AO_CMD
  Timers,        \* the AOs whose timers run out
  TypeAhead,     \* lines may be typed before the last command has been executed
                 \* and before SysTick has seen what it did
  MaxKeysAhead,  \* bound: keys in the queue of a program
  MaxLines,      \* bound: lines typed
  MaxSnapshots,  \* bound: snapshots written
  MaxBoots       \* bound: cold boots and resumes

Programs == {"COUNTER", "LINE", "SNAKE"}
Games == {"LINE", "SNAKE"}
AOs == Programs \cup {"SNAPSHOT"}
NoOwner == "NONE"            \* TERM_STDIN_OWNER_NONE
MailSlots == 0 .. MailboxCap - 1
Nothing == [kind |-> "nothing"]

ASSUME ProgramsAssumption ==
  /\ QueueCap \in Nat \ {0} /\ MailboxCap \in Nat \ {0} /\ TypeAhead \in BOOLEAN /\ Timers \subseteq AOs
  /\ MaxKeysAhead \in Nat /\ MaxLines \in Nat /\ MaxSnapshots \in Nat /\ MaxBoots \in Nat

\* What the parser of each command lets through
ASSUME LinesAssumption ==
  \A l \in Lines :
    /\ l.cmd = "start" => /\ l.prog \in Programs /\ l.bg \in BOOLEAN /\ l.limit \in Word
                          /\ l.bg => l.prog = "COUNTER"
    /\ l.cmd = "kill" => l.prog \in AOs
    /\ l.cmd = "ckptsave" => l.ops \in Seq(Operation)
    /\ l.cmd = "restoresim" => /\ l.bg \in BOOLEAN /\ l.limit \in Word /\ l.value \in Word
                               /\ l.ops \in Seq(Operation)

VARIABLES
  ram,       \* the state in SRAM, a record:
             \*   reg        the AOs in the scheduler's table
             \*   q          the event queues
             \*   ctx        the contexts of the programs
             \*   counter_sched  g_counter_sched # 0
             \*   owner      g_term_ctx.stdin_owner
             \*   used, cursor   g_cmd_slots[].used, g_cmd_alloc_cursor
             \*   cmdq       the queue of AO_CMD: slots and their lines
             \*   snap       enabled, pending and busy of g_snapshot_ctx
             \*   sim        the pending item of restore_sim
  card,      \* the newest checkpoint on the card: the programs and their states
  image,     \* the newest snapshot on the card
  tty,       \* the terminal's handler is running
  resumed,   \* the last boot was a resume
  typed, snapshots, boots   \* what the bounds count

vars == <<ram, card, image, tty, resumed, typed, snapshots, boots>>

-----------------------------------------------------------------------------
(* The scheduler as the programs see it *)

sched_register_task(m, p) ==
  [m EXCEPT !.reg = @ \cup {p}, !.q[p] = IF p \in m.reg THEN @ ELSE <<>>]

sched_unregister(m, p) == [m EXCEPT !.reg = @ \ {p}, !.q[p] = <<>>]

CanPost(m, p) == p \in m.reg /\ Len(m.q[p]) < QueueCap

sched_post(m, p, e) == [m EXCEPT !.q[p] = Append(@, e)]

(* The three programs behind one interface *)

Reset(p, c) == CASE p = "COUNTER" -> counter_reset(c)
                 [] p = "LINE"    -> line_reset(c)
                 [] p = "SNAKE"   -> snake_reset(c)

Due(p, c) == CASE p = "COUNTER" -> counter_due(c)
               [] p = "LINE"    -> line_due(c)
               [] p = "SNAKE"   -> snake_due(c)

Handle(p, c, e) == CASE p = "COUNTER" -> counter_dispatch(c, e)
                     [] p = "LINE"    -> line_dispatch(c, e)
                     [] p = "SNAKE"   -> snake_dispatch(c, e)

Encode(p, c) == CASE p = "COUNTER" -> counter_encode(c, <<>>)
                  [] p = "LINE"    -> line_encode(c)
                  [] p = "SNAKE"   -> snake_encode(c)

\* The context that the restore_fn of p leaves
Restored(p, c, blob, lock) == CASE p = "COUNTER" -> counter_restore(c, blob, lock)
                                [] p = "LINE"    -> line_restore(c, blob, lock)
                                [] p = "SNAKE"   -> snake_restore(c, blob, lock)

\* The register_fn of p
Register(m, p) ==
  LET r == sched_register_task(m, p)
  IN  [r EXCEPT !.counter_sched = @ \/ p = "COUNTER",
                !.ctx[p] = CASE p = "COUNTER" -> counter_register(@)
                             [] p = "LINE"    -> line_register(@)
                             [] p = "SNAKE"   -> snake_register(@)]

-----------------------------------------------------------------------------
(* Ownership of stdin *)

term_stdin_owner_valid(m) == m.owner # NoOwner /\ m.owner \in m.reg

\* terminal_stdin_acquire: what it returns, once the terminal is registered
AcquireRc(m, p) ==
  IF p \notin m.reg THEN "NOT_FOUND" ELSE IF m.owner # NoOwner THEN "EXISTS" ELSE "OK"

terminal_stdin_acquire(m, p) ==
  IF AcquireRc(m, p) = "OK" THEN [m EXCEPT !.owner = p] ELSE m

terminal_stdin_release(m, p) ==
  IF m.owner = p /\ term_stdin_owner_valid(m) THEN [m EXCEPT !.owner = NoOwner] ELSE m

\* Mutant: the stdin of a killed task is not given back
term_kill_task_keeps(m, p) == sched_unregister(m, p)

\* term_kill_task
term_kill_task(m, p) ==
  [sched_unregister(m, p) EXCEPT !.owner = IF @ = p THEN NoOwner ELSE @]

\* counter_task_request_start, snake_task_request_start and
\* assembly_line_task_request_start; only the counter runs in the background
request_start(m, p, bg, limit) ==
  LET start == [sig |-> "START", bg |-> bg, limit |-> limit]
      a == terminal_stdin_acquire(m, p)
  IN  IF bg THEN (IF CanPost(m, p) THEN sched_post(m, p, start) ELSE m)
      ELSE IF AcquireRc(m, p) # "OK" THEN m
      ELSE IF CanPost(a, p) THEN [sched_post(a, p, start) EXCEPT !.ctx[p].rebind = FALSE]
      ELSE terminal_stdin_release(a, p)

-----------------------------------------------------------------------------
(* Restoring a program *)

\* restore_loader_apply_regions for one region: registration, then restore_fn.
\* A counter that was saved while it was not active is taken out again.  bound:
\* the terminal is registered, so that stdin can be acquired.
ApplyRegion(m, p, blob, bound) ==
  LET r == Register(m, p)
      fg == p # "COUNTER" \/ ~blob.bg
      lock == ~bound \/ AcquireRc(r, p) \notin {"OK", "EXISTS"}
      restored == [r EXCEPT !.ctx[p] = Restored(p, @, blob, lock)]
  IN  IF p = "COUNTER" /\ ~counter_blob_valid(blob) THEN r
      ELSE IF ~blob.active
      THEN [sched_unregister(r, p) EXCEPT !.ctx[p] = [Reset(p, @) EXCEPT !.restored = FALSE]]
      ELSE IF fg /\ bound THEN terminal_stdin_acquire(restored, p) ELSE restored

\* The regions of a checkpoint, in the order of the task ids
ApplyCheckpoint(m, saved, bound) ==
  LET apply(n, p) == IF p \in DOMAIN saved THEN ApplyRegion(n, p, saved[p], bound) ELSE n
  IN  apply(apply(apply(m, "COUNTER"), "LINE"), "SNAKE")

\* counter_task_restore_rebind_stdin_if_needed and its two likes
RebindStdin(m, p) ==
  LET c == m.ctx[p]
      wants == c.rebind /\ c.active /\ (p = "COUNTER" => ~c.bg) /\ p \in m.reg
  IN  IF wants THEN [terminal_stdin_acquire(m, p) EXCEPT !.ctx[p].rebind = FALSE] ELSE m

\* terminal_task_register when AO_TERMINAL is new, at a cold boot
RegisterTerminal(m) ==
  RebindStdin(RebindStdin(RebindStdin([m EXCEPT !.owner = NoOwner],
                                      "COUNTER"), "LINE"), "SNAKE")

\* main_cold_boot with the programs of a checkpoint; snapshots are enabled
\* when the disk table has an area for them
ColdRam(saved, area) ==
  LET zero == [reg |-> {"SNAPSHOT"}, q |-> [p \in AOs |-> <<>>],
               ctx |-> [p \in Programs |->
                          CASE p = "COUNTER" -> CounterInit
                            [] p = "LINE"    -> LineInit
                            [] p = "SNAKE"   -> SnakeInit],
               counter_sched |-> FALSE, owner |-> NoOwner, used |-> {}, cursor |-> 0,
               cmdq |-> <<>>, sim |-> Nothing,
               snap |-> [enabled |-> area, pending |-> FALSE, busy |-> FALSE]]
  IN  RegisterTerminal(ApplyCheckpoint(zero, saved, FALSE))

NoPrograms == [p \in {} |-> Nothing]

Init ==
  /\ card = NoPrograms /\ image = Nothing
  /\ ram = ColdRam(card, TRUE)
  /\ tty = FALSE /\ resumed = FALSE /\ typed = 0 /\ snapshots = 0 /\ boots = 0

-----------------------------------------------------------------------------
(* SysTick *)

\* The hook of program p: a program that is gone is switched off
ProgramHook(m, p, due) ==
  IF p \notin m.reg
  THEN IF p = "COUNTER" /\ ~m.counter_sched THEN m
       ELSE [m EXCEPT !.ctx[p] = Reset(p, @)]
  ELSE IF p \in due /\ Due(p, m.ctx[p]) /\ CanPost(m, p)
  THEN [sched_post(m, p, [sig |-> "TICK"]) EXCEPT !.ctx[p].pending = TRUE]
  ELSE m

\* snapshot_task_systick_hook
SnapshotHook(m, due) ==
  IF ~m.snap.enabled THEN m
  ELSE IF "SNAPSHOT" \notin m.reg
  THEN [m EXCEPT !.snap.enabled = FALSE, !.snap.pending = FALSE]
  ELSE IF "SNAPSHOT" \in due /\ ~m.snap.busy /\ ~m.snap.pending /\ CanPost(m, "SNAPSHOT")
  THEN [sched_post(m, "SNAPSHOT", [sig |-> "TRIGGER"]) EXCEPT !.snap.pending = TRUE]
  ELSE m

\* SysTick_Handler; due: the timers that have run out
SysTick(due) ==
  /\ ram' = ProgramHook(ProgramHook(SnapshotHook(ProgramHook(ram,
              "COUNTER", due), due), "LINE", due), "SNAKE", due)
  /\ UNCHANGED <<card, image, tty, resumed, typed, snapshots, boots>>

-----------------------------------------------------------------------------
(* The programs and the snapshot task, at priority 2 *)

ProgramsIdle == (\A p \in AOs : ram.q[p] = <<>>) /\ ~ram.snap.busy

\* Mutant: a program that stops keeps stdin
DispatchKeepsStdin(p) ==
  /\ ~tty /\ ~ram.snap.busy /\ ram.q[p] # <<>>
  /\ \E c \in Handle(p, ram.ctx[p], Head(ram.q[p])) :
       LET m == [ram EXCEPT !.q[p] = Tail(@), !.ctx[p] = c]
       IN  ram' = IF ram.ctx[p].active /\ ~c.active THEN sched_unregister(m, p) ELSE m
  /\ UNCHANGED <<card, image, tty, resumed, typed, snapshots, boots>>

\* sched_run dispatches an event to program p.  A program that stops in its
\* handler gives stdin back, unless it is in the background, and is unregistered.
Dispatch(p) ==
  /\ ~tty /\ ~ram.snap.busy /\ ram.q[p] # <<>>
  /\ \E c \in Handle(p, ram.ctx[p], Head(ram.q[p])) :
       LET m == [ram EXCEPT !.q[p] = Tail(@), !.ctx[p] = c]
           bg == p = "COUNTER" /\ ram.ctx[p].bg
           freed == IF bg THEN m ELSE terminal_stdin_release(m, p)
       IN  ram' = IF ram.ctx[p].active /\ ~c.active THEN sched_unregister(freed, p) ELSE m
  /\ UNCHANGED <<card, image, tty, resumed, typed, snapshots, boots>>

\* snapshot_task_dispatch up to snapshot_write_one; the hook runs meanwhile
SnapshotBegin ==
  /\ ~tty /\ ~ram.snap.busy /\ ram.q["SNAPSHOT"] # <<>>
  /\ ram' = [ram EXCEPT !.q["SNAPSHOT"] = Tail(@),
               !.snap = IF @.enabled THEN [@ EXCEPT !.busy = TRUE]
                                     ELSE [@ EXCEPT !.pending = FALSE]]
  /\ UNCHANGED <<card, image, tty, resumed, typed, snapshots, boots>>

\* snapshot_task_dispatch to its end: the image is complete, or an error left
\* the previous one in place (see SnapshotSlots.tla)
SnapshotEnd ==
  /\ ram.snap.busy
  /\ \/ snapshots < MaxSnapshots /\ image' = ram /\ snapshots' = snapshots + 1
     \/ UNCHANGED <<image, snapshots>>
  /\ ram' = [ram EXCEPT !.snap.pending = FALSE, !.snap.busy = FALSE]
  /\ UNCHANGED <<card, tty, resumed, typed, boots>>

-----------------------------------------------------------------------------
(* Input: terminal_task_dispatch, at priority 1 *)

TtyRuns == (tty \/ ProgramsIdle) /\ tty' = TRUE

\* A user who waits for the prompt: the last command has been executed, and
\* the hooks have seen which programs are gone
Prompted == ram.cmdq = <<>> /\ \A p \in Programs \ ram.reg : ~ram.ctx[p].active

\* cmd_slot_alloc_copy: the first free slot from the cursor on
FreeSlot(m) ==
  LET at(i) == (m.cursor + i) % MailboxCap
      free == {i \in MailSlots : at(i) \notin m.used}
  IN  at(CHOOSE i \in free : \A j \in free : i <= j)

\* term_enqueue_dispatch with a free slot: the queue of AO_CMD has as many places
Enqueue(m, line) ==
  LET s == FreeSlot(m)
  IN  IF Len(m.cmdq) < MailboxCap
      THEN [m EXCEPT !.used = @ \cup {s}, !.cursor = (s + 1) % MailboxCap,
                     !.cmdq = Append(@, [slot |-> s, line |-> line])]
      ELSE [m EXCEPT !.cursor = (s + 1) % MailboxCap]

\* The shell has a whole line; without a free slot it is dropped
TypeLine(line) ==
  /\ TtyRuns
  /\ typed < MaxLines /\ typed' = typed + 1
  /\ ~term_stdin_owner_valid(ram) /\ (TypeAhead \/ Prompted)
  /\ ram' = IF ram.used = MailSlots THEN ram ELSE Enqueue(ram, line)
  /\ UNCHANGED <<card, image, resumed, snapshots, boots>>

\* term_dispatch_owned_input: a key for the owner of stdin
TypeKey(key) ==
  /\ TtyRuns
  /\ term_stdin_owner_valid(ram)
  /\ LET p == ram.owner
         raw == SelectSeq(ram.q[p], LAMBDA e : e.sig = "RAW")
     IN  /\ key \in Keys[p] /\ Len(raw) < MaxKeysAhead
         /\ ram' = IF CanPost(ram, p) THEN sched_post(ram, p, [sig |-> "RAW", key |-> key])
                   ELSE ram
  /\ UNCHANGED <<card, image, resumed, typed, snapshots, boots>>

\* term_on_fg_shortcut_interrupt
CtrlC ==
  /\ TtyRuns
  /\ term_stdin_owner_valid(ram)
  /\ ram' = term_kill_task(ram, ram.owner)
  /\ UNCHANGED <<card, image, resumed, typed, snapshots, boots>>

\* The ring of received bytes is empty
TtyEnd == tty /\ tty' = FALSE /\ UNCHANGED <<ram, card, image, resumed, typed, snapshots, boots>>

-----------------------------------------------------------------------------
(* Commands: cmd_task_dispatch, at priority 0 *)

Command == Head(ram.cmdq)

\* A command runs when nothing else is ready, with its event popped
CmdRuns(cmd) == ~tty /\ ProgramsIdle /\ ram.cmdq # <<>> /\ Command.line.cmd = cmd

Popped == [ram EXCEPT !.cmdq = Tail(@)]

\* Mutant: cmd_task_dispatch releases the slot of the command after this one
CmdSlotReleaseNext(m) == [m EXCEPT !.used = @ \ {(Command.slot + 1) % MailboxCap}]

\* cmd_slot_release
CmdSlotRelease(m) == [m EXCEPT !.used = @ \ {Command.slot}]

\* The command leaves memory m
CmdEnds(m) ==
  /\ ram' = CmdSlotRelease(m)
  /\ UNCHANGED <<image, tty, resumed, typed, snapshots, boots>>

\* counter, line, snake
CmdStart ==
  /\ CmdRuns("start")
  /\ LET l == Command.line
     IN  CmdEnds(request_start(Register(Popped, l.prog), l.prog, l.bg, l.limit))
  /\ UNCHANGED card

\* kill
CmdKill ==
  /\ CmdRuns("kill")
  /\ LET p == Command.line.prog
     IN  CmdEnds(IF p \in ram.reg THEN term_kill_task(Popped, p) ELSE Popped)
  /\ UNCHANGED card

\* snapnow: snapshot_task_request_now; area: the disk table has a snapshot area
CmdSnapnow ==
  /\ CmdRuns("snapnow")
  /\ \E area \in BOOLEAN :
       LET m == [Popped EXCEPT !.snap.enabled = area]
       IN  CmdEnds(IF area /\ CanPost(m, "SNAPSHOT")
                   THEN sched_post(m, "SNAPSHOT", [sig |-> "TRIGGER"]) ELSE m)
  /\ UNCHANGED card

\* ckptsave and ckptsaveop: the state of the counter into restore_sim
CmdCkptSave ==
  /\ CmdRuns("ckptsave")
  /\ CmdEnds([Popped EXCEPT !.sim = counter_encode(ram.ctx["COUNTER"], Command.line.ops)])
  /\ UNCHANGED card

\* ckptload: restore_sim_apply; the item is done, or failed and not tried again
CmdCkptLoad ==
  /\ CmdRuns("ckptload")
  /\ CmdEnds(IF ram.sim = Nothing THEN Popped
             ELSE [ApplyRegion(Popped, "COUNTER", ram.sim, TRUE) EXCEPT !.sim = Nothing])
  /\ UNCHANGED card

\* restoresimop and restoresimbad: an active counter made up by the command
SimBlob(l) ==
  LET n == IF l.limit = 0 THEN 1 ELSE l.limit
  IN  [active |-> TRUE, bg |-> l.bg, limit |-> n,
       value |-> IF l.value = 0 THEN 1 ELSE IF l.value > n THEN n ELSE l.value,
       ops |-> l.ops]

\* restore_sim_reset, restore_sim_enqueue and restore_sim_apply of that counter.
\* restoresim has no operations and also applies a region of AO_TERMINAL, whose
\* register_fn takes stdin back and returns EXISTS.
CmdRestoreSim ==
  /\ CmdRuns("restoresim")
  /\ LET l == Command.line
         m == [ApplyRegion(Popped, "COUNTER", SimBlob(l), TRUE) EXCEPT !.sim = Nothing]
     IN  CmdEnds(IF l.ops = <<>> THEN [m EXCEPT !.owner = NoOwner] ELSE m)
  /\ UNCHANGED card

\* What terminal_ckpt_save_sd_once saves: ckpt_collect_restorable_regions
Saved(m) == [p \in {r \in Programs \cap m.reg : m.ctx[r].active} |-> Encode(p, m.ctx[p])]

\* ckptsave_sd.  Without an active program the checkpoint on the card stays, or
\* one with no program replaces it (see Checkpoint.tla).
CmdCkptSaveSd ==
  /\ CmdRuns("ckptsave_sd")
  /\ CmdEnds(Popped)
  /\ card' \in IF DOMAIN Saved(ram) = {} THEN {card, Saved(ram)} ELSE {Saved(ram)}

\* ckptload_sd
CmdCkptLoadSd ==
  /\ CmdRuns("ckptload_sd")
  /\ CmdEnds(ApplyCheckpoint(Popped, card, TRUE))
  /\ UNCHANGED card

-----------------------------------------------------------------------------
(* Boots *)

\* main_cold_boot after a reset; restore: the hand-off asks for the checkpoint
ColdBoot ==
  /\ boots < MaxBoots /\ boots' = boots + 1
  /\ \E restore, area \in BOOLEAN :
       ram' = ColdRam(IF restore THEN card ELSE NoPrograms, area)
  /\ tty' = FALSE /\ resumed' = FALSE
  /\ UNCHANGED <<card, image, typed, snapshots>>

\* Mutant: the snapshot hook is armed again with the flags of the image
ResumeRamStaleTrigger(m) ==
  [m EXCEPT !.q = [p \in AOs |-> <<>>], !.cmdq = <<>>,
            !.counter_sched = "COUNTER" \in m.reg,
            !.snap = [m.snap EXCEPT !.busy = FALSE, !.enabled = TRUE]]

\* rewind_resume_entry: the image with the queues flushed and the hooks of the
\* counter and of the snapshot task armed again
ResumeRam(m) ==
  [m EXCEPT !.q = [p \in AOs |-> <<>>], !.cmdq = <<>>,
            !.counter_sched = "COUNTER" \in m.reg,
            !.snap = IF "SNAPSHOT" \in m.reg
                     THEN [enabled |-> TRUE, pending |-> FALSE, busy |-> FALSE]
                     ELSE [@ EXCEPT !.enabled = FALSE]]

Resume ==
  /\ boots < MaxBoots /\ boots' = boots + 1
  /\ image # Nothing
  /\ ram' = ResumeRam(image)
  /\ tty' = FALSE /\ resumed' = TRUE
  /\ UNCHANGED <<card, image, typed, snapshots>>

Next ==
  \/ \E due \in SUBSET Timers : SysTick(due)
  \/ \E p \in Programs : Dispatch(p)
  \/ SnapshotBegin \/ SnapshotEnd
  \/ \E line \in Lines : TypeLine(line)
  \/ \E key \in UNION {Keys[p] : p \in Programs} : TypeKey(key)
  \/ CtrlC \/ TtyEnd
  \/ CmdStart \/ CmdKill \/ CmdSnapnow
  \/ CmdCkptSave \/ CmdCkptLoad \/ CmdRestoreSim \/ CmdCkptSaveSd \/ CmdCkptLoadSd
  \/ ColdBoot \/ Resume

\* Interrupts happen, timers run out and the scheduler runs what is ready;
\* nobody has to type.
Fairness ==
  /\ WF_vars(SysTick(Timers))
  /\ WF_vars(\E p \in Programs : Dispatch(p))
  /\ WF_vars(SnapshotBegin \/ SnapshotEnd)
  /\ WF_vars(TtyEnd)

Spec == Init /\ [][Next]_vars
FairSpec == Spec /\ Fairness

-----------------------------------------------------------------------------
(* Properties *)

ContextType(p) ==
  /\ {ram.ctx[p].active, ram.ctx[p].pending, ram.ctx[p].restored, ram.ctx[p].rebind}
       \subseteq BOOLEAN
  /\ p = "COUNTER" => {ram.ctx[p].value, ram.ctx[p].limit} \subseteq 0 .. WordMod - 1

\* Type invariant
TypeOK ==
  /\ ram.reg \subseteq AOs /\ ram.owner \in Programs \cup {NoOwner}
  /\ ram.used \subseteq MailSlots /\ ram.cursor \in MailSlots
  /\ Len(ram.cmdq) <= MailboxCap
  /\ \A p \in AOs : Len(ram.q[p]) <= QueueCap
  /\ \A p \in Programs : ContextType(p)
  /\ ram.snap \in [enabled : BOOLEAN, pending : BOOLEAN, busy : BOOLEAN]
  /\ DOMAIN card \subseteq Programs
  /\ {tty, resumed} \subseteq BOOLEAN

\* No command is executed from a slot that is free or that another command
\* uses (the assertion "cmd event for free slot" of cmd_task_dispatch), and as
\* long as the system was not resumed no slot is lost to the mailbox.
MailboxSound ==
  LET slots == {ram.cmdq[i].slot : i \in 1 .. Len(ram.cmdq)}
  IN  /\ Cardinality(slots) = Len(ram.cmdq)
      /\ slots \subseteq ram.used
      /\ ~resumed => ram.used = slots

\* Queues and slots within their bounds, and the mailbox as above.
CommandsSound == TypeOK /\ MailboxSound

\* A pending snapshot trigger is in the queue of the snapshot task: the flag
\* that keeps the hook from posting is always cleared by a handler that will
\* run, whatever kills, failed saves, boots and resumes come between.
SnapshotTriggerLive ==
  ram.snap.pending /\ ~ram.snap.busy /\ "SNAPSHOT" \in ram.reg => ram.q["SNAPSHOT"] # <<>>

\* A game that has ended, been killed, been restored over or been resumed never
\* leaves stdin with an owner that is gone: that owner would keep every other
\* program from being started in the foreground.
NoStaleGameOwner == ram.owner \in Games => ram.owner \in ram.reg

\* However a counter was started, saved, changed by restore operations and
\* restored, it never runs past its limit, so it ends.
CounterBounded ==
  LET c == ram.ctx["COUNTER"] IN c.active => c.value <= c.limit

\* A robot that was restored does no work before it has been homed: the
\* operation that was in progress when the state was saved is not taken up.
HomeBeforeWork ==
  LET c == ram.ctx["LINE"]
  IN  c.active /\ c.needs_home => c.op \in {"NONE", "HOME"} /\ c.mode = "RUNNING"

\* A restored program is in a state it may go on from.
RestoredSound == CounterBounded /\ HomeBeforeWork

\* While a game of snake goes on its food lies on a free cell, also after the
\* snake has eaten and grown.
FoodIsReachable ==
  LET c == ram.ctx["SNAKE"]
  IN  c.active /\ c.mode \in {"PLAYING", "PAUSED"} => c.food \in Board \ BodyCells(c)

\* Two quick keys between two ticks never turn the snake back into its neck.
NoReverse ==
  LET c == ram.ctx["SNAKE"]
  IN  c.active /\ c.mode \in {"PLAYING", "PAUSED"} =>
        ~snake_dir_is_opposite(c.dir, c.pending_dir)

\* The state of a running game of snake is one that the encoder accepts (it
\* refuses an invalid one, and the checkpoint would silently lack the game), with
\* food that can be reached and no turn into the neck.
SnakeSound ==
  /\ ram.ctx["SNAKE"].active => snake_state_valid(ram.ctx["SNAKE"])
  /\ FoodIsReachable
  /\ NoReverse

\* The books of the assembly line agree with its parts: one part on the fixture
\* exactly when fixture_slot is set, the counts are the parts in the bins, and
\* only parts that passed the scan are finished as good.
LineBooks ==
  LET c == ram.ctx["LINE"]
      in(location) == {i \in PartIds : c.parts[i].loc = location}
  IN  c.active =>
        /\ Cardinality(in(Fixture)) = IF c.fixture = NoSlot THEN 0 ELSE 1
        /\ c.completed = Cardinality(in(GoodBin))
        /\ c.rejected = Cardinality(in(RejectBin))
        /\ \A i \in in(GoodBin) : c.parts[i].scan = "PASS"
        /\ c.mode = "COMPLETE" => \A i \in PartIds : c.parts[i].state \in Done

\* The state of the assembly line is one that the encoder accepts, and its books
\* agree.
LineSound ==
  /\ ram.ctx["LINE"].active => line_state_valid(ram.ctx["LINE"])
  /\ LineBooks

\* The owner of stdin is a program that reads it, or is about to start: a user
\* who types q gets the shell back.
OwnerListens ==
  ram.owner # NoOwner =>
    /\ ram.owner \in ram.reg
    /\ \/ ram.ctx[ram.owner].active
       \/ \E i \in 1 .. Len(ram.q[ram.owner]) : ram.q[ram.owner][i].sig = "START"

\* A running game never loses stdin to the shell or to another program.
GameHasStdin == \A p \in Games \cap ram.reg : ram.ctx[p].active => ram.owner = p

\* For a user who waits for the prompt, stdin is always with the program that
\* reads it.
StdinSound == TypeOK /\ OwnerListens /\ GameHasStdin

\* A game of snake that is played on moves on, whatever keys are typed.
SnakeMoves ==
  \/ []<>(ram.ctx["SNAKE"].mode # "PLAYING")
  \/ []<><<ram'.ctx["SNAKE"].body # ram.ctx["SNAKE"].body>>_vars

\* Every operation of the assembly line is completed or given up.
LineOpEnds == (ram.ctx["LINE"].op # "NONE") ~> (ram.ctx["LINE"].op = "NONE")

\* A running counter counts to its end, or is stopped.
CounterEnds == ram.ctx["COUNTER"].active ~> ~ram.ctx["COUNTER"].active
=============================================================================
