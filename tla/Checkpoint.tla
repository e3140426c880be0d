----------------------------- MODULE Checkpoint -----------------------------
(***************************************************************************)
(* Task checkpoints of src/terminal/terminal.c: terminal_ckpt_save_sd_once *)
(* writes the state of the restorable tasks, with launch and exit counts,  *)
(* alternately into two slots; term_ckpt_load_latest_sd_internal restores  *)
(* the newest committed one, at boot or from the shell.  A slot is written *)
(* with a PENDING header first and gets its COMMITTED header last.  A      *)
(* write may return an error or be cut off by a power loss; a slot may be  *)
(* unreadable.  Checksums are taken to have no collisions, so a slot whose *)
(* body is not complete is not valid.                                      *)
(***************************************************************************)
EXTENDS Naturals

CONSTANTS Tasks,        \* the restorable tasks (TASK_CLASS_RESTORABLE_NOW)
          CountMod,     \* width of launch_count and exit_count: 2^16 in the code
          MaxSaves,     \* bound: saves that reach the card
          MaxLaunches,  \* bound: task launches
          MaxErrors,    \* bound: writes that return an error
          MaxCrashes,   \* bound: power losses
          MaxReadFaults \* bound: slot reads that fail

ASSUME CheckpointAssumption ==
  /\ CountMod \in Nat \ {0} /\ MaxSaves \in Nat /\ MaxLaunches \in Nat
  /\ MaxErrors \in Nat /\ MaxCrashes \in Nat /\ MaxReadFaults \in Nat

Slots == 0 .. 1   \* CKPT_SD_SLOT_COUNT = 2

VARIABLES
  slot,             \* the two slots on the card
  next_seq, seeded, \* g_ckpt_sd_seq, g_ckpt_sd_seq_seeded
  prev,             \* g_ckpt_running_prev_bitmap
  launch, exit,     \* g_ckpt_launch_count, g_ckpt_exit_count
  running, active,  \* the restorable tasks in the scheduler's table; those of
                    \* them that have handled their start event
  pc,               \* "off", "idle", or the sector group written next
  target, image,    \* slot and content of the save in progress
  result,           \* what the last checkpoint call returned; "none" once
                    \* a task has been launched or has ended since
  saves, launches, errors, crashes, rfaults,   \* counters for the bounds
  committed,        \* history: the saves whose COMMITTED header is on the card
  ranAt,            \* history: the tasks active when save number n was taken
  ended,            \* history: tasks that the tracking saw and that ended since
  loaded            \* history: save and tasks of the load just made

tasks    == <<running, active>>
tracking == <<prev, launch, exit>>
bounds   == <<saves, launches, errors, crashes, rfaults>>
history  == <<committed, ranAt, ended, loaded>>
vars == <<slot, next_seq, seeded, tracking, tasks, pc, target, image, result,
          bounds, history>>

Zero == [t \in Tasks |-> 0]

EmptySlot == [state |-> "none", whole |-> FALSE, seq |-> 0, save |-> 0,
              ran |-> {}, regions |-> {}, launch |-> Zero, exit |-> Zero]

NotLoaded == [save |-> 0, tasks |-> {}]

Init ==
  /\ slot = [i \in Slots |-> EmptySlot]
  /\ next_seq = 1 /\ seeded = FALSE
  /\ prev = {} /\ launch = Zero /\ exit = Zero
  /\ running = {} /\ active = {}
  /\ pc = "idle" /\ target = 0 /\ image = EmptySlot /\ result = "none"
  /\ saves = 0 /\ launches = 0 /\ errors = 0 /\ crashes = 0 /\ rfaults = 0
  /\ committed = {} /\ ranAt = [n \in 1 .. MaxSaves |-> {}]
  /\ ended = {} /\ loaded = NotLoaded

-----------------------------------------------------------------------------
(* Tasks come and go in the running system *)

\* The command registers the task and posts its start event ...
Launch(t) ==
  /\ pc = "idle" /\ t \notin running /\ launches < MaxLaunches
  /\ running' = running \cup {t} /\ launches' = launches + 1 /\ active' = active
  /\ ended' = ended \ {t} /\ result' = "none" /\ loaded' = NotLoaded
  /\ UNCHANGED <<slot, next_seq, seeded, tracking, pc, target, image, saves,
                 errors, crashes, rfaults, committed, ranAt>>

\* ... which the task handles later
Start(t) ==
  /\ pc = "idle" /\ t \in running \ active
  /\ active' = active \cup {t}
  /\ result' = "none" /\ loaded' = NotLoaded
  /\ UNCHANGED <<slot, next_seq, seeded, tracking, running, pc, target, image,
                 bounds, committed, ranAt, ended>>

Exit(t) ==
  /\ pc = "idle" /\ t \in running
  /\ running' = running \ {t} /\ active' = active \ {t}
  /\ ended' = IF t \in prev THEN ended \cup {t} ELSE ended
  /\ result' = "none" /\ loaded' = NotLoaded
  /\ UNCHANGED <<slot, next_seq, seeded, tracking, pc, target, image, bounds,
                 committed, ranAt>>

-----------------------------------------------------------------------------
(* Reading the card *)

\* ckpt_sd_read_valid_layout
Valid(s) == s.state = "committed" /\ s.whole

Found(bad) == {i \in Slots \ bad : Valid(slot[i])}

\* ckpt_sd_find_best_slot: the first slot with the highest sequence number
Best(S) == CHOOSE i \in S : \A j \in S : \/ slot[j].seq < slot[i].seq
                                         \/ slot[j].seq = slot[i].seq /\ i <= j

\* Reads of the slots in bad fail
ReadFaults(bad) == /\ rfaults' = rfaults + (IF 0 \in bad THEN 1 ELSE 0)
                                         + (IF 1 \in bad THEN 1 ELSE 0)
                   /\ rfaults' <= MaxReadFaults

-----------------------------------------------------------------------------
(* terminal_ckpt_save_sd_once *)

Bump(count, S) == [t \in Tasks |-> IF t \in S THEN (count[t] + 1) % CountMod ELSE count[t]]

\* Mutant: always slot 0
SlotOfFirst(s) == 0

\* Mutant: a change of the set of running tasks is not a reason to save
NothingToSaveIdle(launched, exited) == active = {}

\* ckpt_sd_seed_seq_if_needed: the sequence number the save starts from
Seed(bad) == IF ~seeded /\ Found(bad) # {} THEN slot[Best(Found(bad))].seq + 1 ELSE next_seq

\* The slot a sequence number goes to
SlotOf(s) == (s - 1) % 2

\* region_count == 0 && !lifecycle_changed
NothingToSave(launched, exited) == active = {} /\ launched \cup exited = {}

\* Seeding the sequence number, tracking launches and exits, collecting the
\* regions of the active tasks; without regions and without a change nothing is
\* written
SaveBegin(bad) ==
  LET s == Seed(bad)
      launched == running \ prev
      exited == prev \ running
  IN
  /\ pc = "idle" /\ saves < MaxSaves
  /\ IF seeded THEN bad = {} /\ rfaults' = rfaults ELSE ReadFaults(bad)
  /\ seeded' = (seeded \/ Found(bad) # {})
  /\ launch' = Bump(launch, launched) /\ exit' = Bump(exit, exited)
  /\ prev' = running
  /\ IF NothingToSave(launched, exited)
       THEN /\ result' = "skipped" /\ next_seq' = s
            /\ UNCHANGED <<pc, target, image, saves, ranAt>>
       ELSE /\ target' = SlotOf(s)
            /\ image' = [state |-> "pending", whole |-> FALSE, seq |-> s,
                         save |-> saves + 1, ran |-> running, regions |-> active,
                         launch |-> launch', exit |-> exit']
            /\ next_seq' = s + 1 /\ saves' = saves + 1 /\ pc' = "head"
            /\ ranAt' = [ranAt EXCEPT ![saves + 1] = active]
            /\ result' = "none"
  /\ loaded' = NotLoaded
  /\ UNCHANGED <<slot, tasks, launches, errors, crashes, committed, ended>>

Card == <<slot, committed>>

\* A write: Written is its effect on the card, Ok how the save goes on.  It may
\* return an error or be cut off by a power loss, before or after that effect.
Write(Written, Ok) ==
  \/ Written /\ Ok /\ UNCHANGED <<errors, crashes>>
  \/ /\ errors < MaxErrors /\ errors' = errors + 1
     /\ Written \/ UNCHANGED Card
     /\ pc' = "idle" /\ result' = "error" /\ target' = 0 /\ image' = EmptySlot
     /\ UNCHANGED <<seeded, crashes>>
  \/ /\ crashes < MaxCrashes /\ crashes' = crashes + 1
     /\ Written \/ UNCHANGED Card
     /\ pc' = "off" /\ result' = "none" /\ target' = 0 /\ image' = EmptySlot
     /\ UNCHANGED <<seeded, errors>>

Rest == <<next_seq, tracking, tasks, saves, launches, rfaults, ranAt, ended, loaded>>

\* The 16-block write: the block with the PENDING header ...
WriteHead ==
  /\ pc = "head"
  /\ Write(slot' = [slot EXCEPT ![target] = image] /\ UNCHANGED committed,
           pc' = "body" /\ UNCHANGED <<target, image, result, seeded>>)
  /\ UNCHANGED Rest

\* ... and the other blocks
WriteBody ==
  /\ pc = "body"
  /\ Write(slot' = [slot EXCEPT ![target].whole = TRUE] /\ UNCHANGED committed,
           pc' = "commit" /\ UNCHANGED <<target, image, result, seeded>>)
  /\ UNCHANGED Rest

\* The block with the COMMITTED header
WriteCommit ==
  /\ pc = "commit"
  /\ Write(/\ slot' = [slot EXCEPT ![target].state = "committed"]
           /\ committed' = committed \cup {image.save},
           /\ pc' = "idle" /\ result' = "ok" /\ seeded' = TRUE
           /\ target' = 0 /\ image' = EmptySlot)
  /\ UNCHANGED Rest

-----------------------------------------------------------------------------
(* term_ckpt_load_latest_sd_internal *)

\* Mutant of Counts: the counts start over.
CountsReset(s) == [launch |-> Zero, exit |-> Zero]

\* The launch and exit counts a load leaves behind (ckpt_lifecycle_seed_tracking)
Counts(s) == [launch |-> s.launch, exit |-> s.exit]

\* Regions whose task was launched more often than it exited
Allowed(s) == {t \in s.regions : s.launch[t] > s.exit[t]}

\* The load as such, from a state in which the tasks in base run and those in on
\* are active.  restore_loader_apply_regions registers the task of each region and
\* gives it its state; it succeeds on a region that a save has written.
LoadFrom(base, on, bad) ==
  LET best == slot[Best(Found(bad))] IN
  /\ ReadFaults(bad)
  /\ Found(bad) # {}
  /\ running' = base \cup Allowed(best) /\ active' = on \cup Allowed(best)
  /\ prev' = best.ran /\ launch' = Counts(best).launch /\ exit' = Counts(best).exit
  /\ next_seq' = best.seq + 1 /\ seeded' = TRUE
  /\ loaded' = [save |-> best.save, tasks |-> active' \ on]
  /\ UNCHANGED <<slot, target, image, saves, launches, errors, crashes, committed, ranAt>>

\* ckptload_sd: without a valid slot ...
LoadNone(bad) ==
  /\ pc = "idle" /\ result' = "none" /\ loaded' = NotLoaded
  /\ Found(bad) = {} /\ ReadFaults(bad)
  /\ UNCHANGED <<slot, next_seq, seeded, tracking, tasks, pc, target, image, saves,
                 launches, errors, crashes, committed, ranAt, ended>>

\* ... and with one
Load(bad) ==
  /\ pc = "idle" /\ pc' = pc /\ result' = "none"
  /\ LoadFrom(running, active, bad)
  /\ ended' = ended \ running'

\* Power off or reset outside a save
PowerOff ==
  /\ pc = "idle" /\ crashes < MaxCrashes /\ crashes' = crashes + 1
  /\ pc' = "off" /\ result' = "none"
  /\ UNCHANGED <<slot, next_seq, seeded, tracking, tasks, target, image, saves,
                 launches, errors, rfaults, history>>

\* main_cold_boot with boot restore enabled and a valid slot ...
BootLoad(bad) ==
  /\ pc = "off" /\ pc' = "idle" /\ result' = "none"
  /\ LoadFrom({}, {}, bad)
  /\ ended' = {}

\* ... and with boot restore disabled, or no valid slot
BootPlain ==
  /\ pc = "off" /\ pc' = "idle" /\ result' = "none"
  /\ running' = {} /\ active' = {} /\ prev' = {} /\ launch' = Zero /\ exit' = Zero
  /\ next_seq' = 1 /\ seeded' = FALSE
  /\ ended' = {} /\ loaded' = NotLoaded
  /\ UNCHANGED <<slot, target, image, bounds, committed, ranAt>>

-----------------------------------------------------------------------------
Next == \/ \E t \in Tasks : Launch(t) \/ Start(t) \/ Exit(t)
        \/ \E bad \in SUBSET Slots : \/ SaveBegin(bad) \/ LoadNone(bad)
                                   \/ Load(bad) \/ BootLoad(bad)
        \/ WriteHead \/ WriteBody \/ WriteCommit
        \/ PowerOff \/ BootPlain

Spec == Init /\ [][Next]_vars

-----------------------------------------------------------------------------
(* Properties *)

Newest == CHOOSE x \in committed : \A y \in committed : y <= x

Slot == [state : {"none", "pending", "committed"}, whole : BOOLEAN, seq : Nat,
         save : 0 .. MaxSaves, ran : SUBSET Tasks, regions : SUBSET Tasks,
         launch : [Tasks -> 0 .. CountMod - 1], exit : [Tasks -> 0 .. CountMod - 1]]

\* Every variable has its type
TypeOK ==
  /\ slot \in [Slots -> Slot] /\ image \in Slot /\ target \in Slots
  /\ next_seq \in Nat \ {0} /\ seeded \in BOOLEAN
  /\ prev \in SUBSET Tasks /\ running \in SUBSET Tasks /\ active \in SUBSET running
  /\ ended \in SUBSET Tasks
  /\ launch \in [Tasks -> 0 .. CountMod - 1] /\ exit \in [Tasks -> 0 .. CountMod - 1]
  /\ pc \in {"off", "idle", "head", "body", "commit"}
  /\ result \in {"none", "skipped", "ok", "error"}
  /\ saves \in 0 .. MaxSaves /\ launches \in 0 .. MaxLaunches
  /\ errors \in 0 .. MaxErrors /\ crashes \in 0 .. MaxCrashes
  /\ rfaults \in 0 .. MaxReadFaults

\* At every moment, during a save too, the best slot holds the newest committed
\* checkpoint (docs/architecure_v2.md: "Write to inactive slot only", "Loss before
\* commit: discard in-progress checkpoint and restore previous committed
\* checkpoint").
BestIsNewest ==
  committed # {} => Found({}) # {} /\ slot[Best(Found({}))].save = Newest

\* As long as no write has returned an error, BestIsNewest holds, wherever power
\* fails: PENDING and COMMITTED headers and the alternation of the slots are
\* enough for crashes.
BestIsNewestDespiteCrashes == errors = 0 => BestIsNewest

\* A checkpoint that was reported as written is the one a restore selects
\* (docs/architecure_v2.md: "If commit succeeds, checkpoint becomes latest valid
\* restore target").
SavedIsBest ==
  result = "ok" => Found({}) # {} /\ slot[Best(Found({}))].save = saves

\* The slot that a restore selects is the right one: after crashes the newest
\* committed one, and after a save that reported success the one it wrote.
BestIsRight == TypeOK /\ BestIsNewestDespiteCrashes /\ SavedIsBest

\* After a checkpoint call that reported success, or that there was nothing to
\* save, a restore brings back no task that has ended
\* (docs/architecure_v2.md: "so restore does not resurrect completed work").
NoResurrection ==
  result \in {"ok", "skipped"} /\ Found({}) # {} =>
    Allowed(slot[Best(Found({}))]) \cap ended = {}

\* As long as no write has returned an error, NoResurrection holds.
NoResurrectionDespiteCrashes == errors = 0 => NoResurrection

\* A load brings back exactly the tasks that were active when the checkpoint it
\* loads was taken: the launch and exit counts, carried over from boot to boot,
\* filter out none of them, whatever writes failed in between.
LoadRestoresAll ==
  loaded.save # 0 => /\ ranAt[loaded.save] \subseteq active
                     /\ loaded.tasks \subseteq ranAt[loaded.save]
=============================================================================
