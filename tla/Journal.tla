------------------------------ MODULE Journal ------------------------------
(***************************************************************************)
(* The input journal of src/common_io/journal.c with what surrounds it:    *)
(* the terminal that reads bytes and journals them, the game that takes    *)
(* stdin, the snapshots that give the records their base, the SD requests  *)
(* that keep the journal off the card, power losses, and the two ways of   *)
(* starting again: a cold boot, and the resumption of a snapshot, which    *)
(* replays the journal.                                                    *)
(*                                                                         *)
(* Handlers run to completion; those of priority 2 (the game, the SD task, *)
(* the snapshot task) before the terminal and the terminal before the      *)
(* commands.  The terminal reads its bytes in bursts: what the receive     *)
(* ring holds when its handler runs.                                       *)
(***************************************************************************)
EXTENDS ShellInput, SdQueue

CONSTANTS
  Inputs,      \* what is typed: sequences of the bursts of bytes that the
               \* terminal reads at a time: characters, "CR", "LF", "ESC", "^C"
  Blocks,      \* the blocks of the journal area
  SeqWrap,      \* the record numbers are those of 32 bits: modulo SeqWrap here
  PendingCap,  \* JRNL_PENDING_RX_CAP
  Mailbox,     \* CMD_MAILBOX_CAP
  MaxSnaps, MaxBoots, MaxFaults    \* bounds

ASSUME JournalAssumption ==
  /\ {Blocks, PendingCap, Mailbox} \subseteq Nat \ {0}
  /\ SeqWrap \in Nat /\ SeqWrap > 2 * Blocks - 1 /\ SeqWrap % 2 = 0
  /\ {MaxSnaps, MaxBoots, MaxFaults} \subseteq Nat
  /\ Inputs \subseteq Seq(Seq(STRING))

VARIABLES
  mode,     \* "RUN", "OFF", or "PANIC"
  term,     \* the terminal: the line editor sh; whether the game owns stdin
            \* and is registered; whether its queue holds the key that ends it
  cmds,     \* the lines in the mailbox of AO_CMD
  jrnl,     \* g_journal
  ring,     \* the journal area of the card
  sd,       \* the SD queue
  trigger,  \* AO_SNAPSHOT has been posted to
  snaps,    \* the snapshots on the card: their images by number
  last,     \* last_snap_seq in the disk table
  from,     \* the snapshot this session resumed, 0 after a cold boot
  ghost,    \* what the session could be rebuilt from: see below
  input,    \* the bursts that have yet to arrive
  count     \* what the bounds count: boots and faults

vars == <<mode, term, cmds, jrnl, ring, sd, trigger, snaps, last, from, ghost, input, count>>

NoRecord == [kind |-> "NONE", seq |-> 0, base |-> 0, data |-> <<>>]
TermInit == [sh |-> ShellInit, owned |-> FALSE, reg |-> FALSE, quit |-> FALSE]
NoImage == [term |-> TermInit, op |-> "ABSENT"]

\* The part of the terminal's state that a replay is to rebuild.  (The state
\* of the end of the line is not: the idle of the line is not journalled.)
View(t) == [line |-> t.sh.line, hist |-> t.sh.hist, nav |-> t.sh.nav,
            scratch |-> t.sh.scratch, esc |-> t.sh.esc, owned |-> t.owned]

(***************************************************************************)
(* History variables.  ghost.complete is the set of the snapshots from     *)
(* which the journal rebuilds this session: those whose image and the      *)
(* records based on them or later ones hold all that the terminal has read *)
(* up to ghost.durable.  ghost.skew tells that the ring has been left out  *)
(* of order by a scan that could not read a block, by a start that did not *)
(* scan, or by a torn block.  ghost.cut tells that a transfer was          *)
(* forgotten by sd_async_init while the SD task was waiting for it.        *)
(***************************************************************************)
Lose(g) == [g EXCEPT !.complete = {}, !.durable = View(TermInit)]

\* The handlers of the terminal change these parts of the state together
World == [term |-> term, cmds |-> cmds, jrnl |-> jrnl, ring |-> ring, ghost |-> ghost]

Become(w) ==
  /\ term' = w.term /\ cmds' = w.cmds /\ jrnl' = w.jrnl /\ ring' = w.ring
  /\ ghost' = w.ghost

-----------------------------------------------------------------------------
(* The ring *)

\* Mutant: record numbers are compared without their wrap
jrnl_seq_newer_plain(a, b) == a > b

\* jrnl_seq_newer
jrnl_seq_newer(a, b) == (a - b) % SeqWrap \in 1 .. (SeqWrap \div 2) - 1

\* jrnl_block_validate: a torn block is none
Valid(rg, i) == rg[i].kind # "NONE"

\* jrnl_scan_tail with the first n blocks readable
jrnl_scan_tail(rg, n) ==
  LET Newer(best, i) ==
        IF Valid(rg, i) /\ (best = -1 \/ jrnl_seq_newer(rg[i].seq, rg[best].seq))
        THEN i ELSE best
      best == FoldLeft(Newer, -1, [i \in 1 .. n |-> i - 1])
  IN  IF best = -1 THEN [next |-> 0, seq |-> 1]
      ELSE [next |-> (best + 1) % Blocks, seq |-> (rg[best].seq + 1) % SeqWrap]

\* journal_configure with an area; it scans unless there is no snapshot yet
journal_configure(rg, snap, n) ==
  LET tail == IF snap = 0 THEN [next |-> 0, seq |-> 1] ELSE jrnl_scan_tail(rg, n)
  IN  [on |-> TRUE, pending |-> <<>>, next |-> tail.next, seq |-> tail.seq,
       base |-> snap, suppress |-> 0]

\* journal_configure without one
JournalOff == [on |-> FALSE, pending |-> <<>>, next |-> 0, seq |-> 1, base |-> 0, suppress |-> 0]

\* The i-th block before the place of the next record
Back(j, i) == (j.next - i) % Blocks

\* The blocks before the next place hold its predecessors; they are all
\* blocks, or those from the first one on
InOrder(rg, j) ==
  \E n \in {j.next, Blocks} :
    /\ \A i \in 1 .. n : Valid(rg, Back(j, i)) /\ rg[Back(j, i)].seq = (j.seq - i) % SeqWrap
    /\ \A i \in n + 1 .. Blocks : ~Valid(rg, Back(j, i))

\* The ring after a step, and whether an event e left it out of order
Skewed(g, rg, j, e) ==
  LET skew == (g.skew \/ e) /\ ~InOrder(rg, j)
  IN  IF skew THEN [Lose(g) EXCEPT !.skew = TRUE] ELSE [g EXCEPT !.skew = FALSE]

-----------------------------------------------------------------------------
(* Appending *)

\* The ring loses the record that block i holds: no replay that needs it
\* is complete any more
Forget(g, rg, i) ==
  IF ~Valid(rg, i) THEN g
  ELSE LET rest == {s \in g.complete : s > rg[i].base}
       IN  IF rest = {} THEN Lose(g) ELSE [g EXCEPT !.complete = rest]

\* jrnl_append_record is refused
Refused(w) == ~w.jrnl.on \/ sd_in_use(sd)

\* jrnl_append_record that succeeds
jrnl_append_record(w, kind, data) ==
  LET j == w.jrnl
      rec == [kind |-> kind, seq |-> j.seq, base |-> j.base, data |-> data]
      nj == [j EXCEPT !.next = (@ + 1) % Blocks, !.seq = (@ + 1) % SeqWrap]
      rg == [w.ring EXCEPT ![j.next] = rec]
  IN  [w EXCEPT !.jrnl = nj, !.ring = rg,
                !.ghost = Skewed(Forget(@, w.ring, j.next), rg, nj, FALSE)]

\* All that the terminal has read is on the card
Settled(w) ==
  IF w.ghost.complete = {} THEN w ELSE [w EXCEPT !.ghost.durable = View(w.term)]

\* jrnl_flush_pending_rx; ok: the card takes what is written to it.  The
\* bytes that were pending have been read: what the terminal is now is durable.
jrnl_flush_pending_rx(w, ok) ==
  IF w.jrnl.pending = <<>> \/ Refused(w) \/ ~ok THEN w
  ELSE Settled([jrnl_append_record(w, "RX", w.jrnl.pending) EXCEPT !.jrnl.pending = <<>>])

\* journal_capture_input_byte outside a replay.  Bytes that are not kept are
\* lost to every replay.
journal_capture_input_byte(w, c, ok) ==
  LET j == w.jrnl
      room == IF Len(j.pending) >= PendingCap THEN jrnl_flush_pending_rx(w, ok) ELSE w
      kept == [room EXCEPT !.jrnl.pending = Append(@, c)]
  IN  CASE ~j.on -> [w EXCEPT !.ghost = Lose(@)]
        [] j.on /\ j.suppress > 0 ->
             [w EXCEPT !.jrnl.suppress = @ - 1, !.ghost = Lose(@)]
        [] j.on /\ j.suppress = 0 /\ Len(room.jrnl.pending) >= PendingCap ->
             [room EXCEPT !.ghost = Lose(@)]
        [] OTHER -> IF c \in {"CR", "LF"} THEN jrnl_flush_pending_rx(kept, ok) ELSE kept

\* journal_capture_io_owner outside a replay
journal_capture_io_owner(w, what, ok) ==
  LET f == jrnl_flush_pending_rx(w, ok)
  IN  IF Refused(w) \/ ~ok THEN [f EXCEPT !.ghost = Lose(@)]
      ELSE Settled(jrnl_append_record(f, "OWNER", <<what>>))

\* Mutant: the new base is set before the bytes that are pending are written
journal_note_snapshot_seq_first(w, s, ok) ==
  jrnl_flush_pending_rx([w EXCEPT !.jrnl.base = IF s > @ THEN s ELSE @], ok)

\* journal_note_snapshot_seq: pending bytes are in the image, so they keep
\* the base of the snapshot before
journal_note_snapshot_seq(w, s, ok) ==
  LET f == jrnl_flush_pending_rx(w, ok)
  IN  [f EXCEPT !.jrnl.base = IF s > @ THEN s ELSE @]

-----------------------------------------------------------------------------
(* The terminal *)

\* terminal_stdin_acquire and terminal_stdin_release, but for the journal
Owned(t, b) == [t EXCEPT !.owned = b, !.sh = shell_rx_idle(@)]

\* One byte for the line editor, or for the game: ^C kills it, any other
\* key is posted to it, and "q" is the key that ends it
Deliver(w, c) ==
  IF w.term.owned
  THEN [w EXCEPT !.term = CASE c = "^C" -> [@ EXCEPT !.owned = FALSE, !.reg = FALSE, !.quit = FALSE]
                            [] c = "q" -> [@ EXCEPT !.quit = TRUE]
                            [] OTHER -> @]
  ELSE LET r == shell_tick(w.term.sh, c)
           send == r.submit /\ w.term.sh.line # <<>> /\ Len(w.cmds) < Mailbox
       IN  [w EXCEPT !.term.sh = r.sh,
                     !.cmds = IF send THEN Append(@, w.term.sh.line) ELSE @]

\* A byte is captured, then delivered
Feed(w, c, ok) ==
  LET d == Deliver(journal_capture_input_byte(w, c, ok), c)
  IN  IF d.jrnl.pending = <<>> THEN Settled(d) ELSE d

\* terminal_task_dispatch: all bytes, then shell_rx_idle
Burst(w, b, ok) ==
  LET f == FoldLeft(LAMBDA v, c : Feed(v, c, ok), w, b)
  IN  IF f.term.owned THEN f ELSE [f EXCEPT !.term.sh = shell_rx_idle(@)]

\* A handler of priority 2 is ready
Urgent == sd.q # <<>> \/ trigger \/ (term.reg /\ term.quit)

Faulty(ok) ==
  /\ ok \/ count.faults < MaxFaults
  /\ count' = IF ok THEN count ELSE [count EXCEPT !.faults = @ + 1]

Input(ok) ==
  /\ mode = "RUN" /\ ~Urgent
  /\ input # <<>> /\ input' = Tail(input)
  /\ Faulty(ok)
  /\ Become(Burst(World, Head(input), ok))
  /\ UNCHANGED <<mode, sd, trigger, snaps, last, from>>

\* snake_task_dispatch of the key that ends the game: snake_stop releases
\* stdin, if the game has it, and unregisters the game
GameStop(ok) ==
  /\ mode = "RUN" /\ term.reg /\ term.quit
  /\ Faulty(ok)
  /\ LET w == [World EXCEPT !.term = [Owned(term, FALSE) EXCEPT !.reg = FALSE, !.quit = FALSE]]
     IN  Become(IF term.owned THEN journal_capture_io_owner(w, "RELEASE", ok)
                ELSE [World EXCEPT !.term.reg = FALSE, !.term.quit = FALSE])
  /\ UNCHANGED <<mode, sd, trigger, snaps, last, from, input>>

-----------------------------------------------------------------------------
(* Commands *)

\* cmd_task_dispatch takes a line
Command(line) ==
  /\ mode = "RUN" /\ ~Urgent
  /\ cmds # <<>> /\ Head(cmds) = line

\* snake: the game is registered and takes stdin.  A replay submits the
\* line, but the command runs only after the replay: the game is not there
\* to take stdin back, so that its keys go to the line editor.
CmdGame(ok) ==
  /\ Command(<<"g">>)
  /\ Faulty(ok)
  /\ LET w == [World EXCEPT !.cmds = Tail(@)]
         owner == [w EXCEPT !.term = [Owned(@, TRUE) EXCEPT !.reg = TRUE]]
         a == journal_capture_io_owner(owner, "ACQUIRE", ok)
     IN  Become(IF term.owned THEN w ELSE [a EXCEPT !.ghost = Lose(@)])
  /\ UNCHANGED <<mode, sd, trigger, snaps, last, from, input>>

\* sdread, sdaread and sdtest
CmdRead(kind, blocks) ==
  /\ Command(IF kind = "READ" THEN <<"r">> ELSE <<"t">>)
  /\ kind = "TEST" => blocks = 1
  /\ cmds' = Tail(cmds)
  /\ sd' = sd_request(sd, Request(kind, blocks))
  /\ UNCHANGED <<mode, term, jrnl, ring, trigger, snaps, last, from, ghost, count, input>>

\* The driver is set up while the SD task may be waiting for it
Cut == [ghost EXCEPT !.cut = @ \/ sd.status = "IN_PROGRESS"]

\* sdinit
CmdSdInit ==
  /\ Command(<<"i">>)
  /\ cmds' = Tail(cmds)
  /\ sd' = sd_async_init(sd)
  /\ ghost' = Cut
  /\ UNCHANGED <<mode, term, jrnl, ring, trigger, snaps, last, from, count, input>>

\* The snapshots that can be restored, and the number of the next one
Snapshots == {s \in 1 .. MaxSnaps : snaps[s] # NoImage}
NextSnap == IF Snapshots = {} THEN 1 ELSE Max(Snapshots) + 1

\* snapnow
CmdSnapshot ==
  /\ Command(<<"n">>) /\ NextSnap <= MaxSnaps
  /\ cmds' = Tail(cmds)
  /\ trigger' = TRUE
  /\ UNCHANGED <<mode, term, jrnl, ring, sd, snaps, last, from, ghost, count, input>>

\* A line that is no command
CmdOther ==
  /\ Command(<<"x">>)
  /\ cmds' = Tail(cmds)
  /\ UNCHANGED <<mode, term, jrnl, ring, sd, trigger, snaps, last, from, ghost, count, input>>

-----------------------------------------------------------------------------
(* The SD task and its interrupt *)

\* sd_task_dispatch; it panics when a transfer ends that nobody asked for
SdDispatch(ok) ==
  /\ mode = "RUN" /\ sd.q # <<>>
  /\ Faulty(ok)
  /\ LET e == Head(sd.q).sig
     IN  \/ e \in {"READ", "TEST"} /\ sd' = sd_task_request(sd, ok) /\ mode' = mode
         \/ e \in {"DONE", "ERROR"} /\ ok /\ sd' = sd_task_complete(sd)
            /\ mode' = IF sd.op = "NONE" THEN "PANIC" ELSE mode
  /\ ghost' = [ghost EXCEPT !.cut = @ /\ sd'.op # "NONE"]
  /\ UNCHANGED <<term, cmds, jrnl, ring, trigger, snaps, last, from, input>>

\* SDMMC1_IRQHandler, between any two handlers
SdIrq(ok) ==
  /\ mode = "RUN" /\ sd.status = "IN_PROGRESS"
  /\ Faulty(ok)
  /\ sd' = IF ok THEN sd_irq_data_end(sd) ELSE sd_irq_error(sd)
  /\ mode' = IF Len(sd'.q) > SdQueueCap THEN "PANIC" ELSE mode
  /\ UNCHANGED <<term, cmds, jrnl, ring, trigger, snaps, last, from, ghost, input>>

-----------------------------------------------------------------------------
(* Snapshots *)

\* snapshot_task_systick_hook: the interval is over
SnapTick ==
  /\ mode = "RUN" /\ ~trigger /\ NextSnap <= MaxSnaps
  /\ trigger' = TRUE
  /\ UNCHANGED <<mode, term, cmds, jrnl, ring, sd, snaps, last, from, ghost, count, input>>

\* The two slots: snapshot s takes the place of snapshot s - 2
Stored(s, image) ==
  [i \in 1 .. MaxSnaps |-> IF i = s THEN image ELSE IF i = s - 2 THEN NoImage ELSE snaps[i]]

Image == [term |-> term, op |-> sd.op]

\* snapshot_write_one is refused or fails: the driver is set up anew.  A
\* write that fails has destroyed the slot.
SnapshotFails ==
  /\ mode = "RUN" /\ trigger
  /\ \/ sd_in_use(sd) /\ UNCHANGED <<snaps, count>>
     \/ ~sd_in_use(sd) /\ Faulty(FALSE) /\ snaps' = Stored(NextSnap, NoImage)
  /\ trigger' = FALSE
  /\ sd' = sd_async_init(sd)
  /\ ghost' = Cut
  /\ UNCHANGED <<mode, term, cmds, jrnl, ring, last, from, input>>

\* The session can be rebuilt from snapshot s, the latest
Based(w, s) ==
  IF w.jrnl.pending # <<>> \/ w.ghost.skew THEN w
  ELSE Settled([w EXCEPT !.ghost.complete = @ \union {s}])

\* snapshot_write_one; ok: the card takes what journal_note_snapshot_seq writes
Snapshot(ok) ==
  /\ mode = "RUN" /\ trigger /\ ~sd_in_use(sd)
  /\ Faulty(ok)
  /\ trigger' = FALSE
  /\ snaps' = Stored(NextSnap, Image)
  /\ last' = NextSnap
  /\ Become(Based(journal_note_snapshot_seq(World, NextSnap, ok), NextSnap))
  /\ UNCHANGED <<mode, sd, from, input>>

-----------------------------------------------------------------------------
(* Power losses and starts *)

\* RAM is lost
Off ==
  /\ mode' = "OFF"
  /\ term' = TermInit /\ cmds' = <<>> /\ jrnl' = JournalOff
  /\ sd' = SdInit /\ trigger' = FALSE /\ from' = 0

PowerLoss ==
  /\ mode = "RUN" /\ count.boots < MaxBoots
  /\ Off
  /\ ghost' = [ghost EXCEPT !.cut = FALSE]
  /\ UNCHANGED <<ring, snaps, last, count, input>>

\* The power fails while a record is written: the block is torn
TornAppend ==
  /\ mode = "RUN" /\ count.boots < MaxBoots
  /\ ~Refused(World)
  /\ Off
  /\ Faulty(FALSE)
  /\ ring' = [ring EXCEPT ![jrnl.next] = NoRecord]
  /\ ghost' = [Skewed(Forget(ghost, ring, jrnl.next), ring', jrnl, TRUE) EXCEPT !.cut = FALSE]
  /\ UNCHANGED <<snaps, last, input>>

\* The power fails in snapshot_write_one after the commit sector: before or
\* after the disk table, and before the journal is told
TornSnapshot(table) ==
  /\ mode = "RUN" /\ trigger /\ ~sd_in_use(sd) /\ count.boots < MaxBoots
  /\ Off
  /\ Faulty(FALSE)
  /\ snaps' = Stored(NextSnap, Image)
  /\ last' = IF table THEN NextSnap ELSE last
  /\ ghost' = IF ghost.skew THEN [ghost EXCEPT !.cut = FALSE]
              ELSE [ghost EXCEPT !.cut = FALSE, !.complete = {NextSnap}, !.durable = View(term)]
  /\ UNCHANGED <<ring, input>>

\* main_cold_boot: n blocks of the journal can be read; the disk table may not
ColdBoot(n, disk) ==
  /\ mode = "OFF"
  /\ mode' = "RUN"
  /\ LET ok == n = Blocks /\ disk
     IN  /\ ok \/ count.faults < MaxFaults
         /\ count' = [count EXCEPT !.boots = @ + 1, !.faults = IF ok THEN @ ELSE @ + 1]
  /\ jrnl' = IF disk THEN journal_configure(ring, last, n) ELSE JournalOff
  /\ ghost' = IF disk THEN Skewed(Lose(ghost), ring, jrnl', last = 0 \/ n < Blocks) ELSE Lose(ghost)
  /\ UNCHANGED <<term, cmds, ring, sd, trigger, snaps, last, from, input>>

\* What the replay of a record does; late: bytes that have just been received
\* are read before those of the record.  Nothing is captured.
journal_replay_record(w, rec, late) ==
  CASE rec.kind = "RX" ->
         [FoldLeft(Deliver, w, late \o rec.data) EXCEPT !.jrnl.suppress = @ + Len(rec.data)]
    [] rec.kind = "OWNER" ->
         IF rec.data = <<"ACQUIRE">>
         THEN IF w.term.reg /\ ~w.term.owned THEN [w EXCEPT !.term = Owned(@, TRUE)] ELSE w
         ELSE IF w.term.owned THEN [w EXCEPT !.term = Owned(@, FALSE)] ELSE w

\* The records that journal_replay_from_snapshot goes through, n blocks being
\* readable: from the oldest on, as long as their numbers grow
ReplayRecords(j, n) ==
  LET first == IF Valid(ring, j.next) THEN j.next ELSE 0
      At(i) == (first + i) % Blocks
      Fits(i) == /\ Valid(ring, At(i))
                 /\ i = 0 \/ jrnl_seq_newer(ring[At(i)].seq, ring[At(i - 1)].seq)
      m == CHOOSE k \in 0 .. n : (\A i \in 0 .. k - 1 : Fits(i)) /\ (k = n \/ ~Fits(k))
  IN  [i \in 1 .. m |-> ring[At(i - 1)]]

\* The loop of journal_replay_from_snapshot: it skips the records that the
\* image of snapshot s holds; late comes before the first bytes it replays
journal_replay_from_snapshot(w, recs, s, late) ==
  LET bytes == {i \in 1 .. Len(recs) : recs[i].kind = "RX" /\ recs[i].base >= s}
      Loop(v, i) ==
        IF recs[i].base < s THEN v
        ELSE journal_replay_record(v, recs[i], IF i \in bytes /\ i = Min(bytes) THEN late ELSE <<>>)
  IN  FoldLeft(Loop, w, [i \in 1 .. Len(recs) |-> i])

\* rewind_resume_entry: the image of snapshot s with empty queues, then
\* journal_replay_from_snapshot; scan and read blocks of the journal can be
\* read, and k bursts arrive before the first record of bytes
Resume(s, scan, read, k) ==
  /\ mode = "OFF" /\ s \in Snapshots
  /\ mode' = "RUN" /\ from' = s
  /\ k <= Len(input) /\ input' = SubSeq(input, k + 1, Len(input))
  /\ LET ok == scan = Blocks /\ read = Blocks
         late == IF k = 0 THEN <<>> ELSE Head(input)
         j == journal_configure(ring, s, scan)
         recs == ReplayRecords(j, read)
         w == [term |-> [snaps[s].term EXCEPT !.quit = FALSE], cmds |-> <<>>,
               jrnl |-> j, ring |-> ring, ghost |-> ghost]
         r == journal_replay_from_snapshot(w, recs, s, late)
         older == {t \in ghost.complete : t < s /\ s \in ghost.complete}
         g == [Lose(ghost) EXCEPT !.cut = snaps[s].op # "NONE",
                                  !.complete = IF ok /\ late = <<>> THEN older \union {s} ELSE {}]
     IN  /\ ok \/ count.faults < MaxFaults
         /\ late # <<>> => \E i \in 1 .. Len(recs) : recs[i].kind = "RX" /\ recs[i].base >= s
         /\ count' = [boots |-> count.boots + 1,
                      faults |-> count.faults + (IF ok THEN 0 ELSE 1)]
         /\ Become(Settled([r EXCEPT !.ghost = Skewed(g, ring, j, scan < Blocks)]))
  /\ sd' = [SdInit EXCEPT !.op = snaps[s].op]
  /\ UNCHANGED <<trigger, snaps, last>>

\* terminal_task_dispatch finds no more bytes after a replay
Idle ==
  /\ mode = "RUN" /\ ~Urgent /\ term.sh.eol # "NONE" /\ ~term.owned
  /\ term' = [term EXCEPT !.sh = shell_rx_idle(@)]
  /\ UNCHANGED <<mode, cmds, jrnl, ring, sd, trigger, snaps, last, from, ghost, count, input>>

-----------------------------------------------------------------------------
Init ==
  /\ mode = "RUN" /\ term = TermInit /\ cmds = <<>>
  /\ ring = [i \in 0 .. Blocks - 1 |-> NoRecord]
  /\ jrnl = journal_configure(ring, 0, Blocks)
  /\ sd = SdInit /\ trigger = FALSE
  /\ snaps = [s \in 1 .. MaxSnaps |-> NoImage] /\ last = 0 /\ from = 0
  /\ ghost = [complete |-> {}, durable |-> View(TermInit), skew |-> FALSE, cut |-> FALSE]
  /\ input \in Inputs
  /\ count = [boots |-> 0, faults |-> 0]

Next ==
  \/ \E ok \in BOOLEAN :
       \/ Input(ok) \/ GameStop(ok) \/ CmdGame(ok) \/ SdDispatch(ok) \/ SdIrq(ok) \/ Snapshot(ok)
  \/ \E kind \in {"READ", "TEST"}, blocks \in 1 .. MaxBlocks : CmdRead(kind, blocks)
  \/ CmdSdInit \/ CmdSnapshot \/ CmdOther \/ Idle
  \/ SnapTick \/ SnapshotFails
  \/ PowerLoss \/ TornAppend \/ \E table \in BOOLEAN : TornSnapshot(table)
  \/ \E n \in 0 .. Blocks, disk \in BOOLEAN : ColdBoot(n, disk)
  \/ \E s \in 1 .. MaxSnaps, scan, read \in 0 .. Blocks, k \in 0 .. 1 :
       Resume(s, scan, read, k)

Spec == Init /\ [][Next]_vars

-----------------------------------------------------------------------------
(* Properties *)

\* The state keeps its shape: in particular the 64-byte buffer of pending
\* bytes and the place of the next record stay in their bounds (journal.c:292, 379)
TypeOK ==
  /\ mode \in {"RUN", "OFF", "PANIC"}
  /\ Len(cmds) <= Mailbox
  /\ jrnl.on \in BOOLEAN /\ jrnl.next \in 0 .. Blocks - 1 /\ jrnl.seq \in 0 .. SeqWrap - 1
  /\ Len(jrnl.pending) <= PendingCap /\ jrnl.base \in 0 .. MaxSnaps /\ jrnl.suppress \in Nat
  /\ \A i \in 0 .. Blocks - 1 :
       /\ ring[i].kind \in {"NONE", "RX", "OWNER"} /\ ring[i].seq \in 0 .. SeqWrap - 1
       /\ Len(ring[i].data) <= PendingCap
  /\ sd \in SdState /\ trigger \in BOOLEAN /\ last \in 0 .. MaxSnaps /\ from \in 0 .. MaxSnaps
  /\ ghost.complete \subseteq 1 .. MaxSnaps

\* Wherever a session starts, and over the wrap of the record numbers and of
\* the ring, the blocks before the head hold the records that were written
\* last, in order: the head that jrnl_scan_tail computes is where the
\* session before had its own, unless one of the three events that ghost.skew
\* names has come between and the ring has not been rewritten since.
RingInOrder == mode = "RUN" /\ jrnl.on /\ ~ghost.skew => InOrder(ring, jrnl)

\* Resuming a snapshot and replaying the journal gives the line, the history
\* and the owner of stdin that the session had when its last byte reached
\* the card, whichever complete snapshot is resumed and however many
\* sessions ago it was taken: no record is missing, replayed twice, or
\* replayed though the image holds it (journal_replay_from_snapshot).
ReplayRebuilds ==
  [][mode = "OFF" /\ mode' = "RUN" /\ from' \in ghost.complete
       /\ count'.faults = count.faults /\ input' = input
     => View(term') = ghost.durable]_vars

\* The interrupt handler always finds room for its event, and a transfer
\* ends only while the SD task waits for it (sd_async.c:125, 169; sd_task.c:108, 142)
NoPanic == mode # "PANIC"

\* The SD task is busy only while a transfer is under way or its end is
\* queued: unless the transfer was cut off, a request does not leave
\* "sd: busy" behind for ever (sd_task.c:190)
BusyMeansInFlight ==
  \/ sd.op = "NONE" \/ ghost.cut \/ sd.status = "IN_PROGRESS"
  \/ \E i \in 1 .. Len(sd.q) : sd.q[i].sig \in {"DONE", "ERROR"}

\* The place in the history is one of its lines, whatever mix of typed and
\* replayed keys led there (lineio_async.c:90)
HistoryInBounds == term.sh.nav \in 0 .. Len(term.sh.hist)

\* The ring of records and the ring of history lines stay within their bounds
\* and in order.
RingsSound == TypeOK /\ HistoryInBounds /\ RingInOrder

\* The SD task neither panics nor stays busy without a transfer.
SdSound == NoPanic /\ BusyMeansInFlight
=============================================================================
