--------------------------- MODULE ProgramsProofs ---------------------------
(***************************************************************************)
(* Proofs about Programs, for every board, number of parts, word size,     *)
(* capacity of queues and mailbox, and every choice of command lines and   *)
(* keys: the mailbox never executes a command from a slot that is not its  *)
(* own, the snapshot trigger is never stuck, no game leaves stdin behind,  *)
(* and the states of the three programs stay sound through keys, ticks,    *)
(* kills, checkpoints, restore operations, snapshots and boots.            *)
(*                                                                         *)
(* The state is one record, ram, and a snapshot is a copy of it, so the    *)
(* inductive invariant is a predicate on such records: Sound(m).  Each     *)
(* operation on memory has a lemma, and an action is a composition.        *)
(* StdinSound has a second invariant, StdinInv, at the end of the module.  *)
(***************************************************************************)
EXTENDS Programs, NumberProofs

-----------------------------------------------------------------------------
(* The contexts of the programs *)

CounterContext ==
  [active : BOOLEAN, bg : BOOLEAN, pending : BOOLEAN, limit : Word, value : Word,
   restored : BOOLEAN, rebind : BOOLEAN]

\* A counter that runs has a limit and has not passed it
CounterOK(c) ==
  /\ c \in CounterContext
  /\ c.active => c.limit > 0 /\ c.value <= c.limit

Part == [scan : {"UNKNOWN", "PASS", "FAIL"}, loc : 0 .. RejectBin,
         state : {"RAW", "SCANNED_OK", "SCANNED_BAD", "AT_FIXTURE"} \cup Done]

LineContext ==
  [active : BOOLEAN, mode : {"RUNNING", "COMPLETE"}, selected : PartIds,
   robot : {"HOME", "BUSY", "FIXTURE", "HOME_REQUIRED"}, needs_home : BOOLEAN, op : {"NONE", "HOME", "SCAN", "PICK", "FINISH", "REJECT"},
   fixture : PartIds \cup {NoSlot}, completed : Nat, rejected : Nat,
   parts : [PartIds -> Part], pending : BOOLEAN, restored : BOOLEAN, rebind : BOOLEAN]

At(c, location) == {i \in PartIds : c.parts[i].loc = location}

\* Where a part is, what is known of it and its state go together
Kept(c) ==
  \A i \in PartIds :
    LET part == c.parts[i]
    IN  /\ part.state \in {"RAW", "SCANNED_OK", "SCANNED_BAD"} => part.loc = i
        /\ part.state = "AT_FIXTURE" => part.loc = Fixture
        /\ part.state = "DONE_GOOD" => part.loc = GoodBin /\ part.scan = "PASS"
        /\ part.state = "DONE_REJECT" => part.loc = RejectBin

\* At most one part is on the fixture: the one that fixture_slot names
LineOK(c) ==
  /\ c \in LineContext /\ Kept(c)
  /\ At(c, Fixture) = IF c.fixture = NoSlot THEN {} ELSE {c.fixture}
  /\ c.completed = Cardinality(At(c, GoodBin))
  /\ c.rejected = Cardinality(At(c, RejectBin))
  /\ c.mode = "COMPLETE" => \A i \in PartIds : c.parts[i].state \in Done
  /\ c.needs_home => c.op \in {"NONE", "HOME"} /\ c.mode = "RUNNING"

SnakeContext ==
  [active : BOOLEAN, mode : {"TITLE", "PLAYING", "PAUSED", "GAME_OVER"},
   dir : Dirs, pending_dir : Dirs, body : Seq(Board), food : Board,
   reason : {"NONE", "WALL", "SELF", "WIN"},
   armed : BOOLEAN, pending : BOOLEAN, restored : BOOLEAN, rebind : BOOLEAN]

Distinct(s) == \A i, j \in 1 .. Len(s) : i # j => s[i] # s[j]

\* A game that goes on has a neck, room to grow, and food on a free cell
SnakeOK(c) ==
  /\ c \in SnakeContext
  /\ Distinct(c.body) /\ Len(c.body) <= MaxCells
  /\ c.mode # "TITLE" => Len(c.body) > 1
  /\ c.mode \in {"PLAYING", "PAUSED"} =>
       /\ Len(c.body) < MaxCells
       /\ c.food \notin BodyCells(c)
       /\ ~snake_dir_is_opposite(c.dir, c.pending_dir)

ContextOK(p, c) == CASE p = "COUNTER" -> CounterOK(c)
                     [] p = "LINE"    -> LineOK(c)
                     [] p = "SNAKE"   -> SnakeOK(c)

\* What a checkpoint holds of a program: of a game, an active one
CounterBlob == [active : BOOLEAN, bg : BOOLEAN, limit : Word, value : Word,
                ops : Seq(Operation)]

BlobOK(p, b) ==
  CASE p = "COUNTER" -> b \in CounterBlob /\ (b.active => b.limit > 0 /\ b.value <= b.limit)
    [] p = "LINE"    -> LineOK(b) /\ b.active
    [] p = "SNAKE"   -> SnakeOK(b) /\ b.active

-----------------------------------------------------------------------------
(* Memory *)

Event == [sig : {"START"}, bg : BOOLEAN, limit : Word]
           \cup [sig : {"TICK", "TRIGGER"}]
           \cup [sig : {"RAW"}, key : UNION {Keys[p] : p \in Programs}]

Context == CounterContext \cup LineContext \cup SnakeContext

Memory ==
  [reg : SUBSET AOs, q : [AOs -> Seq(Event)], ctx : [Programs -> Context],
   counter_sched : BOOLEAN, owner : Programs \cup {NoOwner},
   used : SUBSET MailSlots, cursor : MailSlots,
   cmdq : Seq([slot : MailSlots, line : Lines]),
   sim : CounterBlob \cup {Nothing},
   snap : [enabled : BOOLEAN, pending : BOOLEAN, busy : BOOLEAN]]

\* SnapshotTriggerLive and NoStaleGameOwner of a memory
TriggerOK(m) ==
  m.snap.pending /\ ~m.snap.busy /\ "SNAPSHOT" \in m.reg => m.q["SNAPSHOT"] # <<>>

OwnerOK(m) == m.owner \in Games => m.owner \in m.reg

Sound(m) ==
  /\ m \in Memory
  /\ \A p \in AOs : Len(m.q[p]) <= QueueCap
  /\ \A p \in Programs : ContextOK(p, m.ctx[p])
  /\ m.sim # Nothing => BlobOK("COUNTER", m.sim)
  /\ OwnerOK(m)
  /\ TriggerOK(m)

\* The mailbox: every command has a slot of its own, and without a resume the
\* slots of commands are the slots that are in use
MailOK(m, flushed) ==
  /\ Len(m.cmdq) <= MailboxCap
  /\ \A i \in 1 .. Len(m.cmdq) : m.cmdq[i].slot \in m.used
  /\ \A i, j \in 1 .. Len(m.cmdq) : i # j => m.cmdq[i].slot # m.cmdq[j].slot
  /\ ~flushed => \A s \in m.used : \E i \in 1 .. Len(m.cmdq) : m.cmdq[i].slot = s

\* A checkpoint that may be restored
SavedOK(saved) == DOMAIN saved \subseteq Programs /\ \A p \in DOMAIN saved : BlobOK(p, saved[p])

IInv ==
  /\ Sound(ram) /\ MailOK(ram, resumed)
  /\ image # Nothing => Sound(image)
  /\ SavedOK(card)
  /\ {tty, resumed} \subseteq BOOLEAN

-----------------------------------------------------------------------------
(* The flags of a context, with names of their own for the provers *)

WithPending(c, b) == [c EXCEPT !.pending = b]
WithRebind(c, b) == [c EXCEPT !.rebind = b]
WithRestored(c, b) == [c EXCEPT !.restored = b]
WithActive(c) == [c EXCEPT !.active = TRUE]

-----------------------------------------------------------------------------
(* The counter *)

\* One operation keeps the value of a counter within its limit
LEMMA ApplyBounded ==
  ASSUME NEW limit \in Word, limit > 0, NEW v \in 0 .. limit, NEW op \in Operation,
         op.op \in {"ADD", "SUB", "MUL", "DIV"}, op.op = "DIV" => op.operand # 0
  PROVE  counter_apply_op(v, limit, op) \in 0 .. limit
<1>1. op.operand \in Nat /\ v \in Nat /\ limit \in Nat /\ limit < WordMod /\ WordMod \in Nat
  BY WordAssumption DEF Word, Operation
<1> DEFINE w == CASE op.op = "ADD" -> (v + op.operand) % WordMod
                  [] op.op = "SUB" -> IF v > op.operand THEN v - op.operand ELSE 1
                  [] op.op = "MUL" -> (v * op.operand) % WordMod
                  [] op.op = "DIV" -> IF v \div op.operand = 0 THEN 1 ELSE v \div op.operand
<1>2. w \in Nat
  <2>1. CASE op.op = "ADD"
    BY <1>1, <2>1, WordAssumption
  <2>2. CASE op.op = "SUB"
    BY <1>1, <2>2
  <2>3. CASE op.op = "MUL"
    <3>1. v * op.operand \in Nat
      BY <1>1
    <3> QED BY <1>1, <2>3, <3>1, WordAssumption
  <2>4. CASE op.op = "DIV"
    <3>1. v \div op.operand \in Nat
      BY <1>1, <2>4
    <3> QED BY <2>4, <3>1
  <2> QED BY <2>1, <2>2, <2>3, <2>4
<1> HIDE DEF w
<1>3. counter_apply_op(v, limit, op) = IF w > limit /\ limit # 0 THEN limit ELSE w
  BY DEF counter_apply_op, w
<1> QED BY <1>1, <1>2, <1>3

\* However many operations a restore envelope has, and whatever wraps around on
\* the way, the value they leave is within the limit
LEMMA BlobValue ==
  ASSUME NEW blob, blob.ops \in Seq(Operation), blob.limit \in Word, blob.limit > 0,
         blob.value \in 0 .. blob.limit, counter_blob_valid(blob)
  PROVE  counter_blob_value(blob) \in 0 .. blob.limit
<1> DEFINE V == 0 .. blob.limit
           Step(f, s) == IF s = {} THEN blob.value
                         ELSE counter_apply_op(f[s \ {Max(s)}], blob.limit, blob.ops[Max(s)])
           Q(f) == f = [s \in SUBSET DOMAIN blob.ops |-> Step(f, s)]
           iter == CHOOSE f : Q(f)
<1>1. counter_blob_value(blob) = iter[DOMAIN blob.ops]
  BY DEF counter_blob_value, FoldLeft, MapThenFoldSet
<1>2. PICK n \in Nat : n = Len(blob.ops) /\ DOMAIN blob.ops = 1 .. n
  OBVIOUS
<1>3. \A v \in V, i \in 1 .. n : counter_apply_op(v, blob.limit, blob.ops[i]) \in V
  <2> SUFFICES ASSUME NEW v \in V, NEW i \in 1 .. n
               PROVE  counter_apply_op(v, blob.limit, blob.ops[i]) \in V
    OBVIOUS
  <2>1. blob.ops[i] \in Operation
    BY <1>2
  <2> QED BY <1>2, <2>1, ApplyBounded DEF counter_blob_valid
<1> DEFINE g == [i \in 1 .. n |-> [v \in V |-> counter_apply_op(v, blob.limit, blob.ops[i])]]
<1>4. g \in [1 .. n -> [V -> V]]
  BY <1>3
<1>5. PICK f \in [SUBSET (1 .. n) -> V] : IsFold(f, n, blob.value, g)
  <2> HIDE DEF g, V
  <2>1. blob.value \in V
    BY DEF V
  <2> QED BY <1>4, <2>1, FoldExists
<1>6. Q(f)
  <2>1. ASSUME NEW s \in SUBSET (1 .. n) PROVE f[s] = Step(f, s)
    <3>1. CASE s = {}
      BY <1>5, <3>1 DEF IsFold
    <3>2. CASE s # {}
      <4>1. Max(s) \in 1 .. n /\ f[s \ {Max(s)}] \in V
        BY <3>2, MaxIn
      <4> QED BY <1>5, <3>2, <4>1 DEF IsFold
    <3> QED BY <3>1, <3>2
  <2>2. f = [s \in SUBSET (1 .. n) |-> f[s]]
    OBVIOUS
  <2> HIDE DEF Step
  <2>3. f = [s \in SUBSET (1 .. n) |-> Step(f, s)]
    BY <2>1, <2>2
  <2> QED BY <1>2, <2>3
<1>7. Q(iter)
  <2> HIDE DEF Q
  <2> QED BY <1>6
<1>8. \A s \in SUBSET (1 .. n) : iter[s] = Step(iter, s)
  <2> HIDE DEF iter, Step
  <2> QED BY <1>2, <1>7
<1> HIDE DEF iter
<1> DEFINE K == {k \in Nat : \A s \in SUBSET (1 .. n) : Cardinality(s) <= k => iter[s] \in V}
<1>9. 0 \in K
  <2> SUFFICES ASSUME NEW s \in SUBSET (1 .. n), Cardinality(s) <= 0 PROVE iter[s] \in V
    OBVIOUS
  <2>1. s = {}
    <3> SUFFICES ASSUME s # {} PROVE FALSE
      OBVIOUS
    <3>1. /\ Cardinality(s) \in Nat /\ IsFiniteSet(s \ {Max(s)})
          /\ Cardinality(s \ {Max(s)}) = Cardinality(s) - 1
      BY MaxLess
    <3>2. Cardinality(s \ {Max(s)}) \in Nat
      BY <3>1, FS_CardinalityType
    <3> QED BY <3>1, <3>2
  <2> QED BY <1>8, <2>1
<1>10. ASSUME NEW k \in K PROVE k + 1 \in K
  <2> SUFFICES ASSUME NEW s \in SUBSET (1 .. n), Cardinality(s) <= k + 1 PROVE iter[s] \in V
    OBVIOUS
  <2>1. CASE s = {}
    BY <1>8, <2>1
  <2>2. CASE s # {}
    <3>1. Max(s) \in 1 .. n /\ s \ {Max(s)} \in SUBSET (1 .. n)
      BY <2>2, MaxIn, MaxLess
    <3>2. Cardinality(s \ {Max(s)}) <= k
      <4>1. Cardinality(s) \in Nat /\ Cardinality(s \ {Max(s)}) = Cardinality(s) - 1
        BY <2>2, MaxLess
      <4>2. k \in Nat
        OBVIOUS
      <4> QED BY <4>1, <4>2
    <3>3. iter[s \ {Max(s)}] \in V
      BY <3>1, <3>2
    <3> QED BY <1>3, <1>8, <2>2, <3>1, <3>3
  <2> QED BY <2>1, <2>2
<1>11. K = Nat
  <2>1. K \in SUBSET Nat
    OBVIOUS
  <2> HIDE DEF K
  <2> QED BY <1>9, <1>10, <2>1, NatSets
<1>12. Cardinality(1 .. n) = n
  BY FS_Interval
<1> QED BY <1>1, <1>2, <1>11, <1>12

\* The counter is sound after each of its operations
LEMMA CounterReset ==
  ASSUME NEW c, CounterOK(c)
  PROVE  /\ CounterOK(counter_reset(c))
         /\ CounterOK(WithRestored(counter_reset(c), FALSE))
<1>1. c.restored \in BOOLEAN
  BY DEF CounterOK, CounterContext
<1>2. 0 \in Word
  BY WordAssumption DEF Word
<1>3. counter_reset(c) \in CounterContext /\ counter_reset(c).active = FALSE
  BY <1>1, <1>2 DEF counter_reset, CounterContext
<1>4. WithRestored(counter_reset(c), FALSE) \in CounterContext
  BY <1>2 DEF counter_reset, CounterContext, WithRestored
<1>5. WithRestored(counter_reset(c), FALSE).active = FALSE
  BY DEF counter_reset, WithRestored
<1> QED BY <1>3, <1>4, <1>5 DEF CounterOK

\* Changing one flag of the counter task keeps its state well formed
LEMMA CounterFlags ==
  ASSUME NEW c, CounterOK(c), NEW b \in BOOLEAN
  PROVE  /\ CounterOK(WithPending(c, b)) /\ CounterOK(WithRebind(c, b))
         /\ CounterOK(WithRestored(c, b))
BY DEF CounterOK, CounterContext, WithPending, WithRebind, WithRestored

\* counter_task_register leaves a well-formed counter
LEMMA CounterRegister ==
  ASSUME NEW c, CounterOK(c)
  PROVE  CounterOK(counter_register(c))
<1> DEFINE r == IF c.restored THEN c ELSE counter_reset(c)
<1>1. CounterOK(r)
  BY CounterReset
<1> HIDE DEF r
<1>2. counter_register(c) = [r EXCEPT !.restored = FALSE, !.rebind = r.rebind \/ (r.active /\ ~r.bg)]
  BY DEF counter_register, r
<1>3. (r.rebind \/ (r.active /\ ~r.bg)) \in BOOLEAN
  OBVIOUS
<1> QED BY <1>1, <1>2, <1>3 DEF CounterOK, CounterContext

\* counter_task_dispatch keeps the counter well formed
LEMMA CounterDispatch ==
  ASSUME NEW c, CounterOK(c), NEW e \in Event, NEW d \in counter_dispatch(c, e)
  PROVE  CounterOK(d)
<1>1. CASE e.sig = "START"
  <2>1. e.bg \in BOOLEAN /\ e.limit \in Word
    BY <1>1 DEF Event
  <2>2. d = counter_start(c, e)
    BY <1>1 DEF counter_dispatch
  <2>3. CASE c.active
    BY <2>2, <2>3 DEF counter_start
  <2>4. CASE ~c.active
    <3>1. PICK n \in Word : n = IF e.limit = 0 THEN 1 ELSE e.limit
      BY <2>1, WordAssumption DEF Word
    <3>2. n > 0 /\ 1 <= n /\ 1 \in Word
      BY <2>1, <3>1, WordAssumption DEF Word
    <3>3. d = [c EXCEPT !.active = TRUE, !.bg = e.bg, !.pending = FALSE, !.value = 1, !.limit = n]
      BY <2>2, <2>4, <3>1 DEF counter_start
    <3> QED BY <2>1, <3>2, <3>3 DEF CounterOK, CounterContext
  <2> QED BY <2>3, <2>4
<1>2. CASE e.sig = "TICK"
  <2>1. d = counter_step(c)
    BY <1>2 DEF counter_dispatch
  <2>2. CASE ~c.active \/ c.value >= c.limit
    BY <2>1, <2>2, CounterReset DEF counter_step
  <2>3. CASE c.active /\ ~(c.value >= c.limit)
    <3>1. c.value + 1 \in Word /\ c.value + 1 <= c.limit
      BY <2>3, WordAssumption DEF CounterOK, CounterContext, Word
    <3>2. d = [c EXCEPT !.value = c.value + 1, !.pending = FALSE]
      BY <2>1, <2>3 DEF counter_step
    <3> QED BY <2>3, <3>1, <3>2 DEF CounterOK, CounterContext
  <2> QED BY <2>2, <2>3
<1>3. CASE e.sig \notin {"START", "TICK"}
  BY <1>3 DEF counter_dispatch
<1> QED BY <1>1, <1>2, <1>3

\* The saved image of the counter is well formed
LEMMA CounterEncode ==
  ASSUME NEW c, CounterOK(c), NEW ops \in Seq(Operation)
  PROVE  BlobOK("COUNTER", counter_encode(c, ops))
BY DEF CounterOK, CounterContext, counter_encode, BlobOK, CounterBlob

\* Restoring the counter gives a well-formed counter
LEMMA CounterRestore ==
  ASSUME NEW c, NEW b, BlobOK("COUNTER", b), b.active, counter_blob_valid(b),
         NEW lock \in BOOLEAN
  PROVE  CounterOK(counter_restore(c, b, lock))
<1>1. b \in CounterBlob /\ b.limit > 0 /\ b.value <= b.limit
  BY DEF BlobOK
<1>2. b.limit \in Word /\ b.value \in 0 .. b.limit /\ b.ops \in Seq(Operation) /\ b.bg \in BOOLEAN
  BY <1>1, WordAssumption DEF CounterBlob, Word
<1>3. counter_blob_value(b) \in 0 .. b.limit
  BY <1>1, <1>2, BlobValue
<1>4. counter_blob_value(b) \in Word /\ counter_blob_value(b) <= b.limit
  BY <1>2, <1>3, WordAssumption DEF Word
<1>5. (~b.bg /\ lock) \in BOOLEAN
  OBVIOUS
<1> QED BY <1>1, <1>2, <1>4, <1>5 DEF counter_restore, CounterOK, CounterContext

-----------------------------------------------------------------------------
(* The assembly line *)

\* Places are distinct, and there are finitely many parts
LEMMA Places ==
  /\ Parts \in Nat /\ PartIds \subseteq Nat /\ 0 \in PartIds
  /\ \A i \in PartIds : i \in 0 .. RejectBin /\ i \notin {NoSlot, Fixture, GoodBin, RejectBin}
  /\ {NoSlot, Fixture, GoodBin, RejectBin} \subseteq 0 .. RejectBin
  /\ Fixture # GoodBin /\ Fixture # RejectBin /\ GoodBin # RejectBin /\ Fixture = NoSlot
BY PartsAssumption DEF PartIds, NoSlot, Fixture, GoodBin, RejectBin

\* The parts in the bins of the line are finitely many
LEMMA BinsFinite ==
  ASSUME NEW c, NEW location
  PROVE  IsFiniteSet(At(c, location))
<1>1. IsFiniteSet(PartIds)
  BY Places, FS_Interval, PartsAssumption DEF PartIds
<1>2. At(c, location) \in SUBSET PartIds
  BY DEF At
<1> QED BY <1>1, <1>2, FS_Subset

\* An operation that leaves parts and books alone
LEMMA LineFrame ==
  ASSUME NEW c, LineOK(c), NEW d \in LineContext,
         d.parts = c.parts, d.fixture = c.fixture, d.completed = c.completed,
         d.rejected = c.rejected, d.mode = c.mode,
         d.needs_home => d.op \in {"NONE", "HOME"} /\ d.mode = "RUNNING"
  PROVE  LineOK(d)
BY DEF LineOK, Kept, At

\* Changing one flag of the assembly line keeps its state well formed
LEMMA LineFlags ==
  ASSUME NEW c, LineOK(c), NEW b \in BOOLEAN
  PROVE  /\ LineOK(WithPending(c, b)) /\ LineOK(WithRebind(c, b))
         /\ LineOK(WithRestored(c, b))
<1>1. c \in LineContext /\ (c.needs_home => c.op \in {"NONE", "HOME"} /\ c.mode = "RUNNING")
  BY DEF LineOK
<1>2. ASSUME NEW d, d \in {WithPending(c, b), WithRebind(c, b), WithRestored(c, b)}
      PROVE  /\ d \in LineContext /\ d.parts = c.parts /\ d.fixture = c.fixture
             /\ d.completed = c.completed /\ d.rejected = c.rejected /\ d.mode = c.mode
             /\ d.needs_home = c.needs_home /\ d.op = c.op
  BY <1>1, <1>2 DEF LineContext, WithPending, WithRebind, WithRestored
<1> QED BY <1>1, <1>2, LineFrame

\* A line whose parts are all where they begin
LEMMA LineFresh ==
  ASSUME NEW d \in LineContext, d.parts = [i \in PartIds |-> NewPart(i)],
         d.fixture = NoSlot, d.completed = 0, d.rejected = 0, d.mode = "RUNNING",
         d.needs_home = FALSE
  PROVE  LineOK(d)
<1>1. \A i \in PartIds : d.parts[i].loc = i /\ d.parts[i].state = "RAW"
  BY DEF NewPart
<1>2. At(d, Fixture) = {} /\ At(d, GoodBin) = {} /\ At(d, RejectBin) = {}
  <2>1. \A i \in PartIds : d.parts[i].loc = i
    BY <1>1
  <2>2. \A i \in PartIds : d.parts[i].loc \notin {Fixture, GoodBin, RejectBin}
    BY <2>1, Places
  <2> QED BY <2>2 DEF At
<1>3. Kept(d)
  BY <1>1 DEF Kept
<1> QED BY <1>2, <1>3, FS_EmptySet DEF LineOK

\* The parts of a new line are parts
LEMMA FreshParts == [i \in PartIds |-> NewPart(i)] \in [PartIds -> Part]
BY Places DEF NewPart, Part

\* The line after start-up
LEMMA LineStarts == LineOK(LineInit)
<1>1. LineInit \in LineContext
  BY FreshParts, Places DEF LineInit, line_reset, LineContext
<1> QED BY <1>1, LineFresh DEF LineInit, line_reset

\* A line that is switched off or begins anew
LEMMA LineReset ==
  ASSUME NEW c, LineOK(c)
  PROVE  /\ LineOK(line_reset(c)) /\ LineOK(line_seed(c))
         /\ LineOK(WithRestored(line_reset(c), FALSE))
<1>1. c \in LineContext
  BY DEF LineOK
<1>2. line_reset(c) \in LineContext
  BY <1>1, FreshParts, Places DEF line_reset, LineContext
<1>3. PICK r \in LineContext : r = line_reset(c)
  BY <1>2
<1>4. /\ r.parts = [i \in PartIds |-> NewPart(i)] /\ r.fixture = NoSlot /\ r.completed = 0
      /\ r.rejected = 0 /\ r.mode = "RUNNING" /\ r.needs_home = FALSE
  BY <1>3 DEF line_reset
<1>5. LineOK(r)
  BY <1>4, LineFresh
<1>6. LineOK([r EXCEPT !.active = TRUE])
  <2>1. PICK d \in LineContext : d = [r EXCEPT !.active = TRUE]
    BY DEF LineContext
  <2>2. /\ d.parts = r.parts /\ d.fixture = NoSlot /\ d.completed = 0
        /\ d.rejected = 0 /\ d.mode = "RUNNING" /\ d.needs_home = FALSE
    BY <1>4, <2>1 DEF LineContext
  <2> QED BY <1>4, <2>1, <2>2, LineFresh
<1>7. LineOK(WithRestored(r, FALSE))
  BY <1>5, LineFlags
<1> QED BY <1>3, <1>5, <1>6, <1>7 DEF line_seed

\* assembly_line_task_register leaves a well-formed line
LEMMA LineRegister ==
  ASSUME NEW c, LineOK(c)
  PROVE  LineOK(line_register(c))
<1> DEFINE r == IF c.restored THEN c ELSE line_reset(c)
<1>1. LineOK(r)
  <2>2. LineOK(line_reset(c))
    BY LineReset
  <2>3. CASE c.restored
    BY <2>3
  <2>4. CASE ~c.restored
    BY <2>2, <2>4
  <2> QED BY <2>3, <2>4
<1> HIDE DEF r
<1>2. PICK b \in BOOLEAN : b = (r.rebind \/ r.active)
  OBVIOUS
<1>3. LineOK(WithRebind(WithRestored(r, FALSE), b))
  BY <1>1, LineFlags
<1>4. r \in LineContext
  BY <1>1 DEF LineOK
<1>5. line_register(c) = WithRebind(WithRestored(r, FALSE), b)
  <2>1. line_register(c) = [r EXCEPT !.restored = FALSE, !.rebind = r.rebind \/ r.active]
    BY DEF line_register, r
  <2> QED BY <1>2, <1>4, <2>1 DEF LineContext, WithRebind, WithRestored
<1> QED BY <1>3, <1>5

\* Only part number s can be found in slot s, and only part number fixture_slot
\* on the fixture
LEMMA LineFind ==
  ASSUME NEW c, LineOK(c)
  PROVE  /\ \A i \in line_find(c, c.selected) :
              i = c.selected /\ i \in PartIds /\ c.parts[i].loc = i /\ c.parts[i].state \notin Done
         /\ \A i \in line_find(c, Fixture) :
              i = c.fixture /\ i \in PartIds /\ c.parts[i].loc = Fixture
                /\ c.parts[i].state \notin Done
<1>1. ASSUME NEW i \in line_find(c, c.selected) PROVE i = c.selected /\ i \in PartIds
  <2>1. i \in PartIds /\ c.parts[i].loc = c.selected /\ c.parts[i].state \notin Done
    BY DEF line_find
  <2>2. c.selected \in PartIds /\ c.parts[i] \in Part
    BY <2>1 DEF LineOK, LineContext
  <2>3. c.parts[i].state # "AT_FIXTURE"
    BY <2>1, <2>2, Places DEF LineOK, Kept
  <2> QED BY <2>1, <2>2, <2>3 DEF LineOK, Kept, Part
<1>2. ASSUME NEW i \in line_find(c, Fixture) PROVE i = c.fixture /\ i \in PartIds
  <2>1. i \in At(c, Fixture) /\ i \in PartIds
    BY DEF line_find, At
  <2> QED BY <2>1 DEF LineOK
<1> QED BY <1>1, <1>2 DEF line_find

\* d has the parts of c after part x has been moved
Moved(c, d, x, location, state) == d.parts = MoveTo(c, {x}, location, state)

\* The parts of each place after part x has been moved
LEMMA MovePart ==
  ASSUME NEW c, LineOK(c), NEW x \in PartIds, NEW location \in {Fixture, GoodBin, RejectBin},
         NEW state, c.parts[x].loc # location,
         NEW d, Moved(c, d, x, location, state)
  PROVE  /\ At(d, location) = At(c, location) \cup {x} /\ x \notin At(c, location)
         /\ \A other : other # location => At(d, other) = At(c, other) \ {x}
<1>1. \A i \in PartIds \ {x} : d.parts[i] = c.parts[i]
  BY DEF MoveTo, Moved
<1>2. d.parts[x] = [c.parts[x] EXCEPT !.loc = location, !.state = state]
  BY DEF MoveTo, Moved
<1>3. c.parts[x] \in Part
  BY DEF LineOK, LineContext
<1>4. d.parts[x].loc = location /\ d.parts[x].state = state /\ d.parts[x].scan = c.parts[x].scan
  BY <1>2, <1>3 DEF Part
<1> QED BY <1>1, <1>4 DEF At

\* The context after a part has been moved, but for the counts and fixture_slot
LEMMA MoveKept ==
  ASSUME NEW c, LineOK(c), NEW x \in PartIds, NEW location \in {Fixture, GoodBin, RejectBin},
         NEW state \in {"AT_FIXTURE"} \cup Done,
         state = "AT_FIXTURE" => location = Fixture,
         state = "DONE_GOOD" => location = GoodBin /\ c.parts[x].scan = "PASS",
         state = "DONE_REJECT" => location = RejectBin,
         c.parts[x].loc # location,
         NEW d, Moved(c, d, x, location, state)
  PROVE  d.parts \in [PartIds -> Part] /\ Kept(d)
<1>1. c.parts \in [PartIds -> Part]
  BY DEF LineOK, LineContext
<1>2. /\ \A i \in PartIds \ {x} : d.parts[i] = c.parts[i]
      /\ d.parts[x].loc = location /\ d.parts[x].state = state /\ d.parts[x].scan = c.parts[x].scan
  BY <1>1 DEF MoveTo, Moved, Part
<1>3. d.parts \in [PartIds -> Part]
  <2>1. ASSUME NEW i \in PartIds
        PROVE  (IF i \in {x} THEN [c.parts[i] EXCEPT !.loc = location, !.state = state]
                ELSE c.parts[i]) \in Part
    BY <1>1, Places DEF Part
  <2> QED BY <2>1 DEF MoveTo, Moved
<1>4. Kept(d)
  <2> SUFFICES ASSUME NEW i \in PartIds
               PROVE  /\ d.parts[i].state \in {"RAW", "SCANNED_OK", "SCANNED_BAD"} => d.parts[i].loc = i
                      /\ d.parts[i].state = "AT_FIXTURE" => d.parts[i].loc = Fixture
                      /\ d.parts[i].state = "DONE_GOOD" => d.parts[i].loc = GoodBin /\ d.parts[i].scan = "PASS"
                      /\ d.parts[i].state = "DONE_REJECT" => d.parts[i].loc = RejectBin
    BY DEF Kept
  <2>1. CASE i # x
    BY <1>2, <2>1 DEF LineOK, Kept
  <2>2. CASE i = x
    BY <1>2, <2>2 DEF Done
  <2> QED BY <2>1, <2>2
<1> QED BY <1>3, <1>4

\* The scan tells good parts from bad ones
LEMMA LineScan ==
  ASSUME NEW c, LineOK(c)
  PROVE  LineOK(line_finish_scan(c))
<1> DEFINE part == line_find(c, c.selected)
           x == c.selected
<1>1. CASE \A i \in part : c.parts[i].state # "RAW"
  BY <1>1 DEF line_finish_scan
<1>2. CASE \E i \in part : c.parts[i].state = "RAW"
  <2>1. part = {x} /\ x \in PartIds /\ c.parts[x].state = "RAW" /\ c.parts[x].loc = x
    BY <1>2, LineFind
  <2>2. c \in LineContext /\ c.parts \in [PartIds -> Part]
    BY DEF LineOK, LineContext
  <2> DEFINE new == [c.parts[x] EXCEPT !.scan = IF x % 2 = 0 THEN "PASS" ELSE "FAIL",
                                       !.state = IF x % 2 = 0 THEN "SCANNED_OK" ELSE "SCANNED_BAD"]
             parts == [i \in PartIds |-> IF i # x THEN c.parts[i] ELSE new]
  <2>3. /\ new \in Part /\ new.loc = x /\ new.state \in {"SCANNED_OK", "SCANNED_BAD"}
    BY <2>1, <2>2 DEF Part
  <2>4. line_finish_scan(c) = [c EXCEPT !.robot = "HOME", !.parts = parts]
    <3> HIDE DEF part
    <3>1. line_finish_scan(c) = [c EXCEPT !.robot = "HOME",
             !.parts = [i \in PartIds |->
              IF i \notin part THEN c.parts[i]
              ELSE [c.parts[i] EXCEPT
                      !.scan = IF i % 2 = 0 THEN "PASS" ELSE "FAIL",
                      !.state = IF i % 2 = 0 THEN "SCANNED_OK" ELSE "SCANNED_BAD"]]]
      BY <1>2 DEF line_finish_scan, part
    <3>2. \A i \in PartIds : (IF i \notin part THEN c.parts[i]
              ELSE [c.parts[i] EXCEPT
                      !.scan = IF i % 2 = 0 THEN "PASS" ELSE "FAIL",
                      !.state = IF i % 2 = 0 THEN "SCANNED_OK" ELSE "SCANNED_BAD"]) = parts[i]
      BY <2>1
    <3>3. [i \in PartIds |->
              IF i \notin part THEN c.parts[i]
              ELSE [c.parts[i] EXCEPT
                      !.scan = IF i % 2 = 0 THEN "PASS" ELSE "FAIL",
                      !.state = IF i % 2 = 0 THEN "SCANNED_OK" ELSE "SCANNED_BAD"]] = parts
      <4> HIDE DEF new
      <4> QED BY <3>2, Zenon
    <3> HIDE DEF parts
    <3> QED BY <3>1, <3>3, Zenon
  <2> HIDE DEF new
  <2>5. parts \in [PartIds -> Part]
    BY <2>2, <2>3
  <2>6. PICK d \in LineContext : d = [c EXCEPT !.robot = "HOME", !.parts = parts]
    BY <2>2, <2>5 DEF LineContext
  <2>7. /\ d.parts = parts /\ d.fixture = c.fixture /\ d.completed = c.completed
        /\ d.rejected = c.rejected /\ d.mode = c.mode /\ d.needs_home = c.needs_home /\ d.op = c.op
    BY <2>2, <2>6, ZenonT(60) DEF LineContext
  <2>8. \A i \in PartIds : d.parts[i].loc = c.parts[i].loc
    BY <2>1, <2>3, <2>7
  <2>9. \A location : At(d, location) = At(c, location)
    BY <2>8 DEF At
  <2>10. Kept(d)
    <3>1. \A i \in PartIds : i # x => d.parts[i] = c.parts[i]
      BY <2>7
    <3>2. d.parts[x] = new
      BY <2>1, <2>7
    <3> QED BY <2>3, <3>1, <3>2 DEF Kept, LineOK
  <2>11. c.mode # "COMPLETE"
    BY <2>1 DEF LineOK, Done
  <2>12. LineOK(d)
    <3> HIDE DEF parts
    <3> QED BY <2>7, <2>9, <2>10, <2>11 DEF LineOK
  <2> QED BY <2>4, <2>6, <2>12
<1> QED BY <1>1, <1>2

\* A part goes to the fixture only when nothing is on it
LEMMA LinePick ==
  ASSUME NEW c, LineOK(c)
  PROVE  LineOK(line_finish_pick(c))
<1> DEFINE part == line_find(c, c.selected)
           x == c.selected
<1>1. CASE \/ c.fixture # NoSlot
           \/ \A i \in part : c.parts[i].state \notin {"SCANNED_OK", "SCANNED_BAD"}
  BY <1>1 DEF line_finish_pick
<1>2. CASE /\ c.fixture = NoSlot
           /\ \E i \in part : c.parts[i].state \in {"SCANNED_OK", "SCANNED_BAD"}
  <2>1. /\ part = {x} /\ x \in PartIds /\ c.parts[x].loc = x
        /\ c.parts[x].state \in {"SCANNED_OK", "SCANNED_BAD"}
    BY <1>2, LineFind
  <2>2. c \in LineContext
    BY DEF LineOK
  <2>3. PICK parts : parts = MoveTo(c, {x}, Fixture, "AT_FIXTURE")
    OBVIOUS
  <2>4. line_finish_pick(c) = [c EXCEPT !.parts = parts, !.fixture = x, !.robot = "FIXTURE"]
    BY <1>2, <2>1, <2>3 DEF line_finish_pick
  <2>5. c.parts[x].loc # Fixture
    BY <2>1, Places
  <2>6. Moved(c, [parts |-> parts], x, Fixture, "AT_FIXTURE")
    BY <2>3 DEF Moved
  <2>6a. [parts |-> parts].parts \in [PartIds -> Part] /\ Kept([parts |-> parts])
    BY <2>1, <2>5, <2>6, MoveKept
  <2>7. PICK d \in LineContext : d = [c EXCEPT !.parts = parts, !.fixture = x, !.robot = "FIXTURE"]
    BY <2>1, <2>2, <2>6a DEF LineContext
  <2>8. /\ d.parts = parts /\ d.fixture = x /\ d.completed = c.completed
        /\ d.rejected = c.rejected /\ d.mode = c.mode /\ d.needs_home = c.needs_home /\ d.op = c.op
    BY <2>2, <2>7 DEF LineContext
  <2>9. Kept(d)
    BY <2>6a, <2>8 DEF Kept
  <2>10. /\ At(d, Fixture) = At(c, Fixture) \cup {x}
         /\ At(d, GoodBin) = At(c, GoodBin) \ {x} /\ At(d, RejectBin) = At(c, RejectBin) \ {x}
    <3>1. Moved(c, d, x, Fixture, "AT_FIXTURE")
      BY <2>3, <2>8 DEF Moved
    <3>2. /\ At(d, Fixture) = At(c, Fixture) \cup {x}
          /\ \A other : other # Fixture => At(d, other) = At(c, other) \ {x}
      BY <2>1, <2>5, <3>1, MovePart
    <3> QED BY <3>2, Places
  <2>11. At(d, Fixture) = {x} /\ At(d, GoodBin) = At(c, GoodBin) /\ At(d, RejectBin) = At(c, RejectBin)
    BY <1>2, <2>1, <2>10, Places DEF LineOK, At
  <2>12. c.mode # "COMPLETE" /\ x # NoSlot
    BY <2>1, Places DEF LineOK, Done
  <2>13. LineOK(d)
    BY <2>8, <2>9, <2>11, <2>12 DEF LineOK
  <2> QED BY <2>4, <2>7, <2>13
<1> QED BY <1>1, <1>2

\* One more part in a bin
LEMMA BinGrows ==
  ASSUME NEW c, NEW d, NEW location, NEW x, x \notin At(c, location),
         At(d, location) = At(c, location) \cup {x}
  PROVE  Cardinality(At(d, location)) = Cardinality(At(c, location)) + 1
BY BinsFinite, FS_AddElement

\* The part on the fixture, if its scan was good, is finished
LEMMA LineGood ==
  ASSUME NEW c, LineOK(c)
  PROVE  LineOK(line_finish_good(c))
<1> DEFINE part == line_find(c, Fixture)
           x == c.fixture
<1>1. CASE \A i \in part : c.parts[i].scan # "PASS"
  BY <1>1 DEF line_finish_good
<1>2. CASE \E i \in part : c.parts[i].scan = "PASS"
  <2>1. /\ part = {x} /\ x \in PartIds /\ c.parts[x].loc = Fixture
        /\ c.parts[x].scan = "PASS" /\ c.parts[x].state \notin Done
    BY <1>2, LineFind
  <2>2. c \in LineContext /\ c.completed \in Nat
    BY DEF LineOK, LineContext
  <2>3. PICK parts : parts = MoveTo(c, {x}, GoodBin, "DONE_GOOD")
    OBVIOUS
  <2>4. line_finish_good(c) = [c EXCEPT !.parts = parts, !.fixture = NoSlot,
                                         !.completed = c.completed + 1, !.robot = "HOME"]
    BY <1>2, <2>1, <2>3 DEF line_finish_good
  <2>5. c.parts[x].loc # GoodBin
    BY <2>1, Places
  <2>6. Moved(c, [parts |-> parts], x, GoodBin, "DONE_GOOD")
    BY <2>3 DEF Moved
  <2>7. [parts |-> parts].parts \in [PartIds -> Part] /\ Kept([parts |-> parts])
    BY <2>1, <2>5, <2>6, MoveKept DEF Done
  <2>8. PICK d \in LineContext : d = [c EXCEPT !.parts = parts, !.fixture = NoSlot,
                                         !.completed = c.completed + 1, !.robot = "HOME"]
    <3>1. parts \in [PartIds -> Part]
      BY <2>7
    <3>2. PICK n \in Nat : n = c.completed + 1
      BY <2>2
    <3>3. [c EXCEPT !.parts = parts, !.fixture = NoSlot, !.completed = n, !.robot = "HOME"]
            \in LineContext
      BY <2>2, <3>1 DEF LineContext
    <3> QED BY <3>2, <3>3
  <2>9. /\ d.parts = parts /\ d.fixture = NoSlot /\ d.completed = c.completed + 1
        /\ d.rejected = c.rejected /\ d.mode = c.mode /\ d.needs_home = c.needs_home /\ d.op = c.op
    BY <2>2, <2>8 DEF LineContext
  <2>10. Kept(d)
    BY <2>7, <2>9 DEF Kept
  <2>11. Moved(c, d, x, GoodBin, "DONE_GOOD")
    BY <2>3, <2>9 DEF Moved
  <2>12. /\ At(d, GoodBin) = At(c, GoodBin) \cup {x} /\ x \notin At(c, GoodBin)
         /\ \A other : other # GoodBin => At(d, other) = At(c, other) \ {x}
    BY <2>1, <2>5, <2>11, MovePart
  <2>13. At(d, Fixture) = {} /\ At(d, RejectBin) = At(c, RejectBin)
    BY <2>1, <2>12, Places, SMTT(30) DEF LineOK, At
  <2>14. Cardinality(At(d, GoodBin)) = Cardinality(At(c, GoodBin)) + 1
    BY <2>12, BinGrows
  <2>15. c.mode # "COMPLETE"
    BY <2>1 DEF LineOK
  <2>16. LineOK(d)
    BY <2>9, <2>10, <2>13, <2>14, <2>15 DEF LineOK
  <2> QED BY <2>4, <2>8, <2>16
<1> QED BY <1>1, <1>2

Rejected(c, parts, fixture) ==
  [c EXCEPT !.parts = parts, !.fixture = fixture, !.rejected = @ + 1, !.robot = "HOME"]

\* Part x goes to the bin of rejects
LEMMA LineRejects ==
  ASSUME NEW c, LineOK(c), NEW x \in PartIds, c.parts[x].state \notin Done,
         c.parts[x].loc # RejectBin, c.parts[x].loc # GoodBin,
         NEW parts, parts = MoveTo(c, {x}, RejectBin, "DONE_REJECT"),
         NEW fixture \in PartIds \cup {NoSlot},
         At(c, Fixture) \ {x} = IF fixture = NoSlot THEN {} ELSE {fixture}
  PROVE  LineOK(Rejected(c, parts, fixture))
<1>1. c \in LineContext /\ c.rejected \in Nat
  BY DEF LineOK, LineContext
<1>2. Moved(c, [parts |-> parts], x, RejectBin, "DONE_REJECT")
  BY DEF Moved
<1>3. [parts |-> parts].parts \in [PartIds -> Part] /\ Kept([parts |-> parts])
  BY <1>2, MoveKept DEF Done
<1>4. PICK d \in LineContext : d = Rejected(c, parts, fixture)
  <2>1. parts \in [PartIds -> Part]
    BY <1>3
  <2>2. PICK n \in Nat : n = c.rejected + 1
    BY <1>1
  <2>3. [c EXCEPT !.parts = parts, !.fixture = fixture, !.rejected = n, !.robot = "HOME"]
          \in LineContext
    BY <1>1, <2>1 DEF LineContext
  <2> QED BY <2>2, <2>3 DEF Rejected
<1>5. /\ d.parts = parts /\ d.fixture = fixture /\ d.rejected = c.rejected + 1
      /\ d.completed = c.completed /\ d.mode = c.mode /\ d.needs_home = c.needs_home /\ d.op = c.op
  BY <1>1, <1>4 DEF LineContext, Rejected
<1>6. Kept(d)
  BY <1>3, <1>5 DEF Kept
<1>7. Moved(c, d, x, RejectBin, "DONE_REJECT")
  BY <1>5 DEF Moved
<1>8. /\ At(d, RejectBin) = At(c, RejectBin) \cup {x} /\ x \notin At(c, RejectBin)
      /\ \A other : other # RejectBin => At(d, other) = At(c, other) \ {x}
  BY <1>7, MovePart
<1>9. At(d, Fixture) = At(c, Fixture) \ {x} /\ At(d, GoodBin) = At(c, GoodBin)
  BY <1>8, Places DEF At
<1>10. Cardinality(At(d, RejectBin)) = Cardinality(At(c, RejectBin)) + 1
  BY <1>8, BinGrows
<1>11. c.mode # "COMPLETE"
  BY DEF LineOK
<1>12. LineOK(d)
  BY <1>5, <1>6, <1>9, <1>10, <1>11 DEF LineOK
<1> QED BY <1>4, <1>12

\* The part on the fixture is rejected, or else a bad one in the selected slot
LEMMA LineReject ==
  ASSUME NEW c, LineOK(c)
  PROVE  LineOK(line_finish_reject(c))
<1> DEFINE atFixture == line_find(c, Fixture)
           bad == {i \in line_find(c, c.selected) : c.parts[i].state = "SCANNED_BAD"}
<1>1. CASE atFixture # {}
  <2>1. PICK x : x = c.fixture
    OBVIOUS
  <2>2. /\ atFixture = {x} /\ x \in PartIds /\ c.parts[x].loc = Fixture
        /\ c.parts[x].state \notin Done
    BY <1>1, <2>1, LineFind
  <2>3. PICK parts : parts = MoveTo(c, {x}, RejectBin, "DONE_REJECT")
    OBVIOUS
  <2>4. line_finish_reject(c) = Rejected(c, parts, NoSlot)
    BY <2>2, <2>3 DEF line_finish_reject, Rejected
  <2>5. At(c, Fixture) \ {x} = {}
    BY <2>1, <2>2, Places DEF LineOK
  <2>6. c.parts[x].loc # RejectBin /\ c.parts[x].loc # GoodBin
    BY <2>2, Places
  <2> QED BY <2>2, <2>3, <2>4, <2>5, <2>6, LineRejects
<1>2. CASE atFixture = {} /\ bad # {}
  <2>1. PICK x : x = c.selected
    OBVIOUS
  <2>2. /\ bad = {x} /\ x \in PartIds /\ c.parts[x].loc = x /\ c.parts[x].state \notin Done
    BY <1>2, <2>1, LineFind
  <2>3. PICK parts : parts = MoveTo(c, {x}, RejectBin, "DONE_REJECT")
    OBVIOUS
  <2>4. line_finish_reject(c) = Rejected(c, parts, c.fixture)
    BY <1>2, <2>2, <2>3 DEF line_finish_reject, Rejected
  <2>5. c.parts[x].loc # RejectBin /\ c.parts[x].loc # GoodBin /\ x \notin At(c, Fixture)
    BY <2>2, Places DEF At
  <2>6. PICK f \in PartIds \cup {NoSlot} : f = c.fixture
    BY DEF LineOK, LineContext
  <2>7. At(c, Fixture) \ {x} = IF f = NoSlot THEN {} ELSE {f}
    BY <2>5, <2>6 DEF LineOK
  <2> QED BY <2>2, <2>3, <2>4, <2>5, <2>6, <2>7, LineRejects
<1>3. CASE atFixture = {} /\ bad = {}
  BY <1>3 DEF line_finish_reject
<1> QED BY <1>1, <1>2, <1>3

\* The end of an operation
LEMMA LineComplete ==
  ASSUME NEW c, LineOK(c)
  PROVE  LineOK(line_complete_pending_op(c))
<1>1. ASSUME NEW d, LineOK(d) PROVE LineOK(line_check_complete(d))
  <2>1. d \in LineContext
    BY <1>1 DEF LineOK
  <2> DEFINE all == /\ \A i \in PartIds : d.parts[i].state \in Done
                    /\ d.fixture = NoSlot /\ d.op = "NONE"
  <2>2. CASE ~all
    BY <1>1, <2>2 DEF line_check_complete
  <2>3. CASE all
    <3>1. line_check_complete(d) = [d EXCEPT !.mode = "COMPLETE", !.robot = "HOME", !.needs_home = FALSE]
      BY <2>3 DEF line_check_complete
    <3>2. PICK e \in LineContext :
            e = [d EXCEPT !.mode = "COMPLETE", !.robot = "HOME", !.needs_home = FALSE]
      BY <2>1 DEF LineContext
    <3>3. /\ e.parts = d.parts /\ e.fixture = d.fixture /\ e.completed = d.completed
          /\ e.rejected = d.rejected /\ e.mode = "COMPLETE" /\ e.needs_home = FALSE
      BY <2>1, <3>2 DEF LineContext
    <3>4. Kept(e) /\ \A location : At(e, location) = At(d, location)
      BY <1>1, <3>3 DEF LineOK, Kept, At
    <3>5. LineOK(e)
      BY <1>1, <2>3, <3>3, <3>4 DEF LineOK
    <3> QED BY <3>1, <3>2, <3>5
  <2> QED BY <2>2, <2>3
<1>2. c \in LineContext
  BY DEF LineOK
<1>3. PICK idle \in LineContext : idle = [c EXCEPT !.op = "NONE", !.pending = FALSE]
  BY <1>2 DEF LineContext
<1>4. /\ idle.parts = c.parts /\ idle.fixture = c.fixture /\ idle.completed = c.completed
      /\ idle.rejected = c.rejected /\ idle.mode = c.mode /\ idle.op = "NONE"
      /\ idle.needs_home = c.needs_home
  BY <1>2, <1>3 DEF LineContext
<1>5. LineOK(idle)
  <2>1. idle.needs_home => idle.mode = "RUNNING"
    BY <1>4 DEF LineOK
  <2> QED BY <1>4, <2>1, LineFrame
<1>6. PICK home \in LineContext : home = [idle EXCEPT !.robot = "HOME", !.needs_home = FALSE]
  BY DEF LineContext
<1>7. LineOK(home)
  <2>1. /\ home.parts = idle.parts /\ home.fixture = idle.fixture /\ home.completed = idle.completed
        /\ home.rejected = idle.rejected /\ home.mode = idle.mode /\ home.needs_home = FALSE
    BY <1>6 DEF LineContext
  <2> QED BY <1>5, <2>1, LineFrame
<1> DEFINE finished ==
        CASE c.op = "HOME"   -> home
          [] c.op = "SCAN"   -> line_finish_scan(idle)
          [] c.op = "PICK"   -> line_finish_pick(idle)
          [] c.op = "FINISH" -> line_finish_good(idle)
          [] c.op = "REJECT" -> line_finish_reject(idle)
          [] OTHER -> idle
<1>8. LineOK(finished)
  <2>1. /\ LineOK(line_finish_scan(idle)) /\ LineOK(line_finish_pick(idle))
        /\ LineOK(line_finish_good(idle)) /\ LineOK(line_finish_reject(idle))
    BY <1>5, LineScan, LinePick, LineGood, LineReject
  <2>2. c.op \in {"NONE", "HOME", "SCAN", "PICK", "FINISH", "REJECT"}
    BY <1>2 DEF LineContext
  <2> QED BY <1>5, <1>7, <2>1, <2>2
<1>9. line_complete_pending_op(c) = line_check_complete(finished)
  BY <1>3, <1>6, Zenon DEF line_complete_pending_op
<1> HIDE DEF finished
<1> QED BY <1>1, <1>8, <1>9

\* A key of the assembly line
LEMMA LineKey ==
  ASSUME NEW c, LineOK(c), NEW key
  PROVE  LineOK(line_key(c, key))
<1>1. c \in LineContext /\ c.selected \in PartIds
  BY DEF LineOK, LineContext
<1>2. ASSUME NEW op \in {"HOME", "SCAN", "PICK", "FINISH", "REJECT"},
             op # "HOME" => ~c.needs_home
      PROVE  LineOK(line_begin_op(c, op))
  <2>1. PICK d \in LineContext : d = line_begin_op(c, op)
    BY <1>1 DEF LineContext, line_begin_op
  <2>2. /\ d.parts = c.parts /\ d.fixture = c.fixture /\ d.completed = c.completed
        /\ d.rejected = c.rejected /\ d.mode = c.mode /\ d.op = op /\ d.needs_home = c.needs_home
    BY <1>1, <2>1 DEF LineContext, line_begin_op
  <2>3. d.needs_home => d.op \in {"NONE", "HOME"} /\ d.mode = "RUNNING"
    BY <1>2, <2>2 DEF LineOK
  <2> QED BY <2>1, <2>2, <2>3, LineFrame
<1>3. ASSUME NEW s \in PartIds PROVE LineOK([c EXCEPT !.selected = s])
  <2>1. PICK d \in LineContext : d = [c EXCEPT !.selected = s]
    BY <1>1 DEF LineContext
  <2>2. /\ d.parts = c.parts /\ d.fixture = c.fixture /\ d.completed = c.completed
        /\ d.rejected = c.rejected /\ d.mode = c.mode /\ d.op = c.op /\ d.needs_home = c.needs_home
    BY <1>1, <2>1 DEF LineContext
  <2>3. d.needs_home => d.op \in {"NONE", "HOME"} /\ d.mode = "RUNNING"
    BY <2>2 DEF LineOK
  <2> QED BY <2>1, <2>2, <2>3, LineFrame
<1>4. (c.selected + Parts - 1) % Parts \in PartIds /\ (c.selected + 1) % Parts \in PartIds
  BY <1>1, PartsAssumption DEF PartIds
<1>5. CASE key = "q"
  BY <1>5, LineReset DEF line_key
<1>6. CASE key # "q" /\ c.op # "NONE"
  BY <1>6 DEF line_key
<1>7. CASE key = "a" /\ c.op = "NONE"
  <2>1. line_key(c, key) = [c EXCEPT !.selected = (c.selected + Parts - 1) % Parts]
    BY <1>7 DEF line_key
  <2> QED BY <1>3, <1>4, <2>1
<1>8. CASE key = "d" /\ c.op = "NONE"
  <2>1. line_key(c, key) = [c EXCEPT !.selected = (c.selected + 1) % Parts]
    BY <1>8 DEF line_key
  <2> QED BY <1>3, <1>4, <2>1
<1>9. CASE key = "h" /\ c.op = "NONE"
  <2>1. line_key(c, key) = line_begin_op(c, "HOME")
    BY <1>9 DEF line_key
  <2> QED BY <1>2, <2>1
<1>10. CASE key \in {"s", "p", "f", "x"} /\ c.op = "NONE" /\ ~c.needs_home /\ c.mode # "COMPLETE"
  <2>1. PICK op \in {"SCAN", "PICK", "FINISH", "REJECT"} : line_key(c, key) = line_begin_op(c, op)
    BY <1>10 DEF line_key
  <2> QED BY <1>2, <1>10, <2>1
<1>11. CASE ~(key = "q" \/ (key # "q" /\ c.op # "NONE") \/ (key = "a" /\ c.op = "NONE")
              \/ (key = "d" /\ c.op = "NONE") \/ (key = "h" /\ c.op = "NONE")
              \/ (key \in {"s", "p", "f", "x"} /\ c.op = "NONE" /\ ~c.needs_home
                    /\ c.mode # "COMPLETE"))
  <2>1. line_key(c, key) = c
    BY <1>11 DEF line_key
  <2> QED BY <2>1
<1> QED BY <1>5, <1>6, <1>7, <1>8, <1>9, <1>10, <1>11

\* assembly_line_task_dispatch keeps the line well formed
LEMMA LineDispatch ==
  ASSUME NEW c, LineOK(c), NEW e, NEW d \in line_dispatch(c, e)
  PROVE  LineOK(d)
<1>1. d \in {c, line_seed(c), line_complete_pending_op(c), line_key(c, e.key)}
  BY DEF line_dispatch
<1> QED BY <1>1, LineReset, LineComplete, LineKey

\* The saved image of the line is well formed
LEMMA LineEncode ==
  ASSUME NEW c, LineOK(c), c.active
  PROVE  BlobOK("LINE", line_encode(c))
<1>1. c \in LineContext /\ (c.needs_home => c.op \in {"NONE", "HOME"} /\ c.mode = "RUNNING")
  BY DEF LineOK
<1>2. PICK d \in LineContext : d = line_encode(c)
  BY <1>1 DEF line_encode, LineContext
<1>3. /\ d.parts = c.parts /\ d.fixture = c.fixture /\ d.completed = c.completed
      /\ d.rejected = c.rejected /\ d.mode = c.mode /\ d.op = c.op /\ d.needs_home = c.needs_home
      /\ d.active
  BY <1>1, <1>2 DEF line_encode, LineContext
<1>4. LineOK(d)
  BY <1>1, <1>3, LineFrame
<1> QED BY <1>2, <1>3, <1>4 DEF BlobOK

\* The line that comes back has no operation in progress and must be homed
LEMMA LineRestore ==
  ASSUME NEW c, NEW b, BlobOK("LINE", b), NEW lock \in BOOLEAN
  PROVE  LineOK(line_restore(c, b, lock))
<1>1. LineOK(b) /\ b \in LineContext
  BY DEF BlobOK, LineOK
<1>2. PICK robot \in {"HOME", "HOME_REQUIRED"} :
        robot = IF b.mode = "COMPLETE" THEN "HOME" ELSE "HOME_REQUIRED"
  OBVIOUS
<1>3. PICK home \in BOOLEAN : home = (b.mode # "COMPLETE")
  OBVIOUS
<1>4. line_restore(c, b, lock) = [b EXCEPT !.op = "NONE", !.robot = robot, !.needs_home = home,
                                           !.pending = FALSE, !.restored = TRUE, !.rebind = lock]
  BY <1>2, <1>3, Zenon DEF line_restore
<1>5. PICK d \in LineContext : d = line_restore(c, b, lock)
  <2>1. [b EXCEPT !.op = "NONE", !.robot = robot, !.needs_home = home,
                  !.pending = FALSE, !.restored = TRUE, !.rebind = lock] \in LineContext
    <3>1. robot \in {"HOME", "BUSY", "FIXTURE", "HOME_REQUIRED"}
      OBVIOUS
    <3>2. b \in LineContext
      BY <1>1
    <3> QED BY <3>1, <3>2 DEF LineContext
  <2> QED BY <1>4, <2>1
<1>6. /\ d.parts = b.parts /\ d.fixture = b.fixture /\ d.completed = b.completed
      /\ d.rejected = b.rejected /\ d.mode = b.mode /\ d.op = "NONE" /\ d.needs_home = home
  BY <1>1, <1>4, <1>5 DEF LineContext
<1>7. d.needs_home => d.mode = "RUNNING"
  BY <1>1, <1>3, <1>6 DEF LineContext
<1> QED BY <1>1, <1>5, <1>6, <1>7, LineFrame

-----------------------------------------------------------------------------
(* Snake *)

\* A row of numbers: division by the width gives the row, the rest the column
LEMMA RowAndColumn ==
  ASSUME NEW w \in Nat, w > 0, NEW h \in Nat, NEW i \in Nat, i < w * h
  PROVE  i % w \in 0 .. w - 1 /\ i \div w \in 0 .. h - 1
<1>1. i = w * (i \div w) + (i % w) /\ i % w \in 0 .. w - 1 /\ i \div w \in Nat
  OBVIOUS
<1>2. PICK r \in Nat : r = i \div w
  BY <1>1
<1>3. w * r <= i
  BY <1>1, <1>2
<1>4. w * r < w * h
  <2>1. w * r \in Nat /\ w * h \in Nat
    OBVIOUS
  <2> QED BY <1>3, <2>1
<1>5. r < h
  <2> SUFFICES ASSUME r >= h PROVE FALSE
    OBVIOUS
  <2>1. PICK k \in Nat : r = h + k
    <3>1. r - h \in Nat /\ r = h + (r - h)
      OBVIOUS
    <3> QED BY <3>1
  <2>2. w * r = w * h + w * k
    BY <2>1
  <2>3. w * k \in Nat /\ w * h \in Nat
    OBVIOUS
  <2> QED BY <1>4, <2>2, <2>3
<1> QED BY <1>1, <1>2, <1>5

\* ... and every row and column belongs to a number
LEMMA NumberOf ==
  ASSUME NEW w \in Nat, w > 0, NEW h \in Nat, NEW x \in 0 .. w - 1, NEW y \in 0 .. h - 1
  PROVE  \E i \in 0 .. w * h - 1 : x = i % w /\ y = i \div w
<1>1. PICK i \in Nat : i = w * y + x
  <2>1. w * y \in Nat
    OBVIOUS
  <2> QED BY <2>1
<1>2. i % w = x /\ i \div w = y
  BY <1>1
<1>3. i < w * h
  <2>1. PICK k \in Nat : h = y + 1 + k
    <3>1. h - y - 1 \in Nat /\ h = y + 1 + (h - y - 1)
      OBVIOUS
    <3> QED BY <3>1
  <2>2. w * h = w * y + w + w * k
    BY <2>1
  <2>3. w * k \in Nat /\ w * y \in Nat
    OBVIOUS
  <2> QED BY <1>1, <2>2, <2>3
<1>4. i \in 0 .. w * h - 1
  <2>1. w * h \in Nat
    OBVIOUS
  <2> QED BY <1>3, <2>1
<1> QED BY <1>2, <1>4

\* The board
LEMMA Cells ==
  /\ BoardW \in Nat /\ BoardW >= 4 /\ BoardH \in Nat /\ BoardH > 0
  /\ MaxCells \in Nat /\ MaxCells > 3 /\ <<0, 0>> \in Board
<1>1. BoardW \in Nat /\ BoardW >= 4 /\ BoardH \in Nat /\ BoardH > 0
  BY BoardAssumption
<1>2. PICK w \in Nat, h \in Nat : w = BoardW - 4 /\ h = BoardH - 1
  BY <1>1
<1>3. MaxCells = (4 + w) * (h + 1)
  BY <1>1, <1>2 DEF MaxCells
<1>4. (4 + w) * (h + 1) = 4 + w + 4 * h + w * h
  OBVIOUS
<1>5. w * h \in Nat
  OBVIOUS
<1> QED BY <1>1, <1>3, <1>4, <1>5 DEF Board

\* The numbers below MaxCells number the cells of the board
LEMMA CellsOnBoard ==
  /\ \A i \in 0 .. MaxCells - 1 : <<i % BoardW, i \div BoardW>> \in Board
  /\ \A cell \in Board : \E i \in 0 .. MaxCells - 1 : cell = <<i % BoardW, i \div BoardW>>
<1>1. ASSUME NEW i \in 0 .. MaxCells - 1 PROVE <<i % BoardW, i \div BoardW>> \in Board
  <2>1. i \in Nat /\ i < BoardW * BoardH
    BY Cells DEF MaxCells
  <2>2. i % BoardW \in 0 .. BoardW - 1 /\ i \div BoardW \in 0 .. BoardH - 1
    BY <2>1, Cells, RowAndColumn
  <2> QED BY <2>2 DEF Board
<1>2. ASSUME NEW cell \in Board
      PROVE  \E i \in 0 .. MaxCells - 1 : cell = <<i % BoardW, i \div BoardW>>
  <2>1. PICK x \in 0 .. BoardW - 1, y \in 0 .. BoardH - 1 : cell = <<x, y>>
    BY DEF Board
  <2>2. \E i \in 0 .. BoardW * BoardH - 1 : x = i % BoardW /\ y = i \div BoardW
    <3>1. BoardW \in Nat /\ BoardW > 0 /\ BoardH \in Nat
      BY Cells
    <3> QED BY <3>1, NumberOf, Zenon
  <2> QED BY <2>1, <2>2 DEF MaxCells
<1> QED BY <1>1, <1>2

\* The food search finds a free cell if there is one
LEMMA ProbeFinds ==
  ASSUME NEW c, NEW start \in FoodStarts, NEW cell \in Board, cell \notin BodyCells(c)
  PROVE  snake_probe(c, start) \in Board \ BodyCells(c)
<1> DEFINE at(step) == LET i == (start + step * 97) % MaxCells
                       IN  <<i % BoardW, i \div BoardW>>
           free == {step \in 0 .. MaxCells - 1 : at(step) \notin BodyCells(c)}
<1>1. start \in 0 .. MaxCells - 1
  BY BoardAssumption DEF MaxCells
<1>2. \A step \in 0 .. MaxCells - 1 : at(step) \in Board
  <2> SUFFICES ASSUME NEW step \in 0 .. MaxCells - 1 PROVE at(step) \in Board
    OBVIOUS
  <2>1. (start + step * 97) % MaxCells \in 0 .. MaxCells - 1
    BY <1>1, Cells
  <2> QED BY <2>1, CellsOnBoard
<1>3. free # {}
  <2>1. PICK i \in 0 .. MaxCells - 1 : cell = <<i % BoardW, i \div BoardW>>
    BY CellsOnBoard
  <2>2. PICK step \in 0 .. MaxCells - 1 : (start + step * 97) % MaxCells = i
    BY <1>1, StrideAssumption
  <2>3. at(step) = cell
    BY <2>1, <2>2
  <2>4. step \in free
    BY <2>3
  <2> QED BY <2>4
<1>4. PICK n \in Nat : n = MaxCells - 1
  BY Cells
<1>5. free \in SUBSET (0 .. n)
  BY <1>4
<1>6. \E s \in free : \A other \in free : s <= other
  <2> HIDE DEF free
  <2> QED BY <1>3, <1>5, LeastElement
<1>7. snake_probe(c, start) = at(CHOOSE step \in free : \A other \in free : step <= other)
  BY Zenon DEF snake_probe
<1>8. (CHOOSE step \in free : \A other \in free : step <= other) \in free
  <2> HIDE DEF free
  <2> QED BY <1>6
<1>9. \A s \in free : at(s) \in Board \ BodyCells(c)
  BY <1>2
<1> HIDE DEF at, free
<1> QED BY <1>7, <1>8, <1>9

\* A direction is not its own opposite
LEMMA SameDirection == \A a \in Dirs : ~snake_dir_is_opposite(a, a)
<1> SUFFICES ASSUME NEW a \in Dirs, snake_dir_is_opposite(a, a) PROVE FALSE
  OBVIOUS
<1>1. {a} = {"UP", "DOWN"} \/ {a} = {"LEFT", "RIGHT"}
  BY DEF snake_dir_is_opposite
<1>2. CASE {a} = {"UP", "DOWN"}
  <2>1. "UP" \in {a} /\ "DOWN" \in {a}
    BY <1>2
  <2> QED BY <2>1
<1>3. CASE {a} = {"LEFT", "RIGHT"}
  <2>1. "LEFT" \in {a} /\ "RIGHT" \in {a}
    BY <1>3
  <2> QED BY <2>1
<1> QED BY <1>1, <1>2, <1>3

\* An operation that leaves the snake and its food alone
LEMMA SnakeFrame ==
  ASSUME NEW c, SnakeOK(c), NEW d \in SnakeContext, d.body = c.body, d.food = c.food,
         d.mode # "TITLE" => c.mode # "TITLE",
         d.mode \in {"PLAYING", "PAUSED"} =>
           c.mode \in {"PLAYING", "PAUSED"} /\ ~snake_dir_is_opposite(d.dir, d.pending_dir)
  PROVE  SnakeOK(d)
BY DEF SnakeOK, BodyCells

\* Changing one flag of the snake keeps its state well formed
LEMMA SnakeFlags ==
  ASSUME NEW c, SnakeOK(c), NEW b \in BOOLEAN
  PROVE  /\ SnakeOK(WithPending(c, b)) /\ SnakeOK(WithRebind(c, b))
         /\ SnakeOK(WithRestored(c, b))
<1>1. c \in SnakeContext
  BY DEF SnakeOK
<1>2. ASSUME NEW d, d \in {WithPending(c, b), WithRebind(c, b), WithRestored(c, b)}
      PROVE  /\ d \in SnakeContext /\ d.body = c.body /\ d.food = c.food /\ d.mode = c.mode
             /\ d.dir = c.dir /\ d.pending_dir = c.pending_dir
  BY <1>1, <1>2 DEF SnakeContext, WithPending, WithRebind, WithRestored
<1>3. c.mode \in {"PLAYING", "PAUSED"} => ~snake_dir_is_opposite(c.dir, c.pending_dir)
  BY DEF SnakeOK
<1> QED BY <1>2, <1>3, SnakeFrame

\* A game that is switched off or waits for its first key
LEMMA SnakeFresh ==
  ASSUME NEW d \in SnakeContext, d.body = <<>>, d.mode = "TITLE"
  PROVE  SnakeOK(d)
<1>1. Len(d.body) = 0
  OBVIOUS
<1>2. Distinct(d.body)
  BY <1>1 DEF Distinct
<1> QED BY <1>1, <1>2, Cells DEF SnakeOK

\* The snake of a new game is well formed
LEMMA SnakeStarts == SnakeOK(SnakeInit)
<1>1. SnakeInit \in SnakeContext
  BY Cells DEF SnakeInit, snake_reset, SnakeContext, Dirs
<1> QED BY <1>1, SnakeFresh DEF SnakeInit, snake_reset

\* snake_reset leaves a well-formed snake
LEMMA SnakeReset ==
  ASSUME NEW c, SnakeOK(c)
  PROVE  /\ SnakeOK(snake_reset(c)) /\ SnakeOK(WithRestored(snake_reset(c), FALSE))
         /\ SnakeOK(WithActive(snake_reset(c)))
<1>0. c.restored \in BOOLEAN
  BY DEF SnakeOK, SnakeContext
<1>1. snake_reset(c) \in SnakeContext
  BY <1>0, Cells DEF snake_reset, SnakeContext, Dirs
<1>2. PICK r \in SnakeContext : r = snake_reset(c) /\ r.body = <<>> /\ r.mode = "TITLE"
  <2>1. snake_reset(c).body = <<>> /\ snake_reset(c).mode = "TITLE"
    BY DEF snake_reset
  <2> QED BY <1>1, <2>1
<1>3. SnakeOK(r)
  BY <1>2, SnakeFresh
<1>4. SnakeOK(WithRestored(r, FALSE))
  BY <1>3, SnakeFlags
<1>5. SnakeOK(WithActive(r))
  <2>1. PICK d \in SnakeContext : d = [r EXCEPT !.active = TRUE]
    BY DEF SnakeContext
  <2>2. d.body = <<>> /\ d.mode = "TITLE"
    BY <1>2, <2>1 DEF SnakeContext
  <2> QED BY <2>1, <2>2, SnakeFresh DEF WithActive
<1> QED BY <1>2, <1>3, <1>4, <1>5

\* snake_task_register leaves a well-formed snake
LEMMA SnakeRegister ==
  ASSUME NEW c, SnakeOK(c)
  PROVE  SnakeOK(snake_register(c))
<1> DEFINE r == IF c.restored THEN c ELSE snake_reset(c)
<1>1. SnakeOK(r)
  <2>1. SnakeOK(snake_reset(c))
    BY SnakeReset, Zenon
  <2> QED BY <2>1
<1> HIDE DEF r
<1>2. PICK b \in BOOLEAN : b = (r.rebind \/ r.active)
  OBVIOUS
<1>3. SnakeOK(WithRebind(WithRestored(r, FALSE), b))
  BY <1>1, SnakeFlags
<1>4. r \in SnakeContext
  BY <1>1 DEF SnakeOK
<1>5. snake_register(c) = WithRebind(WithRestored(r, FALSE), b)
  <2>1. snake_register(c) = [r EXCEPT !.restored = FALSE, !.rebind = r.rebind \/ r.active]
    BY DEF snake_register, r
  <2> QED BY <1>2, <1>4, <2>1 DEF SnakeContext, WithRebind, WithRestored
<1> QED BY <1>3, <1>5

\* New food lies on a free cell, or the game is won
LEMMA SpawnFood ==
  ASSUME NEW c \in SnakeContext, Distinct(c.body), Len(c.body) > 1, Len(c.body) < MaxCells,
         c.mode = "PLAYING", ~snake_dir_is_opposite(c.dir, c.pending_dir),
         NEW d \in snake_spawn_food(c)
  PROVE  SnakeOK(d)
<1>1. CASE \A cell \in Board : cell \in BodyCells(c)
  <2>1. d = [c EXCEPT !.mode = "GAME_OVER", !.reason = "WIN"]
    BY <1>1 DEF snake_spawn_food
  <2>2. d \in SnakeContext /\ d.body = c.body /\ d.mode = "GAME_OVER"
    BY <2>1 DEF SnakeContext
  <2> QED BY <2>2, Cells DEF SnakeOK, SnakeContext
<1>2. CASE \E cell \in Board : cell \notin BodyCells(c)
  <2>1. PICK start \in FoodStarts : d = [c EXCEPT !.food = snake_probe(c, start)]
    BY <1>2 DEF snake_spawn_food
  <2>2. PICK f : f = snake_probe(c, start)
    OBVIOUS
  <2>3. f \in Board /\ f \notin BodyCells(c)
    BY <1>2, <2>2, ProbeFinds
  <2>4. d = [c EXCEPT !.food = f]
    BY <2>1, <2>2
  <2>5. /\ d \in SnakeContext /\ d.body = c.body /\ d.mode = "PLAYING" /\ d.food = f
        /\ d.dir = c.dir /\ d.pending_dir = c.pending_dir
    BY <2>3, <2>4 DEF SnakeContext
  <2>6. BodyCells(d) = BodyCells(c)
    BY <2>5 DEF BodyCells
  <2> QED BY <2>3, <2>5, <2>6, Cells DEF SnakeOK, SnakeContext
<1> QED BY <1>1, <1>2

\* A new game
LEMMA SnakeGame ==
  ASSUME NEW c, SnakeOK(c), NEW d \in snake_start_game(c)
  PROVE  SnakeOK(d)
<1>1. c \in SnakeContext
  BY DEF SnakeOK
<1>2. PICK x \in Nat, y \in Nat : x = BoardW \div 2 /\ y = BoardH \div 2
  BY Cells
<1>3. x >= 2 /\ x < BoardW /\ y < BoardH
  BY <1>2, Cells
<1>4. PICK a1, a2, a3 : a1 = <<x - 2, y>> /\ a2 = <<x - 1, y>> /\ a3 = <<x, y>>
  OBVIOUS
<1>5. a1 \in Board /\ a2 \in Board /\ a3 \in Board
  BY <1>3, <1>4, Cells DEF Board
<1>6. a1 # a2 /\ a2 # a3 /\ a1 # a3
  BY <1>3, <1>4
<1>7. PICK body : body = <<a1, a2, a3>>
  OBVIOUS
<1>8. body \in Seq(Board) /\ Len(body) = 3 /\ body[1] = a1 /\ body[2] = a2 /\ body[3] = a3
  BY <1>5, <1>7
<1>9. Distinct(body)
  <2> SUFFICES ASSUME NEW i \in 1 .. 3, NEW j \in 1 .. 3, i # j PROVE body[i] # body[j]
    BY <1>8 DEF Distinct
  <2> QED BY <1>6, <1>8
<1>10. PICK g : g = [c EXCEPT !.mode = "PLAYING", !.dir = "RIGHT", !.pending_dir = "RIGHT",
                  !.body = body, !.reason = "NONE", !.armed = TRUE, !.pending = FALSE]
  OBVIOUS
<1>11. d \in snake_spawn_food(g)
  BY <1>2, <1>4, <1>7, <1>10, Zenon DEF snake_start_game
<1>12. /\ g \in SnakeContext /\ g.body = body /\ g.mode = "PLAYING" /\ g.dir = "RIGHT"
       /\ g.pending_dir = "RIGHT"
  BY <1>1, <1>8, <1>10 DEF SnakeContext, Dirs
<1>13. ~snake_dir_is_opposite(g.dir, g.pending_dir)
  BY <1>12, SameDirection DEF Dirs
<1>14. Len(g.body) > 1 /\ Len(g.body) < MaxCells /\ Distinct(g.body)
  <2>1. Len(g.body) = 3
    BY <1>8, <1>12
  <2>2. 3 < MaxCells
    BY Cells
  <2>3. Distinct(g.body)
    BY <1>9, <1>12
  <2> QED BY <2>1, <2>2, <2>3
<1> QED BY <1>11, <1>12, <1>13, <1>14, SpawnFood

\* A head that is not at the wall it moves to stays on the board
LEMMA NextCell ==
  ASSUME NEW cell \in Board, NEW dir \in Dirs, ~snake_hits_wall(cell, dir)
  PROVE  snake_next_cell(cell, dir) \in Board
<1>1. PICK x \in 0 .. BoardW - 1, y \in 0 .. BoardH - 1 : cell = <<x, y>>
  BY DEF Board
<1>2. cell[1] = x /\ cell[2] = y
  BY <1>1
<1>3. CASE dir = "UP"
  <2>1. snake_next_cell(cell, dir) = <<x, y - 1>> /\ y # 0
    BY <1>2, <1>3 DEF snake_next_cell, snake_hits_wall
  <2> QED BY <2>1, Cells DEF Board
<1>4. CASE dir = "DOWN"
  <2>1. snake_next_cell(cell, dir) = <<x, y + 1>> /\ ~(y + 1 >= BoardH)
    BY <1>2, <1>4 DEF snake_next_cell, snake_hits_wall
  <2> QED BY <2>1, Cells DEF Board
<1>5. CASE dir = "LEFT"
  <2>1. snake_next_cell(cell, dir) = <<x - 1, y>> /\ x # 0
    BY <1>2, <1>5 DEF snake_next_cell, snake_hits_wall
  <2> QED BY <2>1, Cells DEF Board
<1>6. CASE dir = "RIGHT"
  <2>1. snake_next_cell(cell, dir) = <<x + 1, y>> /\ ~(x + 1 >= BoardW)
    BY <1>2, <1>6 DEF snake_next_cell, snake_hits_wall
  <2> QED BY <2>1, Cells DEF Board
<1> QED BY <1>3, <1>4, <1>5, <1>6 DEF Dirs

\* A game that is over keeps its snake
LEMMA SnakeOver ==
  ASSUME NEW c \in SnakeContext, Distinct(c.body), Len(c.body) > 1, Len(c.body) <= MaxCells,
         NEW reason \in {"WALL", "SELF", "WIN"}
  PROVE  SnakeOK(snake_game_over(c, reason))
<1>1. PICK d \in SnakeContext : d = snake_game_over(c, reason)
  BY DEF snake_game_over, SnakeContext
<1>2. d.body = c.body /\ d.mode = "GAME_OVER"
  BY <1>1 DEF snake_game_over, SnakeContext
<1> QED BY <1>1, <1>2 DEF SnakeOK

\* A head on a cell that the body leaves free keeps the cells distinct
LEMMA GrowDistinct ==
  ASSUME NEW s \in Seq(Board), Distinct(s), NEW cell \in Board,
         \A i \in 1 .. Len(s) : s[i] # cell
  PROVE  /\ Append(s, cell) \in Seq(Board) /\ Len(Append(s, cell)) = Len(s) + 1
         /\ Distinct(Append(s, cell))
<1>1. Append(s, cell) \in Seq(Board) /\ Len(Append(s, cell)) = Len(s) + 1
  OBVIOUS
<1>2. ASSUME NEW i \in 1 .. Len(s) + 1, NEW j \in 1 .. Len(s) + 1, i # j
      PROVE  Append(s, cell)[i] # Append(s, cell)[j]
  <2>1. CASE i \in 1 .. Len(s) /\ j \in 1 .. Len(s)
    BY <1>2, <2>1 DEF Distinct
  <2>2. CASE i \in 1 .. Len(s) /\ j = Len(s) + 1
    BY <2>2
  <2>3. CASE j \in 1 .. Len(s) /\ i = Len(s) + 1
    BY <2>3
  <2> QED BY <1>2, <2>1, <2>2, <2>3
<1> QED BY <1>1, <1>2 DEF Distinct

\* ... and so it is when the tail moves on
LEMMA MoveDistinct ==
  ASSUME NEW s \in Seq(Board), Distinct(s), Len(s) > 0, NEW cell \in Board,
         \A i \in 2 .. Len(s) : s[i] # cell
  PROVE  /\ Append(Tail(s), cell) \in Seq(Board) /\ Len(Append(Tail(s), cell)) = Len(s)
         /\ Distinct(Append(Tail(s), cell))
         /\ \A f \in Board : f # cell /\ (\A i \in 1 .. Len(s) : s[i] # f) =>
              \A i \in 1 .. Len(s) : Append(Tail(s), cell)[i] # f
<1>1. PICK t \in Seq(Board) : t = Tail(s)
  <2>1. s # <<>>
    OBVIOUS
  <2>2. Tail(s) \in Seq(Board)
    BY <2>1
  <2> QED BY <2>2
<1>2. Len(t) = Len(s) - 1 /\ \A i \in 1 .. Len(t) : t[i] = s[i + 1] /\ i + 1 \in 2 .. Len(s)
  BY <1>1
<1>3. Distinct(t)
  <2> SUFFICES ASSUME NEW i \in 1 .. Len(t), NEW j \in 1 .. Len(t), i # j PROVE t[i] # t[j]
    BY DEF Distinct
  <2>1. i + 1 \in 1 .. Len(s) /\ j + 1 \in 1 .. Len(s) /\ i + 1 # j + 1
    BY <1>2
  <2>2. t[i] = s[i + 1] /\ t[j] = s[j + 1]
    BY <1>2
  <2> QED BY <2>1, <2>2 DEF Distinct
<1>4. \A i \in 1 .. Len(t) : t[i] # cell
  BY <1>2
<1>5. /\ Append(t, cell) \in Seq(Board) /\ Len(Append(t, cell)) = Len(t) + 1
      /\ Distinct(Append(t, cell))
  BY <1>3, <1>4, GrowDistinct
<1>6. ASSUME NEW f \in Board, f # cell, \A i \in 1 .. Len(s) : s[i] # f,
             NEW i \in 1 .. Len(s)
      PROVE  Append(t, cell)[i] # f
  <2>1. CASE i \in 1 .. Len(t)
    <3>1. Append(t, cell)[i] = s[i + 1] /\ i + 1 \in 1 .. Len(s)
      BY <1>2, <2>1
    <3> QED BY <1>6, <3>1
  <2>2. CASE i = Len(t) + 1
    BY <1>6, <2>2
  <2> QED BY <1>2, <2>1, <2>2
<1>7. Len(Append(t, cell)) = Len(s)
  BY <1>2, <1>5
<1>8. \A f \in Board : f # cell /\ (\A i \in 1 .. Len(s) : s[i] # f) =>
        \A i \in 1 .. Len(s) : Append(t, cell)[i] # f
  BY <1>6
<1> QED BY <1>1, <1>5, <1>7, <1>8, Zenon

\* What snake_step does once the direction is settled
SnakeMove(c) ==
  LET head == c.body[Len(c.body)]
      new == snake_next_cell(head, c.dir)
      grow == c.food = new
      grown == [c EXCEPT !.body = Append(@, new)]
  IN  IF snake_hits_wall(head, c.dir) THEN {snake_game_over(c, "WALL")}
      ELSE IF snake_cell_occupied(c, new, ~grow) THEN {snake_game_over(c, "SELF")}
      ELSE IF ~grow THEN {[c EXCEPT !.body = Append(Tail(@), new), !.armed = TRUE]}
      ELSE IF Len(grown.body) >= MaxCells THEN {snake_game_over(grown, "WIN")}
      ELSE {[s EXCEPT !.armed = (s.mode # "GAME_OVER") \/ @] : s \in snake_spawn_food(grown)}

\* The snake moves, eats and grows, or the game ends
LEMMA SnakeMoveSound ==
  ASSUME NEW c, SnakeOK(c), c.mode = "PLAYING", NEW d \in SnakeMove(c)
  PROVE  SnakeOK(d)
<1>1. /\ c \in SnakeContext /\ Distinct(c.body) /\ Len(c.body) > 1 /\ Len(c.body) < MaxCells
      /\ c.food \notin BodyCells(c) /\ ~snake_dir_is_opposite(c.dir, c.pending_dir)
  BY DEF SnakeOK
<1>2. /\ c.body \in Seq(Board) /\ c.dir \in Dirs /\ c.food \in Board
      /\ Len(c.body) \in Nat /\ MaxCells \in Nat
  BY <1>1, Cells DEF SnakeContext
<1>3. PICK head \in Board : head = c.body[Len(c.body)]
  BY <1>1, <1>2
<1>4. PICK new : new = snake_next_cell(head, c.dir)
  OBVIOUS
<1>5. CASE snake_hits_wall(head, c.dir)
  <2>1. d = snake_game_over(c, "WALL")
    BY <1>3, <1>5 DEF SnakeMove
  <2> QED BY <1>1, <1>2, <2>1, SnakeOver
<1>6. CASE ~snake_hits_wall(head, c.dir) /\ snake_cell_occupied(c, new, ~(c.food = new))
  <2>1. d = snake_game_over(c, "SELF")
    BY <1>3, <1>4, <1>6 DEF SnakeMove
  <2> QED BY <1>1, <1>2, <2>1, SnakeOver
<1>7. CASE ~snake_hits_wall(head, c.dir) /\ ~snake_cell_occupied(c, new, ~(c.food = new))
  <2>1. new \in Board
    BY <1>2, <1>4, <1>7, NextCell
  <2>2. CASE c.food # new
    <3>1. \A i \in 2 .. Len(c.body) : c.body[i] # new
      BY <1>7, <2>2 DEF snake_cell_occupied
    <3>2. PICK body : body = Append(Tail(c.body), new)
      OBVIOUS
    <3>3. body \in Seq(Board) /\ Len(body) = Len(c.body) /\ Distinct(body)
      BY <1>1, <1>2, <2>1, <3>1, <3>2, MoveDistinct
    <3>4. \A i \in 1 .. Len(c.body) : c.body[i] # c.food
      BY <1>1 DEF BodyCells
    <3>5. \A i \in 1 .. Len(c.body) : body[i] # c.food
      BY <1>1, <1>2, <2>1, <2>2, <3>1, <3>2, <3>4, MoveDistinct
    <3>6. d = [c EXCEPT !.body = body, !.armed = TRUE]
      BY <1>3, <1>4, <1>7, <2>2, <3>2 DEF SnakeMove
    <3>7. /\ d \in SnakeContext /\ d.body = body /\ d.food = c.food /\ d.mode = c.mode
          /\ d.dir = c.dir /\ d.pending_dir = c.pending_dir
      BY <1>1, <3>3, <3>6 DEF SnakeContext
    <3>8. d.food \notin BodyCells(d)
      BY <3>3, <3>5, <3>7 DEF BodyCells
    <3>9. Distinct(d.body) /\ Len(d.body) > 1 /\ Len(d.body) < MaxCells
      BY <1>1, <3>3, <3>7
    <3> QED BY <1>1, <1>2, <3>7, <3>8, <3>9 DEF SnakeOK
  <2>3. CASE c.food = new
    <3>1. \A i \in 1 .. Len(c.body) : c.body[i] # new
      BY <1>7, <2>3 DEF snake_cell_occupied
    <3>2. PICK body : body = Append(c.body, new)
      OBVIOUS
    <3>3. body \in Seq(Board) /\ Len(body) = Len(c.body) + 1 /\ Distinct(body)
      BY <1>1, <1>2, <2>1, <3>1, <3>2, GrowDistinct
    <3>4. PICK grown \in SnakeContext : grown = [c EXCEPT !.body = body]
      BY <1>1, <3>3 DEF SnakeContext
    <3>5. /\ grown.body = body /\ grown.mode = "PLAYING" /\ grown.dir = c.dir
          /\ grown.pending_dir = c.pending_dir
      BY <1>1, <3>3, <3>4 DEF SnakeContext
    <3>6. Len(grown.body) > 1 /\ Len(grown.body) <= MaxCells /\ Distinct(grown.body)
      BY <1>1, <1>2, <3>3, <3>5
    <3>7. d \in IF Len(grown.body) >= MaxCells THEN {snake_game_over(grown, "WIN")}
                ELSE {[s EXCEPT !.armed = (s.mode # "GAME_OVER") \/ @] :
                        s \in snake_spawn_food(grown)}
      BY <1>3, <1>4, <1>7, <2>3, <3>2, <3>4 DEF SnakeMove
    <3>8. CASE Len(grown.body) >= MaxCells
      <4>1. d = snake_game_over(grown, "WIN")
        BY <3>7, <3>8
      <4> QED BY <3>6, <4>1, SnakeOver
    <3>9. CASE Len(grown.body) < MaxCells
      <4>1. PICK s \in snake_spawn_food(grown) :
              d = [s EXCEPT !.armed = (s.mode # "GAME_OVER") \/ s.armed]
        BY <1>2, <3>7, <3>9
      <4>2. SnakeOK(s)
        BY <1>1, <3>5, <3>6, <3>9, SpawnFood
      <4>3. PICK b \in BOOLEAN : b = ((s.mode # "GAME_OVER") \/ s.armed)
        OBVIOUS
      <4>4. d = [s EXCEPT !.armed = b]
        BY <4>1, <4>3
      <4>5. s \in SnakeContext
        BY <4>2 DEF SnakeOK
      <4>6. /\ d \in SnakeContext /\ d.body = s.body /\ d.food = s.food /\ d.mode = s.mode
            /\ d.dir = s.dir /\ d.pending_dir = s.pending_dir
        BY <4>4, <4>5 DEF SnakeContext
      <4>7. s.mode \in {"PLAYING", "PAUSED"} => ~snake_dir_is_opposite(s.dir, s.pending_dir)
        BY <4>2 DEF SnakeOK
      <4> QED BY <4>2, <4>6, <4>7, SnakeFrame
    <3> QED BY <1>2, <3>3, <3>5, <3>8, <3>9
  <2> QED BY <2>2, <2>3
<1> QED BY <1>5, <1>6, <1>7

\* snake_step with the tick taken
SnakeTick(e) ==
  IF ~e.active \/ e.mode # "PLAYING" \/ e.body = <<>> THEN {e}
  ELSE SnakeMove([e EXCEPT !.dir = IF ~snake_dir_is_opposite(e.dir, e.pending_dir) \/ Len(e.body) <= 1
                                   THEN e.pending_dir ELSE @])

\* A tick of the game
LEMMA SnakeStep ==
  ASSUME NEW c, SnakeOK(c), NEW d \in snake_step(c)
  PROVE  SnakeOK(d)
<1>1. PICK e \in SnakeContext : e = WithPending(c, FALSE)
  BY DEF SnakeOK, SnakeContext, WithPending
<1>2. SnakeOK(e)
  BY <1>1, SnakeFlags
<1>3. CASE ~e.active \/ e.mode # "PLAYING" \/ e.body = <<>>
  <2>1. d = e
    BY <1>1, <1>3 DEF snake_step, WithPending
  <2> QED BY <1>2, <2>1
<1>4. CASE e.active /\ e.mode = "PLAYING" /\ e.body # <<>>
  <2>1. ~snake_dir_is_opposite(e.dir, e.pending_dir) /\ e.pending_dir \in Dirs
    BY <1>2, <1>4 DEF SnakeOK, SnakeContext
  <2>2. PICK f \in SnakeContext : f = [e EXCEPT !.dir = e.pending_dir]
    BY <2>1 DEF SnakeContext
  <2>3. /\ f.body = e.body /\ f.food = e.food /\ f.mode = e.mode
        /\ f.dir = e.pending_dir /\ f.pending_dir = e.pending_dir
    BY <2>1, <2>2 DEF SnakeContext
  <2>4. ~snake_dir_is_opposite(f.dir, f.pending_dir)
    BY <2>1, <2>3, SameDirection
  <2>5. SnakeOK(f)
    BY <1>2, <1>4, <2>3, <2>4, SnakeFrame
  <2>6. d \in SnakeMove(f)
    <3>1. f = [e EXCEPT !.dir = IF ~snake_dir_is_opposite(e.dir, e.pending_dir) \/ Len(e.body) <= 1
                                THEN e.pending_dir ELSE @]
      BY <2>1, <2>2
    <3>2. snake_step(c) = SnakeTick(WithPending(c, FALSE))
      BY Zenon DEF snake_step, SnakeMove, SnakeTick, WithPending
    <3>3. snake_step(c) = SnakeMove(f)
      BY <1>1, <1>4, <3>1, <3>2, Zenon DEF SnakeTick
    <3> QED BY <3>3
  <2> QED BY <1>4, <2>3, <2>5, <2>6, SnakeMoveSound
<1> QED BY <1>3, <1>4

\* A key that turns the snake
LEMMA SnakeTurn ==
  ASSUME NEW c, SnakeOK(c), NEW dir \in Dirs
  PROVE  SnakeOK(snake_turn(c, dir))
<1>1. CASE /\ c.mode \in {"PLAYING", "PAUSED"}
           /\ ~snake_dir_is_opposite(c.dir, dir) \/ Len(c.body) <= 1
  <2>1. c \in SnakeContext /\ ~(Len(c.body) <= 1)
    BY <1>1 DEF SnakeOK, SnakeContext
  <2>2. PICK d \in SnakeContext : d = [c EXCEPT !.pending_dir = dir]
    BY <2>1 DEF SnakeContext
  <2>3. /\ d.body = c.body /\ d.food = c.food /\ d.mode = c.mode /\ d.dir = c.dir
        /\ d.pending_dir = dir
    BY <2>1, <2>2 DEF SnakeContext
  <2>4. SnakeOK(d)
    BY <1>1, <2>1, <2>3, SnakeFrame
  <2> QED BY <1>1, <2>2, <2>4 DEF snake_turn
<1>2. CASE ~(/\ c.mode \in {"PLAYING", "PAUSED"}
             /\ ~snake_dir_is_opposite(c.dir, dir) \/ Len(c.body) <= 1)
  <2>1. snake_turn(c, dir) = c
    BY <1>2 DEF snake_turn
  <2> QED BY <2>1
<1> QED BY <1>1, <1>2

\* The pause begins or ends
LEMMA SnakePause ==
  ASSUME NEW c, SnakeOK(c)
  PROVE  SnakeOK(snake_pause(c))
<1>1. c \in SnakeContext
  BY DEF SnakeOK
<1>2. CASE c.mode \in {"PLAYING", "PAUSED"}
  <2>0. PICK mode \in {"PLAYING", "PAUSED"}, armed \in BOOLEAN :
          snake_pause(c) = [c EXCEPT !.mode = mode, !.armed = armed, !.pending = FALSE]
    <3>1. CASE c.mode = "PLAYING"
      BY <3>1 DEF snake_pause
    <3>2. CASE c.mode = "PAUSED"
      BY <3>2 DEF snake_pause
    <3> QED BY <1>2, <3>1, <3>2
  <2>a. PICK d \in SnakeContext : d = snake_pause(c)
    BY <1>1, <2>0 DEF SnakeContext
  <2>1. /\ d = snake_pause(c) /\ d.mode \in {"PLAYING", "PAUSED"} /\ d.body = c.body
        /\ d.food = c.food /\ d.dir = c.dir /\ d.pending_dir = c.pending_dir
    BY <1>1, <2>0, <2>a DEF SnakeContext
  <2>2. ~snake_dir_is_opposite(c.dir, c.pending_dir)
    BY <1>2 DEF SnakeOK
  <2>3. SnakeOK(d)
    BY <1>2, <2>1, <2>2, SnakeFrame
  <2> QED BY <2>1, <2>3
<1>3. CASE c.mode \notin {"PLAYING", "PAUSED"}
  <2>1. snake_pause(c) = c
    BY <1>3 DEF snake_pause
  <2> QED BY <2>1
<1> QED BY <1>2, <1>3

\* Every key leaves a sound game
LEMMA SnakeKey ==
  ASSUME NEW c, SnakeOK(c), NEW key, NEW d \in snake_key(c, key)
  PROVE  SnakeOK(d)
<1>1. CASE key = "q"
  <2>1. d = snake_reset(c)
    BY <1>1 DEF snake_key
  <2> QED BY <2>1, SnakeReset
<1>2. CASE key = "r"
  <2>1. d \in snake_start_game(c)
    BY <1>2 DEF snake_key
  <2> QED BY <2>1, SnakeGame
<1>3. CASE key = "p"
  <2>1. d = snake_pause(c)
    BY <1>3 DEF snake_key
  <2> QED BY <2>1, SnakePause
<1>4. CASE key \in {"w", "d", "s", "a"}
  <2>1. PICK dir \in Dirs : d = snake_turn(c, dir)
    BY <1>4 DEF snake_key, Dirs
  <2> QED BY <2>1, SnakeTurn
<1>5. CASE key \notin {"q", "r", "p", "w", "d", "s", "a"}
  <2>1. d = c
    BY <1>5 DEF snake_key
  <2> QED BY <2>1
<1> QED BY <1>1, <1>2, <1>3, <1>4, <1>5

\* Every event leaves a sound game
LEMMA SnakeDispatch ==
  ASSUME NEW c, SnakeOK(c), NEW e, NEW d \in snake_dispatch(c, e)
  PROVE  SnakeOK(d)
<1>1. CASE e.sig = "START" /\ ~c.active
  <2>1. d = WithActive(snake_reset(c))
    BY <1>1 DEF snake_dispatch, WithActive
  <2> QED BY <2>1, SnakeReset
<1>2. CASE c.active /\ e.sig = "TICK"
  <2>1. d \in snake_step(c)
    BY <1>2 DEF snake_dispatch
  <2> QED BY <2>1, SnakeStep
<1>3. CASE c.active /\ e.sig \notin {"START", "TICK"}
  <2>1. d \in snake_key(c, e.key)
    BY <1>3 DEF snake_dispatch
  <2> QED BY <2>1, SnakeKey
<1>4. CASE (e.sig = "START" /\ c.active) \/ (e.sig # "START" /\ ~c.active)
  <2>1. d = c
    BY <1>4 DEF snake_dispatch
  <2> QED BY <2>1
<1> QED BY <1>1, <1>2, <1>3, <1>4

\* What is saved of a game is sound, and so is the game that comes back
LEMMA SnakeEncode ==
  ASSUME NEW c, SnakeOK(c), c.active
  PROVE  BlobOK("SNAKE", snake_encode(c))
<1>1. c \in SnakeContext
  BY DEF SnakeOK
<1>2. PICK d \in SnakeContext : d = snake_encode(c)
  BY <1>1 DEF snake_encode, SnakeContext
<1>3. /\ d.body = c.body /\ d.food = c.food /\ d.mode = c.mode /\ d.dir = c.dir
      /\ d.pending_dir = c.pending_dir /\ d.active
  BY <1>1, <1>2 DEF snake_encode, SnakeContext
<1>4. c.mode \in {"PLAYING", "PAUSED"} => ~snake_dir_is_opposite(c.dir, c.pending_dir)
  BY DEF SnakeOK
<1>5. SnakeOK(d)
  BY <1>3, <1>4, SnakeFrame
<1> QED BY <1>2, <1>3, <1>5 DEF BlobOK

\* The game that comes back has its snake, its food and its direction
LEMMA SnakeRestore ==
  ASSUME NEW c, NEW b, BlobOK("SNAKE", b), NEW lock \in BOOLEAN
  PROVE  SnakeOK(snake_restore(c, b, lock))
<1>1. SnakeOK(b) /\ b \in SnakeContext
  BY DEF BlobOK, SnakeOK
<1>2. PICK armed \in BOOLEAN : armed = (b.mode = "PLAYING")
  OBVIOUS
<1>3. snake_restore(c, b, lock) = [b EXCEPT !.armed = armed, !.pending = FALSE,
                                            !.restored = TRUE, !.rebind = lock]
  BY <1>2, Zenon DEF snake_restore
<1>4. PICK d \in SnakeContext : d = snake_restore(c, b, lock)
  BY <1>1, <1>3 DEF SnakeContext
<1>5. /\ d.body = b.body /\ d.food = b.food /\ d.mode = b.mode /\ d.dir = b.dir
      /\ d.pending_dir = b.pending_dir
  BY <1>1, <1>3, <1>4 DEF SnakeContext
<1>6. b.mode \in {"PLAYING", "PAUSED"} => ~snake_dir_is_opposite(b.dir, b.pending_dir)
  BY <1>1 DEF SnakeOK
<1>7. SnakeOK(d)
  BY <1>1, <1>5, <1>6, SnakeFrame
<1> QED BY <1>4, <1>7

-----------------------------------------------------------------------------
(* The three programs behind one interface *)

\* The context that the register_fn of p leaves
Registered(p, c) == CASE p = "COUNTER" -> counter_register(c)
                      [] p = "LINE"    -> line_register(c)
                      [] p = "SNAKE"   -> snake_register(c)

\* A sound context has the type of a context
LEMMA ContextTyped ==
  ASSUME NEW p \in Programs, NEW c, ContextOK(p, c)
  PROVE  c \in Context /\ c.active \in BOOLEAN /\ c.rebind \in BOOLEAN
<1>1. CASE p = "COUNTER"
  BY <1>1 DEF ContextOK, CounterOK, CounterContext, Context
<1>2. CASE p = "LINE"
  <2>1. c \in LineContext
    BY <1>2 DEF ContextOK, LineOK
  <2> QED BY <2>1 DEF LineContext, Context
<1>3. CASE p = "SNAKE"
  <2>1. c \in SnakeContext
    BY <1>3 DEF ContextOK, SnakeOK
  <2> QED BY <2>1 DEF SnakeContext, Context
<1> QED BY <1>1, <1>2, <1>3 DEF Programs

\* The flags of a program may have any value
LEMMA Flags ==
  ASSUME NEW p \in Programs, NEW c, ContextOK(p, c), NEW b \in BOOLEAN
  PROVE  /\ ContextOK(p, WithPending(c, b)) /\ ContextOK(p, WithRebind(c, b))
         /\ ContextOK(p, WithRestored(c, b))
<1>1. CASE p = "COUNTER"
  BY <1>1, CounterFlags DEF ContextOK
<1>2. CASE p = "LINE"
  BY <1>2, LineFlags DEF ContextOK
<1>3. CASE p = "SNAKE"
  BY <1>3, SnakeFlags DEF ContextOK
<1> QED BY <1>1, <1>2, <1>3 DEF Programs

\* A program that is switched off is sound
LEMMA ResetSound ==
  ASSUME NEW p \in Programs, NEW c, ContextOK(p, c)
  PROVE  ContextOK(p, Reset(p, c)) /\ ContextOK(p, WithRestored(Reset(p, c), FALSE))
<1>1. CASE p = "COUNTER"
  BY <1>1, CounterReset DEF ContextOK, Reset
<1>2. CASE p = "LINE"
  BY <1>2, LineReset DEF ContextOK, Reset
<1>3. CASE p = "SNAKE"
  BY <1>3, SnakeReset DEF ContextOK, Reset
<1> QED BY <1>1, <1>2, <1>3 DEF Programs

\* A program that is registered is sound
LEMMA RegisteredSound ==
  ASSUME NEW p \in Programs, NEW c, ContextOK(p, c)
  PROVE  ContextOK(p, Registered(p, c))
<1>1. CASE p = "COUNTER"
  BY <1>1, CounterRegister DEF ContextOK, Registered
<1>2. CASE p = "LINE"
  BY <1>2, LineRegister DEF ContextOK, Registered
<1>3. CASE p = "SNAKE"
  BY <1>3, SnakeRegister DEF ContextOK, Registered
<1> QED BY <1>1, <1>2, <1>3 DEF Programs

\* Every event leaves a sound program
LEMMA HandleSound ==
  ASSUME NEW p \in Programs, NEW c, ContextOK(p, c), NEW e \in Event, NEW d \in Handle(p, c, e)
  PROVE  ContextOK(p, d)
<1>1. CASE p = "COUNTER"
  BY <1>1, CounterDispatch DEF ContextOK, Handle
<1>2. CASE p = "LINE"
  BY <1>2, LineDispatch DEF ContextOK, Handle
<1>3. CASE p = "SNAKE"
  BY <1>3, SnakeDispatch DEF ContextOK, Handle
<1> QED BY <1>1, <1>2, <1>3 DEF Programs

\* What is saved of an active program is sound
LEMMA EncodeSound ==
  ASSUME NEW p \in Programs, NEW c, ContextOK(p, c), c.active
  PROVE  BlobOK(p, Encode(p, c))
<1>1. CASE p = "COUNTER"
  <2>1. <<>> \in Seq(Operation)
    OBVIOUS
  <2> QED BY <1>1, <2>1, CounterEncode DEF ContextOK, Encode
<1>2. CASE p = "LINE"
  BY <1>2, LineEncode DEF ContextOK, Encode
<1>3. CASE p = "SNAKE"
  BY <1>3, SnakeEncode DEF ContextOK, Encode
<1> QED BY <1>1, <1>2, <1>3 DEF Programs

\* An active program that comes back is sound
LEMMA RestoredProgramSound ==
  ASSUME NEW p \in Programs, NEW c, NEW b, BlobOK(p, b), b.active,
         p = "COUNTER" => counter_blob_valid(b), NEW lock \in BOOLEAN
  PROVE  ContextOK(p, Restored(p, c, b, lock))
<1>1. CASE p = "COUNTER"
  BY <1>1, CounterRestore DEF ContextOK, Restored
<1>2. CASE p = "LINE"
  BY <1>2, LineRestore DEF ContextOK, Restored
<1>3. CASE p = "SNAKE"
  BY <1>3, SnakeRestore DEF ContextOK, Restored
<1> QED BY <1>1, <1>2, <1>3 DEF Programs

-----------------------------------------------------------------------------
(* Operations on memory *)

SetCtx(m, p, c) == [m EXCEPT !.ctx[p] = c]
SetOwner(m, o) == [m EXCEPT !.owner = o]

SameMail(m, n) == n.used = m.used /\ n.cursor = m.cursor /\ n.cmdq = m.cmdq

\* From m, an operation leaves n: sound, and the mailbox as it was
Keeps(m, n) == Sound(n) /\ SameMail(m, n)

\* Nothing but the context of one program changes
LEMMA SetCtxFields ==
  ASSUME NEW m \in Memory, NEW p \in Programs, NEW c \in Context
  PROVE  /\ SetCtx(m, p, c) \in Memory
         /\ SetCtx(m, p, c).reg = m.reg /\ SetCtx(m, p, c).owner = m.owner
         /\ SetCtx(m, p, c).q = m.q /\ SetCtx(m, p, c).snap = m.snap
         /\ SetCtx(m, p, c).sim = m.sim /\ SameMail(m, SetCtx(m, p, c))
         /\ SetCtx(m, p, c).ctx[p] = c
         /\ \A r \in Programs : r # p => SetCtx(m, p, c).ctx[r] = m.ctx[r]
<1> DEFINE n == SetCtx(m, p, c)
<1>1. n \in Memory
  BY DEF SetCtx, Memory
<1>2. /\ n.reg = m.reg /\ n.owner = m.owner /\ n.q = m.q /\ n.snap = m.snap
      /\ n.sim = m.sim /\ n.used = m.used /\ n.cursor = m.cursor /\ n.cmdq = m.cmdq
  BY DEF SetCtx, Memory
<1>3. n.ctx = [m.ctx EXCEPT ![p] = c]
  BY DEF SetCtx, Memory
<1>4. m.ctx \in [Programs -> Context]
  BY DEF Memory
<1>5. n.ctx[p] = c /\ \A r \in Programs : r # p => n.ctx[r] = m.ctx[r]
  BY <1>3, <1>4
<1> QED BY <1>1, <1>2, <1>5 DEF SameMail

\* A sound context for a program
LEMMA SetCtxSound ==
  ASSUME NEW m, Sound(m), NEW p \in Programs, NEW c, ContextOK(p, c)
  PROVE  Keeps(m, SetCtx(m, p, c))
<1>1. m \in Memory /\ c \in Context
  BY ContextTyped DEF Sound
<1>2. PICK n : n = SetCtx(m, p, c)
  OBVIOUS
<1>3. /\ n \in Memory /\ n.reg = m.reg /\ n.owner = m.owner /\ n.q = m.q /\ n.snap = m.snap
      /\ n.sim = m.sim /\ SameMail(m, n)
  BY <1>1, <1>2, SetCtxFields
<1>4. n.ctx[p] = c /\ \A r \in Programs : r # p => n.ctx[r] = m.ctx[r]
  BY <1>1, <1>2, SetCtxFields
<1>5. \A r \in Programs : ContextOK(r, n.ctx[r])
  <2> SUFFICES ASSUME NEW r \in Programs PROVE ContextOK(r, n.ctx[r])
    OBVIOUS
  <2>1. CASE r = p
    BY <1>4, <2>1
  <2>2. CASE r # p
    BY <1>4, <2>2 DEF Sound
  <2> QED BY <2>1, <2>2
<1> QED BY <1>2, <1>3, <1>5 DEF Sound, OwnerOK, TriggerOK, Keeps

\* A memory in which queues, registrations, owner and the snapshot flags may be
\* others, with the programs and the pending item as they are
LEMMA SoundFrame ==
  ASSUME NEW m, Sound(m), NEW n \in Memory, n.ctx = m.ctx, n.sim = m.sim,
         \A p \in AOs : Len(n.q[p]) <= QueueCap, OwnerOK(n), TriggerOK(n)
  PROVE  Sound(n)
BY DEF Sound

\* Stdin changes hands
LEMMA SetOwnerSound ==
  ASSUME NEW m, Sound(m), NEW o \in Programs \cup {NoOwner}, o \in Games => o \in m.reg
  PROVE  /\ Keeps(m, SetOwner(m, o))
         /\ SetOwner(m, o).owner = o /\ SetOwner(m, o).reg = m.reg
         /\ SetOwner(m, o).q = m.q /\ SetOwner(m, o).ctx = m.ctx
<1>1. m \in Memory
  BY DEF Sound
<1>2. PICK n \in Memory : n = SetOwner(m, o)
  BY <1>1 DEF SetOwner, Memory
<1>3. /\ n.reg = m.reg /\ n.owner = o /\ n.q = m.q /\ n.snap = m.snap /\ n.ctx = m.ctx
      /\ n.sim = m.sim /\ SameMail(m, n)
  BY <1>1, <1>2 DEF SetOwner, Memory, SameMail
<1>4. /\ \A p \in AOs : Len(n.q[p]) <= QueueCap
      /\ OwnerOK(n) /\ TriggerOK(n)
  BY <1>3 DEF Sound, OwnerOK, TriggerOK
<1>5. Sound(n)
  BY <1>3, <1>4, SoundFrame
<1> QED BY <1>2, <1>3, <1>5 DEF Keeps

\* An AO is registered: a new one has an empty queue
LEMMA RegisterTaskSound ==
  ASSUME NEW m, Sound(m), NEW p \in Programs
  PROVE  /\ Keeps(m, sched_register_task(m, p))
         /\ sched_register_task(m, p).reg = m.reg \cup {p}
         /\ sched_register_task(m, p).ctx = m.ctx
         /\ sched_register_task(m, p).owner = m.owner
<1>1. m \in Memory /\ m.q \in [AOs -> Seq(Event)] /\ p \in AOs /\ p # "SNAPSHOT"
  BY DEF Sound, Memory, AOs, Programs
<1>2. PICK s \in Seq(Event) : s = IF p \in m.reg THEN m.q[p] ELSE <<>>
  <2>1. m.q[p] \in Seq(Event) /\ <<>> \in Seq(Event)
    BY <1>1
  <2> QED BY <2>1
<1>3. sched_register_task(m, p) = [m EXCEPT !.reg = m.reg \cup {p}, !.q[p] = s]
  BY <1>1, <1>2 DEF sched_register_task, Memory
<1>4. PICK n \in Memory : n = sched_register_task(m, p)
  BY <1>1, <1>3 DEF Memory
<1>5. /\ n.reg = m.reg \cup {p} /\ n.owner = m.owner /\ n.snap = m.snap /\ n.ctx = m.ctx
      /\ n.sim = m.sim /\ SameMail(m, n) /\ n.q = [m.q EXCEPT ![p] = s]
  BY <1>1, <1>3, <1>4 DEF Memory, SameMail
<1>6. \A r \in AOs : n.q[r] = IF r = p THEN s ELSE m.q[r]
  BY <1>1, <1>5
<1>7. \A r \in AOs : Len(n.q[r]) <= QueueCap
  <2>1. Len(<<>>) <= QueueCap
    BY ProgramsAssumption
  <2> QED BY <1>1, <1>2, <1>6, <2>1 DEF Sound
<1>8. n.q["SNAPSHOT"] = m.q["SNAPSHOT"] /\ ("SNAPSHOT" \in n.reg <=> "SNAPSHOT" \in m.reg)
  BY <1>1, <1>5, <1>6 DEF AOs
<1>9. OwnerOK(n) /\ TriggerOK(n)
  BY <1>5, <1>8 DEF Sound, OwnerOK, TriggerOK
<1>10. Sound(n)
  BY <1>5, <1>7, <1>9, SoundFrame
<1> QED BY <1>4, <1>5, <1>10 DEF Keeps

\* An AO is unregistered: its queue goes with it.  Stdin must not be with it.
LEMMA UnregisterFields ==
  ASSUME NEW m, Sound(m), NEW p \in AOs
  PROVE  /\ sched_unregister(m, p) \in Memory
         /\ sched_unregister(m, p).reg = m.reg \ {p}
         /\ sched_unregister(m, p).ctx = m.ctx
         /\ sched_unregister(m, p).owner = m.owner
         /\ sched_unregister(m, p).snap = m.snap
         /\ sched_unregister(m, p).sim = m.sim
         /\ SameMail(m, sched_unregister(m, p))
         /\ sched_unregister(m, p).q[p] = <<>>
         /\ \A r \in AOs : r # p => sched_unregister(m, p).q[r] = m.q[r]
<1>1. m \in Memory /\ m.q \in [AOs -> Seq(Event)] /\ <<>> \in Seq(Event)
  BY DEF Sound, Memory
<1>2. PICK n \in Memory : n = sched_unregister(m, p)
  BY <1>1 DEF Memory, sched_unregister
<1>3. /\ n.reg = m.reg \ {p} /\ n.owner = m.owner /\ n.snap = m.snap /\ n.ctx = m.ctx
      /\ n.sim = m.sim /\ SameMail(m, n) /\ n.q = [m.q EXCEPT ![p] = <<>>]
  BY <1>1, <1>2 DEF Memory, SameMail, sched_unregister
<1>4. n.q[p] = <<>> /\ \A r \in AOs : r # p => n.q[r] = m.q[r]
  BY <1>1, <1>3
<1> QED BY <1>2, <1>3, <1>4

\* An AO that has no stdin goes
LEMMA UnregisterSound ==
  ASSUME NEW m, Sound(m), NEW p \in AOs, m.owner \in Games => m.owner # p
  PROVE  Keeps(m, sched_unregister(m, p))
<1>1. PICK n : n = sched_unregister(m, p)
  OBVIOUS
<1>2. /\ n \in Memory /\ n.reg = m.reg \ {p} /\ n.ctx = m.ctx /\ n.owner = m.owner
      /\ n.snap = m.snap /\ n.sim = m.sim /\ SameMail(m, n) /\ n.q[p] = <<>>
  BY <1>1, UnregisterFields
<1>3. \A r \in AOs : r # p => n.q[r] = m.q[r]
  BY <1>1, UnregisterFields
<1>4. \A r \in AOs : Len(n.q[r]) <= QueueCap
  <2>1. Len(<<>>) <= QueueCap
    BY ProgramsAssumption
  <2> QED BY <1>2, <1>3, <2>1 DEF Sound
<1>5. OwnerOK(n)
  BY <1>2 DEF Sound, OwnerOK
<1>6. TriggerOK(n)
  BY <1>2, <1>3 DEF Sound, TriggerOK, AOs
<1>7. Sound(n)
  BY <1>2, <1>4, <1>5, <1>6, SoundFrame
<1> QED BY <1>1, <1>2, <1>7 DEF Keeps

\* A task is killed: stdin comes back from it
LEMMA KillSound ==
  ASSUME NEW m, Sound(m), NEW p \in AOs
  PROVE  Keeps(m, term_kill_task(m, p))
<1>1. PICK n : n = sched_unregister(m, p)
  OBVIOUS
<1>2. /\ n \in Memory /\ n.reg = m.reg \ {p} /\ n.ctx = m.ctx /\ n.owner = m.owner
      /\ n.snap = m.snap /\ n.sim = m.sim /\ SameMail(m, n) /\ n.q[p] = <<>>
  BY <1>1, UnregisterFields
<1>3. \A r \in AOs : r # p => n.q[r] = m.q[r]
  BY <1>1, UnregisterFields
<1>4. PICK o \in Programs \cup {NoOwner} : o = IF m.owner = p THEN NoOwner ELSE m.owner
  <2>1. m.owner \in Programs \cup {NoOwner}
    BY DEF Sound, Memory
  <2> QED BY <2>1
<1>5. term_kill_task(m, p) = [n EXCEPT !.owner = o]
  BY <1>1, <1>2, <1>4 DEF term_kill_task
<1>6. PICK k \in Memory : k = term_kill_task(m, p)
  BY <1>2, <1>5 DEF Memory
<1>7. /\ k.reg = m.reg \ {p} /\ k.ctx = m.ctx /\ k.owner = o /\ k.snap = m.snap
      /\ k.sim = m.sim /\ SameMail(m, k) /\ k.q = n.q
  BY <1>2, <1>5, <1>6 DEF Memory, SameMail
<1>8. \A r \in AOs : Len(k.q[r]) <= QueueCap
  <2>1. Len(<<>>) <= QueueCap
    BY ProgramsAssumption
  <2> QED BY <1>2, <1>3, <1>7, <2>1 DEF Sound
<1>9. OwnerOK(k)
  <2>1. NoOwner \notin Games
    BY DEF NoOwner, Games
  <2> QED BY <1>4, <1>7, <2>1 DEF Sound, OwnerOK
<1>10. TriggerOK(k)
  BY <1>2, <1>3, <1>7 DEF Sound, TriggerOK, AOs
<1>11. Sound(k)
  BY <1>7, <1>8, <1>9, <1>10, SoundFrame
<1> QED BY <1>6, <1>7, <1>11 DEF Keeps

\* An event is posted to a queue that has room
LEMMA PostSound ==
  ASSUME NEW m, Sound(m), NEW p \in AOs, CanPost(m, p), NEW e \in Event
  PROVE  /\ Keeps(m, sched_post(m, p, e))
         /\ sched_post(m, p, e).ctx = m.ctx /\ sched_post(m, p, e).reg = m.reg
         /\ sched_post(m, p, e).owner = m.owner /\ sched_post(m, p, e).snap = m.snap
         /\ sched_post(m, p, e).q[p] # <<>>
<1>1. m \in Memory /\ m.q \in [AOs -> Seq(Event)] /\ m.q[p] \in Seq(Event)
  BY DEF Sound, Memory
<1>2. PICK s \in Seq(Event) : s = Append(m.q[p], e)
  <2>1. Append(m.q[p], e) \in Seq(Event)
    BY <1>1
  <2> QED BY <2>1
<1>3. Len(s) <= QueueCap /\ s # <<>>
  BY <1>1, <1>2, ProgramsAssumption DEF CanPost
<1>4. sched_post(m, p, e) = [m EXCEPT !.q[p] = s]
  BY <1>1, <1>2 DEF sched_post, Memory
<1>5. PICK n \in Memory : n = sched_post(m, p, e)
  BY <1>1, <1>4 DEF Memory
<1>6. /\ n.reg = m.reg /\ n.owner = m.owner /\ n.snap = m.snap /\ n.ctx = m.ctx
      /\ n.sim = m.sim /\ SameMail(m, n) /\ n.q = [m.q EXCEPT ![p] = s]
  BY <1>1, <1>4, <1>5 DEF Memory, SameMail
<1>7. \A r \in AOs : n.q[r] = IF r = p THEN s ELSE m.q[r]
  BY <1>1, <1>6
<1>8. \A r \in AOs : Len(n.q[r]) <= QueueCap
  BY <1>3, <1>7 DEF Sound
<1>9. OwnerOK(n) /\ TriggerOK(n)
  BY <1>3, <1>6, <1>7 DEF Sound, OwnerOK, TriggerOK, AOs
<1>10. Sound(n)
  BY <1>6, <1>8, <1>9, SoundFrame
<1> QED BY <1>3, <1>5, <1>6, <1>7, <1>10 DEF Keeps

\* Stdin is asked for
LEMMA AcquireSound ==
  ASSUME NEW m, Sound(m), NEW p \in Programs
  PROVE  /\ Keeps(m, terminal_stdin_acquire(m, p))
         /\ terminal_stdin_acquire(m, p).reg = m.reg
         /\ terminal_stdin_acquire(m, p).q = m.q
         /\ terminal_stdin_acquire(m, p).ctx = m.ctx
<1>1. CASE AcquireRc(m, p) = "OK"
  <2>1. p \in m.reg
    BY <1>1 DEF AcquireRc
  <2>2. terminal_stdin_acquire(m, p) = SetOwner(m, p)
    BY <1>1 DEF terminal_stdin_acquire, SetOwner
  <2> QED BY <2>1, <2>2, SetOwnerSound
<1>2. CASE AcquireRc(m, p) # "OK"
  BY <1>2 DEF terminal_stdin_acquire, Keeps, SameMail
<1> QED BY <1>1, <1>2

\* Stdin is given back
LEMMA ReleaseSound ==
  ASSUME NEW m, Sound(m), NEW p \in Programs
  PROVE  /\ Keeps(m, terminal_stdin_release(m, p))
         /\ terminal_stdin_release(m, p).owner \in Games =>
              terminal_stdin_release(m, p).owner # p
<1>1. CASE m.owner = p /\ term_stdin_owner_valid(m)
  <2>1. terminal_stdin_release(m, p) = SetOwner(m, NoOwner)
    BY <1>1 DEF terminal_stdin_release, SetOwner
  <2>2. NoOwner \notin Games
    BY DEF NoOwner, Games
  <2> QED BY <2>1, <2>2, SetOwnerSound
<1>2. CASE ~(m.owner = p /\ term_stdin_owner_valid(m))
  <2>1. terminal_stdin_release(m, p) = m
    BY <1>2 DEF terminal_stdin_release
  <2>2. m.owner \in Games => m.owner # p
    <3>1. NoOwner \notin Games
      BY DEF NoOwner, Games
    <3> QED BY <1>2, <3>1 DEF Sound, OwnerOK, term_stdin_owner_valid
  <2> QED BY <2>1, <2>2 DEF Keeps, SameMail
<1> QED BY <1>1, <1>2

WithSched(m, b) == [m EXCEPT !.counter_sched = b]

\* Two operations one after the other
LEMMA KeepsTwice ==
  ASSUME NEW m, NEW n, NEW k, Keeps(m, n), Keeps(n, k)
  PROVE  Keeps(m, k)
BY DEF Keeps, SameMail

\* The flag with which the hook of the counter is on
LEMMA SchedSound ==
  ASSUME NEW m, Sound(m), NEW b \in BOOLEAN
  PROVE  /\ Keeps(m, WithSched(m, b)) /\ WithSched(m, b).ctx = m.ctx
         /\ WithSched(m, b).reg = m.reg /\ WithSched(m, b).owner = m.owner
<1>1. m \in Memory
  BY DEF Sound
<1>2. PICK n \in Memory : n = WithSched(m, b)
  BY <1>1 DEF WithSched, Memory
<1>3. /\ n.reg = m.reg /\ n.owner = m.owner /\ n.snap = m.snap /\ n.ctx = m.ctx
      /\ n.sim = m.sim /\ SameMail(m, n) /\ n.q = m.q
  BY <1>1, <1>2 DEF WithSched, Memory, SameMail
<1>4. /\ \A p \in AOs : Len(n.q[p]) <= QueueCap
      /\ OwnerOK(n) /\ TriggerOK(n)
  BY <1>3 DEF Sound, OwnerOK, TriggerOK
<1>5. Sound(n)
  BY <1>3, <1>4, SoundFrame
<1> QED BY <1>2, <1>3, <1>5 DEF Keeps

\* The register_fn of a program
LEMMA RegisterSound ==
  ASSUME NEW m, Sound(m), NEW p \in Programs
  PROVE  /\ Keeps(m, Register(m, p)) /\ Register(m, p).reg = m.reg \cup {p}
         /\ Register(m, p).owner = m.owner
<1>1. PICK r : r = sched_register_task(m, p)
  OBVIOUS
<1>2. /\ Keeps(m, r) /\ Sound(r) /\ r.reg = m.reg \cup {p} /\ r.ctx = m.ctx
      /\ r.owner = m.owner
  BY <1>1, RegisterTaskSound DEF Keeps
<1>3. r \in Memory
  BY <1>2 DEF Sound
<1>4. PICK b \in BOOLEAN : b = (r.counter_sched \/ p = "COUNTER")
  OBVIOUS
<1>5. PICK s : s = WithSched(r, b)
  OBVIOUS
<1>6. Keeps(r, s) /\ Sound(s) /\ s.ctx = r.ctx /\ s.reg = r.reg /\ s.owner = r.owner
  BY <1>2, <1>5, SchedSound DEF Keeps
<1>7. PICK c : c = Registered(p, s.ctx[p])
  OBVIOUS
<1>8. ContextOK(p, c)
  <2>1. ContextOK(p, s.ctx[p])
    BY <1>6 DEF Sound
  <2> QED BY <1>7, <2>1, RegisteredSound
<1>9. Register(m, p) = SetCtx(s, p, c)
  <2>1. Register(m, p) =
          [r EXCEPT !.counter_sched = r.counter_sched \/ p = "COUNTER",
                    !.ctx[p] = Registered(p, r.ctx[p])]
    BY <1>1, <1>3, Zenon DEF Register, Registered
  <2>2. Register(m, p) = [r EXCEPT !.counter_sched = b, !.ctx[p] = c]
    BY <1>4, <1>6, <1>7, <2>1
  <2>3. [r EXCEPT !.counter_sched = b, !.ctx[p] = c] = [s EXCEPT !.ctx[p] = c]
    BY <1>3, <1>5 DEF WithSched, Memory
  <2> QED BY <2>2, <2>3 DEF SetCtx
<1>10. Keeps(s, SetCtx(s, p, c))
  BY <1>6, <1>8, SetCtxSound
<1>11. Keeps(m, SetCtx(s, p, c))
  BY <1>2, <1>6, <1>10, KeepsTwice
<1>12. SetCtx(s, p, c).reg = s.reg /\ SetCtx(s, p, c).owner = s.owner
  <2>1. s \in Memory /\ c \in Context
    BY <1>6, <1>8, ContextTyped DEF Sound
  <2> QED BY <2>1, SetCtxFields
<1> QED BY <1>2, <1>6, <1>9, <1>11, <1>12

\* A command that starts a program
LEMMA StartSound ==
  ASSUME NEW m, Sound(m), NEW p \in Programs, NEW bg \in BOOLEAN, NEW limit \in Word
  PROVE  Keeps(m, request_start(m, p, bg, limit))
<1>1. PICK e \in Event : e = [sig |-> "START", bg |-> bg, limit |-> limit]
  BY DEF Event
<1>2. p \in AOs
  BY DEF AOs
<1>3. PICK a : a = terminal_stdin_acquire(m, p)
  OBVIOUS
<1>4. Keeps(m, a) /\ Sound(a)
  BY <1>3, AcquireSound DEF Keeps
<1>5. Keeps(m, m)
  BY DEF Keeps, SameMail
<1>6. CASE request_start(m, p, bg, limit) = m
  BY <1>5, <1>6
<1>7. CASE CanPost(m, p) /\ request_start(m, p, bg, limit) = sched_post(m, p, e)
  BY <1>2, <1>7, PostSound
<1>8. CASE CanPost(a, p) /\ request_start(m, p, bg, limit) =
             [sched_post(a, p, e) EXCEPT !.ctx[p].rebind = FALSE]
  <2>1. PICK s : s = sched_post(a, p, e)
    OBVIOUS
  <2>2. Keeps(a, s) /\ Sound(s)
    BY <1>2, <1>4, <1>8, <2>1, PostSound DEF Keeps
  <2>3. ContextOK(p, s.ctx[p])
    BY <2>2 DEF Sound
  <2>4. PICK c : c = WithRebind(s.ctx[p], FALSE)
    OBVIOUS
  <2>5. ContextOK(p, c)
    BY <2>3, <2>4, Flags
  <2>6. request_start(m, p, bg, limit) = SetCtx(s, p, c)
    BY <1>8, <2>1, <2>4, Zenon DEF SetCtx, WithRebind
  <2>7. Keeps(s, SetCtx(s, p, c))
    BY <2>2, <2>5, SetCtxSound
  <2> QED BY <1>4, <2>2, <2>6, <2>7, KeepsTwice
<1>9. CASE request_start(m, p, bg, limit) = terminal_stdin_release(a, p)
  <2>1. Keeps(a, terminal_stdin_release(a, p))
    BY <1>4, ReleaseSound
  <2> QED BY <1>4, <1>9, <2>1, KeepsTwice
<1>10. \/ request_start(m, p, bg, limit) = m
       \/ CanPost(m, p) /\ request_start(m, p, bg, limit) = sched_post(m, p, e)
       \/ CanPost(a, p) /\ request_start(m, p, bg, limit) =
            [sched_post(a, p, e) EXCEPT !.ctx[p].rebind = FALSE]
       \/ request_start(m, p, bg, limit) = terminal_stdin_release(a, p)
  BY <1>1, <1>3, Zenon DEF request_start
<1> QED BY <1>6, <1>7, <1>8, <1>9, <1>10

\* One region of a checkpoint is restored
LEMMA ApplyRegionSound ==
  ASSUME NEW m, Sound(m), NEW p \in Programs, NEW b, BlobOK(p, b), NEW bound \in BOOLEAN
  PROVE  Keeps(m, ApplyRegion(m, p, b, bound))
<1>1. PICK r : r = Register(m, p)
  OBVIOUS
<1>2. Keeps(m, r) /\ Sound(r)
  BY <1>1, RegisterSound DEF Keeps
<1>3. ContextOK(p, r.ctx[p])
  BY <1>2 DEF Sound
<1>4. PICK lock \in BOOLEAN : lock = (~bound \/ AcquireRc(r, p) \notin {"OK", "EXISTS"})
  OBVIOUS
<1>5. p # "COUNTER" => b.active
  BY DEF BlobOK, Programs
<1>6. CASE p = "COUNTER" /\ ~counter_blob_valid(b)
  <2>1. ApplyRegion(m, p, b, bound) = r
    BY <1>1, <1>6, Zenon DEF ApplyRegion
  <2> QED BY <1>2, <2>1
<1>7. CASE (p = "COUNTER" => counter_blob_valid(b)) /\ ~b.active
  <2>1. p \in AOs /\ p \notin Games
    BY <1>5, <1>7 DEF AOs, Games
  <2>2. PICK u : u = sched_unregister(r, p)
    OBVIOUS
  <2>3. Keeps(r, u) /\ Sound(u)
    BY <1>2, <2>1, <2>2, UnregisterSound DEF Keeps
  <2>4. PICK c : c = WithRestored(Reset(p, u.ctx[p]), FALSE)
    OBVIOUS
  <2>5. ContextOK(p, u.ctx[p])
    BY <2>3 DEF Sound
  <2>6. ContextOK(p, c)
    BY <2>4, <2>5, ResetSound
  <2>7. ApplyRegion(m, p, b, bound) =
          [sched_unregister(Register(m, p), p) EXCEPT !.ctx[p] = [Reset(p, @) EXCEPT !.restored = FALSE]]
    BY <1>7, Zenon DEF ApplyRegion
  <2>8. ApplyRegion(m, p, b, bound) = SetCtx(u, p, c)
    BY <1>1, <2>2, <2>4, <2>7, Zenon DEF SetCtx, WithRestored
  <2>9. Keeps(u, SetCtx(u, p, c))
    BY <2>3, <2>6, SetCtxSound
  <2> QED BY <1>2, <2>3, <2>8, <2>9, KeepsTwice
<1>8. CASE (p = "COUNTER" => counter_blob_valid(b)) /\ b.active
  <2>1. PICK c : c = Restored(p, r.ctx[p], b, lock)
    OBVIOUS
  <2>2. ContextOK(p, c)
    BY <1>8, <2>1, RestoredProgramSound
  <2>3. PICK s : s = SetCtx(r, p, c)
    OBVIOUS
  <2>4. Keeps(r, s) /\ Sound(s)
    BY <1>2, <2>2, <2>3, SetCtxSound DEF Keeps
  <2>5. Keeps(s, s) /\ Keeps(s, terminal_stdin_acquire(s, p))
    BY <2>4, AcquireSound DEF Keeps, SameMail
  <2>6. ApplyRegion(m, p, b, bound) \in {s, terminal_stdin_acquire(s, p)}
    <3>1. s = [Register(m, p) EXCEPT !.ctx[p] = Restored(p, @, b, ~bound \/ AcquireRc(Register(m, p), p) \notin {"OK", "EXISTS"})]
      BY <1>1, <1>4, <2>1, <2>3, Zenon DEF SetCtx
    <3>2. ApplyRegion(m, p, b, bound) =
            IF (p # "COUNTER" \/ ~b.bg) /\ bound THEN terminal_stdin_acquire(s, p) ELSE s
      BY <1>8, <3>1, Zenon DEF ApplyRegion
    <3> QED BY <3>2
  <2>7. Keeps(s, ApplyRegion(m, p, b, bound))
    BY <2>5, <2>6
  <2> QED BY <1>2, <2>4, <2>7, KeepsTwice
<1> QED BY <1>6, <1>7, <1>8

\* A whole checkpoint is restored
LEMMA ApplyCheckpointSound ==
  ASSUME NEW m, Sound(m), NEW saved, SavedOK(saved), NEW bound \in BOOLEAN
  PROVE  Keeps(m, ApplyCheckpoint(m, saved, bound))
<1> DEFINE apply(n, p) == IF p \in DOMAIN saved THEN ApplyRegion(n, p, saved[p], bound) ELSE n
<1>1. ASSUME NEW n, Sound(n), NEW p \in Programs PROVE Keeps(n, apply(n, p))
  <2>1. CASE p \in DOMAIN saved
    <3>1. BlobOK(p, saved[p])
      BY <2>1 DEF SavedOK
    <3> QED BY <1>1, <2>1, <3>1, ApplyRegionSound
  <2>2. CASE p \notin DOMAIN saved
    BY <1>1, <2>2 DEF Keeps, SameMail
  <2> QED BY <2>1, <2>2
<1>2. ApplyCheckpoint(m, saved, bound) = apply(apply(apply(m, "COUNTER"), "LINE"), "SNAKE")
  BY Zenon DEF ApplyCheckpoint
<1> HIDE DEF apply
<1>3. {"COUNTER", "LINE", "SNAKE"} \subseteq Programs
  BY DEF Programs
<1>4. PICK a : a = apply(m, "COUNTER")
  OBVIOUS
<1>5. Keeps(m, a) /\ Sound(a)
  BY <1>1, <1>3, <1>4 DEF Keeps
<1>6. PICK b : b = apply(a, "LINE")
  OBVIOUS
<1>7. Keeps(a, b) /\ Sound(b)
  BY <1>1, <1>3, <1>5, <1>6 DEF Keeps
<1>8. Keeps(b, apply(b, "SNAKE"))
  BY <1>1, <1>3, <1>7
<1> QED BY <1>2, <1>4, <1>5, <1>6, <1>7, <1>8, KeepsTwice

\* A restored program takes stdin when there is a terminal
LEMMA RebindSound ==
  ASSUME NEW m, Sound(m), NEW p \in Programs
  PROVE  Keeps(m, RebindStdin(m, p))
<1>1. CASE RebindStdin(m, p) = m
  BY <1>1 DEF Keeps, SameMail
<1>2. CASE RebindStdin(m, p) = [terminal_stdin_acquire(m, p) EXCEPT !.ctx[p].rebind = FALSE]
  <2>1. PICK a : a = terminal_stdin_acquire(m, p)
    OBVIOUS
  <2>2. Keeps(m, a) /\ Sound(a)
    BY <2>1, AcquireSound DEF Keeps
  <2>3. ContextOK(p, a.ctx[p])
    BY <2>2 DEF Sound
  <2>4. PICK c : c = WithRebind(a.ctx[p], FALSE)
    OBVIOUS
  <2>5. ContextOK(p, c)
    BY <2>3, <2>4, Flags
  <2>6. RebindStdin(m, p) = SetCtx(a, p, c)
    BY <1>2, <2>1, <2>4, Zenon DEF SetCtx, WithRebind
  <2>7. Keeps(a, SetCtx(a, p, c))
    BY <2>2, <2>5, SetCtxSound
  <2> QED BY <2>2, <2>6, <2>7, KeepsTwice
<1>3. \/ RebindStdin(m, p) = m
      \/ RebindStdin(m, p) = [terminal_stdin_acquire(m, p) EXCEPT !.ctx[p].rebind = FALSE]
  BY Zenon DEF RebindStdin
<1> QED BY <1>1, <1>2, <1>3

\* The terminal is registered
LEMMA TerminalSound ==
  ASSUME NEW m, Sound(m)
  PROVE  Keeps(m, RegisterTerminal(m))
<1>1. PICK n : n = SetOwner(m, NoOwner)
  OBVIOUS
<1>2. Keeps(m, n) /\ Sound(n)
  <2>1. NoOwner \notin Games
    BY DEF NoOwner, Games
  <2> QED BY <1>1, <2>1, SetOwnerSound DEF Keeps
<1>3. {"COUNTER", "LINE", "SNAKE"} \subseteq Programs
  BY DEF Programs
<1>4. PICK a : a = RebindStdin(n, "COUNTER")
  OBVIOUS
<1>5. Keeps(n, a) /\ Sound(a)
  BY <1>2, <1>3, <1>4, RebindSound DEF Keeps
<1>6. PICK b : b = RebindStdin(a, "LINE")
  OBVIOUS
<1>7. Keeps(a, b) /\ Sound(b)
  BY <1>3, <1>5, <1>6, RebindSound DEF Keeps
<1>8. Keeps(b, RebindStdin(b, "SNAKE"))
  BY <1>3, <1>7, RebindSound
<1>9. RegisterTerminal(m) = RebindStdin(b, "SNAKE")
  BY <1>1, <1>4, <1>6, Zenon DEF RegisterTerminal, SetOwner
<1> QED BY <1>2, <1>5, <1>7, <1>8, <1>9, KeepsTwice

\* SRAM before the programs are restored at a cold boot
ZeroRam(area) ==
  [reg |-> {"SNAPSHOT"}, q |-> [p \in AOs |-> <<>>],
   ctx |-> [p \in Programs |->
              CASE p = "COUNTER" -> CounterInit
                [] p = "LINE"    -> LineInit
                [] p = "SNAKE"   -> SnakeInit],
   counter_sched |-> FALSE, owner |-> NoOwner, used |-> {}, cursor |-> 0,
   cmdq |-> <<>>, sim |-> Nothing,
   snap |-> [enabled |-> area, pending |-> FALSE, busy |-> FALSE]]

\* Memory before the programs are restored is sound
LEMMA ZeroSound ==
  ASSUME NEW area \in BOOLEAN
  PROVE  Sound(ZeroRam(area)) /\ ZeroRam(area).used = {} /\ ZeroRam(area).cmdq = <<>>
<1> DEFINE at(p) == CASE p = "COUNTER" -> CounterInit
                      [] p = "LINE"    -> LineInit
                      [] p = "SNAKE"   -> SnakeInit
           ctx == [p \in Programs |-> at(p)]
<1>1. \A p \in Programs : ContextOK(p, ctx[p])
  <2>1. CounterOK(CounterInit)
    <3>1. 0 \in Word
      BY WordAssumption DEF Word
    <3> QED BY <3>1 DEF CounterOK, CounterContext, CounterInit, counter_reset
  <2> QED BY <2>1, LineStarts, SnakeStarts DEF ContextOK, Programs
<1>2. ctx \in [Programs -> Context]
  <2> HIDE DEF at
  <2>1. \A p \in Programs : at(p) \in Context
    BY <1>1, ContextTyped
  <2> QED BY <2>1
<1> HIDE DEF ctx
<1>3. 0 \in MailSlots /\ {"SNAPSHOT"} \in SUBSET AOs /\ NoOwner \notin Games
  BY ProgramsAssumption DEF MailSlots, AOs, NoOwner, Games
<1>4. [p \in AOs |-> <<>>] \in [AOs -> Seq(Event)]
  OBVIOUS
<1>5. PICK z : z = ZeroRam(area)
  OBVIOUS
<1>6. /\ z.q = [p \in AOs |-> <<>>] /\ z.ctx = ctx /\ z.owner = NoOwner /\ z.sim = Nothing
      /\ z.snap = [enabled |-> area, pending |-> FALSE, busy |-> FALSE]
      /\ z.used = {} /\ z.cmdq = <<>>
  BY <1>5 DEF ZeroRam, ctx, at
<1>7. z \in Memory
  <2>1. ZeroRam(area) = [reg |-> {"SNAPSHOT"}, q |-> [p \in AOs |-> <<>>], ctx |-> ctx,
          counter_sched |-> FALSE, owner |-> NoOwner, used |-> {}, cursor |-> 0,
          cmdq |-> <<>>, sim |-> Nothing,
          snap |-> [enabled |-> area, pending |-> FALSE, busy |-> FALSE]]
    BY Zenon DEF ZeroRam, ctx, at
  <2> QED BY <1>2, <1>3, <1>4, <1>5, <2>1 DEF Memory
<1>8. \A p \in AOs : Len(z.q[p]) <= QueueCap
  <2>1. Len(<<>>) = 0
    OBVIOUS
  <2> QED BY <1>6, <2>1, ProgramsAssumption
<1>9. OwnerOK(z) /\ TriggerOK(z)
  BY <1>3, <1>6 DEF OwnerOK, TriggerOK
<1>10. \A p \in Programs : ContextOK(p, z.ctx[p])
  BY <1>1, <1>6
<1> QED BY <1>5, <1>6, <1>7, <1>8, <1>9, <1>10 DEF Sound

\* A cold boot starts from sound memory and an empty mailbox
LEMMA ColdSound ==
  ASSUME NEW saved, SavedOK(saved), NEW area \in BOOLEAN
  PROVE  /\ Sound(ColdRam(saved, area)) /\ ColdRam(saved, area).used = {}
         /\ ColdRam(saved, area).cmdq = <<>>
<1>1. PICK z : z = ZeroRam(area)
  OBVIOUS
<1>2. Sound(z) /\ z.used = {} /\ z.cmdq = <<>>
  BY <1>1, ZeroSound
<1>3. PICK a : a = ApplyCheckpoint(z, saved, FALSE)
  OBVIOUS
<1>4. Keeps(z, a) /\ Sound(a)
  BY <1>2, <1>3, ApplyCheckpointSound DEF Keeps
<1>5. ColdRam(saved, area) = RegisterTerminal(a)
  BY <1>1, <1>3, Zenon DEF ColdRam, ZeroRam
<1>6. Keeps(z, RegisterTerminal(a))
  BY <1>4, TerminalSound, KeepsTwice
<1> QED BY <1>2, <1>5, <1>6 DEF Keeps, SameMail

WithSnap(m, s) == [m EXCEPT !.snap = s]

\* The flags of the snapshot task
LEMMA SnapSound ==
  ASSUME NEW m, Sound(m), NEW s \in [enabled : BOOLEAN, pending : BOOLEAN, busy : BOOLEAN],
         s.pending /\ ~s.busy /\ "SNAPSHOT" \in m.reg => m.q["SNAPSHOT"] # <<>>
  PROVE  /\ Keeps(m, WithSnap(m, s)) /\ WithSnap(m, s).reg = m.reg /\ WithSnap(m, s).q = m.q
         /\ WithSnap(m, s).snap = s
<1>1. m \in Memory
  BY DEF Sound
<1>2. PICK n \in Memory : n = WithSnap(m, s)
  BY <1>1 DEF WithSnap, Memory
<1>3. /\ n.reg = m.reg /\ n.owner = m.owner /\ n.snap = s /\ n.ctx = m.ctx
      /\ n.sim = m.sim /\ SameMail(m, n) /\ n.q = m.q
  BY <1>1, <1>2 DEF WithSnap, Memory, SameMail
<1>4. /\ \A p \in AOs : Len(n.q[p]) <= QueueCap
      /\ OwnerOK(n) /\ TriggerOK(n)
  BY <1>3 DEF Sound, OwnerOK, TriggerOK
<1>5. Sound(n)
  BY <1>3, <1>4, SoundFrame
<1> QED BY <1>2, <1>3, <1>5 DEF Keeps

\* The hook of a program
LEMMA ProgramHookSound ==
  ASSUME NEW m, Sound(m), NEW p \in Programs, NEW due
  PROVE  Keeps(m, ProgramHook(m, p, due))
<1>1. PICK e \in Event : e = [sig |-> "TICK"]
  BY DEF Event
<1>2. p \in AOs /\ ContextOK(p, m.ctx[p])
  BY DEF AOs, Sound
<1>3. CASE ProgramHook(m, p, due) = m
  BY <1>3 DEF Keeps, SameMail
<1>4. CASE ProgramHook(m, p, due) = SetCtx(m, p, Reset(p, m.ctx[p]))
  <2>1. ContextOK(p, Reset(p, m.ctx[p]))
    BY <1>2, ResetSound
  <2> QED BY <1>4, <2>1, SetCtxSound
<1>5. CASE CanPost(m, p) /\ ProgramHook(m, p, due) =
             [sched_post(m, p, e) EXCEPT !.ctx[p].pending = TRUE]
  <2>1. PICK s : s = sched_post(m, p, e)
    OBVIOUS
  <2>2. Keeps(m, s) /\ Sound(s)
    BY <1>2, <1>5, <2>1, PostSound DEF Keeps
  <2>3. ContextOK(p, s.ctx[p])
    BY <2>2 DEF Sound
  <2>4. PICK c : c = WithPending(s.ctx[p], TRUE)
    OBVIOUS
  <2>5. ContextOK(p, c)
    BY <2>3, <2>4, Flags
  <2>6. ProgramHook(m, p, due) = SetCtx(s, p, c)
    BY <1>5, <2>1, <2>4, Zenon DEF SetCtx, WithPending
  <2>7. Keeps(s, SetCtx(s, p, c))
    BY <2>2, <2>5, SetCtxSound
  <2> QED BY <2>2, <2>6, <2>7, KeepsTwice
<1>6. \/ ProgramHook(m, p, due) = m
      \/ ProgramHook(m, p, due) = SetCtx(m, p, Reset(p, m.ctx[p]))
      \/ CanPost(m, p) /\ ProgramHook(m, p, due) =
           [sched_post(m, p, e) EXCEPT !.ctx[p].pending = TRUE]
  BY <1>1, Zenon DEF ProgramHook, SetCtx
<1> QED BY <1>3, <1>4, <1>5, <1>6

\* The hook of the snapshot task: the flag goes with the event
LEMMA SnapshotHookSound ==
  ASSUME NEW m, Sound(m), NEW due
  PROVE  Keeps(m, SnapshotHook(m, due))
<1>1. PICK e \in Event : e = [sig |-> "TRIGGER"]
  BY DEF Event
<1>2. "SNAPSHOT" \in AOs /\ m.snap \in [enabled : BOOLEAN, pending : BOOLEAN, busy : BOOLEAN]
  BY DEF AOs, Sound, Memory
<1>3. CASE SnapshotHook(m, due) = m
  BY <1>3 DEF Keeps, SameMail
<1>4. CASE SnapshotHook(m, due) = [m EXCEPT !.snap.enabled = FALSE, !.snap.pending = FALSE]
  <2>1. PICK s \in [enabled : BOOLEAN, pending : BOOLEAN, busy : BOOLEAN] :
          s = [m.snap EXCEPT !.enabled = FALSE, !.pending = FALSE]
    BY <1>2
  <2>2. ~s.pending
    BY <1>2, <2>1
  <2>3. SnapshotHook(m, due) = WithSnap(m, s)
    <3>1. m \in Memory
      BY DEF Sound
    <3> QED BY <1>4, <2>1, <3>1 DEF WithSnap, Memory
  <2> QED BY <2>2, <2>3, SnapSound
<1>5. CASE /\ CanPost(m, "SNAPSHOT")
           /\ SnapshotHook(m, due) = [sched_post(m, "SNAPSHOT", e) EXCEPT !.snap.pending = TRUE]
  <2>1. PICK n : n = sched_post(m, "SNAPSHOT", e)
    OBVIOUS
  <2>2. Keeps(m, n) /\ Sound(n) /\ n.snap = m.snap /\ n.q["SNAPSHOT"] # <<>>
    BY <1>2, <1>5, <2>1, PostSound DEF Keeps
  <2>3. PICK s \in [enabled : BOOLEAN, pending : BOOLEAN, busy : BOOLEAN] :
          s = [n.snap EXCEPT !.pending = TRUE]
    BY <1>2, <2>2
  <2>4. SnapshotHook(m, due) = WithSnap(n, s)
    BY <1>5, <2>1, <2>3, Zenon DEF WithSnap
  <2>5. Keeps(n, WithSnap(n, s))
    BY <2>2, SnapSound
  <2> QED BY <2>2, <2>4, <2>5, KeepsTwice
<1>6. \/ SnapshotHook(m, due) = m
      \/ SnapshotHook(m, due) = [m EXCEPT !.snap.enabled = FALSE, !.snap.pending = FALSE]
      \/ /\ CanPost(m, "SNAPSHOT")
         /\ SnapshotHook(m, due) = [sched_post(m, "SNAPSHOT", e) EXCEPT !.snap.pending = TRUE]
  BY <1>1, Zenon DEF SnapshotHook
<1> QED BY <1>3, <1>4, <1>5, <1>6

-----------------------------------------------------------------------------
(* The mailbox *)

\* A memory in which only the mailbox is another
LEMMA MailFrame ==
  ASSUME NEW m, Sound(m), NEW n \in Memory, n.ctx = m.ctx, n.sim = m.sim, n.q = m.q,
         n.owner = m.owner, n.reg = m.reg, n.snap = m.snap
  PROVE  Sound(n)
BY DEF Sound, OwnerOK, TriggerOK

\* The search from the cursor finds a slot that is not in use
LEMMA FreeSlotFree ==
  ASSUME NEW m, Sound(m), m.used # MailSlots
  PROVE  FreeSlot(m) \in MailSlots /\ FreeSlot(m) \notin m.used
<1> DEFINE at(i) == (m.cursor + i) % MailboxCap
           free == {i \in MailSlots : at(i) \notin m.used}
<1>1. MailboxCap \in Nat /\ MailboxCap > 0
  BY ProgramsAssumption
<1>2. m.used \in SUBSET MailSlots /\ m.cursor \in MailSlots
  BY DEF Sound, Memory
<1>3. m.cursor \in Nat /\ m.cursor < MailboxCap
  BY <1>1, <1>2 DEF MailSlots
<1>4. PICK s \in MailSlots : s \notin m.used
  BY <1>2
<1>5. s \in Nat /\ s < MailboxCap
  BY <1>1 DEF MailSlots
<1>6. PICK i \in MailSlots : at(i) = s
  <2>1. CASE s >= m.cursor
    <3>1. s - m.cursor \in MailSlots /\ (m.cursor + (s - m.cursor)) % MailboxCap = s
      BY <1>1, <1>3, <1>5, <2>1 DEF MailSlots
    <3> QED BY <3>1
  <2>2. CASE s < m.cursor
    <3>1. PICK i \in MailSlots : i = s + MailboxCap - m.cursor
      BY <1>1, <1>3, <1>5, <2>2 DEF MailSlots
    <3>2. m.cursor + i = s + MailboxCap
      BY <1>1, <1>3, <1>5, <3>1
    <3>3. (s + MailboxCap) % MailboxCap = s
      BY <1>1, <1>5
    <3> QED BY <3>2, <3>3
  <2> QED BY <1>3, <1>5, <2>1, <2>2
<1>7. i \in free
  BY <1>4, <1>6
<1>8. PICK n \in Nat : n = MailboxCap - 1
  BY <1>1
<1>9. free \in SUBSET (0 .. n)
  BY <1>8 DEF MailSlots
<1>10. \E k \in free : \A j \in free : k <= j
  <2> HIDE DEF free
  <2> QED BY <1>7, <1>9, LeastElement
<1>11. FreeSlot(m) = at(CHOOSE k \in free : \A j \in free : k <= j)
  BY Zenon DEF FreeSlot
<1>12. (CHOOSE k \in free : \A j \in free : k <= j) \in free
  <2> HIDE DEF free
  <2> QED BY <1>10
<1>13. \A k \in free : at(k) \in MailSlots /\ at(k) \notin m.used
  <2> SUFFICES ASSUME NEW k \in free PROVE at(k) \in MailSlots
    OBVIOUS
  <2>1. k \in Nat
    BY DEF MailSlots
  <2> QED BY <1>1, <1>3, <2>1 DEF MailSlots
<1> HIDE DEF at, free
<1> QED BY <1>11, <1>12, <1>13

\* A line that is sent to the commands has a slot of its own
LEMMA EnqueueSound ==
  ASSUME NEW m, Sound(m), NEW f \in BOOLEAN, MailOK(m, f), m.used # MailSlots, NEW line \in Lines
  PROVE  Sound(Enqueue(m, line)) /\ MailOK(Enqueue(m, line), f)
<1>1. m \in Memory
  BY DEF Sound
<1>2. MailboxCap \in Nat /\ MailboxCap > 0
  BY ProgramsAssumption
<1>3. PICK s \in MailSlots : s = FreeSlot(m) /\ s \notin m.used
  BY FreeSlotFree
<1>4. PICK next \in MailSlots : next = (s + 1) % MailboxCap
  BY <1>2 DEF MailSlots
<1>5. m.cmdq \in Seq([slot : MailSlots, line : Lines])
  BY <1>1 DEF Memory
<1>6. CASE Len(m.cmdq) < MailboxCap
  <2>1. PICK cmd \in [slot : MailSlots, line : Lines] : cmd = [slot |-> s, line |-> line]
    OBVIOUS
  <2>2. cmd.slot = s
    BY <2>1
  <2>3. PICK queue \in Seq([slot : MailSlots, line : Lines]) : queue = Append(m.cmdq, cmd)
    <3>1. Append(m.cmdq, cmd) \in Seq([slot : MailSlots, line : Lines])
      BY <1>5
    <3> QED BY <3>1
  <2>4. PICK used \in SUBSET MailSlots : used = m.used \cup {s}
    BY <1>1 DEF Memory
  <2>5. Enqueue(m, line) = [m EXCEPT !.used = used, !.cursor = next, !.cmdq = queue]
    BY <1>1, <1>3, <1>4, <1>6, <2>1, <2>3, <2>4 DEF Enqueue, Memory
  <2>6. PICK n \in Memory : n = Enqueue(m, line)
    BY <1>1, <2>5 DEF Memory
  <2>7. /\ n.ctx = m.ctx /\ n.sim = m.sim /\ n.q = m.q /\ n.owner = m.owner /\ n.reg = m.reg
        /\ n.snap = m.snap /\ n.used = used /\ n.cmdq = queue
    BY <1>1, <2>5, <2>6 DEF Memory
  <2>8. Sound(n)
    BY <2>7, MailFrame
  <2>9. /\ Len(queue) = Len(m.cmdq) + 1
        /\ \A i \in 1 .. Len(m.cmdq) : queue[i] = m.cmdq[i]
        /\ queue[Len(m.cmdq) + 1] = cmd
    BY <1>5, <2>3
  <2>10. Len(queue) <= MailboxCap
    BY <1>2, <1>5, <1>6, <2>9
  <2>11. \A i \in 1 .. Len(queue) : queue[i].slot \in used
    BY <1>5, <2>2, <2>4, <2>9 DEF MailOK
  <2>12. ASSUME NEW i \in 1 .. Len(queue), NEW j \in 1 .. Len(queue), i # j
         PROVE  queue[i].slot # queue[j].slot
    <3>1. CASE i \in 1 .. Len(m.cmdq) /\ j \in 1 .. Len(m.cmdq)
      BY <2>9, <2>12, <3>1 DEF MailOK
    <3>2. CASE i \in 1 .. Len(m.cmdq) /\ j = Len(m.cmdq) + 1
      BY <1>3, <2>2, <2>9, <3>2 DEF MailOK
    <3>3. CASE j \in 1 .. Len(m.cmdq) /\ i = Len(m.cmdq) + 1
      BY <1>3, <2>2, <2>9, <3>3 DEF MailOK
    <3> QED BY <1>5, <2>9, <2>12, <3>1, <3>2, <3>3
  <2>13. ASSUME ~f, NEW t \in used PROVE \E i \in 1 .. Len(queue) : queue[i].slot = t
    <3>1. CASE t = s
      BY <1>5, <2>2, <2>9, <3>1
    <3>2. CASE t \in m.used
      <4>1. PICK i \in 1 .. Len(m.cmdq) : m.cmdq[i].slot = t
        BY <2>13, <3>2 DEF MailOK
      <4>2. i \in 1 .. Len(queue) /\ queue[i].slot = t
        BY <1>5, <2>9, <4>1
      <4> QED BY <4>2
    <3> QED BY <2>4, <3>1, <3>2
  <2>14. MailOK(n, f)
    BY <2>7, <2>10, <2>11, <2>12, <2>13 DEF MailOK
  <2> QED BY <2>6, <2>8, <2>14
<1>7. CASE ~(Len(m.cmdq) < MailboxCap)
  <2>1. Enqueue(m, line) = [m EXCEPT !.cursor = next]
    BY <1>3, <1>4, <1>7 DEF Enqueue
  <2>2. PICK n \in Memory : n = Enqueue(m, line)
    BY <1>1, <2>1 DEF Memory
  <2>3. /\ n.ctx = m.ctx /\ n.sim = m.sim /\ n.q = m.q /\ n.owner = m.owner /\ n.reg = m.reg
        /\ n.snap = m.snap /\ n.used = m.used /\ n.cmdq = m.cmdq
    BY <1>1, <2>1, <2>2 DEF Memory
  <2>4. Sound(n)
    BY <2>3, MailFrame
  <2>5. MailOK(n, f)
    BY <2>3 DEF MailOK
  <2> QED BY <2>2, <2>4, <2>5
<1> QED BY <1>6, <1>7

\* The first element of a queue and the rest
LEMMA FirstAndRest ==
  ASSUME NEW S, NEW s \in Seq(S), s # <<>>
  PROVE  Head(s) \in S /\ Tail(s) \in Seq(S)
OBVIOUS

\* A command is taken out of the queue
LEMMA PoppedSound ==
  ASSUME Sound(ram), ram.cmdq # <<>>
  PROVE  /\ Sound(Popped) /\ Popped.used = ram.used /\ Popped.cmdq = Tail(ram.cmdq)
         /\ Popped.reg = ram.reg /\ Popped.owner = ram.owner /\ Popped.ctx = ram.ctx
         /\ Popped.snap = ram.snap /\ Popped.q = ram.q
         /\ Command \in [slot : MailSlots, line : Lines]
<1>1. ram \in Memory
  BY DEF Sound
<1>2. ram.cmdq \in Seq([slot : MailSlots, line : Lines])
  BY <1>1 DEF Memory
<1>3. /\ Tail(ram.cmdq) \in Seq([slot : MailSlots, line : Lines])
      /\ Command \in [slot : MailSlots, line : Lines]
  BY <1>2, FirstAndRest DEF Command
<1>4. PICK n \in Memory : n = Popped
  BY <1>1, <1>3 DEF Popped, Memory
<1>5. /\ n.ctx = ram.ctx /\ n.sim = ram.sim /\ n.q = ram.q /\ n.owner = ram.owner
      /\ n.reg = ram.reg /\ n.snap = ram.snap /\ n.used = ram.used
      /\ n.cmdq = Tail(ram.cmdq)
  BY <1>1, <1>4 DEF Popped, Memory
<1>6. Sound(n)
  BY <1>5, MailFrame
<1> QED BY <1>3, <1>4, <1>5, <1>6

\* A command ends: its slot is released, and the other commands have theirs
LEMMA CmdEndSound ==
  ASSUME Sound(ram), NEW f \in BOOLEAN, MailOK(ram, f), ram.cmdq # <<>>, NEW m, Keeps(Popped, m)
  PROVE  Sound(CmdSlotRelease(m)) /\ MailOK(CmdSlotRelease(m), f)
<1>1. m \in Memory /\ Sound(m) /\ m.used = ram.used /\ m.cmdq = Tail(ram.cmdq)
  BY PoppedSound DEF Keeps, SameMail, Sound
<1>2. PICK s \in MailSlots : s = Command.slot
  BY PoppedSound
<1>3. ram.cmdq \in Seq([slot : MailSlots, line : Lines])
  BY DEF Sound, Memory
<1>4. ram.cmdq[1].slot = s /\ Len(ram.cmdq) > 0 /\ Len(ram.cmdq) \in Nat
  BY <1>2, <1>3 DEF Command
<1>5. PICK queue \in Seq([slot : MailSlots, line : Lines]) : queue = Tail(ram.cmdq)
  <2>1. Tail(ram.cmdq) \in Seq([slot : MailSlots, line : Lines])
    BY <1>3
  <2> QED BY <2>1
<1>6. /\ Len(queue) = Len(ram.cmdq) - 1
      /\ \A i \in 1 .. Len(queue) : queue[i] = ram.cmdq[i + 1] /\ i + 1 \in 1 .. Len(ram.cmdq)
  BY <1>3, <1>4, <1>5
<1>7. PICK used \in SUBSET MailSlots : used = ram.used \ {s}
  BY DEF Sound, Memory
<1>8. PICK n \in Memory : n = CmdSlotRelease(m)
  BY <1>1 DEF CmdSlotRelease, Memory
<1>9. /\ n.ctx = m.ctx /\ n.sim = m.sim /\ n.q = m.q /\ n.owner = m.owner /\ n.reg = m.reg
      /\ n.snap = m.snap /\ n.used = used /\ n.cmdq = queue
  BY <1>1, <1>2, <1>5, <1>7, <1>8 DEF CmdSlotRelease, Memory
<1>10. Sound(n)
  BY <1>1, <1>9, MailFrame
<1>11. Len(queue) <= MailboxCap
  <2>1. Len(ram.cmdq) <= MailboxCap
    BY DEF MailOK
  <2> QED BY <1>4, <1>6, <2>1, ProgramsAssumption
<1>12. ASSUME NEW i \in 1 .. Len(queue) PROVE queue[i].slot \in used
  <2>1. queue[i] = ram.cmdq[i + 1] /\ i + 1 \in 1 .. Len(ram.cmdq) /\ 1 \in 1 .. Len(ram.cmdq)
        /\ i + 1 # 1
    BY <1>4, <1>6
  <2>2. ram.cmdq[i + 1].slot \in ram.used /\ ram.cmdq[i + 1].slot # ram.cmdq[1].slot
    BY <2>1 DEF MailOK
  <2> QED BY <1>4, <1>7, <2>1, <2>2
<1>13. ASSUME NEW i \in 1 .. Len(queue), NEW j \in 1 .. Len(queue), i # j
       PROVE  queue[i].slot # queue[j].slot
  <2>1. /\ queue[i] = ram.cmdq[i + 1] /\ i + 1 \in 1 .. Len(ram.cmdq)
        /\ queue[j] = ram.cmdq[j + 1] /\ j + 1 \in 1 .. Len(ram.cmdq) /\ i + 1 # j + 1
    BY <1>6, <1>13
  <2> QED BY <2>1 DEF MailOK
<1>14. ASSUME ~f, NEW t \in used PROVE \E i \in 1 .. Len(queue) : queue[i].slot = t
  <2>1. t \in ram.used /\ t # s
    BY <1>7
  <2>2. PICK k \in 1 .. Len(ram.cmdq) : ram.cmdq[k].slot = t
    BY <1>14, <2>1 DEF MailOK
  <2>3. k # 1
    BY <1>4, <2>1, <2>2
  <2>4. k - 1 \in 1 .. Len(queue) /\ (k - 1) + 1 = k
    BY <1>4, <1>6, <2>3
  <2>5. queue[k - 1].slot = t
    BY <1>6, <2>2, <2>4
  <2> QED BY <2>4, <2>5
<1>15. MailOK(n, f)
  BY <1>9, <1>11, <1>12, <1>13, <1>14 DEF MailOK
<1> QED BY <1>8, <1>10, <1>15

-----------------------------------------------------------------------------
(* The actions *)

\* A mailbox that is left alone
LEMMA MailKept ==
  ASSUME NEW m, NEW n, NEW f, MailOK(m, f), SameMail(m, n)
  PROVE  MailOK(n, f)
BY DEF MailOK, SameMail

\* SysTick
LEMMA SysTickSound ==
  ASSUME IInv, NEW due, SysTick(due)
  PROVE  IInv'
<1>1. Sound(ram)
  BY DEF IInv
<1>2. {"COUNTER", "LINE", "SNAKE"} \subseteq Programs
  BY DEF Programs
<1>3. PICK a : a = ProgramHook(ram, "COUNTER", due)
  OBVIOUS
<1>4. Keeps(ram, a) /\ Sound(a)
  BY <1>1, <1>2, <1>3, ProgramHookSound DEF Keeps
<1>5. PICK b : b = SnapshotHook(a, due)
  OBVIOUS
<1>6. Keeps(a, b) /\ Sound(b)
  BY <1>4, <1>5, SnapshotHookSound DEF Keeps
<1>7. PICK c : c = ProgramHook(b, "LINE", due)
  OBVIOUS
<1>8. Keeps(b, c) /\ Sound(c)
  BY <1>2, <1>6, <1>7, ProgramHookSound DEF Keeps
<1>9. Keeps(c, ProgramHook(c, "SNAKE", due))
  BY <1>2, <1>8, ProgramHookSound
<1>10. ram' = ProgramHook(c, "SNAKE", due) /\ UNCHANGED <<card, image, tty, resumed>>
  BY <1>3, <1>5, <1>7, Zenon DEF SysTick
<1>11. Keeps(ram, ram')
  BY <1>4, <1>6, <1>8, <1>9, <1>10, KeepsTwice
<1>12. Sound(ram') /\ MailOK(ram', resumed)
  BY <1>11, MailKept DEF Keeps, IInv
<1> QED BY <1>10, <1>12 DEF IInv

\* An event is handled
LEMMA DispatchSound ==
  ASSUME IInv, NEW p \in Programs, Dispatch(p)
  PROVE  IInv'
<1>1. Sound(ram) /\ ram \in Memory /\ p \in AOs /\ p # "SNAPSHOT"
  BY DEF IInv, Sound, AOs, Programs
<1>2. ram.q \in [AOs -> Seq(Event)] /\ ram.q[p] \in Seq(Event) /\ ram.q[p] # <<>>
  BY <1>1 DEF Memory, Dispatch
<1>3. PICK rest \in Seq(Event) : rest = Tail(ram.q[p])
  <2>1. Tail(ram.q[p]) \in Seq(Event)
    BY <1>2
  <2> QED BY <2>1
<1>4. PICK e \in Event : e = Head(ram.q[p])
  <2>1. Head(ram.q[p]) \in Event
    BY <1>2
  <2> QED BY <2>1
<1>5. Len(rest) <= QueueCap
  <2>1. Len(ram.q[p]) <= QueueCap /\ Len(rest) = Len(ram.q[p]) - 1 /\ Len(ram.q[p]) \in Nat
    BY <1>1, <1>2, <1>3 DEF Sound
  <2> QED BY <2>1, ProgramsAssumption
<1>6. PICK c \in Handle(p, ram.ctx[p], Head(ram.q[p])) :
        LET m == [ram EXCEPT !.q[p] = Tail(ram.q[p]), !.ctx[p] = c]
            bg == p = "COUNTER" /\ ram.ctx[p].bg
            freed == IF bg THEN m ELSE terminal_stdin_release(m, p)
        IN  ram' = IF ram.ctx[p].active /\ ~c.active THEN sched_unregister(freed, p) ELSE m
  BY Zenon DEF Dispatch
<1>7. ContextOK(p, ram.ctx[p]) /\ ContextOK(p, c)
  BY <1>1, <1>4, <1>6, HandleSound DEF Sound
<1>8. PICK n \in Memory : n = [ram EXCEPT !.q[p] = rest]
  BY <1>1, <1>2 DEF Memory
<1>9. /\ n.reg = ram.reg /\ n.owner = ram.owner /\ n.snap = ram.snap /\ n.ctx = ram.ctx
      /\ n.sim = ram.sim /\ SameMail(ram, n) /\ n.q = [ram.q EXCEPT ![p] = rest]
  BY <1>1, <1>8 DEF Memory, SameMail
<1>10. Sound(n)
  <2>1. \A r \in AOs : n.q[r] = IF r = p THEN rest ELSE ram.q[r]
    BY <1>2, <1>9
  <2>2. \A r \in AOs : Len(n.q[r]) <= QueueCap
    BY <1>1, <1>5, <2>1 DEF Sound
  <2>3. n.q["SNAPSHOT"] = ram.q["SNAPSHOT"]
    BY <1>1, <2>1 DEF AOs
  <2>4. OwnerOK(n) /\ TriggerOK(n)
    BY <1>1, <1>9, <2>3 DEF Sound, OwnerOK, TriggerOK
  <2> QED BY <1>1, <1>9, <2>2, <2>4, SoundFrame
<1>11. PICK m : m = SetCtx(n, p, c)
  OBVIOUS
<1>12. m = [ram EXCEPT !.q[p] = Tail(ram.q[p]), !.ctx[p] = c]
  BY <1>1, <1>3, <1>8, <1>11 DEF SetCtx, Memory
<1>13. Keeps(n, m) /\ Sound(m)
  BY <1>7, <1>10, <1>11, SetCtxSound DEF Keeps
<1>14. Keeps(ram, m)
  BY <1>9, <1>10, <1>13, KeepsTwice DEF Keeps
<1>15. CASE ram' = m
  BY <1>14, <1>15, MailKept DEF IInv, Dispatch, Keeps
<1>16. CASE \E freed : /\ freed = IF p = "COUNTER" /\ ram.ctx[p].bg THEN m ELSE terminal_stdin_release(m, p)
                       /\ ram' = sched_unregister(freed, p)
  <2>1. PICK freed : /\ freed = IF p = "COUNTER" /\ ram.ctx[p].bg THEN m ELSE terminal_stdin_release(m, p)
                     /\ ram' = sched_unregister(freed, p)
    BY <1>16
  <2>2. Keeps(m, freed) /\ Sound(freed) /\ (freed.owner \in Games => freed.owner # p)
    <3>1. CASE p = "COUNTER" /\ ram.ctx[p].bg
      <4>1. freed = m /\ p \notin Games
        BY <2>1, <3>1 DEF Games
      <4> QED BY <1>13, <4>1 DEF Keeps, SameMail
    <3>2. CASE ~(p = "COUNTER" /\ ram.ctx[p].bg)
      BY <1>13, <2>1, <3>2, ReleaseSound DEF Keeps
    <3> QED BY <3>1, <3>2
  <2>3. Keeps(freed, ram')
    BY <1>1, <2>1, <2>2, UnregisterSound
  <2>4. Keeps(ram, ram')
    BY <1>14, <2>2, <2>3, KeepsTwice
  <2> QED BY <2>4, MailKept DEF IInv, Dispatch, Keeps
<1> QED BY <1>6, <1>12, <1>15, <1>16

\* A step that keeps memory sound and leaves mailbox, checkpoint and image alone
LEMMA StepKeeps ==
  ASSUME IInv, Keeps(ram, ram'), UNCHANGED <<card, image, resumed>>, tty' \in BOOLEAN
  PROVE  IInv'
<1>1. Sound(ram') /\ MailOK(ram', resumed)
  BY MailKept DEF Keeps, IInv
<1> QED BY <1>1 DEF IInv

\* The snapshot task takes its event: the flag now belongs to the handler
LEMMA SnapshotBeginSound ==
  ASSUME IInv, SnapshotBegin
  PROVE  IInv'
<1>1. Sound(ram) /\ ram \in Memory /\ "SNAPSHOT" \in AOs
  BY DEF IInv, Sound, AOs
<1>2. /\ ram.q \in [AOs -> Seq(Event)] /\ ram.q["SNAPSHOT"] \in Seq(Event)
      /\ ram.q["SNAPSHOT"] # <<>>
      /\ ram.snap \in [enabled : BOOLEAN, pending : BOOLEAN, busy : BOOLEAN]
  BY <1>1 DEF Memory, SnapshotBegin
<1>3. PICK rest \in Seq(Event) : rest = Tail(ram.q["SNAPSHOT"])
  BY <1>2, FirstAndRest
<1>4. Len(rest) <= QueueCap
  <2>1. /\ Len(ram.q["SNAPSHOT"]) <= QueueCap /\ Len(ram.q["SNAPSHOT"]) \in Nat
        /\ Len(rest) = Len(ram.q["SNAPSHOT"]) - 1
    BY <1>1, <1>2, <1>3 DEF Sound
  <2> QED BY <2>1, ProgramsAssumption
<1>5. PICK s \in [enabled : BOOLEAN, pending : BOOLEAN, busy : BOOLEAN] :
        /\ s = IF ram.snap.enabled THEN [ram.snap EXCEPT !.busy = TRUE]
               ELSE [ram.snap EXCEPT !.pending = FALSE]
        /\ s.busy \/ ~s.pending
  <2>1. PICK t \in [enabled : BOOLEAN, pending : BOOLEAN, busy : BOOLEAN] :
          t = [ram.snap EXCEPT !.busy = TRUE]
    BY <1>2
  <2>2. PICK u \in [enabled : BOOLEAN, pending : BOOLEAN, busy : BOOLEAN] :
          u = [ram.snap EXCEPT !.pending = FALSE]
    BY <1>2
  <2>3. t.busy /\ ~u.pending
    BY <1>2, <2>1, <2>2
  <2>4. CASE ram.snap.enabled
    BY <2>1, <2>3, <2>4
  <2>5. CASE ~ram.snap.enabled
    BY <2>2, <2>3, <2>5
  <2> QED BY <2>4, <2>5
<1>6. ram' = [ram EXCEPT !.q["SNAPSHOT"] = rest, !.snap = s]
  BY <1>1, <1>3, <1>5 DEF SnapshotBegin, Memory
<1>7. PICK n \in Memory : n = ram'
  BY <1>1, <1>2, <1>6 DEF Memory
<1>8. /\ n.reg = ram.reg /\ n.owner = ram.owner /\ n.snap = s /\ n.ctx = ram.ctx
      /\ n.sim = ram.sim /\ SameMail(ram, n) /\ n.q = [ram.q EXCEPT !["SNAPSHOT"] = rest]
  BY <1>1, <1>6, <1>7 DEF Memory, SameMail
<1>9. \A r \in AOs : Len(n.q[r]) <= QueueCap
  BY <1>1, <1>2, <1>4, <1>8 DEF Sound
<1>10. OwnerOK(n) /\ TriggerOK(n)
  BY <1>1, <1>5, <1>8 DEF Sound, OwnerOK, TriggerOK
<1>11. Sound(n)
  BY <1>1, <1>8, <1>9, <1>10, SoundFrame
<1>12. Keeps(ram, ram')
  BY <1>7, <1>8, <1>11 DEF Keeps
<1> QED BY <1>12, StepKeeps DEF SnapshotBegin, IInv

\* The snapshot is written, or the attempt failed
LEMMA SnapshotEndSound ==
  ASSUME IInv, SnapshotEnd
  PROVE  IInv'
<1>1. Sound(ram) /\ ram \in Memory
  BY DEF IInv, Sound
<1>2. ram.snap \in [enabled : BOOLEAN, pending : BOOLEAN, busy : BOOLEAN]
  BY <1>1 DEF Memory
<1>3. PICK s \in [enabled : BOOLEAN, pending : BOOLEAN, busy : BOOLEAN] :
        s = [ram.snap EXCEPT !.pending = FALSE, !.busy = FALSE]
  BY <1>2
<1>4. ~s.pending
  BY <1>2, <1>3
<1>5. ram' = WithSnap(ram, s)
  BY <1>1, <1>3 DEF SnapshotEnd, WithSnap, Memory
<1>6. Keeps(ram, ram')
  BY <1>1, <1>4, <1>5, SnapSound
<1>7. Sound(ram') /\ MailOK(ram', resumed)
  BY <1>6, MailKept DEF Keeps, IInv
<1>8. image' # Nothing => Sound(image')
  BY <1>1 DEF IInv, SnapshotEnd
<1> QED BY <1>7, <1>8 DEF IInv, SnapshotEnd

\* A line is typed
LEMMA TypeLineSound ==
  ASSUME IInv, NEW line \in Lines, TypeLine(line)
  PROVE  IInv'
<1>1. Sound(ram) /\ MailOK(ram, resumed) /\ resumed \in BOOLEAN
  BY DEF IInv
<1>2. Sound(ram') /\ MailOK(ram', resumed)
  <2>1. CASE ram.used = MailSlots
    BY <1>1, <2>1 DEF TypeLine
  <2>2. CASE ram.used # MailSlots
    <3>1. ram' = Enqueue(ram, line)
      BY <2>2 DEF TypeLine
    <3> QED BY <1>1, <2>2, <3>1, EnqueueSound
  <2> QED BY <2>1, <2>2
<1>3. UNCHANGED <<card, image, resumed>> /\ tty' = TRUE
  BY DEF TypeLine, TtyRuns
<1> QED BY <1>2, <1>3 DEF IInv

\* A key is typed for the owner of stdin
LEMMA TypeKeySound ==
  ASSUME IInv, NEW key, TypeKey(key)
  PROVE  IInv'
<1>1. Sound(ram) /\ ram.owner \in Programs /\ ram.owner \in AOs
  BY DEF IInv, Sound, Memory, TypeKey, term_stdin_owner_valid, NoOwner, AOs
<1>2. PICK p \in Programs : p = ram.owner
  BY <1>1
<1>3. key \in UNION {Keys[r] : r \in Programs}
  BY <1>2 DEF TypeKey
<1>4. PICK e \in Event : e = [sig |-> "RAW", key |-> key]
  BY <1>3 DEF Event
<1>5. ram' = IF CanPost(ram, p) THEN sched_post(ram, p, e) ELSE ram
  BY <1>2, <1>4, Zenon DEF TypeKey
<1>6. Keeps(ram, ram')
  <2>1. CASE CanPost(ram, p)
    BY <1>1, <1>2, <1>5, <2>1, PostSound
  <2>2. CASE ~CanPost(ram, p)
    BY <1>1, <1>5, <2>2 DEF Keeps, SameMail
  <2> QED BY <2>1, <2>2
<1>7. UNCHANGED <<card, image, resumed>> /\ tty' = TRUE
  BY DEF TypeKey, TtyRuns
<1> QED BY <1>6, <1>7, StepKeeps

\* Ctrl-C
LEMMA CtrlCSound ==
  ASSUME IInv, CtrlC
  PROVE  IInv'
<1>1. Sound(ram) /\ ram.owner \in AOs
  BY DEF IInv, Sound, Memory, CtrlC, term_stdin_owner_valid, NoOwner, AOs
<1>2. Keeps(ram, ram')
  BY <1>1, KillSound DEF CtrlC
<1>3. UNCHANGED <<card, image, resumed>> /\ tty' = TRUE
  BY DEF CtrlC, TtyRuns
<1> QED BY <1>2, <1>3, StepKeeps

\* A cold boot
LEMMA ColdBootSound ==
  ASSUME IInv, ColdBoot
  PROVE  IInv'
<1>1. PICK restore \in BOOLEAN, area \in BOOLEAN :
        ram' = ColdRam(IF restore THEN card ELSE NoPrograms, area)
  BY DEF ColdBoot
<1>2. PICK saved : saved = IF restore THEN card ELSE NoPrograms
  OBVIOUS
<1>3. SavedOK(saved)
  <2>1. SavedOK(NoPrograms)
    BY DEF SavedOK, NoPrograms
  <2> QED BY <1>2, <2>1 DEF IInv
<1>4. Sound(ram') /\ ram'.used = {} /\ ram'.cmdq = <<>>
  BY <1>1, <1>2, <1>3, ColdSound
<1>5. MailOK(ram', FALSE)
  BY <1>4, ProgramsAssumption DEF MailOK
<1>6. UNCHANGED <<card, image>> /\ tty' = FALSE /\ resumed' = FALSE
  BY DEF ColdBoot
<1> QED BY <1>4, <1>5, <1>6 DEF IInv

\* A resume: the queues are flushed, and with them the trigger
LEMMA ResumeSound ==
  ASSUME IInv, Resume
  PROVE  IInv'
<1>1. Sound(image) /\ image \in Memory
  BY DEF IInv, Resume, Sound
<1>2. PICK b \in BOOLEAN : b = ("COUNTER" \in image.reg)
  <2>1. ("COUNTER" \in image.reg) \in BOOLEAN
    OBVIOUS
  <2> QED BY <2>1, Zenon
<1>3. PICK s \in [enabled : BOOLEAN, pending : BOOLEAN, busy : BOOLEAN] :
        /\ s = IF "SNAPSHOT" \in image.reg
               THEN [enabled |-> TRUE, pending |-> FALSE, busy |-> FALSE]
               ELSE [image.snap EXCEPT !.enabled = FALSE]
        /\ "SNAPSHOT" \in image.reg => ~s.pending
  <2>1. image.snap \in [enabled : BOOLEAN, pending : BOOLEAN, busy : BOOLEAN]
    BY <1>1 DEF Memory
  <2>2. PICK t \in [enabled : BOOLEAN, pending : BOOLEAN, busy : BOOLEAN] :
          t = [enabled |-> TRUE, pending |-> FALSE, busy |-> FALSE]
    OBVIOUS
  <2>3. PICK u \in [enabled : BOOLEAN, pending : BOOLEAN, busy : BOOLEAN] :
          u = [image.snap EXCEPT !.enabled = FALSE]
    BY <2>1
  <2>4. ~t.pending
    BY <2>2
  <2>5. CASE "SNAPSHOT" \in image.reg
    BY <2>2, <2>4, <2>5
  <2>6. CASE "SNAPSHOT" \notin image.reg
    BY <2>3, <2>6
  <2> QED BY <2>5, <2>6
<1>4. PICK queues \in [AOs -> Seq(Event)] : queues = [p \in AOs |-> <<>>]
  <2>1. [p \in AOs |-> <<>>] \in [AOs -> Seq(Event)]
    OBVIOUS
  <2> QED BY <2>1
<1>5. ram' = [image EXCEPT !.q = queues, !.cmdq = <<>>, !.counter_sched = b, !.snap = s]
  BY <1>1, <1>2, <1>3, <1>4 DEF Resume, ResumeRam, Memory
<1>6. PICK n \in Memory : n = ram'
  <2>1. <<>> \in Seq([slot : MailSlots, line : Lines])
    OBVIOUS
  <2>2. [image EXCEPT !.q = queues, !.cmdq = <<>>, !.counter_sched = b, !.snap = s] \in Memory
    BY <1>1, <2>1 DEF Memory
  <2> QED BY <1>5, <2>2
<1>7. /\ n.reg = image.reg /\ n.owner = image.owner /\ n.snap = s /\ n.ctx = image.ctx
      /\ n.sim = image.sim /\ n.q = queues /\ n.cmdq = <<>>
  BY <1>1, <1>5, <1>6 DEF Memory
<1>8. \A r \in AOs : Len(n.q[r]) <= QueueCap
  <2>1. Len(<<>>) = 0
    OBVIOUS
  <2> QED BY <1>4, <1>7, <2>1, ProgramsAssumption
<1>9. OwnerOK(n) /\ TriggerOK(n)
  BY <1>1, <1>3, <1>7 DEF Sound, OwnerOK, TriggerOK
<1>10. Sound(n)
  BY <1>1, <1>7, <1>8, <1>9, SoundFrame
<1>11. MailOK(n, TRUE)
  BY <1>7, ProgramsAssumption DEF MailOK
<1>12. UNCHANGED <<card, image>> /\ tty' = FALSE /\ resumed' = TRUE
  BY DEF Resume
<1> QED BY <1>6, <1>10, <1>11, <1>12 DEF IInv

WithSim(m, b) == [m EXCEPT !.sim = b]

\* The pending item of restore_sim
LEMMA SimSound ==
  ASSUME NEW m, Sound(m), NEW b, b = Nothing \/ BlobOK("COUNTER", b)
  PROVE  Keeps(m, WithSim(m, b))
<1>1. m \in Memory
  BY DEF Sound
<1>2. b \in CounterBlob \cup {Nothing}
  BY DEF BlobOK
<1>3. PICK n \in Memory : n = WithSim(m, b)
  BY <1>1, <1>2 DEF WithSim, Memory
<1>4. /\ n.reg = m.reg /\ n.owner = m.owner /\ n.snap = m.snap /\ n.ctx = m.ctx
      /\ n.sim = b /\ SameMail(m, n) /\ n.q = m.q
  BY <1>1, <1>3 DEF WithSim, Memory, SameMail
<1>5. Sound(n)
  BY <1>4 DEF Sound, OwnerOK, TriggerOK
<1> QED BY <1>3, <1>4, <1>5 DEF Keeps

\* A command leaves memory m
LEMMA CmdSound ==
  ASSUME IInv, NEW cmd, CmdRuns(cmd), NEW m, Keeps(Popped, m), CmdEnds(m), SavedOK(card')
  PROVE  IInv'
<1>1. Sound(ram) /\ MailOK(ram, resumed) /\ resumed \in BOOLEAN /\ ram.cmdq # <<>>
  BY DEF IInv, CmdRuns
<1>2. ram' = CmdSlotRelease(m) /\ UNCHANGED <<image, tty, resumed>>
  BY DEF CmdEnds
<1>3. Sound(ram') /\ MailOK(ram', resumed)
  BY <1>1, <1>2, CmdEndSound
<1> QED BY <1>2, <1>3 DEF IInv

\* The command that runs
LEMMA CommandFacts ==
  ASSUME IInv, NEW cmd, CmdRuns(cmd)
  PROVE  /\ Sound(ram) /\ Sound(Popped) /\ Keeps(Popped, Popped)
         /\ Command.line \in Lines /\ Command.line.cmd = cmd
         /\ Popped.ctx = ram.ctx /\ Popped.snap = ram.snap
<1>1. Sound(ram) /\ ram.cmdq # <<>> /\ Command.line.cmd = cmd
  BY DEF IInv, CmdRuns
<1>2. /\ Sound(Popped) /\ Command \in [slot : MailSlots, line : Lines]
      /\ Popped.ctx = ram.ctx /\ Popped.snap = ram.snap
  BY <1>1, PoppedSound
<1>3. Keeps(Popped, Popped)
  BY <1>2 DEF Keeps, SameMail
<1> QED BY <1>1, <1>2, <1>3

\* counter, line, snake
LEMMA CmdStartSound ==
  ASSUME IInv, CmdStart
  PROVE  IInv'
<1>1. PICK l \in Lines : l = Command.line /\ l.cmd = "start"
  BY CommandFacts DEF CmdStart
<1>2. l.prog \in Programs /\ l.bg \in BOOLEAN /\ l.limit \in Word
  BY <1>1, LinesAssumption
<1>3. PICK r : r = Register(Popped, l.prog)
  OBVIOUS
<1>4. Keeps(Popped, r) /\ Sound(r)
  BY <1>2, <1>3, CommandFacts, RegisterSound DEF CmdStart, Keeps
<1>5. PICK m : m = request_start(r, l.prog, l.bg, l.limit)
  OBVIOUS
<1>6. Keeps(r, m)
  BY <1>2, <1>4, <1>5, StartSound
<1>7. Keeps(Popped, m)
  BY <1>4, <1>6, KeepsTwice
<1>8. CmdRuns("start") /\ CmdEnds(m) /\ card' = card
  BY <1>1, <1>3, <1>5 DEF CmdStart
<1> QED BY <1>7, <1>8, CmdSound DEF IInv

\* kill
LEMMA CmdKillSound ==
  ASSUME IInv, CmdKill
  PROVE  IInv'
<1>1. PICK l \in Lines : l = Command.line /\ l.cmd = "kill"
  BY CommandFacts DEF CmdKill
<1>2. l.prog \in AOs
  BY <1>1, LinesAssumption
<1>3. PICK m : m = IF l.prog \in ram.reg THEN term_kill_task(Popped, l.prog) ELSE Popped
  OBVIOUS
<1>4. Keeps(Popped, m)
  BY <1>2, <1>3, CommandFacts, KillSound DEF CmdKill
<1>5. CmdRuns("kill") /\ CmdEnds(m) /\ card' = card
  BY <1>1, <1>3 DEF CmdKill
<1> QED BY <1>4, <1>5, CmdSound DEF IInv

\* snapnow
LEMMA CmdSnapnowSound ==
  ASSUME IInv, CmdSnapnow
  PROVE  IInv'
<1>1. Sound(Popped) /\ CmdRuns("snapnow") /\ card' = card
  BY CommandFacts DEF CmdSnapnow
<1>2. PICK area \in BOOLEAN :
        CmdEnds(IF area /\ CanPost([Popped EXCEPT !.snap.enabled = area], "SNAPSHOT")
                THEN sched_post([Popped EXCEPT !.snap.enabled = area], "SNAPSHOT", [sig |-> "TRIGGER"])
                ELSE [Popped EXCEPT !.snap.enabled = area])
  BY Zenon DEF CmdSnapnow
<1>3. Popped.snap \in [enabled : BOOLEAN, pending : BOOLEAN, busy : BOOLEAN]
  BY <1>1 DEF Sound, Memory
<1>4. PICK s \in [enabled : BOOLEAN, pending : BOOLEAN, busy : BOOLEAN] :
        s = [Popped.snap EXCEPT !.enabled = area]
  BY <1>3
<1>5. s.pending = Popped.snap.pending /\ s.busy = Popped.snap.busy
  BY <1>3, <1>4
<1>6. PICK m : m = WithSnap(Popped, s)
  OBVIOUS
<1>7. Keeps(Popped, m) /\ Sound(m)
  <2>1. s.pending /\ ~s.busy /\ "SNAPSHOT" \in Popped.reg => Popped.q["SNAPSHOT"] # <<>>
    BY <1>1, <1>5 DEF Sound, TriggerOK
  <2> QED BY <1>1, <1>6, <2>1, SnapSound DEF Keeps
<1>8. m = [Popped EXCEPT !.snap.enabled = area]
  BY <1>4, <1>6, Zenon DEF WithSnap
<1>9. PICK e \in Event : e = [sig |-> "TRIGGER"]
  BY DEF Event
<1>10. PICK k : k = IF area /\ CanPost(m, "SNAPSHOT") THEN sched_post(m, "SNAPSHOT", e) ELSE m
  OBVIOUS
<1>11. CmdEnds(k)
  BY <1>2, <1>8, <1>9, <1>10, Zenon
<1>12. Keeps(m, k)
  <2>1. "SNAPSHOT" \in AOs
    BY DEF AOs
  <2>2. CASE area /\ CanPost(m, "SNAPSHOT")
    BY <1>7, <1>10, <2>1, <2>2, PostSound
  <2>3. CASE ~(area /\ CanPost(m, "SNAPSHOT"))
    BY <1>7, <1>10, <2>3 DEF Keeps, SameMail
  <2> QED BY <2>2, <2>3
<1>13. Keeps(Popped, k)
  BY <1>7, <1>12, KeepsTwice
<1> QED BY <1>1, <1>11, <1>13, CmdSound DEF IInv

\* ckptsave
LEMMA CmdCkptSaveSound ==
  ASSUME IInv, CmdCkptSave
  PROVE  IInv'
<1>1. PICK l \in Lines : l = Command.line /\ l.cmd = "ckptsave"
  BY CommandFacts DEF CmdCkptSave
<1>2. l.ops \in Seq(Operation)
  BY <1>1, LinesAssumption
<1>3. PICK b : b = counter_encode(ram.ctx["COUNTER"], l.ops)
  OBVIOUS
<1>4. BlobOK("COUNTER", b)
  <2>1. CounterOK(ram.ctx["COUNTER"])
    <3>1. Sound(ram) /\ "COUNTER" \in Programs
      BY DEF IInv, Programs
    <3> QED BY <3>1 DEF Sound, ContextOK
  <2> QED BY <1>2, <1>3, <2>1, CounterEncode
<1>5. Keeps(Popped, WithSim(Popped, b))
  BY <1>4, CommandFacts, SimSound DEF CmdCkptSave
<1>6. CmdRuns("ckptsave") /\ CmdEnds(WithSim(Popped, b)) /\ card' = card
  BY <1>1, <1>3, Zenon DEF CmdCkptSave, WithSim
<1> QED BY <1>5, <1>6, CmdSound DEF IInv

\* ckptload
LEMMA CmdCkptLoadSound ==
  ASSUME IInv, CmdCkptLoad
  PROVE  IInv'
<1>1. /\ Sound(Popped) /\ Keeps(Popped, Popped) /\ Sound(ram) /\ CmdRuns("ckptload")
      /\ card' = card
  BY CommandFacts DEF CmdCkptLoad
<1>2. CASE ram.sim = Nothing
  <2>1. CmdEnds(Popped)
    BY <1>2 DEF CmdCkptLoad
  <2> QED BY <1>1, <2>1, CmdSound DEF IInv
<1>3. CASE ram.sim # Nothing
  <2>1. BlobOK("COUNTER", ram.sim) /\ "COUNTER" \in Programs
    BY <1>1, <1>3 DEF Sound, Programs
  <2>2. PICK a : a = ApplyRegion(Popped, "COUNTER", ram.sim, TRUE)
    OBVIOUS
  <2>3. Keeps(Popped, a) /\ Sound(a)
    BY <1>1, <2>1, <2>2, ApplyRegionSound DEF Keeps
  <2>4. Keeps(a, WithSim(a, Nothing))
    BY <2>3, SimSound
  <2>5. Keeps(Popped, WithSim(a, Nothing))
    BY <2>3, <2>4, KeepsTwice
  <2>6. CmdEnds(WithSim(a, Nothing))
    BY <1>3, <2>2, Zenon DEF CmdCkptLoad, WithSim
  <2> QED BY <1>1, <2>5, <2>6, CmdSound DEF IInv
<1> QED BY <1>2, <1>3

\* The counter that restoresim and its likes make up may be restored
LEMMA SimBlobSound ==
  ASSUME NEW l \in Lines, l.cmd = "restoresim"
  PROVE  BlobOK("COUNTER", SimBlob(l))
<1>1. l.bg \in BOOLEAN /\ l.limit \in Word /\ l.value \in Word /\ l.ops \in Seq(Operation)
  BY LinesAssumption
<1>2. PICK n \in Word : n = IF l.limit = 0 THEN 1 ELSE l.limit
  BY <1>1, WordAssumption DEF Word
<1>3. n > 0
  BY <1>1, <1>2, WordAssumption DEF Word
<1>4. PICK v \in Word : v = IF l.value = 0 THEN 1 ELSE IF l.value > n THEN n ELSE l.value
  BY <1>1, WordAssumption DEF Word
<1>5. v <= n
  BY <1>1, <1>3, <1>4, WordAssumption DEF Word
<1>6. SimBlob(l) = [active |-> TRUE, bg |-> l.bg, limit |-> n, value |-> v, ops |-> l.ops]
  BY <1>2, <1>4 DEF SimBlob
<1> QED BY <1>1, <1>3, <1>5, <1>6 DEF BlobOK, CounterBlob

\* restoresim and its likes
LEMMA CmdRestoreSimSound ==
  ASSUME IInv, CmdRestoreSim
  PROVE  IInv'
<1>1. /\ Sound(Popped) /\ CmdRuns("restoresim") /\ card' = card
  BY CommandFacts DEF CmdRestoreSim
<1>2. PICK l \in Lines : l = Command.line /\ l.cmd = "restoresim"
  BY CommandFacts DEF CmdRestoreSim
<1>4. PICK b : b = SimBlob(l)
  OBVIOUS
<1>5. BlobOK("COUNTER", b)
  BY <1>2, <1>4, SimBlobSound
<1>6. PICK a : a = ApplyRegion(Popped, "COUNTER", b, TRUE)
  OBVIOUS
<1>7. Keeps(Popped, a) /\ Sound(a)
  <2>1. "COUNTER" \in Programs
    BY DEF Programs
  <2> QED BY <1>1, <1>5, <1>6, <2>1, ApplyRegionSound DEF Keeps
<1>8. PICK m : m = WithSim(a, Nothing)
  OBVIOUS
<1>9. Keeps(a, m) /\ Sound(m)
  BY <1>7, <1>8, SimSound DEF Keeps
<1>10. PICK k : k = IF l.ops = <<>> THEN SetOwner(m, NoOwner) ELSE m
  OBVIOUS
<1>11. Keeps(m, k)
  <2>1. NoOwner \notin Games
    BY DEF NoOwner, Games
  <2>2. CASE l.ops = <<>>
    BY <1>9, <1>10, <2>1, <2>2, SetOwnerSound
  <2>3. CASE l.ops # <<>>
    BY <1>9, <1>10, <2>3 DEF Keeps, SameMail
  <2> QED BY <2>2, <2>3
<1>12. Keeps(Popped, k)
  BY <1>7, <1>9, <1>11, KeepsTwice
<1>13. CmdEnds(k)
  BY <1>2, <1>4, <1>6, <1>8, <1>10, Zenon DEF CmdRestoreSim, WithSim, SetOwner
<1> QED BY <1>1, <1>12, <1>13, CmdSound DEF IInv

\* ckptsave_sd: every program that is saved can be restored
LEMMA CmdCkptSaveSdSound ==
  ASSUME IInv, CmdCkptSaveSd
  PROVE  IInv'
<1>1. /\ Sound(ram) /\ Keeps(Popped, Popped) /\ CmdRuns("ckptsave_sd") /\ CmdEnds(Popped)
  BY CommandFacts DEF CmdCkptSaveSd
<1>2. PICK P \in SUBSET Programs : P = {r \in Programs \cap ram.reg : ram.ctx[r].active}
  OBVIOUS
<1>3. PICK saved : saved = [p \in P |-> Encode(p, ram.ctx[p])]
  OBVIOUS
<1>4. saved = Saved(ram)
  BY <1>2, <1>3, Zenon DEF Saved
<1>5. SavedOK(saved)
  <2>1. DOMAIN saved = P /\ \A p \in P : saved[p] = Encode(p, ram.ctx[p])
    BY <1>3
  <2>2. \A p \in P : BlobOK(p, Encode(p, ram.ctx[p]))
    BY <1>1, <1>2, EncodeSound DEF Sound
  <2> QED BY <2>1, <2>2 DEF SavedOK
<1>6. card' \in {card, saved}
  BY <1>4 DEF CmdCkptSaveSd
<1>7. SavedOK(card')
  BY <1>5, <1>6 DEF IInv
<1> QED BY <1>1, <1>7, CmdSound

\* ckptload_sd
LEMMA CmdCkptLoadSdSound ==
  ASSUME IInv, CmdCkptLoadSd
  PROVE  IInv'
<1>1. Sound(Popped) /\ CmdRuns("ckptload_sd") /\ card' = card /\ SavedOK(card)
  BY CommandFacts DEF CmdCkptLoadSd, IInv
<1>2. PICK m : m = ApplyCheckpoint(Popped, card, TRUE)
  OBVIOUS
<1>3. Keeps(Popped, m)
  BY <1>1, <1>2, ApplyCheckpointSound
<1>4. CmdEnds(m)
  BY <1>2 DEF CmdCkptLoadSd
<1> QED BY <1>1, <1>3, <1>4, CmdSound

-----------------------------------------------------------------------------
(* The theorems *)

\* The invariant of the programs and the shell
THEOREM Inductive == Spec => []IInv
<1>1. Init => IInv
  <2> SUFFICES ASSUME Init PROVE IInv
    OBVIOUS
  <2>1. SavedOK(card)
    BY DEF Init, NoPrograms, SavedOK
  <2>2. Sound(ram) /\ ram.used = {} /\ ram.cmdq = <<>>
    BY <2>1, ColdSound DEF Init
  <2>3. MailOK(ram, FALSE) /\ resumed = FALSE /\ tty = FALSE /\ image = Nothing
    <3>1. MailOK(ram, FALSE)
      BY <2>2, ProgramsAssumption DEF MailOK
    <3> QED BY <3>1 DEF Init
  <2> QED BY <2>1, <2>2, <2>3 DEF IInv
<1>2. IInv /\ [Next]_vars => IInv'
  <2> SUFFICES ASSUME IInv, [Next]_vars PROVE IInv'
    OBVIOUS
  <2>1. ASSUME NEW due \in SUBSET Timers, SysTick(due) PROVE IInv'
    BY <2>1, SysTickSound
  <2>2. ASSUME NEW p \in Programs, Dispatch(p) PROVE IInv'
    BY <2>2, DispatchSound
  <2>3. CASE SnapshotBegin
    BY <2>3, SnapshotBeginSound
  <2>4. CASE SnapshotEnd
    BY <2>4, SnapshotEndSound
  <2>5. ASSUME NEW line \in Lines, TypeLine(line) PROVE IInv'
    BY <2>5, TypeLineSound
  <2>6. ASSUME NEW key, TypeKey(key) PROVE IInv'
    BY <2>6, TypeKeySound
  <2>7. CASE CtrlC
    BY <2>7, CtrlCSound
  <2>8. CASE TtyEnd
    BY <2>8 DEF TtyEnd, IInv
  <2>9. CASE CmdStart
    BY <2>9, CmdStartSound
  <2>10. CASE CmdKill
    BY <2>10, CmdKillSound
  <2>11. CASE CmdSnapnow
    BY <2>11, CmdSnapnowSound
  <2>12. CASE CmdCkptSave
    BY <2>12, CmdCkptSaveSound
  <2>13. CASE CmdCkptLoad
    BY <2>13, CmdCkptLoadSound
  <2>14. CASE CmdRestoreSim
    BY <2>14, CmdRestoreSimSound
  <2>15. CASE CmdCkptSaveSd
    BY <2>15, CmdCkptSaveSdSound
  <2>16. CASE CmdCkptLoadSd
    BY <2>16, CmdCkptLoadSdSound
  <2>17. CASE ColdBoot
    BY <2>17, ColdBootSound
  <2>18. CASE Resume
    BY <2>18, ResumeSound
  <2>19. CASE UNCHANGED vars
    BY <2>19 DEF vars, IInv
  <2> QED BY <2>1, <2>2, <2>3, <2>4, <2>5, <2>6, <2>7, <2>8, <2>9, <2>10, <2>11, <2>12,
             <2>13, <2>14, <2>15, <2>16, <2>17, <2>18, <2>19 DEF Next
<1> QED BY <1>1, <1>2, PTL DEF Spec

\* The types of the contexts, one program at a time
LEMMA ContextTypes ==
  ASSUME IInv, NEW p \in Programs
  PROVE  ContextType(p)
<1>1. ContextOK(p, ram.ctx[p])
  BY DEF IInv, Sound
<1>2. CASE p = "COUNTER"
  <2>1. ram.ctx[p] \in CounterContext
    BY <1>1, <1>2 DEF ContextOK, CounterOK
  <2> QED BY <2>1 DEF CounterContext, ContextType, Word
<1>3. CASE p = "LINE"
  <2>1. ram.ctx[p] \in LineContext
    BY <1>1, <1>3 DEF ContextOK, LineOK
  <2> QED BY <1>3, <2>1 DEF LineContext, ContextType
<1>4. CASE p = "SNAKE"
  <2>1. ram.ctx[p] \in SnakeContext
    BY <1>1, <1>4 DEF ContextOK, SnakeOK
  <2> QED BY <1>4, <2>1 DEF SnakeContext, ContextType
<1> QED BY <1>2, <1>3, <1>4 DEF Programs

\* The types
LEMMA Types ==
  ASSUME IInv
  PROVE  TypeOK
<1>1. ram \in Memory
  BY DEF IInv, Sound
<1>2. /\ ram.reg \subseteq AOs /\ ram.owner \in Programs \cup {NoOwner}
      /\ ram.used \subseteq MailSlots /\ ram.cursor \in MailSlots
      /\ ram.snap \in [enabled : BOOLEAN, pending : BOOLEAN, busy : BOOLEAN]
  BY <1>1 DEF Memory
<1>3. Len(ram.cmdq) <= MailboxCap /\ \A p \in AOs : Len(ram.q[p]) <= QueueCap
  BY DEF IInv, Sound, MailOK
<1>4. DOMAIN card \subseteq Programs /\ {tty, resumed} \subseteq BOOLEAN
  BY DEF IInv, SavedOK
<1> QED BY <1>2, <1>3, <1>4, ContextTypes DEF TypeOK

\* As many slots as commands
LEMMA Slots ==
  ASSUME IInv
  PROVE  MailboxSound
<1> DEFINE n == Len(ram.cmdq)
           slots == {ram.cmdq[i].slot : i \in 1 .. n}
           f == [i \in 1 .. n |-> ram.cmdq[i].slot]
<1>1. n \in Nat
  BY DEF IInv, Sound, Memory
<1>2. MailOK(ram, resumed)
  BY DEF IInv
<1>3. f \in [1 .. n -> slots]
  OBVIOUS
<1>4. \A i, j \in 1 .. n : f[i] = f[j] => i = j
  BY <1>2 DEF MailOK
<1>5. \A s \in slots : \E i \in 1 .. n : f[i] = s
  OBVIOUS
<1>6. slots \subseteq ram.used /\ (~resumed => ram.used = slots)
  BY <1>2 DEF MailOK
<1> HIDE DEF f, slots, n
<1>7. f \in Injection(1 .. n, slots)
  BY <1>3, <1>4 DEF Injection, IsInjective
<1>8. f \in Surjection(1 .. n, slots)
  BY <1>3, <1>5 DEF Surjection
<1>9. ExistsBijection(1 .. n, slots)
  BY <1>7, <1>8 DEF ExistsBijection, Bijection
<1>10. IsFiniteSet(1 .. n) /\ Cardinality(1 .. n) = n
  BY <1>1, FS_Interval
<1>11. Cardinality(slots) = n
  BY <1>9, <1>10, FS_Bijection
<1> QED BY <1>6, <1>11 DEF MailboxSound, slots, n

\* Types, queues within their bounds, and a mailbox in which no command is
\* executed from a slot that is free or is another command's, and that loses no
\* slot before a resume
THEOREM MailboxIsSound == Spec => []CommandsSound
<1>1. IInv => CommandsSound
  BY Types, Slots DEF CommandsSound
<1> QED BY <1>1, Inductive, PTL

\* The pending trigger of the snapshot task is never stuck
THEOREM TriggerNeverStuck == Spec => []SnapshotTriggerLive
<1>1. IInv => SnapshotTriggerLive
  BY DEF IInv, Sound, TriggerOK, SnapshotTriggerLive
<1> QED BY <1>1, Inductive, PTL

\* Stdin is never left with a game that is gone
THEOREM GamesGiveStdinBack == Spec => []NoStaleGameOwner
<1>1. IInv => NoStaleGameOwner
  BY DEF IInv, Sound, OwnerOK, NoStaleGameOwner
<1> QED BY <1>1, Inductive, PTL

\* What comes back from a checkpoint is within its limit and homed first
THEOREM RestoredIsSound == Spec => []RestoredSound
<1>1. ASSUME IInv PROVE RestoredSound
  <2>1. CounterOK(ram.ctx["COUNTER"]) /\ LineOK(ram.ctx["LINE"])
    <3>1. Sound(ram) /\ "COUNTER" \in Programs /\ "LINE" \in Programs
      BY <1>1 DEF IInv, Programs
    <3> QED BY <3>1 DEF Sound, ContextOK
  <2> QED BY <2>1 DEF RestoredSound, CounterBounded, HomeBeforeWork, CounterOK, LineOK
<1> QED BY <1>1, Inductive, PTL

\* The books of the assembly line agree
THEOREM LineIsSound == Spec => []LineSound
<1>1. ASSUME IInv PROVE LineSound
  <2>1. LineOK(ram.ctx["LINE"])
    <3>1. Sound(ram) /\ "LINE" \in Programs
      BY <1>1 DEF IInv, Programs
    <3> QED BY <3>1 DEF Sound, ContextOK
  <2>2. PICK c \in LineContext : c = ram.ctx["LINE"]
    BY <2>1 DEF LineOK
  <2>3. line_state_valid(c)
    BY DEF LineContext, line_state_valid
  <2>4. /\ Kept(c) /\ At(c, Fixture) = IF c.fixture = NoSlot THEN {} ELSE {c.fixture}
        /\ c.completed = Cardinality(At(c, GoodBin))
        /\ c.rejected = Cardinality(At(c, RejectBin))
        /\ c.mode = "COMPLETE" => \A i \in PartIds : c.parts[i].state \in Done
    BY <2>1, <2>2 DEF LineOK
  <2>5. Cardinality(At(c, Fixture)) = IF c.fixture = NoSlot THEN 0 ELSE 1
    BY <2>4, FS_EmptySet, FS_Singleton
  <2>6. ASSUME NEW i \in At(c, GoodBin) PROVE c.parts[i].scan = "PASS"
    <3>1. i \in PartIds /\ c.parts[i].loc = GoodBin /\ c.parts[i] \in Part
      BY DEF At, LineContext
    <3>2. i # GoodBin /\ Fixture # GoodBin /\ RejectBin # GoodBin
      BY <3>1, Places
    <3>3. c.parts[i].state = "DONE_GOOD"
      BY <2>4, <3>1, <3>2 DEF Kept, Part, Done
    <3> QED BY <2>4, <3>1, <3>3 DEF Kept
  <2>7. LineBooks
    BY <2>2, <2>4, <2>5, <2>6 DEF LineBooks, At
  <2> QED BY <2>2, <2>3, <2>7 DEF LineSound
<1> QED BY <1>1, Inductive, PTL

\* A game of snake can always be saved, its food can be reached, and no two
\* keys turn it into its neck
THEOREM SnakeIsSound == Spec => []SnakeSound
<1>1. ASSUME IInv PROVE SnakeSound
  <2>1. SnakeOK(ram.ctx["SNAKE"])
    <3>1. Sound(ram) /\ "SNAKE" \in Programs
      BY <1>1 DEF IInv, Programs
    <3> QED BY <3>1 DEF Sound, ContextOK
  <2>2. PICK c \in SnakeContext : c = ram.ctx["SNAKE"]
    BY <2>1 DEF SnakeOK
  <2>3. SnakeOK(c) /\ c.body \in Seq(Board)
    BY <2>1, <2>2 DEF SnakeContext
  <2>4. snake_state_valid(c)
    <3>1. /\ c.mode \in {"TITLE", "PLAYING", "PAUSED", "GAME_OVER"} /\ c.dir \in Dirs
          /\ c.pending_dir \in Dirs /\ c.food \in Board /\ Len(c.body) \in Nat
      BY <2>3 DEF SnakeContext
    <3>2. Len(c.body) <= MaxCells /\ (c.mode # "TITLE" => Len(c.body) # 0)
      BY <2>3, <3>1 DEF SnakeOK
    <3>3. \A i \in 1 .. Len(c.body) : c.body[i] \in Board
      BY <2>3
    <3>4. ASSUME NEW i \in 1 .. Len(c.body), NEW j \in i + 1 .. Len(c.body)
          PROVE  c.body[i] # c.body[j]
      BY <2>3, <3>1 DEF SnakeOK, Distinct
    <3> QED BY <3>1, <3>2, <3>3, <3>4 DEF snake_state_valid
  <2>5. c.mode \in {"PLAYING", "PAUSED"} =>
          c.food \in Board \ BodyCells(c) /\ ~snake_dir_is_opposite(c.dir, c.pending_dir)
    BY <2>3 DEF SnakeOK, SnakeContext
  <2> QED BY <2>2, <2>4, <2>5 DEF SnakeSound, FoodIsReachable, NoReverse
<1> QED BY <1>1, Inductive, PTL

-----------------------------------------------------------------------------
(* Stdin, for a user who waits for the prompt (~TypeAhead).  A command then    *)
(* starts with all queues empty, no game running and stdin free (Calm), and    *)
(* leaves at most one START, whose program has stdin or is the counter.        *)

\* A START event is in the queue s, and those that are there are for the foreground
HasStart(s) == \E i \in 1 .. Len(s) : s[i].sig = "START"
InFront(s) == \A i \in 1 .. Len(s) : s[i].sig = "START" => ~s[i].bg

\* OwnerListens and GameHasStdin of a memory
OwnerReads(m) ==
  m.owner # NoOwner => m.owner \in m.reg /\ (m.ctx[m.owner].active \/ HasStart(m.q[m.owner]))
GamesRead(m) == \A p \in Games \cap m.reg : m.ctx[p].active => m.owner = p

\* A game that is about to start has stdin; a counter that has it will give it back
StartsOK(m) ==
  /\ \A p \in Games : HasStart(m.q[p]) => m.owner = p
  /\ m.owner = "COUNTER" => InFront(m.q["COUNTER"])
GivesBack(m) == m.owner = "COUNTER" /\ m.ctx["COUNTER"].active => ~m.ctx["COUNTER"].bg

\* While a command waits, nobody has stdin and what is gone has been switched off
OneCommand(m) ==
  m.cmdq # <<>> =>
    /\ Len(m.cmdq) = 1 /\ m.owner = NoOwner
    /\ \A p \in Programs \ m.reg : ~m.ctx[p].active

\* What is gone has no queue
GoneIsEmpty(m) == \A p \in Programs \ m.reg : m.q[p] = <<>>

StdinOK(m) ==
  /\ OwnerReads(m) /\ GamesRead(m) /\ StartsOK(m) /\ GivesBack(m) /\ OneCommand(m)
  /\ GoneIsEmpty(m)

\* Between two commands: no event waits, no game runs, and only a counter that runs
\* in the foreground may have stdin
Calm(m) ==
  /\ \A p \in Programs : m.q[p] = <<>>
  /\ \A p \in Games : ~m.ctx[p].active
  /\ m.owner \in {NoOwner, "COUNTER"}
  /\ m.owner = "COUNTER" =>
       "COUNTER" \in m.reg /\ m.ctx["COUNTER"].active /\ ~m.ctx["COUNTER"].bg
  /\ m.cmdq = <<>>

\* Only the counter has been saved
OnlyCounter(saved) == DOMAIN saved \subseteq {"COUNTER"}

StdinInv == StdinOK(ram) /\ OnlyCounter(card)

\* A counter that was restored runs in the background
BackgroundRestored(m) ==
  LET c == m.ctx["COUNTER"] IN c.restored /\ c.active /\ c.bg

\* The session was not resumed, and no counter is started in the foreground over one
\* that was restored and runs in the background
FreshSession ==
  /\ ~resumed
  /\ CmdRuns("start") /\ Command.line.prog = "COUNTER" /\ ~Command.line.bg =>
       ~BackgroundRestored(ram)

\* An empty queue has no START
LEMMA EmptyStart == ~HasStart(<<>>) /\ InFront(<<>>)
BY DEF HasStart, InFront

\* An event that is appended to a queue, unless it is a START, makes no difference
LEMMA AppendStart ==
  ASSUME NEW s \in Seq(Event), NEW e \in Event, e.sig # "START"
  PROVE  /\ HasStart(Append(s, e)) <=> HasStart(s)
         /\ InFront(s) => InFront(Append(s, e))
<1>1. PICK t \in Seq(Event) : t = Append(s, e)
  <2>1. Append(s, e) \in Seq(Event)
    OBVIOUS
  <2> QED BY <2>1
<1>2. Len(t) = Len(s) + 1 /\ Len(s) \in Nat /\ t[Len(s) + 1] = e /\ \A i \in 1 .. Len(s) : t[i] = s[i]
  BY <1>1
<1>3. \A i \in 1 .. Len(t) : i \in 1 .. Len(s) \/ i = Len(s) + 1
  BY <1>2
<1>4. \A i \in 1 .. Len(s) : i \in 1 .. Len(t)
  BY <1>2
<1> QED BY <1>1, <1>2, <1>3, <1>4 DEF HasStart, InFront

\* The first event of a queue is taken: if it is no START, the START is in the rest
LEMMA TailStart ==
  ASSUME NEW s \in Seq(Event), s # <<>>
  PROVE  /\ HasStart(Tail(s)) => HasStart(s)
         /\ Head(s).sig # "START" /\ HasStart(s) => HasStart(Tail(s))
         /\ InFront(s) => InFront(Tail(s))
         /\ Head(s).sig = "START" => HasStart(s) /\ (InFront(s) => ~Head(s).bg)
<1>1. PICK t \in Seq(Event) : t = Tail(s)
  BY FirstAndRest
<1>2. /\ Len(t) = Len(s) - 1 /\ Len(s) \in Nat /\ Len(s) > 0 /\ Head(s) = s[1]
      /\ \A i \in 1 .. Len(t) : t[i] = s[i + 1]
  BY <1>1
<1>3. \A i \in 1 .. Len(t) : i + 1 \in 1 .. Len(s)
  BY <1>2
<1>4. \A i \in 1 .. Len(s) : i = 1 \/ (i - 1 \in 1 .. Len(t) /\ (i - 1) + 1 = i)
  BY <1>2
<1>5. 1 \in 1 .. Len(s)
  BY <1>2
<1>6. HasStart(t) => HasStart(s)
  BY <1>2, <1>3 DEF HasStart
<1>7. ASSUME Head(s).sig # "START", HasStart(s) PROVE HasStart(t)
  <2>1. PICK i \in 1 .. Len(s) : s[i].sig = "START"
    BY <1>7 DEF HasStart
  <2>2. i - 1 \in 1 .. Len(t) /\ t[i - 1] = s[i]
    BY <1>2, <1>4, <1>7, <2>1
  <2> QED BY <2>1, <2>2 DEF HasStart
<1>8. InFront(s) => InFront(t)
  BY <1>2, <1>3 DEF InFront
<1> QED BY <1>1, <1>2, <1>5, <1>6, <1>7, <1>8 DEF HasStart, InFront

\* START starts a program that does not run; nothing else does
LEMMA HandleActive ==
  ASSUME NEW p \in Programs, NEW c, ContextOK(p, c), NEW e \in Event, NEW d \in Handle(p, c, e)
  PROVE  /\ e.sig = "START" => d.active
         /\ e.sig # "START" /\ ~c.active => ~d.active
         /\ p = "COUNTER" /\ d.active => d.bg = IF c.active THEN c.bg ELSE e.bg
<1>1. CASE p = "COUNTER"
  <2>1. c \in CounterContext /\ d \in counter_dispatch(c, e)
    BY <1>1 DEF ContextOK, CounterOK, Handle
  <2>2. CASE e.sig = "START"
    <3>1. d = counter_start(c, e)
      BY <2>1, <2>2 DEF counter_dispatch
    <3> QED BY <2>1, <2>2, <3>1 DEF counter_start, CounterContext
  <2>3. CASE e.sig = "TICK"
    <3>1. d = counter_step(c)
      BY <2>1, <2>3 DEF counter_dispatch
    <3> QED BY <2>1, <2>3, <3>1 DEF counter_step, counter_reset, CounterContext
  <2>4. CASE e.sig \notin {"START", "TICK"}
    <3>1. d = c
      BY <2>1, <2>4 DEF counter_dispatch
    <3> QED BY <2>4, <3>1
  <2> QED BY <2>2, <2>3, <2>4
<1>2. CASE p = "LINE"
  <2>1. c \in LineContext /\ d \in line_dispatch(c, e)
    BY <1>2 DEF ContextOK, LineOK, Handle
  <2>2. e.sig = "START" => d = IF c.active THEN c ELSE line_seed(c)
    BY <2>1 DEF line_dispatch
  <2>3. e.sig # "START" /\ ~c.active => d = c
    BY <2>1 DEF line_dispatch
  <2>4. line_seed(c).active
    BY DEF line_seed, line_reset
  <2> QED BY <1>2, <2>2, <2>3, <2>4
<1>3. CASE p = "SNAKE"
  <2>1. c \in SnakeContext /\ d \in snake_dispatch(c, e)
    BY <1>3 DEF ContextOK, SnakeOK, Handle
  <2>2. e.sig = "START" => d = IF c.active THEN c ELSE [snake_reset(c) EXCEPT !.active = TRUE]
    BY <2>1 DEF snake_dispatch
  <2>3. e.sig # "START" /\ ~c.active => d = c
    BY <2>1 DEF snake_dispatch
  <2>4. [snake_reset(c) EXCEPT !.active = TRUE].active
    BY DEF snake_reset
  <2> QED BY <1>3, <2>2, <2>3, <2>4
<1> QED BY <1>1, <1>2, <1>3 DEF Programs

\* A program that is switched off does not run
LEMMA ResetStops == ASSUME NEW p \in Programs, NEW c PROVE ~Reset(p, c).active
BY DEF Reset, Programs, counter_reset, line_reset, snake_reset

\* Only a restored program runs on when it is registered again
LEMMA RegisteredStops ==
  ASSUME NEW p \in Programs, NEW c, ContextOK(p, c)
  PROVE  /\ ~c.active \/ ~c.restored => ~Registered(p, c).active
         /\ p = "COUNTER" /\ Registered(p, c).active => Registered(p, c).bg = c.bg
<1>1. CASE p = "COUNTER"
  <2>1. c \in CounterContext
    BY <1>1 DEF ContextOK, CounterOK
  <2> QED BY <1>1, <2>1 DEF Registered, counter_register, counter_reset, CounterContext
<1>2. CASE p = "LINE"
  <2>1. c \in LineContext
    BY <1>2 DEF ContextOK, LineOK
  <2> QED BY <1>2, <2>1 DEF Registered, line_register, line_reset, LineContext
<1>3. CASE p = "SNAKE"
  <2>1. c \in SnakeContext
    BY <1>3 DEF ContextOK, SnakeOK
  <2> QED BY <1>3, <2>1 DEF Registered, snake_register, snake_reset, SnakeContext
<1> QED BY <1>1, <1>2, <1>3 DEF Programs

-----------------------------------------------------------------------------
(* What operations do to the parts of memory that count for stdin *)

\* The same programs, queues, owner and commands
LEMMA StdinFrame ==
  ASSUME NEW m, NEW n, StdinOK(m), n.reg = m.reg, n.owner = m.owner, n.ctx = m.ctx,
         n.cmdq = m.cmdq, \A p \in Programs : n.q[p] = m.q[p],
         m.owner \in Programs \cup {NoOwner}
  PROVE  StdinOK(n)
<1>1. "COUNTER" \in Programs /\ Games \subseteq Programs
  BY DEF Programs, Games
<1>2. OwnerReads(n)
  BY DEF StdinOK, OwnerReads
<1>3. StartsOK(n)
  BY <1>1 DEF StdinOK, StartsOK
<1> QED BY <1>2, <1>3 DEF StdinOK, GamesRead, GivesBack, OneCommand, GoneIsEmpty

\* The same for a memory between two commands
LEMMA CalmFrame ==
  ASSUME NEW m, NEW n, Calm(m), n.reg = m.reg, n.owner = m.owner, n.ctx = m.ctx,
         n.cmdq = m.cmdq, \A p \in Programs : n.q[p] = m.q[p]
  PROVE  Calm(n)
BY DEF Calm

\* Between two commands stdin is with its reader
LEMMA CalmReads ==
  ASSUME NEW m, Calm(m)
  PROVE  StdinOK(m)
<1>1. "COUNTER" \in Programs /\ Games \subseteq Programs /\ "COUNTER" # NoOwner
  BY DEF Programs, Games, NoOwner
<1>2. OwnerReads(m) /\ GamesRead(m) /\ GivesBack(m) /\ OneCommand(m) /\ GoneIsEmpty(m)
  BY DEF Calm, OwnerReads, GamesRead, GivesBack, OneCommand, GoneIsEmpty
<1>3. StartsOK(m)
  BY <1>1, EmptyStart DEF Calm, StartsOK
<1> QED BY <1>2, <1>3 DEF StdinOK

\* Ticks and keys that are queued, and flags other than active and bg
LEMMA QueueGrows ==
  ASSUME NEW m, Sound(m), StdinOK(m), NEW n, n.reg = m.reg, n.owner = m.owner,
         n.cmdq = m.cmdq,
         \A r \in Programs : n.ctx[r].active = m.ctx[r].active,
         n.ctx["COUNTER"].bg = m.ctx["COUNTER"].bg,
         \A r \in Programs : \/ n.q[r] = m.q[r]
                             \/ /\ r \in m.reg
                                /\ \E e \in Event : e.sig # "START" /\ n.q[r] = Append(m.q[r], e)
  PROVE  StdinOK(n)
<1>1. /\ "COUNTER" \in Programs /\ Games \subseteq Programs /\ Programs \subseteq AOs
      /\ m.owner \in Programs \cup {NoOwner}
  BY DEF Programs, Games, AOs, Sound, Memory
<1>2. \A r \in Programs : m.q[r] \in Seq(Event)
  BY <1>1 DEF Sound, Memory
<1>3. ASSUME NEW r \in Programs
      PROVE  (HasStart(n.q[r]) <=> HasStart(m.q[r])) /\ (InFront(m.q[r]) => InFront(n.q[r]))
  <2>1. CASE n.q[r] = m.q[r]
    BY <2>1
  <2>2. CASE n.q[r] # m.q[r]
    <3>1. PICK e \in Event : e.sig # "START" /\ n.q[r] = Append(m.q[r], e)
      BY <2>2
    <3> QED BY <1>2, <3>1, AppendStart
  <2> QED BY <2>1, <2>2
<1>4. OwnerReads(n)
  BY <1>1, <1>3 DEF StdinOK, OwnerReads
<1>5. StartsOK(n)
  BY <1>1, <1>3 DEF StdinOK, StartsOK
<1>6. GamesRead(n) /\ GivesBack(n) /\ OneCommand(n) /\ GoneIsEmpty(n)
  BY <1>1 DEF StdinOK, GamesRead, GivesBack, OneCommand, GoneIsEmpty
<1> QED BY <1>4, <1>5, <1>6 DEF StdinOK

\* An event is posted
LEMMA PostFields ==
  ASSUME NEW m, Sound(m), NEW p \in AOs, NEW e \in Event
  PROVE  /\ sched_post(m, p, e).reg = m.reg /\ sched_post(m, p, e).owner = m.owner
         /\ sched_post(m, p, e).ctx = m.ctx /\ sched_post(m, p, e).cmdq = m.cmdq
         /\ sched_post(m, p, e).q[p] = Append(m.q[p], e)
         /\ \A r \in AOs : r # p => sched_post(m, p, e).q[r] = m.q[r]
<1>1. m \in Memory /\ m.q \in [AOs -> Seq(Event)]
  BY DEF Sound, Memory
<1>2. PICK s : s = Append(m.q[p], e)
  OBVIOUS
<1>3. sched_post(m, p, e) = [m EXCEPT !.q[p] = s]
  BY <1>1, <1>2 DEF sched_post, Memory
<1>4. PICK n : n = sched_post(m, p, e)
  OBVIOUS
<1>5. /\ n.reg = m.reg /\ n.owner = m.owner /\ n.ctx = m.ctx /\ n.cmdq = m.cmdq
      /\ n.q = [m.q EXCEPT ![p] = s]
  BY <1>1, <1>3, <1>4 DEF Memory
<1>6. n.q[p] = s /\ \A r \in AOs : r # p => n.q[r] = m.q[r]
  BY <1>1, <1>5
<1> QED BY <1>2, <1>4, <1>5, <1>6

\* A program is registered
LEMMA RegisterFields ==
  ASSUME NEW m, Sound(m), NEW p \in Programs
  PROVE  /\ Register(m, p).reg = m.reg \cup {p} /\ Register(m, p).owner = m.owner
         /\ Register(m, p).cmdq = m.cmdq
         /\ Register(m, p).ctx[p] = Registered(p, m.ctx[p])
         /\ \A r \in Programs : r # p => Register(m, p).ctx[r] = m.ctx[r]
         /\ \A r \in AOs : Register(m, p).q[r] = IF r # p \/ p \in m.reg THEN m.q[r] ELSE <<>>
<1>1. m \in Memory /\ m.q \in [AOs -> Seq(Event)] /\ p \in AOs
  BY DEF Sound, Memory, AOs
<1>2. PICK s \in Seq(Event) : s = IF p \in m.reg THEN m.q[p] ELSE <<>>
  <2>1. m.q[p] \in Seq(Event) /\ <<>> \in Seq(Event)
    BY <1>1
  <2> QED BY <2>1
<1>3. PICK r : r = sched_register_task(m, p)
  OBVIOUS
<1>4. r = [m EXCEPT !.reg = m.reg \cup {p}, !.q[p] = s]
  BY <1>1, <1>2, <1>3 DEF sched_register_task, Memory
<1>5. r \in Memory
  BY <1>1, <1>4 DEF Memory
<1>6. /\ r.reg = m.reg \cup {p} /\ r.owner = m.owner /\ r.cmdq = m.cmdq /\ r.ctx = m.ctx
      /\ r.q = [m.q EXCEPT ![p] = s]
  BY <1>1, <1>4 DEF Memory
<1>7. PICK b \in BOOLEAN : b = (r.counter_sched \/ p = "COUNTER")
  OBVIOUS
<1>8. PICK c : c = Registered(p, m.ctx[p])
  OBVIOUS
<1>9. c \in Context
  <2>1. ContextOK(p, m.ctx[p])
    BY DEF Sound
  <2> QED BY <1>8, <2>1, RegisteredSound, ContextTyped
<1>10. PICK t \in Memory : t = WithSched(r, b)
  BY <1>5 DEF WithSched, Memory
<1>11. /\ t.reg = r.reg /\ t.owner = r.owner /\ t.cmdq = r.cmdq /\ t.ctx = r.ctx /\ t.q = r.q
  BY <1>5, <1>10 DEF WithSched, Memory
<1>12. Register(m, p) = SetCtx(t, p, c)
  <2>1. Register(m, p) =
          [r EXCEPT !.counter_sched = r.counter_sched \/ p = "COUNTER",
                    !.ctx[p] = Registered(p, r.ctx[p])]
    BY <1>3, <1>5, Zenon DEF Register, Registered
  <2>2. Register(m, p) = [r EXCEPT !.counter_sched = b, !.ctx[p] = c]
    BY <1>6, <1>7, <1>8, <2>1
  <2>3. [r EXCEPT !.counter_sched = b, !.ctx[p] = c] = [t EXCEPT !.ctx[p] = c]
    BY <1>5, <1>10 DEF WithSched, Memory
  <2> QED BY <2>2, <2>3 DEF SetCtx
<1>13. PICK n : n = SetCtx(t, p, c)
  OBVIOUS
<1>14. /\ n.reg = t.reg /\ n.owner = t.owner /\ n.cmdq = t.cmdq /\ n.q = t.q /\ n.ctx[p] = c
       /\ \A x \in Programs : x # p => n.ctx[x] = t.ctx[x]
  BY <1>9, <1>13, SetCtxFields DEF SameMail
<1>15. \A x \in AOs : n.q[x] = IF x # p \/ p \in m.reg THEN m.q[x] ELSE <<>>
  BY <1>1, <1>2, <1>6, <1>11, <1>14
<1> QED BY <1>6, <1>8, <1>11, <1>12, <1>13, <1>14, <1>15

\* Stdin is asked for while nobody has it
LEMMA AcquireFields ==
  ASSUME NEW m, Sound(m), NEW p \in Programs
  PROVE  /\ m.owner = NoOwner /\ p \in m.reg => terminal_stdin_acquire(m, p).owner = p
         /\ terminal_stdin_acquire(m, p).owner \in {m.owner, p}
         /\ p \notin m.reg => terminal_stdin_acquire(m, p) = m
         /\ terminal_stdin_acquire(m, p).cmdq = m.cmdq
         /\ terminal_stdin_acquire(m, p).reg = m.reg
         /\ terminal_stdin_acquire(m, p).q = m.q
         /\ terminal_stdin_acquire(m, p).ctx = m.ctx
<1>1. CASE AcquireRc(m, p) = "OK"
  <2>1. p \in m.reg
    BY <1>1 DEF AcquireRc
  <2>2. terminal_stdin_acquire(m, p) = SetOwner(m, p)
    BY <1>1 DEF terminal_stdin_acquire, SetOwner
  <2>3. SetOwner(m, p).cmdq = m.cmdq /\ SetOwner(m, p).owner = p
    BY <2>1, SetOwnerSound DEF Keeps, SameMail
  <2> QED BY <2>1, <2>2, <2>3, SetOwnerSound
<1>2. CASE AcquireRc(m, p) # "OK"
  <2>1. ~(m.owner = NoOwner /\ p \in m.reg)
    BY <1>2 DEF AcquireRc
  <2> QED BY <1>2, <2>1 DEF terminal_stdin_acquire
<1> QED BY <1>1, <1>2

\* The flags rebind and pending say nothing about active and bg
LEMMA RebindFlag ==
  ASSUME NEW p \in Programs, NEW c, ContextOK(p, c), NEW b \in BOOLEAN
  PROVE  /\ WithRebind(c, b).active = c.active /\ WithPending(c, b).active = c.active
         /\ p = "COUNTER" => WithRebind(c, b).bg = c.bg /\ WithPending(c, b).bg = c.bg
<1>1. CASE p = "COUNTER"
  <2>1. c \in CounterContext
    BY <1>1 DEF ContextOK, CounterOK
  <2> QED BY <2>1 DEF CounterContext, WithRebind, WithPending
<1>2. CASE p = "LINE"
  <2>1. c \in LineContext
    BY <1>2 DEF ContextOK, LineOK
  <2> QED BY <1>2, <2>1 DEF LineContext, WithRebind, WithPending
<1>3. CASE p = "SNAKE"
  <2>1. c \in SnakeContext
    BY <1>3 DEF ContextOK, SnakeOK
  <2> QED BY <1>3, <2>1 DEF SnakeContext, WithRebind, WithPending
<1> QED BY <1>1, <1>2, <1>3 DEF Programs

\* A command starts a program: its queue has the START, and stdin is with it
\* unless it goes to the background
LEMMA StartReads ==
  ASSUME NEW m, Sound(m), Calm(m), m.owner = NoOwner, NEW p \in Programs, NEW bg \in BOOLEAN,
         NEW limit \in Word, bg => p = "COUNTER",
         p = "COUNTER" /\ ~bg => ~BackgroundRestored(m)
  PROVE  StdinOK(request_start(Register(m, p), p, bg, limit))
<1>1. PICK e \in Event : e = [sig |-> "START", bg |-> bg, limit |-> limit]
  BY DEF Event
<1>2. e.sig = "START" /\ e.bg = bg
  BY <1>1
<1>3. PICK r : r = Register(m, p)
  OBVIOUS
<1>4. /\ Sound(r) /\ r.reg = m.reg \cup {p} /\ r.owner = NoOwner /\ r.cmdq = <<>>
      /\ r.ctx[p] = Registered(p, m.ctx[p])
      /\ \A x \in Programs : x # p => r.ctx[x] = m.ctx[x]
  BY <1>3, RegisterFields, RegisterSound DEF Calm, Keeps
<1>5. \A x \in Programs : r.q[x] = <<>>
  <2>1. Programs \subseteq AOs
    BY DEF AOs
  <2> QED BY <1>3, <2>1, RegisterFields DEF Calm
<1>6. p \in AOs /\ Games \subseteq Programs /\ "COUNTER" \in Programs /\ "COUNTER" \notin Games
      /\ Programs = Games \cup {"COUNTER"} /\ Programs \subseteq AOs
  BY DEF AOs, Games, Programs
<1>7. \A x \in Games : ~r.ctx[x].active
  <2>1. ContextOK(p, m.ctx[p])
    BY DEF Sound
  <2>2. p \in Games => ~r.ctx[p].active
    BY <1>4, <2>1, RegisteredStops DEF Calm
  <2> QED BY <1>4, <1>6, <2>2 DEF Calm
<1>8. p = "COUNTER" /\ ~bg /\ r.ctx["COUNTER"].active => ~r.ctx["COUNTER"].bg
  <2> SUFFICES ASSUME p = "COUNTER", ~bg, r.ctx[p].active PROVE ~r.ctx[p].bg
    OBVIOUS
  <2>1. ContextOK(p, m.ctx[p])
    BY DEF Sound
  <2> QED BY <1>4, <2>1, RegisteredStops DEF BackgroundRestored
<1>9. Len(<<>>) < QueueCap /\ CanPost(r, p)
  <2>1. Len(<<>>) = 0
    OBVIOUS
  <2> QED BY <1>4, <1>5, <2>1, ProgramsAssumption DEF CanPost
<1>10. CASE bg
  <2>1. request_start(r, p, bg, limit) = sched_post(r, p, e)
    BY <1>1, <1>9, <1>10, Zenon DEF request_start
  <2>2. PICK n : n = sched_post(r, p, e)
    OBVIOUS
  <2>3. /\ n.reg = r.reg /\ n.owner = NoOwner /\ n.ctx = r.ctx /\ n.cmdq = <<>>
        /\ \A x \in Games : n.q[x] = <<>>
    BY <1>4, <1>5, <1>6, <1>10, <2>2, PostFields
  <2>4. OwnerReads(n) /\ GamesRead(n) /\ OneCommand(n) /\ GivesBack(n)
    <3>1. NoOwner # "COUNTER"
      BY DEF NoOwner
    <3> QED BY <1>7, <2>3, <3>1 DEF OwnerReads, GamesRead, OneCommand, GivesBack
  <2>5. StartsOK(n)
    <3>1. NoOwner # "COUNTER"
      BY DEF NoOwner
    <3> QED BY <2>3, <3>1, EmptyStart DEF StartsOK
  <2>6. GoneIsEmpty(n)
    BY <1>4, <1>6, <1>10, <2>3 DEF GoneIsEmpty
  <2> QED BY <1>3, <2>1, <2>2, <2>4, <2>5, <2>6 DEF StdinOK
<1>11. CASE ~bg
  <2>1. PICK a : a = terminal_stdin_acquire(r, p)
    OBVIOUS
  <2>2. /\ Sound(a) /\ a.owner = p /\ a.reg = r.reg /\ a.q = r.q /\ a.ctx = r.ctx
        /\ a.cmdq = <<>>
    BY <1>4, <2>1, AcquireFields, AcquireSound DEF Keeps
  <2>3. AcquireRc(r, p) = "OK" /\ CanPost(a, p)
    BY <1>4, <1>9, <2>2 DEF AcquireRc, CanPost
  <2>4. PICK k : k = sched_post(a, p, e)
    OBVIOUS
  <2>5. /\ Sound(k) /\ k.reg = r.reg /\ k.owner = p /\ k.ctx = r.ctx /\ k.cmdq = <<>>
        /\ k.q[p] = Append(<<>>, e) /\ \A x \in Programs : x # p => k.q[x] = <<>>
    <3>1. Sound(k) /\ k.reg = r.reg /\ k.owner = p /\ k.ctx = r.ctx
      BY <1>6, <2>2, <2>3, <2>4, PostSound DEF Keeps
    <3>2. /\ k.cmdq = <<>> /\ k.q[p] = Append(a.q[p], e)
          /\ \A x \in AOs : x # p => k.q[x] = a.q[x]
      <4>1. Sound(a) /\ a.cmdq = <<>> /\ p \in AOs
        BY <1>6, <2>2
      <4> QED BY <2>4, <4>1, PostFields
    <3> QED BY <1>5, <1>6, <2>2, <3>1, <3>2, ZenonT(60)
  <2>6. PICK c : c = WithRebind(k.ctx[p], FALSE)
    OBVIOUS
  <2>7. request_start(r, p, bg, limit) = SetCtx(k, p, c)
    <3>1. request_start(r, p, bg, limit) = [sched_post(a, p, e) EXCEPT !.ctx[p].rebind = FALSE]
      BY <1>1, <1>11, <2>1, <2>3, Zenon DEF request_start
    <3> QED BY <2>4, <2>6, <3>1, Zenon DEF SetCtx, WithRebind
  <2>8. ContextOK(p, k.ctx[p]) /\ ContextOK(p, c) /\ c \in Context /\ k \in Memory
    <3>1. ContextOK(p, k.ctx[p]) /\ k \in Memory
      BY <2>5 DEF Sound
    <3> QED BY <2>6, <3>1, Flags, ContextTyped
  <2>9. c.active = r.ctx[p].active /\ (p = "COUNTER" => c.bg = r.ctx[p].bg)
    BY <2>5, <2>6, <2>8, RebindFlag, ZenonT(60)
  <2>10. PICK n : n = SetCtx(k, p, c)
    OBVIOUS
  <2>11. /\ n.reg = r.reg /\ n.owner = p /\ n.cmdq = <<>> /\ n.q = k.q /\ n.ctx[p] = c
         /\ \A x \in Programs : x # p => n.ctx[x] = r.ctx[x]
    BY <2>5, <2>8, <2>10, SetCtxFields DEF SameMail
  <2>12. HasStart(n.q[p]) /\ InFront(n.q[p])
    <3>1. n.q[p] = <<e>>
      BY <2>5, <2>11
    <3>2. Len(<<e>>) = 1 /\ <<e>>[1] = e
      OBVIOUS
    <3> QED BY <1>2, <1>11, <3>1, <3>2 DEF HasStart, InFront
  <2>13. OwnerReads(n)
    BY <1>4, <2>11, <2>12 DEF OwnerReads
  <2>14. GamesRead(n)
    BY <1>6, <1>7, <2>11 DEF GamesRead
  <2>15. StartsOK(n)
    BY <1>6, <2>5, <2>11, <2>12, EmptyStart DEF StartsOK
  <2>16. GivesBack(n) /\ OneCommand(n)
    BY <1>8, <1>11, <2>9, <2>11 DEF GivesBack, OneCommand
  <2>17. GoneIsEmpty(n)
    BY <1>4, <2>5, <2>11 DEF GoneIsEmpty
  <2> QED BY <1>3, <2>7, <2>10, <2>13, <2>14, <2>15, <2>16, <2>17 DEF StdinOK
<1> QED BY <1>10, <1>11

\* Stdin is taken from whoever has it
LEMMA CalmNoOwner ==
  ASSUME NEW m, Sound(m), Calm(m)
  PROVE  Calm(SetOwner(m, NoOwner))
<1>1. NoOwner \notin Games /\ NoOwner # "COUNTER"
  BY DEF NoOwner, Games
<1>2. PICK n : n = SetOwner(m, NoOwner)
  OBVIOUS
<1>3. /\ n.owner = NoOwner /\ n.reg = m.reg /\ n.q = m.q /\ n.ctx = m.ctx
      /\ n.cmdq = m.cmdq
  BY <1>1, <1>2, SetOwnerSound DEF Keeps, SameMail
<1> QED BY <1>1, <1>2, <1>3 DEF Calm

\* The counter of a checkpoint comes back; in the foreground it takes stdin
LEMMA ApplyCalm ==
  ASSUME NEW m, Sound(m), Calm(m), m.owner = NoOwner, NEW b, BlobOK("COUNTER", b),
         NEW bound \in BOOLEAN
  PROVE  Calm(ApplyRegion(m, "COUNTER", b, bound))
<1> DEFINE p == "COUNTER"
<1>1. p \in Programs /\ p \in AOs /\ p \notin Games /\ Games \subseteq Programs /\ NoOwner # p
      /\ Programs \subseteq AOs
  BY DEF Programs, AOs, Games, NoOwner
<1>2. PICK r : r = Register(m, p)
  OBVIOUS
<1>3. Sound(r) /\ r.reg = m.reg \cup {p} /\ r.owner = NoOwner
  BY <1>1, <1>2, RegisterSound DEF Keeps
<1>4. /\ r.cmdq = <<>> /\ \A x \in Games : r.ctx[x] = m.ctx[x]
      /\ \A x \in Programs : r.q[x] = <<>>
  BY <1>1, <1>2, RegisterFields DEF Calm
<1>5. Calm(r)
  BY <1>1, <1>3, <1>4 DEF Calm
<1>6. ContextOK(p, r.ctx[p])
  BY <1>1, <1>3 DEF Sound
<1>7. PICK lock \in BOOLEAN : lock = (~bound \/ AcquireRc(r, p) \notin {"OK", "EXISTS"})
  OBVIOUS
<1>8. CASE ~counter_blob_valid(b)
  <2>1. ApplyRegion(m, p, b, bound) = r
    BY <1>2, <1>8, Zenon DEF ApplyRegion
  <2> QED BY <1>5, <2>1
<1>9. CASE counter_blob_valid(b) /\ ~b.active
  <2>1. PICK u : u = sched_unregister(r, p)
    OBVIOUS
  <2>2. /\ u \in Memory /\ u.reg = r.reg \ {p} /\ u.ctx = r.ctx /\ u.owner = NoOwner
        /\ u.cmdq = <<>> /\ u.q[p] = <<>>
    BY <1>1, <1>3, <1>4, <2>1, UnregisterFields DEF SameMail
  <2>3. \A x \in Programs : u.q[x] = <<>>
    BY <1>1, <1>3, <1>4, <2>1, <2>2, UnregisterFields
  <2>4. PICK c : c = WithRestored(Reset(p, u.ctx[p]), FALSE)
    OBVIOUS
  <2>5. c \in Context
    BY <1>1, <1>6, <2>2, <2>4, ResetSound, ContextTyped
  <2>6. ApplyRegion(m, p, b, bound) =
          [sched_unregister(Register(m, p), p) EXCEPT !.ctx[p] = [Reset(p, @) EXCEPT !.restored = FALSE]]
    BY <1>9, Zenon DEF ApplyRegion
  <2>7. ApplyRegion(m, p, b, bound) = SetCtx(u, p, c)
    BY <1>2, <2>1, <2>4, <2>6, Zenon DEF SetCtx, WithRestored
  <2>8. PICK n : n = SetCtx(u, p, c)
    OBVIOUS
  <2>9. n.owner = NoOwner /\ n.cmdq = <<>> /\ n.q = u.q /\ \A x \in Games : n.ctx[x] = r.ctx[x]
    BY <1>1, <2>2, <2>5, <2>8, SetCtxFields DEF SameMail
  <2> QED BY <1>1, <1>5, <2>3, <2>7, <2>8, <2>9 DEF Calm
<1>10. CASE counter_blob_valid(b) /\ b.active
  <2>1. PICK c : c = Restored(p, r.ctx[p], b, lock)
    OBVIOUS
  <2>2. ContextOK(p, c) /\ c \in Context
    BY <1>1, <1>10, <2>1, RestoredProgramSound, ContextTyped
  <2>3. c.active /\ c.bg = b.bg
    BY <2>1 DEF Restored, counter_restore
  <2>4. PICK s : s = SetCtx(r, p, c)
    OBVIOUS
  <2>5. Sound(s)
    BY <1>1, <1>3, <2>2, <2>4, SetCtxSound DEF Keeps
  <2>6. /\ s.reg = r.reg /\ s.owner = NoOwner /\ s.cmdq = <<>> /\ s.q = r.q /\ s.ctx[p] = c
        /\ \A x \in Games : s.ctx[x] = r.ctx[x]
    <3>1. r \in Memory
      BY <1>3 DEF Sound
    <3> QED BY <1>1, <1>3, <1>4, <2>2, <2>4, <3>1, SetCtxFields DEF SameMail
  <2>7. Calm(s)
    BY <1>1, <1>5, <2>6 DEF Calm
  <2>8. ApplyRegion(m, p, b, bound) = IF ~b.bg /\ bound THEN terminal_stdin_acquire(s, p) ELSE s
    <3>1. s = [Register(m, p) EXCEPT !.ctx[p] = Restored(p, @, b, ~bound \/ AcquireRc(Register(m, p), p) \notin {"OK", "EXISTS"})]
      BY <1>2, <1>7, <2>1, <2>4, Zenon DEF SetCtx
    <3> QED BY <1>10, <3>1, Zenon DEF ApplyRegion
  <2>9. CASE ~b.bg /\ bound
    <3>1. PICK n : n = terminal_stdin_acquire(s, p)
      OBVIOUS
    <3>2. /\ n.owner = p /\ n.cmdq = <<>> /\ n.reg = s.reg /\ n.q = s.q /\ n.ctx = s.ctx
      BY <1>1, <1>3, <2>5, <2>6, <3>1, AcquireFields
    <3>3. Calm(n)
      BY <1>1, <1>3, <2>3, <2>6, <2>7, <2>9, <3>2 DEF Calm
    <3> QED BY <2>8, <2>9, <3>1, <3>3
  <2>10. CASE ~(~b.bg /\ bound)
    BY <2>7, <2>8, <2>10
  <2> QED BY <2>9, <2>10
<1> QED BY <1>8, <1>9, <1>10

\* A checkpoint that has no game
LEMMA CheckpointCalm ==
  ASSUME NEW m, Sound(m), Calm(m), m.owner = NoOwner, NEW saved, SavedOK(saved),
         OnlyCounter(saved), NEW bound \in BOOLEAN
  PROVE  Calm(ApplyCheckpoint(m, saved, bound)) /\ Sound(ApplyCheckpoint(m, saved, bound))
<1>1. "LINE" \notin DOMAIN saved /\ "SNAKE" \notin DOMAIN saved
  BY DEF OnlyCounter
<1>2. ApplyCheckpoint(m, saved, bound) =
        IF "COUNTER" \in DOMAIN saved THEN ApplyRegion(m, "COUNTER", saved["COUNTER"], bound) ELSE m
  BY <1>1, Zenon DEF ApplyCheckpoint
<1>3. Sound(ApplyCheckpoint(m, saved, bound))
  BY ApplyCheckpointSound DEF Keeps
<1>4. CASE "COUNTER" \in DOMAIN saved
  <2>1. BlobOK("COUNTER", saved["COUNTER"])
    BY <1>4 DEF SavedOK
  <2> QED BY <1>2, <1>3, <1>4, <2>1, ApplyCalm
<1>5. CASE "COUNTER" \notin DOMAIN saved
  BY <1>2, <1>3, <1>5
<1> QED BY <1>4, <1>5

\* A restored program takes stdin when the terminal is registered
LEMMA RebindCalm ==
  ASSUME NEW m, Sound(m), Calm(m), NEW p \in Programs
  PROVE  Calm(RebindStdin(m, p)) /\ Sound(RebindStdin(m, p))
<1>1. Sound(RebindStdin(m, p))
  BY RebindSound DEF Keeps
<1>2. CASE RebindStdin(m, p) = m
  BY <1>1, <1>2
<1>3. CASE RebindStdin(m, p) # m
  <2>1. /\ m.ctx[p].active /\ (p = "COUNTER" => ~m.ctx[p].bg) /\ p \in m.reg
        /\ RebindStdin(m, p) = [terminal_stdin_acquire(m, p) EXCEPT !.ctx[p].rebind = FALSE]
    BY <1>3, Zenon DEF RebindStdin
  <2>2. p = "COUNTER"
    BY <2>1 DEF Calm, Programs, Games
  <2>3. PICK a : a = terminal_stdin_acquire(m, p)
    OBVIOUS
  <2>4. /\ Sound(a) /\ a.owner \in {NoOwner, p} /\ a.reg = m.reg /\ a.q = m.q /\ a.ctx = m.ctx
        /\ a.cmdq = <<>>
    BY <2>2, <2>3, AcquireFields, AcquireSound DEF Keeps, Calm
  <2>5. PICK c : c = WithRebind(a.ctx[p], FALSE)
    OBVIOUS
  <2>6. ContextOK(p, a.ctx[p]) /\ ContextOK(p, c) /\ c \in Context /\ a \in Memory
    <3>1. ContextOK(p, a.ctx[p]) /\ a \in Memory
      BY <2>4 DEF Sound
    <3> QED BY <2>5, <3>1, Flags, ContextTyped
  <2>7. c.active = m.ctx[p].active /\ c.bg = m.ctx[p].bg
    BY <2>2, <2>4, <2>5, <2>6, RebindFlag, ZenonT(60)
  <2>8. PICK n : n = SetCtx(a, p, c)
    OBVIOUS
  <2>9. RebindStdin(m, p) = n
    BY <2>1, <2>3, <2>5, <2>8, Zenon DEF SetCtx, WithRebind
  <2>10. /\ n.reg = m.reg /\ n.owner = a.owner /\ n.cmdq = <<>> /\ n.q = m.q /\ n.ctx[p] = c
         /\ \A x \in Programs : x # p => n.ctx[x] = m.ctx[x]
    BY <2>4, <2>6, <2>8, SetCtxFields DEF SameMail
  <2>11. Calm(n)
    <3>1. Games \subseteq Programs /\ p \notin Games /\ NoOwner # "COUNTER"
      BY <2>2 DEF Games, Programs, NoOwner
    <3>2. n.ctx["COUNTER"].active /\ ~n.ctx["COUNTER"].bg /\ "COUNTER" \in n.reg
      BY <2>1, <2>2, <2>7, <2>10
    <3>3. \A x \in Games : ~n.ctx[x].active
      BY <2>10, <3>1 DEF Calm
    <3>4. n.owner \in {NoOwner, "COUNTER"} /\ n.cmdq = <<>> /\ \A x \in Programs : n.q[x] = <<>>
      BY <2>2, <2>4, <2>10 DEF Calm
    <3> QED BY <3>2, <3>3, <3>4 DEF Calm
  <2> QED BY <1>1, <2>9, <2>11
<1> QED BY <1>2, <1>3

\* A cold boot with a checkpoint that has no game
LEMMA ColdCalm ==
  ASSUME NEW saved, SavedOK(saved), OnlyCounter(saved), NEW area \in BOOLEAN
  PROVE  Calm(ColdRam(saved, area))
<1>1. PICK z : z = ZeroRam(area)
  OBVIOUS
<1>2. Sound(z)
  BY <1>1, ZeroSound
<1>3. /\ z.owner = NoOwner /\ z.cmdq = <<>> /\ z.q = [p \in AOs |-> <<>>]
      /\ z.ctx["LINE"] = LineInit /\ z.ctx["SNAKE"] = SnakeInit
  BY <1>1 DEF ZeroRam, Programs
<1>4. ~LineInit.active /\ ~SnakeInit.active
  BY DEF LineInit, SnakeInit, line_reset, snake_reset
<1>5. Calm(z)
  <2>1. Games = {"LINE", "SNAKE"} /\ Programs \subseteq AOs /\ NoOwner # "COUNTER"
    BY DEF Games, AOs, NoOwner
  <2> QED BY <1>3, <1>4, <2>1 DEF Calm
<1>6. PICK a : a = ApplyCheckpoint(z, saved, FALSE)
  OBVIOUS
<1>7. Sound(a) /\ Calm(a)
  BY <1>2, <1>3, <1>5, <1>6, CheckpointCalm
<1>8. PICK n : n = SetOwner(a, NoOwner)
  OBVIOUS
<1>9. Sound(n) /\ Calm(n)
  <2>1. NoOwner \notin Games
    BY DEF NoOwner, Games
  <2> QED BY <1>7, <1>8, <2>1, CalmNoOwner, SetOwnerSound DEF Keeps
<1>10. {"COUNTER", "LINE", "SNAKE"} \subseteq Programs
  BY DEF Programs
<1>11. PICK b : b = RebindStdin(n, "COUNTER")
  OBVIOUS
<1>12. Sound(b) /\ Calm(b)
  BY <1>9, <1>10, <1>11, RebindCalm
<1>13. PICK c : c = RebindStdin(b, "LINE")
  OBVIOUS
<1>14. Sound(c) /\ Calm(c)
  BY <1>10, <1>12, <1>13, RebindCalm
<1>15. Calm(RebindStdin(c, "SNAKE"))
  BY <1>10, <1>14, RebindCalm
<1>16. ColdRam(saved, area) = RegisterTerminal(a)
  BY <1>1, <1>6, Zenon DEF ColdRam, ZeroRam
<1>17. RegisterTerminal(a) = RebindStdin(c, "SNAKE")
  BY <1>8, <1>11, <1>13, Zenon DEF RegisterTerminal, SetOwner
<1> QED BY <1>15, <1>16, <1>17

-----------------------------------------------------------------------------
(* The actions and stdin *)

\* The hook of a program
LEMMA HookReads ==
  ASSUME NEW m, Sound(m), StdinOK(m), NEW p \in Programs, NEW due
  PROVE  StdinOK(ProgramHook(m, p, due))
<1>1. PICK e \in Event : e = [sig |-> "TICK"]
  BY DEF Event
<1>2. /\ p \in AOs /\ ContextOK(p, m.ctx[p]) /\ m \in Memory /\ Programs \subseteq AOs
      /\ "COUNTER" \in Programs /\ e.sig # "START"
      /\ m.owner \in Programs \cup {NoOwner}
  BY <1>1 DEF AOs, Sound, Programs, Memory
<1>3. CASE ProgramHook(m, p, due) = m
  BY <1>3
<1>4. CASE p \notin m.reg /\ ProgramHook(m, p, due) = SetCtx(m, p, Reset(p, m.ctx[p]))
  <2>1. PICK c : c = Reset(p, m.ctx[p])
    OBVIOUS
  <2>2. c \in Context /\ ~c.active
    BY <1>2, <2>1, ResetSound, ResetStops, ContextTyped
  <2>3. PICK n : n = SetCtx(m, p, c)
    OBVIOUS
  <2>4. /\ n.reg = m.reg /\ n.owner = m.owner /\ n.q = m.q /\ n.cmdq = m.cmdq /\ n.ctx[p] = c
        /\ \A x \in Programs : x # p => n.ctx[x] = m.ctx[x]
    BY <1>2, <2>2, <2>3, SetCtxFields DEF SameMail
  <2>5. m.owner # p \/ p = NoOwner
    BY <1>4 DEF StdinOK, OwnerReads
  <2>6. OwnerReads(n)
    BY <1>2, <2>4, <2>5 DEF StdinOK, OwnerReads
  <2>7. GamesRead(n)
    <3>1. Games \subseteq Programs
      BY DEF Games, Programs
    <3> QED BY <1>4, <2>4, <3>1 DEF StdinOK, GamesRead
  <2>8. GivesBack(n) /\ OneCommand(n) /\ StartsOK(n) /\ GoneIsEmpty(n)
    BY <1>2, <2>2, <2>4 DEF StdinOK, GivesBack, OneCommand, StartsOK, GoneIsEmpty
  <2> QED BY <1>4, <2>1, <2>3, <2>6, <2>7, <2>8 DEF StdinOK
<1>5. CASE CanPost(m, p) /\ ProgramHook(m, p, due) =
             [sched_post(m, p, e) EXCEPT !.ctx[p].pending = TRUE]
  <2>1. PICK s : s = sched_post(m, p, e)
    OBVIOUS
  <2>2. Sound(s) /\ s.reg = m.reg /\ s.owner = m.owner /\ s.ctx = m.ctx
    BY <1>2, <1>5, <2>1, PostSound DEF Keeps
  <2>3. s.cmdq = m.cmdq /\ s.q[p] = Append(m.q[p], e) /\ \A x \in AOs : x # p => s.q[x] = m.q[x]
    BY <1>2, <2>1, PostFields
  <2>4. PICK c : c = WithPending(s.ctx[p], TRUE)
    OBVIOUS
  <2>5. ContextOK(p, c) /\ c \in Context /\ s \in Memory
    <3>1. ContextOK(p, s.ctx[p]) /\ s \in Memory
      BY <2>2 DEF Sound
    <3> QED BY <2>4, <3>1, Flags, ContextTyped
  <2>6. c.active = m.ctx[p].active /\ (p = "COUNTER" => c.bg = m.ctx[p].bg)
    BY <1>2, <2>2, <2>4, RebindFlag, ZenonT(60)
  <2>7. PICK n : n = SetCtx(s, p, c)
    OBVIOUS
  <2>8. ProgramHook(m, p, due) = n
    BY <1>5, <2>1, <2>4, <2>7, Zenon DEF SetCtx, WithPending
  <2>9. /\ n.reg = m.reg /\ n.owner = m.owner /\ n.q = s.q /\ n.cmdq = m.cmdq /\ n.ctx[p] = c
        /\ \A x \in Programs : x # p => n.ctx[x] = m.ctx[x]
    BY <2>2, <2>3, <2>5, <2>7, SetCtxFields DEF SameMail
  <2>10. \A x \in Programs : n.ctx[x].active = m.ctx[x].active
    BY <2>6, <2>9
  <2>11. n.ctx["COUNTER"].bg = m.ctx["COUNTER"].bg
    BY <1>2, <2>6, <2>9
  <2>12. p \in m.reg
    BY <1>5 DEF CanPost
  <2>13. \A x \in Programs : \/ n.q[x] = m.q[x]
                             \/ /\ x \in m.reg
                                /\ \E f \in Event : f.sig # "START" /\ n.q[x] = Append(m.q[x], f)
    BY <1>2, <2>3, <2>9, <2>12
  <2>14. StdinOK(n)
    BY <2>9, <2>10, <2>11, <2>13, QueueGrows
  <2> QED BY <2>8, <2>14
<1>6. \/ ProgramHook(m, p, due) = m
      \/ p \notin m.reg /\ ProgramHook(m, p, due) = SetCtx(m, p, Reset(p, m.ctx[p]))
      \/ CanPost(m, p) /\ ProgramHook(m, p, due) =
           [sched_post(m, p, e) EXCEPT !.ctx[p].pending = TRUE]
  BY <1>1, Zenon DEF ProgramHook, SetCtx
<1> QED BY <1>3, <1>4, <1>5, <1>6

\* The flags of the snapshot task
LEMMA SnapFields ==
  ASSUME NEW m \in Memory, NEW s
  PROVE  /\ WithSnap(m, s).reg = m.reg /\ WithSnap(m, s).owner = m.owner
         /\ WithSnap(m, s).ctx = m.ctx /\ WithSnap(m, s).cmdq = m.cmdq
         /\ WithSnap(m, s).q = m.q
BY DEF WithSnap, Memory

\* The hook of the snapshot task
LEMMA SnapshotHookReads ==
  ASSUME NEW m, Sound(m), StdinOK(m), NEW due
  PROVE  StdinOK(SnapshotHook(m, due))
<1>1. PICK e \in Event : e = [sig |-> "TRIGGER"]
  BY DEF Event
<1>2. /\ "SNAPSHOT" \in AOs /\ m \in Memory /\ Programs \subseteq AOs /\ "SNAPSHOT" \notin Programs
      /\ m.owner \in Programs \cup {NoOwner}
  BY DEF AOs, Sound, Memory, Programs
<1>3. CASE SnapshotHook(m, due) = m
  BY <1>3
<1>4. CASE SnapshotHook(m, due) = [m EXCEPT !.snap.enabled = FALSE, !.snap.pending = FALSE]
  <2>1. PICK n : n = SnapshotHook(m, due)
    OBVIOUS
  <2>2. n.reg = m.reg /\ n.owner = m.owner /\ n.ctx = m.ctx /\ n.cmdq = m.cmdq /\ n.q = m.q
    BY <1>2, <1>4, <2>1 DEF Memory
  <2> QED BY <1>2, <2>1, <2>2, StdinFrame
<1>5. SnapshotHook(m, due) = [sched_post(m, "SNAPSHOT", e) EXCEPT !.snap.pending = TRUE]
        /\ CanPost(m, "SNAPSHOT") => StdinOK(SnapshotHook(m, due))
  <2> SUFFICES ASSUME SnapshotHook(m, due) = [sched_post(m, "SNAPSHOT", e) EXCEPT !.snap.pending = TRUE],
                      CanPost(m, "SNAPSHOT")
               PROVE  StdinOK(SnapshotHook(m, due))
    OBVIOUS
  <2>1. PICK k : k = sched_post(m, "SNAPSHOT", e)
    OBVIOUS
  <2>2. k \in Memory
    BY <1>2, <2>1, PostSound DEF Keeps, Sound
  <2>3. /\ k.reg = m.reg /\ k.owner = m.owner /\ k.ctx = m.ctx /\ k.cmdq = m.cmdq
        /\ \A x \in Programs : k.q[x] = m.q[x]
    BY <1>2, <2>1, PostFields
  <2>4. PICK s : s = [k.snap EXCEPT !.pending = TRUE]
    OBVIOUS
  <2>5. PICK n : n = WithSnap(k, s)
    OBVIOUS
  <2>6. SnapshotHook(m, due) = n
    BY <2>1, <2>4, <2>5, Zenon DEF WithSnap
  <2>7. /\ n.reg = m.reg /\ n.owner = m.owner /\ n.ctx = m.ctx /\ n.cmdq = m.cmdq
        /\ \A x \in Programs : n.q[x] = m.q[x]
    BY <2>2, <2>3, <2>5, SnapFields
  <2> QED BY <1>2, <2>6, <2>7, StdinFrame
<1>6. \/ SnapshotHook(m, due) = m
      \/ SnapshotHook(m, due) = [m EXCEPT !.snap.enabled = FALSE, !.snap.pending = FALSE]
      \/ /\ CanPost(m, "SNAPSHOT")
         /\ SnapshotHook(m, due) = [sched_post(m, "SNAPSHOT", e) EXCEPT !.snap.pending = TRUE]
  BY <1>1, Zenon DEF SnapshotHook
<1> QED BY <1>3, <1>4, <1>5, <1>6

\* SysTick
LEMMA SysTickReads ==
  ASSUME IInv, StdinInv, NEW due, SysTick(due)
  PROVE  StdinInv'
<1>1. Sound(ram) /\ StdinOK(ram)
  BY DEF IInv, StdinInv
<1>2. {"COUNTER", "LINE", "SNAKE"} \subseteq Programs
  BY DEF Programs
<1>3. PICK a : a = ProgramHook(ram, "COUNTER", due)
  OBVIOUS
<1>4. Sound(a) /\ StdinOK(a)
  BY <1>1, <1>2, <1>3, ProgramHookSound, HookReads DEF Keeps
<1>5. PICK b : b = SnapshotHook(a, due)
  OBVIOUS
<1>6. Sound(b) /\ StdinOK(b)
  BY <1>4, <1>5, SnapshotHookSound, SnapshotHookReads DEF Keeps
<1>7. PICK c : c = ProgramHook(b, "LINE", due)
  OBVIOUS
<1>8. Sound(c) /\ StdinOK(c)
  BY <1>2, <1>6, <1>7, ProgramHookSound, HookReads DEF Keeps
<1>9. StdinOK(ProgramHook(c, "SNAKE", due))
  BY <1>2, <1>8, HookReads
<1>10. ram' = ProgramHook(c, "SNAKE", due) /\ card' = card
  BY <1>3, <1>5, <1>7, Zenon DEF SysTick
<1> QED BY <1>9, <1>10 DEF StdinInv

\* A program goes, and stdin with it
LEMMA LeaveReads ==
  ASSUME NEW m, Sound(m), StdinOK(m), NEW p \in Programs, NEW n, n.reg = m.reg \ {p},
         n.owner = IF m.owner = p THEN NoOwner ELSE m.owner, n.cmdq = m.cmdq,
         n.q[p] = <<>>, \A x \in Programs : x # p => n.q[x] = m.q[x],
         \A x \in Programs : x # p => n.ctx[x] = m.ctx[x],
         m.cmdq # <<>> => ~n.ctx[p].active
  PROVE  StdinOK(n)
<1>1. /\ "COUNTER" \in Programs /\ Games \subseteq Programs /\ NoOwner \notin Programs
      /\ m.owner \in Programs \cup {NoOwner}
  BY DEF Programs, Games, NoOwner, Sound, Memory
<1>2. OwnerReads(n)
  BY <1>1 DEF StdinOK, OwnerReads
<1>3. GamesRead(n)
  BY <1>1 DEF StdinOK, GamesRead
<1>4. StartsOK(n)
  BY <1>1, EmptyStart DEF StdinOK, StartsOK
<1>5. GivesBack(n) /\ OneCommand(n) /\ GoneIsEmpty(n)
  BY <1>1 DEF StdinOK, GivesBack, OneCommand, GoneIsEmpty
<1> QED BY <1>2, <1>3, <1>4, <1>5 DEF StdinOK

\* An event is handled.  What it ends gives stdin back: a counter in the background
\* has not got it.
LEMMA DispatchReads ==
  ASSUME IInv, StdinInv, NEW p \in Programs, Dispatch(p)
  PROVE  StdinInv'
<1>1. /\ Sound(ram) /\ StdinOK(ram) /\ ram \in Memory /\ p \in AOs /\ Programs \subseteq AOs
      /\ Games \subseteq Programs /\ "COUNTER" \in Programs /\ NoOwner \notin Programs
      /\ "COUNTER" \notin Games /\ ram.owner \in Programs \cup {NoOwner}
  BY DEF IInv, StdinInv, Sound, AOs, Programs, Games, NoOwner, Memory
<1>2. ram.q \in [AOs -> Seq(Event)] /\ ram.q[p] \in Seq(Event) /\ ram.q[p] # <<>>
  BY <1>1 DEF Memory, Dispatch
<1>3. PICK rest \in Seq(Event) : rest = Tail(ram.q[p])
  BY <1>2, FirstAndRest
<1>4. PICK e \in Event : e = Head(ram.q[p])
  BY <1>2, FirstAndRest
<1>5. PICK c \in Handle(p, ram.ctx[p], Head(ram.q[p])) :
        LET m == [ram EXCEPT !.q[p] = Tail(ram.q[p]), !.ctx[p] = c]
            bg == p = "COUNTER" /\ ram.ctx[p].bg
            freed == IF bg THEN m ELSE terminal_stdin_release(m, p)
        IN  ram' = IF ram.ctx[p].active /\ ~c.active THEN sched_unregister(freed, p) ELSE m
  BY Zenon DEF Dispatch
<1>6. ContextOK(p, ram.ctx[p]) /\ ContextOK(p, c) /\ c \in Context
  BY <1>1, <1>4, <1>5, HandleSound, ContextTyped DEF Sound
<1>7. /\ e.sig = "START" => c.active
      /\ e.sig # "START" /\ ~ram.ctx[p].active => ~c.active
      /\ p = "COUNTER" /\ c.active => c.bg = IF ram.ctx[p].active THEN ram.ctx[p].bg ELSE e.bg
  BY <1>4, <1>5, <1>6, HandleActive
<1>8. /\ HasStart(rest) => HasStart(ram.q[p])
      /\ e.sig # "START" /\ HasStart(ram.q[p]) => HasStart(rest)
      /\ InFront(ram.q[p]) => InFront(rest)
      /\ e.sig = "START" => HasStart(ram.q[p]) /\ (InFront(ram.q[p]) => ~e.bg)
  BY <1>2, <1>3, <1>4, TailStart
<1>9. PICK n \in Memory : n = [ram EXCEPT !.q[p] = rest]
  BY <1>1, <1>2 DEF Memory
<1>10. /\ n.reg = ram.reg /\ n.owner = ram.owner /\ n.ctx = ram.ctx /\ n.cmdq = ram.cmdq
       /\ n.q = [ram.q EXCEPT ![p] = rest]
  BY <1>1, <1>9 DEF Memory
<1>11. PICK m : m = SetCtx(n, p, c)
  OBVIOUS
<1>12. m = [ram EXCEPT !.q[p] = Tail(ram.q[p]), !.ctx[p] = c]
  BY <1>1, <1>3, <1>9, <1>11 DEF SetCtx, Memory
<1>13. /\ m \in Memory /\ m.reg = ram.reg /\ m.owner = ram.owner /\ m.cmdq = ram.cmdq
       /\ m.q = n.q /\ m.ctx[p] = c /\ \A x \in Programs : x # p => m.ctx[x] = ram.ctx[x]
  BY <1>6, <1>10, <1>11, SetCtxFields DEF SameMail
<1>14. m.q[p] = rest /\ \A x \in Programs : x # p => m.q[x] = ram.q[x]
  BY <1>1, <1>2, <1>10, <1>13
<1>15. p \in ram.reg
  BY <1>1, <1>2 DEF StdinOK, GoneIsEmpty
<1>16. card' = card
  BY DEF Dispatch
<1>17. CASE ~(ram.ctx[p].active /\ ~c.active)
  <2>1. ram' = m
    BY <1>5, <1>12, <1>17
  <2>2. OwnerReads(m)
    BY <1>1, <1>7, <1>8, <1>13, <1>14, <1>15, <1>17 DEF StdinOK, OwnerReads
  <2>3. GamesRead(m)
    <3>1. p \in Games /\ c.active => ram.owner = p
      BY <1>1, <1>7, <1>8, <1>15 DEF StdinOK, GamesRead, StartsOK
    <3> QED BY <1>1, <1>13, <3>1 DEF StdinOK, GamesRead
  <2>4. StartsOK(m)
    <3>1. \A x \in Games : HasStart(m.q[x]) => m.owner = x
      BY <1>1, <1>8, <1>13, <1>14 DEF StdinOK, StartsOK
    <3>2. m.owner = "COUNTER" => InFront(m.q["COUNTER"])
      BY <1>1, <1>8, <1>13, <1>14 DEF StdinOK, StartsOK
    <3> QED BY <3>1, <3>2 DEF StartsOK
  <2>5. GivesBack(m)
    BY <1>1, <1>7, <1>8, <1>13 DEF StdinOK, GivesBack, StartsOK
  <2>6. OneCommand(m)
    BY <1>1, <1>13, <1>15 DEF StdinOK, OneCommand
  <2>7. GoneIsEmpty(m)
    BY <1>1, <1>13, <1>14, <1>15 DEF StdinOK, GoneIsEmpty
  <2> QED BY <1>16, <2>1, <2>2, <2>3, <2>4, <2>5, <2>6, <2>7 DEF StdinInv, StdinOK
<1>18. CASE ram.ctx[p].active /\ ~c.active
  <2>1. PICK freed : freed = IF p = "COUNTER" /\ ram.ctx[p].bg THEN m ELSE terminal_stdin_release(m, p)
    OBVIOUS
  <2>2. ram' = sched_unregister(freed, p)
    BY <1>5, <1>12, <1>18, <2>1
  <2>3. PICK o \in Programs \cup {NoOwner} : o = IF ram.owner = p THEN NoOwner ELSE ram.owner
    BY <1>1
  <2>4. freed = SetOwner(m, o)
    <3>1. SetOwner(m, m.owner) = m
      BY <1>13 DEF SetOwner, Memory
    <3>2. CASE p = "COUNTER" /\ ram.ctx[p].bg
      BY <1>1, <1>13, <1>18, <2>1, <2>3, <3>1, <3>2 DEF StdinOK, GivesBack
    <3>3. CASE ~(p = "COUNTER" /\ ram.ctx[p].bg) /\ ram.owner = p
      <4>1. term_stdin_owner_valid(m)
        BY <1>1, <1>13, <1>15, <3>3 DEF term_stdin_owner_valid
      <4> QED BY <1>13, <2>1, <2>3, <3>3, <4>1 DEF terminal_stdin_release, SetOwner
    <3>4. CASE ~(p = "COUNTER" /\ ram.ctx[p].bg) /\ ram.owner # p
      BY <1>13, <2>1, <2>3, <3>1, <3>4 DEF terminal_stdin_release
    <3> QED BY <3>2, <3>3, <3>4
  <2>5. /\ freed \in Memory /\ freed.reg = ram.reg /\ freed.owner = o /\ freed.cmdq = ram.cmdq
        /\ freed.q = m.q /\ freed.ctx = m.ctx
    BY <1>13, <2>4 DEF SetOwner, Memory
  <2>6. PICK k : k = ram'
    OBVIOUS
  <2>7. /\ k.reg = ram.reg \ {p} /\ k.owner = o /\ k.cmdq = ram.cmdq /\ k.ctx = m.ctx
        /\ k.q = [freed.q EXCEPT ![p] = <<>>]
    BY <1>1, <2>2, <2>5, <2>6 DEF sched_unregister, Memory
  <2>8. k.q[p] = <<>> /\ \A x \in Programs : x # p => k.q[x] = ram.q[x]
    <3>1. freed.q \in [AOs -> Seq(Event)]
      BY <2>5 DEF Memory
    <3> QED BY <1>1, <1>14, <2>5, <2>7, <3>1
  <2>9. StdinOK(k)
    <3>1. ~k.ctx[p].active /\ \A x \in Programs : x # p => k.ctx[x] = ram.ctx[x]
      BY <1>13, <1>18, <2>7
    <3>2. k.owner = IF ram.owner = p THEN NoOwner ELSE ram.owner
      BY <2>3, <2>7
    <3> QED BY <1>1, <2>7, <2>8, <3>1, <3>2, LeaveReads, ZenonT(60)
  <2> QED BY <1>16, <2>6, <2>9 DEF StdinInv
<1> QED BY <1>17, <1>18

\* The snapshot task takes its event
LEMMA SnapshotBeginReads ==
  ASSUME IInv, StdinInv, SnapshotBegin
  PROVE  StdinInv'
<1>1. /\ StdinOK(ram) /\ ram \in Memory /\ "SNAPSHOT" \notin Programs /\ Programs \subseteq AOs
      /\ "SNAPSHOT" \in AOs /\ ram.owner \in Programs \cup {NoOwner}
      /\ ram.q \in [AOs -> Seq(Event)]
  BY DEF IInv, StdinInv, Sound, AOs, Programs, Memory
<1>2. PICK rest : rest = Tail(ram.q["SNAPSHOT"])
  OBVIOUS
<1>3. PICK s : s = IF ram.snap.enabled THEN [ram.snap EXCEPT !.busy = TRUE]
                   ELSE [ram.snap EXCEPT !.pending = FALSE]
  OBVIOUS
<1>4. ram' = [ram EXCEPT !.q["SNAPSHOT"] = rest, !.snap = s]
  BY <1>1, <1>2, <1>3 DEF SnapshotBegin, Memory
<1>5. PICK n : n = ram'
  OBVIOUS
<1>6. /\ n.reg = ram.reg /\ n.owner = ram.owner /\ n.ctx = ram.ctx /\ n.cmdq = ram.cmdq
      /\ n.q = [ram.q EXCEPT !["SNAPSHOT"] = rest]
  BY <1>1, <1>4, <1>5 DEF Memory
<1>7. \A x \in Programs : n.q[x] = ram.q[x]
  BY <1>1, <1>6
<1>8. StdinOK(n)
  BY <1>1, <1>6, <1>7, StdinFrame
<1> QED BY <1>5, <1>8 DEF StdinInv, SnapshotBegin

\* The snapshot is written, or not
LEMMA SnapshotEndReads ==
  ASSUME IInv, StdinInv, SnapshotEnd
  PROVE  StdinInv'
<1>1. StdinOK(ram) /\ ram \in Memory /\ ram.owner \in Programs \cup {NoOwner}
  BY DEF IInv, StdinInv, Sound, Memory
<1>2. PICK n : n = ram'
  OBVIOUS
<1>3. /\ n.reg = ram.reg /\ n.owner = ram.owner /\ n.ctx = ram.ctx /\ n.cmdq = ram.cmdq
      /\ n.q = ram.q
  BY <1>1, <1>2 DEF SnapshotEnd, Memory
<1>4. StdinOK(n)
  BY <1>1, <1>3, StdinFrame
<1> QED BY <1>2, <1>4 DEF StdinInv, SnapshotEnd

\* A line is sent to the commands
LEMMA EnqueueFields ==
  ASSUME NEW m, m \in Memory, m.cmdq = <<>>, NEW line
  PROVE  /\ Enqueue(m, line).reg = m.reg /\ Enqueue(m, line).owner = m.owner
         /\ Enqueue(m, line).ctx = m.ctx /\ Enqueue(m, line).q = m.q
         /\ Len(Enqueue(m, line).cmdq) = 1
<1>1. Len(m.cmdq) < MailboxCap
  BY ProgramsAssumption
<1>2. PICK s : s = FreeSlot(m)
  OBVIOUS
<1>3. PICK u : u = m.used \cup {s}
  OBVIOUS
<1>4. PICK next : next = (s + 1) % MailboxCap
  OBVIOUS
<1>5. PICK queue : queue = Append(m.cmdq, [slot |-> s, line |-> line])
  OBVIOUS
<1>6. Len(queue) = 1
  BY <1>5
<1>7. Enqueue(m, line) = [m EXCEPT !.used = u, !.cursor = next, !.cmdq = queue]
  BY <1>1, <1>2, <1>3, <1>4, <1>5 DEF Enqueue, Memory
<1> QED BY <1>6, <1>7 DEF Memory

\* A line is typed at the prompt
LEMMA TypeLineReads ==
  ASSUME ~TypeAhead, IInv, StdinInv, NEW line \in Lines, TypeLine(line)
  PROVE  StdinInv'
<1>1. /\ StdinOK(ram) /\ ram \in Memory /\ ram.owner \in Programs \cup {NoOwner}
      /\ NoOwner \notin Programs /\ "COUNTER" \in Programs /\ Games \subseteq Programs
      /\ card' = card
  BY DEF IInv, StdinInv, Sound, Memory, NoOwner, Programs, TypeLine, Games
<1>2. ram.cmdq = <<>> /\ \A p \in Programs \ ram.reg : ~ram.ctx[p].active
  BY DEF TypeLine, Prompted
<1>3. ram.owner = NoOwner
  BY <1>1 DEF TypeLine, term_stdin_owner_valid, StdinOK, OwnerReads
<1>4. CASE ram' = ram
  BY <1>1, <1>4 DEF StdinInv
<1>5. CASE ram' = Enqueue(ram, line)
  <2>1. PICK n : n = ram'
    OBVIOUS
  <2>2. /\ n.reg = ram.reg /\ n.owner = NoOwner /\ n.ctx = ram.ctx /\ n.q = ram.q
        /\ Len(n.cmdq) = 1
    BY <1>1, <1>2, <1>3, <1>5, <2>1, EnqueueFields
  <2>3. OwnerReads(n) /\ GamesRead(n) /\ StartsOK(n) /\ GivesBack(n)
    BY <1>1, <1>3, <2>2 DEF StdinOK, OwnerReads, GamesRead, StartsOK, GivesBack
  <2>4. OneCommand(n) /\ GoneIsEmpty(n)
    BY <1>1, <1>2, <2>2 DEF StdinOK, OneCommand, GoneIsEmpty
  <2> QED BY <1>1, <2>1, <2>3, <2>4 DEF StdinInv, StdinOK
<1> QED BY <1>4, <1>5 DEF TypeLine

\* A key is typed for the owner of stdin
LEMMA TypeKeyReads ==
  ASSUME IInv, StdinInv, NEW key, TypeKey(key)
  PROVE  StdinInv'
<1>1. /\ Sound(ram) /\ StdinOK(ram) /\ ram.owner \in Programs /\ Programs \subseteq AOs
      /\ card' = card
  BY DEF IInv, StdinInv, Sound, Memory, TypeKey, term_stdin_owner_valid, NoOwner, AOs
<1>2. PICK p \in Programs : p = ram.owner
  BY <1>1
<1>3. key \in UNION {Keys[r] : r \in Programs}
  BY <1>2 DEF TypeKey
<1>4. PICK e \in Event : e = [sig |-> "RAW", key |-> key] /\ e.sig # "START"
  <2>1. [sig |-> "RAW", key |-> key] \in Event /\ [sig |-> "RAW", key |-> key].sig # "START"
    BY <1>3 DEF Event
  <2> QED BY <2>1
<1>5. ram' = IF CanPost(ram, p) THEN sched_post(ram, p, e) ELSE ram
  BY <1>2, <1>4, Zenon DEF TypeKey
<1>6. CASE CanPost(ram, p)
  <2>1. PICK n : n = sched_post(ram, p, e)
    OBVIOUS
  <2>2. /\ n.reg = ram.reg /\ n.owner = ram.owner /\ n.ctx = ram.ctx /\ n.cmdq = ram.cmdq
        /\ n.q[p] = Append(ram.q[p], e) /\ \A r \in AOs : r # p => n.q[r] = ram.q[r]
    BY <1>1, <2>1, PostFields
  <2>3. p \in ram.reg
    BY <1>6 DEF CanPost
  <2>4. \A r \in Programs : \/ n.q[r] = ram.q[r]
                            \/ /\ r \in ram.reg
                               /\ \E f \in Event : f.sig # "START" /\ n.q[r] = Append(ram.q[r], f)
    BY <1>1, <1>4, <2>2, <2>3
  <2>5. StdinOK(n)
    BY <1>1, <2>2, <2>4, QueueGrows
  <2> QED BY <1>1, <1>5, <1>6, <2>1, <2>5 DEF StdinInv
<1>7. CASE ~CanPost(ram, p)
  BY <1>1, <1>5, <1>7 DEF StdinInv
<1> QED BY <1>6, <1>7

\* What a kill leaves
LEMMA KillFields ==
  ASSUME NEW m, Sound(m), NEW p \in AOs
  PROVE  /\ term_kill_task(m, p).reg = m.reg \ {p} /\ term_kill_task(m, p).ctx = m.ctx
         /\ term_kill_task(m, p).owner = IF m.owner = p THEN NoOwner ELSE m.owner
         /\ term_kill_task(m, p).cmdq = m.cmdq
         /\ term_kill_task(m, p).q[p] = <<>>
         /\ \A r \in AOs : r # p => term_kill_task(m, p).q[r] = m.q[r]
<1>1. PICK n : n = sched_unregister(m, p)
  OBVIOUS
<1>2. /\ n \in Memory /\ n.reg = m.reg \ {p} /\ n.ctx = m.ctx /\ n.owner = m.owner
      /\ n.cmdq = m.cmdq /\ n.q[p] = <<>> /\ \A r \in AOs : r # p => n.q[r] = m.q[r]
  BY <1>1, UnregisterFields DEF SameMail
<1>3. PICK o : o = IF m.owner = p THEN NoOwner ELSE m.owner
  OBVIOUS
<1>4. term_kill_task(m, p) = [n EXCEPT !.owner = o]
  BY <1>1, <1>2, <1>3 DEF term_kill_task
<1>5. PICK k : k = term_kill_task(m, p)
  OBVIOUS
<1>6. /\ k.reg = n.reg /\ k.ctx = n.ctx /\ k.owner = o /\ k.cmdq = n.cmdq /\ k.q = n.q
  BY <1>2, <1>4, <1>5 DEF Memory
<1> QED BY <1>2, <1>3, <1>5, <1>6

\* Ctrl-C
LEMMA CtrlCReads ==
  ASSUME IInv, StdinInv, CtrlC
  PROVE  StdinInv'
<1>1. /\ Sound(ram) /\ StdinOK(ram) /\ ram.owner \in Programs /\ Programs \subseteq AOs
      /\ ram.owner # NoOwner /\ card' = card
  BY DEF IInv, StdinInv, Sound, Memory, CtrlC, term_stdin_owner_valid, NoOwner, AOs
<1>2. PICK p \in Programs : p = ram.owner
  BY <1>1
<1>3. PICK n : n = ram'
  OBVIOUS
<1>4. n = term_kill_task(ram, p)
  BY <1>2, <1>3 DEF CtrlC
<1>5. /\ n.reg = ram.reg \ {p} /\ n.ctx = ram.ctx /\ n.cmdq = ram.cmdq /\ n.q[p] = <<>>
      /\ n.owner = IF ram.owner = p THEN NoOwner ELSE ram.owner
      /\ \A r \in AOs : r # p => n.q[r] = ram.q[r]
  BY <1>1, <1>4, KillFields
<1>6. ram.cmdq = <<>>
  BY <1>1 DEF StdinOK, OneCommand
<1>7. StdinOK(n)
  BY <1>1, <1>5, <1>6, LeaveReads
<1> QED BY <1>1, <1>3, <1>7 DEF StdinInv

-----------------------------------------------------------------------------
(* The commands and stdin *)

\* A command runs when the programs have nothing to do: it starts between two commands
LEMMA CommandCalm ==
  ASSUME IInv, StdinInv, NEW cmd, CmdRuns(cmd)
  PROVE  Sound(Popped) /\ Calm(Popped) /\ Popped.owner = NoOwner
<1>1. /\ Sound(ram) /\ StdinOK(ram) /\ ram.cmdq # <<>> /\ \A p \in AOs : ram.q[p] = <<>>
  BY DEF IInv, StdinInv, CmdRuns, ProgramsIdle
<1>2. /\ Sound(Popped) /\ Popped.cmdq = Tail(ram.cmdq) /\ Popped.reg = ram.reg
      /\ Popped.owner = ram.owner /\ Popped.ctx = ram.ctx /\ Popped.q = ram.q
  BY <1>1, PoppedSound
<1>3. /\ Len(ram.cmdq) = 1 /\ ram.owner = NoOwner
      /\ \A p \in Programs \ ram.reg : ~ram.ctx[p].active
  BY <1>1 DEF StdinOK, OneCommand
<1>4. Tail(ram.cmdq) = <<>>
  <2>1. ram.cmdq \in Seq([slot : MailSlots, line : Lines])
    BY <1>1 DEF Sound, Memory
  <2>2. PICK rest \in Seq([slot : MailSlots, line : Lines]) : rest = Tail(ram.cmdq)
    BY <1>1, <2>1, FirstAndRest
  <2>3. Len(rest) = 0
    BY <1>3, <2>1, <2>2
  <2> QED BY <2>2, <2>3
<1>5. /\ Games \subseteq Programs /\ Programs \subseteq AOs /\ NoOwner \notin Games
      /\ NoOwner # "COUNTER"
  BY DEF Games, Programs, AOs, NoOwner
<1>6. \A p \in Games : ~ram.ctx[p].active
  BY <1>1, <1>3, <1>5 DEF StdinOK, GamesRead
<1>7. PICK m : m = Popped
  OBVIOUS
<1>8. Calm(m)
  BY <1>1, <1>2, <1>3, <1>4, <1>5, <1>6, <1>7 DEF Calm
<1> QED BY <1>2, <1>3, <1>7, <1>8

\* A command ends: its slot says nothing about stdin
LEMMA CmdEndReads ==
  ASSUME NEW m, m \in Memory, StdinOK(m), CmdEnds(m), OnlyCounter(card')
  PROVE  StdinInv'
<1>1. PICK u : u = m.used \ {Command.slot}
  OBVIOUS
<1>2. PICK n : n = ram'
  OBVIOUS
<1>3. n = [m EXCEPT !.used = u]
  BY <1>1, <1>2 DEF CmdEnds, CmdSlotRelease
<1>4. /\ n.reg = m.reg /\ n.owner = m.owner /\ n.ctx = m.ctx /\ n.cmdq = m.cmdq /\ n.q = m.q
  BY <1>3 DEF Memory
<1>5. m.owner \in Programs \cup {NoOwner}
  BY DEF Memory
<1>6. StdinOK(n)
  BY <1>4, <1>5, StdinFrame
<1> QED BY <1>2, <1>6 DEF StdinInv

\* counter, line, snake
LEMMA CmdStartReads ==
  ASSUME IInv, StdinInv, FreshSession, CmdStart
  PROVE  StdinInv'
<1>1. CmdRuns("start") /\ card' = card /\ OnlyCounter(card)
  BY DEF CmdStart, StdinInv
<1>2. PICK l \in Lines : l = Command.line /\ l.cmd = "start"
  BY CommandFacts DEF CmdStart
<1>3. l.prog \in Programs /\ l.bg \in BOOLEAN /\ l.limit \in Word /\ (l.bg => l.prog = "COUNTER")
  BY <1>2, LinesAssumption
<1>4. Sound(Popped) /\ Calm(Popped) /\ Popped.owner = NoOwner /\ Popped.ctx = ram.ctx
  BY <1>1, CommandCalm, CommandFacts
<1>5. l.prog = "COUNTER" /\ ~l.bg => ~BackgroundRestored(Popped)
  BY <1>1, <1>2, <1>4 DEF FreshSession, BackgroundRestored
<1>6. PICK k : k = Popped
  OBVIOUS
<1>7. PICK m : m = request_start(Register(k, l.prog), l.prog, l.bg, l.limit)
  OBVIOUS
<1>8. StdinOK(m)
  BY <1>3, <1>4, <1>5, <1>6, <1>7, StartReads
<1>9. m \in Memory
  <2>1. Sound(Register(k, l.prog))
    BY <1>3, <1>4, <1>6, RegisterSound DEF Keeps
  <2> QED BY <1>3, <1>7, <2>1, StartSound DEF Keeps, Sound
<1>10. CmdEnds(m)
  BY <1>2, <1>6, <1>7 DEF CmdStart
<1> QED BY <1>1, <1>8, <1>9, <1>10, CmdEndReads

\* kill
LEMMA CmdKillReads ==
  ASSUME IInv, StdinInv, CmdKill
  PROVE  StdinInv'
<1>1. CmdRuns("kill") /\ card' = card /\ OnlyCounter(card)
  BY DEF CmdKill, StdinInv
<1>2. PICK l \in Lines : l = Command.line /\ l.cmd = "kill"
  BY CommandFacts DEF CmdKill
<1>3. PICK p \in AOs : p = l.prog
  BY <1>2, LinesAssumption
<1>4. PICK k : k = Popped
  OBVIOUS
<1>5. Sound(k) /\ Calm(k) /\ k.owner = NoOwner
  BY <1>1, <1>4, CommandCalm
<1>6. PICK m : m = IF p \in ram.reg THEN term_kill_task(k, p) ELSE k
  OBVIOUS
<1>7. CmdEnds(m)
  BY <1>2, <1>3, <1>4, <1>6 DEF CmdKill
<1>8. CASE m = k
  <2>1. StdinOK(m) /\ m \in Memory
    BY <1>5, <1>8, CalmReads DEF Sound
  <2> QED BY <1>1, <1>7, <2>1, CmdEndReads
<1>9. CASE m = term_kill_task(k, p)
  <2>1. m \in Memory
    BY <1>5, <1>9, KillSound DEF Keeps, Sound
  <2>2. /\ m.ctx = k.ctx /\ m.owner = NoOwner /\ m.cmdq = k.cmdq /\ m.q[p] = <<>>
        /\ \A r \in AOs : r # p => m.q[r] = k.q[r]
    BY <1>5, <1>9, KillFields
  <2>3. NoOwner # "COUNTER" /\ Programs \subseteq AOs
    BY DEF NoOwner, AOs
  <2>4. Calm(m)
    BY <1>5, <2>2, <2>3 DEF Calm
  <2> QED BY <1>1, <1>7, <2>1, <2>4, CalmReads, CmdEndReads
<1> QED BY <1>6, <1>8, <1>9

\* snapnow
LEMMA CmdSnapnowReads ==
  ASSUME IInv, StdinInv, CmdSnapnow
  PROVE  StdinInv'
<1>1. /\ CmdRuns("snapnow") /\ card' = card /\ OnlyCounter(card)
      /\ "SNAPSHOT" \in AOs /\ Programs \subseteq AOs /\ "SNAPSHOT" \notin Programs
  BY DEF CmdSnapnow, StdinInv, AOs, Programs
<1>2. PICK k : k = Popped
  OBVIOUS
<1>3. Sound(k) /\ Calm(k)
  BY <1>1, <1>2, CommandCalm
<1>4. PICK area \in BOOLEAN :
        CmdEnds(IF area /\ CanPost([k EXCEPT !.snap.enabled = area], "SNAPSHOT")
                THEN sched_post([k EXCEPT !.snap.enabled = area], "SNAPSHOT", [sig |-> "TRIGGER"])
                ELSE [k EXCEPT !.snap.enabled = area])
  BY <1>2, Zenon DEF CmdSnapnow
<1>5. k.snap \in [enabled : BOOLEAN, pending : BOOLEAN, busy : BOOLEAN] /\ k \in Memory
  BY <1>3 DEF Sound, Memory
<1>6. PICK s \in [enabled : BOOLEAN, pending : BOOLEAN, busy : BOOLEAN] :
        s = [k.snap EXCEPT !.enabled = area]
  BY <1>5
<1>7. s.pending = k.snap.pending /\ s.busy = k.snap.busy
  BY <1>5, <1>6
<1>8. PICK m : m = WithSnap(k, s)
  OBVIOUS
<1>9. Sound(m)
  <2>1. s.pending /\ ~s.busy /\ "SNAPSHOT" \in k.reg => k.q["SNAPSHOT"] # <<>>
    BY <1>3, <1>7 DEF Sound, TriggerOK
  <2> QED BY <1>3, <1>8, <2>1, SnapSound DEF Keeps
<1>10. Calm(m)
  BY <1>3, <1>5, <1>8, SnapFields, CalmFrame
<1>11. m = [k EXCEPT !.snap.enabled = area]
  BY <1>6, <1>8, Zenon DEF WithSnap
<1>12. PICK e \in Event : e = [sig |-> "TRIGGER"]
  BY DEF Event
<1>13. PICK n : n = IF area /\ CanPost(m, "SNAPSHOT") THEN sched_post(m, "SNAPSHOT", e) ELSE m
  OBVIOUS
<1>14. CmdEnds(n)
  BY <1>4, <1>11, <1>12, <1>13, Zenon
<1>15. n \in Memory /\ Calm(n)
  <2>1. CASE n = m
    BY <1>9, <1>10, <2>1 DEF Sound
  <2>2. CASE CanPost(m, "SNAPSHOT") /\ n = sched_post(m, "SNAPSHOT", e)
    <3>1. n \in Memory
      BY <1>1, <1>9, <2>2, PostSound DEF Keeps, Sound
    <3>2. /\ n.reg = m.reg /\ n.owner = m.owner /\ n.ctx = m.ctx /\ n.cmdq = m.cmdq
          /\ \A x \in Programs : n.q[x] = m.q[x]
      BY <1>1, <1>9, <2>2, PostFields
    <3> QED BY <1>10, <3>1, <3>2, CalmFrame
  <2> QED BY <1>13, <2>1, <2>2
<1> QED BY <1>1, <1>14, <1>15, CalmReads, CmdEndReads

\* The pending item of restore_sim
LEMMA SimCalm ==
  ASSUME NEW m, Sound(m), Calm(m), NEW b, b = Nothing \/ BlobOK("COUNTER", b)
  PROVE  Calm(WithSim(m, b)) /\ Sound(WithSim(m, b))
<1>1. Sound(WithSim(m, b))
  BY SimSound DEF Keeps
<1>2. PICK n : n = WithSim(m, b)
  OBVIOUS
<1>3. m \in Memory
  BY DEF Sound
<1>4. n.reg = m.reg /\ n.owner = m.owner /\ n.ctx = m.ctx /\ n.cmdq = m.cmdq /\ n.q = m.q
  BY <1>2, <1>3 DEF WithSim, Memory
<1>5. Calm(n)
  BY <1>4, CalmFrame
<1> QED BY <1>1, <1>2, <1>5

\* A command that leaves no event
LEMMA CalmEnds ==
  ASSUME NEW m, Sound(m), Calm(m), CmdEnds(m), OnlyCounter(card')
  PROVE  StdinInv'
BY CalmReads, CmdEndReads DEF Sound

\* ckptsave
LEMMA CmdCkptSaveReads ==
  ASSUME IInv, StdinInv, CmdCkptSave
  PROVE  StdinInv'
<1>1. CmdRuns("ckptsave") /\ card' = card /\ OnlyCounter(card)
  BY DEF CmdCkptSave, StdinInv
<1>2. PICK l \in Lines : l = Command.line /\ l.cmd = "ckptsave"
  BY CommandFacts DEF CmdCkptSave
<1>3. l.ops \in Seq(Operation)
  BY <1>2, LinesAssumption
<1>4. PICK b : b = counter_encode(ram.ctx["COUNTER"], l.ops)
  OBVIOUS
<1>5. BlobOK("COUNTER", b)
  <2>1. CounterOK(ram.ctx["COUNTER"])
    <3>1. Sound(ram) /\ "COUNTER" \in Programs
      BY DEF IInv, Programs
    <3> QED BY <3>1 DEF Sound, ContextOK
  <2> QED BY <1>3, <1>4, <2>1, CounterEncode
<1>6. PICK m : m = WithSim(Popped, b)
  OBVIOUS
<1>7. Sound(m) /\ Calm(m)
  BY <1>1, <1>5, <1>6, CommandCalm, SimCalm
<1>8. CmdEnds(m)
  BY <1>2, <1>4, <1>6, Zenon DEF CmdCkptSave, WithSim
<1> QED BY <1>1, <1>7, <1>8, CalmEnds

\* ckptload
LEMMA CmdCkptLoadReads ==
  ASSUME IInv, StdinInv, CmdCkptLoad
  PROVE  StdinInv'
<1>1. CmdRuns("ckptload") /\ card' = card /\ OnlyCounter(card) /\ Sound(ram)
  BY DEF CmdCkptLoad, StdinInv, IInv
<1>2. PICK k : k = Popped
  OBVIOUS
<1>3. Sound(k) /\ Calm(k) /\ k.owner = NoOwner
  BY <1>1, <1>2, CommandCalm
<1>4. CASE ram.sim = Nothing
  <2>1. CmdEnds(k)
    BY <1>2, <1>4 DEF CmdCkptLoad
  <2> QED BY <1>1, <1>3, <2>1, CalmEnds
<1>5. CASE ram.sim # Nothing
  <2>1. BlobOK("COUNTER", ram.sim) /\ "COUNTER" \in Programs
    BY <1>1, <1>5 DEF Sound, Programs
  <2>2. PICK a : a = ApplyRegion(k, "COUNTER", ram.sim, TRUE)
    OBVIOUS
  <2>3. Sound(a)
    BY <1>3, <2>1, <2>2, ApplyRegionSound DEF Keeps
  <2>4. Calm(a)
    BY <1>3, <2>1, <2>2, ApplyCalm
  <2>5. PICK m : m = WithSim(a, Nothing)
    OBVIOUS
  <2>6. Sound(m) /\ Calm(m)
    BY <2>3, <2>4, <2>5, SimCalm
  <2>7. CmdEnds(m)
    BY <1>2, <1>5, <2>2, <2>5, Zenon DEF CmdCkptLoad, WithSim
  <2> QED BY <1>1, <2>6, <2>7, CalmEnds
<1> QED BY <1>4, <1>5

\* restoresim and its likes
LEMMA CmdRestoreSimReads ==
  ASSUME IInv, StdinInv, CmdRestoreSim
  PROVE  StdinInv'
<1>1. CmdRuns("restoresim") /\ card' = card /\ OnlyCounter(card)
  BY DEF CmdRestoreSim, StdinInv
<1>2. PICK l \in Lines : l = Command.line /\ l.cmd = "restoresim"
  BY CommandFacts DEF CmdRestoreSim
<1>3. PICK b : b = SimBlob(l)
  OBVIOUS
<1>4. BlobOK("COUNTER", b) /\ "COUNTER" \in Programs
  BY <1>2, <1>3, SimBlobSound DEF Programs
<1>5. PICK k : k = Popped
  OBVIOUS
<1>6. Sound(k) /\ Calm(k) /\ k.owner = NoOwner
  BY <1>1, <1>5, CommandCalm
<1>7. PICK a : a = ApplyRegion(k, "COUNTER", b, TRUE)
  OBVIOUS
<1>8. Sound(a)
  BY <1>4, <1>6, <1>7, ApplyRegionSound DEF Keeps
<1>9. Calm(a)
  BY <1>4, <1>6, <1>7, ApplyCalm
<1>10. PICK m : m = WithSim(a, Nothing)
  OBVIOUS
<1>11. Sound(m) /\ Calm(m)
  BY <1>8, <1>9, <1>10, SimCalm
<1>12. PICK n : n = IF l.ops = <<>> THEN SetOwner(m, NoOwner) ELSE m
  OBVIOUS
<1>13. Sound(n) /\ Calm(n)
  <2>1. NoOwner \notin Games
    BY DEF NoOwner, Games
  <2>2. Sound(SetOwner(m, NoOwner)) /\ Calm(SetOwner(m, NoOwner))
    BY <1>11, <2>1, SetOwnerSound, CalmNoOwner DEF Keeps
  <2> QED BY <1>11, <1>12, <2>2
<1>14. CmdEnds(n)
  BY <1>2, <1>3, <1>5, <1>7, <1>10, <1>12, Zenon DEF CmdRestoreSim, WithSim, SetOwner
<1> QED BY <1>1, <1>13, <1>14, CalmEnds

\* ckptsave_sd: a game that runs has stdin, and no command is typed then
LEMMA CmdCkptSaveSdReads ==
  ASSUME IInv, StdinInv, CmdCkptSaveSd
  PROVE  StdinInv'
<1>1. CmdRuns("ckptsave_sd") /\ CmdEnds(Popped) /\ OnlyCounter(card)
  BY DEF CmdCkptSaveSd, StdinInv
<1>2. Sound(Popped) /\ Calm(Popped) /\ Popped.ctx = ram.ctx
  BY <1>1, CommandCalm, CommandFacts
<1>3. PICK P \in SUBSET Programs : P = {r \in Programs \cap ram.reg : ram.ctx[r].active}
  OBVIOUS
<1>4. P \subseteq {"COUNTER"}
  BY <1>2, <1>3 DEF Calm, Programs, Games
<1>5. PICK saved : saved = [p \in P |-> Encode(p, ram.ctx[p])]
  OBVIOUS
<1>6. saved = Saved(ram) /\ DOMAIN saved = P
  BY <1>3, <1>5, Zenon DEF Saved
<1>7. card' \in {card, saved}
  BY <1>6 DEF CmdCkptSaveSd
<1>8. OnlyCounter(card')
  BY <1>1, <1>4, <1>6, <1>7 DEF OnlyCounter
<1> QED BY <1>1, <1>2, <1>8, CalmEnds

\* ckptload_sd
LEMMA CmdCkptLoadSdReads ==
  ASSUME IInv, StdinInv, CmdCkptLoadSd
  PROVE  StdinInv'
<1>1. CmdRuns("ckptload_sd") /\ card' = card /\ OnlyCounter(card) /\ SavedOK(card)
  BY DEF CmdCkptLoadSd, StdinInv, IInv
<1>2. PICK k : k = Popped
  OBVIOUS
<1>3. Sound(k) /\ Calm(k) /\ k.owner = NoOwner
  BY <1>1, <1>2, CommandCalm
<1>4. PICK m : m = ApplyCheckpoint(k, card, TRUE)
  OBVIOUS
<1>5. Sound(m) /\ Calm(m)
  BY <1>1, <1>3, <1>4, CheckpointCalm
<1>6. CmdEnds(m)
  BY <1>2, <1>4 DEF CmdCkptLoadSd
<1> QED BY <1>1, <1>5, <1>6, CalmEnds

\* A cold boot
LEMMA ColdBootReads ==
  ASSUME IInv, StdinInv, ColdBoot
  PROVE  StdinInv'
<1>1. PICK restore \in BOOLEAN, area \in BOOLEAN :
        ram' = ColdRam(IF restore THEN card ELSE NoPrograms, area)
  BY DEF ColdBoot
<1>2. PICK saved : saved = IF restore THEN card ELSE NoPrograms
  OBVIOUS
<1>3. SavedOK(saved) /\ OnlyCounter(saved)
  <2>1. SavedOK(NoPrograms) /\ OnlyCounter(NoPrograms)
    BY DEF SavedOK, OnlyCounter, NoPrograms
  <2> QED BY <1>2, <2>1 DEF IInv, StdinInv
<1>4. StdinOK(ram')
  BY <1>1, <1>2, <1>3, ColdCalm, CalmReads
<1> QED BY <1>4 DEF StdinInv, ColdBoot

\* The owner reads, and a game that runs has stdin
LEMMA StdinReads ==
  ASSUME IInv, StdinInv
  PROVE  StdinSound
<1>1. TypeOK
  BY Types
<1>2. OwnerListens
  BY DEF StdinInv, StdinOK, OwnerReads, HasStart, OwnerListens
<1>3. GameHasStdin
  BY DEF StdinInv, StdinOK, GamesRead, GameHasStdin
<1> QED BY <1>1, <1>2, <1>3 DEF StdinSound

\* The invariant that stdin rests on
LEMMA StdinStep ==
  ASSUME ~TypeAhead, IInv, StdinInv, FreshSession, [Next]_vars, ~resumed'
  PROVE  StdinInv'
<1>1. ASSUME NEW due \in SUBSET Timers, SysTick(due) PROVE StdinInv'
  BY <1>1, SysTickReads
<1>2. ASSUME NEW p \in Programs, Dispatch(p) PROVE StdinInv'
  BY <1>2, DispatchReads
<1>3. CASE SnapshotBegin
  BY <1>3, SnapshotBeginReads
<1>4. CASE SnapshotEnd
  BY <1>4, SnapshotEndReads
<1>5. ASSUME NEW line \in Lines, TypeLine(line) PROVE StdinInv'
  BY <1>5, TypeLineReads
<1>6. ASSUME NEW key, TypeKey(key) PROVE StdinInv'
  BY <1>6, TypeKeyReads
<1>7. CASE CtrlC
  BY <1>7, CtrlCReads
<1>8. CASE TtyEnd
  BY <1>8 DEF TtyEnd, StdinInv
<1>9. CASE CmdStart
  BY <1>9, CmdStartReads
<1>10. CASE CmdKill
  BY <1>10, CmdKillReads
<1>11. CASE CmdSnapnow
  BY <1>11, CmdSnapnowReads
<1>12. CASE CmdCkptSave
  BY <1>12, CmdCkptSaveReads
<1>13. CASE CmdCkptLoad
  BY <1>13, CmdCkptLoadReads
<1>14. CASE CmdRestoreSim
  BY <1>14, CmdRestoreSimReads
<1>15. CASE CmdCkptSaveSd
  BY <1>15, CmdCkptSaveSdReads
<1>16. CASE CmdCkptLoadSd
  BY <1>16, CmdCkptLoadSdReads
<1>17. CASE ColdBoot
  BY <1>17, ColdBootReads
<1>18. CASE Resume
  BY <1>18 DEF Resume
<1>19. CASE UNCHANGED vars
  BY <1>19 DEF vars, StdinInv
<1> QED BY <1>1, <1>2, <1>3, <1>4, <1>5, <1>6, <1>7, <1>8, <1>9, <1>10, <1>11, <1>12,
           <1>13, <1>14, <1>15, <1>16, <1>17, <1>18, <1>19 DEF Next

\* For a user who waits for the prompt (~TypeAhead), in a session that was not
\* resumed and in which no counter is started in the foreground over a restored one in
\* the background (FreshSession), the owner of stdin is a program that reads it or is
\* about to start, and a running game has it
THEOREM StdinWithItsReader ==
  ASSUME ~TypeAhead
  PROVE  Spec /\ []FreshSession => []StdinSound
<1>1. Init => StdinInv
  <2> SUFFICES ASSUME Init PROVE StdinInv
    OBVIOUS
  <2>1. SavedOK(card) /\ OnlyCounter(card) /\ ram = ColdRam(card, TRUE)
    BY DEF Init, NoPrograms, SavedOK, OnlyCounter
  <2>2. StdinOK(ram)
    BY <2>1, ColdCalm, CalmReads
  <2> QED BY <2>1, <2>2 DEF StdinInv
<1>2. IInv /\ StdinInv /\ FreshSession /\ FreshSession' /\ [Next]_vars => StdinInv'
  <2>1. FreshSession' => ~resumed'
    BY DEF FreshSession
  <2> QED BY <2>1, StdinStep
<1>3. IInv /\ StdinInv => StdinSound
  BY StdinReads
<1> QED BY <1>1, <1>2, <1>3, Inductive, PTL DEF Spec

=============================================================================
